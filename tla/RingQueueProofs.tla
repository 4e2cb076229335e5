---------------------------- MODULE RingQueueProofs ----------------------------
(***************************************************************************)
(* rapid_ring for any size, any number of threads and blocks of any size:  *)
(* no cursor runs ahead, no two threads copy one slot, and the queue is a   *)
(* bounded first-in first-out channel.                                     *)
(*                                                                         *)
(* One of the two ends has to be of kind "st", as in every alias that a     *)
(* program uses.  A thread that walks the chain of an "mt" barrier takes an *)
(* entry for the position it stands on; that the entry is not one of a      *)
(* later lap follows from the thread's own positions, which nobody else of  *)
(* its side can have passed.  With several threads on both ends somebody    *)
(* else can, and the chain leads ahead.                                     *)
(***************************************************************************)
EXTENDS RingQueue, FiniteSetTheorems, FunctionTheorems, NaturalsInduction,
        WellFoundedInduction, SequenceTheorems, TLAPS

\* One end serves a single thread (rapid_ring, all aliases but the last).
OneEndSingle == \A u \in Uses : u.kind["w"] = "st" \/ u.kind["r"] = "st"

Opp(s) == IF s = "w" THEN "r" ELSE "w"

\* The positions a side has copied.
Copied(s) == IF s = "w" THEN DOMAIN sent ELSE DOMAIN rcvd

\* All positions below v are finished.
Before(s, v) == Size .. v - 1 \subseteq Done(s)

\* Thread t has positions of its own.
Owns(t) == pc[t] \in {"copy", "set"} \/ (pc[t] # "idle" /\ loc[t].mode = "block")

Places == {"idle", "check", "load", "store", "again", "pre", "loop", "next", "cas",
           "advanced", "claim", "copy", "set"}

RingTypeOK ==
  /\ use \in Uses
  /\ reserve \in [Side -> Nat] /\ ready \in [Side -> Nat] /\ cache \in [Side -> Nat]
  /\ barrier \in [Side -> [Slots -> Nat]]
  /\ DOMAIN buffer = Slots
  /\ pc \in [Threads -> Places]
  /\ loc \in [Threads -> [base : Nat, size : 0 .. Size, mode : {"block", "try"},
                          pre : Nat, seen : Nat]]

\* The call of a thread: its positions were never handed out to another one,
\* and what it waits for lies behind it from its copy on.
CallOk(t) ==
  pc[t] # "idle" =>
    /\ Kind[Own(t)] = "st" =>
         /\ t = Only(Own(t))
         /\ reserve[Own(t)] = IF Owns(t) THEN End(t) ELSE loc[t].base
    /\ loc[t].base >= Size /\ loc[t].size > 0
    /\ IF Owns(t) THEN End(t) <= reserve[Own(t)] ELSE loc[t].base <= reserve[Own(t)]
    /\ pc[t] = "set" => Held(t) \subseteq Copied(Own(t))
    /\ Owns(t) /\ pc[t] # "set" => Held(t) \cap Copied(Own(t)) = {}
    /\ pc[t] = "claim" => loc[t].mode = "try"
    /\ pc[t] \in {"claim", "copy", "set"} => Before(Other(t), Min(t))
    /\ pc[t] \in {"pre", "loop", "next", "cas", "advanced"} => Kind[Other(t)] = "mt"
    /\ pc[t] = "again" => Kind[Other(t)] = "st"

CallInv == \A t \in Threads : CallOk(t)

\* The positions handed out are finished or belong to one thread.
ShareInv ==
  /\ \A s \in Side :
       /\ reserve[s] >= Size
       /\ Copied(s) \subseteq Size .. reserve[s] - 1
       /\ \A k \in Size .. reserve[s] - 1 :
            k \in Done(s) \/ \E t \in Threads : Own(t) = s /\ Owns(t) /\ k \in Held(t)
  /\ \A t, u \in Threads :
       t # u /\ Own(t) = Own(u) /\ Owns(t) /\ Owns(u) => Held(t) \cap Held(u) = {}

\* Each side follows the other: what is read was filled, and what is filled
\* again was read.
LapInv ==
  /\ \A k \in Done("r") : Before("w", k + 1)
  /\ \A k \in Done("w") : Before("r", k + 1 - Size)

\* No cursor, and no copy of one, is ahead.
CursorInv ==
  /\ \A s \in Side : Before(s, ready[s]) /\ Before(s, cache[s])
  /\ \A t \in Threads : Before(Other(t), loc[t].seen) /\ Before(Other(t), loc[t].pre)

\* An entry of barrier_[] was set by a block that begins in its slot.
EntryOk(s, i, e) ==
  e # 0 => \E b \in Size .. e - 1 : b % Size = i /\ e <= b + Size /\ b .. e - 1 \subseteq Done(s)

EntryInv == \A s \in Side, i \in Slots : EntryOk(s, i, barrier[s][i])

\* The position that a thread has come to in the order of its side.
Reached(t) ==
  (CASE pc[t] = "idle" -> reserve[Own(t)]
     [] pc[t] \in {"claim", "copy", "set"} -> End(t)
     [] OTHER -> loc[t].base) - (IF t \in Producers THEN Size ELSE 0)

\* The one thread that waits on an "mt" barrier moves ready_ and ready_cache_
\* alone, and never looks back behind its own positions.
WaiterOk(s, t) ==
    /\ cache[s] <= ready[s]
    /\ Reached(t) <= cache[s]
    /\ pc[t] = "store" => loc[t].seen = ready[s]
    /\ pc[t] \in {"pre", "loop", "next", "cas"} => loc[t].seen = ready[s] /\ cache[s] = ready[s]
    /\ pc[t] \in {"loop", "next", "cas"} => loc[t].pre >= ready[s]
    /\ pc[t] = "advanced" => loc[t].pre = ready[s]

WaiterInv == \A s \in Side : Kind[s] = "mt" => WaiterOk(s, Only(Opp(s)))

\* What is to be read is in its slot, and what was read is what was filled.
BufferInv ==
  /\ \A k \in DOMAIN sent : k \notin Done("r") => buffer[Slot(k)] = sent[k]
  /\ \A k \in DOMAIN rcvd : k \in DOMAIN sent /\ rcvd[k] = sent[k]

RingInv ==
  /\ RingTypeOK /\ CallInv /\ ShareInv /\ LapInv /\ CursorInv /\ EntryInv /\ WaiterInv
  /\ BufferInv

-----------------------------------------------------------------------------
(* Lemmas.                                                                  *)

(* The side of a thread, and the one thread of a side.                      *)
LEMMA SideFacts ==
  /\ \A t \in Threads :
       /\ Own(t) \in Side /\ Other(t) \in Side /\ Other(t) = Opp(Own(t)) /\ Own(t) = Opp(Other(t))
       /\ Own(t) = "w" <=> t \in Producers
       /\ Own(t) = "r" <=> t \in Consumers
       /\ Other(t) # Own(t)
  /\ \A s \in Side : Opp(s) \in Side /\ Opp(Opp(s)) = s /\ Opp(s) # s
  /\ \A s \in Side : Only(s) \in Threads /\ Own(Only(s)) = s
<1>1. \A s \in Side : \E t \in Threads : Own(t) = s
  BY ThreadAssumption DEF Side, Threads, Own
<1>2. \A s \in Side : Only(s) \in Threads /\ Own(Only(s)) = s
  BY <1>1 DEF Only
<1>3. \A t \in Threads :
       /\ Own(t) \in Side /\ Other(t) \in Side /\ Other(t) = Opp(Own(t)) /\ Own(t) = Opp(Other(t))
       /\ Own(t) = "w" <=> t \in Producers
       /\ Own(t) = "r" <=> t \in Consumers
       /\ Other(t) # Own(t)
  BY ThreadAssumption DEF Side, Threads, Own, Other, Opp
<1>4. \A s \in Side : Opp(s) \in Side /\ Opp(Opp(s)) = s /\ Opp(s) # s
  BY DEF Side, Opp
<1> QED BY <1>2, <1>3, <1>4

(* The quotient of a natural number, with the remainder it leaves.          *)
LEMMA NatDivision ==
  ASSUME NEW a \in Nat, NEW b \in Nat \ {0}
  PROVE  /\ a \div b \in Nat
         /\ (a % b) \in 0 .. b - 1
         /\ a = (a \div b) * b + (a % b)
BY SMT

(* Two positions in one slot are a lap apart.                               *)
LEMMA SlotFar ==
  ASSUME NEW a \in Nat, NEW b \in Nat, a < b, a % Size = b % Size
  PROVE  a + Size <= b
<1>0. Size \in Nat \ {0}
  BY SizeAssumption
<1> DEFINE x == a \div Size
           y == b \div Size
           r == a % Size
<1>1. /\ a \div Size \in Nat /\ a = (a \div Size) * Size + (a % Size) /\ a % Size \in Nat
      /\ b \div Size \in Nat /\ b = (b \div Size) * Size + (b % Size)
  <2>1. a \div Size \in Nat /\ a = (a \div Size) * Size + (a % Size) /\ a % Size \in 0 .. Size - 1
    BY ONLY <1>0, NatDivision, a \in Nat
  <2>2. b \div Size \in Nat /\ b = (b \div Size) * Size + (b % Size)
    BY ONLY <1>0, NatDivision, b \in Nat
  <2>3. a % Size \in Nat
    BY <1>0, <2>1
  <2> QED BY <2>1, <2>2, <2>3
<1>2. x \in Nat /\ y \in Nat /\ r \in Nat /\ a = x * Size + r /\ b = y * Size + r
  BY <1>1
<1> HIDE DEF x, y, r
<1>3. x * Size \in Nat /\ y * Size \in Nat
  BY <1>0, <1>2
<1>4. ~(y <= x)
  <2> SUFFICES ASSUME y <= x PROVE FALSE
    OBVIOUS
  <2>1. x - y \in Nat BY <1>2
  <2>2. (x - y) * Size \in Nat BY <1>0, <2>1
  <2>3. (x - y) * Size = x * Size - y * Size BY <1>0, <1>2
  <2> QED BY <1>2, <1>3, <2>2, <2>3
<1>5. y - x - 1 \in Nat
  BY <1>2, <1>4
<1>6. (y - x - 1) * Size \in Nat
  BY <1>0, <1>5
<1>7. (y - x - 1) * Size = y * Size - x * Size - Size
  BY <1>0, <1>2
<1> QED BY <1>0, <1>2, <1>3, <1>6, <1>7

(* The slot of a position.                                                  *)
LEMMA SlotType ==
  ASSUME NEW a \in Nat
  PROVE  Slot(a) \in Slots
BY SizeAssumption DEF Slot, Slots

(* What is finished: copied, and not by a thread that has yet to set.       *)
LEMMA DoneIs ==
  ASSUME NEW s, NEW k
  PROVE  k \in Done(s) <=>
           /\ k \in Copied(s)
           /\ \A u \in Threads : Own(u) = s /\ pc[u] = "set" => k \notin Held(u)
BY DEF Done, Unset, Copied

(* The types of a thread's call.                                            *)
LEMMA CallTypes ==
  ASSUME RingTypeOK, NEW t \in Threads
  PROVE  /\ loc[t].base \in Nat /\ loc[t].size \in 0 .. Size /\ loc[t].pre \in Nat /\ loc[t].seen \in Nat
         /\ loc[t].mode \in {"block", "try"} /\ pc[t] \in Places
         /\ loc[t] = [base |-> loc[t].base, size |-> loc[t].size, mode |-> loc[t].mode,
                      pre |-> loc[t].pre, seen |-> loc[t].seen]
         /\ End(t) \in Nat /\ Min(t) \in Int /\ Size \in Nat \ {0}
         /\ reserve[Own(t)] \in Nat /\ cache[Other(t)] \in Nat /\ ready[Other(t)] \in Nat
         /\ Kind[Own(t)] \in {"st", "mt"} /\ Kind[Other(t)] \in {"st", "mt"}
<1>1. loc[t] \in [base : Nat, size : 0 .. Size, mode : {"block", "try"}, pre : Nat, seen : Nat]
  BY DEF RingTypeOK
<1>2. Size \in Nat \ {0}
  BY SizeAssumption
<1>3. End(t) \in Nat /\ Min(t) \in Int
  BY <1>1, <1>2 DEF End, Min
<1>4. Kind \in [Side -> {"st", "mt"}]
  BY UsesAssumption DEF RingTypeOK, Kind
<1> QED BY <1>1, <1>2, <1>3, <1>4, SideFacts DEF RingTypeOK

(* At the start nothing is handed out.                                      *)
LEMMA RingInit == Init => RingInv
<1> SUFFICES ASSUME Init PROVE RingInv
  OBVIOUS
<1>0. Size \in Nat \ {0}
  BY SizeAssumption
<1>1. /\ \A s \in Side : reserve[s] = Size /\ ready[s] = Size /\ cache[s] = Size
      /\ \A s \in Side, i \in Slots : barrier[s][i] = 0
      /\ \A t \in Threads : pc[t] = "idle" /\ loc[t].seen = 0 /\ loc[t].pre = 0
      /\ DOMAIN sent = {} /\ DOMAIN rcvd = {}
  BY DEF Init
<1>2. \A s \in Side : Copied(s) = {} /\ Done(s) = {}
  BY <1>1 DEF Copied, Done
<1>3. RingTypeOK
  <2>1. loc \in [Threads -> [base : Nat, size : 0 .. Size, mode : {"block", "try"},
                          pre : Nat, seen : Nat]]
    BY <1>0 DEF Init
  <2>2. pc \in [Threads -> Places]
    BY DEF Init, Places
  <2>3. barrier \in [Side -> [Slots -> Nat]]
    BY DEF Init
  <2> QED BY <1>0, <2>1, <2>2, <2>3 DEF Init, RingTypeOK
<1>4. CallInv
  BY <1>1 DEF CallInv, CallOk
<1>5. ShareInv
  BY <1>0, <1>1, <1>2 DEF ShareInv, Owns
<1>6. LapInv
  BY <1>2 DEF LapInv, Side
<1>7. CursorInv
  BY <1>0, <1>1 DEF CursorInv, Before
<1>8. EntryInv
  BY <1>1 DEF EntryInv, EntryOk
<1>9. WaiterInv
  <2> SUFFICES ASSUME NEW s \in Side PROVE WaiterOk(s, Only(Opp(s)))
    BY DEF WaiterInv
  <2>1. Only(Opp(s)) \in Threads /\ Own(Only(Opp(s))) \in Side
    BY SideFacts
  <2> QED BY <1>0, <1>1, <2>1 DEF WaiterOk, Reached
<1>10. BufferInv
  BY <1>1 DEF BufferInv
<1> QED BY <1>3, <1>4, <1>5, <1>6, <1>7, <1>8, <1>9, <1>10 DEF RingInv

-----------------------------------------------------------------------------
(* The steps of wait and try_wait.                                          *)

\* The places within wait.
Waiting == {"check", "load", "store", "again", "pre", "loop", "next", "cas", "advanced"}

\* What the steps of a thread do to its place and its locals.
Locals == [base : Nat, size : 0 .. Size, mode : {"block", "try"}, pre : Nat, seen : Nat]

Moves(t, l) ==
  /\ pc' \in [Threads -> Places] /\ pc'[t] = l
  /\ \A u \in Threads : u # t => pc'[u] = pc[u]

SameCalls(t, pre, seen) ==
  /\ loc' \in [Threads -> Locals]
  /\ \A u \in Threads :
       /\ u # t => loc'[u] = loc[u]
       /\ loc'[u].base = loc[u].base /\ loc'[u].size = loc[u].size /\ loc'[u].mode = loc[u].mode
  /\ loc'[t].pre = pre /\ loc'[t].seen = seen

(* A step to another place of the call.                                     *)
LEMMA GotoMoves ==
  ASSUME RingTypeOK, NEW t \in Threads, NEW l \in Places, Goto(t, l)
  PROVE  Moves(t, l)
BY DEF RingTypeOK, Goto, Moves

(* A step that leaves the locals alone.                                     *)
LEMMA LocalsStay ==
  ASSUME RingTypeOK, NEW t \in Threads, UNCHANGED loc
  PROVE  SameCalls(t, loc[t].pre, loc[t].seen)
BY DEF RingTypeOK, SameCalls, Locals

(* A step that sets pre.                                                    *)
LEMMA LocalsPre ==
  ASSUME RingTypeOK, NEW t \in Threads, NEW v \in Nat, loc' = [loc EXCEPT ![t].pre = v]
  PROVE  SameCalls(t, v, loc[t].seen)
<1>1. loc \in [Threads -> Locals]
  BY DEF RingTypeOK, Locals
<1>2. [loc[t] EXCEPT !.pre = v] \in Locals
  BY <1>1 DEF Locals
<1>3. loc'[t] = [loc[t] EXCEPT !.pre = v] /\ \A u \in Threads : u # t => loc'[u] = loc[u]
  BY <1>1
<1>4. loc' \in [Threads -> Locals]
  BY <1>1, <1>2
<1>5. loc[t] \in Locals
  BY <1>1
<1> QED BY <1>3, <1>4, <1>5 DEF SameCalls, Locals

(* A step that sets seen.                                                   *)
LEMMA LocalsSeen ==
  ASSUME RingTypeOK, NEW t \in Threads, NEW v \in Nat, loc' = [loc EXCEPT ![t].seen = v]
  PROVE  SameCalls(t, loc[t].pre, v)
<1>1. loc \in [Threads -> Locals]
  BY DEF RingTypeOK, Locals
<1>2. [loc[t] EXCEPT !.seen = v] \in Locals
  BY <1>1 DEF Locals
<1>3. loc'[t] = [loc[t] EXCEPT !.seen = v] /\ \A u \in Threads : u # t => loc'[u] = loc[u]
  BY <1>1
<1>4. loc' \in [Threads -> Locals]
  BY <1>1, <1>2
<1>5. loc[t] \in Locals
  BY <1>1
<1> QED BY <1>3, <1>4, <1>5 DEF SameCalls, Locals

(* A step that leaves wait.                                                 *)
LEMMA LeaveFacts ==
  ASSUME RingTypeOK, NEW t \in Threads, NEW l \in Places, Leave(t, l)
  PROVE  Moves(t, l) /\ SameCalls(t, 0, 0)
<1>1. loc \in [Threads -> Locals]
  BY DEF RingTypeOK, Locals
<1>2. [[loc[t] EXCEPT !.pre = 0] EXCEPT !.seen = 0] \in Locals
  BY <1>1 DEF Locals
<1>3. loc' = [loc EXCEPT ![t].pre = 0, ![t].seen = 0]
  BY DEF Leave
<1>4. loc'[t] = [[loc[t] EXCEPT !.pre = 0] EXCEPT !.seen = 0]
      /\ \A u \in Threads : u # t => loc'[u] = loc[u]
  BY <1>1, <1>3
<1>5. loc' \in [Threads -> Locals]
  BY <1>1, <1>2, <1>3, <1>4
<1>6. loc[t] \in Locals
  BY <1>1
<1> QED BY <1>4, <1>5, <1>6, GotoMoves DEF SameCalls, Locals, Leave

(* What is finished stays finished when nothing is copied or set.           *)
LEMMA DoneSame ==
  ASSUME UNCHANGED <<sent, rcvd>>,
         \A u \in Threads : pc[u] = "set" \/ pc'[u] = "set" =>
           pc'[u] = pc[u] /\ loc'[u].base = loc[u].base /\ loc'[u].size = loc[u].size
  PROVE  /\ \A s : Done(s)' = Done(s) /\ Copied(s)' = Copied(s)
         /\ \A s, v : Before(s, v)' <=> Before(s, v)
<1>1. \A u \in Threads : /\ pc'[u] = "set" <=> pc[u] = "set"
                         /\ pc[u] = "set" => Held(u)' = Held(u)
  BY DEF Held, End
<1>2. ASSUME NEW s PROVE Copied(s)' = Copied(s)
  BY DEF Copied
<1>3. ASSUME NEW s PROVE Unset(s)' = Unset(s)
  <2>1. \A k : k \in Unset(s)' <=> \E u \in Threads : Own(u) = s /\ pc'[u] = "set" /\ k \in Held(u)'
    BY DEF Unset, Own
  <2>2. \A k : k \in Unset(s) <=> \E u \in Threads : Own(u) = s /\ pc[u] = "set" /\ k \in Held(u)
    BY DEF Unset
  <2>3. \A k : k \in Unset(s)' <=> k \in Unset(s)
    BY <1>1, <2>1, <2>2
  <2>4. Unset(s)' = UNION {Held(u)' : u \in {v \in Threads : Own(v) = s /\ pc'[v] = "set"}}
    BY DEF Unset, Own
  <2>5. Unset(s) = UNION {Held(u) : u \in {v \in Threads : Own(v) = s /\ pc[v] = "set"}}
    BY DEF Unset
  <2> QED BY <2>3, <2>4, <2>5
<1>4. ASSUME NEW s PROVE Done(s)' = Done(s)
  BY <1>3 DEF Done
<1>5. \A s, v : Before(s, v)' <=> Before(s, v)
  BY <1>4 DEF Before
<1> QED BY <1>2, <1>4, <1>5

(* A step within wait: everything but what the only waiter of an "mt"       *)
(* barrier knows of it.                                                     *)
LEMMA WaitFrame ==
  ASSUME RingInv, NEW t \in Threads, UNCHANGED <<use, reserve, barrier, buffer, sent, rcvd>>,
         pc[t] \in Waiting, NEW l \in Places \ {"set"}, Moves(t, l),
         NEW pre \in Nat, NEW seen \in Nat, SameCalls(t, pre, seen),
         Before(Other(t), pre), Before(Other(t), seen),
         cache' \in [Side -> Nat], ready' \in [Side -> Nat],
         \A s \in Side : Before(s, cache'[s]) /\ Before(s, ready'[s]),
         l = "idle" => loc[t].mode = "try",
         l \in {"claim", "copy"} => /\ l = "claim" <=> loc[t].mode = "try"
                                    /\ Before(Other(t), Min(t)),
         l \in {"pre", "loop", "next", "cas", "advanced"} => Kind[Other(t)] = "mt",
         l = "again" => Kind[Other(t)] = "st"
  PROVE  RingTypeOK' /\ CallInv' /\ ShareInv' /\ LapInv' /\ CursorInv' /\ EntryInv' /\ BufferInv'
<1>0. /\ RingTypeOK /\ CallOk(t) /\ pc[t] # "idle" /\ pc[t] # "set"
      /\ loc[t].mode \in {"try", "block"}
  BY CallTypes DEF RingInv, CallInv, Waiting
<1>1. RingTypeOK'
  BY DEF RingInv, RingTypeOK, Moves, SameCalls, Locals
<1>2. /\ \A s : Done(s)' = Done(s) /\ Copied(s)' = Copied(s)
      /\ \A s, v : Before(s, v)' <=> Before(s, v)
  BY <1>0, DoneSame DEF Moves, SameCalls
<1>3. \A u \in Threads :
        /\ End(u)' = End(u) /\ Held(u)' = Held(u) /\ Min(u)' = Min(u)
        /\ Owns(u)' <=> Owns(u)
  <2> TAKE u \in Threads
  <2>1. End(u)' = End(u) /\ Held(u)' = Held(u) /\ Min(u)' = Min(u)
    BY DEF SameCalls, End, Held, Min
  <2>2. CASE u # t
    BY <2>1, <2>2 DEF Moves, SameCalls, Owns
  <2>3. CASE u = t
    <3>1. Owns(t) <=> loc[t].mode = "block"
      BY <1>0 DEF Owns, Waiting
    <3>2. Owns(t)' <=> (l = "copy" \/ (l # "idle" /\ loc[t].mode = "block"))
      BY <1>0 DEF Moves, SameCalls, Owns
    <3> QED BY <1>0, <2>1, <2>3, <3>1, <3>2
  <2> QED BY <2>2, <2>3
<1>4. \A u \in Threads : Own(u)' = Own(u) /\ Other(u)' = Other(u)
  BY DEF Own, Other
<1>5. Kind' = Kind
  BY DEF Kind
<1>6. CallInv'
  <2> SUFFICES ASSUME NEW u \in Threads PROVE CallOk(u)'
    BY DEF CallInv
  <2>1. CASE u # t
    <3>1. CallOk(u) /\ pc'[u] = pc[u] /\ loc'[u] = loc[u]
      BY <2>1 DEF RingInv, CallInv, Moves, SameCalls
    <3> QED BY <1>2, <1>3, <1>4, <1>5, <3>1 DEF CallOk
  <2>2. CASE u = t
    <3>1. pc'[t] = l /\ loc'[t].mode = loc[t].mode /\ loc'[t].base = loc[t].base
          /\ loc'[t].size = loc[t].size
      BY DEF Moves, SameCalls
    <3>2. l = "claim" => loc[t].mode = "try"
      OBVIOUS
    <3> QED BY <1>0, <1>2, <1>3, <1>4, <1>5, <2>2, <3>1, <3>2 DEF CallOk
  <2> QED BY <2>1, <2>2
<1>7. ShareInv'
  BY <1>2, <1>3, <1>4 DEF RingInv, ShareInv
<1>8. LapInv'
  BY <1>2 DEF RingInv, LapInv
<1>9. CursorInv'
  <2>1. \A s \in Side : Before(s, cache[s])' /\ Before(s, ready[s])'
    BY <1>2 DEF Before
  <2>2. ASSUME NEW u \in Threads PROVE Before(Other(u), loc[u].seen)' /\ Before(Other(u), loc[u].pre)'
    <3>1. CASE u # t
      BY <1>2, <1>4, <3>1 DEF RingInv, CursorInv, SameCalls, Before
    <3>2. CASE u = t
      BY <1>2, <1>4, <3>2 DEF SameCalls, Before
    <3> QED BY <3>1, <3>2
  <2> QED BY <2>1, <2>2 DEF CursorInv
<1>10. EntryInv'
  BY <1>2 DEF RingInv, EntryInv, EntryOk
<1>11. BufferInv'
  BY <1>2 DEF RingInv, BufferInv
<1> QED BY <1>1, <1>6, <1>7, <1>8, <1>9, <1>10, <1>11

(* A smaller bound.                                                         *)
LEMMA BeforeLess ==
  ASSUME NEW s, NEW a \in Int, NEW b \in Int, a <= b, Before(s, b)
  PROVE  Before(s, a)
BY SizeAssumption DEF Before

(* Nothing comes before the first position.                                 *)
LEMMA BeforeZero ==
  ASSUME NEW s
  PROVE  Before(s, 0)
BY SizeAssumption DEF Before

(* The thread that waits on an "mt" barrier is the only one of its side.    *)
LEMMA WaiterAlone ==
  ASSUME OneEndSingle, RingTypeOK, NEW t \in Threads, Kind[Other(t)] = "mt"
  PROVE  Kind[Own(t)] = "st"
<1>1. use.kind["w"] = "st" \/ use.kind["r"] = "st"
  BY DEF OneEndSingle, RingTypeOK
<1>2. Kind[Own(t)] \in {"st", "mt"}
  BY CallTypes
<1> QED BY <1>1, <1>2 DEF Kind, Own, Other

(* What a waiter knows of the other side's barrier is not touched by anybody*)
(* else, and only its own steps move it.                                    *)
LEMMA WaiterRest ==
  ASSUME OneEndSingle, RingTypeOK, WaiterInv, NEW t \in Threads,
         Kind[Own(t)] = "st" => t = Only(Own(t)),
         use' = use,
         \A u \in Threads : u # t => pc'[u] = pc[u] /\ loc'[u] = loc[u],
         Kind[Own(t)] = "mt" =>
           cache'[Own(t)] = cache[Own(t)] /\ ready'[Own(t)] = ready[Own(t)],
         reserve'[Other(t)] = reserve[Other(t)],
         Kind[Other(t)] = "mt" => WaiterOk(Other(t), t)'
  PROVE  WaiterInv'
<1>1. \A u \in Threads : Own(u)' = Own(u) /\ Other(u)' = Other(u)
  BY DEF Own, Other
<1>2. Kind' = Kind
  BY DEF Kind
<1>3. \A s : Only(s)' = Only(s) /\ Opp(s)' = Opp(s)
  BY DEF Only, Opp, Own
<1> SUFFICES ASSUME NEW s \in Side, Kind[s] = "mt" PROVE WaiterOk(s, Only(Opp(s)))'
  BY <1>2, <1>3 DEF WaiterInv
<1>4. CASE s = Other(t)
  <2>1. Kind[Own(t)] = "st"
    BY <1>4, WaiterAlone
  <2>2. t = Only(Opp(s))
    BY <1>4, <2>1, SideFacts
  <2>3. WaiterOk(Other(t), t)'
    BY <1>4
  <2>4. s = Other(t)' /\ t = Only(Opp(s))'
    BY <1>1, <1>3, <1>4, <2>2
  <2> QED BY <2>3, <2>4, <1>1
<1>5. CASE s = Own(t)
  <2>1. PICK u : u = Only(Opp(s))
    OBVIOUS
  <2>2. u \in Threads /\ Own(u) = Other(t) /\ u # t
    BY <1>5, <2>1, SideFacts
  <2>3. WaiterOk(s, u)
    BY <2>1 DEF WaiterInv
  <2>4. /\ pc'[u] = pc[u] /\ loc'[u] = loc[u] /\ reserve'[Own(u)] = reserve[Own(u)]
        /\ cache'[s] = cache[s] /\ ready'[s] = ready[s]
    BY <1>5, <2>2
  <2>5. Reached(u)' = Reached(u)
    BY <1>1, <2>2, <2>4 DEF Reached, End
  <2>6. WaiterOk(s, u)'
    BY <2>3, <2>4, <2>5 DEF WaiterOk
  <2>7. Only(Opp(s))' = u
    BY <1>3, <2>1
  <2> QED BY <2>6, <2>7
<1> QED BY <1>4, <1>5 DEF Side, Own, Other

(* A step within wait, with what the only waiter of an "mt" barrier keeps.  *)
LEMMA WaitStep ==
  ASSUME OneEndSingle, RingInv, NEW t \in Threads,
         UNCHANGED <<use, reserve, barrier, buffer, sent, rcvd>>,
         pc[t] \in Waiting, NEW l \in Places \ {"set"}, Moves(t, l),
         NEW pre \in Nat, NEW seen \in Nat, SameCalls(t, pre, seen),
         Before(Other(t), pre), Before(Other(t), seen),
         NEW c \in Nat, NEW r \in Nat,
         Before(Other(t), c), Before(Other(t), r),
         cache' = [cache EXCEPT ![Other(t)] = c], ready' = [ready EXCEPT ![Other(t)] = r],
         l = "idle" => loc[t].mode = "try",
         l \in {"claim", "copy"} => /\ l = "claim" <=> loc[t].mode = "try"
                                    /\ Before(Other(t), Min(t)),
         l \in {"pre", "loop", "next", "cas", "advanced"} => Kind[Other(t)] = "mt",
         l = "again" => Kind[Other(t)] = "st",
         Kind[Other(t)] = "mt" =>
           /\ c <= r /\ cache[Other(t)] <= c
           /\ l \in {"claim", "copy"} => Min(t) <= c
           /\ l = "store" => seen = r
           /\ l \in {"pre", "loop", "next", "cas"} => seen = r /\ c = r
           /\ l \in {"loop", "next", "cas"} => pre >= r
           /\ l = "advanced" => pre = r
  PROVE  RingInv'
<1>0. RingTypeOK /\ WaiterInv /\ CallOk(t) /\ CursorInv
  BY DEF RingInv, CallInv
<1>1. Other(t) \in Side /\ Own(t) \in Side /\ Own(t) # Other(t)
  BY SideFacts
<1>2. /\ cache'[Other(t)] = c /\ \A s \in Side : s # Other(t) => cache'[s] = cache[s]
      /\ ready'[Other(t)] = r /\ \A s \in Side : s # Other(t) => ready'[s] = ready[s]
      /\ cache' \in [Side -> Nat] /\ ready' \in [Side -> Nat]
  BY <1>0, <1>1 DEF RingTypeOK
<1>3. \A s \in Side : Before(s, cache'[s]) /\ Before(s, ready'[s])
  BY <1>0, <1>2 DEF CursorInv
<1>4. RingTypeOK' /\ CallInv' /\ ShareInv' /\ LapInv' /\ CursorInv' /\ EntryInv' /\ BufferInv'
  BY <1>2, <1>3, WaitFrame
<1>5. Kind[Own(t)] = "st" => t = Only(Own(t))
  BY <1>0 DEF CallOk, Waiting
<1>6. ASSUME Kind[Other(t)] = "mt" PROVE WaiterOk(Other(t), t)'
  <2>1. Kind[Own(t)] = "st"
    BY <1>0, <1>6, WaiterAlone
  <2>2. WaiterOk(Other(t), t)
    BY <1>0, <1>1, <1>5, <1>6, <2>1, SideFacts DEF WaiterInv
  <2>3. /\ pc'[t] = l /\ loc'[t].base = loc[t].base /\ loc'[t].size = loc[t].size
        /\ loc'[t].pre = pre /\ loc'[t].seen = seen /\ reserve' = reserve
    BY DEF Moves, SameCalls
  <2>4. End(t)' = End(t) /\ Own(t)' = Own(t) /\ Other(t)' = Other(t)
    BY <2>3 DEF End, Own, Other
  <2>5. l = "idle" => reserve[Own(t)] = loc[t].base
    BY <1>0, <2>1 DEF CallOk, Waiting, Owns
  <2>6. Reached(t) = loc[t].base - (IF t \in Producers THEN Size ELSE 0)
    BY DEF Reached, Waiting
  <2>7. Reached(t)' = IF l \in {"claim", "copy"} THEN Min(t)
                      ELSE loc[t].base - (IF t \in Producers THEN Size ELSE 0)
    <3>1. CASE l = "idle"
      BY <2>3, <2>4, <2>5, <3>1 DEF Reached
    <3>2. CASE l \in {"claim", "copy"}
      <4>1. End(t) \in Nat /\ Size \in Nat
        BY <1>0, CallTypes
      <4> QED BY <2>3, <2>4, <3>2, <4>1 DEF Reached, Min
    <3>3. CASE l \notin {"idle", "claim", "copy"}
      BY <2>3, <3>3 DEF Reached
    <3> QED BY <3>1, <3>2, <3>3
  <2>8. loc[t].base \in Nat /\ Size \in Nat /\ Min(t) \in Int /\ cache[Other(t)] \in Nat
    BY <1>0, CallTypes
  <2>9. Reached(t)' <= c
    <3>1. Reached(t) <= cache[Other(t)] /\ cache[Other(t)] <= c
      BY <1>6, <2>2 DEF WaiterOk
    <3>2. CASE l \in {"claim", "copy"}
      BY <1>6, <2>7, <3>2
    <3>3. CASE l \notin {"claim", "copy"}
      <4>1. Reached(t)' = Reached(t)
        BY <2>6, <2>7, <3>3
      <4>2. Reached(t) \in Int
        BY <2>6, <2>8
      <4> QED BY <2>8, <3>1, <4>1, <4>2
    <3> QED BY <3>2, <3>3
  <2>10. cache'[Other(t)] = c /\ ready'[Other(t)] = r
    BY <1>2
  <2> QED BY <1>6, <2>3, <2>4, <2>9, <2>10 DEF WaiterOk
<1>7. WaiterInv'
  <2>1. \A u \in Threads : u # t => pc'[u] = pc[u] /\ loc'[u] = loc[u]
    BY DEF Moves, SameCalls
  <2> QED BY <1>0, <1>1, <1>2, <1>5, <1>6, <2>1, WaiterRest
<1> QED BY <1>4, <1>7 DEF RingInv

(* The facts about a thread within wait that its steps use.                 *)
LEMMA WaitFacts ==
  ASSUME OneEndSingle, RingInv, NEW t \in Threads, pc[t] \in Waiting
  PROVE  /\ CallOk(t) /\ Kind[Other(t)] \in {"st", "mt"}
         /\ Kind[Other(t)] = "mt" => WaiterOk(Other(t), t)
         /\ loc[t].pre \in Nat /\ loc[t].seen \in Nat /\ loc[t].mode \in {"block", "try"}
         /\ cache[Other(t)] \in Nat /\ ready[Other(t)] \in Nat /\ Min(t) \in Int
         /\ Before(Other(t), loc[t].pre) /\ Before(Other(t), loc[t].seen)
         /\ Before(Other(t), cache[Other(t)]) /\ Before(Other(t), ready[Other(t)])
         /\ Before(Other(t), 0)
         /\ cache = [cache EXCEPT ![Other(t)] = cache[Other(t)]]
         /\ ready = [ready EXCEPT ![Other(t)] = ready[Other(t)]]
         /\ \A v \in Seen(t) : v \in Nat /\ Before(Other(t), v)
<1>1. RingTypeOK /\ CallOk(t) /\ CursorInv
  BY DEF RingInv, CallInv
<1>2. /\ loc[t].pre \in Nat /\ loc[t].seen \in Nat /\ loc[t].mode \in {"block", "try"}
      /\ cache[Other(t)] \in Nat /\ ready[Other(t)] \in Nat /\ Min(t) \in Int
      /\ Kind[Other(t)] \in {"st", "mt"}
  BY <1>1, CallTypes
<1>3. Kind[Other(t)] = "mt" => WaiterOk(Other(t), t)
  <2> HAVE Kind[Other(t)] = "mt"
  <2>1. Kind[Own(t)] = "st"
    BY <1>1, WaiterAlone
  <2>2. t = Only(Own(t))
    BY <1>1, <2>1 DEF CallOk, Waiting
  <2> QED BY <2>2, SideFacts DEF RingInv, WaiterInv
<1>4. /\ Before(Other(t), loc[t].pre) /\ Before(Other(t), loc[t].seen)
      /\ Before(Other(t), cache[Other(t)]) /\ Before(Other(t), ready[Other(t)])
      /\ Before(Other(t), 0)
  BY <1>1, SideFacts, BeforeZero DEF CursorInv
<1>5. /\ cache = [cache EXCEPT ![Other(t)] = cache[Other(t)]]
      /\ ready = [ready EXCEPT ![Other(t)] = ready[Other(t)]]
  BY <1>1 DEF RingTypeOK
<1>6. \A v \in Seen(t) : v \in Nat /\ Before(Other(t), v)
  BY <1>2, <1>4 DEF Seen
<1> QED BY <1>1, <1>2, <1>3, <1>4, <1>5, <1>6

(* Leaving wait because enough is finished.                                 *)
LEMMA WaitedKeeps ==
  ASSUME OneEndSingle, RingInv, NEW t \in Threads, pc[t] \in Waiting, Waited(t),
         UNCHANGED <<use, reserve, ready, cache, barrier, buffer, sent, rcvd>>,
         NEW v \in Nat, v >= Min(t), Before(Other(t), v),
         Kind[Other(t)] = "mt" => v <= cache[Other(t)]
  PROVE  RingInv'
<1> DEFINE l == IF loc[t].mode = "try" THEN "claim" ELSE "copy"
<1>1. l \in Places \ {"set"} /\ l \in {"claim", "copy"} /\ (l = "claim" <=> loc[t].mode = "try")
  BY DEF Places
<1>2. Leave(t, l)
  BY DEF Waited
<1> HIDE DEF l
<1>3. Moves(t, l) /\ SameCalls(t, 0, 0)
  BY <1>1, <1>2, LeaveFacts DEF RingInv
<1>4. Before(Other(t), Min(t))
  BY WaitFacts, BeforeLess
<1>5. Kind[Other(t)] = "mt" => cache[Other(t)] <= ready[Other(t)] /\ Min(t) <= cache[Other(t)]
  BY WaitFacts DEF WaiterOk
<1>6. PICK c, r : c = cache[Other(t)] /\ r = ready[Other(t)]
  OBVIOUS
<1>7. /\ c \in Nat /\ r \in Nat /\ Before(Other(t), c) /\ Before(Other(t), r)
      /\ cache' = [cache EXCEPT ![Other(t)] = c] /\ ready' = [ready EXCEPT ![Other(t)] = r]
      /\ Before(Other(t), 0) /\ 0 \in Nat
  BY <1>6, WaitFacts
<1>8. PICK m : m = l
  OBVIOUS
<1>9. /\ m \in Places \ {"set"} /\ m \in {"claim", "copy"} /\ (m = "claim" <=> loc[t].mode = "try")
      /\ Moves(t, m) /\ SameCalls(t, 0, 0)
  BY <1>1, <1>3, <1>8
<1>10. Kind[Other(t)] = "mt" => c <= r /\ cache[Other(t)] <= c /\ Min(t) <= c
  BY <1>5, <1>6, <1>7
<1>11. UNCHANGED <<use, reserve, barrier, buffer, sent, rcvd>>
  OBVIOUS
<1> QED BY <1>4, <1>7, <1>9, <1>10, <1>11, WaitStep, ZenonT(30)

(* Leaving wait because too little is finished: to look again or, in a try  *)
(* call, to give up.                                                        *)
LEMMA GiveUpKeeps ==
  ASSUME OneEndSingle, RingInv, NEW t \in Threads, pc[t] \in Waiting, NEW l \in {"load", "idle"},
         Leave(t, l), l = "idle" => loc[t].mode = "try",
         UNCHANGED <<use, reserve, ready, barrier, buffer, sent, rcvd>>,
         NEW c \in Nat, cache' = [cache EXCEPT ![Other(t)] = c], Before(Other(t), c),
         Kind[Other(t)] = "mt" => cache[Other(t)] <= c /\ c <= ready[Other(t)]
  PROVE  RingInv'
<1>1. l \in Places \ {"set"} /\ l \notin {"claim", "copy", "store", "again", "pre", "loop", "next", "cas", "advanced"}
  BY DEF Places
<1>2. Moves(t, l) /\ SameCalls(t, 0, 0)
  BY <1>1, LeaveFacts DEF RingInv
<1> QED BY <1>1, <1>2, WaitFacts, WaitStep

(* The first test and the load.                                             *)
LEMMA LookKeeps ==
  ASSUME OneEndSingle, RingInv, NEW t \in Threads, use' = use, Check(t) \/ Load(t) \/ Store(t)
  PROVE  RingInv'
<1>1. CASE Check(t)
  <2>0. pc[t] \in Waiting
    BY <1>1 DEF Check, Waiting
  <2>1. CASE CacheSuffices(t)
    <3>1. cache[Other(t)] >= Min(t)
      BY <2>0, <2>1, WaitFacts DEF CacheSuffices
    <3>2. Waited(t) /\ UNCHANGED <<use, reserve, ready, cache, barrier, buffer, sent, rcvd>>
      BY <1>1, <2>1 DEF Check
    <3> QED BY <2>0, <3>1, <3>2, WaitFacts, WaitedKeeps
  <2>2. CASE ~CacheSuffices(t)
    <3>1. Leave(t, "load") /\ UNCHANGED <<use, reserve, ready, cache, barrier, buffer, sent, rcvd>>
      BY <1>1, <2>2 DEF Check
    <3>2. Kind[Other(t)] = "mt" => cache[Other(t)] <= ready[Other(t)]
      BY <2>0, WaitFacts DEF WaiterOk
    <3> QED BY <2>0, <3>1, <3>2, WaitFacts, GiveUpKeeps
  <2> QED BY <2>1, <2>2
<1>2. CASE Load(t)
  <2>0. pc[t] \in Waiting /\ pc[t] = "load"
    BY <1>2 DEF Load, Waiting
  <2>1. RingTypeOK /\ "store" \in Places \ {"set"}
    BY DEF RingInv, Places
  <2>2. Moves(t, "store") /\ SameCalls(t, loc[t].pre, ready[Other(t)])
        /\ UNCHANGED <<use, reserve, ready, cache, barrier, buffer, sent, rcvd>>
    BY <1>2, <2>0, <2>1, WaitFacts, GotoMoves, LocalsSeen DEF Load
  <2>3. Kind[Other(t)] = "mt" => cache[Other(t)] <= ready[Other(t)]
    BY <2>0, WaitFacts DEF WaiterOk
  <2> QED BY <2>0, <2>1, <2>2, <2>3, WaitFacts, WaitStep
<1>3. CASE Store(t)
  <2>0. pc[t] \in Waiting /\ pc[t] = "store"
    BY <1>3 DEF Store, Waiting
  <2>1. PICK l : l = IF Kind[Other(t)] = "st" THEN "again" ELSE "pre"
    OBVIOUS
  <2>2. RingTypeOK /\ l \in Places \ {"set"} /\ l \in {"again", "pre"}
    BY <2>1 DEF RingInv, Places
  <2>3. l = "pre" => Kind[Other(t)] = "mt"
    BY <2>0, <2>1, WaitFacts
  <2>4. Moves(t, l) /\ SameCalls(t, loc[t].pre, loc[t].seen)
        /\ UNCHANGED <<use, reserve, ready, barrier, buffer, sent, rcvd>>
        /\ cache' = [cache EXCEPT ![Other(t)] = loc[t].seen]
    BY <1>3, <2>0, <2>1, <2>2, GotoMoves, LocalsStay DEF Store
  <2>5. Kind[Other(t)] = "mt" => cache[Other(t)] <= ready[Other(t)] /\ loc[t].seen = ready[Other(t)]
    BY <2>0, WaitFacts DEF WaiterOk
  <2>6. l = "again" => Kind[Other(t)] = "st"
    BY <2>1
  <2>7. loc[t].seen \in Nat /\ ready[Other(t)] \in Nat /\ cache[Other(t)] \in Nat /\ loc[t].pre \in Nat
    BY <2>0, WaitFacts
  <2>8. PICK c, r, pre : c = loc[t].seen /\ r = ready[Other(t)] /\ pre = loc[t].pre
    OBVIOUS
  <2>9. /\ c \in Nat /\ r \in Nat /\ pre \in Nat
        /\ Before(Other(t), c) /\ Before(Other(t), r) /\ Before(Other(t), pre)
        /\ cache' = [cache EXCEPT ![Other(t)] = c] /\ ready' = [ready EXCEPT ![Other(t)] = r]
        /\ SameCalls(t, pre, c)
    BY <2>0, <2>4, <2>7, <2>8, WaitFacts
  <2>10. Kind[Other(t)] = "mt" => c = r /\ c <= r /\ cache[Other(t)] <= c
    BY <2>5, <2>7, <2>8
  <2> QED BY <2>0, <2>2, <2>3, <2>4, <2>6, <2>9, <2>10, WaitStep
<1> QED BY <1>1, <1>2, <1>3

(* The loop of an "st" barrier.                                             *)
LEMMA AgainKeeps ==
  ASSUME OneEndSingle, RingInv, NEW t \in Threads, use' = use, Again(t)
  PROVE  RingInv'
<1>0. pc[t] \in Waiting /\ pc[t] = "again"
  BY DEF Again, Waiting
<1>1. Kind[Other(t)] # "mt"
  BY <1>0, WaitFacts DEF CallOk
<1>2. PICK v \in Seen(t) : IF v >= Min(t) THEN Waited(t)
                           ELSE Leave(t, IF loc[t].mode = "try" THEN "idle" ELSE "load")
  BY DEF Again
<1>3. UNCHANGED <<use, reserve, ready, cache, barrier, buffer, sent, rcvd>>
  BY DEF Again
<1>4. v \in Nat /\ Before(Other(t), v) /\ Min(t) \in Int
  BY <1>0, WaitFacts
<1>5. CASE v >= Min(t)
  BY <1>0, <1>1, <1>2, <1>3, <1>4, <1>5, WaitedKeeps
<1>6. CASE ~(v >= Min(t))
  <2>1. PICK l : l = IF loc[t].mode = "try" THEN "idle" ELSE "load"
    OBVIOUS
  <2>2. l \in {"load", "idle"} /\ (l = "idle" => loc[t].mode = "try") /\ Leave(t, l)
    BY <1>2, <1>6, <2>1
  <2> QED BY <1>0, <1>1, <1>3, <2>2, WaitFacts, GiveUpKeeps
<1> QED BY <1>5, <1>6

(* The chain of an "mt" barrier: where it begins, and whether it is done.   *)
LEMMA ChainKeeps ==
  ASSUME OneEndSingle, RingInv, NEW t \in Threads, use' = use, Pre(t) \/ Loop(t)
  PROVE  RingInv'
<1>0. pc[t] \in Waiting /\ pc[t] \in {"pre", "loop"}
  BY DEF Pre, Loop, Waiting
<1>1. Kind[Other(t)] = "mt"
  BY <1>0, WaitFacts DEF CallOk
<1>2. /\ cache[Other(t)] = ready[Other(t)] /\ loc[t].seen = ready[Other(t)]
      /\ pc[t] = "loop" => loc[t].pre >= ready[Other(t)]
  BY <1>0, <1>1, WaitFacts DEF WaiterOk
<1>3. \A v \in Seen(t) : v = ready[Other(t)]
  BY <1>2 DEF Seen
<1>4. RingTypeOK /\ "loop" \in Places \ {"set"} /\ "next" \in Places \ {"set"}
  BY DEF RingInv, Places
<1>5. /\ loc[t].pre \in Nat /\ loc[t].seen \in Nat /\ ready[Other(t)] \in Nat /\ Min(t) \in Int
  BY <1>0, WaitFacts
<1>6. CASE Pre(t)
  <2>1. Moves(t, "loop") /\ SameCalls(t, ready[Other(t)], loc[t].seen)
        /\ UNCHANGED <<use, reserve, ready, cache, barrier, buffer, sent, rcvd>>
    BY <1>3, <1>4, <1>5, <1>6, GotoMoves, LocalsPre DEF Pre
  <2> QED BY <1>0, <1>1, <1>2, <1>4, <1>5, <2>1, WaitFacts, WaitStep
<1>7. CASE Loop(t)
  <2>1. PICK v \in Seen(t) :
          IF v >= Min(t) THEN Waited(t) ELSE Goto(t, "next") /\ UNCHANGED loc
    BY <1>7 DEF Loop
  <2>2. UNCHANGED <<use, reserve, ready, cache, barrier, buffer, sent, rcvd>>
    BY <1>7 DEF Loop
  <2>3. CASE v >= Min(t)
    <3>1. Waited(t) /\ v \in Nat /\ Before(Other(t), v) /\ v <= cache[Other(t)]
      BY <1>0, <1>2, <1>3, <1>5, <2>1, <2>3, WaitFacts
    <3> QED BY <1>0, <2>2, <2>3, <3>1, WaitedKeeps
  <2>4. CASE ~(v >= Min(t))
    <3>1. pc[t] = "loop"
      BY <1>7 DEF Loop
    <3>2. Moves(t, "next") /\ SameCalls(t, loc[t].pre, loc[t].seen)
      BY <1>4, <2>1, <2>4, GotoMoves, LocalsStay
    <3> QED BY <1>0, <1>1, <1>2, <1>4, <1>5, <2>2, <3>1, <3>2, WaitFacts, WaitStep
  <2> QED BY <2>3, <2>4
<1> QED BY <1>6, <1>7

(* The end of the chain moves the cursor: nobody else can have.             *)
LEMMA AdvanceKeeps ==
  ASSUME OneEndSingle, RingInv, NEW t \in Threads, use' = use, Advance(t) \/ Advanced(t)
  PROVE  RingInv'
<1>0. pc[t] \in Waiting /\ pc[t] \in {"cas", "advanced"}
  BY DEF Advance, Advanced, Waiting
<1>1. Kind[Other(t)] = "mt"
  BY <1>0, WaitFacts DEF CallOk
<1>2. /\ cache[Other(t)] <= ready[Other(t)]
      /\ pc[t] = "cas" => /\ loc[t].seen = ready[Other(t)] /\ cache[Other(t)] = ready[Other(t)]
                          /\ loc[t].pre >= ready[Other(t)]
      /\ pc[t] = "advanced" => loc[t].pre = ready[Other(t)]
  BY <1>0, <1>1, WaitFacts DEF WaiterOk
<1>4. RingTypeOK /\ "loop" \in Places \ {"set"} /\ "advanced" \in Places \ {"set"}
  BY DEF RingInv, Places
<1>5. /\ loc[t].pre \in Nat /\ loc[t].seen \in Nat /\ ready[Other(t)] \in Nat /\ Min(t) \in Int
      /\ cache[Other(t)] \in Nat
  BY <1>0, WaitFacts
<1>6. CASE Advance(t)
  <2>0. pc[t] = "cas"
    BY <1>6 DEF Advance
  <2>1. \A v \in Seen(t) : v = ready[Other(t)]
    BY <1>2, <2>0 DEF Seen
  <2>2. /\ ready' = [ready EXCEPT ![Other(t)] = loc[t].pre] /\ Goto(t, "advanced") /\ UNCHANGED cache
        /\ UNCHANGED <<use, reserve, barrier, buffer, loc, sent, rcvd>>
    BY <1>6, <2>1 DEF Advance
  <2>3. Moves(t, "advanced") /\ SameCalls(t, loc[t].pre, loc[t].seen)
    BY <1>4, <2>2, GotoMoves, LocalsStay
  <2>4. cache' = [cache EXCEPT ![Other(t)] = cache[Other(t)]]
    BY <1>0, <2>2, WaitFacts
  <2>5. cache[Other(t)] <= loc[t].pre
    BY <1>2, <1>5, <2>0
  <2>6. PICK c, r, seen : c = cache[Other(t)] /\ r = loc[t].pre /\ seen = loc[t].seen
    OBVIOUS
  <2>7. /\ c \in Nat /\ r \in Nat /\ seen \in Nat
        /\ Before(Other(t), c) /\ Before(Other(t), r) /\ Before(Other(t), seen)
        /\ cache' = [cache EXCEPT ![Other(t)] = c] /\ ready' = [ready EXCEPT ![Other(t)] = r]
        /\ SameCalls(t, r, seen) /\ c <= r /\ cache[Other(t)] <= c
    <3>1. Before(Other(t), c) /\ Before(Other(t), r) /\ Before(Other(t), seen)
      BY <1>0, <2>6, WaitFacts
    <3>2. cache' = [cache EXCEPT ![Other(t)] = c] /\ ready' = [ready EXCEPT ![Other(t)] = r]
      BY <2>2, <2>4, <2>6
    <3> QED BY <1>5, <2>3, <2>5, <2>6, <3>1, <3>2
  <2> QED BY <1>0, <1>1, <1>4, <2>2, <2>3, <2>7, WaitStep
<1>7. CASE Advanced(t)
  <2>0. pc[t] = "advanced"
    BY <1>7 DEF Advanced
  <2>1. /\ cache' = [cache EXCEPT ![Other(t)] = loc[t].pre]
        /\ UNCHANGED <<use, reserve, ready, barrier, buffer, sent, rcvd>>
    BY <1>7 DEF Advanced
  <2>2. CASE loc[t].mode = "try" /\ loc[t].pre < Min(t)
    <3>1. Leave(t, "idle")
      BY <1>7, <2>2 DEF Advanced
    <3>2. PICK c : c = loc[t].pre
      OBVIOUS
    <3>3. /\ c \in Nat /\ Before(Other(t), c) /\ cache' = [cache EXCEPT ![Other(t)] = c]
          /\ cache[Other(t)] <= c /\ c <= ready[Other(t)]
      BY <1>0, <1>2, <1>5, <2>0, <2>1, <3>2, WaitFacts
    <3> QED BY <1>0, <2>1, <2>2, <3>1, <3>3, GiveUpKeeps
  <2>3. CASE ~(loc[t].mode = "try" /\ loc[t].pre < Min(t))
    <3>1. Goto(t, "loop") /\ loc' = [loc EXCEPT ![t].seen = loc[t].pre]
      BY <1>7, <2>3 DEF Advanced
    <3>2. Moves(t, "loop") /\ SameCalls(t, loc[t].pre, loc[t].pre)
      BY <1>4, <1>5, <3>1, GotoMoves, LocalsSeen
    <3>3. ready' = [ready EXCEPT ![Other(t)] = ready[Other(t)]]
      BY <1>0, <2>1, WaitFacts
    <3>4. PICK c : c = loc[t].pre
      OBVIOUS
    <3>5. /\ c \in Nat /\ Before(Other(t), c)
          /\ cache' = [cache EXCEPT ![Other(t)] = c] /\ ready' = [ready EXCEPT ![Other(t)] = c]
          /\ SameCalls(t, c, c) /\ c <= c /\ cache[Other(t)] <= c /\ c >= c
      <4>1. ready[Other(t)] = c /\ cache[Other(t)] <= c /\ c \in Nat
        BY <1>2, <1>5, <2>0, <3>4
      <4>2. Before(Other(t), c)
        BY <1>0, <3>4, WaitFacts
      <4>3. cache' = [cache EXCEPT ![Other(t)] = c] /\ ready' = [ready EXCEPT ![Other(t)] = c]
        BY <2>1, <3>3, <3>4, <4>1
      <4> QED BY <3>2, <3>4, <4>1, <4>2, <4>3
    <3> QED BY <1>0, <1>1, <1>4, <2>1, <3>2, <3>5, WaitStep
  <2> QED BY <2>2, <2>3
<1> QED BY <1>6, <1>7

(* The positions of a waiting thread are not finished.                      *)
LEMMA BaseUnfinished ==
  ASSUME RingInv, NEW t \in Threads, pc[t] \in Waiting, Kind[Own(t)] = "st"
  PROVE  loc[t].base \notin Done(Own(t)) /\ loc[t].base >= Size
<1>1. CallOk(t) /\ ShareInv /\ RingTypeOK
  BY DEF RingInv, CallInv
<1>2. /\ loc[t].base >= Size /\ loc[t].size > 0 /\ loc[t].base \in Nat /\ loc[t].size \in Nat
      /\ Size \in Nat
  <2>1. loc[t].base \in Nat /\ loc[t].size \in 0 .. Size /\ Size \in Nat
    BY <1>1, CallTypes
  <2>2. loc[t].base >= Size /\ loc[t].size > 0
    BY <1>1 DEF CallOk, Waiting
  <2> QED BY <2>1, <2>2
<1>3. CASE Owns(t)
  <2>1. Held(t) \cap Copied(Own(t)) = {}
    BY <1>1, <1>3 DEF CallOk, Waiting
  <2>2. loc[t].base \in Held(t)
    BY <1>2 DEF Held, End
  <2> QED BY <1>2, <2>1, <2>2, DoneIs
<1>4. CASE ~Owns(t)
  <2>1. reserve[Own(t)] = loc[t].base
    BY <1>1, <1>4 DEF CallOk, Waiting
  <2>2. Copied(Own(t)) \subseteq Size .. reserve[Own(t)] - 1
    BY <1>1, SideFacts DEF ShareInv
  <2>3. loc[t].base \notin Copied(Own(t))
    BY <1>2, <2>1, <2>2
  <2> QED BY <1>2, <2>3, DoneIs
<1> QED BY <1>3, <1>4

(* An entry that leads on from the end of the finished positions leads to   *)
(* finished ones: an entry of a later lap would mean that the thread's own  *)
(* positions had been passed.                                               *)
LEMMA EntryLeadsOn ==
  ASSUME OneEndSingle, RingInv, NEW t \in Threads, pc[t] = "next",
         NEW e \in Nat, e = barrier[Other(t)][Slot(loc[t].pre)], e > loc[t].pre
  PROVE  Before(Other(t), e)
<1> PICK p, o : p = loc[t].pre /\ o = Other(t)
  OBVIOUS
<1>0. pc[t] \in Waiting
  BY DEF Waiting
<1>1. /\ Kind[o] = "mt" /\ RingTypeOK /\ o \in Side /\ WaiterOk(o, t)
      /\ p \in Nat /\ Before(o, p)
  BY <1>0, WaitFacts, SideFacts DEF CallOk, RingInv
<1>2. Kind[Own(t)] = "st"
  BY <1>1, WaiterAlone
<1>3. EntryOk(o, Slot(p), e)
  BY <1>1, SlotType DEF RingInv, EntryInv
<1>4. Size \in Nat \ {0}
  BY SizeAssumption
<1>5. PICK b \in Size .. e - 1 : b % Size = p % Size /\ e <= b + Size /\ b .. e - 1 \subseteq Done(o)
  BY <1>1, <1>3 DEF EntryOk, Slot
<1>6. b \in Nat /\ b <= e - 1 /\ b >= Size
  BY <1>4, <1>5
<1>7. ~(b < p)
  <2> SUFFICES ASSUME b < p PROVE FALSE
    OBVIOUS
  <2>1. b + Size <= p
    BY <1>1, <1>5, <1>6, SlotFar
  <2> QED BY <1>1, <1>4, <1>5, <1>6, <2>1
<1>8. ~(b > p)
  <2> SUFFICES ASSUME b > p PROVE FALSE
    OBVIOUS
  <2>1. p + Size <= b
    BY <1>1, <1>5, <1>6, SlotFar
  <2>2. b \in Done(o)
    BY <1>5, <1>6
  <2>3. /\ loc[t].base \in Nat /\ loc[t].base >= Size /\ loc[t].base \notin Done(Own(t))
        /\ cache[o] \in Nat /\ ready[o] \in Nat
    BY <1>0, <1>1, <1>2, CallTypes, BaseUnfinished
  <2>4. /\ Reached(t) = loc[t].base - (IF t \in Producers THEN Size ELSE 0)
        /\ Reached(t) <= cache[o] /\ cache[o] <= ready[o] /\ ready[o] <= p
    BY <1>1 DEF WaiterOk, Reached
  <2>5. CASE t \in Producers
    <3>1. o = "r" /\ Own(t) = "w"
      BY <2>5 DEF Own, Other
    <3>2. Size .. b \subseteq Done("w")
      BY <1>6, <2>2, <3>1 DEF RingInv, LapInv, Before
    <3>3. loc[t].base <= b
      <4>1. loc[t].base - Size <= p
        BY <1>1, <1>4, <2>3, <2>4, <2>5
      <4> QED BY <1>1, <1>4, <1>6, <2>1, <2>3, <4>1
    <3> QED BY <1>4, <1>6, <2>3, <3>1, <3>2, <3>3
  <2>6. CASE t \notin Producers
    <3>1. o = "w" /\ Own(t) = "r"
      BY <2>6 DEF Own, Other
    <3>2. Size .. (b + 1 - Size) - 1 \subseteq Done("r")
      BY <2>2, <3>1 DEF RingInv, LapInv, Before
    <3>3. loc[t].base <= b - Size
      <4>1. loc[t].base <= p
        BY <1>1, <1>4, <2>3, <2>4, <2>6
      <4> QED BY <1>1, <1>4, <1>6, <2>1, <2>3, <4>1
    <3> QED BY <1>4, <1>6, <2>3, <3>1, <3>2, <3>3
  <2> QED BY <2>5, <2>6
<1>9. b = p
  BY <1>1, <1>6, <1>7, <1>8
<1> QED BY <1>1, <1>4, <1>5, <1>9 DEF Before

(* One link of the chain.                                                   *)
LEMMA FollowKeeps ==
  ASSUME OneEndSingle, RingInv, NEW t \in Threads, use' = use, Follow(t)
  PROVE  RingInv'
<1>0. pc[t] \in Waiting /\ pc[t] = "next"
  BY DEF Follow, Waiting
<1>1. PICK e : e = barrier[Other(t)][Slot(loc[t].pre)]
  OBVIOUS
<1>2. /\ RingTypeOK /\ Kind[Other(t)] = "mt" /\ loc[t].pre \in Nat /\ Other(t) \in Side
      /\ cache[Other(t)] = ready[Other(t)] /\ loc[t].seen = ready[Other(t)]
      /\ loc[t].pre >= ready[Other(t)] /\ ready[Other(t)] \in Nat
  BY <1>0, WaitFacts, SideFacts DEF CallOk, RingInv, WaiterOk
<1>3. e \in Nat
  BY <1>1, <1>2, SlotType DEF RingTypeOK
<1>4. PICK c, seen : c = ready[Other(t)] /\ seen = loc[t].seen
  OBVIOUS
<1>5. /\ cache' = [cache EXCEPT ![Other(t)] = c] /\ ready' = [ready EXCEPT ![Other(t)] = c]
      /\ seen = c /\ c \in Nat /\ cache[Other(t)] <= c /\ c <= c
  BY <1>0, <1>2, <1>4, WaitFacts DEF Follow
<1>6. Before(Other(t), c) /\ Before(Other(t), seen)
  BY <1>0, <1>4, WaitFacts
<1>7. UNCHANGED <<use, reserve, barrier, buffer, sent, rcvd>>
  BY DEF Follow
<1>8. "loop" \in Places \ {"set"} /\ "cas" \in Places \ {"set"}
  BY DEF Places
<1>9. CASE e > loc[t].pre
  <2>1. Before(Other(t), e)
    BY <1>0, <1>1, <1>3, <1>9, EntryLeadsOn
  <2>2. loc' = [loc EXCEPT ![t].pre = e] /\ Goto(t, "loop")
    BY <1>1, <1>9 DEF Follow
  <2>3. Moves(t, "loop") /\ SameCalls(t, e, seen)
    BY <1>2, <1>3, <1>4, <1>8, <2>2, GotoMoves, LocalsPre
  <2>4. e >= c
    BY <1>2, <1>3, <1>4, <1>9
  <2> QED BY <1>0, <1>2, <1>3, <1>5, <1>6, <1>7, <1>8, <2>1, <2>3, <2>4, WaitStep
<1>10. CASE ~(e > loc[t].pre)
  <2>1. UNCHANGED loc /\ Goto(t, "cas")
    BY <1>1, <1>10 DEF Follow
  <2>2. PICK pre : pre = loc[t].pre
    OBVIOUS
  <2>3. Moves(t, "cas") /\ SameCalls(t, pre, seen)
    BY <1>2, <1>4, <1>8, <2>1, <2>2, GotoMoves, LocalsStay
  <2>4. pre \in Nat /\ pre >= c /\ Before(Other(t), pre)
    BY <1>0, <1>2, <1>4, <2>2, WaitFacts
  <2> QED BY <1>0, <1>2, <1>5, <1>6, <1>7, <1>8, <2>3, <2>4, WaitStep
<1> QED BY <1>9, <1>10

(* Every step of wait and try_wait.                                         *)
LEMMA WaitKeeps ==
  ASSUME OneEndSingle, RingInv, NEW t \in Threads, use' = use, Wait(t)
  PROVE  RingInv'
BY LookKeeps, AgainKeeps, ChainKeeps, AdvanceKeeps, FollowKeeps DEF Wait

-----------------------------------------------------------------------------
(* The steps around wait.                                                   *)

(* A step that only hands out positions: what is finished stays.            *)
LEMMA HandOutFrame ==
  ASSUME RingInv, NEW t \in Threads, UNCHANGED <<ready, cache, barrier, buffer, sent, rcvd>>,
         pc[t] # "set", pc'[t] # "set",
         \A u \in Threads : /\ u # t => pc'[u] = pc[u] /\ loc'[u] = loc[u]
                            /\ loc'[u].pre = loc[u].pre /\ loc'[u].seen = loc[u].seen
  PROVE  /\ LapInv' /\ CursorInv' /\ EntryInv' /\ BufferInv'
         /\ \A s : Done(s)' = Done(s) /\ Copied(s)' = Copied(s)
         /\ \A s, v : Before(s, v)' <=> Before(s, v)
<1>1. /\ \A s : Done(s)' = Done(s) /\ Copied(s)' = Copied(s)
      /\ \A s, v : Before(s, v)' <=> Before(s, v)
  BY DoneSame
<1>2. \A u \in Threads : Other(u)' = Other(u)
  BY DEF Other
<1>3. LapInv'
  BY <1>1 DEF RingInv, LapInv
<1>4. CursorInv'
  BY <1>1, <1>2 DEF RingInv, CursorInv, Before
<1>5. EntryInv'
  BY <1>1 DEF RingInv, EntryInv, EntryOk
<1>6. BufferInv'
  BY <1>1 DEF RingInv, BufferInv
<1> QED BY <1>1, <1>3, <1>4, <1>5, <1>6

(* Entering a call.                                                         *)
LEMMA StartKeeps ==
  ASSUME OneEndSingle, RingInv, NEW t \in Threads, use' = use, Start(t)
  PROVE  RingInv'
<1>1. PICK n \in Sizes : Reserve(t, n) \/ TryReserve(t, n)
  BY DEF Start
<1>2. PICK m \in {"block", "try"} :
        /\ Begin(t, n, m) /\ UNCHANGED <<ready, cache, barrier, buffer, sent, rcvd>>
        /\ reserve' = IF m = "block" THEN [reserve EXCEPT ![Own(t)] = @ + n] ELSE reserve
  BY <1>1 DEF Reserve, TryReserve
<1> PICK o, b : o = Own(t) /\ b = reserve[o]
  OBVIOUS
<1>3. /\ RingTypeOK /\ CallInv /\ ShareInv /\ o \in Side /\ b \in Nat /\ Size \in Nat \ {0}
      /\ loc \in [Threads -> Locals]
  BY SideFacts, SizeAssumption DEF RingInv, RingTypeOK, Locals
<1>4. n \in 1 .. Size
  <2>1. Sizes \subseteq 1 .. Size
    BY <1>3, UsesAssumption DEF RingTypeOK, Sizes
  <2> QED BY <2>1
<1>5. /\ pc[t] = "idle" /\ pc' = [pc EXCEPT ![t] = "check"]
      /\ loc' = [loc EXCEPT ![t] = [loc[t] EXCEPT !.base = b, !.size = n, !.mode = m]]
      /\ Kind[o] = "st" => t = Only(o)
  BY <1>2, <1>3 DEF Begin, Goto, MayStart
<1>6. /\ pc' \in [Threads -> Places] /\ pc'[t] = "check"
      /\ \A u \in Threads : u # t => pc'[u] = pc[u]
  BY <1>3, <1>5 DEF RingTypeOK, Places
<1>7. /\ loc' \in [Threads -> Locals] /\ \A u \in Threads : u # t => loc'[u] = loc[u]
      /\ loc'[t].base = b /\ loc'[t].size = n /\ loc'[t].mode = m
      /\ loc'[t].pre = loc[t].pre /\ loc'[t].seen = loc[t].seen
  <2>1. PICK new : new = [loc[t] EXCEPT !.base = b, !.size = n, !.mode = m]
    OBVIOUS
  <2>2. loc[t] \in Locals
    BY <1>3
  <2>3. new \in Locals /\ new.base = b /\ new.size = n /\ new.mode = m
        /\ new.pre = loc[t].pre /\ new.seen = loc[t].seen
    <3>1. /\ new.base = b /\ new.size = n /\ new.mode = m
          /\ new.pre = loc[t].pre /\ new.seen = loc[t].seen
          /\ new = [base |-> b, size |-> n, mode |-> m, pre |-> loc[t].pre, seen |-> loc[t].seen]
      BY <2>1, <2>2 DEF Locals
    <3>2. n \in 0 .. Size
      BY <1>3, <1>4
    <3>3. loc[t].pre \in Nat /\ loc[t].seen \in Nat
      BY <2>2 DEF Locals
    <3> QED BY <1>3, <3>1, <3>2, <3>3 DEF Locals
  <2>4. loc' = [loc EXCEPT ![t] = new]
    BY <1>5, <2>1
  <2> QED BY <1>3, <2>3, <2>4
<1>8. /\ reserve' \in [Side -> Nat] /\ \A s \in Side : s # o => reserve'[s] = reserve[s]
      /\ reserve'[o] = IF m = "block" THEN b + n ELSE b
  BY <1>2, <1>3, <1>4 DEF RingTypeOK
<1>9. /\ LapInv' /\ CursorInv' /\ EntryInv' /\ BufferInv'
      /\ \A s : Done(s)' = Done(s) /\ Copied(s)' = Copied(s)
      /\ \A s, v : Before(s, v)' <=> Before(s, v)
  BY <1>2, <1>5, <1>6, <1>7, HandOutFrame
<1>10. \A u \in Threads : Own(u)' = Own(u) /\ Other(u)' = Other(u)
  BY DEF Own, Other
<1>11. Kind' = Kind /\ \A s : Only(s)' = Only(s)
  BY DEF Kind, Only, Own
<1>12. \A u \in Threads : u # t =>
         /\ End(u)' = End(u) /\ Held(u)' = Held(u) /\ Min(u)' = Min(u)
         /\ Owns(u)' <=> Owns(u)
  BY <1>6, <1>7 DEF End, Held, Min, Owns
<1>13. /\ End(t)' = b + n /\ Held(t)' = b .. b + n - 1 /\ ~Owns(t)
       /\ Owns(t)' <=> m = "block"
  <2>1. End(t)' = b + n
    BY <1>7 DEF End
  <2>2. Held(t)' = b .. b + n - 1
    <3>1. Held(t)' = loc'[t].base .. (End(t)' - 1)
      BY DEF Held
    <3>2. loc'[t].base = b
      BY <1>7
    <3> QED BY <1>3, <1>4, <2>1, <3>1, <3>2
  <2>3. ~Owns(t)
    BY <1>5 DEF Owns
  <2>4. Owns(t)' <=> m = "block"
    BY <1>6, <1>7 DEF Owns
  <2> QED BY <2>1, <2>2, <2>3, <2>4
<1>14. RingTypeOK'
  BY <1>2, <1>3, <1>6, <1>7, <1>8 DEF RingTypeOK, Locals
<1>15. CallInv'
  <2> SUFFICES ASSUME NEW u \in Threads PROVE CallOk(u)'
    BY DEF CallInv
  <2>1. CASE u = t
    <3>1. b >= Size
      BY <1>3 DEF ShareInv
    <3>2. Owns(t)' => Held(t)' \cap Copied(o) = {}
      BY <1>3, <1>13 DEF ShareInv
    <3> QED BY <1>3, <1>4, <1>5, <1>6, <1>7, <1>8, <1>9, <1>10, <1>11, <1>13, <2>1, <3>1, <3>2 DEF CallOk
  <2>2. CASE u # t /\ pc[u] # "idle"
    <3>1. CallOk(u) /\ pc'[u] = pc[u] /\ loc'[u] = loc[u] /\ Own(u) \in Side
      BY <1>3, <1>6, <1>7, <2>2, SideFacts DEF CallInv
    <3>2. Kind[Own(u)] = "st" => u = Only(Own(u)) /\ Own(u) # o
      BY <1>5, <2>2, <3>1 DEF CallOk
    <3>3. /\ loc[u].base \in Nat /\ End(u) \in Nat /\ reserve[Own(u)] \in Nat
      BY <1>3, CallTypes
    <3>4. reserve[Own(u)] <= reserve'[Own(u)]
      BY <1>3, <1>4, <1>8, <3>1, <3>3
    <3>5. /\ Kind[Own(u)] = "st" =>
               reserve'[Own(u)] = IF Owns(u) THEN End(u) ELSE loc[u].base
          /\ IF Owns(u) THEN End(u) <= reserve'[Own(u)] ELSE loc[u].base <= reserve'[Own(u)]
      <4>1. Kind[Own(u)] = "st" => reserve'[Own(u)] = reserve[Own(u)]
        BY <1>8, <3>1, <3>2
      <4>2. reserve'[Own(u)] \in Nat
        BY <1>8, <3>1
      <4> QED BY <2>2, <3>1, <3>3, <3>4, <4>1, <4>2 DEF CallOk
    <3> QED BY <1>9, <1>10, <1>11, <1>12, <2>2, <3>1, <3>5 DEF CallOk
  <2>3. CASE u # t /\ pc[u] = "idle"
    BY <1>6, <2>3 DEF CallOk
  <2> QED BY <2>1, <2>2, <2>3
<1>16. ShareInv'
  <2>1. ASSUME NEW s \in Side
        PROVE  /\ reserve'[s] >= Size
               /\ Copied(s) \subseteq Size .. reserve'[s] - 1
               /\ \A k \in Size .. reserve'[s] - 1 :
                    k \in Done(s) \/ \E u \in Threads : Own(u) = s /\ Owns(u)' /\ k \in Held(u)'
    <3>1. /\ reserve[s] >= Size /\ Copied(s) \subseteq Size .. reserve[s] - 1
          /\ \A k \in Size .. reserve[s] - 1 :
                k \in Done(s) \/ \E u \in Threads : Own(u) = s /\ Owns(u) /\ k \in Held(u)
      BY <1>3 DEF ShareInv
    <3>2. reserve[s] <= reserve'[s] /\ reserve[s] \in Nat /\ reserve'[s] \in Nat
      BY <1>3, <1>4, <1>8 DEF RingTypeOK
    <3>3. ASSUME NEW k \in Size .. reserve'[s] - 1
          PROVE  k \in Done(s) \/ \E u \in Threads : Own(u) = s /\ Owns(u)' /\ k \in Held(u)'
      <4>1. CASE k < reserve[s]
        <5>1. k \in Size .. reserve[s] - 1
          BY <1>3, <3>2, <3>3, <4>1
        <5> QED BY <1>12, <1>13, <3>1, <5>1
      <4>2. CASE ~(k < reserve[s])
        <5>1. s = o /\ m = "block"
          BY <1>3, <1>8, <3>2, <3>3, <4>2
        <5>2. k \in b .. b + n - 1
          BY <1>3, <1>4, <1>8, <3>2, <3>3, <4>2, <5>1
        <5> QED BY <1>13, <5>1, <5>2
      <4> QED BY <4>1, <4>2
    <3> QED BY <1>3, <3>1, <3>2, <3>3
  <2>2. \A u \in Threads : u # t /\ Own(u) = o /\ Owns(u) => Held(u) \cap (b .. b + n - 1) = {}
    <3> TAKE u \in Threads
    <3> HAVE u # t /\ Own(u) = o /\ Owns(u)
    <3>1. End(u) <= b
      BY <1>3 DEF CallInv, CallOk, Owns
    <3>2. End(u) \in Nat /\ loc[u].base \in Nat
      BY <1>3, CallTypes
    <3> QED BY <1>3, <3>1, <3>2 DEF Held
  <2>3. \A u, v \in Threads :
          u # v /\ Own(u) = Own(v) /\ Owns(u)' /\ Owns(v)' => Held(u)' \cap Held(v)' = {}
    <3> TAKE u, v \in Threads
    <3> HAVE u # v /\ Own(u) = Own(v) /\ Owns(u)' /\ Owns(v)'
    <3>1. CASE u = t
      BY <1>12, <1>13, <2>2, <3>1
    <3>2. CASE v = t
      BY <1>12, <1>13, <2>2, <3>2
    <3>3. CASE u # t /\ v # t
      BY <1>3, <1>12, <3>3 DEF ShareInv
    <3> QED BY <3>1, <3>2, <3>3
  <2> QED BY <1>9, <1>10, <2>1, <2>3 DEF ShareInv
<1>17. WaiterInv'
  <2>1. ASSUME Kind[Other(t)] = "mt" PROVE WaiterOk(Other(t), t)'
    <3>1. Kind[o] = "st"
      BY <1>3, <2>1, WaiterAlone
    <3>2. WaiterOk(Other(t), t)
      BY <1>5, <2>1, <3>1, SideFacts DEF RingInv, WaiterInv
    <3>3. Reached(t) = b - (IF t \in Producers THEN Size ELSE 0) /\ Reached(t)' = Reached(t)
      BY <1>5, <1>6, <1>7 DEF Reached
    <3> QED BY <1>2, <1>6, <1>10, <3>2, <3>3 DEF WaiterOk
  <2> QED BY <1>2, <1>3, <1>5, <1>6, <1>7, <1>8, <2>1, SideFacts, WaiterRest DEF RingInv
<1> QED BY <1>9, <1>14, <1>15, <1>16, <1>17 DEF RingInv

(* A try call claims the positions it has waited for.                       *)
LEMMA ClaimKeeps ==
  ASSUME OneEndSingle, RingInv, NEW t \in Threads, use' = use, Claim(t)
  PROVE  RingInv'
<1> PICK o, l : o = Own(t)
             /\ l = IF Kind[o] = "st" \/ reserve[o] = loc[t].base THEN "copy" ELSE "idle"
  OBVIOUS
<1>1. /\ pc[t] = "claim" /\ UNCHANGED <<ready, cache, barrier, buffer, loc, sent, rcvd>>
      /\ l \in {"copy", "idle"} /\ Goto(t, l)
      /\ reserve' = IF l = "copy" THEN [reserve EXCEPT ![o] = End(t)] ELSE reserve
  BY DEF Claim
<1>2. /\ RingTypeOK /\ CallInv /\ ShareInv /\ o \in Side /\ Size \in Nat \ {0} /\ CallOk(t)
  BY SideFacts, SizeAssumption DEF RingInv, CallInv
<1>3. /\ loc[t].base \in Nat /\ loc[t].size \in 0 .. Size /\ End(t) \in Nat /\ reserve[o] \in Nat
      /\ End(t) = loc[t].base + loc[t].size
  BY <1>2, CallTypes DEF End
<1>4. /\ loc[t].base >= Size /\ loc[t].size > 0 /\ loc[t].mode = "try" /\ ~Owns(t)
      /\ Kind[o] = "st" => t = Only(o) /\ reserve[o] = loc[t].base
      /\ Before(Other(t), Min(t))
  BY <1>1, <1>2 DEF CallOk, Owns
<1>5. l = "copy" => reserve[o] = loc[t].base
  BY <1>4
<1>6. Moves(t, l)
  BY <1>1, <1>2, GotoMoves DEF Places
<1>7. /\ pc'[t] = l /\ \A u \in Threads : u # t => pc'[u] = pc[u]
      /\ pc' \in [Threads -> Places]
  BY <1>6 DEF Moves
<1>8. /\ reserve' \in [Side -> Nat] /\ \A s \in Side : s # o => reserve'[s] = reserve[s]
      /\ reserve'[o] = IF l = "copy" THEN End(t) ELSE reserve[o]
  BY <1>1, <1>2, <1>3 DEF RingTypeOK
<1>9. /\ LapInv' /\ CursorInv' /\ EntryInv' /\ BufferInv'
      /\ \A s : Done(s)' = Done(s) /\ Copied(s)' = Copied(s)
      /\ \A s, v : Before(s, v)' <=> Before(s, v)
  <2>1. pc[t] # "set" /\ pc'[t] # "set"
    BY <1>1, <1>7
  <2> QED BY <1>1, <1>7, <2>1, HandOutFrame
<1>10. \A u \in Threads : Own(u)' = Own(u) /\ Other(u)' = Other(u)
  BY DEF Own, Other
<1>11. Kind' = Kind /\ \A s : Only(s)' = Only(s)
  BY DEF Kind, Only, Own
<1>12. /\ \A u \in Threads : End(u)' = End(u) /\ Held(u)' = Held(u) /\ Min(u)' = Min(u)
       /\ \A u \in Threads : u # t => (Owns(u)' <=> Owns(u))
       /\ Owns(t)' <=> l = "copy"
  <2>1. \A u \in Threads : End(u)' = End(u) /\ Held(u)' = Held(u) /\ Min(u)' = Min(u)
    BY <1>1 DEF End, Held, Min
  <2>2. \A u \in Threads : u # t => (Owns(u)' <=> Owns(u))
    BY <1>1, <1>7 DEF Owns
  <2>3. Owns(t)' <=> l = "copy"
    BY <1>1, <1>4, <1>7 DEF Owns
  <2> QED BY <2>1, <2>2, <2>3
<1>13. reserve[o] <= reserve'[o]
  BY <1>3, <1>5, <1>8
<1>14. RingTypeOK'
  BY <1>1, <1>2, <1>7, <1>8 DEF RingTypeOK
<1>15. l = "copy" => Held(t) \cap Copied(o) = {}
  BY <1>2, <1>3, <1>5 DEF ShareInv, Held
<1>16. CallInv'
  <2> SUFFICES ASSUME NEW u \in Threads PROVE CallOk(u)'
    BY DEF CallInv
  <2>1. CASE u = t
    <3>1. CASE l = "copy"
      <4>1. reserve'[o] = End(t)
        BY <1>8, <3>1
      <4> QED BY <1>1, <1>3, <1>4, <1>7, <1>9, <1>10, <1>11, <1>12, <1>15, <2>1, <3>1, <4>1 DEF CallOk
    <3>2. CASE l = "idle"
      BY <1>7, <2>1, <3>2 DEF CallOk
    <3> QED BY <1>1, <3>1, <3>2
  <2>2. CASE u # t /\ pc[u] # "idle"
    <3>1. CallOk(u) /\ pc'[u] = pc[u] /\ Own(u) \in Side
      BY <1>2, <1>7, <2>2, SideFacts DEF CallInv
    <3>2. Kind[Own(u)] = "st" => u = Only(Own(u)) /\ Own(u) # o
      BY <1>4, <2>2, <3>1 DEF CallOk
    <3>3. /\ loc[u].base \in Nat /\ End(u) \in Nat /\ reserve[Own(u)] \in Nat
      BY <1>2, CallTypes
    <3>4. reserve[Own(u)] <= reserve'[Own(u)] /\ reserve'[Own(u)] \in Nat
      BY <1>8, <1>13, <3>1, <3>3
    <3>5. /\ Kind[Own(u)] = "st" =>
               reserve'[Own(u)] = IF Owns(u) THEN End(u) ELSE loc[u].base
          /\ IF Owns(u) THEN End(u) <= reserve'[Own(u)] ELSE loc[u].base <= reserve'[Own(u)]
      <4>1. Kind[Own(u)] = "st" => reserve'[Own(u)] = reserve[Own(u)]
        BY <1>8, <3>1, <3>2
      <4> QED BY <2>2, <3>1, <3>3, <3>4, <4>1 DEF CallOk
    <3> QED BY <1>1, <1>9, <1>10, <1>11, <1>12, <2>2, <3>1, <3>5 DEF CallOk
  <2>3. CASE u # t /\ pc[u] = "idle"
    BY <1>7, <2>3 DEF CallOk
  <2> QED BY <2>1, <2>2, <2>3
<1>17. ShareInv'
  <2>1. ASSUME NEW s \in Side
        PROVE  /\ reserve'[s] >= Size
               /\ Copied(s) \subseteq Size .. reserve'[s] - 1
               /\ \A k \in Size .. reserve'[s] - 1 :
                    k \in Done(s) \/ \E u \in Threads : Own(u) = s /\ Owns(u)' /\ k \in Held(u)
    <3>1. /\ reserve[s] >= Size /\ Copied(s) \subseteq Size .. reserve[s] - 1
          /\ \A k \in Size .. reserve[s] - 1 :
                k \in Done(s) \/ \E u \in Threads : Own(u) = s /\ Owns(u) /\ k \in Held(u)
      BY <1>2 DEF ShareInv
    <3>2. reserve[s] <= reserve'[s] /\ reserve[s] \in Nat /\ reserve'[s] \in Nat
      BY <1>2, <1>8, <1>13 DEF RingTypeOK
    <3>3. ASSUME NEW k \in Size .. reserve'[s] - 1
          PROVE  k \in Done(s) \/ \E u \in Threads : Own(u) = s /\ Owns(u)' /\ k \in Held(u)
      <4>1. CASE k < reserve[s]
        <5>1. k \in Size .. reserve[s] - 1
          BY <1>2, <3>2, <3>3, <4>1
        <5> QED BY <1>4, <1>12, <3>1, <5>1
      <4>2. CASE ~(k < reserve[s])
        <5>1. s = o /\ l = "copy"
          BY <1>2, <1>8, <3>2, <3>3, <4>2
        <5>2. k \in Held(t)
          BY <1>2, <1>3, <1>5, <1>8, <3>2, <3>3, <4>2, <5>1 DEF Held
        <5> QED BY <1>12, <5>1, <5>2
      <4> QED BY <4>1, <4>2
    <3> QED BY <1>2, <3>1, <3>2, <3>3
  <2>2. \A u \in Threads : l = "copy" /\ u # t /\ Own(u) = o /\ Owns(u) => Held(u) \cap Held(t) = {}
    <3> TAKE u \in Threads
    <3> HAVE l = "copy" /\ u # t /\ Own(u) = o /\ Owns(u)
    <3>1. End(u) <= reserve[o]
      BY <1>2 DEF CallInv, CallOk, Owns
    <3>2. End(u) \in Nat /\ loc[u].base \in Nat
      BY <1>2, CallTypes
    <3> QED BY <1>3, <1>5, <3>1, <3>2 DEF Held
  <2>3. \A u, v \in Threads :
          u # v /\ Own(u) = Own(v) /\ Owns(u)' /\ Owns(v)' => Held(u) \cap Held(v) = {}
    <3> TAKE u, v \in Threads
    <3> HAVE u # v /\ Own(u) = Own(v) /\ Owns(u)' /\ Owns(v)'
    <3>1. CASE u = t
      BY <1>12, <2>2, <3>1
    <3>2. CASE v = t
      BY <1>12, <2>2, <3>2
    <3>3. CASE u # t /\ v # t
      BY <1>2, <1>12, <3>3 DEF ShareInv
    <3> QED BY <3>1, <3>2, <3>3
  <2> QED BY <1>9, <1>10, <1>12, <2>1, <2>3 DEF ShareInv
<1>18. WaiterInv'
  <2>1. ASSUME Kind[Other(t)] = "mt" PROVE WaiterOk(Other(t), t)'
    <3>1. Kind[o] = "st"
      BY <1>2, <2>1, WaiterAlone
    <3>2. WaiterOk(Other(t), t)
      BY <1>4, <2>1, <3>1, SideFacts DEF RingInv, WaiterInv
    <3>3. l = "copy"
      BY <3>1
    <3>4. Reached(t)' = Reached(t)
      BY <1>1, <1>7, <1>12, <3>3 DEF Reached
    <3> QED BY <1>1, <1>7, <1>10, <3>2, <3>3, <3>4 DEF WaiterOk
  <2> QED BY <1>1, <1>2, <1>4, <1>7, <1>8, <2>1, SideFacts, WaiterRest DEF RingInv
<1> QED BY <1>9, <1>14, <1>16, <1>17, <1>18 DEF RingInv

(* Copying: nothing new is finished.                                        *)
LEMMA CopyFrame ==
  ASSUME OneEndSingle, RingInv, NEW t \in Threads, pc[t] = "copy", Moves(t, "set"),
         UNCHANGED <<use, reserve, ready, cache, barrier, loc>>, DOMAIN buffer' = Slots,
         Copied(Own(t))' = Copied(Own(t)) \cup Held(t), Copied(Other(t))' = Copied(Other(t))
  PROVE  /\ RingTypeOK' /\ CallInv' /\ ShareInv' /\ LapInv' /\ CursorInv' /\ EntryInv' /\ WaiterInv'
         /\ \A s \in Side : Done(s)' = Done(s)
<1> PICK o : o = Own(t)
  OBVIOUS
<1>1. /\ RingTypeOK /\ CallInv /\ ShareInv /\ o \in Side /\ Size \in Nat \ {0} /\ CallOk(t)
      /\ Other(t) \in Side /\ Other(t) # o /\ \A s \in Side : s = o \/ s = Other(t)
  BY SideFacts, SizeAssumption DEF RingInv, CallInv, Side, Own, Other
<1>2. /\ pc'[t] = "set" /\ \A u \in Threads : u # t => pc'[u] = pc[u]
      /\ pc' \in [Threads -> Places]
  BY DEF Moves
<1>3. \A u \in Threads : /\ End(u)' = End(u) /\ Held(u)' = Held(u) /\ Min(u)' = Min(u)
                         /\ Own(u)' = Own(u) /\ Other(u)' = Other(u)
                         /\ Owns(u)' <=> Owns(u)
  <2>1. \A u \in Threads : /\ End(u)' = End(u) /\ Held(u)' = Held(u) /\ Min(u)' = Min(u)
                           /\ Own(u)' = Own(u) /\ Other(u)' = Other(u)
    BY DEF End, Held, Min, Own, Other
  <2>2. \A u \in Threads : Owns(u)' <=> Owns(u)
    BY <1>2 DEF Owns
  <2> QED BY <2>1, <2>2
<1>4. Kind' = Kind /\ \A s : Only(s)' = Only(s) /\ Opp(s)' = Opp(s)
  BY DEF Kind, Only, Own, Opp
<1>5. Held(t) \cap Copied(o) = {} /\ Owns(t)
  BY <1>1 DEF CallOk, Owns
<1>6. ASSUME NEW s \in Side PROVE Done(s)' = Done(s)
  <2>1. \A k : k \in Done(s)' <=>
            k \in Copied(s)' /\ \A u \in Threads : Own(u) = s /\ pc'[u] = "set" => k \notin Held(u)
    <3>1. \A k : k \in Done(s)' <=>
            k \in Copied(s)' /\ \A u \in Threads : Own(u)' = s /\ pc'[u] = "set" => k \notin Held(u)'
      BY DEF Done, Unset, Copied
    <3> QED BY <1>3, <3>1
  <2>2. \A k : k \in Done(s) <=>
            k \in Copied(s) /\ \A u \in Threads : Own(u) = s /\ pc[u] = "set" => k \notin Held(u)
    BY DoneIs
  <2>3. \A k : k \in Done(s)' <=> k \in Done(s)
    <3>1. CASE s = o
      BY <1>2, <1>5, <2>1, <2>2, <3>1
    <3>2. CASE s # o
      BY <1>1, <1>2, <2>1, <2>2, <3>2
    <3> QED BY <3>1, <3>2
  <2>4. Done(s)' = Copied(s)' \ Unset(s)' /\ Done(s) = Copied(s) \ Unset(s)
    BY DEF Done, Copied
  <2> QED BY <2>3, <2>4
<1>7. \A s \in Side : \A v : Before(s, v)' <=> Before(s, v)
  BY <1>6 DEF Before
<1>8. RingTypeOK'
  BY <1>1, <1>2 DEF RingTypeOK
<1>9. CallInv'
  <2> SUFFICES ASSUME NEW u \in Threads, pc'[u] # "idle" PROVE CallOk(u)'
    BY DEF CallInv, CallOk
  <2>1. CallOk(u) /\ Own(u) \in Side /\ Other(u) \in Side
    BY <1>1, SideFacts DEF CallInv
  <2>2. CASE u = t
    <3>1. Held(t) \subseteq Copied(o)'
      OBVIOUS
    <3> QED BY <1>2, <1>3, <1>4, <1>5, <1>7, <2>1, <2>2, <3>1 DEF CallOk
  <2>3. CASE u # t
    <3>1. Owns(u) /\ pc[u] # "set" => Held(u) \cap Copied(Own(u))' = {}
      <4>1. CASE Own(u) = o
        <5>1. Owns(u) => Held(u) \cap Held(t) = {}
          BY <1>1, <1>5, <2>3, <4>1 DEF ShareInv
        <5> QED BY <1>2, <2>1, <2>3, <4>1, <5>1 DEF CallOk
      <4>2. CASE Own(u) # o
        <5>1. Copied(Own(u))' = Copied(Own(u))
          BY <1>1, <2>1, <4>2
        <5> QED BY <1>2, <2>1, <2>3, <5>1 DEF CallOk
      <4> QED BY <4>1, <4>2
    <3>2. pc[u] = "set" => Held(u) \subseteq Copied(Own(u))'
      <4>1. Copied(Own(u)) \subseteq Copied(Own(u))'
        BY <1>1, <2>1
      <4> QED BY <1>2, <2>1, <2>3, <4>1 DEF CallOk
    <3> QED BY <1>2, <1>3, <1>4, <1>7, <2>1, <2>3, <3>1, <3>2 DEF CallOk
  <2> QED BY <2>2, <2>3
<1>10. ShareInv'
  <2>1. \A s \in Side : Copied(s)' \subseteq Size .. reserve[s] - 1
    <3>1. Held(t) \subseteq Size .. reserve[o] - 1
      <4>1. loc[t].base \in Nat /\ End(t) \in Nat /\ reserve[o] \in Nat
        BY <1>1, CallTypes
      <4>2. loc[t].base >= Size /\ End(t) <= reserve[o]
        BY <1>1, <1>5 DEF CallOk
      <4> QED BY <1>1, <4>1, <4>2 DEF Held
    <3> QED BY <1>1, <3>1 DEF ShareInv
  <2>2. ASSUME NEW s \in Side
        PROVE  \A k \in Size .. reserve[s] - 1 :
                 k \in Done(s)' \/ \E u \in Threads : Own(u)' = s /\ Owns(u)' /\ k \in Held(u)'
    BY <1>1, <1>3, <1>6 DEF ShareInv
  <2>3. \A u, v \in Threads :
          u # v /\ Own(u)' = Own(v)' /\ Owns(u)' /\ Owns(v)' => Held(u)' \cap Held(v)' = {}
    BY <1>1, <1>3 DEF ShareInv
  <2> QED BY <1>1, <2>1, <2>2, <2>3 DEF ShareInv
<1>11. LapInv'
  BY <1>6, <1>7 DEF RingInv, LapInv, Side
<1>12. CursorInv'
  <2>1. \A s \in Side : Before(s, ready[s])' /\ Before(s, cache[s])'
    BY <1>7 DEF RingInv, CursorInv, Before
  <2>2. \A u \in Threads : Before(Other(u), loc[u].seen)' /\ Before(Other(u), loc[u].pre)'
    <3>1. \A u \in Threads : Other(u) \in Side
      BY SideFacts
    <3> QED BY <1>3, <1>7, <3>1 DEF RingInv, CursorInv, Before
  <2> QED BY <2>1, <2>2 DEF CursorInv
<1>13. EntryInv'
  BY <1>6 DEF RingInv, EntryInv, EntryOk
<1>14. WaiterInv'
  <2>1. ASSUME Kind[Other(t)] = "mt" PROVE WaiterOk(Other(t), t)'
    <3>1. WaiterOk(Other(t), t)
      <4>1. Kind[o] = "st"
        BY <1>1, <2>1, WaiterAlone
      <4>2. t = Only(o)
        BY <1>1, <4>1 DEF CallOk
      <4> QED BY <1>1, <2>1, <4>2, SideFacts DEF RingInv, WaiterInv
    <3>2. Reached(t)' = Reached(t)
      BY <1>2, <1>3 DEF Reached
    <3> QED BY <1>2, <1>3, <3>1, <3>2 DEF WaiterOk
  <2>2. Kind[o] = "st" => t = Only(o)
    BY <1>1 DEF CallOk
  <2> QED BY <1>1, <1>2, <2>1, <2>2, WaiterRest DEF RingInv
<1> QED BY <1>6, <1>8, <1>9, <1>10, <1>11, <1>12, <1>13, <1>14

(* The slots a producer fills hold nothing that is still to be read.        *)
LEMMA SlotsAreFree ==
  ASSUME RingInv, NEW t \in Producers, pc[t] = "copy",
         NEW k \in DOMAIN sent, k \notin Done("r"), NEW j \in Held(t)
  PROVE  Slot(j) # Slot(k)
<1> SUFFICES ASSUME Slot(j) = Slot(k) PROVE FALSE
  OBVIOUS
<1>1. /\ RingTypeOK /\ CallInv /\ ShareInv /\ LapInv /\ Size \in Nat \ {0} /\ CallOk(t)
      /\ t \in Threads /\ Own(t) = "w" /\ Other(t) = "r"
  BY SizeAssumption DEF RingInv, CallInv, Threads, Own, Other
<1>2. /\ loc[t].base \in Nat /\ End(t) \in Nat /\ reserve["w"] \in Nat /\ loc[t].size \in 0 .. Size
      /\ End(t) = loc[t].base + loc[t].size
  BY <1>1, CallTypes DEF End
<1>3. /\ loc[t].base >= Size /\ loc[t].size > 0 /\ Held(t) \cap DOMAIN sent = {}
      /\ Before("r", End(t) - Size)
  BY <1>1 DEF CallOk, Owns, Copied, Min
<1>4. k \in Size .. reserve["w"] - 1
  BY <1>1 DEF ShareInv, Copied, Side
<1>5. k \in Nat /\ k >= Size /\ j \in Nat /\ j >= loc[t].base /\ j < End(t)
  BY <1>1, <1>2, <1>4 DEF Held
<1>6. k >= End(t) - Size
  BY <1>1, <1>2, <1>3, <1>5 DEF Before
<1>7. j # k
  BY <1>3
<1>8. ~(k < j)
  <2> SUFFICES ASSUME k < j PROVE FALSE
    OBVIOUS
  <2>1. k + Size <= j
    BY <1>5, SlotFar DEF Slot
  <2> QED BY <1>1, <1>2, <1>5, <1>6, <2>1
<1>9. j + Size <= k
  BY <1>5, <1>7, <1>8, SlotFar DEF Slot
<1>10. loc[t].base <= k - Size
  BY <1>1, <1>2, <1>5, <1>9
<1>11. Size .. k - Size \subseteq Done("r")
  <2>1. CASE k \in Done("w")
    <3>1. Before("r", k + 1 - Size)
      BY <1>1, <2>1 DEF LapInv
    <3> QED BY <1>1, <1>5, <3>1 DEF Before
  <2>2. CASE k \notin Done("w")
    <3>1. PICK u \in Threads : Own(u) = "w" /\ pc[u] = "set" /\ k \in Held(u)
      <4>1. k \in Copied("w")
        BY DEF Copied
      <4>2. \E u : Own(u) = "w" /\ pc[u] = "set" /\ k \in Held(u) /\ u \in Threads
        <5>1. k \in Unset("w")
          BY <2>2, <4>1 DEF Done, Copied
        <5> QED BY <5>1 DEF Unset
      <4> QED BY <4>2
    <3>2. u \in Producers /\ Other(u) = "r"
      BY <3>1, SideFacts DEF Own, Other
    <3>3. Before("r", End(u) - Size)
      BY <1>1, <3>1, <3>2 DEF CallInv, CallOk, Min
    <3>4. End(u) \in Nat /\ loc[u].base \in Nat
      BY <1>1, CallTypes
    <3>5. k <= End(u) - 1
      BY <3>1, <3>4 DEF Held
    <3>6. k - Size <= End(u) - Size - 1
      BY <1>1, <1>5, <3>4, <3>5
    <3> QED BY <1>1, <1>5, <3>3, <3>4, <3>6 DEF Before
  <2> QED BY <2>1, <2>2
<1>12. loc[t].base \in Done("r")
  BY <1>1, <1>2, <1>3, <1>5, <1>10, <1>11
<1>13. loc[t].base \in Done("w")
  BY <1>1, <1>2, <1>3, <1>12 DEF LapInv, Before
<1>14. loc[t].base \in DOMAIN sent /\ loc[t].base \in Held(t)
  BY <1>2, <1>3, <1>13, DoneIs DEF Copied, Held
<1> QED BY <1>3, <1>14

(* A producer copies into its slots.                                        *)
LEMMA FillKeeps ==
  ASSUME OneEndSingle, RingInv, NEW t \in Threads, use' = use, Fill(t)
  PROVE  /\ RingInv' /\ \A s \in Side : Done(s)' = Done(s)
         /\ \A k \in DOMAIN sent : k \in DOMAIN sent' /\ sent'[k] = sent[k]
<1> DEFINE new == [k \in Held(t) |-> Item(t, Numbered(t) + k - loc[t].base + 1)]
<1>1. /\ pc[t] = "copy" /\ t \in Producers /\ Goto(t, "set")
      /\ UNCHANGED <<reserve, ready, cache, barrier, loc, rcvd>>
      /\ buffer' = [i \in Slots |->
              IF \E k \in Held(t) : Slot(k) = i
              THEN new[CHOOSE k \in Held(t) : Slot(k) = i] ELSE buffer[i]]
      /\ sent' = [k \in DOMAIN sent \cup Held(t) |-> IF k \in Held(t) THEN new[k] ELSE sent[k]]
  BY DEF Fill
<1> HIDE DEF new
<1>2. /\ RingTypeOK /\ CallInv /\ Size \in Nat \ {0} /\ CallOk(t) /\ Own(t) = "w" /\ Other(t) = "r"
  BY <1>1, SizeAssumption DEF RingInv, CallInv, Own, Other
<1>3. Held(t) \cap DOMAIN sent = {}
  BY <1>1, <1>2 DEF CallOk, Owns, Copied
<1>4. /\ RingTypeOK' /\ CallInv' /\ ShareInv' /\ LapInv' /\ CursorInv' /\ EntryInv' /\ WaiterInv'
      /\ \A s \in Side : Done(s)' = Done(s)
  <2>1. Moves(t, "set")
    BY <1>1, <1>2, GotoMoves DEF Places
  <2>2. Copied("w")' = Copied("w") \cup Held(t) /\ Copied("r")' = Copied("r")
    BY <1>1 DEF Copied
  <2>3. DOMAIN buffer' = Slots
    BY <1>1
  <2> QED BY <1>1, <1>2, <2>1, <2>2, <2>3, CopyFrame
<1>5. ASSUME NEW k \in DOMAIN sent', k \notin Done("r")' PROVE buffer'[Slot(k)] = sent'[k]
  <2>1. k \notin Done("r")
    BY <1>4, <1>5 DEF Side
  <2>2. CASE k \in Held(t)
    <3>1. /\ loc[t].base \in Nat /\ End(t) \in Nat /\ loc[t].size \in 0 .. Size
          /\ End(t) = loc[t].base + loc[t].size
      BY <1>2, CallTypes DEF End
    <3>2. Slot(k) \in Slots
      BY <2>2, <3>1, SlotType DEF Held
    <3>3. ASSUME NEW j \in Held(t), Slot(j) = Slot(k) PROVE j = k
      <4>1. j \in Nat /\ k \in Nat /\ j >= loc[t].base /\ k >= loc[t].base /\ j < End(t) /\ k < End(t)
        BY <2>2, <3>1 DEF Held
      <4>2. ~(j < k)
        <5> SUFFICES ASSUME j < k PROVE FALSE
          OBVIOUS
        <5>1. j + Size <= k
          BY <3>3, <4>1, SlotFar DEF Slot
        <5> QED BY <1>2, <3>1, <4>1, <5>1
      <4>3. ~(k < j)
        <5> SUFFICES ASSUME k < j PROVE FALSE
          OBVIOUS
        <5>1. k + Size <= j
          BY <3>3, <4>1, SlotFar DEF Slot
        <5> QED BY <1>2, <3>1, <4>1, <5>1
      <4> QED BY <4>1, <4>2, <4>3
    <3>4. (CHOOSE j \in Held(t) : Slot(j) = Slot(k)) = k
      BY <2>2, <3>3
    <3>5. buffer'[Slot(k)] = new[k]
      BY <1>1, <2>2, <3>2, <3>4
    <3> QED BY <1>1, <2>2, <3>5
  <2>3. CASE k \notin Held(t)
    <3>1. k \in DOMAIN sent /\ sent'[k] = sent[k]
      BY <1>1, <2>3
    <3>2. k \in Nat
      <4>1. k \in Size .. reserve["w"] - 1 /\ reserve["w"] \in Nat
        BY <1>2, <3>1 DEF RingInv, ShareInv, Copied, Side, RingTypeOK
      <4> QED BY <1>2, <4>1
    <3>3. buffer'[Slot(k)] = buffer[Slot(k)]
      <4>1. \A j \in Held(t) : Slot(j) # Slot(k)
        BY <1>1, <2>1, <3>1, SlotsAreFree
      <4> QED BY <1>1, <3>2, <4>1, SlotType
    <3> QED BY <2>1, <3>1, <3>3 DEF RingInv, BufferInv
  <2> QED BY <2>2, <2>3
<1>6. \A k \in DOMAIN sent : k \in DOMAIN sent' /\ sent'[k] = sent[k]
  BY <1>1, <1>3
<1>7. \A k \in DOMAIN rcvd' : k \in DOMAIN sent' /\ rcvd'[k] = sent'[k]
  BY <1>1, <1>6 DEF RingInv, BufferInv
<1>8. BufferInv'
  BY <1>5, <1>7 DEF BufferInv
<1> QED BY <1>4, <1>6, <1>8 DEF RingInv

(* What a consumer is about to copy was filled and not read.                *)
LEMMA SlotsAreFull ==
  ASSUME RingInv, NEW t \in Consumers, pc[t] = "copy", NEW k \in Held(t)
  PROVE  k \in Done("w") /\ k \in DOMAIN sent /\ k \notin DOMAIN rcvd /\ buffer[Slot(k)] = sent[k]
<1>1. /\ RingTypeOK /\ CallInv /\ Size \in Nat \ {0} /\ CallOk(t)
      /\ t \in Threads /\ Own(t) = "r" /\ Other(t) = "w" /\ t \notin Producers
  BY SizeAssumption, ThreadAssumption DEF RingInv, CallInv, Threads, Own, Other
<1>2. loc[t].base \in Nat /\ End(t) \in Nat
  BY <1>1, CallTypes
<1>3. /\ loc[t].base >= Size /\ Held(t) \cap DOMAIN rcvd = {} /\ Before("w", End(t))
  BY <1>1 DEF CallOk, Owns, Copied, Min
<1>4. k \in Done("w")
  BY <1>1, <1>2, <1>3 DEF Before, Held
<1>5. k \in DOMAIN sent
  BY <1>4, DoneIs DEF Copied
<1>6. k \notin Done("r") /\ k \notin DOMAIN rcvd
  BY <1>3, DoneIs DEF Copied
<1> QED BY <1>4, <1>5, <1>6 DEF RingInv, BufferInv

(* A consumer copies out of its slots.                                      *)
LEMMA ReadKeeps ==
  ASSUME OneEndSingle, RingInv, NEW t \in Threads, use' = use, Read(t)
  PROVE  RingInv' /\ \A s \in Side : Done(s)' = Done(s)
<1>1. /\ pc[t] = "copy" /\ t \in Consumers /\ Goto(t, "set")
      /\ UNCHANGED <<reserve, ready, cache, barrier, buffer, loc, sent>>
      /\ rcvd' = [k \in DOMAIN rcvd \cup Held(t) |->
                    IF k \in Held(t) THEN buffer[Slot(k)] ELSE rcvd[k]]
  BY DEF Read
<1>2. /\ RingTypeOK /\ Own(t) = "r" /\ Other(t) = "w"
  BY <1>1, ThreadAssumption DEF RingInv, Own, Other
<1>3. /\ RingTypeOK' /\ CallInv' /\ ShareInv' /\ LapInv' /\ CursorInv' /\ EntryInv' /\ WaiterInv'
      /\ \A s \in Side : Done(s)' = Done(s)
  <2>1. Moves(t, "set")
    BY <1>1, <1>2, GotoMoves DEF Places
  <2>2. Copied("r")' = Copied("r") \cup Held(t) /\ Copied("w")' = Copied("w")
    BY <1>1 DEF Copied
  <2>3. DOMAIN buffer' = Slots
    BY <1>1, <1>2 DEF RingTypeOK
  <2> QED BY <1>1, <1>2, <2>1, <2>2, <2>3, CopyFrame
<1>4. BufferInv'
  <2>1. \A k \in DOMAIN sent : k \notin Done("r")' => buffer[Slot(k)] = sent[k]
    BY <1>3 DEF RingInv, BufferInv, Side
  <2>2. \A k \in DOMAIN rcvd' : k \in DOMAIN sent /\ rcvd'[k] = sent[k]
    BY <1>1, SlotsAreFull DEF RingInv, BufferInv
  <2> QED BY <1>1, <2>1, <2>2 DEF BufferInv
<1> QED BY <1>3, <1>4 DEF RingInv

(* What a thread sets is what is finished then.                             *)
LEMMA SetFinishes ==
  ASSUME RingInv, NEW t \in Threads, Set(t)
  PROVE  /\ Done(Own(t))' = Done(Own(t)) \cup Held(t)
         /\ Done(Other(t))' = Done(Other(t))
         /\ \A s : Copied(s)' = Copied(s)
         /\ pc'[t] = "idle" /\ pc' \in [Threads -> Places]
         /\ \A u \in Threads : u # t => pc'[u] = pc[u]
         /\ \A u \in Threads : End(u)' = End(u) /\ Held(u)' = Held(u) /\ Min(u)' = Min(u)
                               /\ Own(u)' = Own(u) /\ Other(u)' = Other(u)
<1>1. /\ pc[t] = "set" /\ UNCHANGED <<loc, sent, rcvd>> /\ Goto(t, "idle")
  BY DEF Set
<1>2. RingTypeOK /\ CallOk(t) /\ ShareInv /\ Own(t) # Other(t)
  BY SideFacts DEF RingInv, CallInv
<1>3. /\ pc'[t] = "idle" /\ pc' \in [Threads -> Places]
      /\ \A u \in Threads : u # t => pc'[u] = pc[u]
  BY <1>1, <1>2 DEF RingTypeOK, Goto, Places
<1>4. \A u \in Threads : End(u)' = End(u) /\ Held(u)' = Held(u) /\ Min(u)' = Min(u)
                         /\ Own(u)' = Own(u) /\ Other(u)' = Other(u)
  BY <1>1 DEF End, Held, Min, Own, Other
<1>5. \A s : Copied(s)' = Copied(s)
  BY <1>1 DEF Copied
<1>6. ASSUME NEW s, NEW k
      PROVE  k \in Done(s)' <=> k \in Copied(s)
               /\ \A u \in Threads : Own(u) = s /\ pc'[u] = "set" => k \notin Held(u)
  <2>1. k \in Done(s)' <=> k \in Copied(s)'
               /\ \A u \in Threads : Own(u)' = s /\ pc'[u] = "set" => k \notin Held(u)'
    BY DEF Done, Unset, Copied
  <2> QED BY <1>4, <1>5, <2>1
<1>7. Held(t) \subseteq Copied(Own(t)) /\ Owns(t)
  BY <1>1, <1>2 DEF CallOk, Owns
<1>8. \A u \in Threads : u # t /\ Own(u) = Own(t) /\ pc[u] = "set" => Held(u) \cap Held(t) = {}
  BY <1>2, <1>7 DEF ShareInv, Owns
<1>9. \A k : k \in Done(Own(t))' <=> k \in Done(Own(t)) \cup Held(t)
  <2> TAKE k
  <2>1. k \in Done(Own(t)) <=> k \in Copied(Own(t))
               /\ \A u \in Threads : Own(u) = Own(t) /\ pc[u] = "set" => k \notin Held(u)
    BY DoneIs
  <2>2. k \in Done(Own(t))' <=> k \in Copied(Own(t))
               /\ \A u \in Threads : Own(u) = Own(t) /\ pc'[u] = "set" => k \notin Held(u)
    <3>1. Own(t)' = Own(t)
      BY <1>4
    <3> QED BY <1>6, <3>1
  <2> QED BY <1>1, <1>3, <1>7, <1>8, <2>1, <2>2
<1>10. \A k : k \in Done(Other(t))' <=> k \in Done(Other(t))
  <2> TAKE k
  <2>1. k \in Done(Other(t)) <=> k \in Copied(Other(t))
               /\ \A u \in Threads : Own(u) = Other(t) /\ pc[u] = "set" => k \notin Held(u)
    BY DoneIs
  <2>2. k \in Done(Other(t))' <=> k \in Copied(Other(t))
               /\ \A u \in Threads : Own(u) = Other(t) /\ pc'[u] = "set" => k \notin Held(u)
    <3>1. Other(t)' = Other(t)
      BY <1>4
    <3> QED BY <1>6, <3>1
  <2> QED BY <1>1, <1>2, <1>3, <2>1, <2>2
<1>11. Done(Own(t))' = Done(Own(t)) \cup Held(t) /\ Done(Other(t))' = Done(Other(t))
  <2>1. \A s : Done(s) = Copied(s) \ Unset(s)
    BY DEF Done, Copied
  <2>2. Done(Own(t))' = Copied(Own(t))' \ Unset(Own(t))' /\ Done(Other(t))' = Copied(Other(t))' \ Unset(Other(t))'
    BY DEF Done, Copied
  <2> QED BY <1>9, <1>10, <2>1, <2>2
<1> QED BY <1>3, <1>4, <1>5, <1>11

(* Setting.                                                                 *)
LEMMA SetKeeps ==
  ASSUME OneEndSingle, RingInv, NEW t \in Threads, use' = use, Set(t)
  PROVE  RingInv'
<1> PICK o, q : o = Own(t) /\ q = Other(t)
  OBVIOUS
<1>1. /\ pc[t] = "set" /\ UNCHANGED <<reserve, cache, buffer, loc, sent, rcvd>>
      /\ IF Kind[o] = "st"
         THEN ready' = [ready EXCEPT ![o] = End(t)] /\ UNCHANGED barrier
         ELSE barrier' = [barrier EXCEPT ![o][Slot(loc[t].base)] = End(t)] /\ UNCHANGED ready
  BY DEF Set
<1>2. /\ RingTypeOK /\ CallInv /\ ShareInv /\ CallOk(t) /\ Size \in Nat \ {0}
      /\ o \in Side /\ q \in Side /\ q # o /\ \A s \in Side : s = o \/ s = q
      /\ (o = "w" <=> t \in Producers) /\ (q = "r" <=> t \in Producers)
  BY SideFacts, SizeAssumption DEF RingInv, CallInv, Side, Own, Other
<1>3. /\ loc[t].base \in Nat /\ loc[t].size \in 0 .. Size /\ End(t) \in Nat /\ reserve[o] \in Nat
      /\ End(t) = loc[t].base + loc[t].size /\ Kind[o] \in {"st", "mt"}
  BY <1>2, CallTypes DEF End
<1>4. /\ loc[t].base >= Size /\ loc[t].size > 0 /\ Owns(t) /\ End(t) <= reserve[o]
      /\ Before(q, Min(t))
      /\ Kind[o] = "st" => t = Only(o) /\ reserve[o] = End(t)
  BY <1>1, <1>2 DEF CallOk, Owns
<1>5. /\ Done(o)' = Done(o) \cup Held(t) /\ Done(q)' = Done(q)
      /\ \A s : Copied(s)' = Copied(s)
      /\ pc'[t] = "idle" /\ pc' \in [Threads -> Places]
      /\ \A u \in Threads : u # t => pc'[u] = pc[u]
      /\ \A u \in Threads : End(u)' = End(u) /\ Held(u)' = Held(u) /\ Min(u)' = Min(u)
                            /\ Own(u)' = Own(u) /\ Other(u)' = Other(u)
  BY SetFinishes
<1>6. /\ \A s \in Side : Done(s) \subseteq Done(s)'
      /\ \A s \in Side : \A v : Before(s, v) => Before(s, v)'
  <2>1. \A s \in Side : Done(s) \subseteq Done(s)'
    BY <1>2, <1>5
  <2> QED BY <2>1 DEF Before
<1>7. Kind' = Kind /\ \A s : Only(s)' = Only(s)
  BY DEF Kind, Only, Own
<1>8. \A u \in Threads : u # t => (Owns(u)' <=> Owns(u))
  BY <1>1, <1>5 DEF Owns
<1>9. RingTypeOK'
  <2>1. ready' \in [Side -> Nat]
    BY <1>1, <1>2, <1>3 DEF RingTypeOK
  <2>2. barrier' \in [Side -> [Slots -> Nat]]
    <3>1. CASE Kind[o] = "st"
      BY <1>1, <1>2, <3>1 DEF RingTypeOK
    <3>2. CASE Kind[o] # "st"
      <4>1. barrier' = [barrier EXCEPT ![o] = [barrier[o] EXCEPT ![Slot(loc[t].base)] = End(t)]]
        BY <1>1, <1>2, <3>2 DEF RingTypeOK
      <4>2. [barrier[o] EXCEPT ![Slot(loc[t].base)] = End(t)] \in [Slots -> Nat]
        BY <1>2, <1>3 DEF RingTypeOK
      <4> QED BY <1>2, <4>1, <4>2 DEF RingTypeOK
    <3> QED BY <3>1, <3>2
  <2> QED BY <1>1, <1>2, <1>5, <2>1, <2>2 DEF RingTypeOK
<1>10. CallInv'
  <2> SUFFICES ASSUME NEW u \in Threads, pc'[u] # "idle" PROVE CallOk(u)'
    BY DEF CallInv, CallOk
  <2>1. u # t
    BY <1>5
  <2>2. CallOk(u) /\ pc'[u] = pc[u] /\ Own(u) \in Side /\ Other(u) \in Side
    BY <1>2, <1>5, <2>1, SideFacts DEF CallInv
  <2>3. Before(Other(u), Min(u)) => Before(Other(u), Min(u))'
    <3>1. PICK v, w : v = Min(u) /\ w = Other(u)
      OBVIOUS
    <3>2. v = Min(u)' /\ w = Other(u)'
      BY <1>5, <3>1
    <3>3. Before(w, v) => Before(w, v)'
      BY <1>6, <2>2, <3>1
    <3> QED BY <3>1, <3>2, <3>3 DEF Before
  <2> QED BY <1>1, <1>5, <1>7, <1>8, <2>1, <2>2, <2>3 DEF CallOk
<1>11. ShareInv'
  <2>1. ASSUME NEW s \in Side, NEW k \in Size .. reserve[s] - 1
        PROVE  k \in Done(s)' \/ \E u \in Threads : Own(u)' = s /\ Owns(u)' /\ k \in Held(u)'
    <3>1. k \in Done(s) \/ \E u \in Threads : Own(u) = s /\ Owns(u) /\ k \in Held(u)
      BY <1>2 DEF ShareInv
    <3>2. CASE k \in Done(s)
      BY <1>6, <3>2
    <3>3. ASSUME NEW u \in Threads, Own(u) = s, Owns(u), k \in Held(u)
          PROVE  k \in Done(s)' \/ \E v \in Threads : Own(v)' = s /\ Owns(v)' /\ k \in Held(v)'
      <4>1. CASE u = t
        BY <1>5, <3>3, <4>1
      <4>2. CASE u # t
        BY <1>5, <1>8, <3>3, <4>2
      <4> QED BY <4>1, <4>2
    <3> QED BY <3>1, <3>2, <3>3
  <2>2. ~Owns(t)'
    BY <1>5 DEF Owns
  <2>3. \A u, v \in Threads :
          u # v /\ Own(u)' = Own(v)' /\ Owns(u)' /\ Owns(v)' => Held(u)' \cap Held(v)' = {}
    BY <1>2, <1>5, <1>8, <2>2 DEF ShareInv
  <2>4. \A s \in Side : reserve'[s] >= Size /\ Copied(s)' \subseteq Size .. reserve'[s] - 1
    BY <1>1, <1>2, <1>5 DEF ShareInv
  <2> QED BY <1>1, <2>1, <2>3, <2>4 DEF ShareInv
<1>12. LapInv'
  <2>1. CASE t \in Producers
    <3>1. o = "w" /\ q = "r"
      BY <1>2, <2>1 DEF Side
    <3>2. Before("r", End(t) - Size)
      BY <1>4, <2>1, <3>1 DEF Min
    <3>3. ASSUME NEW k \in Done("w")' PROVE Before("r", k + 1 - Size)'
      <4>1. CASE k \in Done("w")
        BY <1>6, <4>1 DEF RingInv, LapInv, Side
      <4>2. CASE k \notin Done("w")
        <5>1. k \in loc[t].base .. End(t) - 1
          BY <1>5, <3>1, <3>3, <4>2 DEF Held
        <5>2. k + 1 - Size \in Int /\ End(t) - Size \in Int /\ k + 1 - Size <= End(t) - Size
          BY <1>2, <1>3, <5>1
        <5>3. Before("r", k + 1 - Size)
          BY <3>2, <5>2, BeforeLess
        <5> QED BY <1>6, <5>3 DEF Side
      <4> QED BY <4>1, <4>2
    <3>4. ASSUME NEW k \in Done("r")' PROVE Before("w", k + 1)'
      BY <1>5, <1>6, <3>1 DEF RingInv, LapInv, Side
    <3> QED BY <3>3, <3>4 DEF LapInv
  <2>2. CASE t \notin Producers
    <3>1. o = "r" /\ q = "w"
      BY <1>2, <2>2 DEF Side
    <3>2. Before("w", End(t))
      BY <1>4, <2>2, <3>1 DEF Min
    <3>3. ASSUME NEW k \in Done("r")' PROVE Before("w", k + 1)'
      <4>1. CASE k \in Done("r")
        BY <1>6, <4>1 DEF RingInv, LapInv, Side
      <4>2. CASE k \notin Done("r")
        <5>1. k \in loc[t].base .. End(t) - 1
          BY <1>5, <3>1, <3>3, <4>2 DEF Held
        <5>2. k + 1 \in Int /\ End(t) \in Int /\ k + 1 <= End(t)
          BY <1>2, <1>3, <5>1
        <5>3. Before("w", k + 1)
          BY <3>2, <5>2, BeforeLess
        <5> QED BY <1>6, <5>3 DEF Side
      <4> QED BY <4>1, <4>2
    <3>4. ASSUME NEW k \in Done("w")' PROVE Before("r", k + 1 - Size)'
      BY <1>5, <1>6, <3>1 DEF RingInv, LapInv, Side
    <3> QED BY <3>3, <3>4 DEF LapInv
  <2> QED BY <2>1, <2>2
<1>13. CursorInv'
  <2>1. ASSUME NEW s \in Side PROVE Before(s, ready[s])' /\ Before(s, cache[s])'
    <3>1. Before(s, cache[s]) /\ Before(s, ready[s])
      BY DEF RingInv, CursorInv
    <3>2. Before(s, cache[s])'
      BY <1>1, <1>6, <3>1 DEF Before
    <3>3. CASE s = o /\ Kind[o] = "st"
      <4>1. ready'[s] = End(t)
        BY <1>1, <1>2, <3>3 DEF RingTypeOK
      <4>2. Size .. End(t) - 1 \subseteq Done(o)'
        <5> SUFFICES ASSUME NEW k \in Size .. End(t) - 1 PROVE k \in Done(o)'
          OBVIOUS
        <5>1. k \in Size .. reserve[o] - 1
          BY <1>4, <3>3
        <5>2. k \in Done(o) \/ \E u \in Threads : Own(u) = o /\ Owns(u) /\ k \in Held(u)
          BY <1>2, <5>1 DEF ShareInv
        <5>3. \A u \in Threads : Own(u) = o /\ Owns(u) => u = t
          BY <1>2, <1>4, <3>3 DEF CallInv, CallOk, Owns
        <5> QED BY <1>5, <5>2, <5>3
      <4> QED BY <3>2, <3>3, <4>1, <4>2 DEF Before
    <3>4. CASE ~(s = o /\ Kind[o] = "st")
      <4>1. ready'[s] = ready[s]
        BY <1>1, <1>2, <3>4 DEF RingTypeOK
      <4> QED BY <1>6, <3>1, <3>2, <4>1 DEF Before
    <3> QED BY <3>3, <3>4
  <2>2. ASSUME NEW u \in Threads PROVE Before(Other(u), loc[u].seen)' /\ Before(Other(u), loc[u].pre)'
    <3>1. PICK s, v, w : s = Other(u) /\ v = loc[u].seen /\ w = loc[u].pre
      OBVIOUS
    <3>2. s \in Side /\ Before(s, v) /\ Before(s, w)
      BY <3>1, SideFacts DEF RingInv, CursorInv
    <3>3. Before(s, v)' /\ Before(s, w)'
      BY <1>6, <3>2
    <3>4. s = Other(u)' /\ v = loc'[u].seen /\ w = loc'[u].pre
      BY <1>1, <1>5, <3>1
    <3> QED BY <3>3, <3>4 DEF Before
  <2> QED BY <2>1, <2>2 DEF CursorInv
<1>14. EntryInv'
  <2>0. ASSUME NEW s \in Side, NEW i \in Slots, NEW e, EntryOk(s, i, e) PROVE EntryOk(s, i, e)'
    <3>1. Done(s) \subseteq Done(s)'
      BY <1>6
    <3> QED BY <2>0, <3>1 DEF EntryOk
  <2> SUFFICES ASSUME NEW s \in Side, NEW i \in Slots PROVE EntryOk(s, i, barrier[s][i])'
    BY DEF EntryInv
  <2>1. EntryOk(s, i, barrier[s][i])
    BY DEF RingInv, EntryInv
  <2>2. CASE barrier'[s][i] = barrier[s][i]
    BY <2>0, <2>1, <2>2 DEF EntryOk
  <2>3. CASE barrier'[s][i] # barrier[s][i]
    <3>1. Kind[o] # "st"
      BY <1>1, <2>3
    <3>2. barrier' = [barrier EXCEPT ![o] = [barrier[o] EXCEPT ![Slot(loc[t].base)] = End(t)]]
      BY <1>1, <1>2, <3>1 DEF RingTypeOK
    <3>3. s = o /\ i = Slot(loc[t].base) /\ barrier'[s][i] = End(t)
      BY <1>2, <2>3, <3>2 DEF RingTypeOK
    <3>4. loc[t].base \in Size .. End(t) - 1
      BY <1>2, <1>3, <1>4
    <3>5. loc[t].base % Size = i /\ End(t) <= loc[t].base + Size
      BY <1>2, <1>3, <3>3 DEF Slot
    <3>6. loc[t].base .. End(t) - 1 \subseteq Done(s)'
      BY <1>5, <3>3 DEF Held
    <3> QED BY <3>3, <3>4, <3>5, <3>6 DEF EntryOk
  <2> QED BY <2>2, <2>3
<1>15. WaiterInv'
  <2>1. ASSUME Kind[q] = "mt" PROVE WaiterOk(q, t)'
    <3>1. Kind[o] = "st"
      BY <1>2, <2>1, WaiterAlone
    <3>2. WaiterOk(q, t)
      <4>1. t = Only(Opp(q))
        BY <1>4, <3>1, SideFacts
      <4> QED BY <1>2, <2>1, <4>1 DEF RingInv, WaiterInv
    <3>3. Reached(t)' = Reached(t)
      BY <1>1, <1>4, <1>5, <3>1 DEF Reached
    <3>4. ready'[q] = ready[q]
      BY <1>1, <1>2 DEF RingTypeOK
    <3> QED BY <1>1, <1>5, <3>2, <3>3, <3>4 DEF WaiterOk
  <2>2. Kind[o] = "mt" => ready'[o] = ready[o]
    BY <1>1
  <2>3. Kind[q] = "mt" => WaiterOk(Other(t), t)'
    <3>1. q = Other(t)'
      BY <1>5
    <3> QED BY <2>1, <3>1
  <2> QED BY <1>1, <1>2, <1>4, <1>5, <2>2, <2>3, WaiterRest DEF RingInv
<1>16. BufferInv'
  <2>1. \A k : k \in Done("r") => k \in Done("r")'
    BY <1>6 DEF Side
  <2> QED BY <1>1, <2>1 DEF RingInv, BufferInv
<1> QED BY <1>9, <1>10, <1>11, <1>12, <1>13, <1>14, <1>15, <1>16 DEF RingInv

(* A step that leaves everything alone.                                     *)
LEMMA RingStutter ==
  ASSUME RingInv, UNCHANGED <<vars, use>>
  PROVE  RingInv'
<1>1. /\ \A s : Done(s)' = Done(s) /\ Copied(s)' = Copied(s)
      /\ \A s, v : Before(s, v)' <=> Before(s, v)
  BY DoneSame DEF vars
<1>2. /\ Kind' = Kind /\ \A s : Only(s)' = Only(s) /\ Opp(s)' = Opp(s)
  BY DEF Kind, Only, Own, Opp
<1>3. \A u : /\ End(u)' = End(u) /\ Held(u)' = Held(u) /\ Min(u)' = Min(u)
             /\ Own(u)' = Own(u) /\ Other(u)' = Other(u)
             /\ Owns(u)' <=> Owns(u)
             /\ Reached(u)' = Reached(u)
  BY DEF End, Held, Min, Own, Other, Owns, Reached, vars
<1>4. RingTypeOK'
  BY DEF RingInv, RingTypeOK, vars
<1>5. CallInv'
  BY <1>1, <1>2, <1>3 DEF RingInv, CallInv, CallOk, vars
<1>6. ShareInv'
  BY <1>1, <1>3 DEF RingInv, ShareInv, vars
<1>7. LapInv' /\ EntryInv' /\ BufferInv'
  BY <1>1 DEF RingInv, LapInv, EntryInv, EntryOk, BufferInv, vars
<1>8. CursorInv'
  BY <1>1, <1>3 DEF RingInv, CursorInv, Before, vars
<1>9. WaiterInv'
  BY <1>2, <1>3 DEF RingInv, WaiterInv, WaiterOk, vars
<1> QED BY <1>4, <1>5, <1>6, <1>7, <1>8, <1>9 DEF RingInv

(* Every step of every thread.                                              *)
LEMMA RingNext ==
  ASSUME OneEndSingle, RingInv, [Next]_<<vars, use>>
  PROVE  RingInv'
<1>1. CASE UNCHANGED <<vars, use>>
  BY <1>1, RingStutter
<1>2. CASE Next
  <2>1. PICK t \in Threads : (Start(t) \/ Wait(t) \/ Finish(t)) /\ use' = use
    BY <1>2 DEF Next
  <2> QED BY <2>1, StartKeeps, WaitKeeps, ClaimKeeps, FillKeeps, ReadKeeps, SetKeeps DEF Finish
<1> QED BY <1>1, <1>2

(* The inductive invariant of the queue: positions are handed out once, each*)
(* side follows the other within a lap, and no cursor or entry is ahead of  *)
(* what its side has finished.                                              *)
THEOREM RingInductive ==
  ASSUME OneEndSingle
  PROVE  Spec => []RingInv
<1>1. RingInv /\ [Next]_<<vars, use>> => RingInv'
  BY RingNext
<1> QED BY <1>1, RingInit, PTL DEF Spec

-----------------------------------------------------------------------------
(* What the invariant says of the positions.                                *)

(* A non-empty set of natural numbers has a least element.                  *)
LEMMA LeastElement ==
  ASSUME NEW T \in SUBSET Nat, T # {}
  PROVE  \E x \in T : \A y \in T : x <= y
<1> DEFINE R == OpToRel(<, Nat)
<1>1. IsWellFoundedOn(R, Nat)
  BY NatLessThanWellFounded DEF R
<1> HIDE DEF R
<1>2. PICK x \in T : \A y \in T : <<y, x>> \notin R
  BY <1>1, WFMin
<1>3. \A y \in T : ~(y < x)
  BY <1>2 DEF R, OpToRel
<1> QED BY <1>3

(* PrefixEnd is the end of the positions that are there from the first one  *)
(* on.                                                                      *)
LEMMA PrefixEndIs ==
  ASSUME NEW m \in Nat, NEW S \in SUBSET (Size .. m - 1)
  PROVE  /\ PrefixEnd(S) \in Nat /\ PrefixEnd(S) >= Size
         /\ PrefixEnd(S) \notin S /\ Size .. PrefixEnd(S) - 1 \subseteq S
<1>0. Size \in Nat \ {0}
  BY SizeAssumption
<1> DEFINE T == {x \in Nat : x >= Size /\ x \notin S}
<1>1. T \in SUBSET Nat /\ T # {}
  <2>1. m \notin S /\ m + Size \notin S
    BY <1>0
  <2> QED BY <1>0, <2>1
<1>2. PICK k \in T : \A y \in T : k <= y
  <2> HIDE DEF T
  <2> QED BY <1>1, LeastElement
<1>3. k \in Nat /\ k >= Size /\ k \notin S
  BY <1>2
<1>4. Size .. k - 1 \subseteq S
  <2> SUFFICES ASSUME NEW j \in Size .. k - 1, j \notin S PROVE FALSE
    OBVIOUS
  <2>1. j \in T
    BY <1>0
  <2> QED BY <1>0, <1>2, <1>3, <2>1
<1>5. k <= Size + Cardinality(S) /\ Cardinality(S) \in Nat
  <2>1. m - 1 \in Int /\ k - 1 \in Int /\ Size \in Int
    BY <1>0, <1>3
  <2>2. IsFiniteSet(Size .. m - 1)
    BY <2>1, FS_Interval
  <2>3. IsFiniteSet(S)
    BY <2>2, FS_Subset
  <2>4. Cardinality(S) \in Nat
    BY <2>3, FS_CardinalityType
  <2>5. Cardinality(Size .. k - 1) <= Cardinality(S)
    BY <1>4, <2>3, FS_Subset
  <2>6. Cardinality(Size .. k - 1) = IF Size > k - 1 THEN 0 ELSE (k - 1) - Size + 1
    BY <2>1, FS_Interval
  <2>7. CASE k = Size
    BY <1>0, <2>4, <2>7
  <2>8. CASE k # Size
    <3>1. Cardinality(Size .. k - 1) = k - Size
      BY <1>0, <1>3, <2>6, <2>8
    <3> QED BY <1>0, <1>3, <2>4, <2>5, <3>1
  <2> QED BY <2>7, <2>8
<1>6. k \in Size .. Size + Cardinality(S)
  BY <1>0, <1>3, <1>5
<1>7. /\ PrefixEnd(S) \in Size .. Size + Cardinality(S)
      /\ PrefixEnd(S) \notin S /\ Size .. PrefixEnd(S) - 1 \subseteq S
  BY <1>3, <1>4, <1>6 DEF PrefixEnd
<1> QED BY <1>0, <1>5, <1>7

(* The ends of the positions of a side.                                     *)
LEMMA DoneEnd ==
  ASSUME RingInv, NEW s \in Side
  PROVE  /\ PrefixEnd(Done(s)) \in Nat /\ PrefixEnd(Done(s)) >= Size
         /\ PrefixEnd(Done(s)) \notin Done(s) /\ Before(s, PrefixEnd(Done(s)))
         /\ \A v \in Int : Before(s, v) => v <= PrefixEnd(Done(s))
<1>1. reserve[s] \in Nat /\ Done(s) \in SUBSET (Size .. reserve[s] - 1)
  <2>1. Done(s) \subseteq Copied(s)
    BY DoneIs
  <2> QED BY <2>1 DEF RingInv, RingTypeOK, ShareInv
<1>2. /\ PrefixEnd(Done(s)) \in Nat /\ PrefixEnd(Done(s)) >= Size
      /\ PrefixEnd(Done(s)) \notin Done(s) /\ Size .. PrefixEnd(Done(s)) - 1 \subseteq Done(s)
  BY <1>1, PrefixEndIs
<1>3. ASSUME NEW v \in Int, Before(s, v) PROVE v <= PrefixEnd(Done(s))
  <2> SUFFICES ASSUME v > PrefixEnd(Done(s)) PROVE FALSE
    BY <1>2
  <2>1. PrefixEnd(Done(s)) \in Size .. v - 1
    BY <1>2, SizeAssumption
  <2> QED BY <1>2, <1>3, <2>1 DEF Before
<1> QED BY <1>2, <1>3 DEF Before

(* No cursor, and no copy of one that a thread may act on, is ahead.        *)
LEMMA RingNeverAhead == RingInv => NeverAhead
<1> SUFFICES ASSUME RingInv PROVE NeverAhead
  OBVIOUS
<1>1. ASSUME NEW s \in Side PROVE ready[s] <= PrefixEnd(Done(s)) /\ cache[s] <= PrefixEnd(Done(s))
  <2>1. ready[s] \in Int /\ cache[s] \in Int
    BY DEF RingInv, RingTypeOK
  <2>2. Before(s, ready[s]) /\ Before(s, cache[s])
    BY DEF RingInv, CursorInv
  <2> QED BY <2>1, <2>2, DoneEnd
<1>2. ASSUME NEW t \in Threads PROVE loc[t].pre <= PrefixEnd(Done(Other(t)))
  <2>1. loc[t].pre \in Int /\ Other(t) \in Side
    <3>1. loc[t].pre \in Nat
      BY CallTypes DEF RingInv
    <3> QED BY <3>1, SideFacts
  <2>2. Before(Other(t), loc[t].pre)
    BY DEF RingInv, CursorInv
  <2> QED BY <2>1, <2>2, DoneEnd
<1> QED BY <1>1, <1>2 DEF NeverAhead

(* The positions a thread copies or has copied are not finished.            *)
LEMMA HeldUnfinished ==
  ASSUME RingInv, NEW t \in Threads, pc[t] \in {"copy", "set"}, NEW k \in Held(t)
  PROVE  k \notin Done(Own(t))
<1>1. CallOk(t)
  BY DEF RingInv, CallInv
<1>2. CASE pc[t] = "copy"
  <2>1. Held(t) \cap Copied(Own(t)) = {}
    BY <1>1, <1>2 DEF CallOk, Owns
  <2> QED BY <2>1, DoneIs
<1>3. CASE pc[t] = "set"
  BY <1>3, DoneIs
<1> QED BY <1>2, <1>3

(* Two threads never hold positions of one slot.                            *)
LEMMA SlotsApart ==
  ASSUME RingInv, NEW v \in Threads, NEW w \in Threads, v # w,
         pc[v] \in {"copy", "set"}, pc[w] \in {"copy", "set"},
         NEW a \in Held(v), NEW b \in Held(w), a = b \/ a + Size <= b
  PROVE  FALSE
<1>1. RingTypeOK /\ ShareInv /\ LapInv /\ CallOk(v) /\ CallOk(w) /\ Size \in Nat \ {0}
  BY SizeAssumption DEF RingInv, CallInv
<1>2. /\ loc[v].base \in Nat /\ End(v) \in Nat /\ loc[w].base \in Nat /\ End(w) \in Nat
  BY <1>1, CallTypes
<1>3. /\ loc[v].base >= Size /\ loc[w].base >= Size /\ Before(Other(v), Min(v)) /\ Before(Other(w), Min(w))
      /\ Owns(v) /\ Owns(w)
  BY <1>1 DEF CallOk, Owns
<1>4. /\ a \in Nat /\ a >= Size /\ a < End(v) /\ b \in Nat /\ b >= Size /\ b < End(w)
  BY <1>1, <1>2, <1>3 DEF Held
<1>5. a \notin Done(Own(v)) /\ b \notin Done(Own(w))
  BY HeldUnfinished
<1>6. CASE Own(v) = Own(w)
  <2>1. a # b
    BY <1>1, <1>3, <1>6 DEF ShareInv
  <2>2. a + Size <= b
    BY <2>1
  <2>3. CASE v \in Producers
    <3>1. Own(v) = "w" /\ w \in Producers /\ Other(w) = "r"
      BY <1>6, <2>3, SideFacts DEF Own, Other
    <3>2. Before("r", End(w) - Size)
      BY <1>3, <3>1 DEF Min
    <3>3. a \in Done("r")
      BY <1>1, <1>2, <1>4, <2>2, <3>2 DEF Before
    <3>4. a \in Done("w")
      BY <1>1, <1>4, <3>3 DEF LapInv, Before
    <3> QED BY <1>5, <3>1, <3>4
  <2>4. CASE v \notin Producers
    <3>1. Own(v) = "r" /\ w \notin Producers /\ Other(w) = "w"
      BY <1>6, <2>4, SideFacts DEF Own, Other
    <3>2. Before("w", End(w))
      BY <1>3, <3>1 DEF Min
    <3>3. b \in Done("w")
      BY <1>1, <1>2, <1>4, <3>2 DEF Before
    <3>4. Before("r", b + 1 - Size)
      BY <1>1, <3>3 DEF LapInv
    <3>5. a \in Done("r")
      BY <1>1, <1>2, <1>4, <2>2, <3>4 DEF Before
    <3> QED BY <1>5, <3>1, <3>5
  <2> QED BY <2>3, <2>4
<1>7. CASE Own(v) = "w" /\ Own(w) = "r"
  <2>1. w \notin Producers /\ Other(w) = "w"
    BY <1>7, SideFacts DEF Own, Other
  <2>2. Before("w", End(w))
    BY <1>3, <2>1 DEF Min
  <2>3. a <= b
    BY <1>1, <1>4
  <2>4. a \in Done("w")
    BY <1>1, <1>2, <1>4, <2>2, <2>3 DEF Before
  <2> QED BY <1>5, <1>7, <2>4
<1>8. CASE Own(v) = "r" /\ Own(w) = "w"
  <2>1. /\ v \notin Producers /\ Other(v) = "w"
        /\ w \in Producers /\ Other(w) = "r"
    BY <1>8, SideFacts DEF Own, Other
  <2>2. Before("w", End(v)) /\ Before("r", End(w) - Size)
    BY <1>3, <2>1 DEF Min
  <2>3. CASE a = b
    <3>1. b \in Done("w")
      BY <1>1, <1>2, <1>4, <2>2, <2>3 DEF Before
    <3> QED BY <1>5, <1>8, <3>1
  <2>4. CASE a + Size <= b
    <3>1. a \in Done("r")
      BY <1>1, <1>2, <1>4, <2>2, <2>4 DEF Before
    <3> QED BY <1>5, <1>8, <3>1
  <2> QED BY <2>3, <2>4
<1> QED BY <1>6, <1>7, <1>8, SideFacts DEF Side

(* The slots two threads copy are different ones.                           *)
LEMMA RingNoSlotRace == RingInv => NoSlotRace
<1> SUFFICES ASSUME RingInv, NEW t \in Threads, NEW u \in Threads, t # u,
                    pc[t] = "copy", pc[u] \in {"copy", "set"},
                    NEW j \in Held(t), NEW k \in Held(u), Slot(j) = Slot(k)
             PROVE  FALSE
  BY DEF NoSlotRace
<1>1. /\ loc[t].base \in Nat /\ End(t) \in Nat /\ loc[u].base \in Nat /\ End(u) \in Nat
  BY CallTypes DEF RingInv
<1>2. j \in Nat /\ k \in Nat
  BY <1>1 DEF Held
<1>3. j = k \/ j + Size <= k \/ k + Size <= j
  <2>1. CASE j < k
    BY <1>2, <2>1, SlotFar DEF Slot
  <2>2. CASE k < j
    BY <1>2, <2>2, SlotFar DEF Slot
  <2> QED BY <1>2, <2>1, <2>2
<1> QED BY <1>3, SlotsApart

(* barrier.hpp wait: no cursor, and no copy of one that a thread may act on,*)
(* is ever ahead of what that side finished.                                *)
THEOREM NeverAheadHolds ==
  ASSUME OneEndSingle
  PROVE  Spec => []NeverAhead
BY RingInductive, RingNeverAhead, PTL

(* enqueue and dequeue: no two threads copy one slot.                       *)
THEOREM NoSlotRaceHolds ==
  ASSUME OneEndSingle
  PROVE  Spec => []NoSlotRace
BY RingInductive, RingNoSlotRace, PTL

-----------------------------------------------------------------------------
(* The refinement.                                                          *)

\* The items of the positions from the first one on.
Items(f, n) == [i \in 1 .. n |-> f[Size + i - 1]]

SentEnd == PrefixEnd(Done("w"))
RcvdEnd == PrefixEnd(DOMAIN rcvd)

\* The variables of the channel.
SentItems == Items(sent, SentEnd - Size)
RcvdItems == Items(rcvd, RcvdEnd - Size)

\* Both give the first n positions the same items.
Agree(f, g, n) == \A k \in Nat : Size <= k /\ k < Size + n => g[k] = f[k]

(* There are as many items as positions.                                    *)
LEMMA ItemsLen ==
  ASSUME NEW f, NEW n \in Nat
  PROVE  Len(Items(f, n)) = n
<1> DEFINE S == {f[Size + i - 1] : i \in 1 .. n}
<1>1. Items(f, n) \in [1 .. n -> S]
  BY DEF Items
<1> HIDE DEF S
<1>2. Items(f, n) \in Seq(S)
  BY <1>1
<1>3. DOMAIN Items(f, n) = 1 .. n
  BY DEF Items
<1>4. Len(Items(f, n)) \in Nat /\ DOMAIN Items(f, n) = 1 .. Len(Items(f, n))
  BY <1>2, LenProperties
<1> QED BY <1>3, <1>4

(* A part of the items is a sequence of its own.                            *)
LEMMA ItemsPart ==
  ASSUME NEW f, NEW g, NEW n \in Nat, NEW m \in Nat, m <= n, Agree(f, g, m)
  PROVE  SubSeq(Items(f, n), 1, m) = Items(g, m)
<1>0. Size \in Nat \ {0}
  BY SizeAssumption
<1> DEFINE S == {f[Size + i - 1] : i \in 1 .. n}
<1>1. Items(f, n) \in [1 .. n -> S]
  BY DEF Items
<1>2. Items(f, n) \in Seq(S)
  <2> HIDE DEF S
  <2> QED BY <1>1
<1>4. Items(g, m) \in [1 .. m -> S]
  <2>1. \A i \in 1 .. m : g[Size + i - 1] = f[Size + i - 1]
    BY <1>0 DEF Agree
  <2>2. \A i \in 1 .. m : i \in 1 .. n
    OBVIOUS
  <2>3. \A i \in 1 .. m : g[Size + i - 1] \in S
    BY <2>1, <2>2
  <2> HIDE DEF S
  <2> QED BY <2>3 DEF Items
<1>5. Items(g, m) \in Seq(S) /\ Len(Items(g, m)) = m
  <2> HIDE DEF S
  <2>1. Items(g, m) \in Seq(S)
    BY <1>4
  <2>2. DOMAIN Items(g, m) = 1 .. m
    BY DEF Items
  <2>3. Len(Items(g, m)) \in Nat /\ DOMAIN Items(g, m) = 1 .. Len(Items(g, m))
    BY <2>1, LenProperties
  <2> QED BY <2>1, <2>2, <2>3
<1>6. /\ SubSeq(Items(f, n), 1, m) \in Seq(S)
      /\ Len(SubSeq(Items(f, n), 1, m)) = IF 1 <= m THEN m - 1 + 1 ELSE 0
      /\ \A i \in 1 .. m - 1 + 1 : SubSeq(Items(f, n), 1, m)[i] = Items(f, n)[1 + i - 1]
  <2> HIDE DEF S
  <2>1. \A i \in 1 .. m : Items(f, n)[i] \in S
    BY <1>1
  <2> QED BY <2>1, SubSeqProperties
<1>7. Len(SubSeq(Items(f, n), 1, m)) = m
  BY <1>6
<1>8. \A i \in 1 .. m : SubSeq(Items(f, n), 1, m)[i] = Items(g, m)[i]
  <2> TAKE i \in 1 .. m
  <2>1. SubSeq(Items(f, n), 1, m)[i] = Items(f, n)[i]
    BY <1>6
  <2>2. Items(f, n)[i] = f[Size + i - 1] /\ Items(g, m)[i] = g[Size + i - 1]
    BY DEF Items
  <2>3. g[Size + i - 1] = f[Size + i - 1]
    BY <1>0 DEF Agree
  <2> QED BY <2>1, <2>2, <2>3
<1> HIDE DEF S
<1> QED BY <1>5, <1>6, <1>7, <1>8, SeqEqual

(* Items that agree.                                                        *)
LEMMA ItemsSame ==
  ASSUME NEW f, NEW g, NEW n \in Nat, Agree(f, g, n)
  PROVE  Items(g, n) = Items(f, n)
<1>1. \A i \in 1 .. n : g[Size + i - 1] = f[Size + i - 1]
  BY SizeAssumption DEF Agree
<1> QED BY <1>1 DEF Items

(* What was read was finished by the other side.                            *)
LEMMA ReadWasSent ==
  ASSUME RingInv, NEW k \in DOMAIN rcvd
  PROVE  k \in Done("w") /\ k \in Nat
<1>1. RingTypeOK /\ LapInv /\ ShareInv /\ CallInv /\ Size \in Nat \ {0}
  BY SizeAssumption DEF RingInv
<1>2. k \in Copied("r")
  BY DEF Copied
<1>3. k \in Nat /\ k >= Size
  <2>1. k \in Size .. reserve["r"] - 1 /\ reserve["r"] \in Nat
    BY <1>1, <1>2 DEF ShareInv, RingTypeOK, Side
  <2> QED BY <1>1, <2>1
<1>4. CASE k \in Done("r")
  BY <1>1, <1>3, <1>4 DEF LapInv, Before
<1>5. CASE k \notin Done("r")
  <2>1. PICK u \in Threads : Own(u) = "r" /\ pc[u] = "set" /\ k \in Held(u)
    <3>1. k \in Unset("r")
      BY <1>2, <1>5 DEF Done, Copied
    <3> QED BY <3>1 DEF Unset
  <2>2. u \notin Producers /\ Other(u) = "w"
    BY <2>1, SideFacts DEF Own, Other
  <2>3. Before("w", End(u))
    BY <1>1, <2>1, <2>2 DEF CallInv, CallOk, Min
  <2>4. End(u) \in Nat /\ loc[u].base \in Nat
    BY <1>1, CallTypes
  <2> QED BY <1>1, <1>3, <2>1, <2>3, <2>4 DEF Before, Held
<1> QED BY <1>3, <1>4, <1>5

\* What is known of the two ends of the channel.
EndsOk ==
  /\ SentEnd \in Nat /\ SentEnd >= Size /\ SentEnd \notin Done("w")
  /\ RcvdEnd \in Nat /\ RcvdEnd >= Size /\ RcvdEnd \notin DOMAIN rcvd
  /\ \A k \in Nat : Size <= k /\ k < SentEnd => k \in Done("w") /\ k \in DOMAIN sent
  /\ \A k \in Nat : Size <= k /\ k < RcvdEnd =>
        k \in DOMAIN rcvd /\ k \in DOMAIN sent /\ rcvd[k] = sent[k]
  /\ RcvdEnd <= SentEnd
  /\ SentEnd - RcvdEnd <= Size

(* The two ends of the channel.                                             *)
LEMMA ChannelEnds == RingInv => EndsOk
<1> SUFFICES ASSUME RingInv PROVE EndsOk
  OBVIOUS
<1>0. Size \in Nat \ {0}
  BY SizeAssumption
<1>1. /\ SentEnd \in Nat /\ SentEnd >= Size /\ SentEnd \notin Done("w") /\ Before("w", SentEnd)
  BY DoneEnd DEF SentEnd, Side
<1>2. /\ RcvdEnd \in Nat /\ RcvdEnd >= Size /\ RcvdEnd \notin DOMAIN rcvd
      /\ Size .. RcvdEnd - 1 \subseteq DOMAIN rcvd
  <2>1. reserve["r"] \in Nat /\ DOMAIN rcvd \in SUBSET (Size .. reserve["r"] - 1)
    BY DEF RingInv, RingTypeOK, ShareInv, Side, Copied
  <2> QED BY <2>1, PrefixEndIs DEF RcvdEnd
<1>3. ASSUME NEW k \in Nat, Size <= k, k < SentEnd PROVE k \in Done("w") /\ k \in DOMAIN sent
  <2>1. k \in Done("w")
    BY <1>0, <1>1, <1>3 DEF Before
  <2> QED BY <2>1, DoneIs DEF Copied
<1>4. ASSUME NEW k \in Nat, Size <= k, k < RcvdEnd
      PROVE  k \in DOMAIN rcvd /\ k \in DOMAIN sent /\ rcvd[k] = sent[k]
  <2>1. k \in DOMAIN rcvd
    BY <1>0, <1>2, <1>4
  <2> QED BY <2>1 DEF RingInv, BufferInv
<1>5. RcvdEnd <= SentEnd
  <2> SUFFICES ASSUME RcvdEnd > SentEnd PROVE FALSE
    BY <1>1, <1>2
  <2>1. SentEnd \in DOMAIN rcvd
    BY <1>1, <1>2, <1>4
  <2> QED BY <1>1, <2>1, ReadWasSent
<1>6. SentEnd - RcvdEnd <= Size
  <2> SUFFICES ASSUME SentEnd - RcvdEnd > Size PROVE FALSE
    BY <1>0, <1>1, <1>2
  <2>1. SentEnd - 1 \in Done("w")
    BY <1>0, <1>1, <1>2, <1>3
  <2>2. Before("r", SentEnd - 1 + 1 - Size)
    BY <2>1 DEF RingInv, LapInv
  <2>3. RcvdEnd \in Done("r")
    BY <1>0, <1>1, <1>2, <2>2 DEF Before
  <2> QED BY <1>2, <2>3, DoneIs DEF Copied
<1> QED BY <1>1, <1>2, <1>3, <1>4, <1>5, <1>6 DEF EndsOk

(* A step of the queue as the channel sees it.                              *)
LEMMA ChannelStep ==
  ASSUME RingInv, RingInv',
         SentEnd <= SentEnd', RcvdEnd <= RcvdEnd',
         SentEnd' = SentEnd \/ RcvdEnd' = RcvdEnd,
         \A k \in DOMAIN sent : sent'[k] = sent[k],
         \A k \in DOMAIN rcvd : rcvd'[k] = rcvd[k]
  PROVE  Channel!Next \/ (SentItems' = SentItems /\ RcvdItems' = RcvdItems)
<1> PICK W, W1, R, R1 : /\ W  = SentEnd - Size
                        /\ W1 = SentEnd' - Size
                        /\ R  = RcvdEnd - Size
                        /\ R1 = RcvdEnd' - Size
  OBVIOUS
<1>0. Size \in Nat \ {0}
  BY SizeAssumption
<1>1. /\ SentEnd \in Nat /\ SentEnd >= Size /\ RcvdEnd \in Nat /\ RcvdEnd >= Size
      /\ \A k \in Nat : Size <= k /\ k < SentEnd => k \in DOMAIN sent
      /\ \A k \in Nat : Size <= k /\ k < RcvdEnd => k \in DOMAIN rcvd
  BY ChannelEnds DEF EndsOk
<1>12. EndsOk'
  BY ChannelEnds, PTL
<1>2. /\ SentEnd' \in Nat /\ SentEnd' >= Size /\ RcvdEnd' \in Nat /\ RcvdEnd' >= Size
      /\ RcvdEnd' <= SentEnd' /\ SentEnd' - RcvdEnd' <= Size
      /\ \A k \in Nat : Size <= k /\ k < RcvdEnd' => rcvd'[k] = sent'[k]
  BY <1>12 DEF EndsOk
<1>3. /\ W \in Nat /\ W1 \in Nat /\ R \in Nat /\ R1 \in Nat
      /\ W <= W1 /\ R <= R1 /\ R1 <= W1 /\ W1 - R1 <= Size
  <2>1. SentEnd \in Nat /\ SentEnd >= Size /\ RcvdEnd \in Nat /\ RcvdEnd >= Size
    BY <1>1
  <2>2. /\ SentEnd' \in Nat /\ SentEnd' >= Size /\ RcvdEnd' \in Nat /\ RcvdEnd' >= Size
        /\ RcvdEnd' <= SentEnd' /\ SentEnd' - RcvdEnd' <= Size
    BY <1>2
  <2>3. ASSUME NEW a \in Nat, NEW b \in Nat, NEW c \in Nat, NEW d \in Nat,
               Size <= a, Size <= b, Size <= c, Size <= d, a <= b, c <= d, d <= b, b - d <= Size
        PROVE  /\ a - Size \in Nat /\ b - Size \in Nat /\ c - Size \in Nat /\ d - Size \in Nat
               /\ a - Size <= b - Size /\ c - Size <= d - Size /\ d - Size <= b - Size
               /\ (b - Size) - (d - Size) <= Size
    BY ONLY <1>0, <2>3
  <2>4. PICK a, b, c, d : a = SentEnd /\ b = SentEnd' /\ c = RcvdEnd /\ d = RcvdEnd'
    OBVIOUS
  <2>5. /\ a \in Nat /\ b \in Nat /\ c \in Nat /\ d \in Nat /\ Size <= a /\ Size <= b
        /\ Size <= c /\ Size <= d /\ a <= b /\ c <= d /\ d <= b /\ b - d <= Size
    <3>1. a <= b /\ c <= d
      BY <2>4
    <3>2. Size <= a /\ Size <= b /\ Size <= c /\ Size <= d
      BY <1>0, <2>1, <2>2, <2>4
    <3> QED BY <2>1, <2>2, <2>4, <3>1, <3>2
  <2> HIDE <2>4
  <2>6. W = a - Size /\ W1 = b - Size /\ R = c - Size /\ R1 = d - Size
    BY <2>4
  <2> QED BY <2>3, <2>5, <2>6
<1>4. Agree(sent', sent, W) /\ Agree(rcvd', rcvd, R) /\ Agree(sent', rcvd', R1)
  <2>1. \A k \in Nat : Size <= k /\ k < Size + W => sent[k] = sent'[k]
    <3> TAKE k \in Nat
    <3> HAVE Size <= k /\ k < Size + W
    <3>1. k < SentEnd
      BY <1>0, <1>1
    <3> QED BY <1>1, <3>1
  <2>2. \A k \in Nat : Size <= k /\ k < Size + R => rcvd[k] = rcvd'[k]
    <3> TAKE k \in Nat
    <3> HAVE Size <= k /\ k < Size + R
    <3>1. k < RcvdEnd
      BY <1>0, <1>1
    <3> QED BY <1>1, <3>1
  <2>3. \A k \in Nat : Size <= k /\ k < Size + R1 => rcvd'[k] = sent'[k]
    <3> TAKE k \in Nat
    <3> HAVE Size <= k /\ k < Size + R1
    <3>1. k < RcvdEnd'
      BY <1>0, <1>2
    <3> QED BY <1>2, <3>1
  <2> QED BY <2>1, <2>2, <2>3 DEF Agree
<1>5. /\ SentItems = Items(sent, W) /\ RcvdItems = Items(rcvd, R)
      /\ SentItems' = Items(sent', W1) /\ RcvdItems' = Items(rcvd', R1)
  BY DEF SentItems, RcvdItems, Items
<1>6. /\ Len(Items(sent, W)) = W /\ Len(Items(rcvd, R)) = R
      /\ Len(Items(sent', W1)) = W1 /\ Len(Items(rcvd', R1)) = R1
  BY <1>3, ItemsLen
<1>13. PICK f, f1, g, g1 : f = sent /\ f1 = sent' /\ g = rcvd /\ g1 = rcvd'
  OBVIOUS
<1>14. Agree(f1, f, W) /\ Agree(g1, g, R) /\ Agree(f1, g1, R1) /\ Agree(f, f1, W) /\ Agree(g, g1, R)
  BY <1>4, <1>13 DEF Agree
<1>7. SubSeq(Items(sent', W1), 1, W) = Items(sent, W)
  <2>1. SubSeq(Items(f1, W1), 1, W) = Items(f, W)
    BY ONLY <1>3, <1>14, ItemsPart
  <2> QED BY <1>13, <2>1
<1>8. SubSeq(Items(rcvd', R1), 1, R) = Items(rcvd, R)
  <2>1. SubSeq(Items(g1, R1), 1, R) = Items(g, R)
    BY <1>3, <1>14, ItemsPart
  <2> QED BY <1>13, <2>1
<1>9. CASE W1 = W /\ R1 = R
  <2>1. Items(f1, W) = Items(f, W) /\ Items(g1, R) = Items(g, R)
    BY <1>3, <1>14, ItemsSame
  <2> QED BY <1>5, <1>9, <1>13, <2>1
<1>10. CASE W1 # W
  <2>1. R1 = R
    BY <1>10
  <2>2. RcvdItems' = RcvdItems
    <3>1. Items(g1, R) = Items(g, R)
      BY <1>3, <1>14, ItemsSame
    <3> QED BY <1>5, <1>13, <2>1, <3>1
  <2>3. W1 > W
    BY <1>3, <1>10
  <2>4. /\ Len(SentItems') > Len(SentItems)
        /\ SubSeq(SentItems', 1, Len(SentItems)) = SentItems
        /\ Len(SentItems') - Len(RcvdItems) <= Size
    BY <1>3, <1>5, <1>6, <1>7, <2>1, <2>3
  <2>5. Channel!Put
    BY <2>2, <2>4 DEF Channel!Put, Channel!Extends, SentItems, RcvdItems, Items, SentEnd, RcvdEnd
  <2> QED BY <2>5 DEF Channel!Next
<1>11. CASE R1 # R
  <2>1. W1 = W
    BY <1>11
  <2>2. SentItems' = SentItems
    <3>1. Items(f1, W) = Items(f, W)
      BY <1>3, <1>14, ItemsSame
    <3> QED BY <1>5, <1>13, <2>1, <3>1
  <2>3. R1 > R
    BY <1>3, <1>11
  <2>4. RcvdItems' = SubSeq(SentItems, 1, R1)
    <3>1. Agree(f, g1, R1)
      <4> SUFFICES \A k \in Nat : Size <= k /\ k < Size + R1 => g1[k] = f[k]
        BY DEF Agree
      <4> TAKE k \in Nat
      <4> HAVE Size <= k /\ k < Size + R1
      <4>1. k < Size + W
        BY <1>0, <1>3, <2>1
      <4> QED BY <1>14, <4>1 DEF Agree
    <3>2. SubSeq(Items(f, W), 1, R1) = Items(g1, R1)
      <4>1. R1 <= W /\ R1 \in Nat /\ W \in Nat
        BY <1>3, <2>1
      <4> QED BY ONLY <3>1, <4>1, ItemsPart
    <3> QED BY <1>5, <1>13, <3>2
  <2>5. /\ Len(RcvdItems') > Len(RcvdItems)
        /\ SubSeq(RcvdItems', 1, Len(RcvdItems)) = RcvdItems
        /\ Len(RcvdItems') <= Len(SentItems)
        /\ RcvdItems' = SubSeq(SentItems, 1, Len(RcvdItems'))
    BY <1>3, <1>5, <1>6, <1>8, <2>1, <2>3, <2>4
  <2>6. Channel!Take
    BY <2>2, <2>5 DEF Channel!Take, Channel!Extends, SentItems, RcvdItems, Items, SentEnd, RcvdEnd
  <2> QED BY <2>6 DEF Channel!Next
<1> QED BY <1>9, <1>10, <1>11

(* The steps that neither copy nor set.                                     *)
LEMMA QuietFacts ==
  ASSUME RingTypeOK, NEW t \in Threads, Start(t) \/ Wait(t) \/ Claim(t)
  PROVE  /\ UNCHANGED <<sent, rcvd>>
         /\ pc[t] # "set" /\ pc'[t] # "set"
         /\ \A u \in Threads : u # t => pc'[u] = pc[u] /\ loc'[u] = loc[u]
<1>1. /\ \A u \in Threads : u # t => [loc EXCEPT ![t].pre = 0, ![t].seen = 0][u] = loc[u]
      /\ \A v, u \in Threads : u # t =>
            [loc EXCEPT ![t].pre = v][u] = loc[u] /\ [loc EXCEPT ![t].seen = v][u] = loc[u]
  BY DEF RingTypeOK
<1>2. \A l \in Places : Goto(t, l) => pc'[t] = l /\ \A u \in Threads : u # t => pc'[u] = pc[u]
  BY DEF RingTypeOK, Goto
<1>3. \A l \in Places : Leave(t, l) => Goto(t, l) /\ \A u \in Threads : u # t => loc'[u] = loc[u]
  BY DEF RingTypeOK, Leave
<1>4. \A v : /\ loc' = [loc EXCEPT ![t].pre = v] => \A u \in Threads : u # t => loc'[u] = loc[u]
             /\ loc' = [loc EXCEPT ![t].seen = v] => \A u \in Threads : u # t => loc'[u] = loc[u]
             /\ loc' = [loc EXCEPT ![t] = v] => \A u \in Threads : u # t => loc'[u] = loc[u]
  BY DEF RingTypeOK
<1>5. Waited(t) => \E l \in Places : l # "set" /\ Leave(t, l)
  BY DEF Waited, Places
<1>6. CASE Start(t)
  <2>1. PICK n \in Sizes : Reserve(t, n) \/ TryReserve(t, n)
    BY <1>6 DEF Start
  <2>2. PICK m : Begin(t, n, m) /\ UNCHANGED <<sent, rcvd>>
    BY <2>1 DEF Reserve, TryReserve
  <2>3. PICK v : loc' = [loc EXCEPT ![t] = v]
    BY <2>2 DEF Begin, RingTypeOK
  <2>4. pc[t] = "idle" /\ Goto(t, "check") /\ "check" \in Places
    BY <2>2 DEF Begin, Places
  <2> QED BY <1>2, <1>4, <2>2, <2>3, <2>4
<1>7. CASE Claim(t)
  <2>1. pc[t] = "claim" /\ (Goto(t, "copy") \/ Goto(t, "idle")) /\ UNCHANGED <<loc, sent, rcvd>>
        /\ "copy" \in Places /\ "idle" \in Places
    BY <1>7 DEF Claim, Places
  <2> QED BY <1>2, <2>1
<1>8. CASE Wait(t)
  <2>1. UNCHANGED <<sent, rcvd>> /\ pc[t] # "set"
    BY <1>8 DEF Wait, Check, Load, Store, Again, Pre, Loop, Follow, Advance, Advanced
  <2>2. ASSUME NEW l \in Places, l # "set", Leave(t, l)
        PROVE  pc'[t] # "set" /\ \A u \in Threads : u # t => pc'[u] = pc[u] /\ loc'[u] = loc[u]
    BY <1>2, <1>3, <2>2
  <2>3. Waited(t) => pc'[t] # "set" /\ \A u \in Threads : u # t => pc'[u] = pc[u] /\ loc'[u] = loc[u]
    BY <1>5, <2>2
  <2>4. ASSUME NEW l \in Places, l # "set", Goto(t, l),
               \/ UNCHANGED loc
               \/ \E v : loc' = [loc EXCEPT ![t].pre = v]
               \/ \E v : loc' = [loc EXCEPT ![t].seen = v]
        PROVE  pc'[t] # "set" /\ \A u \in Threads : u # t => pc'[u] = pc[u] /\ loc'[u] = loc[u]
    <3>1. \A u \in Threads : u # t => loc'[u] = loc[u]
      BY <1>4, <2>4
    <3> QED BY <1>2, <2>4, <3>1
  <2>5. {"load", "idle", "store", "again", "pre", "loop", "next", "cas", "advanced"} \subseteq Places
    BY DEF Places
  <2>6. CASE Check(t) \/ Again(t)
    <3>1. Waited(t) \/ \E l \in {"load", "idle"} : Leave(t, l)
      BY <2>6 DEF Check, Again
    <3> QED BY <2>1, <2>2, <2>3, <2>5, <3>1
  <2>7. CASE Load(t) \/ Store(t) \/ Pre(t) \/ Follow(t) \/ Advance(t)
    <3>1. \E l \in {"load", "store", "again", "pre", "loop", "cas", "advanced"} : Goto(t, l)
      BY <2>7 DEF Load, Store, Pre, Follow, Advance
    <3>2. \/ UNCHANGED loc
          \/ \E v : loc' = [loc EXCEPT ![t].pre = v]
          \/ \E v : loc' = [loc EXCEPT ![t].seen = v]
      BY <2>7 DEF Load, Store, Pre, Follow, Advance
    <3> QED BY <2>1, <2>4, <2>5, <3>1, <3>2
  <2>8. CASE Loop(t)
    <3>1. Waited(t) \/ (Goto(t, "next") /\ UNCHANGED loc)
      BY <2>8 DEF Loop
    <3> QED BY <2>1, <2>3, <2>4, <2>5, <3>1
  <2>9. CASE Advanced(t)
    <3>1. Leave(t, "idle") \/ (Goto(t, "loop") /\ \E v : loc' = [loc EXCEPT ![t].seen = v])
      BY <2>9 DEF Advanced
    <3> QED BY <2>1, <2>2, <2>4, <2>5, <3>1
  <2> QED BY <1>8, <2>6, <2>7, <2>8, <2>9 DEF Wait
<1> QED BY <1>6, <1>7, <1>8

(* The ends of the channel move forward with what is finished and read.     *)
LEMMA EndsMove ==
  ASSUME RingInv, RingInv'
  PROVE  /\ Done("w") \subseteq Done("w")' => SentEnd <= SentEnd'
         /\ Done("w")' = Done("w") => SentEnd' = SentEnd
         /\ DOMAIN rcvd \subseteq DOMAIN rcvd' => RcvdEnd <= RcvdEnd'
         /\ rcvd' = rcvd => RcvdEnd' = RcvdEnd
         /\ SentEnd \in Nat /\ RcvdEnd \in Nat
<1>0. Size \in Nat \ {0}
  BY SizeAssumption
<1>1. /\ SentEnd \in Nat /\ RcvdEnd \in Nat
      /\ \A k \in Nat : Size <= k /\ k < SentEnd => k \in Done("w")
      /\ \A k \in Nat : Size <= k /\ k < RcvdEnd => k \in DOMAIN rcvd
  BY ChannelEnds DEF EndsOk
<1>2. EndsOk'
  BY ChannelEnds, PTL
<1> PICK a, b, c, d : a = SentEnd /\ b = SentEnd' /\ c = RcvdEnd /\ d = RcvdEnd'
  OBVIOUS
<1>3. b \in Nat /\ b >= Size /\ b \notin Done("w")' /\ d \in Nat /\ d >= Size /\ d \notin DOMAIN rcvd'
  BY <1>2 DEF EndsOk
<1>4. ASSUME Done("w") \subseteq Done("w")' PROVE SentEnd <= SentEnd'
  <2>1. ~(Size <= b /\ b < a)
    BY <1>1, <1>3, <1>4
  <2>2. a <= b
    <3>1. a \in Nat
      BY <1>1
    <3> QED BY <1>0, <1>3, <2>1, <3>1
  <2> QED BY <2>2
<1>5. ASSUME DOMAIN rcvd \subseteq DOMAIN rcvd' PROVE RcvdEnd <= RcvdEnd'
  <2>1. ~(Size <= d /\ d < c)
    BY <1>1, <1>3, <1>5
  <2>2. c <= d
    <3>1. c \in Nat
      BY <1>1
    <3> QED BY <1>0, <1>3, <2>1, <3>1
  <2> QED BY <2>2
<1>6. Done("w")' = Done("w") => SentEnd' = SentEnd
  BY DEF SentEnd, PrefixEnd
<1>7. rcvd' = rcvd => RcvdEnd' = RcvdEnd
  BY DEF RcvdEnd, PrefixEnd
<1> QED BY <1>1, <1>4, <1>5, <1>6, <1>7

(* Every step of the queue is a step of the channel, or one that it does not*)
(* see: a producer that sets may put, a consumer that reads may take.       *)
LEMMA ChannelNext ==
  ASSUME OneEndSingle, RingInv, RingInv', [Next]_<<vars, use>>
  PROVE  Channel!Next \/ (SentItems' = SentItems /\ RcvdItems' = RcvdItems)
<1>1. CASE UNCHANGED <<vars, use>>
  <2>1. Done("w")' = Done("w")
    BY <1>1, DoneSame DEF vars
  <2>2. sent' = sent /\ rcvd' = rcvd
    BY <1>1 DEF vars
  <2>3. SentEnd' = SentEnd /\ RcvdEnd' = RcvdEnd
    BY <2>1, <2>2, EndsMove
  <2> QED BY <2>2, <2>3 DEF SentItems, RcvdItems, Items
<1>2. ASSUME NEW t \in Threads, use' = use, Start(t) \/ Wait(t) \/ Claim(t)
      PROVE  SentItems' = SentItems /\ RcvdItems' = RcvdItems
  <2>1. /\ UNCHANGED <<sent, rcvd>>
        /\ pc[t] # "set" /\ pc'[t] # "set"
        /\ \A u \in Threads : u # t => pc'[u] = pc[u] /\ loc'[u] = loc[u]
    BY <1>2, QuietFacts DEF RingInv
  <2>2. Done("w")' = Done("w")
    <3>1. \A k : k \in Done("w")' <=> k \in Done("w")
      <4> TAKE k
      <4>1. \A u \in Threads : /\ pc'[u] = "set" <=> pc[u] = "set"
                               /\ pc[u] = "set" => Held(u)' = Held(u)
        BY <2>1 DEF Held, End
      <4>2. k \in Done("w")' <=> k \in Copied("w")'
               /\ \A u \in Threads : Own(u)' = "w" /\ pc'[u] = "set" => k \notin Held(u)'
        BY DEF Done, Unset, Copied
      <4>3. Copied("w")' = Copied("w") /\ \A u \in Threads : Own(u)' = Own(u)
        BY <2>1 DEF Copied, Own
      <4>4. k \in Done("w") <=> k \in Copied("w")
               /\ \A u \in Threads : Own(u) = "w" /\ pc[u] = "set" => k \notin Held(u)
        BY DoneIs
      <4> QED BY <4>1, <4>2, <4>3, <4>4
    <3>2. Done("w") = Copied("w") \ Unset("w") /\ Done("w")' = Copied("w")' \ Unset("w")'
      BY DEF Done, Copied
    <3> QED BY <3>1, <3>2
  <2>3. SentEnd' = SentEnd /\ RcvdEnd' = RcvdEnd
    BY <2>1, <2>2, EndsMove
  <2> QED BY <2>1, <2>3 DEF SentItems, RcvdItems, Items
<1>3. ASSUME NEW t \in Threads, use' = use, Set(t)
      PROVE  Channel!Next \/ (SentItems' = SentItems /\ RcvdItems' = RcvdItems)
  <2>1. sent' = sent /\ rcvd' = rcvd
    BY <1>3 DEF Set
  <2>2. Done("w") \subseteq Done("w")'
    <3>1. Own(t) = "w" \/ Other(t) = "w"
      BY DEF Own, Other
    <3> QED BY <1>3, <3>1, SetFinishes
  <2>3. SentEnd <= SentEnd' /\ RcvdEnd' = RcvdEnd /\ RcvdEnd \in Nat
    BY <2>1, <2>2, EndsMove
  <2>4. RcvdEnd <= RcvdEnd'
    BY <2>3
  <2> QED BY <2>1, <2>3, <2>4, ChannelStep
<1>4. ASSUME NEW t \in Threads, use' = use, Fill(t)
      PROVE  Channel!Next \/ (SentItems' = SentItems /\ RcvdItems' = RcvdItems)
  <2>1. /\ rcvd' = rcvd /\ Done("w")' = Done("w")
        /\ \A k \in DOMAIN sent : sent'[k] = sent[k]
    BY <1>4, FillKeeps DEF Fill, Side
  <2>2. SentEnd' = SentEnd /\ RcvdEnd' = RcvdEnd /\ SentEnd \in Nat /\ RcvdEnd \in Nat
    BY <2>1, EndsMove
  <2>3. SentEnd <= SentEnd' /\ RcvdEnd <= RcvdEnd'
    BY <2>2
  <2> QED BY <2>1, <2>2, <2>3, ChannelStep
<1>5. ASSUME NEW t \in Threads, use' = use, Read(t)
      PROVE  Channel!Next \/ (SentItems' = SentItems /\ RcvdItems' = RcvdItems)
  <2>1. sent' = sent /\ Done("w")' = Done("w")
    BY <1>5, ReadKeeps DEF Read, Side
  <2>2. DOMAIN rcvd \subseteq DOMAIN rcvd' /\ \A k \in DOMAIN rcvd : rcvd'[k] = rcvd[k]
    <3>1. \A k \in Held(t) : k \notin DOMAIN rcvd
      BY <1>5, SlotsAreFull DEF Read
    <3> QED BY <1>5, <3>1 DEF Read
  <2>3. SentEnd' = SentEnd /\ RcvdEnd <= RcvdEnd' /\ SentEnd \in Nat
    BY <2>1, <2>2, EndsMove
  <2>4. SentEnd <= SentEnd'
    BY <2>3
  <2> QED BY <2>1, <2>2, <2>3, <2>4, ChannelStep
<1>6. CASE Next
  <2>1. PICK t \in Threads : (Start(t) \/ Wait(t) \/ Finish(t)) /\ use' = use
    BY <1>6 DEF Next
  <2> QED BY <1>2, <1>3, <1>4, <1>5, <2>1 DEF Finish
<1> QED BY <1>1, <1>6

(* At the start the channel is empty.                                       *)
LEMMA ChannelInit == Init => Channel!Init
<1> SUFFICES ASSUME Init PROVE Channel!Init
  OBVIOUS
<1>0. Size \in Nat \ {0}
  BY SizeAssumption
<1>1. /\ SentEnd \in Nat /\ SentEnd >= Size /\ RcvdEnd \in Nat /\ RcvdEnd >= Size
      /\ \A k \in Nat : Size <= k /\ k < SentEnd => k \in DOMAIN sent
      /\ \A k \in Nat : Size <= k /\ k < RcvdEnd => k \in DOMAIN rcvd
  BY RingInit, ChannelEnds DEF EndsOk
<1>2. DOMAIN sent = {} /\ DOMAIN rcvd = {}
  BY DEF Init
<1>3. SentEnd - Size = 0 /\ RcvdEnd - Size = 0
  <2>1. ~(Size < SentEnd) /\ ~(Size < RcvdEnd)
    BY <1>0, <1>1, <1>2
  <2> QED BY <1>0, <1>1, <2>1
<1>4. \A f : Items(f, 0) = << >>
  BY DEF Items
<1>5. SentItems = << >> /\ RcvdItems = << >>
  BY <1>3, <1>4 DEF SentItems, RcvdItems
<1> QED BY <1>5 DEF Channel!Init, SentItems, RcvdItems, Items, SentEnd, RcvdEnd

(* The queue implements the bounded first-in first-out channel: nothing is  *)
(* lost, duplicated, reordered or overwritten before it is read.            *)
THEOREM QueueIsFifoHolds ==
  ASSUME OneEndSingle
  PROVE  Spec => QueueIsFifo
<1>1. RingInv /\ RingInv' /\ [Next]_<<vars, use>> =>
        Channel!Next \/ (SentItems' = SentItems /\ RcvdItems' = RcvdItems)
  BY ChannelNext
<1>2. RingInv /\ RingInv' /\ [Next]_<<vars, use>> =>
        [Channel!Next]_<<[i \in 1 .. PrefixEnd(Done("w")) - Size |-> sent[Size + i - 1]],
                         [i \in 1 .. PrefixEnd(DOMAIN rcvd) - Size |-> rcvd[Size + i - 1]]>>
  BY <1>1 DEF SentItems, RcvdItems, Items, SentEnd, RcvdEnd
<1>3. Spec => []RingInv
  BY RingInductive
<1> QED BY <1>2, <1>3, ChannelInit, PTL DEF Spec, QueueIsFifo, Channel!Spec
=============================================================================
