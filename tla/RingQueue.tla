------------------------------- MODULE RingQueue -------------------------------
(***************************************************************************)
(* rapid_ring: the ring buffer queue of src/rapid_ring and its two kinds   *)
(* of barrier.  A queue has two barriers, one for each side.  A thread     *)
(* reserves positions on the barrier of its own side, waits on the barrier *)
(* of the other side until these positions are free (producer) or filled   *)
(* (consumer), copies, and then sets its own barrier.  The two directions  *)
(* are the same code up to the value waited for, so one set of actions     *)
(* serves both.                                                            *)
(*                                                                         *)
(* A barrier of kind "st" serves one thread on its own side and publishes  *)
(* in ready_; one of kind "mt" serves several, which publish out of order  *)
(* in barrier_[], and whoever waits on it moves ready_ along the chain of  *)
(* these entries.                                                          *)
(*                                                                         *)
(* Positions count from the buffer size and never wrap (64 bits); slots    *)
(* are positions modulo the size, so that a slot's barrier_ entry of the   *)
(* previous lap is still there when the next lap waits for it.             *)
(*                                                                         *)
(* ready_cache_ is a plain field which all threads waiting on a barrier    *)
(* share.  The value a thread sees when it reads the field again within    *)
(* one call is the field or the thread's own last value of it (a register),*)
(* as the build may compile it: Seen.  Atomic operations are taken as      *)
(* sequentially consistent, the order x86 gives the stores of this code.   *)
(***************************************************************************)
EXTENDS Integers, FiniteSets, Sequences

CONSTANTS
  Producers,   \* Threads that enqueue.
  Consumers,   \* Threads that dequeue.
  Size,        \* buffer_size, the number of slots.
  Uses         \* The ways the queue is used; a behaviour has one of them.

Side == {"w", "r"}

ASSUME SizeAssumption == Size \in Nat \ {0}

ASSUME ThreadAssumption == Producers # {} /\ Consumers # {} /\ Producers \cap Consumers = {}

(* kind: the barrier of each side.  modes: the calls the threads of a side  *)
(* make.  sizes: the sizes of the blocks.  quota: bound, items that each    *)
(* producer enqueues.                                                       *)
ASSUME UsesAssumption ==
  Uses \subseteq [kind : [Side -> {"st", "mt"}], modes : [Side -> SUBSET {"block", "try"}],
                 sizes : SUBSET (1 .. Size), quota : Nat]

Threads == Producers \cup Consumers

Slots == 0 .. Size - 1

VARIABLES
  use,       \* The template arguments and the calls of this behaviour; never changes.
  reserve,   \* reserve[side]: the next position to hand out.
  ready,     \* ready[side]: positions below it are set.
  cache,     \* cache[side]: ready_cache_ of the side's barrier.
  barrier,   \* barrier[side]: the entries of an "mt" barrier.
  buffer,    \* The slots.
  pc,        \* Where each thread is in its call.
  loc,       \* The locals of each thread's call.
  sent,      \* History: the item each position was filled with.
  rcvd       \* History: the item each position was read as.

vars == <<reserve, ready, cache, barrier, buffer, pc, loc, sent, rcvd>>

-----------------------------------------------------------------------------

Kind  == use.kind
Modes == use.modes
Sizes == use.sizes
Quota == use.quota

Own(t)   == IF t \in Producers THEN "w" ELSE "r"
Other(t) == IF t \in Producers THEN "r" ELSE "w"

End(t) == loc[t].base + loc[t].size

(* The position that the other side must have set before t may copy, and a  *)
(* mutant that is one short.                                                *)
Min_OneShort(t) == IF t \in Producers THEN End(t) - Size - 1 ELSE End(t) - 1

Min(t) == IF t \in Producers THEN End(t) - Size ELSE End(t)

Held(t) == loc[t].base .. End(t) - 1

Slot(p) == p % Size

(* Items are named by their producer and their number.                     *)
Item(p, n) == <<p, n>>

Empty == <<>>

Numbered(p) == Cardinality({k \in DOMAIN sent : sent[k][1] = p})

(* What t may see when it reads ready_cache_ again within a call.          *)
Seen(t) == {cache[Other(t)], loc[t].seen}

Goto(t, l) == pc' = [pc EXCEPT ![t] = l]

Init ==
  /\ use \in Uses
  /\ reserve = [s \in Side |-> Size]
  /\ ready   = [s \in Side |-> Size]
  /\ cache   = [s \in Side |-> Size]
  /\ barrier = [s \in Side |-> [i \in Slots |-> 0]]
  /\ buffer  = [i \in Slots |-> Empty]
  /\ pc      = [t \in Threads |-> "idle"]
  /\ loc     = [t \in Threads |->
                  [base |-> Size, size |-> 0, mode |-> "block", pre |-> 0, seen |-> 0]]
  /\ sent    = [k \in {} |-> Empty]
  /\ rcvd    = [k \in {} |-> Empty]

-----------------------------------------------------------------------------
(* Entering a call.  enqueue and dequeue reserve at once; try_enqueue and   *)
(* try_dequeue only look at the next position.                              *)

(* The one thread of a side that an "st" barrier serves.                   *)
Only(side) == CHOOSE t \in Threads : Own(t) = side

MayStart(t, n) ==
  /\ Kind[Own(t)] = "st" => t = Only(Own(t))
  /\ t \in Producers => Numbered(t) + n <= Quota

Begin(t, n, m) ==
  /\ pc[t] = "idle"
  /\ MayStart(t, n)
  /\ loc' = [loc EXCEPT ![t] = [@ EXCEPT !.base = reserve[Own(t)], !.size = n, !.mode = m]]
  /\ Goto(t, "check")

Reserve(t, n) ==
  /\ "block" \in Modes[Own(t)]
  /\ Begin(t, n, "block")
  /\ reserve' = [reserve EXCEPT ![Own(t)] = @ + n]
  /\ UNCHANGED <<ready, cache, barrier, buffer, sent, rcvd>>

TryReserve(t, n) ==
  /\ "try" \in Modes[Own(t)]
  /\ Begin(t, n, "try")
  /\ UNCHANGED <<reserve, ready, cache, barrier, buffer, sent, rcvd>>

-----------------------------------------------------------------------------
(* wait and try_wait.                                                      *)

(* wait returns, and its locals are gone.                                  *)
Leave(t, l) ==
  /\ Goto(t, l)
  /\ loc' = [loc EXCEPT ![t].pre = 0, ![t].seen = 0]

(* The wait is over: a try call still has to claim its positions.          *)
Waited(t) == Leave(t, IF loc[t].mode = "try" THEN "claim" ELSE "copy")

(* The first test of the call, on the field: "mt" asks for more than it     *)
(* needs (> min), "st" for what it needs (>= min).                          *)
CacheSuffices(t) ==
  \/ cache[Other(t)] > Min(t)
  \/ Kind[Other(t)] = "st" /\ cache[Other(t)] >= Min(t)

Check(t) ==
  /\ pc[t] = "check"
  /\ IF CacheSuffices(t) THEN Waited(t) ELSE Leave(t, "load")
  /\ UNCHANGED <<reserve, ready, cache, barrier, buffer, sent, rcvd>>

Load(t) ==
  /\ pc[t] = "load"
  /\ loc' = [loc EXCEPT ![t].seen = ready[Other(t)]]
  /\ Goto(t, "store")
  /\ UNCHANGED <<reserve, ready, cache, barrier, buffer, sent, rcvd>>

Store(t) ==
  /\ pc[t] = "store"
  /\ cache' = [cache EXCEPT ![Other(t)] = loc[t].seen]
  /\ Goto(t, IF Kind[Other(t)] = "st" THEN "again" ELSE "pre")
  /\ UNCHANGED <<reserve, ready, barrier, buffer, loc, sent, rcvd>>

(* "st": the loop of wait, the final test of try_wait.                     *)
Again(t) ==
  /\ pc[t] = "again"
  /\ \E v \in Seen(t) :
       IF v >= Min(t) THEN Waited(t)
       ELSE Leave(t, IF loc[t].mode = "try" THEN "idle" ELSE "load")
  /\ UNCHANGED <<reserve, ready, cache, barrier, buffer, sent, rcvd>>

(* "mt": pre_ready starts at the ready_cache_ just stored.                 *)
Pre(t) ==
  /\ pc[t] = "pre"
  /\ \E v \in Seen(t) : loc' = [loc EXCEPT ![t].pre = v]
  /\ Goto(t, "loop")
  /\ UNCHANGED <<reserve, ready, cache, barrier, buffer, sent, rcvd>>

Loop(t) ==
  /\ pc[t] = "loop"
  /\ \E v \in Seen(t) :
       IF v >= Min(t) THEN Waited(t) ELSE Goto(t, "next") /\ UNCHANGED loc
  /\ UNCHANGED <<reserve, ready, cache, barrier, buffer, sent, rcvd>>

(* Follow the chain; an entry that does not lead forward is of an earlier   *)
(* lap, and the chain ends before it.                                       *)
Follow(t) ==
  LET next == barrier[Other(t)][Slot(loc[t].pre)]
  IN  /\ pc[t] = "next"
      /\ IF next > loc[t].pre
         THEN loc' = [loc EXCEPT ![t].pre = next] /\ Goto(t, "loop")
         ELSE UNCHANGED loc /\ Goto(t, "cas")
      /\ UNCHANGED <<reserve, ready, cache, barrier, buffer, sent, rcvd>>

(* compare_exchange on ready_ with ready_cache_ as the expected value, which*)
(* a failure overwrites before the code loads ready_ once more.             *)
Advance(t) ==
  LET s == Other(t)
  IN  /\ pc[t] = "cas"
      /\ \E v \in Seen(t) :
           IF ready[s] = v
           THEN /\ ready' = [ready EXCEPT ![s] = loc[t].pre]
                /\ Goto(t, "advanced")
                /\ UNCHANGED cache
           ELSE /\ cache' = [cache EXCEPT ![s] = ready[s]]
                /\ Goto(t, "load")
                /\ UNCHANGED ready
      /\ UNCHANGED <<reserve, barrier, buffer, loc, sent, rcvd>>

(* After a success; here try_wait gives up when it is still short.          *)
Advanced(t) ==
  /\ pc[t] = "advanced"
  /\ cache' = [cache EXCEPT ![Other(t)] = loc[t].pre]
  /\ IF loc[t].mode = "try" /\ loc[t].pre < Min(t)
     THEN Leave(t, "idle")
     ELSE Goto(t, "loop") /\ loc' = [loc EXCEPT ![t].seen = loc[t].pre]
  /\ UNCHANGED <<reserve, ready, barrier, buffer, sent, rcvd>>

-----------------------------------------------------------------------------
(* set_reserve of the try calls: lost to another thread, the call fails.    *)
Claim(t) ==
  LET s == Own(t)
  IN  /\ pc[t] = "claim"
      /\ IF Kind[s] = "st" \/ reserve[s] = loc[t].base
         THEN reserve' = [reserve EXCEPT ![s] = End(t)] /\ Goto(t, "copy")
         ELSE UNCHANGED reserve /\ Goto(t, "idle")
      /\ UNCHANGED <<ready, cache, barrier, buffer, loc, sent, rcvd>>

Fill(t) ==
  /\ pc[t] = "copy" /\ t \in Producers
  /\ LET new == [k \in Held(t) |-> Item(t, Numbered(t) + k - loc[t].base + 1)]
     IN  /\ buffer' = [i \in Slots |->
              IF \E k \in Held(t) : Slot(k) = i
              THEN new[CHOOSE k \in Held(t) : Slot(k) = i] ELSE buffer[i]]
         /\ sent' = [k \in DOMAIN sent \cup Held(t) |->
              IF k \in Held(t) THEN new[k] ELSE sent[k]]
  /\ Goto(t, "set")
  /\ UNCHANGED <<reserve, ready, cache, barrier, loc, rcvd>>

Read(t) ==
  /\ pc[t] = "copy" /\ t \in Consumers
  /\ rcvd' = [k \in DOMAIN rcvd \cup Held(t) |->
                IF k \in Held(t) THEN buffer[Slot(k)] ELSE rcvd[k]]
  /\ Goto(t, "set")
  /\ UNCHANGED <<reserve, ready, cache, barrier, buffer, loc, sent>>

(* Mutants of Set: a barrier for several threads that publishes like one for*)
(* a single thread, and an entry that names its own position.               *)
Set_OutOfOrder(t) ==
  /\ pc[t] = "set"
  /\ ready' = [ready EXCEPT ![Own(t)] = End(t)]
  /\ Goto(t, "idle")
  /\ UNCHANGED <<reserve, cache, barrier, buffer, loc, sent, rcvd>>

Set_Begin(t) ==
  /\ pc[t] = "set"
  /\ barrier' = [barrier EXCEPT ![Own(t)][Slot(loc[t].base)] = loc[t].base]
  /\ Goto(t, "idle")
  /\ UNCHANGED <<reserve, ready, cache, buffer, loc, sent, rcvd>>

Set(t) ==
  LET s == Own(t)
  IN  /\ pc[t] = "set"
      /\ IF Kind[s] = "st"
         THEN ready' = [ready EXCEPT ![s] = End(t)] /\ UNCHANGED barrier
         ELSE barrier' = [barrier EXCEPT ![s][Slot(loc[t].base)] = End(t)] /\ UNCHANGED ready
      /\ Goto(t, "idle")
      /\ UNCHANGED <<reserve, cache, buffer, loc, sent, rcvd>>

-----------------------------------------------------------------------------

Start(t) == \E n \in Sizes : Reserve(t, n) \/ TryReserve(t, n)

Wait(t) ==
  \/ Check(t) \/ Load(t) \/ Store(t) \/ Again(t)
  \/ Pre(t) \/ Loop(t) \/ Follow(t) \/ Advance(t) \/ Advanced(t)

Finish(t) == Claim(t) \/ Fill(t) \/ Read(t) \/ Set(t)

Next == (\E t \in Threads : Start(t) \/ Wait(t) \/ Finish(t)) /\ UNCHANGED use

(* Every thread keeps running; consumers call again and again, as the loops *)
(* of the order query service do.  No producer has to enqueue.              *)
Fairness ==
  /\ \A t \in Threads : WF_vars(Wait(t) \/ Finish(t))
  /\ \A t \in Consumers : WF_vars(Start(t))

Spec == Init /\ [][Next]_<<vars, use>>

FairSpec == Spec /\ Fairness

-----------------------------------------------------------------------------
(* The first position not in S, counting from the first one there is.      *)
PrefixEnd(S) ==
  CHOOSE k \in Size .. Size + Cardinality(S) :
    k \notin S /\ Size .. k - 1 \subseteq S

Unset(side) == UNION {Held(t) : t \in {u \in Threads : Own(u) = side /\ pc[u] = "set"}}

(* Positions that a side has finished with: copied and set.                *)
Done(side) == (IF side = "w" THEN DOMAIN sent ELSE DOMAIN rcvd) \ Unset(side)

Channel == INSTANCE Fifo WITH
  Capacity <- Size,
  sent <- [i \in 1 .. PrefixEnd(Done("w")) - Size |-> sent[Size + i - 1]],
  got  <- [i \in 1 .. PrefixEnd(DOMAIN rcvd) - Size |-> rcvd[Size + i - 1]]

(* barrier.hpp wait: no cursor, and no copy of one that a thread may act on,*)
(* is ever ahead of the positions that side really finished, in spite of    *)
(* entries of earlier laps and of threads that set out of order.            *)
NeverAhead ==
  /\ \A s \in Side : ready[s] <= PrefixEnd(Done(s)) /\ cache[s] <= PrefixEnd(Done(s))
  /\ \A t \in Threads : pc[t] \in {"next", "cas"} => loc[t].pre <= PrefixEnd(Done(Other(t)))

(* enqueue and dequeue copy slots without a lock: no two threads are ever   *)
(* about to copy, or copying, the same slot, so the plain copies never race.*)
NoSlotRace ==
  \A t, u \in Threads :
    t # u /\ pc[t] = "copy" /\ pc[u] \in {"copy", "set"} =>
      {Slot(k) : k \in Held(t)} \cap {Slot(k) : k \in Held(u)} = {}

(* The queue is a bounded FIFO: nothing is lost, duplicated, reordered or   *)
(* overwritten before it is read (the queue's users rely on nothing else).  *)
QueueIsFifo == Channel!Spec

(* Whatever was enqueued is dequeued in the end (each producer enqueues a    *)
(* bounded number), as long as the consumers go on asking, one item at a    *)
(* time, and every thread goes on running.  Calls for larger blocks can     *)
(* wait for each other: a full queue may hold fewer items than are asked for*)
(* and have fewer free slots than are wanted.                               *)
EverythingDelivered ==
  []<>(DOMAIN sent \subseteq DOMAIN rcvd \/ Sizes # {1})
=============================================================================
