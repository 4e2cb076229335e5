---------------------------- MODULE OdrQueryProofs ----------------------------
(***************************************************************************)
(* tcp_service with any owner, and the order query service on top of it,   *)
(* for any number of addresses, connections, markets and queue sizes.      *)
(*                                                                         *)
(* TcpInv keeps the books on the connections: an address holds at most one *)
(* connection and a connection at most one address, and how often it was   *)
(* reported follows from what has become of its client.  QueryInv adds     *)
(* that, until accept fails, the client pointer of a request or a response *)
(* in flight still holds the connection of the request; ItemInv adds what  *)
(* the request_buffer of a client and the running callback have of the     *)
(* bytes of its connection.                                                *)
(***************************************************************************)
EXTENDS OdrQuery, SequenceTheorems, TLAPS

TcpTypeOK ==
  /\ sta \in {"UNBIND", "BINDED"} /\ port \in {"free", "held"}
  /\ clients \subseteq Ptrs /\ todo \subseteq clients
  /\ pc # "clients" => todo = {}
  /\ heap \in [Ptrs -> [conn : Nat, sta : {"FREE", "NONE", "ACCEPTED"}]]
  /\ pc \in {"run", "clients", "owner"}
  /\ backlog \in Nat /\ conns \in Nat /\ conns + backlog <= MaxConns
  /\ reports \in [Conns -> Nat]
  /\ failed \in BOOLEAN

\* What an address may hold; only clients are accepted, and none is free.
HeapInv ==
  /\ \A p \in Ptrs :
       /\ heap[p].sta = "FREE" => heap[p] = Free /\ p \notin clients
       /\ heap[p].sta # "FREE" => ConnOf(p) \in 1 .. conns
       /\ heap[p].sta = "ACCEPTED" => p \in clients
  /\ \A p, r \in Ptrs : ConnOf(p) = ConnOf(r) /\ ConnOf(p) # 0 => p = r

\* How often each connection was reported.
ReportInv ==
  /\ \A c \in Conns :
       /\ reports[c] <= (IF c \in unsent \cap swept THEN 2 ELSE 1)
       /\ c > conns => reports[c] = 0 /\ c \notin unsent \cup swept
  /\ \A p \in clients :
       /\ ConnOf(p) \notin swept
       /\ heap[p].sta = "ACCEPTED" => reports[ConnOf(p)] = 0 /\ ConnOf(p) \notin unsent
       /\ reports[ConnOf(p)] <= (IF ConnOf(p) \in unsent THEN 1 ELSE 0)

TcpInv == TcpTypeOK /\ HeapInv /\ ReportInv

\* A request, and the pointer and the connection it came with.
Requests == [ptr : Ptrs, conn : Conns]

QueryTypeOK ==
  /\ reqQ \in [Markets -> Seq(Requests)]
  /\ rspQ \in Seq(Requests)
  /\ worker \in [Markets -> Requests \cup {Idle}]
  /\ items \in [Ptrs -> {None} \cup [rest : 0 .. ReqLen - 1, last : Markets \cup {Unknown}]]
  /\ batch \in {NoBatch} \cup
       [ptr : Ptrs, reqs : Seq(Markets \cup {Unknown}), rest : 0 .. ReqLen - 1]
  /\ rcv \in [Conns -> Nat] /\ handled \in [Conns -> Nat]
  /\ corrupt \in BOOLEAN

\* Once accept has failed the service never binds again.
FailedInv ==
  /\ failed => clients = {} /\ sta = "UNBIND" /\ port = "held"
  /\ sta = "BINDED" => port = "held"
  /\ InCallback => pc = "clients" /\ batch.ptr \in clients

InPlace(r) == failed \/ ConnOf(r.ptr) = r.conn

QueryInv ==
  /\ \A m \in Markets :
       /\ \A i \in 1 .. Len(reqQ[m]) : InPlace(reqQ[m][i])
       /\ worker[m] # Idle => InPlace(worker[m])
  /\ \A i \in 1 .. Len(rspQ) : InPlace(rspQ[i])
  /\ AnswerReachesAsker

\* Where the bytes of a client are.
ItemInv ==
  /\ \A p \in Ptrs : heap[p].sta = "FREE" => items[p] = None
  /\ \A c \in Conns : c > conns => rcv[c] = 0 /\ handled[c] = 0
  /\ InCallback => IF items[batch.ptr] = None THEN heap[batch.ptr].sta # "ACCEPTED"
                                             ELSE items[batch.ptr].rest = 0
  /\ ~corrupt => \A p \in Ptrs :
       heap[p].sta = "ACCEPTED" =>
         IF batch.ptr = p
         THEN rcv[ConnOf(p)] = (handled[ConnOf(p)] + Len(batch.reqs)) * ReqLen + batch.rest
         ELSE rcv[ConnOf(p)] = handled[ConnOf(p)] * ReqLen + Item(p).rest

ServiceInv == TcpInv /\ QueryTypeOK /\ FailedInv /\ QueryInv /\ ItemInv

-----------------------------------------------------------------------------
(* tcp_service with any owner.                                              *)

(* No client before the first one is accepted.                              *)
LEMMA TcpInitInv == TcpInit => TcpInv
<1> SUFFICES ASSUME TcpInit PROVE TcpInv
  OBVIOUS
<1>1. \A p \in Ptrs : heap[p] = Free
  BY DEF TcpInit
<1>2. TcpTypeOK
  <2>1. heap \in [Ptrs -> [conn : Nat, sta : {"FREE", "NONE", "ACCEPTED"}]]
    BY DEF TcpInit, Free
  <2>2. reports \in [Conns -> Nat]
    BY DEF TcpInit
  <2>3. MaxConns \in Nat
    BY TcpServiceAssumption
  <2>4. failed \in BOOLEAN
    BY DEF TcpInit
  <2>5. conns + backlog <= MaxConns /\ conns \in Nat /\ backlog \in Nat
    BY <2>3 DEF TcpInit
  <2> QED BY <2>1, <2>2, <2>4, <2>5 DEF TcpInit, TcpTypeOK
<1>3. HeapInv
  BY <1>1 DEF HeapInv, ConnOf, Free, TcpInit
<1>4. ReportInv
  BY DEF ReportInv, TcpInit, Conns
<1> QED BY <1>2, <1>3, <1>4 DEF TcpInv

(* Steps that only arrive, leave, bind or pass the thread on.               *)
LEMMA TcpQuiet ==
  ASSUME TcpInv, TcpTypeOK',
         UNCHANGED <<clients, heap, conns, reports, unsent, swept>>
  PROVE  TcpInv'
<1>1. HeapInv' BY DEF TcpInv, HeapInv, ConnOf
<1>2. ReportInv' BY DEF TcpInv, ReportInv, ConnOf
<1> QED BY <1>1, <1>2 DEF TcpInv

(* A connection is reported by the clients in ps that hold it.              *)
LEMMA ReportedCount ==
  ASSUME TcpInv, NEW ps \in SUBSET clients
  PROVE  /\ Reported(ps) \in [Conns -> Nat]
         /\ \A c \in Conns : (\A p \in ps : ConnOf(p) # c) => Reported(ps)[c] = reports[c]
         /\ \A p \in ps : ConnOf(p) \in Conns => Reported(ps)[ConnOf(p)] = reports[ConnOf(p)] + 1
BY DEF TcpInv, TcpTypeOK, Reported

(* A client holds one of the connections that were accepted.                *)
LEMMA ClientConn ==
  ASSUME TcpInv, NEW p \in clients
  PROVE  /\ p \in Ptrs /\ ConnOf(p) \in 1 .. conns /\ ConnOf(p) \in Conns
         /\ heap[p].sta \in {"NONE", "ACCEPTED"}
         /\ \A r \in Ptrs : ConnOf(r) = ConnOf(p) => r = p
<1>1. p \in Ptrs /\ conns <= MaxConns /\ conns \in Nat
  BY TcpServiceAssumption DEF TcpInv, TcpTypeOK
<1>2. heap[p].sta # "FREE"
  BY <1>1 DEF TcpInv, HeapInv
<1>3. ConnOf(p) \in 1 .. conns
  BY <1>1, <1>2 DEF TcpInv, HeapInv
<1>4. heap[p] \in [conn : Nat, sta : {"FREE", "NONE", "ACCEPTED"}]
  BY <1>1 DEF TcpInv, TcpTypeOK
<1>5. ConnOf(p) \in Conns
  BY <1>1, <1>3, TcpServiceAssumption DEF Conns
<1> QED BY <1>1, <1>2, <1>3, <1>4, <1>5 DEF TcpInv, HeapInv

(* Clients closed by a failing send stay in _clients, once reported.        *)
LEMMA TcpSendFails ==
  ASSUME TcpInv, NEW ps \in SUBSET Accepted, SendFails(ps),
         UNCHANGED <<sta, port, clients, todo, backlog, conns, swept, failed>>,
         pc' \in {"run", "clients", "owner"}, pc' # "clients" => todo = {}
  PROVE  TcpInv'
<1>1. ps \subseteq clients /\ \A p \in ps : heap[p].sta = "ACCEPTED"
  BY DEF Accepted
<1>2. \A p \in Ptrs : /\ ConnOf(p)' = ConnOf(p)
                      /\ heap'[p].sta = IF p \in ps THEN "NONE" ELSE heap[p].sta
                      /\ heap'[p].sta = "FREE" <=> heap[p].sta = "FREE"
                      /\ p \notin ps => heap'[p] = heap[p]
                      /\ heap'[p] \in [conn : Nat, sta : {"FREE", "NONE", "ACCEPTED"}]
  BY <1>1 DEF SendFails, ConnOf, TcpInv, TcpTypeOK
<1>3. /\ reports' = Reported(ps)
      /\ unsent' = unsent \cup {ConnOf(p) : p \in ps}
      /\ reports' \in [Conns -> Nat]
      /\ DOMAIN heap' = Ptrs
  BY <1>1, ReportedCount DEF SendFails
<1>4. TcpTypeOK'
  <2>1. heap' \in [Ptrs -> [conn : Nat, sta : {"FREE", "NONE", "ACCEPTED"}]]
    BY <1>2 DEF SendFails
  <2> QED BY <1>3, <2>1 DEF TcpInv, TcpTypeOK
<1>5. HeapInv'
  BY <1>1, <1>2 DEF TcpInv, HeapInv
<1>6. \A c \in Conns : IF \E p \in ps : ConnOf(p) = c
                       THEN /\ reports'[c] = 1 /\ reports[c] = 0 /\ c \in unsent' /\ c \notin swept
                            /\ c \in 1 .. conns
                       ELSE reports'[c] = reports[c] /\ (c \in unsent' <=> c \in unsent)
  BY <1>1, <1>3, ClientConn, ReportedCount DEF TcpInv, ReportInv
<1>7. ReportInv'
  <2>1. ASSUME NEW c \in Conns
        PROVE  /\ reports'[c] <= (IF c \in (unsent' \cap swept') THEN 2 ELSE 1)
               /\ c > conns' => reports'[c] = 0 /\ c \notin unsent' \cup swept'
    <3>1. reports[c] <= (IF c \in unsent \cap swept THEN 2 ELSE 1)
      BY DEF TcpInv, ReportInv
    <3> QED BY <1>6, <3>1 DEF TcpInv, ReportInv, TcpTypeOK
  <2>2. ASSUME NEW p \in clients'
        PROVE  /\ ConnOf(p)' \notin swept'
               /\ heap'[p].sta = "ACCEPTED" => reports'[ConnOf(p)'] = 0 /\ ConnOf(p)' \notin unsent'
               /\ reports'[ConnOf(p)'] <= (IF ConnOf(p)' \in unsent' THEN 1 ELSE 0)
    <3>1. p \in Ptrs /\ ConnOf(p)' = ConnOf(p) /\ ConnOf(p) \in Conns
      BY <1>2, ClientConn
    <3>2. CASE p \in ps
      BY <1>2, <1>6, <3>1, <3>2 DEF TcpInv, ReportInv
    <3>3. CASE p \notin ps
      <4>1. ~\E r \in ps : ConnOf(r) = ConnOf(p)
        BY <1>1, <3>1, <3>3, ClientConn
      <4> QED BY <1>2, <1>6, <3>1, <3>3, <4>1 DEF TcpInv, ReportInv
    <3> QED BY <3>2, <3>3
  <2> QED BY <2>1, <2>2 DEF ReportInv
<1> QED BY <1>4, <1>5, <1>7 DEF TcpInv

(* accept stores the client at an address that was free.                    *)
LEMMA TcpAccept ==
  ASSUME TcpInv, NEW p \in Ptrs, NEW greeted \in BOOLEAN, AcceptClient(p, greeted)
  PROVE  TcpInv'
<1> DEFINE c == conns + 1
<1>1. /\ heap[p].sta = "FREE" /\ ConnOf(p) = 0 /\ p \notin clients
      /\ sta = "BINDED" /\ backlog # 0
  BY DEF AcceptClient, Accepting, Free, ConnOf, TcpInv, TcpTypeOK, HeapInv
<1>2. c \in Conns /\ conns \in Nat /\ c > conns
  BY <1>1, TcpServiceAssumption DEF AcceptClient, TcpInv, TcpTypeOK, Conns
<1>3. /\ heap'[p] = [conn |-> c, sta |-> IF greeted THEN "ACCEPTED" ELSE "NONE"]
      /\ \A r \in Ptrs : r # p => heap'[r] = heap[r]
      /\ heap' \in [Ptrs -> [conn : Nat, sta : {"FREE", "NONE", "ACCEPTED"}]]
  BY <1>2 DEF AcceptClient, TcpInv, TcpTypeOK
<1>4. TcpTypeOK'
  BY <1>1, <1>3 DEF AcceptClient, TcpInv, TcpTypeOK
<1>5. \A r \in Ptrs : r # p => ConnOf(r) \in 0 .. conns
  <2> SUFFICES ASSUME NEW r \in Ptrs PROVE ConnOf(r) \in 0 .. conns
    OBVIOUS
  <2>1. CASE heap[r].sta = "FREE"
    BY <1>2, <2>1 DEF TcpInv, HeapInv, ConnOf, Free
  <2>2. CASE heap[r].sta # "FREE"
    BY <1>2, <2>2 DEF TcpInv, HeapInv
  <2> QED BY <2>1, <2>2
<1>6. /\ ConnOf(p)' = c
      /\ \A r \in Ptrs : r # p => ConnOf(r)' = ConnOf(r)
  BY <1>3 DEF ConnOf
<1>7. HeapInv'
  <2>1. ASSUME NEW r \in Ptrs
        PROVE  /\ heap'[r].sta = "FREE" => heap'[r] = Free /\ r \notin clients'
               /\ heap'[r].sta # "FREE" => ConnOf(r)' \in 1 .. conns'
               /\ heap'[r].sta = "ACCEPTED" => r \in clients'
    <3>1. CASE r = p
      BY <1>2, <1>3, <1>6, <3>1 DEF AcceptClient
    <3>2. CASE r # p
      BY <1>2, <1>3, <1>6, <3>2 DEF AcceptClient, TcpInv, HeapInv
    <3> QED BY <3>1, <3>2
  <2>2. ASSUME NEW q \in Ptrs, NEW r \in Ptrs, ConnOf(q)' = ConnOf(r)', ConnOf(q)' # 0
        PROVE  q = r
    <3>1. CASE q # p /\ r # p
      BY <1>6, <2>2, <3>1 DEF TcpInv, HeapInv
    <3>2. CASE q = p \/ r = p
      BY <1>2, <1>5, <1>6, <2>2, <3>2
    <3> QED BY <3>1, <3>2
  <2> QED BY <2>1, <2>2 DEF HeapInv
<1>8. ReportInv'
  <2>1. \A d \in Conns :
           /\ reports'[d] <= (IF d \in (unsent' \cap swept') THEN 2 ELSE 1)
           /\ d > conns' => reports'[d] = 0 /\ d \notin unsent' \cup swept'
    BY <1>2 DEF AcceptClient, TcpInv, ReportInv, Conns
  <2>2. ASSUME NEW r \in clients'
        PROVE  /\ ConnOf(r)' \notin swept'
               /\ heap'[r].sta = "ACCEPTED" => reports'[ConnOf(r)'] = 0 /\ ConnOf(r)' \notin unsent'
               /\ reports'[ConnOf(r)'] <= (IF ConnOf(r)' \in unsent' THEN 1 ELSE 0)
    <3>1. CASE r = p
      <4>1. reports[c] = 0 /\ c \notin unsent \cup swept
        BY <1>2 DEF TcpInv, ReportInv
      <4> QED BY <1>6, <3>1, <4>1 DEF AcceptClient
    <3>2. CASE r # p
      <4>1. r \in clients /\ r \in Ptrs
        BY <3>2 DEF AcceptClient, TcpInv, TcpTypeOK
      <4> QED BY <1>3, <1>6, <3>2, <4>1 DEF AcceptClient, TcpInv, ReportInv
    <3> QED BY <3>1, <3>2
  <2> QED BY <2>1, <2>2 DEF ReportInv
<1> QED BY <1>4, <1>7, <1>8 DEF TcpInv

(* Clients that leave _clients: those in ps are reported, those in fs freed.*)
LEMMA TcpRemove ==
  ASSUME TcpInv, TcpTypeOK', UNCHANGED <<conns, unsent>>,
         NEW gs \in SUBSET clients, NEW ps \in SUBSET gs,
         clients' = clients \ gs,
         \A p \in ps : heap[p].sta = "ACCEPTED" \/ ConnOf(p) \in swept',
         \A p \in gs : heap'[p] = Free \/ heap'[p] = [heap[p] EXCEPT !.sta = "NONE"],
         \A p \in Ptrs : p \notin gs => heap'[p] = heap[p],
         \A c \in swept' : c \in swept \/ \E p \in gs : c = ConnOf(p),
         swept \subseteq swept',
         reports' = Reported(ps)
  PROVE  TcpInv'
<1>1. \A p \in gs : p \in Ptrs /\ ConnOf(p) \in 1 .. conns /\ heap[p] \in [conn : Nat, sta : {"FREE", "NONE", "ACCEPTED"}]
  BY ClientConn DEF TcpInv, TcpTypeOK
<1>2. \A p \in Ptrs :
        \/ p \notin gs /\ heap'[p] = heap[p] /\ ConnOf(p)' = ConnOf(p)
        \/ p \in gs /\ heap'[p].sta = "NONE" /\ ConnOf(p)' = ConnOf(p)
        \/ p \in gs /\ heap'[p] = Free /\ ConnOf(p)' = 0 /\ heap'[p].sta = "FREE"
  <2> SUFFICES ASSUME NEW p \in Ptrs, p \in gs
               PROVE  \/ heap'[p].sta = "NONE" /\ ConnOf(p)' = ConnOf(p)
                      \/ heap'[p] = Free /\ ConnOf(p)' = 0 /\ heap'[p].sta = "FREE"
    BY DEF ConnOf
  <2>1. CASE heap'[p] = Free
    BY <2>1 DEF ConnOf, Free
  <2>2. CASE heap'[p] = [heap[p] EXCEPT !.sta = "NONE"]
    BY <1>1, <2>2 DEF ConnOf
  <2> QED BY <2>1, <2>2
<1>3. HeapInv'
  <2>1. ASSUME NEW p \in Ptrs
        PROVE  /\ heap'[p].sta = "FREE" => heap'[p] = Free /\ p \notin clients'
               /\ heap'[p].sta # "FREE" => ConnOf(p)' \in 1 .. conns'
               /\ heap'[p].sta = "ACCEPTED" => p \in clients'
    BY <1>1, <1>2 DEF TcpInv, HeapInv
  <2>2. ASSUME NEW p \in Ptrs, NEW r \in Ptrs, ConnOf(p)' = ConnOf(r)', ConnOf(p)' # 0
        PROVE  p = r
    <3>1. ConnOf(p) = ConnOf(r) /\ ConnOf(p) # 0
      BY <1>2, <2>2
    <3> QED BY <3>1 DEF TcpInv, HeapInv
  <2> QED BY <2>1, <2>2 DEF HeapInv
<1>4. ReportInv'
  <2>1. ASSUME NEW c \in Conns
        PROVE  /\ reports'[c] <= (IF c \in (unsent' \cap swept') THEN 2 ELSE 1)
               /\ c > conns' => reports'[c] = 0 /\ c \notin unsent' \cup swept'
    <3>1. CASE \E p \in ps : ConnOf(p) = c
      <4>1. PICK p \in ps : ConnOf(p) = c BY <3>1
      <4>2. reports'[c] = reports[c] + 1 /\ reports[c] \in Nat /\ p \in clients /\ ~(c > conns)
        BY <1>1, <4>1, ReportedCount DEF TcpInv, TcpTypeOK
      <4>3. reports[c] <= (IF c \in unsent THEN 1 ELSE 0)
        BY <4>1, <4>2 DEF TcpInv, ReportInv
      <4>4. CASE heap[p].sta = "ACCEPTED"
        <5>1. reports[c] = 0 BY <4>1, <4>2, <4>4 DEF TcpInv, ReportInv
        <5> QED BY <4>2, <5>1
      <4>5. CASE c \in swept'
        BY <4>2, <4>3, <4>5
      <4> QED BY <4>1, <4>4, <4>5
    <3>2. CASE ~\E p \in ps : ConnOf(p) = c
      <4>1. reports'[c] = reports[c] BY <3>2, ReportedCount
      <4>2. c > conns => c \notin unsent' \cup swept' /\ reports[c] = 0
        BY <1>1 DEF TcpInv, ReportInv, TcpTypeOK
      <4>3. reports[c] <= (IF c \in (unsent' \cap swept') THEN 2 ELSE 1) /\ reports[c] \in Nat
        BY DEF TcpInv, ReportInv, TcpTypeOK
      <4> QED BY <4>1, <4>2, <4>3
    <3> QED BY <3>1, <3>2
  <2>2. ASSUME NEW p \in clients'
        PROVE  /\ ConnOf(p)' \notin swept'
               /\ heap'[p].sta = "ACCEPTED" => reports'[ConnOf(p)'] = 0 /\ ConnOf(p)' \notin unsent'
               /\ reports'[ConnOf(p)'] <= (IF ConnOf(p)' \in unsent' THEN 1 ELSE 0)
    <3>1. p \in clients /\ p \in Ptrs /\ p \notin gs /\ ConnOf(p)' = ConnOf(p) /\ heap'[p] = heap[p]
      BY <1>2 DEF TcpInv, TcpTypeOK
    <3>2. \A r \in gs : ConnOf(r) # ConnOf(p)
      BY <1>1, <3>1, ClientConn
    <3>3. reports'[ConnOf(p)] = reports[ConnOf(p)]
      BY <3>1, <3>2, ReportedCount, ClientConn
    <3> QED BY <3>1, <3>2, <3>3 DEF TcpInv, ReportInv
  <2> QED BY <2>1, <2>2 DEF ReportInv
<1> QED BY <1>3, <1>4 DEF TcpInv

(* Nobody is reported when no client is in the set.                         *)
LEMMA ReportedNone == TcpInv => Reported({}) = reports
BY DEF Reported, TcpInv, TcpTypeOK

(* _run_clients erases a client that is closed.                             *)
LEMMA TcpRunClosed ==
  ASSUME TcpInv, NEW p \in Ptrs, RunClosed(p)
  PROVE  TcpInv'
<1> DEFINE ps == IF heap[p].sta = "ACCEPTED" THEN {p} ELSE {}
<1>1. p \in clients /\ p \in todo
  BY DEF RunClosed, TcpInv, TcpTypeOK
<1>2. /\ clients' = clients \ {p} /\ reports' = Reported(ps) /\ todo' = todo \ {p}
      /\ heap' = [heap EXCEPT ![p].sta = "NONE"]
      /\ UNCHANGED <<sta, port, pc, backlog, conns, unsent, swept, failed>>
  BY ReportedNone DEF RunClosed, Erased
<1>3. ps \subseteq clients /\ ps \subseteq {p}
  BY <1>1
<1>4. /\ heap'[p] = [heap[p] EXCEPT !.sta = "NONE"]
      /\ \A r \in Ptrs : r # p => heap'[r] = heap[r]
      /\ heap' \in [Ptrs -> [conn : Nat, sta : {"FREE", "NONE", "ACCEPTED"}]]
  BY <1>2 DEF TcpInv, TcpTypeOK
<1>5. reports' \in [Conns -> Nat]
  BY <1>2, <1>3, ReportedCount
<1>6. TcpTypeOK'
  BY <1>2, <1>4, <1>5 DEF TcpInv, TcpTypeOK
<1>7. \A q \in ps : heap[q].sta = "ACCEPTED"
  OBVIOUS
<1> HIDE DEF ps
<1> DEFINE gs == {p}
<1>8. /\ gs \in SUBSET clients /\ ps \in SUBSET gs /\ clients' = clients \ gs
      /\ \A q \in ps : heap[q].sta = "ACCEPTED" \/ ConnOf(q) \in swept'
      /\ \A q \in gs : heap'[q] = Free \/ heap'[q] = [heap[q] EXCEPT !.sta = "NONE"]
      /\ \A q \in Ptrs : q \notin gs => heap'[q] = heap[q]
      /\ \A c \in swept' : c \in swept \/ \E q \in gs : c = ConnOf(q)
      /\ swept \subseteq swept'
  BY <1>1, <1>2, <1>3, <1>4, <1>7
<1> HIDE DEF gs
<1> QED BY <1>2, <1>6, <1>8, TcpRemove

(* close(cli) reports and deletes one client.                               *)
LEMMA TcpCloseClient ==
  ASSUME TcpInv, NEW p \in Ptrs, CloseClient(p)
  PROVE  TcpInv'
<1>1. p \in clients
  BY DEF CloseClient
<1>0. todo = {}
  BY DEF CloseClient, TcpInv, TcpTypeOK
<1>2. /\ clients' = clients \ {p} /\ reports' = Reported({p})
      /\ swept' = swept \cup {ConnOf(p)} /\ heap' = [heap EXCEPT ![p] = Free]
      /\ UNCHANGED <<sta, port, pc, todo, backlog, conns, unsent, failed>>
  BY DEF CloseClient
<1>3. /\ heap'[p] = Free
      /\ \A r \in Ptrs : r # p => heap'[r] = heap[r]
      /\ heap' \in [Ptrs -> [conn : Nat, sta : {"FREE", "NONE", "ACCEPTED"}]]
  BY <1>2 DEF TcpInv, TcpTypeOK, Free
<1>4. reports' \in [Conns -> Nat]
  BY <1>1, <1>2, ReportedCount
<1>5. TcpTypeOK'
  BY <1>0, <1>2, <1>3, <1>4 DEF TcpInv, TcpTypeOK
<1> QED BY <1>1, <1>2, <1>3, <1>5, TcpRemove

(* close() after accept has failed.                                         *)
LEMMA TcpAcceptFailed ==
  ASSUME TcpInv, AcceptFailed
  PROVE  TcpInv'
<1>0. todo = {}
  BY DEF AcceptFailed, Accepting, TcpInv, TcpTypeOK
<1>1. /\ clients' = clients \ clients /\ reports' = Reported(clients)
      /\ swept' = swept \cup {ConnOf(p) : p \in clients}
      /\ UNCHANGED <<port, todo, backlog, conns, unsent>>
      /\ sta' = "UNBIND" /\ failed' = TRUE /\ pc' = "owner"
  BY DEF AcceptFailed
<1>2. /\ \A p \in Ptrs : heap'[p] = IF p \in clients THEN Free ELSE heap[p]
      /\ heap' \in [Ptrs -> [conn : Nat, sta : {"FREE", "NONE", "ACCEPTED"}]]
  BY DEF AcceptFailed, TcpInv, TcpTypeOK, Free
<1>3. reports' \in [Conns -> Nat]
  BY <1>1, ReportedCount
<1>4. TcpTypeOK'
  BY <1>0, <1>1, <1>2, <1>3 DEF TcpInv, TcpTypeOK
<1>5. \A c \in swept' : c \in swept \/ \E p \in clients : c = ConnOf(p)
  BY <1>1
<1>6. clients \subseteq Ptrs
  BY DEF TcpInv, TcpTypeOK
<1> QED BY <1>1, <1>2, <1>4, <1>5, <1>6, TcpRemove

(* Every step of tcp_service and of its environment keeps TcpInv.           *)
LEMMA TcpNextInv == TcpInv /\ [TcpNext]_tcpVars => TcpInv'
<1> SUFFICES ASSUME TcpInv, [TcpNext]_tcpVars PROVE TcpInv'
  OBVIOUS
<1>1. CASE Arrive
  <2>1. TcpTypeOK'
    BY <1>1, TcpServiceAssumption DEF Arrive, TcpInv, TcpTypeOK
  <2> QED BY <1>1, <2>1, TcpQuiet DEF Arrive
<1>2. ASSUME NEW c \in Conns, Leave(c) PROVE TcpInv'
  <2>1. TcpTypeOK'
    BY <1>2 DEF Leave, TcpInv, TcpTypeOK
  <2> QED BY <1>2, <2>1, TcpQuiet DEF Leave
<1>3. CASE Bind
  <2>1. TcpTypeOK'
    BY <1>3 DEF Bind, TcpInv, TcpTypeOK
  <2> QED BY <1>3, <2>1, TcpQuiet DEF Bind
<1>4. CASE AcceptNone
  <2>1. TcpTypeOK'
    BY <1>4 DEF AcceptNone, TcpInv, TcpTypeOK
  <2> QED BY <1>4, <2>1, TcpQuiet DEF AcceptNone
<1>5. CASE RunReturn
  <2>1. TcpTypeOK'
    BY <1>5 DEF RunReturn, TcpInv, TcpTypeOK
  <2> QED BY <1>5, <2>1, TcpQuiet DEF RunReturn
<1>6. CASE OwnerReturn
  <2>1. TcpTypeOK'
    BY <1>6 DEF OwnerReturn, TcpInv, TcpTypeOK
  <2> QED BY <1>6, <2>1, TcpQuiet DEF OwnerReturn
<1>7. ASSUME NEW p \in Ptrs, RunOpen(p) PROVE TcpInv'
  <2>1. TcpTypeOK'
    BY <1>7 DEF RunOpen, TcpInv, TcpTypeOK
  <2> QED BY <1>7, <2>1, TcpQuiet DEF RunOpen
<1>8. ASSUME NEW ps \in SUBSET Accepted, Broadcast(ps) PROVE TcpInv'
  <2>1. /\ SendFails(ps)
        /\ UNCHANGED <<sta, port, clients, pc, todo, backlog, conns, swept, failed>>
    BY <1>8 DEF Broadcast
  <2>2. pc' \in {"run", "clients", "owner"} /\ (pc' # "clients" => todo = {})
    BY <2>1 DEF TcpInv, TcpTypeOK
  <2> QED BY <2>1, <2>2, TcpSendFails
<1>9. CASE UNCHANGED tcpVars
  <2>1. TcpTypeOK'
    BY <1>9 DEF tcpVars, TcpInv, TcpTypeOK
  <2> QED BY <1>9, <2>1, TcpQuiet DEF tcpVars
<1> QED
  BY <1>1, <1>2, <1>3, <1>4, <1>5, <1>6, <1>7, <1>8, <1>9, TcpAccept, TcpRunClosed,
     TcpCloseClient, TcpAcceptFailed
  DEF TcpNext, Environment, Service

(* The books on the clients hold for any owner of a tcp_service.            *)
THEOREM TcpInductive == TcpSpec => []TcpInv
<1>1. TcpInit => TcpInv BY TcpInitInv
<1>2. TcpInv /\ [TcpNext]_tcpVars => TcpInv' BY TcpNextInv
<1> QED BY <1>1, <1>2, PTL DEF TcpSpec

(* What TcpInv says of the clients and the reports.                         *)
LEMMA TcpInvMeans == TcpInv => ClientsAccounted
<1> SUFFICES ASSUME TcpInv PROVE ClientsAccounted
  OBVIOUS
<1>1. \A p \in clients : ConnOf(p) \in 1 .. conns
  BY ClientConn
<1>2. \A p, r \in clients : ConnOf(p) = ConnOf(r) => p = r
  BY ClientConn
<1>3. \A c \in Conns : reports[c] <= (IF c \in unsent \cap swept THEN 2 ELSE 1)
  BY DEF TcpInv, ReportInv
<1> QED BY <1>1, <1>2, <1>3 DEF ClientsAccounted

(* Whatever the owner of a tcp_service does and however its connections     *)
(* fail, no freed client stays in _clients and none is reported twice, but  *)
(* for the one that a failing send closed and close then finds              *)
(* (tcp_service.cpp, run, send and close).                                  *)
THEOREM ClientsAccountedHolds == TcpSpec => []ClientsAccounted
<1>1. TcpSpec => []TcpInv BY TcpInductive
<1>2. TcpInv => ClientsAccounted BY TcpInvMeans
<1> QED BY <1>1, <1>2, PTL

-----------------------------------------------------------------------------
(* The order query service: its steps as steps of tcp_service.              *)

Known == TcpInv /\ QueryTypeOK /\ FailedInv

(* The callback has a batch of a client, or there is no batch.              *)
LEMMA BatchShape ==
  ASSUME Known
  PROVE  /\ ~InCallback => batch = NoBatch
         /\ \A p \in Ptrs : batch.ptr = p => InCallback
         /\ InCallback =>
              /\ batch \in [ptr : Ptrs, reqs : Seq(Markets \cup {Unknown}), rest : 0 .. ReqLen - 1]
              /\ batch.ptr \in clients /\ batch.ptr \in Ptrs /\ pc = "clients" /\ ~failed
<1>1. batch \in {NoBatch} \cup
       [ptr : Ptrs, reqs : Seq(Markets \cup {Unknown}), rest : 0 .. ReqLen - 1]
  BY DEF Known, QueryTypeOK
<1>2. NoBatch.ptr = "none" /\ "none" \notin Ptrs
  BY OdrQueryAssumption DEF NoBatch
<1>3. InCallback => batch.ptr \in clients /\ pc = "clients" /\ ~failed
  BY DEF Known, FailedInv
<1>4. CASE batch = NoBatch
  BY <1>2, <1>4 DEF InCallback
<1>5. CASE batch \in [ptr : Ptrs, reqs : Seq(Markets \cup {Unknown}), rest : 0 .. ReqLen - 1]
  BY <1>2, <1>3, <1>5 DEF InCallback
<1> QED BY <1>1, <1>4, <1>5

(* Every step keeps the books of tcp_service.                               *)
LEMMA QueryTcpInv == Known /\ [Next]_vars => TcpInv'
<1> SUFFICES ASSUME Known, [Next]_vars PROVE TcpInv'
  OBVIOUS
<1>0. TcpInv
  BY DEF Known
<1>1. ASSUME [TcpNext]_tcpVars PROVE TcpInv'
  BY <1>0, <1>1, TcpNextInv
<1>2. CASE Environment
  BY <1>1, <1>2 DEF TcpNext
<1>3. CASE ServiceRun
  BY <1>1, <1>3 DEF ServiceRun, TcpNext, Service
<1>4. ASSUME NEW p \in Ptrs, NEW n \in Chunks, NEW mkt \in Markets \cup {Unknown}, OnMsg(p, n, mkt)
      PROVE  TcpInv'
  BY <1>1, <1>4 DEF OnMsg, TcpNext
<1>5. CASE Callback
  <2>1. CASE CallbackReturn
    BY <1>1, <2>1 DEF CallbackReturn
  <2>2. ASSUME NEW p \in Ptrs, Enqueue(p) PROVE TcpInv'
    BY <1>1, <2>2 DEF Enqueue
  <2>3. ASSUME NEW p \in Ptrs, AnswerError(p) PROVE TcpInv'
    BY <1>1, <2>3 DEF AnswerError
  <2>4. ASSUME NEW p \in Ptrs, AnswerErrorFails(p) PROVE TcpInv'
    <3>1. /\ SendFails({p}) /\ p \in Accepted
          /\ UNCHANGED <<sta, port, clients, pc, todo, backlog, conns, swept, failed>>
      BY <2>4 DEF AnswerErrorFails, SendFails
    <3>2. pc' \in {"run", "clients", "owner"} /\ (pc' # "clients" => todo = {})
      BY <1>0, <3>1 DEF TcpInv, TcpTypeOK
    <3>3. {p} \in SUBSET Accepted
      BY <3>1
    <3> QED BY <1>0, <3>1, <3>2, <3>3, TcpSendFails
  <2> QED BY <1>5, <2>1, <2>2, <2>3, <2>4 DEF Callback
<1>6. ASSUME NEW m \in Markets, Worker(m) PROVE TcpInv'
  BY <1>1, <1>6 DEF Worker, Take, Respond
<1>7. CASE DeliverSent
  <2>1. /\ pc = "owner" /\ pc' = "run"
        /\ UNCHANGED <<sta, port, clients, todo, backlog, conns, gone, swept, failed,
                       heap, reports, unsent>>
    BY <1>7 DEF DeliverSent, Deliver
  <2>2. TcpTypeOK'
    BY <1>0, <2>1 DEF TcpInv, TcpTypeOK
  <2> QED BY <1>0, <2>1, <2>2, TcpQuiet
<1>8. CASE DeliverFails
  <2> DEFINE p == Addressee
  <2>1. /\ SendFails({p}) /\ p \in Accepted /\ pc = "owner" /\ pc' = "run"
        /\ UNCHANGED <<sta, port, clients, todo, backlog, conns, swept, failed>>
    BY <1>8 DEF DeliverFails, Deliver, SendFails
  <2>2. todo = {}
    BY <1>0, <2>1 DEF TcpInv, TcpTypeOK
  <2>3. {p} \in SUBSET Accepted
    BY <2>1
  <2> QED BY <1>0, <2>1, <2>2, <2>3, TcpSendFails
<1>9. CASE DeliverNone
  BY <1>1, <1>9 DEF DeliverNone, TcpNext
<1>10. CASE UNCHANGED vars
  BY <1>1, <1>10 DEF vars
<1> QED BY <1>2, <1>3, <1>4, <1>5, <1>6, <1>7, <1>8, <1>9, <1>10 DEF Next

(* What becomes of an address: its connection stays until accept fails, and *)
(* an accepted client was accepted before, or is new.                       *)
LEMMA AddressKept ==
  ASSUME Known, [Next]_vars
  PROVE  /\ failed => failed'
         /\ \A p \in Ptrs :
              /\ ConnOf(p) # 0 => failed' \/ ConnOf(p)' = ConnOf(p)
              /\ heap'[p].sta = "ACCEPTED" /\ heap[p].sta # "ACCEPTED" =>
                   heap[p].sta = "FREE" /\ conns' = conns + 1 /\ ConnOf(p)' = conns'
              /\ heap'[p].sta = "ACCEPTED" /\ heap[p].sta = "ACCEPTED" => ConnOf(p)' = ConnOf(p)
         /\ conns' \in {conns, conns + 1}
<1> DEFINE Kept(p) ==
              /\ ConnOf(p) # 0 => failed' \/ ConnOf(p)' = ConnOf(p)
              /\ heap'[p].sta = "ACCEPTED" /\ heap[p].sta # "ACCEPTED" =>
                   heap[p].sta = "FREE" /\ conns' = conns + 1 /\ ConnOf(p)' = conns'
              /\ heap'[p].sta = "ACCEPTED" /\ heap[p].sta = "ACCEPTED" => ConnOf(p)' = ConnOf(p)
           Goal == /\ failed => failed'
                   /\ \A p \in Ptrs : Kept(p)
                   /\ conns' \in {conns, conns + 1}
<1>0. /\ heap \in [Ptrs -> [conn : Nat, sta : {"FREE", "NONE", "ACCEPTED"}]]
      /\ TcpInv /\ failed \in BOOLEAN
  BY DEF Known, TcpInv, TcpTypeOK
<1>1. ASSUME UNCHANGED <<heap, conns, failed>> PROVE Goal
  BY <1>0, <1>1 DEF ConnOf
<1>2. ASSUME NEW ps, SendFails(ps), UNCHANGED <<conns, failed>> PROVE Goal
  <2>1. \A p \in Ptrs : heap'[p] = IF p \in ps THEN [heap[p] EXCEPT !.sta = "NONE"] ELSE heap[p]
    BY <1>2 DEF SendFails
  <2>2. \A p \in Ptrs : ConnOf(p)' = ConnOf(p) /\ heap'[p].sta \in {"NONE", heap[p].sta}
    BY <1>0, <2>1 DEF ConnOf
  <2> QED BY <1>0, <1>2, <2>2
<1>3. CASE AcceptFailed
  <2>1. failed' = TRUE /\ conns' = conns
        /\ \A p \in Ptrs : heap'[p] = IF p \in clients THEN Free ELSE heap[p]
    BY <1>3 DEF AcceptFailed
  <2>2. \A p \in Ptrs : IF p \in clients THEN heap'[p].sta = "FREE"
                        ELSE heap'[p] = heap[p] /\ ConnOf(p)' = ConnOf(p)
    BY <2>1 DEF ConnOf, Free
  <2> QED BY <1>0, <1>3, <2>1, <2>2
<1>4. ASSUME NEW p \in Ptrs, AcceptClient(p, TRUE) PROVE Goal
  <2>1. /\ heap'[p] = [conn |-> conns + 1, sta |-> "ACCEPTED"]
        /\ \A r \in Ptrs : r # p => heap'[r] = heap[r] /\ ConnOf(r)' = ConnOf(r)
        /\ heap[p] = Free /\ conns' = conns + 1 /\ failed' = failed
    BY <1>0, <1>4 DEF AcceptClient, ConnOf
  <2>2. ConnOf(p) = 0 /\ heap[p].sta = "FREE" /\ heap'[p].sta = "ACCEPTED" /\ ConnOf(p)' = conns'
    BY <2>1 DEF Free, ConnOf
  <2> QED BY <1>0, <2>1, <2>2
<1>5. ASSUME NEW p \in Ptrs, RunClosed(p) PROVE Goal
  <2>1. /\ heap'[p] = [heap[p] EXCEPT !.sta = "NONE"]
        /\ \A r \in Ptrs : r # p => heap'[r] = heap[r] /\ ConnOf(r)' = ConnOf(r)
        /\ conns' = conns /\ failed' = failed
    BY <1>0, <1>5 DEF RunClosed, Erased, ConnOf
  <2>2. ConnOf(p)' = ConnOf(p) /\ heap'[p].sta = "NONE"
    BY <1>0, <2>1 DEF ConnOf
  <2> QED BY <1>0, <2>1, <2>2
<1>6. CASE Environment
  BY <1>1, <1>6 DEF Environment, Arrive, Leave
<1>7. CASE ServiceRun
  BY <1>1, <1>3, <1>4, <1>5, <1>7 DEF ServiceRun, Bind, AcceptNone, RunReturn, RunOpen
<1>8. ASSUME NEW p \in Ptrs, NEW n \in Chunks, NEW mkt \in Markets \cup {Unknown}, OnMsg(p, n, mkt)
      PROVE  Goal
  BY <1>1, <1>8 DEF OnMsg, RunOpen
<1>9. CASE Callback
  <2>1. CASE CallbackReturn
    BY <1>1, <2>1 DEF CallbackReturn, tcpVars
  <2>2. ASSUME NEW p \in Ptrs, Enqueue(p) PROVE Goal
    BY <1>1, <2>2 DEF Enqueue, tcpVars
  <2>3. ASSUME NEW p \in Ptrs, AnswerError(p) PROVE Goal
    BY <1>1, <2>3 DEF AnswerError, tcpVars
  <2>4. ASSUME NEW p \in Ptrs, AnswerErrorFails(p) PROVE Goal
    BY <1>2, <2>4 DEF AnswerErrorFails
  <2> QED BY <1>9, <2>1, <2>2, <2>3, <2>4 DEF Callback
<1>10. ASSUME NEW m \in Markets, Worker(m) PROVE Goal
  BY <1>1, <1>10 DEF Worker, Take, Respond, tcpVars
<1>11. CASE DeliverSent
  BY <1>1, <1>11 DEF DeliverSent, Deliver
<1>12. CASE DeliverFails
  BY <1>2, <1>12 DEF DeliverFails, Deliver
<1>13. CASE DeliverNone
  BY <1>1, <1>13 DEF DeliverNone, OwnerReturn
<1>14. CASE UNCHANGED vars
  BY <1>1, <1>14 DEF vars, tcpVars
<1>15. Goal
  BY <1>6, <1>7, <1>8, <1>9, <1>10, <1>11, <1>12, <1>13, <1>14 DEF Next
<1> QED BY <1>15

-----------------------------------------------------------------------------
(* The types of the queues, the request buffers and the callback.           *)

(* The quotient of a natural number, with the remainder it leaves.          *)
LEMMA NatDivision ==
  ASSUME NEW a \in Nat, NEW b \in Nat \ {0}
  PROVE  /\ a \div b \in Nat
         /\ (a % b) \in 0 .. b - 1
         /\ a = (a \div b) * b + (a % b)
BY SMT

(* k times the same market.                                                 *)
LEMMA Repeated ==
  ASSUME NEW S, NEW x \in S, NEW k \in Nat
  PROVE  [i \in 1 .. k |-> x] \in Seq(S) /\ Len([i \in 1 .. k |-> x]) = k
BY SMT

Buffers == [rest : 0 .. ReqLen - 1, last : Markets \cup {Unknown}]

(* The request_buffer that the callback starts from.                        *)
LEMMA ItemType ==
  ASSUME Known, NEW p \in Ptrs
  PROVE  /\ Item(p) \in Buffers
         /\ items[p] = None => Item(p).rest = 0
         /\ items[p] # None => Item(p) = items[p]
         /\ NewItem \in Buffers /\ None \notin Buffers
<1>1. NewItem \in Buffers /\ NewItem.rest = 0
  BY OdrQueryAssumption DEF NewItem, Buffers
<1>2. items[p] \in {None} \cup Buffers
  BY DEF Known, QueryTypeOK, Buffers
<1>3. ASSUME None \in Buffers PROVE FALSE
  <2>1. None.rest \in 0 .. ReqLen - 1
    BY <1>3 DEF Buffers
  <2>2. None.rest = -1
    BY DEF None
  <2> QED BY <2>1, <2>2
<1> QED BY <1>1, <1>2, <1>3 DEF Item

(* A chunk that is not only stored: the whole requests and what is left.    *)
LEMMA CutBytes ==
  ASSUME NEW item \in Buffers, NEW n \in Nat \ {0}, NEW mkt \in Markets \cup {Unknown},
         ~(item.rest # 0 /\ n < ReqLen - item.rest)
  PROVE  /\ Cut(item, n, mkt).reqs \in Seq(Markets \cup {Unknown})
         /\ Cut(item, n, mkt).rest \in 0 .. ReqLen - 1
         /\ Cut(item, n, mkt).last \in Markets \cup {Unknown}
         /\ item.rest + n = Len(Cut(item, n, mkt).reqs) * ReqLen + Cut(item, n, mkt).rest
<1>0. ReqLen \in Nat \ {0}
  BY OdrQueryAssumption
<1>1. item.last \in Markets \cup {Unknown} /\ item.rest \in 0 .. ReqLen - 1
  BY DEF Buffers
<1>2. CASE item.rest = 0
  <2> DEFINE k == n \div ReqLen
             r == n % ReqLen
  <2>1. k \in Nat /\ r \in 0 .. ReqLen - 1 /\ n = k * ReqLen + r
    BY <1>0, NatDivision
  <2>2. Cut(item, n, mkt) = [reqs |-> [i \in 1 .. k |-> item.last], rest |-> r, last |-> item.last]
    BY <1>2 DEF Cut
  <2> HIDE DEF k, r
  <2>3. [i \in 1 .. k |-> item.last] \in Seq(Markets \cup {Unknown})
        /\ Len([i \in 1 .. k |-> item.last]) = k
    BY <1>1, <2>1, Repeated
  <2> QED BY <1>1, <1>2, <2>1, <2>2, <2>3
<1>3. CASE item.rest # 0
  <2> DEFINE more == n - (ReqLen - item.rest)
             k == more \div ReqLen
             r == more % ReqLen
  <2>0. more \in Nat
    BY <1>0, <1>1, <1>3
  <2>1. k \in Nat /\ r \in 0 .. ReqLen - 1 /\ more = k * ReqLen + r
    BY <1>0, <2>0, NatDivision
  <2>2. Cut(item, n, mkt) = [reqs |-> [i \in 1 .. 1 + k |-> mkt], rest |-> r, last |-> mkt]
    BY <1>3 DEF Cut
  <2>3. item.rest + n = ReqLen + more
    BY <1>0, <1>1
  <2> HIDE DEF k, r, more
  <2>4. 1 + k \in Nat BY <2>1
  <2>5. [i \in 1 .. 1 + k |-> mkt] \in Seq(Markets \cup {Unknown})
        /\ Len([i \in 1 .. 1 + k |-> mkt]) = 1 + k
    BY <2>4, Repeated
  <2>6. item.rest + n = (1 + k) * ReqLen + r
    BY <1>0, <2>1, <2>3
  <2> QED BY <2>1, <2>2, <2>5, <2>6
<1> QED BY <1>2, <1>3

(* What the first step of the message callback leaves behind.               *)
LEMMA OnMsgFacts ==
  ASSUME Known, NEW p \in Ptrs, NEW n \in Chunks, NEW mkt \in Markets \cup {Unknown},
         OnMsg(p, n, mkt)
  PROVE  /\ ~InCallback /\ p \in Accepted /\ batch = NoBatch /\ pc = "clients"
         /\ n \in Nat \ {0}
         /\ rcv' = [rcv EXCEPT ![ConnOf(p)] = @ + n]
         /\ UNCHANGED <<reqQ, rspQ, worker, handled, answers, corrupt, heap, clients, pc, conns,
                        failed, sta, port>>
         /\ \A q \in Ptrs : q # p => items'[q] = items[q]
         /\ items' \in [Ptrs -> {None} \cup Buffers]
         /\ items'[p] # None
         /\ \/ /\ batch' = NoBatch
               /\ items'[p].rest = Item(p).rest + n
            \/ /\ batch' \in [ptr : Ptrs, reqs : Seq(Markets \cup {Unknown}), rest : 0 .. ReqLen - 1]
               /\ batch'.ptr = p /\ items'[p].rest = 0
               /\ Item(p).rest + n = Len(batch'.reqs) * ReqLen + batch'.rest
<1> DEFINE item == Item(p)
           cut  == Cut(item, n, mkt)
<1>1. item \in Buffers /\ None \notin Buffers
  BY ItemType
<1>2. /\ ~InCallback /\ p \in Accepted /\ pc = "clients"
      /\ rcv' = [rcv EXCEPT ![ConnOf(p)] = @ + n]
      /\ UNCHANGED <<reqQ, rspQ, worker, handled, answers, corrupt, heap, clients, pc, conns,
                     failed, sta, port>>
  BY DEF OnMsg, RunOpen
<1>3. batch = NoBatch /\ n \in Nat \ {0} /\ ReqLen \in Nat \ {0}
  BY <1>2, BatchShape, OdrQueryAssumption
<1>4. items \in [Ptrs -> {None} \cup Buffers]
  BY DEF Known, QueryTypeOK, Buffers
<1>5. CASE item.rest # 0 /\ n < ReqLen - item.rest
  <2> DEFINE new == [item EXCEPT !.rest = @ + n]
  <2>1. items' = [items EXCEPT ![p] = new] /\ batch' = batch
    BY <1>5 DEF OnMsg
  <2>2. new \in Buffers /\ new.rest = item.rest + n
    BY <1>1, <1>3, <1>5 DEF Buffers
  <2> HIDE DEF new, item
  <2>3. items'[p] = new /\ (\A q \in Ptrs : q # p => items'[q] = items[q])
        /\ items' \in [Ptrs -> {None} \cup Buffers]
    BY <1>4, <2>1, <2>2
  <2>4. items'[p] # None
    BY <1>1, <2>2, <2>3
  <2> QED BY <1>2, <1>3, <2>1, <2>2, <2>3, <2>4 DEF item
<1>6. CASE ~(item.rest # 0 /\ n < ReqLen - item.rest)
  <2> DEFINE new == [rest |-> 0, last |-> cut.last]
  <2>1. items' = [items EXCEPT ![p] = new] /\ batch' = [ptr |-> p, reqs |-> cut.reqs, rest |-> cut.rest]
    BY <1>6 DEF OnMsg
  <2>2. /\ cut.reqs \in Seq(Markets \cup {Unknown})
        /\ cut.rest \in 0 .. ReqLen - 1
        /\ cut.last \in Markets \cup {Unknown}
        /\ item.rest + n = Len(cut.reqs) * ReqLen + cut.rest
    BY <1>1, <1>3, <1>6, CutBytes, SMTT(30)
  <2> HIDE DEF cut, item
  <2>3. new \in Buffers /\ new.rest = 0
    BY <1>3, <2>2 DEF Buffers
  <2> HIDE DEF new
  <2>4. items'[p] = new /\ (\A q \in Ptrs : q # p => items'[q] = items[q])
        /\ items' \in [Ptrs -> {None} \cup Buffers]
    BY <1>4, <2>1, <2>3
  <2>5. items'[p] # None
    BY <1>1, <2>3, <2>4
  <2>6. /\ batch' \in [ptr : Ptrs, reqs : Seq(Markets \cup {Unknown}), rest : 0 .. ReqLen - 1]
        /\ batch'.ptr = p /\ batch'.reqs = cut.reqs /\ batch'.rest = cut.rest
    BY <2>1, <2>2
  <2> QED BY <1>2, <1>3, <2>2, <2>3, <2>4, <2>5, <2>6 DEF item
<1> QED BY <1>5, <1>6

(* One request of the callback.                                             *)
LEMMA HandlingFacts ==
  ASSUME Known, NEW p \in Ptrs, Handling(p)
  PROVE  /\ InCallback /\ p = batch.ptr /\ p \in clients /\ pc = "clients"
         /\ Head(batch.reqs) \in Markets \cup {Unknown}
         /\ batch' \in [ptr : Ptrs, reqs : Seq(Markets \cup {Unknown}), rest : 0 .. ReqLen - 1]
         /\ batch'.ptr = p /\ batch'.rest = batch.rest
         /\ Len(batch.reqs) \in Nat \ {0} /\ Len(batch'.reqs) = Len(batch.reqs) - 1
         /\ handled' = [handled EXCEPT ![ConnOf(p)] = @ + 1]
         /\ handled' \in [Conns -> Nat]
         /\ corrupt' = (items[p] = None) /\ ~corrupt
         /\ UNCHANGED <<rcv, worker, rspQ>>
<1>1. /\ InCallback /\ p = batch.ptr /\ batch.reqs # << >> /\ ~corrupt
      /\ batch' = [batch EXCEPT !.reqs = Tail(@)]
      /\ handled' = [handled EXCEPT ![ConnOf(p)] = @ + 1]
      /\ corrupt' = (items[p] = None)
      /\ UNCHANGED <<rcv, worker, rspQ>>
  BY DEF Handling
<1>2. /\ batch \in [ptr : Ptrs, reqs : Seq(Markets \cup {Unknown}), rest : 0 .. ReqLen - 1]
      /\ p \in clients /\ pc = "clients"
  BY <1>1, BatchShape
<1>3. batch.reqs \in Seq(Markets \cup {Unknown})
  BY <1>2
<1>4. /\ Head(batch.reqs) \in Markets \cup {Unknown}
      /\ Tail(batch.reqs) \in Seq(Markets \cup {Unknown})
      /\ Len(batch.reqs) \in Nat \ {0} /\ Len(Tail(batch.reqs)) = Len(batch.reqs) - 1
  BY <1>1, <1>3, HeadTailProperties, EmptySeq, LenProperties
<1>5. handled' \in [Conns -> Nat]
  <2>1. ConnOf(p) \in Conns
    BY <1>2, ClientConn DEF Known
  <2> QED BY <1>1, <2>1 DEF Known, QueryTypeOK
<1> QED BY <1>1, <1>2, <1>4, <1>5

(* A step that forgets some of the clients.                                 *)
LEMMA ForgetFacts ==
  ASSUME Known, NEW ps, Forget(ps)
  PROVE  /\ \A q \in Ptrs : items'[q] = IF q \in ps THEN None ELSE items[q]
         /\ items' \in [Ptrs -> {None} \cup Buffers]
         /\ UNCHANGED <<batch, reqQ, rspQ, worker, rcv, handled, answers, corrupt>>
BY DEF Forget, Known, QueryTypeOK, Buffers

(* A service step of tcp_service, seen from the order query service.        *)
LEMMA ServiceRunFacts ==
  ASSUME Known, ServiceRun
  PROVE  /\ ~InCallback
         /\ items' \in [Ptrs -> {None} \cup Buffers]
         /\ \A p \in Ptrs : items'[p] \in {None, items[p]}
         /\ \A p \in Ptrs : heap'[p].sta = "ACCEPTED" => items'[p] = items[p]
         /\ \A p \in Ptrs : heap'[p].sta = "FREE" => heap[p].sta = "FREE" \/ items'[p] = None
         /\ UNCHANGED <<batch, reqQ, rspQ, worker, rcv, handled, answers, corrupt>>
<1>0. /\ heap \in [Ptrs -> [conn : Nat, sta : {"FREE", "NONE", "ACCEPTED"}]]
      /\ ~InCallback
  BY DEF Known, TcpInv, TcpTypeOK, ServiceRun
<1>1. ASSUME Forget({}), heap' = heap
      PROVE  /\ items' \in [Ptrs -> {None} \cup Buffers]
             /\ \A p \in Ptrs : items'[p] \in {None, items[p]}
             /\ \A p \in Ptrs : heap'[p].sta = "ACCEPTED" => items'[p] = items[p]
             /\ \A p \in Ptrs : heap'[p].sta = "FREE" => heap[p].sta = "FREE" \/ items'[p] = None
             /\ UNCHANGED <<batch, reqQ, rspQ, worker, rcv, handled, answers, corrupt>>
  BY <1>1, ForgetFacts
<1>2. CASE (Bind \/ AcceptNone \/ RunReturn) /\ Forget({})
  BY <1>0, <1>1, <1>2 DEF Bind, AcceptNone, RunReturn
<1>3. CASE AcceptFailed /\ Forget(clients)
  <2>1. \A p \in Ptrs : heap'[p] = IF p \in clients THEN Free ELSE heap[p]
    BY <1>3 DEF AcceptFailed
  <2>2. \A p \in Ptrs : p \in clients => heap'[p].sta = "FREE"
    BY <2>1 DEF Free
  <2> QED BY <1>0, <1>3, <2>1, <2>2, ForgetFacts
<1>4. ASSUME NEW p \in Ptrs, AcceptClient(p, TRUE) /\ Forget({})
      PROVE  /\ items' \in [Ptrs -> {None} \cup Buffers]
             /\ \A q \in Ptrs : items'[q] \in {None, items[q]}
             /\ \A q \in Ptrs : heap'[q].sta = "ACCEPTED" => items'[q] = items[q]
             /\ \A q \in Ptrs : heap'[q].sta = "FREE" => heap[q].sta = "FREE" \/ items'[q] = None
             /\ UNCHANGED <<batch, reqQ, rspQ, worker, rcv, handled, answers, corrupt>>
  <2>1. \A q \in Ptrs : heap'[q] = IF q = p THEN [conn |-> conns + 1, sta |-> "ACCEPTED"] ELSE heap[q]
    BY <1>0, <1>4 DEF AcceptClient
  <2>2. \A q \in Ptrs : q = p => heap'[q].sta = "ACCEPTED"
    BY <2>1
  <2> QED BY <1>0, <1>4, <2>1, <2>2, ForgetFacts
<1>5. ASSUME NEW p \in Ptrs, RunOpen(p) /\ Forget({})
      PROVE  heap' = heap /\ Forget({})
  BY <1>5 DEF RunOpen
<1>6. ASSUME NEW p \in Ptrs, RunClosed(p) /\ Forget({p})
      PROVE  /\ items' \in [Ptrs -> {None} \cup Buffers]
             /\ \A q \in Ptrs : items'[q] \in {None, items[q]}
             /\ \A q \in Ptrs : heap'[q].sta = "ACCEPTED" => items'[q] = items[q]
             /\ \A q \in Ptrs : heap'[q].sta = "FREE" => heap[q].sta = "FREE" \/ items'[q] = None
             /\ UNCHANGED <<batch, reqQ, rspQ, worker, rcv, handled, answers, corrupt>>
  <2>1. \A q \in Ptrs : IF q = p THEN heap'[q].sta = "NONE" ELSE heap'[q] = heap[q]
    BY <1>0, <1>6 DEF RunClosed, Erased
  <2> QED BY <1>0, <1>6, <2>1, ForgetFacts
<1> QED BY <1>0, <1>1, <1>2, <1>3, <1>4, <1>5, <1>6 DEF ServiceRun

(* Sequences of requests stay so when one is put in or taken out.           *)
LEMMA QueueSteps ==
  ASSUME NEW q \in Seq(Requests)
  PROVE  /\ Len(q) \in Nat /\ \A i \in 1 .. Len(q) : q[i] \in Requests
         /\ \A r \in Requests :
              /\ Append(q, r) \in Seq(Requests) /\ Len(Append(q, r)) = Len(q) + 1
              /\ \A i \in 1 .. Len(q) + 1 : Append(q, r)[i] = IF i <= Len(q) THEN q[i] ELSE r
         /\ q # << >> =>
              /\ Head(q) \in Requests /\ Head(q) = q[1] /\ Len(q) >= 1
              /\ Tail(q) \in Seq(Requests) /\ Len(Tail(q)) = Len(q) - 1
              /\ \A i \in 1 .. Len(q) - 1 : Tail(q)[i] = q[i + 1]
<1>1. Len(q) \in Nat /\ \A i \in 1 .. Len(q) : q[i] \in Requests
  BY LenProperties, ElementOfSeq
<1>2. \A r \in Requests :
              /\ Append(q, r) \in Seq(Requests) /\ Len(Append(q, r)) = Len(q) + 1
              /\ \A i \in 1 .. Len(q) + 1 : Append(q, r)[i] = IF i <= Len(q) THEN q[i] ELSE r
  BY <1>1, AppendProperties
<1>3. q # << >> =>
              /\ Head(q) \in Requests /\ Head(q) = q[1] /\ Len(q) >= 1
              /\ Tail(q) \in Seq(Requests) /\ Len(Tail(q)) = Len(q) - 1
              /\ \A i \in 1 .. Len(q) - 1 : Tail(q)[i] = q[i + 1]
  BY <1>1, HeadTailProperties, EmptySeq
<1> QED BY <1>1, <1>2, <1>3

(* A client's request carries its connection.                               *)
LEMMA RequestType ==
  ASSUME Known, NEW p \in clients
  PROVE  Request(p) \in Requests /\ Request(p).ptr = p /\ Request(p).conn = ConnOf(p)
BY ClientConn DEF Known, Request, Requests

(* What the steps of the queues and of the answers do.                      *)
LEMMA DeliverFacts ==
  ASSUME Known, Deliver
  PROVE  /\ pc = "owner" /\ ~InCallback /\ rspQ # << >> /\ ~corrupt
         /\ rspQ' = Tail(rspQ) /\ Head(rspQ) \in Requests /\ Addressee \in Ptrs
         /\ UNCHANGED <<batch, reqQ, worker, rcv, handled, corrupt, clients, conns>>
<1>1. rspQ \in Seq(Requests) /\ rspQ # << >> /\ pc = "owner"
  BY DEF Known, QueryTypeOK, Deliver
<1>2. Head(rspQ) \in Requests
  BY <1>1, QueueSteps
<1> QED BY <1>1, <1>2, BatchShape DEF Deliver, Addressee, Requests

(* The queues hold requests, and the callback whole structs.                *)
LEMMA QueryTypes == Known /\ [Next]_vars => QueryTypeOK'
<1> SUFFICES ASSUME Known, [Next]_vars PROVE QueryTypeOK'
  OBVIOUS
<1>0. QueryTypeOK
  BY DEF Known
<1>1. ASSUME UNCHANGED queryVars PROVE QueryTypeOK'
  BY <1>0, <1>1 DEF QueryTypeOK, queryVars
<1>2. CASE ServiceRun
  BY <1>0, <1>2, ServiceRunFacts DEF QueryTypeOK, Buffers
<1>3. ASSUME NEW p \in Ptrs, NEW n \in Chunks, NEW mkt \in Markets \cup {Unknown}, OnMsg(p, n, mkt)
      PROVE  QueryTypeOK'
  <2>1. rcv' \in [Conns -> Nat]
    <3>1. p \in clients
      BY <1>3, OnMsgFacts DEF Accepted
    <3>2. ConnOf(p) \in Conns
      BY <3>1, ClientConn DEF Known
    <3> QED BY <1>0, <1>3, <3>2, OnMsgFacts, SMTT(30) DEF QueryTypeOK
  <2>2. batch' \in {NoBatch} \cup
           [ptr : Ptrs, reqs : Seq(Markets \cup {Unknown}), rest : 0 .. ReqLen - 1]
    BY <1>3, OnMsgFacts
  <2> QED BY <1>0, <1>3, <2>1, <2>2, OnMsgFacts DEF QueryTypeOK, Buffers
<1>4. CASE Callback
  <2>0. ASSUME NEW p \in Ptrs, Handling(p)
        PROVE  /\ batch' \in {NoBatch} \cup
                    [ptr : Ptrs, reqs : Seq(Markets \cup {Unknown}), rest : 0 .. ReqLen - 1]
               /\ handled' \in [Conns -> Nat] /\ corrupt' \in BOOLEAN
               /\ rcv' = rcv /\ worker' = worker /\ rspQ' = rspQ /\ p \in clients
    BY <2>0, HandlingFacts
  <2>1. CASE CallbackReturn
    <3>1. /\ batch' = NoBatch /\ UNCHANGED <<reqQ, rspQ, worker, rcv, handled>>
          /\ InCallback
      BY <2>1 DEF CallbackReturn
    <3> DEFINE p == batch.ptr
    <3>2. p \in Ptrs /\ batch.rest \in 0 .. ReqLen - 1
      BY <3>1, BatchShape
    <3>3. CASE items[p] = None
      BY <1>0, <2>1, <3>1, <3>3 DEF CallbackReturn, QueryTypeOK
    <3>4. CASE items[p] # None
      <4>1. items' = [items EXCEPT ![p].rest = batch.rest] /\ corrupt' = corrupt
        BY <2>1, <3>4 DEF CallbackReturn
      <4>2. items[p] \in Buffers
        BY <3>2, <3>4, ItemType
      <4>3. [items[p] EXCEPT !.rest = batch.rest] \in Buffers
        BY <3>2, <4>2 DEF Buffers
      <4>4. items' \in [Ptrs -> {None} \cup Buffers]
        BY <1>0, <3>2, <4>1, <4>3 DEF QueryTypeOK, Buffers
      <4> QED BY <1>0, <3>1, <4>1, <4>4 DEF QueryTypeOK, Buffers
    <3> QED BY <3>3, <3>4
  <2>2. ASSUME NEW p \in Ptrs, Enqueue(p) PROVE QueryTypeOK'
    <3> DEFINE m == Head(batch.reqs)
    <3>1. /\ Handling(p) /\ m \in Markets /\ items' = items
          /\ reqQ' = [reqQ EXCEPT ![m] = Append(@, Request(p))]
      BY <2>2 DEF Enqueue
    <3>2. Request(p) \in Requests
      BY <2>0, <3>1, RequestType
    <3>3. Append(reqQ[m], Request(p)) \in Seq(Requests)
      BY <1>0, <3>1, <3>2, QueueSteps DEF QueryTypeOK
    <3> HIDE DEF m
    <3>4. reqQ' \in [Markets -> Seq(Requests)]
      BY <1>0, <3>1, <3>3 DEF QueryTypeOK
    <3> QED BY <1>0, <2>0, <3>1, <3>4 DEF QueryTypeOK
  <2>3. ASSUME NEW p \in Ptrs, AnswerError(p) PROVE QueryTypeOK'
    BY <1>0, <2>0, <2>3 DEF AnswerError, QueryTypeOK
  <2>4. ASSUME NEW p \in Ptrs, AnswerErrorFails(p) PROVE QueryTypeOK'
    <3>1. Handling(p) /\ items' = [items EXCEPT ![p] = None] /\ reqQ' = reqQ
      BY <2>4 DEF AnswerErrorFails
    <3> QED BY <1>0, <2>0, <3>1 DEF QueryTypeOK
  <2> QED BY <1>4, <2>1, <2>2, <2>3, <2>4 DEF Callback
<1>5. ASSUME NEW m \in Markets, Take(m) PROVE QueryTypeOK'
  <2>1. reqQ[m] \in Seq(Requests) /\ reqQ[m] # << >>
    BY <1>0, <1>5 DEF Take, QueryTypeOK
  <2>2. Head(reqQ[m]) \in Requests /\ Tail(reqQ[m]) \in Seq(Requests)
    BY <2>1, QueueSteps
  <2>3. worker' \in [Markets -> Requests \cup {Idle}] /\ reqQ' \in [Markets -> Seq(Requests)]
    BY <1>0, <1>5, <2>2 DEF Take, QueryTypeOK
  <2> QED BY <1>0, <1>5, <2>3 DEF Take, QueryTypeOK
<1>6. ASSUME NEW m \in Markets, Respond(m) PROVE QueryTypeOK'
  <2>1. worker[m] \in Requests /\ rspQ \in Seq(Requests)
    BY <1>0, <1>6 DEF Respond, QueryTypeOK
  <2>2. Append(rspQ, worker[m]) \in Seq(Requests)
    BY <2>1, QueueSteps
  <2>3. worker' \in [Markets -> Requests \cup {Idle}]
    BY <1>0, <1>6 DEF Respond, QueryTypeOK
  <2> QED BY <1>0, <1>6, <2>2, <2>3 DEF Respond, QueryTypeOK
<1>7. ASSUME Deliver, items' \in [Ptrs -> {None} \cup Buffers] PROVE QueryTypeOK'
  <2>0. rspQ \in Seq(Requests) /\ rspQ # << >> /\ rspQ' = Tail(rspQ)
    BY <1>0, <1>7, DeliverFacts DEF QueryTypeOK
  <2>1. rspQ' \in Seq(Requests)
    BY <2>0, QueueSteps
  <2> QED BY <1>0, <1>7, <2>1, DeliverFacts DEF QueryTypeOK, Buffers
<1>8. CASE DeliverSent
  BY <1>0, <1>7, <1>8 DEF DeliverSent, QueryTypeOK, Buffers
<1>9. CASE DeliverFails
  <2>1. Deliver /\ items' = [items EXCEPT ![Addressee] = None]
    BY <1>9 DEF DeliverFails
  <2>2. items' \in [Ptrs -> {None} \cup Buffers]
    BY <1>0, <2>1 DEF QueryTypeOK, Buffers
  <2> QED BY <1>7, <2>1, <2>2
<1>10. CASE DeliverNone
  BY <1>1, <1>10 DEF DeliverNone
<1>11. CASE UNCHANGED vars
  BY <1>1, <1>11 DEF vars
<1> QED BY <1>1, <1>2, <1>3, <1>4, <1>5, <1>6, <1>8, <1>9, <1>10, <1>11 DEF Next, Worker

-----------------------------------------------------------------------------
(* The three invariants of the order query service.                         *)

(* Nothing binds or accepts again once accept has failed, and a callback    *)
(* runs within the pass over the clients.                                   *)
LEMMA FailedStays == Known /\ [Next]_vars => FailedInv'
<1> SUFFICES ASSUME Known, [Next]_vars PROVE FailedInv'
  OBVIOUS
<1>0. /\ FailedInv /\ TcpTypeOK /\ (~InCallback => batch = NoBatch) /\ NoBatch.ptr = "none"
  BY BatchShape DEF Known, TcpInv, NoBatch
<1> USE <1>0
<1>1. ASSUME UNCHANGED <<failed, clients, sta, port>>,
             InCallback' => pc' = "clients" /\ batch'.ptr \in clients
      PROVE  FailedInv'
  BY <1>1 DEF FailedInv
<1>2. CASE Environment /\ UNCHANGED queryVars
  <2>1. UNCHANGED <<failed, clients, sta, port, pc, batch>>
    BY <1>2 DEF Environment, Arrive, Leave, queryVars
  <2> QED BY <2>1, <1>1 DEF FailedInv, InCallback
<1>3. CASE ServiceRun
  <2>1. ~InCallback' /\ ~InCallback
    BY <1>3, ServiceRunFacts DEF InCallback
  <2>2. CASE Bind
    BY <2>1, <2>2 DEF FailedInv, Bind
  <2>3. CASE AcceptNone \/ RunReturn
    BY <2>1, <2>3, <1>1 DEF AcceptNone, RunReturn
  <2>4. CASE AcceptFailed
    BY <2>1, <2>4 DEF FailedInv, AcceptFailed, Accepting
  <2>5. ASSUME NEW p \in Ptrs, AcceptClient(p, TRUE) PROVE FailedInv'
    BY <2>1, <2>5 DEF FailedInv, AcceptClient, Accepting
  <2>6. ASSUME NEW p \in Ptrs, RunOpen(p) PROVE FailedInv'
    BY <2>1, <2>6, <1>1 DEF RunOpen
  <2>7. ASSUME NEW p \in Ptrs, RunClosed(p) PROVE FailedInv'
    BY <2>1, <2>7 DEF FailedInv, RunClosed, Erased
  <2> QED BY <1>3, <2>2, <2>3, <2>4, <2>5, <2>6, <2>7 DEF ServiceRun
<1>4. ASSUME NEW p \in Ptrs, NEW n \in Chunks, NEW mkt \in Markets \cup {Unknown}, OnMsg(p, n, mkt)
      PROVE  FailedInv'
  <2>1. /\ UNCHANGED <<failed, clients, sta, port>> /\ pc' = "clients" /\ p \in clients
        /\ batch'.ptr \in {"none", p}
    BY <1>4, OnMsgFacts DEF Accepted
  <2> QED BY <2>1, <1>1 DEF InCallback
<1>5. CASE Callback
  <2>1. CASE CallbackReturn
    <3>1. UNCHANGED <<failed, clients, sta, port>> /\ ~InCallback'
      BY <2>1 DEF CallbackReturn, InCallback, tcpVars
    <3> QED BY <3>1, <1>1
  <2>2. ASSUME NEW p \in Ptrs, Handling(p), UNCHANGED <<failed, clients, sta, port, pc>>
        PROVE  FailedInv'
    BY <2>2, <1>1, HandlingFacts
  <2> QED BY <1>5, <2>1, <2>2 DEF Callback, Enqueue, AnswerError, AnswerErrorFails, tcpVars
<1>6. ASSUME NEW m \in Markets, Worker(m) PROVE FailedInv'
  <2>1. UNCHANGED <<failed, clients, sta, port, pc, batch>>
    BY <1>6 DEF Worker, Take, Respond, tcpVars
  <2> QED BY <2>1, <1>1 DEF FailedInv, InCallback
<1>7. CASE Deliver
  <2>1. UNCHANGED <<failed, clients, sta, port, batch>> /\ ~InCallback
    BY <1>7, DeliverFacts DEF Deliver
  <2> QED BY <2>1, <1>1 DEF InCallback
<1>8. CASE DeliverNone
  <2>1. UNCHANGED <<failed, clients, sta, port, batch>> /\ pc = "owner"
    BY <1>8 DEF DeliverNone, OwnerReturn, queryVars
  <2> QED BY <2>1, <1>1 DEF FailedInv, InCallback
<1>9. CASE UNCHANGED vars
  <2>1. UNCHANGED <<failed, clients, sta, port, pc, batch>>
    BY <1>9 DEF vars, tcpVars, queryVars
  <2> QED BY <2>1, <1>1 DEF FailedInv, InCallback
<1> QED
  BY <1>2, <1>3, <1>4, <1>5, <1>6, <1>7, <1>8, <1>9 DEF Next, DeliverSent, DeliverFails

(* A request in flight keeps the connection it came with.                   *)
LEMMA InPlaceKept ==
  ASSUME Known, [Next]_vars, NEW r \in Requests, InPlace(r)
  PROVE  InPlace(r)'
<1>1. r.ptr \in Ptrs /\ r.conn # 0
  BY DEF Requests, Conns
<1> QED BY <1>1, AddressKept DEF InPlace, ConnOf

(* The pointers in the queues still lead to the connections asked on.       *)
LEMMA QueryStays == Known /\ QueryInv /\ [Next]_vars => QueryInv'
<1> SUFFICES ASSUME Known, QueryInv, [Next]_vars PROVE QueryInv'
  OBVIOUS
<1> DEFINE Good(q) == \A i \in 1 .. Len(q) : InPlace(q[i])
<1>0. /\ reqQ \in [Markets -> Seq(Requests)] /\ rspQ \in Seq(Requests)
      /\ worker \in [Markets -> Requests \cup {Idle}]
      /\ \A m \in Markets : Good(reqQ[m]) /\ (worker[m] # Idle => InPlace(worker[m]))
      /\ Good(rspQ) /\ AnswerReachesAsker
  BY DEF Known, QueryTypeOK, QueryInv
<1> DEFINE Goes(r) == failed' \/ heap'[r.ptr].conn = r.conn
<1>1. ASSUME NEW r \in Requests, InPlace(r) PROVE Goes(r)
  BY <1>1, InPlaceKept DEF InPlace, ConnOf
<1>2. /\ \A m \in Markets : \A i \in 1 .. Len(reqQ[m]) : reqQ[m][i] \in Requests /\ Goes(reqQ[m][i])
      /\ \A m \in Markets : worker[m] # Idle => worker[m] \in Requests /\ Goes(worker[m])
      /\ \A i \in 1 .. Len(rspQ) : rspQ[i] \in Requests /\ Goes(rspQ[i])
  <2>1. ASSUME NEW m \in Markets, NEW i \in 1 .. Len(reqQ[m])
        PROVE  reqQ[m][i] \in Requests /\ Goes(reqQ[m][i])
    <3>1. reqQ[m][i] \in Requests BY <1>0, QueueSteps
    <3>2. InPlace(reqQ[m][i]) BY <1>0
    <3> HIDE DEF Goes
    <3> QED BY <1>1, <3>1, <3>2
  <2>2. ASSUME NEW m \in Markets, worker[m] # Idle PROVE worker[m] \in Requests /\ Goes(worker[m])
    <3>1. worker[m] \in Requests /\ InPlace(worker[m]) BY <1>0, <2>2
    <3> HIDE DEF Goes
    <3> QED BY <1>1, <3>1
  <2>3. ASSUME NEW i \in 1 .. Len(rspQ) PROVE rspQ[i] \in Requests /\ Goes(rspQ[i])
    <3>1. rspQ[i] \in Requests BY <1>0, QueueSteps
    <3>2. InPlace(rspQ[i]) BY <1>0
    <3> HIDE DEF Goes
    <3> QED BY <1>1, <3>1, <3>2
  <2> QED BY <2>1, <2>2, <2>3
<1>3. ASSUME \A m \in Markets : \A i \in 1 .. Len(reqQ'[m]) : Goes(reqQ'[m][i]),
             \A m \in Markets : worker'[m] # Idle => Goes(worker'[m]),
             \A i \in 1 .. Len(rspQ') : Goes(rspQ'[i]),
             \A a \in answers' : a[1] = a[2]
      PROVE  QueryInv'
  BY <1>3 DEF QueryInv, InPlace, ConnOf, AnswerReachesAsker
<1>4. \A a \in answers : a[1] = a[2]
  BY <1>0 DEF AnswerReachesAsker
<1> HIDE DEF Goes, Good
<1>5. ASSUME UNCHANGED <<reqQ, rspQ, worker>>, \A a \in answers' : a[1] = a[2]
      PROVE  QueryInv'
  BY <1>2, <1>3, <1>5
<1>6. ASSUME UNCHANGED <<reqQ, rspQ, worker, answers>> PROVE QueryInv'
  BY <1>4, <1>5, <1>6
<1>7. CASE ServiceRun
  BY <1>6, <1>7, ServiceRunFacts
<1>8. ASSUME NEW p \in Ptrs, NEW n \in Chunks, NEW mkt \in Markets \cup {Unknown}, OnMsg(p, n, mkt)
      PROVE  QueryInv'
  BY <1>6, <1>8 DEF OnMsg
<1>9. CASE Callback
  <2>1. CASE CallbackReturn
    BY <1>6, <2>1 DEF CallbackReturn
  <2>2. ASSUME NEW p \in Ptrs, Enqueue(p) PROVE QueryInv'
    <3> DEFINE m == Head(batch.reqs)
               r == Request(p)
    <3>1. /\ Handling(p) /\ m \in Markets /\ UNCHANGED <<heap, answers, worker, rspQ>>
          /\ reqQ' = [reqQ EXCEPT ![m] = Append(@, r)]
      BY <2>2, HandlingFacts DEF Enqueue, tcpVars
    <3>2. p \in clients
      BY <3>1, HandlingFacts
    <3>3. r \in Requests /\ Goes(r)
      BY <3>1, <3>2, RequestType DEF Goes, ConnOf
    <3> HIDE DEF m, r
    <3>4. \A k \in Markets : reqQ'[k] = IF k = m THEN Append(reqQ[m], r) ELSE reqQ[k]
      BY <1>0, <3>1
    <3>5. /\ Len(Append(reqQ[m], r)) = Len(reqQ[m]) + 1 /\ Len(reqQ[m]) \in Nat
          /\ \A i \in 1 .. Len(reqQ[m]) + 1 :
               Append(reqQ[m], r)[i] = IF i <= Len(reqQ[m]) THEN reqQ[m][i] ELSE r
      BY <1>0, <3>1, <3>3, QueueSteps
    <3>6. \A i \in 1 .. Len(Append(reqQ[m], r)) : Goes(Append(reqQ[m], r)[i])
      BY <1>2, <3>1, <3>3, <3>5
    <3>7. \A k \in Markets : \A i \in 1 .. Len(reqQ'[k]) : Goes(reqQ'[k][i])
      BY <1>2, <3>4, <3>6
    <3> QED BY <1>2, <1>3, <1>4, <3>1, <3>7
  <2>3. ASSUME NEW p \in Ptrs, AnswerError(p) PROVE QueryInv'
    <3>1. UNCHANGED <<reqQ, rspQ, worker>> /\ answers' = answers \cup {<<ConnOf(p), ConnOf(p)>>}
      BY <2>3 DEF AnswerError, Handling
    <3> QED BY <1>4, <1>5, <3>1
  <2>4. ASSUME NEW p \in Ptrs, AnswerErrorFails(p) PROVE QueryInv'
    BY <1>6, <2>4 DEF AnswerErrorFails, Handling
  <2> QED BY <1>9, <2>1, <2>2, <2>3, <2>4 DEF Callback
<1>10. ASSUME NEW m \in Markets, Take(m) PROVE QueryInv'
  <2> DEFINE q == reqQ[m]
  <2>1. /\ q \in Seq(Requests) /\ q # << >> /\ UNCHANGED <<rspQ, answers>>
        /\ \A k \in Markets : reqQ'[k] = IF k = m THEN Tail(q) ELSE reqQ[k]
        /\ \A k \in Markets : worker'[k] = IF k = m THEN Head(q) ELSE worker[k]
    BY <1>0, <1>10 DEF Take
  <2>2. \A i \in 1 .. Len(q) : Goes(q[i])
    BY <1>2
  <2> HIDE DEF q
  <2>3. /\ Head(q) = q[1] /\ Len(q) >= 1 /\ Len(q) \in Nat /\ Len(Tail(q)) = Len(q) - 1
        /\ \A i \in 1 .. Len(q) - 1 : Tail(q)[i] = q[i + 1]
    BY <2>1, QueueSteps
  <2>4. Goes(Head(q))
    BY <2>2, <2>3
  <2>5. \A i \in 1 .. Len(Tail(q)) : Goes(Tail(q)[i])
    BY <2>2, <2>3
  <2>6. \A k \in Markets : \A i \in 1 .. Len(reqQ'[k]) : Goes(reqQ'[k][i])
    BY <1>2, <2>1, <2>5
  <2>7. \A k \in Markets : worker'[k] # Idle => Goes(worker'[k])
    BY <1>2, <2>1, <2>4
  <2> QED BY <1>2, <1>3, <1>4, <2>1, <2>6, <2>7
<1>11. ASSUME NEW m \in Markets, Respond(m) PROVE QueryInv'
  <2> DEFINE w == worker[m]
  <2>1. /\ w # Idle /\ UNCHANGED <<reqQ, answers>> /\ rspQ' = Append(rspQ, w)
        /\ \A k \in Markets : worker'[k] = IF k = m THEN Idle ELSE worker[k]
    BY <1>0, <1>11 DEF Respond
  <2>2. w \in Requests /\ Goes(w)
    BY <1>2, <2>1
  <2> HIDE DEF w
  <2>3. /\ Len(Append(rspQ, w)) = Len(rspQ) + 1 /\ Len(rspQ) \in Nat
        /\ \A i \in 1 .. Len(rspQ) + 1 :
             Append(rspQ, w)[i] = IF i <= Len(rspQ) THEN rspQ[i] ELSE w
    BY <1>0, <2>2, QueueSteps
  <2>4. \A i \in 1 .. Len(rspQ') : Goes(rspQ'[i])
    BY <1>2, <2>1, <2>2, <2>3
  <2> QED BY <1>2, <1>3, <1>4, <2>1, <2>4
<1>12. ASSUME Deliver, \A a \in answers' : a[1] = a[2] PROVE QueryInv'
  <2>1. rspQ # << >> /\ rspQ' = Tail(rspQ) /\ UNCHANGED <<reqQ, worker>>
    BY <1>12, DeliverFacts
  <2>2. /\ Len(Tail(rspQ)) = Len(rspQ) - 1 /\ Len(rspQ) \in Nat /\ Len(rspQ) >= 1
        /\ \A i \in 1 .. Len(rspQ) - 1 : Tail(rspQ)[i] = rspQ[i + 1]
    BY <1>0, <2>1, QueueSteps
  <2>3. \A i \in 1 .. Len(rspQ') : Goes(rspQ'[i])
    BY <1>2, <2>1, <2>2
  <2> QED BY <1>2, <1>3, <1>12, <2>1, <2>3
<1>13. CASE DeliverSent
  <2>1. Deliver /\ (Addressee \notin clients => answers' = answers)
        /\ (Addressee \in clients => answers' = answers \cup {<<Head(rspQ).conn, ConnOf(Addressee)>>})
    BY <1>13 DEF DeliverSent
  <2>2. CASE Addressee \in clients
    <3>1. rspQ # << >> /\ ~failed
      BY <2>1, <2>2, DeliverFacts DEF Known, FailedInv
    <3>2. InPlace(rspQ[1]) /\ Head(rspQ) = rspQ[1]
      BY <1>0, <3>1, QueueSteps DEF Good
    <3>3. Head(rspQ).conn = ConnOf(Addressee)
      BY <3>1, <3>2 DEF InPlace, Addressee
    <3> QED BY <1>4, <1>12, <2>1, <2>2, <3>3
  <2>3. CASE Addressee \notin clients
    BY <1>4, <1>12, <2>1, <2>3
  <2> QED BY <2>2, <2>3
<1>14. CASE DeliverFails
  BY <1>4, <1>12, <1>14 DEF DeliverFails
<1>15. CASE DeliverNone
  BY <1>6, <1>15 DEF DeliverNone, queryVars
<1>16. CASE UNCHANGED vars
  BY <1>6, <1>16 DEF vars, queryVars
<1>17. CASE UNCHANGED queryVars
  BY <1>6, <1>17 DEF queryVars
<1> QED
  BY <1>7, <1>8, <1>9, <1>10, <1>11, <1>13, <1>14, <1>15, <1>16, <1>17 DEF Next, Worker

(* The bytes of an accepted client, as ItemInv has them.                    *)
Account(p) ==
  IF batch.ptr = p
  THEN rcv[ConnOf(p)] = (handled[ConnOf(p)] + Len(batch.reqs)) * ReqLen + batch.rest
  ELSE rcv[ConnOf(p)] = handled[ConnOf(p)] * ReqLen + Item(p).rest

(* Steps that neither receive nor handle anything.                          *)
LEMMA ItemFrame ==
  ASSUME Known, ItemInv, [Next]_vars,
         UNCHANGED <<batch, rcv, handled, corrupt>>,
         \A p \in Ptrs : heap'[p].sta = "ACCEPTED" => items'[p] = items[p],
         \A p \in Ptrs : heap'[p].sta = "FREE" => heap[p].sta = "FREE" \/ items'[p] = None,
         \A p \in Ptrs : items'[p] \in {None, items[p]},
         InCallback => UNCHANGED <<heap, items>>
  PROVE  ItemInv'
<1>0. TcpInv' /\ TcpInv /\ MaxConns \in Nat
  BY QueryTcpInv, TcpServiceAssumption DEF Known
<1>1. \A p \in Ptrs : heap'[p].sta = "FREE" => items'[p] = None
  <2> TAKE p \in Ptrs
  <2>1. heap[p].sta = "FREE" => items[p] = None BY DEF ItemInv
  <2> QED BY <2>1
<1>2. \A c \in Conns : c > conns' => rcv'[c] = 0 /\ handled'[c] = 0
  <2>1. conns' \in {conns, conns + 1} /\ conns \in Nat
    BY <1>0, AddressKept DEF TcpInv, TcpTypeOK
  <2> QED BY <2>1 DEF ItemInv, Conns
<1>3. InCallback' => IF items'[batch'.ptr] = None THEN heap'[batch'.ptr].sta # "ACCEPTED"
                                                  ELSE items'[batch'.ptr].rest = 0
  BY DEF ItemInv, InCallback
<1>4. ASSUME ~corrupt', NEW p \in Ptrs, heap'[p].sta = "ACCEPTED" PROVE Account(p)'
  <2>1. items'[p] = items[p] /\ Item(p)' = Item(p)
    BY <1>4 DEF Item
  <2>2. CASE heap[p].sta = "ACCEPTED"
    <3>1. Account(p) BY <1>4, <2>2 DEF ItemInv, Account
    <3>2. ConnOf(p)' = ConnOf(p) BY <1>4, <2>2, AddressKept
    <3> QED BY <2>1, <3>1, <3>2 DEF Account
  <2>3. CASE heap[p].sta # "ACCEPTED"
    <3>1. heap[p].sta = "FREE" /\ ConnOf(p)' = conns + 1 /\ conns' = conns + 1
      BY <1>4, <2>3, AddressKept
    <3>2. items[p] = None /\ Item(p)'.rest = 0
      BY <2>1, <3>1 DEF ItemInv, Item, NewItem
    <3>3. ~InCallback
      BY <1>4, <2>3
    <3>4. batch'.ptr # p
      BY <3>3, BatchShape
    <3>5. conns + 1 \in Conns /\ conns + 1 > conns
      <4>1. conns \in Nat
        BY <1>0 DEF TcpInv, TcpTypeOK
      <4>2. conns' \in Nat /\ backlog' \in Nat /\ conns' + backlog' <= MaxConns
        BY <1>0 DEF TcpInv, TcpTypeOK
      <4>3. MaxConns \in Nat /\ conns' = conns + 1
        BY <1>0, <3>1
      <4>4. conns' <= MaxConns
        BY <4>2, <4>3
      <4>5. conns + 1 <= MaxConns
        BY <4>3, <4>4
      <4>6. conns + 1 \in Nat /\ 1 <= conns + 1
        BY <4>1
      <4> QED BY <4>1, <4>3, <4>5, <4>6 DEF Conns
    <3>6. rcv[conns + 1] = 0 /\ handled[conns + 1] = 0
      BY <3>5 DEF ItemInv
    <3>7. 0 = 0 * ReqLen + 0
      BY OdrQueryAssumption
    <3> QED BY <3>1, <3>2, <3>4, <3>6, <3>7 DEF Account
  <2> QED BY <2>2, <2>3
<1> QED BY <1>1, <1>2, <1>3, <1>4 DEF ItemInv, Account

(* Bytes that arrive: some are handled as whole requests, the rest is kept. *)
LEMMA ItemOnMsg ==
  ASSUME Known, ItemInv, NEW p \in Ptrs, NEW n \in Chunks, NEW mkt \in Markets \cup {Unknown},
         OnMsg(p, n, mkt)
  PROVE  ItemInv'
<1> DEFINE c == ConnOf(p)
<1>0. /\ TcpInv /\ rcv \in [Conns -> Nat] /\ handled \in [Conns -> Nat]
      /\ ReqLen \in Nat \ {0} /\ conns \in Nat
  BY OdrQueryAssumption DEF Known, QueryTypeOK, TcpInv, TcpTypeOK
<1>1. /\ ~InCallback /\ p \in clients /\ heap[p].sta = "ACCEPTED" /\ batch = NoBatch
      /\ n \in Nat \ {0} /\ rcv' = [rcv EXCEPT ![c] = @ + n]
      /\ UNCHANGED <<handled, corrupt, heap, conns>>
      /\ \A q \in Ptrs : q # p => items'[q] = items[q]
      /\ items'[p] # None
  BY OnMsgFacts DEF Accepted
<1>2. /\ c \in Conns /\ c \in 1 .. conns /\ \A q \in Ptrs : ConnOf(q) = c => q = p
  BY <1>0, <1>1, ClientConn
<1>3. \A q \in Ptrs : ConnOf(q)' = ConnOf(q)
  BY <1>1 DEF ConnOf
<1>4. \A q \in Ptrs : heap'[q].sta = "FREE" => items'[q] = None
  BY <1>1 DEF ItemInv
<1>5. \A d \in Conns : d > conns' => rcv'[d] = 0 /\ handled'[d] = 0
  BY <1>0, <1>1, <1>2 DEF ItemInv
<1>6. \/ batch' = NoBatch /\ items'[p].rest = Item(p).rest + n
      \/ /\ batch' \in [ptr : Ptrs, reqs : Seq(Markets \cup {Unknown}), rest : 0 .. ReqLen - 1]
         /\ batch'.ptr = p /\ items'[p].rest = 0
         /\ Item(p).rest + n = Len(batch'.reqs) * ReqLen + batch'.rest
  BY OnMsgFacts
<1>7. NoBatch.ptr = "none" /\ NoBatch.ptr # p
  BY OdrQueryAssumption DEF NoBatch
<1>8. InCallback' => IF items'[batch'.ptr] = None THEN heap'[batch'.ptr].sta # "ACCEPTED"
                                                  ELSE items'[batch'.ptr].rest = 0
  BY <1>1, <1>6, <1>7 DEF InCallback
<1>9. ASSUME ~corrupt', NEW q \in Ptrs, heap'[q].sta = "ACCEPTED" PROVE Account(q)'
  <2>0. batch.ptr # q
    BY <1>1, BatchShape
  <2>1. rcv[ConnOf(q)] = handled[ConnOf(q)] * ReqLen + Item(q).rest
    BY <1>1, <1>9, <2>0 DEF ItemInv
  <2>2. CASE q # p
    <3>1. ConnOf(q) # c
      BY <1>2, <2>2
    <3>2. rcv'[ConnOf(q)] = rcv[ConnOf(q)] /\ Item(q)' = Item(q) /\ batch'.ptr # q
      BY <1>0, <1>1, <1>2, <1>6, <1>7, <2>0, <2>2, <3>1 DEF Item
    <3> QED BY <1>1, <1>3, <2>1, <3>2 DEF Account
  <2>3. CASE q = p
    <3> DEFINE h == handled[c]
               r == Item(p).rest
    <3>1. rcv'[c] = rcv[c] + n /\ rcv[c] \in Nat /\ h \in Nat /\ r \in Nat
          /\ Item(p)' = items'[p] /\ rcv[c] = h * ReqLen + r
      <4>1. r \in Nat BY ItemType DEF Buffers
      <4> QED BY <1>0, <1>1, <1>2, <2>1, <2>3, <4>1 DEF Item
    <3> HIDE DEF h, r
    <3>2. CASE batch' = NoBatch /\ items'[p].rest = r + n
      <4>1. h * ReqLen \in Nat BY <1>0, <3>1
      <4>2. rcv'[c] = h * ReqLen + (r + n)
        BY <1>1, <3>1, <4>1
      <4> QED BY <1>1, <1>3, <1>7, <2>3, <3>1, <3>2, <4>2 DEF Account, h, r
    <3>3. CASE /\ batch' \in [ptr : Ptrs, reqs : Seq(Markets \cup {Unknown}), rest : 0 .. ReqLen - 1]
               /\ batch'.ptr = p
               /\ r + n = Len(batch'.reqs) * ReqLen + batch'.rest
      <4> DEFINE k == Len(batch'.reqs)
                 z == batch'.rest
      <4>1. k \in Nat /\ z \in Nat /\ r + n = k * ReqLen + z
        BY <1>0, <3>3, LenProperties
      <4> HIDE DEF k, z
      <4>2. rcv'[c] = (h * ReqLen + k * ReqLen) + z
        <5>1. h * ReqLen \in Nat /\ k * ReqLen \in Nat BY <1>0, <3>1, <4>1
        <5> QED BY <1>1, <3>1, <4>1, <5>1
      <4>3. h * ReqLen + k * ReqLen = (h + k) * ReqLen
        BY <1>0, <3>1, <4>1
      <4> QED BY <1>1, <1>3, <2>3, <3>3, <4>2, <4>3 DEF Account, h, k, z
    <3> QED BY <1>6, <3>2, <3>3 DEF r
  <2> QED BY <2>2, <2>3
<1> QED BY <1>4, <1>5, <1>8, <1>9 DEF ItemInv, Account

(* A request leaves the batch as it is handled.                             *)
LEMMA ItemHandling ==
  ASSUME Known, ItemInv, NEW p \in Ptrs, Handling(p), conns' = conns,
         \/ UNCHANGED <<heap, items>>
         \/ SendFails({p}) /\ items' = [items EXCEPT ![p] = None]
  PROVE  ItemInv'
<1> DEFINE c == ConnOf(p)
<1>0. /\ TcpInv /\ rcv \in [Conns -> Nat] /\ handled \in [Conns -> Nat]
      /\ ReqLen \in Nat \ {0} /\ conns \in Nat
      /\ items \in [Ptrs -> {None} \cup Buffers]
      /\ heap \in [Ptrs -> [conn : Nat, sta : {"FREE", "NONE", "ACCEPTED"}]]
  BY OdrQueryAssumption DEF Known, QueryTypeOK, TcpInv, TcpTypeOK, Buffers
<1>1. /\ InCallback /\ p = batch.ptr /\ p \in clients
      /\ batch'.ptr = p /\ batch'.rest = batch.rest
      /\ Len(batch.reqs) \in Nat \ {0} /\ Len(batch'.reqs) = Len(batch.reqs) - 1
      /\ handled' = [handled EXCEPT ![c] = @ + 1]
      /\ ~corrupt /\ rcv' = rcv
  BY HandlingFacts
<1>2. /\ c \in Conns /\ c \in 1 .. conns /\ \A q \in Ptrs : ConnOf(q) = c => q = p
  BY <1>0, <1>1, ClientConn
<1>3. \A q \in Ptrs :
        \/ heap'[q] = heap[q] /\ items'[q] = items[q]
        \/ q = p /\ heap'[q] = [heap[q] EXCEPT !.sta = "NONE"] /\ items'[q] = None
  <2>1. CASE UNCHANGED <<heap, items>>
    BY <2>1
  <2>2. CASE SendFails({p}) /\ items' = [items EXCEPT ![p] = None]
    BY <1>0, <2>2 DEF SendFails
  <2> QED BY <2>1, <2>2
<1>4. \A q \in Ptrs : /\ ConnOf(q)' = ConnOf(q)
                      /\ \/ heap'[q].sta = heap[q].sta /\ items'[q] = items[q]
                         \/ q = p /\ heap'[q].sta = "NONE" /\ items'[q] = None
  BY <1>0, <1>3 DEF ConnOf
<1>5. \A q \in Ptrs : heap'[q].sta = "FREE" => items'[q] = None
  BY <1>4 DEF ItemInv
<1>6. \A d \in Conns : d > conns' => rcv'[d] = 0 /\ handled'[d] = 0
  BY <1>0, <1>1, <1>2 DEF ItemInv
<1>7. IF items'[p] = None THEN heap'[p].sta # "ACCEPTED" ELSE items'[p].rest = 0
  <2>1. IF items[p] = None THEN heap[p].sta # "ACCEPTED" ELSE items[p].rest = 0
    BY <1>1 DEF ItemInv
  <2> QED BY <1>4, <2>1
<1>8. ASSUME NEW q \in Ptrs, heap'[q].sta = "ACCEPTED" PROVE Account(q)'
  <2>1. heap[q].sta = "ACCEPTED" /\ items'[q] = items[q] /\ Item(q)' = Item(q) /\ ConnOf(q)' = ConnOf(q)
    BY <1>4, <1>8 DEF Item
  <2>2. Account(q)
    BY <1>1, <2>1 DEF ItemInv, Account
  <2>3. CASE q # p
    <3>1. ConnOf(q) # c BY <1>2, <2>3
    <3>2. handled'[ConnOf(q)] = handled[ConnOf(q)]
      BY <1>0, <1>1, <3>1
    <3> QED BY <1>1, <2>1, <2>2, <2>3, <3>2 DEF Account
  <2>4. CASE q = p
    <3>1. handled'[c] + Len(batch'.reqs) = handled[c] + Len(batch.reqs)
      BY <1>0, <1>1, <1>2
    <3>2. ConnOf(p)' = c
      BY <2>1, <2>4
    <3> HIDE DEF c
    <3>3. rcv[c] = (handled[c] + Len(batch.reqs)) * ReqLen + batch.rest
      BY <1>1, <2>2, <2>4 DEF Account, c
    <3> QED BY <1>1, <2>4, <3>1, <3>2, <3>3 DEF Account
  <2> QED BY <2>3, <2>4
<1> QED BY <1>1, <1>5, <1>6, <1>7, <1>8 DEF ItemInv, Account

(* The callback returns: what is left of the chunk goes to the buffer.      *)
LEMMA ItemReturn ==
  ASSUME Known, ItemInv, CallbackReturn
  PROVE  ItemInv'
<1>p. PICK p \in Ptrs : p = batch.ptr
  BY BatchShape DEF CallbackReturn
<1>0. /\ rcv \in [Conns -> Nat] /\ handled \in [Conns -> Nat]
      /\ ReqLen \in Nat \ {0} /\ items \in [Ptrs -> {None} \cup Buffers]
  BY OdrQueryAssumption DEF Known, QueryTypeOK, Buffers
<1>1. /\ InCallback /\ ~corrupt /\ batch.reqs = << >> /\ batch' = NoBatch
      /\ UNCHANGED <<heap, conns, rcv, handled>>
      /\ items[p] = None => items' = items
      /\ items[p] # None => items' = [items EXCEPT ![p].rest = batch.rest] /\ corrupt' = corrupt
  BY <1>p DEF CallbackReturn, tcpVars
<1>2. p \in Ptrs /\ p = batch.ptr /\ batch.rest \in 0 .. ReqLen - 1 /\ NoBatch.ptr = "none" /\ "none" \notin Ptrs
  BY <1>p, <1>1, BatchShape, OdrQueryAssumption DEF NoBatch
<1>3. \A q \in Ptrs : /\ ConnOf(q)' = ConnOf(q)
                      /\ q # p => items'[q] = items[q] /\ Item(q)' = Item(q)
  BY <1>0, <1>1 DEF ConnOf, Item
<1>4. /\ items[p] = None => items'[p] = None /\ heap[p].sta # "ACCEPTED"
      /\ items[p] # None => items'[p] # None /\ items'[p].rest = batch.rest /\ heap[p].sta # "FREE"
  <2>1. CASE items[p] = None
    BY <1>1, <1>2, <2>1 DEF ItemInv
  <2>2. CASE items[p] # None
    <3>1. items[p] \in Buffers
      BY <1>0, <1>2, <2>2
    <3>2. [items[p] EXCEPT !.rest = batch.rest] \in Buffers
      BY <1>2, <3>1 DEF Buffers
    <3>3. items'[p] = [items[p] EXCEPT !.rest = batch.rest]
      BY <1>0, <1>1, <1>2, <2>2
    <3>4. items'[p] # None /\ items'[p].rest = batch.rest
      BY <1>2, <3>1, <3>2, <3>3, ItemType DEF Buffers
    <3> QED BY <1>2, <2>2, <3>4 DEF ItemInv
  <2> QED BY <2>1, <2>2
<1>5. \A q \in Ptrs : heap'[q].sta = "FREE" => items'[q] = None
  <2> TAKE q \in Ptrs
  <2>1. CASE q = p BY <1>1, <1>4, <2>1
  <2>2. CASE q # p BY <1>1, <1>3, <2>2 DEF ItemInv
  <2> QED BY <2>1, <2>2
<1>6. ASSUME NEW q \in Ptrs, heap'[q].sta = "ACCEPTED" PROVE Account(q)'
  <2>1. Account(q)
    BY <1>1, <1>6 DEF ItemInv, Account
  <2>2. batch'.ptr # q
    BY <1>1, <1>2
  <2>3. CASE q # p
    BY <1>1, <1>2, <1>3, <2>1, <2>2, <2>3 DEF Account
  <2>4. CASE q = p
    <3>1. items[p] # None /\ Item(p)'.rest = batch.rest
      BY <1>1, <1>4, <1>6, <2>4 DEF Item
    <3>2. Len(batch.reqs) = 0
      BY <1>1, EmptySeq
    <3>3. ConnOf(p) \in Conns /\ handled[ConnOf(p)] \in Nat
      BY <1>0, <1>1, <1>2, BatchShape, ClientConn DEF Known
    <3>4. rcv[ConnOf(p)] = handled[ConnOf(p)] * ReqLen + batch.rest
      BY <1>2, <2>1, <2>4, <3>2, <3>3 DEF Account
    <3> QED BY <1>1, <1>3, <2>2, <2>4, <3>1, <3>4 DEF Account
  <2> QED BY <2>3, <2>4
<1>7. ~InCallback'
  BY <1>1, <1>2 DEF InCallback
<1> QED BY <1>1, <1>5, <1>6, <1>7 DEF ItemInv, Account

(* Every step keeps the account of the bytes.                               *)
LEMMA ItemStays == Known /\ ItemInv /\ [Next]_vars => ItemInv'
<1> SUFFICES ASSUME Known, ItemInv, [Next]_vars PROVE ItemInv'
  OBVIOUS
<1>0. /\ heap \in [Ptrs -> [conn : Nat, sta : {"FREE", "NONE", "ACCEPTED"}]]
      /\ items \in [Ptrs -> {None} \cup Buffers]
  BY DEF Known, TcpInv, TcpTypeOK, QueryTypeOK, Buffers
<1>1. ASSUME UNCHANGED <<batch, rcv, handled, corrupt, heap, items>> PROVE ItemInv'
  BY <1>1, ItemFrame
<1>2. CASE Environment /\ UNCHANGED queryVars
  BY <1>1, <1>2 DEF Environment, Arrive, Leave, queryVars
<1>3. CASE ServiceRun
  BY <1>3, ServiceRunFacts, ItemFrame
<1>4. ASSUME NEW p \in Ptrs, NEW n \in Chunks, NEW mkt \in Markets \cup {Unknown}, OnMsg(p, n, mkt)
      PROVE  ItemInv'
  BY <1>4, ItemOnMsg
<1>5. CASE Callback
  <2>1. ASSUME NEW p \in Ptrs, Enqueue(p) \/ AnswerError(p) PROVE ItemInv'
    <3>1. Handling(p) /\ conns' = conns /\ UNCHANGED <<heap, items>>
      BY <2>1 DEF Enqueue, AnswerError, tcpVars
    <3> QED BY <3>1, ItemHandling
  <2>2. ASSUME NEW p \in Ptrs, AnswerErrorFails(p) PROVE ItemInv'
    <3>1. Handling(p) /\ conns' = conns /\ SendFails({p}) /\ items' = [items EXCEPT ![p] = None]
      BY <2>2 DEF AnswerErrorFails
    <3> QED BY <3>1, ItemHandling
  <2> QED BY <1>5, <2>1, <2>2, ItemReturn DEF Callback
<1>6. ASSUME NEW m \in Markets, Worker(m) PROVE ItemInv'
  BY <1>1, <1>6 DEF Worker, Take, Respond, tcpVars
<1>7. CASE DeliverSent
  <2>1. UNCHANGED <<batch, rcv, handled, corrupt, heap, items>>
    BY <1>7, DeliverFacts DEF DeliverSent
  <2> QED BY <1>1, <2>1
<1>8. CASE DeliverFails
  <2> DEFINE p == Addressee
  <2>1. /\ UNCHANGED <<batch, rcv, handled, corrupt>> /\ ~InCallback /\ p \in Ptrs
        /\ SendFails({p}) /\ items' = [items EXCEPT ![p] = None]
    BY <1>8, DeliverFacts DEF DeliverFails
  <2> HIDE DEF p
  <2>2. \A q \in Ptrs :
        \/ heap'[q] = heap[q] /\ items'[q] = items[q]
        \/ q = p /\ heap'[q] = [heap[q] EXCEPT !.sta = "NONE"] /\ items'[q] = None
    BY <1>0, <2>1 DEF SendFails
  <2>3. \A q \in Ptrs :
        \/ heap'[q] = heap[q] /\ items'[q] = items[q]
        \/ heap'[q].sta = "NONE" /\ items'[q] = None
    BY <1>0, <2>2
  <2> QED BY <2>1, <2>3, ItemFrame
<1>9. CASE DeliverNone
  BY <1>1, <1>9 DEF DeliverNone, OwnerReturn, queryVars
<1>10. CASE UNCHANGED vars
  BY <1>1, <1>10 DEF vars, tcpVars, queryVars
<1> QED BY <1>2, <1>3, <1>4, <1>5, <1>6, <1>7, <1>8, <1>9, <1>10 DEF Next

-----------------------------------------------------------------------------
(* The theorems about the order query service.                              *)

(* At the start there are no clients, no requests and no bytes.             *)
LEMMA ServiceInit == Init => ServiceInv
<1> SUFFICES ASSUME Init PROVE ServiceInv
  OBVIOUS
<1>1. TcpInv /\ TcpInit
  BY TcpInitInv DEF Init
<1>2. /\ \A p \in Ptrs : heap[p] = Free /\ heap[p].sta # "ACCEPTED" /\ items[p] = None
      /\ failed = FALSE /\ sta = "UNBIND" /\ conns = 0
  BY DEF Init, TcpInit, Free
<1>3. ~InCallback /\ corrupt = FALSE /\ answers = {} /\ rspQ = << >>
      /\ \A m \in Markets : reqQ[m] = << >> /\ worker[m] = Idle
  BY DEF Init, InCallback, NoBatch
<1>4. QueryTypeOK
  <2>1. << >> \in Seq(Requests) BY EmptySeq
  <2> QED BY <2>1, <1>3 DEF Init, QueryTypeOK
<1>5. FailedInv
  BY <1>2, <1>3 DEF FailedInv
<1>6. QueryInv
  <2>1. ASSUME NEW q, q = << >> PROVE Len(q) = 0 BY <2>1, EmptySeq
  <2> QED BY <1>3, <2>1 DEF QueryInv, AnswerReachesAsker
<1>7. ItemInv
  BY <1>2, <1>3 DEF ItemInv, Init
<1> QED BY <1>1, <1>4, <1>5, <1>6, <1>7 DEF ServiceInv

(* ServiceInv is inductive, and so holds for any number of addresses,       *)
(* connections and markets, any struct size and any queue sizes.            *)
THEOREM ServiceInductive == Spec => []ServiceInv
<1>1. ServiceInv /\ [Next]_vars => ServiceInv'
  BY QueryTcpInv, QueryTypes, FailedStays, QueryStays, ItemStays DEF ServiceInv, Known
<1>2. Init => ServiceInv BY ServiceInit
<1> QED BY <1>1, <1>2, PTL DEF Spec

(* What is known of the bytes of a client, as a quotient and a remainder.   *)
LEMMA QuotientUnique ==
  ASSUME NEW L \in Nat \ {0}, NEW q \in Nat, NEW r \in 0 .. L - 1
  PROVE  (q * L + r) \div L = q /\ (q * L + r) % L = r
<1> DEFINE x == q * L + r
           d == x \div L
           e == x % L
<1>1. x \in Nat
  <2>1. q * L \in Nat OBVIOUS
  <2> QED BY <2>1
<1>2. d \in Nat /\ e \in 0 .. L - 1 /\ x = d * L + e
  BY <1>1, NatDivision
<1>3. x = q * L + r
  OBVIOUS
<1> HIDE DEF d, e, x
<1>4. ASSUME NEW a \in Nat, NEW b \in Nat, a < b PROVE a * L + L <= b * L
  <2>1. (b - a - 1) \in Nat BY <1>4
  <2>2. (b - a - 1) * L \in Nat BY <2>1
  <2>3. (b - a - 1) * L = b * L - a * L - L BY <2>1
  <2>4. a * L \in Nat /\ b * L \in Nat OBVIOUS
  <2> QED BY <2>2, <2>3, <2>4
<1>5. d * L \in Nat /\ q * L \in Nat
  BY <1>2
<1>6. ~(d < q)
  <2> SUFFICES ASSUME d < q PROVE FALSE OBVIOUS
  <2>1. d * L + L <= q * L BY <1>2, <1>4
  <2> QED BY <1>2, <1>3, <1>5, <2>1
<1>7. ~(q < d)
  <2> SUFFICES ASSUME q < d PROVE FALSE OBVIOUS
  <2>1. q * L + L <= d * L BY <1>2, <1>4
  <2> QED BY <1>2, <1>3, <1>5, <2>1
<1>8. d = q /\ e = r
  BY <1>2, <1>3, <1>5, <1>6, <1>7
<1> QED BY <1>8 DEF d, e, x

(* The account of the bytes, as the property has it.                        *)
LEMMA ItemMeans == ServiceInv => OneRequestPerStruct
<1> SUFFICES ASSUME ServiceInv,
                    NEW p \in Accepted, ~corrupt, batch.ptr = p => items[p] # None
             PROVE  LET c == ConnOf(p) IN
                    /\ handled[c] + (IF batch.ptr = p THEN Len(batch.reqs) ELSE 0) = rcv[c] \div ReqLen
                    /\ Item(p).rest + (IF batch.ptr = p THEN batch.rest ELSE 0) = rcv[c] % ReqLen
  BY DEF OneRequestPerStruct
<1> DEFINE c == ConnOf(p)
<1>0. Known /\ TcpInv /\ p \in clients /\ heap[p].sta = "ACCEPTED" /\ ReqLen \in Nat \ {0}
  BY OdrQueryAssumption DEF ServiceInv, Known, Accepted
<1>1. c \in Conns /\ p \in Ptrs /\ handled[c] \in Nat
  BY <1>0, ClientConn DEF Known, QueryTypeOK
<1>2. Item(p).rest \in 0 .. ReqLen - 1 /\ (items[p] # None => Item(p) = items[p])
  BY <1>1, <1>0, ItemType DEF Buffers
<1>3. CASE batch.ptr = p
  <2>1. /\ InCallback /\ Len(batch.reqs) \in Nat /\ batch.rest \in 0 .. ReqLen - 1
    BY <1>0, <1>1, <1>3, BatchShape, LenProperties
  <2>2. Item(p).rest = 0
    BY <1>2, <1>3, <2>1 DEF ServiceInv, ItemInv
  <2> DEFINE k == handled[c] + Len(batch.reqs)
  <2>3. rcv[c] = k * ReqLen + batch.rest
    BY <1>0, <1>1, <1>3 DEF ServiceInv, ItemInv
  <2>4. k \in Nat
    BY <1>1, <2>1
  <2> HIDE DEF k
  <2>5. rcv[c] \div ReqLen = k /\ rcv[c] % ReqLen = batch.rest
    BY <1>0, <2>1, <2>3, <2>4, QuotientUnique
  <2> QED BY <1>3, <2>1, <2>2, <2>5 DEF k
<1>4. CASE batch.ptr # p
  <2>1. rcv[c] = handled[c] * ReqLen + Item(p).rest
    BY <1>0, <1>1, <1>4 DEF ServiceInv, ItemInv
  <2>2. rcv[c] \div ReqLen = handled[c] /\ rcv[c] % ReqLen = Item(p).rest
    BY <1>0, <1>1, <1>2, <2>1, QuotientUnique
  <2> QED BY <1>1, <1>2, <1>4, <2>2
<1> QED BY <1>3, <1>4

(* An answer goes out on the connection that asked, or nowhere, however     *)
(* connections fail while requests and responses wait in the queues         *)
(* (odr_query_server.cpp, run, and tcp_service.cpp, _run_clients).          *)
THEOREM AnswerReachesAskerHolds == Spec => []AnswerReachesAsker
<1>1. ServiceInv => AnswerReachesAsker BY DEF ServiceInv, QueryInv
<1> QED BY <1>1, ServiceInductive, PTL

(* One request is handled for each complete struct, for any struct size and *)
(* any chunks, as long as no failed error answer erases the request_buffer  *)
(* under the callback (odr_query_server.cpp, the message callback).         *)
THEOREM OneRequestPerStructHolds == Spec => []OneRequestPerStruct
<1>1. ServiceInv => OneRequestPerStruct BY ItemMeans
<1> QED BY <1>1, ServiceInductive, PTL

(* The order query service is one of the owners for which _clients and the  *)
(* reports of tcp_service stay in order.                                    *)
THEOREM QueryClientsAccounted == Spec => []ClientsAccounted
<1>1. ServiceInv => ClientsAccounted BY TcpInvMeans DEF ServiceInv
<1> QED BY <1>1, ServiceInductive, PTL
=============================================================================
