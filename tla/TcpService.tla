------------------------------ MODULE TcpService ------------------------------
(***************************************************************************)
(* net::tcp_service: the accepting side of the TCP transport.  One thread  *)
(* calls run() forever: it binds, or accepts one connection and then runs  *)
(* every client once; between two calls the owner of the service does its  *)
(* own work, which may send.  A client object is known by its address, so  *)
(* the heap is modelled: what an address holds, and whether it may be      *)
(* handed out again.                                                       *)
(*                                                                         *)
(* Connections are numbered in the order they are accepted.  A connection  *)
(* is gone when its socket has nothing more to read and fails: recv then   *)
(* returns 0 or an error, and a send may fail.  The bytes that are sent    *)
(* and their buffer are those of TcpClient.                                *)
(***************************************************************************)
EXTENDS Integers, FiniteSets

CONSTANTS
  Ptrs,       \* Addresses a tcp_client may be allocated at.
  MaxConns    \* Bound: connections that arrive.

ASSUME TcpServiceAssumption == IsFiniteSet(Ptrs) /\ MaxConns \in Nat

Conns == 1 .. MaxConns

Free == [conn |-> 0, sta |-> "FREE"]

VARIABLES
  sta,        \* _sta.
  port,       \* Whether a listening socket of the process has the port.
  clients,    \* _clients.
  heap,       \* heap[p]: the tcp_client at p, its connection and _sta.
  pc,         \* The service thread: "run", "clients" or "owner".
  todo,       \* Clients that _run_clients still has to run.
  backlog,    \* Connections that wait for accept.
  conns,      \* Connections accepted so far.
  gone,       \* Connections that failed or were closed by the peer.
  reports,    \* History: calls of _on_disconnected for each connection.
  unsent,     \* History: connections closed inside a send.
  swept,      \* History: connections that close() or close(cli) deleted.
  failed      \* History: accept has failed.

tcpVars == <<sta, port, clients, heap, pc, todo, backlog, conns, gone, reports,
             unsent, swept, failed>>

-----------------------------------------------------------------------------

ConnOf(p) == heap[p].conn

Accepted == {p \in clients : heap[p].sta = "ACCEPTED"}

TcpInit ==
  /\ sta = "UNBIND" /\ port = "free" /\ clients = {} /\ pc = "run" /\ todo = {}
  /\ heap = [p \in Ptrs |-> Free]
  /\ backlog = 0 /\ conns = 0 /\ gone = {}
  /\ reports = [c \in Conns |-> 0] /\ unsent = {} /\ swept = {}
  /\ failed = FALSE

(* The environment: a connection request arrives; a peer leaves.            *)
Arrive ==
  /\ conns + backlog < MaxConns
  /\ backlog' = backlog + 1
  /\ UNCHANGED <<sta, port, clients, heap, pc, todo, conns, gone, reports, unsent,
                 swept, failed>>

Leave(c) ==
  /\ c \in 1 .. conns /\ c \notin gone
  /\ gone' = gone \cup {c}
  /\ UNCHANGED <<sta, port, clients, heap, pc, todo, backlog, conns, reports,
                 unsent, swept, failed>>

(* _bind.  A second socket cannot bind a port that is held; the other       *)
(* failures leave everything as it is.  Mutant: BINDED is not stored.       *)
Bind_NoStatus ==
  /\ pc = "run" /\ sta = "UNBIND"
  /\ pc' = "owner" /\ port' = "held"
  /\ UNCHANGED <<sta, clients, heap, todo, backlog, conns, gone, reports, unsent,
                 swept, failed>>

Bind ==
  /\ pc = "run" /\ sta = "UNBIND"
  /\ pc' = "owner"
  /\ IF port = "free" THEN port' = "held" /\ sta' = "BINDED"
                      ELSE UNCHANGED <<port, sta>>
  /\ UNCHANGED <<clients, heap, todo, backlog, conns, gone, reports, unsent, swept, failed>>

Accepting == pc = "run" /\ sta = "BINDED"

AcceptNone ==
  /\ Accepting /\ backlog = 0
  /\ pc' = "clients" /\ todo' = clients
  /\ UNCHANGED <<sta, port, clients, heap, backlog, conns, gone, reports, unsent,
                 swept, failed>>

(* accept: the owner's _on_connected may send to the new client before the  *)
(* service has set its callbacks; a failure there closes it unreported.     *)
AcceptClient(p, greeted) ==
  /\ Accepting /\ backlog > 0 /\ heap[p] = Free
  /\ backlog' = backlog - 1
  /\ conns' = conns + 1
  /\ heap' = [heap EXCEPT ![p] =
                [conn |-> conns + 1, sta |-> IF greeted THEN "ACCEPTED" ELSE "NONE"]]
  /\ gone' = IF greeted THEN gone ELSE gone \cup {conns + 1}
  /\ clients' = clients \cup {p}
  /\ pc' = "clients" /\ todo' = clients'
  /\ UNCHANGED <<sta, port, reports, unsent, swept, failed>>

Reported(ps) ==
  [c \in Conns |-> IF \E p \in ps : ConnOf(p) = c THEN reports[c] + 1 ELSE reports[c]]

(* accept fails: close() reports and deletes all clients and gives up       *)
(* BINDED, but the listening socket stays open.  The destructor's own       *)
(* callback finds the client no longer in _clients and reports nothing.     *)
AcceptFailed ==
  /\ Accepting
  /\ sta' = "UNBIND" /\ clients' = {} /\ failed' = TRUE
  /\ swept' = swept \cup {ConnOf(p) : p \in clients}
  /\ heap' = [p \in Ptrs |-> IF p \in clients THEN Free ELSE heap[p]]
  /\ reports' = Reported(clients)
  /\ pc' = "owner"
  /\ UNCHANGED <<port, todo, backlog, conns, gone, unsent>>

(* _run_clients erases a client whose run() returned false; the object is   *)
(* never deleted.  Mutants: it is deleted; the erase reports once more.     *)
Erased_Deleted(p) ==
  /\ clients' = clients \ {p}
  /\ heap' = [heap EXCEPT ![p] = Free]
  /\ reports' = IF heap[p].sta = "ACCEPTED" THEN Reported({p}) ELSE reports

Erased_Reported(p) ==
  /\ clients' = clients \ {p}
  /\ heap' = [heap EXCEPT ![p].sta = "NONE"]
  /\ reports' = Reported({p})

Erased(p) ==
  /\ clients' = clients \ {p}
  /\ heap' = [heap EXCEPT ![p].sta = "NONE"]
  /\ reports' = IF heap[p].sta = "ACCEPTED" THEN Reported({p}) ELSE reports

RunClosed(p) ==
  /\ pc = "clients" /\ p \in todo
  /\ p \in Accepted => ConnOf(p) \in gone
  /\ Erased(p)
  /\ todo' = todo \ {p}
  /\ UNCHANGED <<sta, port, pc, backlog, conns, gone, unsent, swept, failed>>

RunOpen(p) ==
  /\ pc = "clients" /\ p \in todo \cap Accepted /\ ConnOf(p) \notin gone
  /\ todo' = todo \ {p}
  /\ UNCHANGED <<sta, port, clients, heap, pc, backlog, conns, gone, reports, unsent,
                 swept, failed>>

RunReturn ==
  /\ pc = "clients" /\ todo = {}
  /\ pc' = "owner"
  /\ UNCHANGED <<sta, port, clients, heap, todo, backlog, conns, gone, reports,
                 unsent, swept, failed>>

(* The owner's work is done and run() is called again.                      *)
OwnerReturn ==
  /\ pc = "owner"
  /\ pc' = "run"
  /\ UNCHANGED <<sta, port, clients, heap, todo, backlog, conns, gone, reports,
                 unsent, swept, failed>>

(* The sends that fail among those of send(ptr) or of send(cli, ptr): each  *)
(* closes its client inside tcp_client::send, which reports it, and leaves  *)
(* it in _clients.                                                          *)
SendFails(ps) ==
  /\ \A p \in ps : p \in Accepted /\ ConnOf(p) \in gone
  /\ heap' = [p \in Ptrs |-> IF p \in ps THEN [heap[p] EXCEPT !.sta = "NONE"] ELSE heap[p]]
  /\ reports' = Reported(ps)
  /\ unsent' = unsent \cup {ConnOf(p) : p \in ps}

(* A broadcast, by the owner or inside a client's message callback.         *)
Broadcast(ps) ==
  /\ pc \in {"owner", "clients"} /\ ps # {}
  /\ SendFails(ps)
  /\ UNCHANGED <<sta, port, clients, pc, todo, backlog, conns, gone, swept, failed>>

(* close(cli), called by the owner.                                         *)
CloseClient(p) ==
  /\ pc = "owner" /\ p \in clients
  /\ clients' = clients \ {p}
  /\ swept' = swept \cup {ConnOf(p)}
  /\ reports' = Reported({p})
  /\ heap' = [heap EXCEPT ![p] = Free]
  /\ UNCHANGED <<sta, port, pc, todo, backlog, conns, gone, unsent, failed>>

Environment == Arrive \/ \E c \in Conns : Leave(c)

Service ==
  \/ Bind
  \/ AcceptNone
  \/ AcceptFailed
  \/ RunReturn
  \/ \E p \in Ptrs :
       \/ \E greeted \in BOOLEAN : AcceptClient(p, greeted)
       \/ RunClosed(p)

TcpNext ==
  \/ Environment
  \/ Service
  \/ OwnerReturn
  \/ \E p \in Ptrs : RunOpen(p) \/ CloseClient(p)
  \/ \E ps \in SUBSET Accepted : Broadcast(ps)

TcpSpec == TcpInit /\ [][TcpNext]_tcpVars

(* The thread that calls run() never stops.  AcceptFailed is an error of    *)
(* the kernel and is not part of what must happen.                          *)
ServiceThread ==
  \/ Bind
  \/ AcceptNone
  \/ RunReturn
  \/ OwnerReturn
  \/ \E p \in Ptrs :
       RunOpen(p) \/ RunClosed(p) \/ \E greeted \in BOOLEAN : AcceptClient(p, greeted)

TcpFairSpec == TcpSpec /\ WF_tcpVars(ServiceThread)

-----------------------------------------------------------------------------

(* No order of failures, closes and accepts leaves a freed client in        *)
(* _clients, which run() and send() dereference, and _on_disconnected is    *)
(* called at most once for a connection, except for one that a failing send *)
(* has closed and that close() or close(cli) then finds still in _clients:  *)
(* that one is reported twice.                                              *)
ClientsAccounted ==
  /\ \A p \in clients : ConnOf(p) \in 1 .. conns
  /\ \A p, r \in clients : ConnOf(p) = ConnOf(r) => p = r
  /\ \A c \in Conns : reports[c] <= (IF c \in unsent \cap swept THEN 2 ELSE 1)

(* A peer that leaves is reported to the owner at some time, unless it left *)
(* while the owner was greeting it, when nobody is told.                    *)
EveryGoneReported ==
  \A c \in Conns :
    (\E p \in clients : ConnOf(p) = c /\ heap[p].sta = "ACCEPTED" /\ c \in gone)
      ~> reports[c] > 0

(* Every connection request is accepted at some time, unless accept failed: *)
(* close() keeps the listening socket open, so _bind can never succeed      *)
(* again.                                                                   *)
EveryRequestAccepted == <>[](backlog = 0 \/ failed)
=============================================================================
