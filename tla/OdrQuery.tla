-------------------------------- MODULE OdrQuery --------------------------------
(***************************************************************************)
(* The order query service: a tcp_service whose thread cuts the bytes of   *)
(* each client into requests and puts them into the request queue of their *)
(* market; one thread for each market answers them into one response       *)
(* queue; the service thread takes one response after each run() and sends *)
(* it to the client pointer that came with the request.                    *)
(*                                                                         *)
(* The queues are the rapid_ring queues that RingQueue shows to be bounded *)
(* FIFO channels: enqueue waits while the queue is full, try_dequeue does  *)
(* not wait.  A request is reduced to its market.  The orders in an answer *)
(* are left out: the callback that would collect them belongs to an object *)
(* that add_mkt has already moved from and destroyed.                      *)
(***************************************************************************)
EXTENDS TcpService, Sequences

CONSTANTS
  Markets,    \* The keys of _mkt_map.
  Unknown,    \* Any other market id, such as the 0 of an empty buffer.
  ReqLen,     \* sizeof(odr_query_request).
  Chunks,     \* Sizes of the pieces in which bytes arrive.
  MaxBytes,   \* Bound: bytes a client sends.
  ReqCap,     \* Size of a request queue.
  RspCap      \* Size of the response queue.

ASSUME OdrQueryAssumption ==
  /\ Unknown \notin Markets
  /\ "none" \notin Ptrs
  /\ ReqLen \in Nat \ {0} /\ Chunks \subseteq Nat \ {0}
  /\ ReqCap \in Nat \ {0} /\ RspCap \in Nat \ {0}

None == [rest |-> -1]

Idle == [ptr |-> "none", conn |-> 0]

VARIABLES
  items,     \* _cli_map: items[p] is None or the request_buffer of p.
  batch,     \* The call of the message callback: the requests left to handle.
  reqQ,      \* reqQ[m]: the request queue of market m.
  rspQ,      \* _response_queue.
  worker,    \* worker[m]: the request that m's thread is answering, or Idle.
  rcv,       \* History: bytes received on each connection.
  handled,   \* History: requests handled for each connection.
  answers,   \* History: pairs of the connections asked on and answered on.
  corrupt    \* A request_buffer was used after it was erased.

queryVars == <<items, batch, reqQ, rspQ, worker, rcv, handled, answers, corrupt>>

vars == <<tcpVars, queryVars>>

-----------------------------------------------------------------------------

NoBatch == [ptr |-> "none", reqs |-> << >>, rest |-> 0]

InCallback == batch.ptr # "none"

Init ==
  /\ TcpInit
  /\ items = [p \in Ptrs |-> None]
  /\ batch = NoBatch
  /\ reqQ = [m \in Markets |-> << >>] /\ rspQ = << >>
  /\ worker = [m \in Markets |-> Idle]
  /\ rcv = [c \in Conns |-> 0] /\ handled = [c \in Conns |-> 0]
  /\ answers = {} /\ corrupt = FALSE

NewItem == [rest |-> 0, last |-> Unknown]

Item(p) == IF items[p] = None THEN NewItem ELSE items[p]

(* The requests that a chunk of n bytes completes, with mkt the market of   *)
(* the one that was begun before: that one is read from item.buff, and so   *)
(* are all whole requests that follow in the chunk, which therefore repeat  *)
(* the last request that came in two pieces.  Mutant: the bytes already     *)
(* there are not counted.                                                   *)
Cut_NoRest(item, n, mkt) ==
  [reqs |-> [i \in 1 .. n \div ReqLen |-> item.last], rest |-> n % ReqLen,
   last |-> item.last]

Cut(item, n, mkt) ==
  IF item.rest = 0
  THEN [reqs |-> [i \in 1 .. n \div ReqLen |-> item.last], rest |-> n % ReqLen,
        last |-> item.last]
  ELSE LET more == n - (ReqLen - item.rest)
       IN  [reqs |-> [i \in 1 .. 1 + more \div ReqLen |-> mkt],
            rest |-> more % ReqLen, last |-> mkt]

(* The message callback.  A chunk that completes nothing is only stored.    *)
OnMsg(p, n, mkt) ==
  LET item == Item(p)
      cut  == Cut(item, n, mkt)
  IN
  /\ ~InCallback /\ RunOpen(p)
  /\ rcv[ConnOf(p)] + n <= MaxBytes
  /\ rcv' = [rcv EXCEPT ![ConnOf(p)] = @ + n]
  /\ IF item.rest # 0 /\ n < ReqLen - item.rest
     THEN /\ items' = [items EXCEPT ![p] = [item EXCEPT !.rest = @ + n]]
          /\ UNCHANGED batch
     ELSE /\ items' = [items EXCEPT ![p] = [rest |-> 0, last |-> cut.last]]
          /\ batch' = [ptr |-> p, reqs |-> cut.reqs, rest |-> cut.rest]
  /\ UNCHANGED <<reqQ, rspQ, worker, handled, answers, corrupt>>

(* One request of the callback.  Every one but the first reads item.buff,   *)
(* which a failed answer may have erased.                                   *)
Handling(p) ==
  /\ InCallback /\ ~corrupt /\ p = batch.ptr /\ batch.reqs # << >>
  /\ batch' = [batch EXCEPT !.reqs = Tail(@)]
  /\ handled' = [handled EXCEPT ![ConnOf(p)] = @ + 1]
  /\ corrupt' = (items[p] = None)
  /\ UNCHANGED <<rcv, worker, rspQ>>

Request(p) == [ptr |-> p, conn |-> ConnOf(p)]

Enqueue(p) ==
  LET m == Head(batch.reqs) IN
  /\ Handling(p) /\ m \in Markets
  /\ Len(reqQ[m]) < ReqCap
  /\ reqQ' = [reqQ EXCEPT ![m] = Append(@, Request(p))]
  /\ UNCHANGED <<tcpVars, items, answers>>

(* A request for a market that is not served is answered at once.           *)
AnswerError(p) ==
  /\ Handling(p) /\ Head(batch.reqs) \notin Markets
  /\ answers' = answers \cup {<<ConnOf(p), ConnOf(p)>>}
  /\ UNCHANGED <<tcpVars, items, reqQ>>

AnswerErrorFails(p) ==
  /\ Handling(p) /\ Head(batch.reqs) \notin Markets
  /\ SendFails({p})
  /\ items' = [items EXCEPT ![p] = None]
  /\ UNCHANGED <<sta, port, clients, pc, todo, backlog, conns, gone, swept, failed,
                 reqQ, answers>>

CallbackReturn ==
  LET p == batch.ptr IN
  /\ InCallback /\ ~corrupt /\ batch.reqs = << >>
  /\ batch' = NoBatch
  /\ IF items[p] = None
     THEN corrupt' = (batch.rest > 0) /\ UNCHANGED items
     ELSE /\ items' = [items EXCEPT ![p].rest = batch.rest]
          /\ UNCHANGED corrupt
  /\ UNCHANGED <<tcpVars, reqQ, rspQ, worker, rcv, handled, answers>>

(* A market's thread: try_dequeue, then enqueue of the answer, which waits  *)
(* while the response queue is full.  Mutant: the thread was not started.   *)
Take_NotStarted(m) == FALSE

Take(m) ==
  /\ worker[m] = Idle /\ reqQ[m] # << >> /\ ~corrupt
  /\ worker' = [worker EXCEPT ![m] = Head(reqQ[m])]
  /\ reqQ' = [reqQ EXCEPT ![m] = Tail(@)]
  /\ UNCHANGED <<tcpVars, items, batch, rspQ, rcv, handled, answers, corrupt>>

Respond(m) ==
  /\ worker[m] # Idle /\ Len(rspQ) < RspCap /\ ~corrupt
  /\ rspQ' = Append(rspQ, worker[m])
  /\ worker' = [worker EXCEPT ![m] = Idle]
  /\ UNCHANGED <<tcpVars, items, batch, reqQ, rcv, handled, answers, corrupt>>

(* odr_query_server::run after _srv.run(): one response is sent, if its     *)
(* client pointer is still in _clients.                                     *)
Deliver ==
  /\ pc = "owner" /\ rspQ # << >> /\ ~corrupt
  /\ pc' = "run"
  /\ rspQ' = Tail(rspQ)
  /\ UNCHANGED <<sta, port, clients, todo, backlog, conns, gone, swept, failed,
                 batch, reqQ, worker, rcv, handled, corrupt>>

Addressee == Head(rspQ).ptr

DeliverSent ==
  /\ Deliver
  /\ answers' = IF Addressee \in clients
                THEN answers \cup {<<Head(rspQ).conn, ConnOf(Addressee)>>}
                ELSE answers
  /\ UNCHANGED <<heap, reports, unsent, items>>

DeliverFails ==
  /\ Deliver
  /\ Addressee \in clients /\ SendFails({Addressee})
  /\ items' = [items EXCEPT ![Addressee] = None]
  /\ UNCHANGED answers

DeliverNone ==
  /\ rspQ = << >> /\ ~corrupt
  /\ OwnerReturn
  /\ UNCHANGED queryVars

(* The steps of tcp_service::run; a client that leaves is erased from       *)
(* _cli_map by the disconnect callback.                                     *)
Forget(ps) ==
  /\ items' = [p \in Ptrs |-> IF p \in ps THEN None ELSE items[p]]
  /\ UNCHANGED <<batch, reqQ, rspQ, worker, rcv, handled, answers, corrupt>>

ServiceRun ==
  /\ ~InCallback /\ ~corrupt
  /\ \/ (Bind \/ AcceptNone \/ RunReturn) /\ Forget({})
     \/ AcceptFailed /\ Forget(clients)
     \/ \E p \in Ptrs :
          \/ AcceptClient(p, TRUE) /\ Forget({})
          \/ RunOpen(p) /\ Forget({})
          \/ RunClosed(p) /\ Forget({p})

Callback ==
  \/ CallbackReturn
  \/ \E p \in Ptrs : Enqueue(p) \/ AnswerError(p) \/ AnswerErrorFails(p)

Worker(m) == Take(m) \/ Respond(m)

Next ==
  \/ Environment /\ ~corrupt /\ UNCHANGED queryVars
  \/ ServiceRun
  \/ \E p \in Ptrs, n \in Chunks, mkt \in Markets \cup {Unknown} : OnMsg(p, n, mkt)
  \/ Callback
  \/ \E m \in Markets : Worker(m)
  \/ DeliverSent
  \/ DeliverFails
  \/ DeliverNone

Spec == Init /\ [][Next]_vars

(* The service thread and the threads of the markets run as long as they    *)
(* are not waiting on a queue.                                              *)
QueryThread == ServiceRun \/ Callback \/ DeliverSent \/ DeliverFails \/ DeliverNone

FairSpec ==
  /\ Spec
  /\ WF_vars(QueryThread)
  /\ \A m \in Markets : WF_vars(Worker(m))

-----------------------------------------------------------------------------

(* An answer goes out on the connection the request came from, or nowhere:  *)
(* the client pointer waits in two queues while its client may leave and    *)
(* others come.  It holds because _run_clients never deletes a client, so   *)
(* that no address is used twice, and close(), which does delete them, ends *)
(* the service.                                                             *)
AnswerReachesAsker == \A a \in answers : a[1] = a[2]

(* However the bytes arrive, the callback handles one request for each      *)
(* complete struct, at most one struct is under way, and its bytes so far   *)
(* are those in the client's request_buffer, unless a failed error answer   *)
(* has erased the request_buffer under the running callback.                *)
OneRequestPerStruct ==
  \A p \in Accepted :
    LET c == ConnOf(p) IN
    ~corrupt /\ (batch.ptr = p => items[p] # None) =>
      /\ handled[c] + (IF batch.ptr = p THEN Len(batch.reqs) ELSE 0) = rcv[c] \div ReqLen
      /\ Item(p).rest + (IF batch.ptr = p THEN batch.rest ELSE 0) = rcv[c] % ReqLen

(* The service thread waits on a full request queue while its market waits  *)
(* on a full response queue that only the service thread empties.           *)
Stuck ==
  /\ InCallback /\ batch.reqs # << >>
  /\ Len(rspQ) = RspCap
  /\ \E m \in Markets :
       Head(batch.reqs) = m /\ Len(reqQ[m]) = ReqCap /\ worker[m] # Idle

(* Every request that was put into a queue is answered at some time, unless *)
(* the two threads wait on each other, which needs both queues full, or the *)
(* callback went on with an erased request_buffer.                          *)
AnsweredUnlessStuck ==
  <>[](\/ corrupt
       \/ Stuck
       \/ rspQ = << >> /\ \A m \in Markets : reqQ[m] = << >> /\ worker[m] = Idle)
=============================================================================
