------------------------------ MODULE PulsarProxy ------------------------------
(***************************************************************************)
(* pulsar_proxy.cpp: orders from a Pulsar topic to the engine, and the     *)
(* engine's answers to another topic.                                      *)
(*                                                                         *)
(* The main thread keeps one receiveAsync outstanding and calls run() of   *)
(* the matching_tcp_client, which empties its queue to the engine and      *)
(* passes on what the engine says.  The callbacks of the Pulsar client run *)
(* in a thread of that library.  The process may be killed at any step and *)
(* started again; what it had in memory is gone, and the broker delivers   *)
(* what it has no acknowledgement of once more.                            *)
(*                                                                         *)
(* Orders and answers are numbered.  The broker and its client library are *)
(* external: an acknowledgement arrives some time or is lost with the      *)
(* process; a send that is reported as failed may have been stored all the *)
(* same (a timeout).  The connection to the engine is that of TcpClient,   *)
(* here without faults.                                                    *)
(***************************************************************************)
EXTENDS Integers, Sequences, FiniteSets, SequencesExt

CONSTANTS
  MaxOrders,   \* Bound: orders in the topic.
  MaxAnswers,  \* Bound: answers of the engine.
  MaxFailures, \* Bound: failed receives and sends.
  MaxCrashes,  \* Bound: kills of the process.
  MaxPauses    \* Bound: SIGUSR1 to pause.

ASSUME ProxyAssumption ==
  {MaxOrders, MaxAnswers, MaxFailures, MaxCrashes, MaxPauses} \subseteq Nat

VARIABLES
  paused,    \* bPause.
  called,    \* receiveAsyncCalled.
  waiting,   \* A receiveAsync is outstanding.
  pc,        \* The main thread.
  hand,      \* The order in cb_recv, between its acknowledgement and c.send.
  q,         \* matching_tcp_client::q_.
  acks,      \* Acknowledgements under way.
  acked,     \* What the broker has an acknowledgement of.
  cursor,    \* The last order the broker gave to this process.
  engine,    \* The orders that reached the engine.
  answers,   \* How many answers the process has got.
  sends,     \* sendAsync calls under way: [n, cb], cb whether it has a callback.
  topic,     \* The topic of the answers.
  budget,    \* Faults left: a record of the bounds.
  lost,      \* History: orders that were acknowledged and in memory at a kill.
  repeated,  \* History: orders at the engine, not acknowledged, at a kill.
  failed     \* History: how often each answer's send was reported as failed;
             \* the sends a kill interrupted count as failed twice.

inVars  == <<called, waiting, hand, q, acks, acked, cursor, engine>>
outVars == <<answers, sends, topic, failed>>
vars    == <<paused, pc, inVars, outVars, budget, lost, repeated>>

None == 0

Spend(what) == budget[what] > 0 /\ budget' = [budget EXCEPT ![what] = @ - 1]

Init ==
  /\ paused = FALSE /\ called = FALSE /\ waiting = FALSE /\ pc = "top"
  /\ hand = None /\ q = << >> /\ acks = {} /\ acked = {} /\ cursor = 0 /\ engine = << >>
  /\ answers = 0 /\ sends = << >> /\ topic = << >>
  /\ budget = [failure |-> MaxFailures, crash |-> MaxCrashes, pause |-> MaxPauses]
  /\ lost = {} /\ repeated = {} /\ failed = [n \in 1 .. MaxAnswers |-> 0]

-----------------------------------------------------------------------------
(* The main loop.  A paused loop does nothing, not even run().              *)

CallReceive ==
  /\ pc = "top" /\ ~paused
  /\ IF called THEN pc' = "run" /\ UNCHANGED called
               ELSE pc' = "receive" /\ called' = TRUE
  /\ UNCHANGED <<paused, waiting, hand, q, acks, acked, cursor, engine, outVars,
                 budget, lost, repeated>>

ReceiveAsync ==
  /\ pc = "receive"
  /\ waiting' = TRUE /\ pc' = "run"
  /\ UNCHANGED <<paused, called, hand, q, acks, acked, cursor, engine, outVars,
                 budget, lost, repeated>>

(* run(): an answer of the engine, if there is one, then all of the queue.  *)
(* Mutant: the queue is not popped.                                         *)
Emptied_NoPop == q

Emptied == << >>

Answered ==
  /\ answers < MaxAnswers
  /\ answers' = answers + 1
  /\ sends' = Append(sends, [n |-> answers + 1, cb |-> TRUE])

Run ==
  /\ pc = "run"
  /\ pc' = "top"
  /\ engine' = engine \o q /\ q' = Emptied
  /\ Answered \/ UNCHANGED <<answers, sends>>
  /\ UNCHANGED <<paused, called, waiting, hand, acks, acked, cursor, topic, failed,
                 budget, lost, repeated>>

(* SIGUSR1.                                                                 *)
Pause ==
  /\ ~paused /\ Spend("pause")
  /\ paused' = TRUE
  /\ UNCHANGED <<pc, inVars, outVars, lost, repeated>>

Resume ==
  /\ paused /\ paused' = FALSE
  /\ UNCHANGED <<pc, inVars, outVars, budget, lost, repeated>>

-----------------------------------------------------------------------------
(* cb_recv, in the thread of the Pulsar client.                             *)

Undelivered == {n \in cursor + 1 .. MaxOrders : n \notin acked}

CbRecv ==
  /\ waiting /\ hand = None /\ Undelivered # {}
  /\ LET n == CHOOSE n \in Undelivered : \A k \in Undelivered : n <= k
     IN  hand' = n /\ cursor' = n /\ acks' = acks \cup {n}
  /\ waiting' = FALSE
  /\ UNCHANGED <<paused, pc, called, q, acked, engine, outVars, budget, lost, repeated>>

CbSend ==
  /\ hand # None
  /\ q' = Append(q, hand) /\ hand' = None /\ called' = FALSE
  /\ UNCHANGED <<paused, pc, waiting, acks, acked, cursor, engine, outVars,
                 budget, lost, repeated>>

CbRecvFailed ==
  /\ waiting /\ Spend("failure")
  /\ waiting' = FALSE /\ called' = FALSE
  /\ UNCHANGED <<paused, pc, hand, q, acks, acked, cursor, engine, outVars, lost, repeated>>

AckArrives(n) ==
  /\ n \in acks
  /\ acks' = acks \ {n} /\ acked' = acked \cup {n}
  /\ UNCHANGED <<paused, pc, called, waiting, hand, q, cursor, engine, outVars,
                 budget, lost, repeated>>

-----------------------------------------------------------------------------
(* The answers.  The callback of sendAsync captures cb before anything is   *)
(* assigned to it: the callback of the retry is empty, and a second failure *)
(* goes unnoticed.                                                          *)

Retried_None(s) == << >>

Retried(s) == IF s.cb THEN <<[n |-> s.n, cb |-> FALSE]>> ELSE << >>

(* Mutant: the test of the result is inverted.                              *)
SendOk_Retried ==
  /\ sends # << >>
  /\ topic' = Append(topic, Head(sends).n)
  /\ sends' = Tail(sends) \o Retried(Head(sends))
  /\ UNCHANGED <<paused, pc, inVars, answers, failed, budget, lost, repeated>>

SendOk ==
  /\ sends # << >>
  /\ topic' = Append(topic, Head(sends).n)
  /\ sends' = Tail(sends)
  /\ UNCHANGED <<paused, pc, inVars, answers, failed, budget, lost, repeated>>

SendFailed ==
  /\ sends # << >> /\ Spend("failure")
  /\ topic' \in {topic, Append(topic, Head(sends).n)}
  /\ sends' = Tail(sends) \o Retried(Head(sends))
  /\ failed' = [failed EXCEPT ![Head(sends).n] = @ + 1]
  /\ UNCHANGED <<paused, pc, inVars, answers, lost, repeated>>

-----------------------------------------------------------------------------
(* The process is killed and started again.                                 *)
Crash ==
  LET memory == Range(q) \cup ({hand} \ {None})
  IN  /\ Spend("crash")
      /\ lost' = lost \cup (memory \cap acked)
      /\ repeated' = repeated \cup (Range(engine) \ acked)
      /\ failed' = [n \in 1 .. MaxAnswers |->
                      IF \E i \in DOMAIN sends : sends[i].n = n THEN 2 ELSE failed[n]]
      /\ paused' = FALSE /\ called' = FALSE /\ waiting' = FALSE /\ pc' = "top"
      /\ hand' = None /\ q' = << >> /\ acks' = {} /\ cursor' = 0 /\ sends' = << >>
      /\ UNCHANGED <<acked, engine, answers, topic>>

Next ==
  \/ CallReceive \/ ReceiveAsync \/ Run \/ Pause \/ Resume
  \/ CbRecv \/ CbSend \/ CbRecvFailed \/ \E n \in 1 .. MaxOrders : AckArrives(n)
  \/ SendOk \/ SendFailed
  \/ Crash

(* The two threads run, a pause ends, and the broker answers.               *)
Fairness ==
  /\ WF_vars(CallReceive \/ ReceiveAsync \/ Run)
  /\ WF_vars(Resume)
  /\ WF_vars(CbRecv) /\ WF_vars(CbSend)
  /\ WF_vars(SendOk)

Spec == Init /\ [][Next]_vars /\ Fairness

-----------------------------------------------------------------------------
(* Properties.                                                              *)

(* The engine gets the orders in the order of the topic.  One is missing    *)
(* only if the process was killed after it was acknowledged and before it   *)
(* was sent (cb_recv acknowledges first); one comes twice only if the       *)
(* process was killed after it was sent and before its acknowledgement      *)
(* arrived.                                                                 *)
OrdersInTurn ==
  \A j \in DOMAIN engine :
    /\ \A k \in 1 .. engine[j] - 1 : k \in lost \/ \E i \in 1 .. j - 1 : engine[i] = k
    /\ engine[j] \notin repeated => \A i \in 1 .. j - 1 : engine[i] # engine[j]

(* The topic of the answers has them in the order the engine gave them, and *)
(* once, except for those whose send was reported as failed: these come     *)
(* late, or twice if the broker had stored them.                            *)
AnswersInTurn ==
  \A i, j \in DOMAIN topic :
    i < j /\ topic[i] >= topic[j] => failed[topic[j]] > 0

(* Every order of the topic reaches the engine or is lost in a kill:        *)
(* receiveAsyncCalled never keeps the loop from asking for the next one.    *)
(* An answer is missing for good only if its send failed twice, since the   *)
(* retry has no callback, or if it was under way when the process was       *)
(* killed.                                                                  *)
EverythingForwarded ==
  /\ \A n \in 1 .. MaxOrders : <>(n \in Range(engine) \/ n \in lost)
  /\ \A n \in 1 .. MaxAnswers : answers >= n ~> (n \in Range(topic) \/ failed[n] >= 2)
=============================================================================
