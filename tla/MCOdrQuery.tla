------------------------------ MODULE MCOdrQuery ------------------------------
(***************************************************************************)
(* OdrQuery for TLC, and beside it TcpService alone, with an owner that     *)
(* does anything an owner may do: the order query service never broadcasts, *)
(* closes a client or greets one.                                           *)
(***************************************************************************)
EXTENDS OdrQuery

VARIABLE alone \* tcp_service with any owner, instead of the order query service

MCInit == Init /\ alone \in BOOLEAN

MCNext ==
  /\ \/ alone /\ TcpNext /\ UNCHANGED queryVars
     \/ ~alone /\ Next
  /\ UNCHANGED alone

MCSpec ==
  /\ MCInit /\ [][MCNext]_<<vars, alone>>
  /\ WF_vars(alone /\ ServiceThread /\ UNCHANGED queryVars)
  /\ WF_vars(~alone /\ QueryThread)
  /\ \A m \in Markets : WF_vars(~alone /\ Worker(m))

\* With any owner that does not wait elsewhere, as the order query service may in
\* enqueue, every connection request is accepted and every peer that leaves is
\* reported, but for the cases the two properties name (tcp_service.cpp, run).
EveryoneServed == alone => EveryGoneReported /\ EveryRequestAccepted
=============================================================================
