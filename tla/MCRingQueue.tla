----------------------------- MODULE MCRingQueue -----------------------------
(***************************************************************************)
(* The uses of RingQueue that TLC checks: three of the aliases at the end   *)
(* of ring_buffer_queue.hpp, with every call, or with those of              *)
(* odr_query_service.cpp.                                                   *)
(***************************************************************************)
EXTENDS RingQueue

CONSTANTS p1, p2, c1, c2   \* Threads.

AllCalls == [s \in Side |-> {"block", "try"}]
Service  == [w |-> {"block"}, r |-> {"try"}]

spsc == [kind |-> [w |-> "st", r |-> "st"], modes |-> AllCalls, sizes |-> {1, 2}, quota |-> 5]
mpsc == [kind |-> [w |-> "mt", r |-> "st"], modes |-> Service, sizes |-> {1}, quota |-> 3]
spmc == [kind |-> [w |-> "st", r |-> "mt"], modes |-> AllCalls, sizes |-> {1}, quota |-> 3]

Aliases == {spsc, mpsc, spmc}
=============================================================================
