------------------------------ MODULE MCMdFeed ------------------------------
(***************************************************************************)
(* MdFeed for TLC, with the bounds and the order flows of MCEngine.        *)
(***************************************************************************)
EXTENDS MdFeed, MCEngine

BoundedFeedInit == FeedInit /\ placed = 0 /\ flow \in Flows

\* The engine waits for an empty wire.  No settled state is lost by that: Receive
\* commutes with the engine's steps, and a break that loses a longer wire is the
\* break that comes earlier.  Nothing is said about a book after a reject misled it.
BoundedFeedNext ==
  /\ ~misled
  /\ (wire = <<>> /\ FlowNext /\ Carried) \/ Connect \/ Cut \/ Receive
  /\ Counted
  /\ UNCHANGED flow

BoundedFeedSpec == BoundedFeedInit /\ [][BoundedFeedNext]_<<feedVars, placed, flow>>
=============================================================================
