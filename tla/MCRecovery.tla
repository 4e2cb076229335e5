----------------------------- MODULE MCRecovery -----------------------------
(***************************************************************************)
(* EngineRecovery for TLC, with the bounds and the order flows of MCEngine  *)
(* and a bound on the restarts.  The flow "both" has no restarts.           *)
(***************************************************************************)
EXTENDS EngineRecovery, MCEngine

VARIABLE restarts \* how often the process died

MaxRestarts ==
  CASE flow = "both" -> 0 [] flow = "restarts" -> 2 [] OTHER -> 1

BoundedRecoveryInit == RecoveryInit /\ placed = 0 /\ restarts = 0 /\ flow \in Flows

\* A DUMP that no restart follows is of no use and is left out.
BoundedRecoveryNext ==
  /\ \/ restarts < MaxRestarts /\ Restart /\ restarts' = restarts + 1
     \/ restarts < MaxRestarts /\ ~corrupt /\ Dump /\ UNCHANGED restarts
     \/ ~corrupt /\ (\E ord \in pending : Insert(ord)) /\ UNCHANGED restarts
     \/ FlowNext /\ Noted /\ UNCHANGED restarts
  /\ Counted
  /\ UNCHANGED flow

BoundedRecoverySpec ==
  /\ BoundedRecoveryInit
  /\ [][BoundedRecoveryNext]_<<allVars, placed, restarts, flow>>
  /\ Fairness
=============================================================================
