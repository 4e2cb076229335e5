---------------------------------- MODULE Fifo ----------------------------------
(***************************************************************************)
(* What a rapid_ring queue promises: a bounded first-in first-out channel. *)
(* The channel is kept with its whole history, so that the promise covers  *)
(* loss, duplication and reordering at once: what has been delivered is    *)
(* always the beginning of what has been sent.  Several producers may      *)
(* publish, and several consumers may take, in one step.                   *)
(***************************************************************************)
EXTENDS Integers, Sequences

CONSTANT Capacity   \* Items the channel holds between its two ends.

VARIABLES
  sent,   \* Every item the channel accepted, in order.
  got     \* Every item the channel delivered, in order.

Init == sent = << >> /\ got = << >>

Extends(new, old) ==
  /\ Len(new) > Len(old)
  /\ SubSeq(new, 1, Len(old)) = old

Put ==
  /\ Extends(sent', sent)
  /\ Len(sent') - Len(got) <= Capacity
  /\ UNCHANGED got

Take ==
  /\ Extends(got', got)
  /\ Len(got') <= Len(sent)
  /\ got' = SubSeq(sent, 1, Len(got'))
  /\ UNCHANGED sent

Next == Put \/ Take

Spec == Init /\ [][Next]_<<sent, got>>
=============================================================================
