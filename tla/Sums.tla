-------------------------------- MODULE Sums --------------------------------
(***************************************************************************)
(* What the levels of the books add up to.                                 *)
(***************************************************************************)
EXTENDS FiniteSetsExt

\* The sum of the numbers that f gives to the members of S.
SumOver(f, S) == MapThenSumSet(LAMBDA x : f[x], S)
=============================================================================
