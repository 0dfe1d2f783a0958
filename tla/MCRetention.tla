---------------------------- MODULE MCRetention ----------------------------
(* A small evaluation for TLC: two validation cases, one for the holdout. *)
EXTENDS Retention, TLC

CONSTANTS p1, p2

\* Half of the validation and the whole holdout have to be good; the baseline
\* answers the second case.
MCMinGood == [VALIDATION |-> 1, HOLDOUT |-> 1]
MCMargin == [VALIDATION |-> 0, HOLDOUT |-> 0]

Twins == Permutations(Processes)

=============================================================================
