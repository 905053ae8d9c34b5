-------------------------- MODULE MCClassification --------------------------
(* Up to three nodes, one of which may run two agents; every kind of result. *)
EXTENDS Classification, TLC

CONSTANTS w1, w2, w3

MCNodes == {w1, w2, w3}

\* What the filter makes of an agent error of a healthy pair.
FilteredFailure == [ControlFailure EXCEPT !.success = TRUE, !.loss = 0, !.error = "suppressed"]

\* To the classifier a suppressed failure is Reached(0), and a success held back
\* is Unreachable("timeout").
MCResults == {Reached(0), Reached(40), Unreachable("refused"), Unreachable("timeout"),
              ControlFailure, FilteredFailure}

NodeSymmetry == Permutations(MCNodes)
=============================================================================
