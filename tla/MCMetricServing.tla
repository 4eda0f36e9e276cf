--------------------------- MODULE MCMetricServing ---------------------------
(***************************************************************************)
(* A small instance of MetricServing for TLC.                               *)
(***************************************************************************)
EXTENDS MetricServing, TLC

CONSTANTS d1, k1, k2, m1, c1, c2

\* A delivery that changes one row and one that changes it and another, in
\* either order: publications whose rows overlap in part.
Overlapping == {<<{k1}, {k1, k2}>>, <<{k1, k2}, {k1}>>}

\* The first delivery is declared a correction: its replay takes rows back.
First == Datasets \X {1}

\* Materializers and refreshers are interchangeable.
MCSymmetry == Permutations(Materializers) \union Permutations(Refreshers)
=============================================================================
