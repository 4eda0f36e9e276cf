------------------------------ MODULE ByteSums ------------------------------
(***************************************************************************)
(* The COALESCE(sum(...), 0) aggregates of the governance SQL.  Total(S, f) *)
(* adds the natural numbers f[x] over the finite set S.  It counts the      *)
(* pairs <<x, 1>>, ..., <<x, f[x]>> instead of recursing over S, so that     *)
(* its laws follow from facts about cardinalities (QueryGovernance_proofs). *)
(***************************************************************************)
EXTENDS Integers, FiniteSets

Units(x, f) == {x} \X (1 .. f[x])

AllUnits(S, f) == UNION {Units(x, f) : x \in S}

Total(S, f) == Cardinality(AllUnits(S, f))
=============================================================================
