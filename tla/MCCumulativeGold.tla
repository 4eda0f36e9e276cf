--------------------------- MODULE MCCumulativeGold ---------------------------
EXTENDS CumulativeGold, TLC

(* Rule versions 2 and 3 declare exact decimals: no delivery does, both do  *)
(* under one version, or each under its own.                                *)
RulesOfDeliveries == {<<1, 1>>, <<2, 2>>, <<2, 3>>}

Interchangeable == Permutations(Workers) \cup Permutations(Refreshers)
=============================================================================
