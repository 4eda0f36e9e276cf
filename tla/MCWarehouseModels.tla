------------------------- MODULE MCWarehouseModels --------------------------
(* Bounds of the warehouse models: all of their values are interchangeable. *)
EXTENDS WarehouseModels, TLC

Interchangeable ==
    Permutations(Keys) \cup Permutations(Values)
        \cup Permutations(Tracked) \cup Permutations(Untracked)
=============================================================================
