-------------------------- MODULE WarehouseModels ---------------------------
(***************************************************************************)
(* The warehouse model of a mapping: a FACT over the accepted deliveries of *)
(* its dataset (TrustedFacts), or a DIMENSION over accepted events          *)
(* (DimensionHistory).  model_adapter dispatches on the type of the         *)
(* approved context, once and for all of the resource.                      *)
(***************************************************************************)
EXTENDS TrustedFacts, DimensionHistory

VARIABLE context        \* FACT or DIMENSION

Init ==
    /\ context \in {"FACT", "DIMENSION"}
    /\ TrustedInit /\ DimensionInit
    /\ IF context = "FACT" THEN config = [scd |-> "SCD2", infers |-> FALSE]
       ELSE policy = [strategy |-> "APPEND", timed |-> FALSE, dated |-> FALSE]

CompilePlan ==
    \/ context = "FACT" /\ TrustedNext /\ UNCHANGED <<dimensionVars, context>>
    \/ context = "DIMENSION" /\ DimensionNext /\ UNCHANGED <<trustedVars, factVars, context>>

Spec == Init /\ [][CompilePlan]_<<trustedVars, factVars, dimensionVars, context>>
=============================================================================
