------------------------ MODULE MCWarehouseReliability ------------------------
(***************************************************************************)
(* Small instances of WarehouseReliability for TLC.                         *)
(***************************************************************************)
EXTENDS WarehouseReliability, TLC

NormalAndReplay == {"INCREMENTAL", "REPLAY"}
NormalAndBackfill == {"INCREMENTAL", "BACKFILL"}
EveryKind == {"INITIAL_LOAD", "INCREMENTAL", "REPLAY", "BACKFILL", "REBUILD"}

Interchangeable == Permutations(Workers) \cup Permutations(Operations)
=============================================================================
