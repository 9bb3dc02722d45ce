--------------------------- MODULE MCModelManager ---------------------------
(***************************************************************************)
(* Three GPU models for the model checker: a pinned one, one that never   *)
(* fits beside it, and one that does, next to one on the CPU, which only  *)
(* the reaper unloads.                                                     *)
(***************************************************************************)
EXTENDS ModelManager

CONSTANTS pin, big, small, cpu

MCModels == {pin, big, small, cpu}
MCGpuModels == {pin, big, small}
MCVram == [m \in Models |-> CASE m = pin -> 2 [] m = big -> 2 [] m = small -> 1 [] OTHER -> 3]
=============================================================================
