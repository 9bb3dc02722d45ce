----------------------------- MODULE MCPipeline -----------------------------
(***************************************************************************)
(* Callers and utterances are told apart by identity alone, and no        *)
(* property that names them is a liveness property in the run that uses   *)
(* this symmetry.                                                          *)
(***************************************************************************)
EXTENDS Pipeline, TLC

MCSymmetry == Permutations(Callers) \cup Permutations(Utterances)
=============================================================================
