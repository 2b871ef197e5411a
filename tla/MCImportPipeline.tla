-------------------------- MODULE MCImportPipeline --------------------------
(***************************************************************************)
(* The import pipeline on small instances, for TLC.                        *)
(***************************************************************************)
EXTENDS ImportPipeline, TLC

\* Publishers and workers are interchangeable. Tokens are not: fresh ones are
\* taken with CHOOSE.
ProcessSymmetry == Permutations(Publishers) \cup Permutations(Workers)
=============================================================================
