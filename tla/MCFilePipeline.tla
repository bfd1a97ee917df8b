--------------------------- MODULE MCFilePipeline ---------------------------
(* FilePipeline on small sets of files and requests. *)
EXTENDS FilePipeline, TLC

Symmetry == Permutations(Files) \cup Permutations(Reqs)
=============================================================================
