--------------------------- MODULE MCGenerateDiagrams ---------------------------
(* Small instances of GenerateDiagrams for TLC. *)
EXTENDS GenerateDiagrams
================================================================================
