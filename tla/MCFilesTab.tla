----------------------------- MODULE MCFilesTab -----------------------------
(***************************************************************************)
(* An instance of FilesTab, and so of Files, for TLC.                      *)
(***************************************************************************)
EXTENDS FilesTab, TLC

Names ==
  Permutations(Photo) \cup Permutations(Doc) \cup Permutations(Remover) \cup Permutations(Local)
=============================================================================
