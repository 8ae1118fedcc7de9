--------------------------- MODULE MCDatabaseMove ---------------------------
(***************************************************************************)
(* DatabaseMove for TLC.                                                   *)
(***************************************************************************)
EXTENDS DatabaseMove, TLC

(* Databases that can be created are alike, and so are writers. *)
Alike == Permutations(Target) \cup Permutations(Writer)
=============================================================================
