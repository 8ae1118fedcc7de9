------------------------------ MODULE MCDocRoom ------------------------------
(***************************************************************************)
(* DocRoom for TLC: a log kept one op behind a checkpoint due every two    *)
(* ops (500 and 200 in the code), so that a few edits reach every case of  *)
(* trimming and of checkpointing.                                          *)
(***************************************************************************)
EXTENDS DocRoom

(* Restore requests are alike. *)
AnyRestore == Permutations(Restore)
=============================================================================
