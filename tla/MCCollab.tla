------------------------------- MODULE MCCollab -------------------------------
(***************************************************************************)
(* Small instances of Collab for TLC.                                      *)
(*                                                                         *)
(* The transform is an arbitrary table without structure (a hash): it is   *)
(* neither symmetric nor commutative, and a replica that transforms in     *)
(* another order, against another op or with the wrong winner gets another *)
(* op.  Editing sessions and the server make different ops.                *)
(***************************************************************************)
EXTENDS Collab, TLC

CONSTANTS s1, s2

MCOp == 0 .. 28
MCTransform(a, b, aWins) == (7 * a + 11 * b + IF aWins THEN 5 ELSE 17) % 29
MCThen(a, b) == (3 * a + 13 * b + 1) % 29
MCEditsOf(s) == IF s = s1 THEN {1} ELSE {2}
MCServerOps == {3}

=============================================================================
