----------------------------- MODULE MCMailLedger -----------------------------
(***************************************************************************)
(* Small instances of MailLedger for TLC: the messages are alike, and each *)
(* is for two.                                                             *)
(***************************************************************************)
EXTENDS MailLedger, TLC

Two == [m \in Message |-> 2]

Alike == Permutations(Message)

=============================================================================
