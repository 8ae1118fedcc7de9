---------------------------- MODULE MCMailboxCopy ----------------------------
(***************************************************************************)
(* Instances of MailboxCopy.  The old message is neither the first nor the *)
(* last by its creation: a new one may come before it.                     *)
(***************************************************************************)
EXTENDS MailboxCopy

SecondIsOld == {2}

==============================================================================
