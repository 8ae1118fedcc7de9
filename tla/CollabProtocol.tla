--------------------------- MODULE CollabProtocol ---------------------------
(***************************************************************************)
(* The co-editing protocol between browsers and a document's room          *)
(* (packages/core/collab/src/protocol.ts) and what the adapter promises of *)
(* a kind of document (adapter.ts).                                        *)
(*                                                                         *)
(* A document is represented by the sequence of ops applied to it: apply   *)
(* appends, and the inverse that apply returns takes the last one off.     *)
(* The unacked ops of a batch are represented by the one op that           *)
(* adapter.batch makes of them.                                            *)
(***************************************************************************)
EXTENDS Integers, Sequences, FiniteSets

CONSTANTS
    Session,            \* browser tabs; a session outlives its connections
    Nobody,             \* stands for a connection whose browser is gone
    Op,                 \* what the adapter calls an op, batches included
    Transform(_, _, _), \* Transform(a, b, aWins): a rewritten to apply after b
    Then(_, _),         \* the batch of two ops, in order
    Restored            \* in a document: "replaced by an earlier version"

ASSUME NobodyAssumption == Nobody \notin Session

(* Nothing else is assumed of Transform: the protocol has to converge      *)
(* "even where transforms are not symmetric".                              *)
ASSUME AdapterAssumption ==
    /\ \A a, b \in Op : \A aWins \in BOOLEAN : Transform(a, b, aWins) \in Op
    /\ \A a, b \in Op : Then(a, b) \in Op
    /\ Restored \notin Op

Document == Seq(Op \cup {Restored})

(* The session's prefix makes its batch ids unique in the room; batches    *)
(* the room makes itself get its own prefix.                               *)
BatchId == (Session \cup {Nobody}) \X Nat

(* A committed batch as the room logged it; the revision is its position.  *)
CommittedOp == [op : Op \cup {Restored}, batchId : BatchId]

(* What is broadcast, or replayed to a client that catches up.             *)
NumberedOp == [revision : Nat, op : Op, batchId : BatchId]

-----------------------------------------------------------------------------
(* Client messages.  Fresh is the null revision of a first load.           *)
Fresh == -1

Hello(since) == [type |-> "hello", since |-> since]
Submit(id, base, op) ==
    [type |-> "submit", batchId |-> id, base |-> base, op |-> op]

ClientMessage ==
    [type : {"hello"}, since : Nat \cup {Fresh}]
        \cup [type : {"submit"}, batchId : BatchId, base : Nat, op : Op]

(* Server messages.  A welcome carries a snapshot or the ops missed; the   *)
(* reason of a reject is left out: no client looks at it.                  *)
Welcome(rev, snapshot) ==
    [type |-> "welcome", revision |-> rev, snapshot |-> snapshot]
CatchUp(missed) == [type |-> "catchUp", missed |-> missed]
Ack(id, rev) == [type |-> "ack", batchId |-> id, revision |-> rev]
Remote(numbered) == [type |-> "op", committed |-> numbered]
Reject(id) == [type |-> "reject", batchId |-> id]
Resync(rev, snapshot) ==
    [type |-> "resync", revision |-> rev, snapshot |-> snapshot]
RestoredTo(rev, snapshot) ==
    [type |-> "restored", revision |-> rev, snapshot |-> snapshot]

ServerMessage ==
    [type : {"welcome", "resync", "restored"},
     revision : Nat, snapshot : Document]
        \cup [type : {"catchUp"}, missed : Seq(NumberedOp)]
        \cup [type : {"ack"}, batchId : BatchId, revision : Nat]
        \cup [type : {"op"}, committed : NumberedOp]
        \cup [type : {"reject"}, batchId : BatchId]
=============================================================================
