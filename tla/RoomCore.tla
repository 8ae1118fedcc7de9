------------------------------- MODULE RoomCore -------------------------------
(***************************************************************************)
(* The server half of co-editing (packages/core/collab/src/room.ts): one   *)
(* room per open document, inside the Durable Object that owns its sockets *)
(* (apps/workers/docs-api/src/room/doc-room.ts).  The room orders all      *)
(* edits: it transforms a submitted batch past everything committed since  *)
(* the revision it was made on, applies it, acks the sender and forwards   *)
(* it to everyone else.                                                    *)
(*                                                                         *)
(* Each action below is what one call does to the room and what it sends;  *)
(* Collab.tla supplies the messages.                                       *)
(***************************************************************************)
EXTENDS CollabProtocol

CONSTANTS
    MaxLog,   \* committed ops kept for late batches and reconnects
    Refusals  \* may a submitted op be refused (validate, mayComment, ...)?

ASSUME RoomAssumption == MaxLog \in Nat \ {0} /\ Refusals \in BOOLEAN

VARIABLES
    committed, \* every batch ever committed: the one at i has revision i
    trimmed,   \* how many of the oldest are no longer in the room's log
    member,    \* the room's view of each session's current connection
    previous,  \* and of the connection it had before that
    down       \* what the room has sent and the browser not yet received

roomVars == <<committed, trimmed, member, previous, down>>

Members == {"none", "joined", "ready"}

RoomTypeOK ==
    /\ committed \in Seq(CommittedOp)
    /\ trimmed \in 0 .. Len(committed)
    /\ \A i \in (trimmed + 1) .. Len(committed) : committed[i].op \in Op
    /\ member \in [Session -> Members]
    /\ previous \in [Session -> Members]
    /\ down \in [Session -> Seq(ServerMessage)]

RoomInit ==
    /\ committed = <<>>
    /\ trimmed = 0
    /\ member = [s \in Session |-> "none"]
    /\ previous = [s \in Session |-> "none"]
    /\ down = [s \in Session |-> <<>>]

-----------------------------------------------------------------------------
Revision == Len(committed)

(* The document at a revision. *)
DocumentAt(rev) == [i \in 1 .. rev |-> committed[i].op]

(* Earliest revision a client can continue from without a snapshot. *)
OldestBase == trimmed

Logged == (trimmed + 1) .. Revision

Numbered(i) == [revision |-> i, op |-> committed[i].op,
                batchId |-> committed[i].batchId]

(* Mutant: the catch-up leaves out its first op. *)
LogAfterButOne(since) ==
    LET from == IF since < trimmed THEN trimmed
                ELSE IF since = Revision THEN since ELSE since + 1
    IN  [i \in 1 .. (Revision - from) |-> Numbered(from + i)]

(* The log entries after revision `since`, oldest first. *)
LogAfter(since) ==
    LET from == IF since < trimmed THEN trimmed ELSE since
    IN  [i \in 1 .. (Revision - from) |-> Numbered(from + i)]

(* `op`, made on revision `base`, transformed past every logged op since. *)
PastLog(op, base) ==
    LET since == LogAfter(base)
        past[i \in 0 .. Len(since)] ==
            IF i = 0 THEN op ELSE Transform(past[i - 1], since[i].op, TRUE)
    IN  past[Len(since)]

(* Mutant: the sender is sent its own op too. *)
PostToSender(c, reply, news) ==
    down' = [s \in Session |->
                down[s] \o (IF s = c THEN reply ELSE <<>>)
                        \o (IF member[s] = "ready" THEN news ELSE <<>>)]

(* `reply` to the connection of `c`, `news` to every other ready one. *)
Post(c, reply, news) ==
    down' = [s \in Session |->
                down[s] \o (IF s = c THEN reply
                            ELSE IF member[s] = "ready" THEN news
                            ELSE <<>>)]

(* Appends to the history; the log keeps the last MaxLog entries. *)
Remember(entry) ==
    /\ committed' = Append(committed, entry)
    /\ trimmed' = IF Revision + 1 - trimmed > MaxLog
                  THEN Revision + 1 - MaxLog ELSE trimmed

-----------------------------------------------------------------------------
(* A new socket joined: nothing is sent until it says hello. *)
Join(s) ==
    /\ member' = [member EXCEPT ![s] = "joined"]
    /\ down' = [down EXCEPT ![s] = <<>>]
    /\ UNCHANGED <<committed, trimmed, previous>>

(* The socket is dead for the browser, and what was on its way there lost. *)
(* The room has noticed, or (`lingers`) still has the connection.          *)
Leave(s, lingers) ==
    /\ member' = [member EXCEPT ![s] = "none"]
    /\ previous' = [previous EXCEPT ![s] =
                       IF lingers THEN member[s] ELSE "none"]
    /\ down' = [down EXCEPT ![s] = <<>>]
    /\ UNCHANGED <<committed, trimmed>>

(* Mutant: a client just behind the log is caught up from the log. *)
RoomHelloOneBehind(s, since) ==
    /\ member' = [member EXCEPT ![s] = "ready"]
    /\ down' = [down EXCEPT ![s] = Append(@,
           IF since # Fresh /\ OldestBase - 1 <= since /\ since <= Revision
           THEN CatchUp(LogAfter(since))
           ELSE Welcome(Revision, DocumentAt(Revision)))]
    /\ UNCHANGED <<committed, trimmed, previous>>

(* A client reconnecting from a revision the log still reaches catches up, *)
(* any other gets the whole document.                                      *)
RoomHello(s, since) ==
    /\ member' = [member EXCEPT ![s] = "ready"]
    /\ down' = [down EXCEPT ![s] = Append(@,
           IF since # Fresh /\ OldestBase <= since /\ since <= Revision
           THEN CatchUp(LogAfter(since))
           ELSE Welcome(Revision, DocumentAt(Revision)))]
    /\ UNCHANGED <<committed, trimmed, previous>>

(* The same on the previous connection: nobody receives the answer. *)
LateHello(s) ==
    /\ previous' = [previous EXCEPT ![s] = "ready"]
    /\ UNCHANGED <<committed, trimmed, member, down>>

(* A batch still in the log is acked again, not applied. *)
AckAgain(c, m) ==
    /\ \E i \in Logged :
          /\ committed[i].batchId = m.batchId
          /\ \A j \in Logged : j < i => committed[j].batchId # m.batchId
          /\ Post(c, <<Ack(m.batchId, i)>>, <<>>)
    /\ UNCHANGED <<committed, trimmed, member, previous>>

(* Mutant: a batch is not looked for in the log. *)
InLogNever(id) == FALSE

InLog(id) == \E i \in Logged : committed[i].batchId = id

Stale(base) == base > Revision \/ base < OldestBase

(* The batch is made on a revision the log does not reach, is malformed,   *)
(* invalid after the transform, or not the sender's to make: its sender    *)
(* starts over.                                                            *)
Refuse(c, m) ==
    /\ ~InLog(m.batchId)
    /\ Stale(m.base) \/ Refusals
    /\ Post(c, <<Reject(m.batchId), Resync(Revision, DocumentAt(Revision))>>,
            <<>>)
    /\ UNCHANGED <<committed, trimmed, member, previous>>

Commit(c, m) ==
    /\ ~InLog(m.batchId)
    /\ ~Stale(m.base)
    /\ LET entry == [op |-> PastLog(m.op, m.base), batchId |-> m.batchId]
           rev == Revision + 1
       IN  /\ Remember(entry)
           /\ Post(c, <<Ack(m.batchId, rev)>>,
                   <<Remote([revision |-> rev, op |-> entry.op,
                             batchId |-> entry.batchId])>>)
    /\ UNCHANGED <<member, previous>>

(* The room is dropped and rebuilt from its checkpoint and durable log,    *)
(* which hold every committed op but may reach back less far than memory.  *)
Rebuilt ==
    /\ trimmed' \in trimmed .. Revision
    /\ UNCHANGED committed

AllLeave ==
    /\ member' = [s \in Session |-> "none"]
    /\ previous' = [s \in Session |-> "none"]

(* An op threw while being applied: the sender is told, nobody is sent a   *)
(* resync, and the object closes every socket and rebuilds the room.       *)
FailToApply(c, m) ==
    /\ Refusals
    /\ ~InLog(m.batchId)
    /\ ~Stale(m.base)
    /\ Post(c, <<Reject(m.batchId)>>, <<>>)
    /\ AllLeave
    /\ Rebuilt

(* A submit; a connection that has not said hello is not heard. *)
RoomSubmit(c, m, ready) ==
    IF ready THEN AckAgain(c, m) \/ Refuse(c, m) \/ Commit(c, m)
                    \/ FailToApply(c, m)
             ELSE UNCHANGED roomVars

(* An op the server made itself, against the current revision. *)
CommitServer(op) ==
    LET rev == Revision + 1
        id == <<Nobody, rev>>
    IN  /\ Remember([op |-> op, batchId |-> id])
        /\ Post(Nobody, <<>>,
                <<Remote([revision |-> rev, op |-> op, batchId |-> id])>>)
        /\ UNCHANGED <<member, previous>>

(* Mutants: the log of the replaced document is kept; the version comes    *)
(* back under the revision it was saved at, here the first.                *)
RestoreKeepingLog ==
    LET rev == Revision + 1
        entry == [op |-> Restored, batchId |-> <<Nobody, rev>>]
    IN  /\ Remember(entry)
        /\ Post(Nobody, <<>>,
                <<RestoredTo(rev, Append(DocumentAt(Revision), Restored))>>)
        /\ UNCHANGED <<member, previous>>

RestoreAtOldRevision ==
    LET rev == Revision + 1
        entry == [op |-> Restored, batchId |-> <<Nobody, rev>>]
    IN  /\ committed' = Append(committed, entry)
        /\ trimmed' = rev
        /\ Post(Nobody, <<>>, <<RestoredTo(0, <<>>)>>)
        /\ UNCHANGED <<member, previous>>

(* DocRoom.restoreVersion: an earlier version becomes the document at the  *)
(* next revision, in a new room with an empty log that takes over every    *)
(* socket.                                                                 *)
RestoreVersion ==
    LET rev == Revision + 1
        entry == [op |-> Restored, batchId |-> <<Nobody, rev>>]
    IN  /\ committed' = Append(committed, entry)
        /\ trimmed' = rev
        /\ Post(Nobody, <<>>,
                <<RestoredTo(rev, Append(DocumentAt(Revision), Restored))>>)
        /\ UNCHANGED <<member, previous>>

(* The object was evicted and woke up; its sockets stayed open. *)
Hibernate ==
    /\ Rebuilt
    /\ trimmed' # trimmed
    /\ UNCHANGED <<member, previous, down>>

(* The object stopped, and its sockets with it. *)
RoomStops ==
    /\ AllLeave
    /\ Rebuilt
    /\ UNCHANGED down
=============================================================================
