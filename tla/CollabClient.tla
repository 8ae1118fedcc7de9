----------------------------- MODULE CollabClient -----------------------------
(***************************************************************************)
(* The browser half of co-editing (packages/core/collab/src/client.ts) and *)
(* the connection that carries it (welddocs/collab/doc-connection.ts).     *)
(*                                                                         *)
(* Local edits apply at once and go to the room as one batch at a time.    *)
(* When someone else's op arrives the client takes its own unacked edits   *)
(* off, applies the op, and puts its edits back transformed as the room    *)
(* will transform them.                                                    *)
(*                                                                         *)
(* A handler is a function from a client's state to its next state; what   *)
(* it sends is appended to the client's outgoing queue.                    *)
(***************************************************************************)
EXTENDS CollabProtocol

VARIABLE client

NoneOrOne(S) == {<<>>} \cup {<<x>> : x \in S}

Client ==
    [open     : BOOLEAN,          \* the socket is OPEN
     loaded   : BOOLEAN,          \* state is not null
     doc      : Document,         \* the local document
     revision : Nat,
     inflight : NoneOrOne(Op),    \* the batch sent and not yet acked
     buffer   : NoneOrOne(Op),    \* edits made since
     batches  : Nat,              \* batchCounter
     up       : Seq(ClientMessage)] \* sent, not yet at the room

ClientTypeOK == client \in [Session -> Client]

NewClient == [open |-> FALSE, loaded |-> FALSE, doc |-> <<>>, revision |-> 0,
              inflight |-> <<>>, buffer |-> <<>>, batches |-> 0, up |-> <<>>]

ClientInit == client = [s \in Session |-> NewClient]

-----------------------------------------------------------------------------
Pending(cl) == cl.inflight \o cl.buffer

(* The id of the batch in flight: the last one made. *)
InflightId(s, cl) == <<s, cl.batches>>

(* The document without the unacked edits: their inverses, last one first. *)
Undone(cl) == SubSeq(cl.doc, 1, Len(cl.doc) - Len(Pending(cl)))

(* While disconnected nothing is sent. *)
Send(cl, m) == IF cl.open THEN [cl EXCEPT !.up = Append(@, m)] ELSE cl

SendInflight(s, cl) ==
    Send(cl, Submit(InflightId(s, cl), cl.revision, cl.inflight[1]))

(* The buffer becomes the batch in flight, unless there is one already. *)
Flush(s, cl) ==
    IF cl.inflight # <<>> \/ cl.buffer = <<>> THEN cl
    ELSE SendInflight(s, [cl EXCEPT !.batches = @ + 1,
                                    !.inflight = cl.buffer,
                                    !.buffer = <<>>])

(* A local edit: applied to the document, buffered, flushed. *)
Applied(s, cl, op) ==
    LET buffer == IF cl.buffer = <<>> THEN <<op>>
                  ELSE <<Then(cl.buffer[1], op)>>
    IN  Flush(s, [cl EXCEPT !.doc = Undone(cl) \o cl.inflight \o buffer,
                            !.buffer = buffer])

Reset(cl, rev, snapshot) ==
    [cl EXCEPT !.loaded = TRUE, !.doc = snapshot, !.revision = rev,
               !.inflight = <<>>, !.buffer = <<>>]

(* Mutant: a reject leaves the document as it is. *)
RolledBackKeepingDoc(s, cl, id) ==
    IF ~cl.loaded \/ cl.inflight = <<>> \/ id # InflightId(s, cl) THEN cl
    ELSE [cl EXCEPT !.inflight = <<>>, !.buffer = <<>>]

(* The room refused the batch in flight: every unconfirmed edit goes. *)
RolledBack(s, cl, id) ==
    IF ~cl.loaded \/ cl.inflight = <<>> \/ id # InflightId(s, cl) THEN cl
    ELSE [cl EXCEPT !.doc = Undone(cl), !.inflight = <<>>, !.buffer = <<>>]

Acked(s, cl, id, rev) ==
    IF cl.inflight = <<>> \/ id # InflightId(s, cl) THEN cl
    ELSE Flush(s, [cl EXCEPT !.revision = rev, !.inflight = <<>>])

(* Mutant: the client lets its edit lose the tie. *)
AfterLosing(edits, op) ==
    IF edits = <<>> THEN <<>> ELSE <<Transform(edits[1], op, FALSE)>>

(* Unacked edits as they apply after `op`, the way the room will transform *)
(* them.                                                                   *)
After(edits, op) ==
    IF edits = <<>> THEN <<>> ELSE <<Transform(edits[1], op, TRUE)>>

(* `op` as it applies after unacked edits. *)
Against(op, edits) ==
    IF edits = <<>> THEN op ELSE Transform(op, edits[1], FALSE)

(* Someone else's op, committed as the revision after ours: it goes under  *)
(* our edits.  Any other revision is ignored.                              *)
Rebased(cl, c) ==
    IF ~cl.loaded \/ c.revision # cl.revision + 1 THEN cl
    ELSE LET inflight == After(cl.inflight, c.op)
             buffer == After(cl.buffer, Against(c.op, cl.inflight))
         IN  [cl EXCEPT !.doc = Append(Undone(cl), c.op)
                                    \o inflight \o buffer,
                        !.revision = c.revision,
                        !.inflight = inflight,
                        !.buffer = buffer]

(* Mutant: our own batch is taken for someone else's. *)
CaughtUpAsRemote(s, cl, c) == Rebased(cl, c)

(* One op of a catch-up: our own batch among them means its ack was lost. *)
CaughtUp(s, cl, c) ==
    IF cl.inflight # <<>> /\ c.batchId = InflightId(s, cl)
    THEN Acked(s, cl, c.batchId, c.revision)
    ELSE Rebased(cl, c)

(* Mutant: the batch in flight is not sent again. *)
WelcomedSendingNothing(s, cl, missed) ==
    LET upTo[i \in 0 .. Len(missed)] ==
            IF i = 0 THEN cl ELSE CaughtUp(s, upTo[i - 1], missed[i])
    IN  Flush(s, upTo[Len(missed)])

(* The welcome of a reconnect: the ops missed in order, then the batch in  *)
(* flight is sent again.                                                   *)
Welcomed(s, cl, missed) ==
    LET upTo[i \in 0 .. Len(missed)] ==
            IF i = 0 THEN cl ELSE CaughtUp(s, upTo[i - 1], missed[i])
        now == upTo[Len(missed)]
    IN  IF now.inflight # <<>> THEN SendInflight(s, now) ELSE Flush(s, now)

(* What a message from the room does to the client. *)
Received(s, cl, m) ==
    CASE m.type \in {"welcome", "resync", "restored"} ->
                                Reset(cl, m.revision, m.snapshot)
      [] m.type = "catchUp" -> Welcomed(s, cl, m.missed)
      [] m.type = "ack"     -> Acked(s, cl, m.batchId, m.revision)
      [] m.type = "op"      -> Rebased(cl, m.committed)
      [] m.type = "reject"  -> RolledBack(s, cl, m.batchId)

-----------------------------------------------------------------------------
Update(s, cl) == client' = [client EXCEPT ![s] = cl]

(* The socket opened, for the first time or again: the client says hello. *)
Open(s) ==
    LET cl == client[s]
        since == IF cl.loaded THEN cl.revision ELSE Fresh
    IN  /\ ~cl.open
        /\ Update(s, [cl EXCEPT !.open = TRUE, !.up = <<Hello(since)>>])

Close(s) ==
    /\ client[s].open
    /\ Update(s, [client[s] EXCEPT !.open = FALSE, !.up = <<>>])

(* Edits are possible as soon as the document is loaded, connected or not. *)
Apply(s, op) ==
    /\ client[s].loaded
    /\ Update(s, Applied(s, client[s], op))
=============================================================================
