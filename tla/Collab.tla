-------------------------------- MODULE Collab --------------------------------
(***************************************************************************)
(* Co-editing end to end: one room, the browsers connected to it, and the  *)
(* sockets between them.  A socket delivers in order or dies, losing what  *)
(* it still carried; each new socket of a session is a new member of the   *)
(* room.  Sockets of different connections are not ordered with each other.*)
(***************************************************************************)
EXTENDS RoomCore, CollabClient

CONSTANTS
    EditsOf(_),     \* the ops a session's user makes
    ServerOps,      \* the ops the server makes itself
    LateDelivery,   \* may a dead socket still deliver what was sent on it
                    \* after its session has connected again?
    Patient,        \* does every user wait for the answer to an edit?
    MaxEdits, MaxDrops, MaxServerOps, MaxRestores, MaxStops

ASSUME EnvironmentAssumption ==
    /\ \A s \in Session : EditsOf(s) \subseteq Op
    /\ ServerOps \subseteq Op
    /\ LateDelivery \in BOOLEAN /\ Patient \in BOOLEAN
    /\ {MaxEdits, MaxDrops, MaxServerOps, MaxRestores, MaxStops}
            \subseteq Nat

VARIABLES
    late, \* what a session's previous socket may still deliver
    used  \* how often each bounded event has happened

vars == <<committed, trimmed, member, previous, down, client, late, used>>

Bound == [edit |-> MaxEdits, drop |-> MaxDrops,
          serverOp |-> MaxServerOps, restore |-> MaxRestores,
          stop |-> MaxStops]

TypeOK ==
    /\ RoomTypeOK
    /\ ClientTypeOK
    /\ late \in [Session -> Seq(ClientMessage)]
    /\ used \in [DOMAIN Bound -> Nat]

Init ==
    /\ RoomInit
    /\ ClientInit
    /\ late = [s \in Session |-> <<>>]
    /\ used = [event \in DOMAIN Bound |-> 0]

Spend(event) ==
    /\ used[event] < Bound[event]
    /\ used' = [used EXCEPT ![event] = @ + 1]

-----------------------------------------------------------------------------
(* A socket opens with a fresh ticket.  The room takes it in, the browser  *)
(* says hello on it.                                                       *)
Connect(s) ==
    /\ Open(s)
    /\ Join(s)
    /\ UNCHANGED <<late, used>>

(* The browser is without its socket.  What the socket carried to the      *)
(* browser is lost; what it carried to the room is lost too, or            *)
(* (LateDelivery) still under way.                                         *)
SocketGone(s) ==
    /\ Close(s)
    /\ Leave(s, LateDelivery)
    /\ late' = [late EXCEPT ![s] =
                   IF LateDelivery THEN client[s].up ELSE <<>>]

(* The network drops a socket. *)
Disconnect(s) ==
    /\ Spend("drop")
    /\ SocketGone(s)

(* The room closed the socket: the close comes after all the room sent. *)
HungUp(s) ==
    /\ member[s] = "none"
    /\ down[s] = <<>>
    /\ SocketGone(s)
    /\ UNCHANGED used

(* An answer to one of the session's batches is still to come. *)
Awaiting(s) ==
    \/ Pending(client[s]) # <<>>
    \/ client[s].up # <<>>
    \/ \E i \in DOMAIN down[s] : down[s][i].type # "op"

Edit(s) ==
    /\ Spend("edit")
    /\ Patient => ~Awaiting(s)
    /\ \E op \in EditsOf(s) : Apply(s, op)
    /\ UNCHANGED <<roomVars, late>>

(* The room handles the next message of a session's connection. *)
ToRoom(s) ==
    /\ client[s].up # <<>>
    /\ Update(s, [client[s] EXCEPT !.up = Tail(@)])
    /\ LET m == Head(client[s].up)
       IN  CASE member[s] = "none" -> UNCHANGED roomVars
             [] m.type = "hello"   -> RoomHello(s, m.since)
             [] m.type = "submit"  -> RoomSubmit(s, m, member[s] = "ready")
    /\ UNCHANGED <<late, used>>

(* The room handles a message of a session's previous connection, which    *)
(* for the room is another member, whose answers nobody receives.          *)
LateToRoom(s) ==
    /\ late[s] # <<>>
    /\ late' = [late EXCEPT ![s] = Tail(@)]
    /\ LET m == Head(late[s])
       IN  CASE previous[s] = "none" -> UNCHANGED roomVars
             [] m.type = "hello"     -> LateHello(s)
             [] m.type = "submit"    ->
                    RoomSubmit(Nobody, m, previous[s] = "ready")
    /\ UNCHANGED <<client, used>>

(* The browser handles the next message from the room. *)
ToClient(s) ==
    /\ client[s].open
    /\ down[s] # <<>>
    /\ Update(s, Received(s, client[s], Head(down[s])))
    /\ down' = [down EXCEPT ![s] = Tail(@)]
    /\ UNCHANGED <<committed, trimmed, member, previous, late, used>>

ServerOp ==
    /\ Spend("serverOp")
    /\ \E op \in ServerOps : CommitServer(op)
    /\ UNCHANGED <<client, late>>

Restore ==
    /\ Spend("restore")
    /\ RestoreVersion
    /\ UNCHANGED <<client, late>>

Stop ==
    /\ Spend("stop")
    /\ RoomStops
    /\ UNCHANGED <<client, late>>

Sleep ==
    /\ Spend("stop")
    /\ Hibernate
    /\ UNCHANGED <<client, late>>

Next ==
    \/ \E s \in Session : \/ Connect(s) \/ Disconnect(s) \/ HungUp(s)
                          \/ Edit(s) \/ ToRoom(s) \/ LateToRoom(s) \/ ToClient(s)
    \/ ServerOp \/ Restore \/ Stop \/ Sleep

Spec == Init /\ [][Next]_vars

(* Sockets deliver while they live, a close is noticed, and a browser      *)
(* without a socket retries for ever (doc-connection.ts: retry).           *)
Fairness ==
    \A s \in Session :
        /\ WF_vars(Connect(s)) /\ WF_vars(HungUp(s))
        /\ WF_vars(ToRoom(s)) /\ WF_vars(ToClient(s))
        /\ WF_vars(LateToRoom(s))

FairSpec == Spec /\ Fairness

-----------------------------------------------------------------------------
(* Every loaded client shows the room's document at its revision with its  *)
(* own unacked edits on top: the rebase of client.ts agrees with the       *)
(* transform of room.ts whatever the transform is.                         *)
DocumentMatchesRoom ==
    \A s \in Session : client[s].loaded =>
        /\ client[s].revision <= Revision
        /\ client[s].doc = DocumentAt(client[s].revision) \o Pending(client[s])

(* A session with nothing under way and nothing pending. *)
Quiet(s) ==
    /\ client[s].open /\ member[s] = "ready"
    /\ client[s].up = <<>> /\ down[s] = <<>>
    /\ Pending(client[s]) = <<>>
    /\ late[s] = <<>>

(* "Every replica therefore runs the same ops in the same order, and the   *)
(* document converges" (client.ts): a session that has received everything *)
(* the room sent it and has no edit pending shows the room's document.     *)
Convergence ==
    \A s \in Session : Quiet(s) =>
        client[s].doc = DocumentAt(Revision)

(* No batch is committed twice, however often it is sent: it is in the log *)
(* and acked again, or behind the log and refused as stale (room.ts:       *)
(* "already committed ... is acked again, not applied").                   *)
CommittedOnce ==
    \A i, j \in DOMAIN committed :
        committed[i].batchId = committed[j].batchId => i = j

(* A connected client never sees a gap: remote() ignores an op that is not *)
(* the next revision and nothing asks for the missing one.                 *)
NoOpIgnored ==
    \A s \in Session :
        client[s].open /\ down[s] # <<>> =>
            LET m == Head(down[s])
            IN  m.type = "op" => /\ client[s].loaded
                                 /\ m.committed.revision = client[s].revision + 1

(* A client never goes back to an earlier revision of the document. *)
RevisionNeverRegresses ==
    [][\A s \in Session : client'[s].revision >= client[s].revision]_vars

(* Once people stop editing and sockets stop dying, every edit is answered *)
(* and every session has received all the room had for it.                 *)
EverythingSettles == <>[](\A s \in Session : Quiet(s))

-----------------------------------------------------------------------------
(* Why no batch is committed twice: a batch of which the room has a commit *)
(* at revision k is only ever sent, or still in flight at a client, with a *)
(* base before k.  So either k is in the log and the batch is found there, *)
(* or the base is behind the log.                                          *)
InHistory(hist, c) ==
    /\ c.revision \in DOMAIN hist
    /\ c.op = hist[c.revision].op
    /\ c.batchId = hist[c.revision].batchId

SubmitAhead(hist, s, cl, m) ==
    m.type = "submit" =>
        /\ m.batchId[1] = s /\ m.batchId[2] <= cl.batches
        /\ m.base <= Len(hist)
        /\ \A k \in DOMAIN hist : hist[k].batchId = m.batchId => m.base < k

ClientAhead(hist, s, cl) ==
    /\ cl.revision <= Len(hist)
    /\ \A k \in DOMAIN hist :
          /\ hist[k].batchId[1] = s => hist[k].batchId[2] <= cl.batches
          /\ cl.inflight # <<>> /\ hist[k].batchId = InflightId(s, cl)
                => cl.revision < k
    /\ \A i \in DOMAIN cl.up : SubmitAhead(hist, s, cl, cl.up[i])

(* What the room tells a client is so, and it never tells a session of its *)
(* own batch as someone else's.                                            *)
MessageTrue(hist, s, m) ==
    /\ m.type \in {"welcome", "resync", "restored", "ack"} =>
          m.revision <= Len(hist)
    /\ m.type = "catchUp" =>
          \A i \in DOMAIN m.missed : InHistory(hist, m.missed[i])
    /\ m.type = "op" =>
          InHistory(hist, m.committed) /\ m.committed.batchId[1] # s

Bookkeeping ==
    /\ CommittedOnce
    /\ \A i \in DOMAIN committed :
          committed[i].batchId[1] = Nobody => committed[i].batchId[2] = i
    /\ \A s \in Session :
          /\ ClientAhead(committed, s, client[s])
          /\ \A i \in DOMAIN down[s] : MessageTrue(committed, s, down[s][i])
          /\ late[s] = <<>>
=============================================================================
