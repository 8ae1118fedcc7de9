------------------------------ MODULE MailboxCopy ------------------------------
(***************************************************************************)
(* A mailbox's copy in its Durable Object (packages/domains/mail/src/      *)
(* mailbox-object).  The messages are in the tenant's Postgres; in mode    *)
(* shadow each write goes there first and then, from waitUntil, to the     *)
(* object (store/router.ts).  What Postgres held before, and what got      *)
(* lost, the object copies from its alarm, one page a tick (backfill.ts):  *)
(* the drafts, the messages by their creation, and at last the messages    *)
(* written since that began, by their last change.  Writes and copied      *)
(* rows meet in the object: an operation older than a group of fields it   *)
(* touches is dropped (changeMessage).                                     *)
(*                                                                         *)
(* A message's groups of fields are two: "delete", and "content" for the   *)
(* other seven.  The drafts stand for the subscriptions too.  An alarm     *)
(* comes when it is due: the waits after a failed tick are left out, and   *)
(* so are the five minutes the last phase looks back.  Which store is      *)
(* written first is the workspace's mode; of mode object there is only     *)
(* the marking of a large folder as read, for the continuation it leaves   *)
(* to the alarm, not for its marks.  Left out: outbox, snoozes, mode       *)
(* object's writes, hard deletes, parity, reverse sync, destroy.           *)
(***************************************************************************)
EXTENDS Naturals, FiniteSets, FiniteSetsExt

CONSTANTS
    Messages,            \* messages are 1 .. Messages, in the order of their creation
    Old,                 \* those in Postgres before the object is written to
    PageSize,            \* rows of a page
    MaxAttempts,         \* failed ticks in a row that end a backfill
    FolderBatches,       \* what a marked folder leaves for the alarm
    InOrder,             \* no write reaches the object before the ingest of its message
    Delay,               \* by how many writes a commit may come after its own time
    RebuildDuringTick,   \* a rebuild may come while a tick awaits
    MaxWrites, MaxCalls, MaxFaults   \* bounds: writes; starts, rebuilds and folders; faults

ASSUME MailboxBounds ==
    /\ Messages \in Nat /\ Old \subseteq 1 .. Messages
    /\ PageSize \in Nat \ {0} /\ MaxAttempts \in Nat \ {0} /\ FolderBatches \in Nat \ {0}
    /\ Delay \in 0 .. 1
    /\ MaxWrites \in Nat /\ MaxCalls \in Nat /\ MaxFaults \in Nat
ASSUME MailboxOrders == InOrder \in BOOLEAN /\ RebuildDuringTick \in BOOLEAN

VARIABLES
    clock,               \* the time of the last write
    pg,                  \* the rows in Postgres
    flying,              \* writes on their way to the object
    lost,                \* those that failed for good
    object,              \* the rows in the object
    backfill,            \* meta.backfill
    slot,                \* the one continuation the object remembers
    left,                \* batches of the folder not marked yet
    alarm,               \* whether an alarm is set
    tick,                \* the alarm's handler
    used

store == <<pg, flying, lost, clock>>
vars == <<store, object, backfill, slot, left, alarm, tick, used>>

Message == 1 .. Messages
Time == 0 .. (MaxWrites + 2)
Row == [content : Time, deleted : Time, updated : Time]
Write == [kind : {"ingest", "change", "delete"}, msg : Message, at : Time]
Copy == [content : Time, deleted : Time, clk : [content : Time, delete : Time]]
Cursor == Time \X (0 .. Messages)
Start == <<0, 0>>
Backfill == [state : {"idle", "running", "catchup", "done", "failed"},
             phase : {"drafts", "messages", "catchup", "done"},
             cursor : Cursor, watermark : Time, finishedAt : Time, attempts : 0 .. MaxAttempts]
Idle == [state |-> "idle", phase |-> "drafts", cursor |-> Start,
         watermark |-> 0, finishedAt |-> 0, attempts |-> 0]
NoTick == [phase |-> "off", now |-> 0, seen |-> Idle, next |-> Idle, rows |-> {}]

With(f, m, row) == [x \in DOMAIN f \cup {m} |-> IF x = m THEN row ELSE f[x]]

Running(b) == b.state \in {"running", "catchup"}
Pending == slot = "folder" \/ (slot = "maintenance" /\ Running(backfill))
RecomputeAlarm == alarm' = Pending'

TypeOK ==
    /\ clock \in Time
    /\ DOMAIN pg \subseteq Message /\ \A m \in DOMAIN pg : pg[m] \in Row
    /\ DOMAIN object \subseteq DOMAIN pg /\ \A m \in DOMAIN object : object[m] \in Copy
    /\ flying \subseteq Write /\ lost \subseteq Write
    /\ backfill \in Backfill
    /\ slot \in {"none", "maintenance", "folder"} /\ left \in 0 .. FolderBatches
    /\ alarm \in BOOLEAN
    /\ tick.phase \in {"off", "started", "reading", "copying"}
    /\ tick.now \in 0 .. clock /\ tick.seen \in Backfill /\ tick.next \in Backfill
    /\ tick.rows \subseteq [msg : DOMAIN pg, row : Row]
    /\ used \in [writes : 0 .. MaxWrites, calls : 0 .. MaxCalls, faults : 0 .. MaxFaults]

Init ==
    /\ clock = 2
    /\ pg = [m \in Old |-> [content |-> 1, deleted |-> 0, updated |-> 1]]
    /\ flying = {} /\ lost = {}
    /\ object = [m \in {} |-> 0]
    /\ backfill = Idle /\ slot = "none" /\ left = 0 /\ alarm = FALSE
    /\ tick = NoTick
    /\ used = [writes |-> 0, calls |-> 0, faults |-> 0]

(***************************************************************************)
(* The two stores' writes.                                                 *)
(***************************************************************************)
(* The router commits a write in Postgres and then hands it to the object, *)
(* both with the time it took before.                                      *)
Stamps == {clock + 1 - d : d \in 0 .. Delay}

Dual(kind, m, at, row) ==
    /\ used.writes < MaxWrites
    /\ used' = [used EXCEPT !.writes = @ + 1]
    /\ clock' = clock + 1
    /\ pg' = With(pg, m, row)
    /\ flying' = flying \cup {[kind |-> kind, msg |-> m, at |-> at]}
    /\ UNCHANGED <<lost, object, backfill, slot, left, alarm, tick>>

Ingest ==
    \E m \in Message \ DOMAIN pg, at \in Stamps :
        Dual("ingest", m, at, [content |-> at, deleted |-> 0, updated |-> at])

Change ==
    \E m \in DOMAIN pg, at \in Stamps :
        /\ pg[m].deleted = 0
        /\ Dual("change", m, at, [pg[m] EXCEPT !.content = at, !.updated = at])

Delete ==
    \E m \in DOMAIN pg, at \in Stamps :
        /\ pg[m].deleted = 0
        /\ Dual("delete", m, at, [pg[m] EXCEPT !.deleted = at, !.updated = at])

(* What the object makes of a write: an ingest is inserted unless the      *)
(* message is there, a change or delete of a message it does not have is   *)
(* dropped as missing, one older than its group as stale.                  *)
Applied(o, w) ==
    CASE w.kind = "ingest" /\ w.msg \notin DOMAIN o ->
            With(o, w.msg, [content |-> w.at, deleted |-> 0,
                            clk |-> [content |-> w.at, delete |-> w.at]])
      [] w.kind = "change" /\ w.msg \in DOMAIN o /\ w.at >= o[w.msg].clk.content ->
            [o EXCEPT ![w.msg].content = w.at, ![w.msg].clk.content = w.at]
      [] w.kind = "delete" /\ w.msg \in DOMAIN o /\ w.at >= o[w.msg].clk.delete
                           /\ o[w.msg].deleted = 0 ->
            [o EXCEPT ![w.msg].deleted = w.at, ![w.msg].clk.delete = w.at]
      [] OTHER -> o

(* apply and afterWrite.  The stub tries again when the answer got lost:   *)
(* the write was applied and is still on its way.                          *)
Deliver ==
    \E w \in flying :
        /\ (InOrder /\ w.kind # "ingest") =>
              ~ \E v \in flying : v.kind = "ingest" /\ v.msg = w.msg
        /\ object' = Applied(object, w)
        /\ \/ flying' = flying \ {w} /\ UNCHANGED used
           \/ /\ used.faults < MaxFaults
              /\ used' = [used EXCEPT !.faults = @ + 1]
              /\ UNCHANGED flying
        /\ UNCHANGED <<pg, lost, clock, backfill, slot, left, tick>>
        /\ RecomputeAlarm

(* All its attempts failed: the router logs it and marks the mailbox.      *)
DeliveryFails ==
    \E w \in flying :
        /\ used.faults < MaxFaults
        /\ flying' = flying \ {w} /\ lost' = lost \cup {w}
        /\ used' = [used EXCEPT !.faults = @ + 1]
        /\ UNCHANGED <<pg, clock, object, backfill, slot, left, alarm, tick>>

(***************************************************************************)
(* The admin's calls, and the folder marked as read.                       *)
(***************************************************************************)
Begin ==
    /\ used.calls < MaxCalls
    /\ used' = [used EXCEPT !.calls = @ + 1]
    /\ backfill' = [Idle EXCEPT !.state = "running"]
    /\ slot' = "maintenance"
    /\ UNCHANGED <<store, left, tick>>
    /\ RecomputeAlarm

(* Nothing happens when a backfill is under way, nor, unless forced, after *)
(* one has ended well.                                                     *)
StartBackfill ==
    /\ ~Running(backfill)
    /\ Begin
    /\ UNCHANGED object

RebuildMailbox ==
    /\ RebuildDuringTick \/ tick.phase \in {"off", "started"}
    /\ Begin
    /\ object' = [m \in {} |-> 0]

\* Mutant: the alarm is not computed anew after a folder's call.
FolderReadAsleep ==
    /\ used.calls < MaxCalls
    /\ used' = [used EXCEPT !.calls = @ + 1]
    /\ slot' = "folder" /\ left' = FolderBatches
    /\ UNCHANGED <<store, object, backfill, tick, alarm>>

(* Mode object: more messages than one call marks, the rest is the alarm's. *)
FolderRead ==
    /\ used.calls < MaxCalls
    /\ used' = [used EXCEPT !.calls = @ + 1]
    /\ slot' = "folder" /\ left' = FolderBatches
    /\ UNCHANGED <<store, object, backfill, tick>>
    /\ RecomputeAlarm

(***************************************************************************)
(* The alarm.                                                              *)
(***************************************************************************)
(* The handler takes the time, and awaits the delivery of the outbox.      *)
AlarmFires ==
    /\ alarm /\ tick.phase = "off"
    /\ alarm' = FALSE
    /\ tick' = [NoTick EXCEPT !.phase = "started", !.now = clock]
    /\ UNCHANGED <<store, object, backfill, slot, left, used>>

\* Mutant: the continuation is cleared though there is more.
ContinueFolderOnce ==
    /\ tick.phase = "started" /\ slot = "folder"
    /\ left' = left - 1 /\ slot' = "none"
    /\ tick' = NoTick
    /\ UNCHANGED <<store, object, backfill, used>>
    /\ RecomputeAlarm

\* Mutant: the continuation is not cleared at the end.
ContinueFolderForever ==
    /\ tick.phase = "started" /\ slot = "folder"
    /\ left' = left - 1
    /\ tick' = NoTick
    /\ UNCHANGED <<store, object, backfill, slot, used>>
    /\ RecomputeAlarm

(* One more call of the folder's operation, which says whether to go on.   *)
ContinueFolder ==
    /\ tick.phase = "started" /\ slot = "folder"
    /\ left' = left - 1
    /\ slot' = IF left' > 0 THEN "folder" ELSE "none"
    /\ tick' = NoTick
    /\ UNCHANGED <<store, object, backfill, used>>
    /\ RecomputeAlarm

(* tickBackfill reads the state once, before it opens the tenant's Postgres. *)
StartTick ==
    /\ tick.phase = "started" /\ slot = "maintenance"
    /\ IF Running(backfill)
       THEN /\ tick' = [tick EXCEPT !.phase = "reading", !.seen = backfill, !.next = backfill]
            /\ UNCHANGED <<slot, alarm>>
       ELSE /\ tick' = NoTick /\ slot' = "none"
            /\ RecomputeAlarm
    /\ UNCHANGED <<store, object, backfill, left, used>>

(* A page's rows come in the order of its cursor: by creation, at last by  *)
(* their last change.                                                      *)
Key(b, m, row) == IF b.phase = "messages" THEN <<0, m>> ELSE <<row.updated, m>>
Before(j, k) == j[1] < k[1] \/ (j[1] = k[1] /\ j[2] < k[2])

PageRows(b) ==
    LET key(m) == Key(b, m, pg[m])
        due == {m \in DOMAIN pg : /\ Before(b.cursor, key(m))
                                  /\ b.phase = "catchup" => pg[m].updated >= b.watermark}
        page == IF Cardinality(due) <= PageSize THEN due
                ELSE CHOOSE p \in kSubset(PageSize, due) :
                        \A m \in p, n \in due \ p : Before(key(m), key(n))
    IN  {[msg |-> m, row |-> pg[m]] : m \in page}

\* Mutant: a backfill is done with the messages' last page.
AfterLastNoCatchup(b, now) ==
    IF b.phase = "drafts" THEN [b EXCEPT !.phase = "messages", !.watermark = now]
    ELSE [b EXCEPT !.state = "done", !.phase = "done", !.cursor = Start, !.finishedAt = now]

(* The state once the last page of a phase is copied; the drafts' page is. *)
AfterLast(b, now) ==
    CASE b.phase = "drafts" ->
            [b EXCEPT !.phase = "messages", !.watermark = now]
      [] b.phase = "messages" ->
            [b EXCEPT !.state = "catchup", !.phase = "catchup", !.cursor = Start]
      [] OTHER ->
            [b EXCEPT !.state = "done", !.phase = "done", !.cursor = Start, !.finishedAt = now]

(* A full page is not the last: the next begins after its last row.        *)
AfterPage(b, rows, now) ==
    LET keys == {Key(b, r.msg, r.row) : r \in rows}
    IN  IF Cardinality(rows) = PageSize
        THEN [b EXCEPT !.cursor = CHOOSE k \in keys : \A j \in keys : ~Before(k, j)]
        ELSE AfterLast(b, now)

ReadPage ==
    /\ tick.phase = "reading"
    /\ LET rows == IF tick.seen.phase = "drafts" THEN {} ELSE PageRows(tick.seen)
       IN  tick' = [tick EXCEPT !.phase = "copying", !.rows = rows,
                                !.next = AfterPage(tick.seen, rows, tick.now)]
    /\ UNCHANGED <<store, object, backfill, slot, left, alarm, used>>

\* Mutant: a row overwrites what the object has, however new.
MergedUnclocked(o, r, now) ==
    LET clk == IF r.msg \in DOMAIN o THEN r.row.updated ELSE now
    IN  With(o, r.msg, [content |-> r.row.content, deleted |-> r.row.deleted,
                        clk |-> [content |-> clk, delete |-> clk]])

(* applyPgRow.  A row the object lacks is ingested at the tick's time, and *)
(* then deleted at its own, when it was; one it has is overwritten, unless *)
(* some group of it is newer than the row.                                 *)
Merged(o, r, now) ==
    IF r.msg \notin DOMAIN o
    THEN LET new == With(o, r.msg, [content |-> r.row.content, deleted |-> 0,
                                    clk |-> [content |-> now, delete |-> now]])
         IN  IF r.row.deleted = 0 THEN new
             ELSE Applied(new, [kind |-> "delete", msg |-> r.msg, at |-> r.row.deleted])
    ELSE IF r.row.updated < o[r.msg].clk.content \/ r.row.updated < o[r.msg].clk.delete THEN o
    ELSE With(o, r.msg, [content |-> r.row.content, deleted |-> r.row.deleted,
                         clk |-> [content |-> r.row.updated, delete |-> r.row.updated]])

(* Before each row the object awaits R2, for the message's body.           *)
CopyRow ==
    /\ tick.phase = "copying"
    /\ \E r \in tick.rows :
          /\ \A q \in tick.rows \ {r} :
                Before(Key(tick.seen, r.msg, r.row), Key(tick.seen, q.msg, q.row))
          /\ object' = Merged(object, r, tick.now)
          /\ tick' = [tick EXCEPT !.rows = @ \ {r}]
    /\ UNCHANGED <<store, backfill, slot, left, alarm, used>>

\* Mutant: the last phase does not keep the continuation.
FinishInCatchup(b) ==
    /\ backfill' = b
    /\ slot' = IF b.state = "running" THEN "maintenance" ELSE "none"
    /\ tick' = NoTick
    /\ UNCHANGED <<store, object, left>>
    /\ RecomputeAlarm

(* What the tick writes to meta.backfill, whatever is there by now, and    *)
(* the continuation after it.                                              *)
Finish(b) ==
    /\ backfill' = b
    /\ slot' = IF Running(b) THEN "maintenance" ELSE "none"
    /\ tick' = NoTick
    /\ UNCHANGED <<store, object, left>>
    /\ RecomputeAlarm

EndTick ==
    /\ tick.phase = "copying" /\ tick.rows = {}
    /\ Finish([tick.next EXCEPT !.attempts = 0])
    /\ UNCHANGED used

Failed(b) ==
    [b EXCEPT !.attempts = @ + 1, !.state = IF b.attempts + 1 >= MaxAttempts THEN "failed" ELSE @]

(* Postgres or R2 throws.                                                  *)
TickFails ==
    /\ tick.phase \in {"reading", "copying"}
    /\ used.faults < MaxFaults
    /\ used' = [used EXCEPT !.faults = @ + 1]
    /\ Finish(Failed(tick.seen))

(* The object stops in its handler; the runtime calls the alarm again.     *)
Stop ==
    /\ tick.phase # "off"
    /\ used.faults < MaxFaults
    /\ used' = [used EXCEPT !.faults = @ + 1]
    /\ tick' = NoTick /\ alarm' = TRUE
    /\ UNCHANGED <<store, object, backfill, slot, left>>

Alarm == AlarmFires \/ ContinueFolder \/ StartTick \/ ReadPage \/ CopyRow \/ EndTick

Next ==
    \/ Ingest \/ Change \/ Delete \/ Deliver \/ DeliveryFails
    \/ StartBackfill \/ RebuildMailbox \/ FolderRead
    \/ Alarm \/ TickFails \/ Stop

(* The runtime calls the alarm when it is due; what the handler awaits     *)
(* comes, or fails.                                                        *)
Spec == Init /\ [][Next]_vars /\ WF_vars(Alarm)

(***************************************************************************)
(* Properties.                                                             *)
(***************************************************************************)
Done == backfill.state = "done"

(* Once the backfill is done the object has every message of Postgres,     *)
(* whenever it came, unless its own ingest is still under way or was lost  *)
(* after the last page was due (the phases of tickBackfill miss no row).   *)
CopiedWhenDone ==
    Done => \A m \in DOMAIN pg \ DOMAIN object :
        \E w \in flying \cup lost :
            w.kind = "ingest" /\ w.msg = m /\ (w \in lost => w.at > backfill.finishedAt)

(* Once it is done a message that is not deleted has the same content in   *)
(* the object as in Postgres, unless a write of it is under way or was     *)
(* lost; and for the messages that were there at first only a loss after   *)
(* the last tick began counts, earlier ones are made good (changeMessage's *)
(* clocks keep neither an old page over a new write nor an old write over  *)
(* a new page).                                                            *)
SameWhenDone ==
    Done => \A m \in DOMAIN pg \cap DOMAIN object :
        \/ pg[m].deleted # 0
        \/ object[m].content = pg[m].content
        \/ \E w \in flying : w.msg = m
        \/ \E w \in lost : w.msg = m /\ (m \notin Old \/ w.at > backfill.finishedAt)

(* Once it is done a message deleted before the last tick began is deleted *)
(* in the object (the comment above applyPgRow).                           *)
DeletedWhenDone ==
    Done => \A m \in DOMAIN pg \cap DOMAIN object :
        pg[m].deleted # 0 /\ pg[m].updated <= backfill.finishedAt => object[m].deleted # 0

(* While a continuation waits an alarm is set, or its handler is running   *)
(* (recomputeAlarm, and the alarm that is delivered again).                *)
NothingPendsWithoutAlarm == Pending => alarm \/ tick.phase # "off"

(* A backfill ends, done or failed, unless the one continuation is taken   *)
(* by a folder's.                                                          *)
BackfillEnds ==
    (Running(backfill) /\ slot = "maintenance") ~> (~Running(backfill) \/ slot = "folder")

(* A folder marked as read while no tick of a backfill is under way (its   *)
(* end would clear the continuation) is marked to the last batch, unless a *)
(* backfill is started and takes the continuation.                         *)
FolderReadEnds ==
    (slot = "folder" /\ tick.phase \notin {"reading", "copying"}) ~> (left = 0 \/ slot = "maintenance")

================================================================================
