# WeldSuite: a TLA+ verification project

WeldSuite is a suite of business applications (documents, mail, CRM,
accounting, signing, helpdesk, outreach) that runs as Cloudflare Workers and
Durable Objects (`apps/workers`, TypeScript) with a Rust implementation of the
same services (`rust/`), browser and mobile front ends (`apps/web`,
`apps/mobile`) and shared packages (`packages/`). Most of it is request handlers over one
tenant database per workspace. What follows is about the parts that have a
protocol, a ledger or a state machine of their own.

## 1. Inventory

Paths are relative to `src/`.

### A. Co-editing (`packages/core/collab`)

* **State.** The *room* (`RoomCore`, room.ts) keeps the document, its
  revision, a bounded log of committed batches, its members and which of them
  have said hello. The *client* (`CollabClient`, client.ts) keeps the local
  document, the revision it is based on, the batch in flight, a buffer of later
  edits, and a counter of batches.
* **Operations.** hello (welcome with a snapshot, or catch-up from the log),
  submit (ack, ack again, reject + resync, or commit and broadcast), server
  ops, join and leave; on the client apply, welcome, ack, remote, reject,
  resync, restored.
* **Interaction.** JSON messages over a WebSocket per connection. A session
  outlives its sockets and gets a new member id with each.
* **Hard.** The client and the room transform the same batch independently and
  have to agree; sockets die with messages on them; a batch is sent again after a
  reconnect; the log is cut; a resync, a restore or a rebuild of the room
  crosses edits under way.
* **Correct when** everyone ends up with the same document, no batch is applied
  twice, no edit disappears in silence, and everything is eventually answered.

### B. Document rooms (`apps/workers/docs-api/src/room`)

* **State.** A Durable Object per document. In memory: the room, the revision
  of the latest checkpoint, a running checkpoint, a running restore, whether an
  alarm is pending. In its own storage: the op log, a floor below which logged
  ops are void, tickets, the alarm. In R2: one checkpoint, and versions.
* **Operations.** Admit, accept and close sockets, dispatch messages to the
  room, log a commit, checkpoint (every 200 ops, 30 s after an edit, when the
  last person leaves), trim the log, load after a stop, reload after an op that
  failed to apply, save a version, restore a version.
* **Interaction.** Calls into `RoomCore`; RPCs from the routes; storage behind
  an output gate (nothing leaves before earlier writes are durable); puts to R2;
  a row in the tenant database and an entity event after each checkpoint.
* **Hard.** One event at a time, but every `await` lets others in: edits,
  closes and alarms run in the middle of a checkpoint, and a stop may come
  between any two steps. Restores, loads and checkpoints share four fields.
* **Correct when** no acked edit is lost, a restart brings back the document as
  the room had it, what a restore replaces has been saved before, and edits get
  into the checkpoint in the end.

### C. The same rooms elsewhere

`sheet-room.ts` and `board-room.ts` repeat B for spreadsheets and boards;
`apps/tools/collab-rooms` runs all three on Node for the Rust server, with
storage and gates of its own. Not modelled: B stands for them until the
differences are (the sheet room's generations above all).

### D. Database move (`apps/workers/workspace-worker/src/services/database-move`)

* **State.** A row per move (status, cancel request, target, progress), the
  workspace's row (its database, its connection URL), the databases themselves
  (password, read-only default, open sessions).
* **Operations.** Routes start, cancel and recover a move. A workflow prepares
  a target, checks source and target, locks the source (rotates its password,
  makes it read-only, ends its sessions), copies in chunks, verifies by
  checksums, and switches with a compare-and-set in one transaction; a step
  that fails for good, or a cancel, has it undone. A daily sweep drops the old
  database of a completed move.
* **Interaction.** Through the rows only: `advance` lets a step begin while the
  move is live. Clients of the workspace resolve its URL, connect, and keep
  their sessions.
* **Hard.** Retries after a commit whose answer was lost; cancel against switch;
  a recovery beside the workflow, or beside another move; workers that end
  between rotating a password and storing it.
* **Correct when** the workspace sees one database throughout, it serves again
  in the end, a cancelled move never switches, and no target is left behind or
  dropped while it is used.

### E. CRM sequences on the jobs of the Rust server (`rust/modules/crm/src/sequences.rs`, `rust/crates/crm-domain/src/sequence_run.rs`, `rust/crates/ports/src/in_process_jobs.rs`)

* **State.** Two tables (the sequence's status; of each enrollment its status
  and `execution_id`, the claim of its run). In the process: the runs by key,
  and the table of signals, each slot a parked wait or a kept signal.
* **Operations.** Routes launch, start, pause and resume a sequence, enroll
  people, pause, resume and unenroll one. They claim enrollments by a
  conditional update, start a job for each, and wake parked jobs. A job passes
  a gate (two reads) before each email and before it completes; paused, it
  parks for a day at a time.
* **Interaction.** The database is the truth; a signal only makes a job read it
  again.
* **Hard.** Every statement is a transaction of its own; start() looks up and
  records a key under two locks; a signal may come before the wait, at its end,
  or after its job; claims survive the process and jobs do not.
* **Correct when** an enrollment has one run at a time, no email goes out twice,
  none goes out while held, no signal is slept through, and no run stays parked.

### F. Outbound mail (`packages/domains/mail/src/outbound`)

* **State.** A Durable Object per workspace: counts by clock hour and sender
  (stored), reservations (in memory, two minutes), what was pushed to the
  platform's budget; one more object with that budget.
* **Operations.** The guard around each send reserves, transmits, and commits
  or releases; the alarm pushes the day's delta.
* **Hard.** Sends run at the same time and end late; a send may reach only some
  recipients; calls and answers get lost, and then mail goes out uncounted
  (the guard fails open); the ledger restarts without its reservations.
* **Correct when** the limits hold for what is counted and still to be counted,
  and for what was really sent except what the code knowingly lets slip; and
  the budget has what was pushed.

Other ledgers: the credits meter (`packages/core/credits`), payment runs, the pool
of Neon databases.

### G. Mailbox object (`packages/domains/mail/src/mailbox-object`, `store/router.ts`)

* **State.** A Durable Object per mailbox: messages, with one clock for each of
  eight groups of fields, the state of a backfill, one continuation, an outbox.
  The tenant's Postgres has the same messages. A mode per workspace says which
  store is written first and read.
* **Operations.** Writes (ingest, flags, labels, deletions, folders marked as
  read), each dropped when a group it touches has been written later; a backfill
  in phases and pages, one page an alarm; rebuild, parity, reverse sync, destroy.
* **Interaction.** In mode shadow the router commits in Postgres and hands the
  write to the object from `waitUntil`, with retries; a failure is only noted.
* **Hard.** Pages are read in one turn and applied in others, with writes of the
  same messages in between; rows move in the order of the catch-up while it
  runs; folders and backfill share one continuation and one alarm.
* **Correct when** after a backfill the object has what Postgres has, neither an old
  page nor an old write wins, and what is left for the alarm gets done.

### H. Lifecycles

WeldSign envelopes (`packages/domains/sign`), reach sequences and warm-up, the
workflow engines, entity events and webhook deliveries, the realtime hubs.

### I. Not to be modelled

The document engines (transformation of rich text, cells and shapes; the
protocol takes from them what `adapter.ts` promises), request handlers that are
one database transaction, front ends, SDKs, migrations, configuration.

`PROJECT.json` lists every component with its sources and status, and the
hazards of the code, each at its line, with the properties that cover it.

## 2. Plan

| order | module | what | status |
|---|---|---|---|
| 1 | `CollabProtocol`, `RoomCore`, `CollabClient`, `Collab`, `MCCollab` | co-editing end to end (A) | done |
| 2 | `Collab_proofs` | types; nothing committed twice | done |
| 3 | `DurableDocument`, `DocRoom`, `MCDocRoom` | persistence of a document (B) | done, but for the row in the tenant database |
| 4 | `OneDatabase`, `DatabaseMove`, `MCDatabaseMove` | moving a database (D) | done, but for the contents of tables and the caches of URLs |
| 5 | `Jobs`, `Sequence`, `MCSequence` | jobs and their signals, composed with the sequences that run on them (E) | done for the in-process jobs |
| 6 | `MailLedger`, `MCMailLedger` | reservations and limits of outgoing mail (F) | done for the volume limits |
| 7 | `MailboxCopy`, `MCMailboxCopy` | copying a mailbox beside its writes (G) | done for mode shadow and the backfill |
| 8 | `MailboxCopy_proofs` | types; `CopiedWhenDone` and `SameWhenDone`, from what lies ahead of the cursor | done |
| 9 | `Sequence_proofs` | types, `OneRun` from the claim, emails, what is held, signals | done: all its safety properties |
| 10 | `DatabaseMove_proofs` | types; `CancelledNeverSwitches`; the move implements `OneDatabase`; `UndoneForGood`; `WorkspaceHasADatabase` | done: all safety properties of `DatabaseMove` |
| 11 | `CollabConvergence_proofs` | `DocumentMatchesRoom`, `Convergence`, `NoOpIgnored`, `RevisionNeverRegresses` | done: all safety properties of `Collab` |
| 12 | `MailLedger_proofs`, sums in `InductionFacts` | types; limits of what is counted and of what went out; the budget | done: all safety properties of `MailLedger` |
| 13 | `DocRoom_proofs` | types; `NothingLost`, `RestartKeepsTheDocument`; storage and R2 implement `DurableDocument` | done: all safety properties of `DocRoom` |
| 14 | `Envelope` (WeldSign), the mailbox object's outbox, the sheet room | H, G, C | later |

`Collab` composes `RoomCore` (server) and `CollabClient` (browser), both over
`CollabProtocol`. `DocRoom` refines `DurableDocument`; it takes from `RoomCore`
only that commits are numbered one after the other. `DatabaseMove` refines
`OneDatabase`. `Sequence` extends `Jobs`: routes and runs act on the variables
of the jobs by its operators. `MailLedger` stands alone; `Sequence` takes from it
only that a send may be refused and put off. `MailboxCopy` stands alone.

## 3. Co-editing

### Correspondence

A document is the sequence of the ops applied to it: `apply` appends, an
inverse takes the last op off again. That makes "the same document" mean "the
same ops, transformed to the same result, in the same order". `Transform` and
`Then` (batching) are constants of which only the types are assumed; TLC uses
tables without any structure, so that nothing converges by symmetry.

| code | model |
|---|---|
| `RoomCore.state`, `revision`, `log` | `committed` (every batch ever; revision = position), `trimmed` (how much of it left the log) |
| members, `ready` | `member`, and `previous` for the connection before |
| messages of the room under way | `down` |
| `CollabClient` (`state`, `revision`, `inflight`, `buffer`, `batchCounter`) and its socket | `client` |
| a dead socket's messages | `late` |
| `hello`, `submit`, `commitServer`, `receive` | `RoomHello`, `RoomSubmit` (`AckAgain`, `Refuse`, `Commit`, `FailToApply`), `CommitServer`, `ToRoom` |
| `apply`, `receive` | `Apply` (`Edit`), `Received` (`ToClient`) |
| `connect`, `onclose`, `retry` | `Connect`, `Disconnect`, `HungUp` |
| `replaceWithVersion`, `reload`, eviction, hibernation | `RestoreVersion`, `FailToApply`, `RoomStops`, `Hibernate` |

Each message is handled in one step, as both sides do (no `await` between
reading a message and dispatching the answers). Presence, peer lists, framing
and the reasons of refusals are left out.

### Runs

* **collab_accepted**: two sessions, three edits, one lost socket, one op of the
  server, everything accepted. `DocumentMatchesRoom` (a client is the room's
  document at its revision plus its own edits), `Convergence`, `NoOpIgnored`.
* **collab_refused**: two edits, refusals, a log of one batch, a lost socket, a
  restore and a stop or a hibernation; users wait for answers (`Patient`),
  since the code does not converge otherwise (see "Limits"). It also checks
  `Bookkeeping`, the inductive invariant of the proof, `RevisionNeverRegresses`
  and `EverythingSettles`.
* **collab_late**: as before, and what a dead socket carried still arrives.
  `CommittedOnce`.

Two cases in which replicas do not converge are under "Limits".

Two sessions are enough for every rule of the protocol, which distinguishes
only a batch's sender and the others; three edits give a batch in flight, a
buffer behind it and an op of someone else; one drop gives a batch re-sent with
its ack lost. A log of one batch has every case of a log that is too short.

**Fairness** (`FairSpec`): sockets deliver while they live, closes are noticed,
a browser without a socket retries for ever (`doc-connection.ts`). Edits, drops,
restores and stops owe nothing. **Deadlock** is not checked: those events are
bounded in number, and when they are spent and all is answered, nothing
remains to be done.

### Proofs

`Collab_proofs` proves `TypeCorrect`: `Spec => []TypeOK` for any set of
sessions, ops, transform, bounds and log length. The part that is not mere
typing: nothing in the log is the marker of a restore, as restores clear it, so
transforming past the log stays within the adapter's ops.

It proves `NothingCommittedTwice`: the room commits a batch at
most once. `CommittedOnce` is not inductive: whether a batch that is sent again
is recognised depends on what the log has lost and on the revision the batch is
sent with. `Bookkeeping` adds the missing relation: if the room has a batch at
revision k, then any copy of it that is still under way, and its sender's
revision while it is in flight, is *before* k. So either k is in the log, and
the batch is found there, or the base is behind the log, and it is refused as
stale. To keep that, the room's messages have to be true (an ack names a
revision the room has, a catch-up repeats the history) and a session must never
be sent its own batch as someone else's. The proof goes through the
client's message handlers one lemma each (`...Ahead`), then through the room's
(`...Keeps`), then action by action (`BookkeepingStep`).

The theorems assume `~LateDelivery`. With it they would be false: a dead
socket's copy may be committed after its sender has caught up past it, and a log
that has lost it by then does not recognise the copy that is sent again. The
run collab_late checks `CommittedOnce` where the log is long enough (the code
keeps 2000 batches, and 500 ops of a rebuilt room).

`CollabConvergence_proofs` proves that co-editing converges: `DocumentMatchesRoom`
(`BrowsersShowTheDocument`), `Convergence` (`ReplicasConverge`), `NoOpIgnored`
(`NoGapReachesABrowser`) and `RevisionNeverRegresses` (`RevisionsOnlyGrow`), for any
number of sessions, any transform, any length of the log and any bounds. None of
them is inductive, because what a client shows next depends on what is under way.
The invariant is `Agreement`: for each session the messages from the room form a
path, an increasing row of revisions from the client's to the room's, of which
each message leads from one to the next (`Path`). Around it:

* `Synced`: the document is the history up to the client's revision and the
  pending edits. If the room has already committed the batch in flight, at k,
  then what it committed is what the client will have made of the batch when it
  gets to k - 1 (`Carries`): the rebase of client.ts and the loop of room.ts
  transform the same pairs in the same order. A batch that is sent again is the
  one in flight as it was, or is behind the log, or is in the history.
* `Connected`: hello comes first on a socket and is answered first, and a client
  without a document waits for a welcome.
* `Fenced`: a message that makes the client forget its edits (welcome, resync,
  restored) finds none of them committed later: what the client sends until then
  is behind the log, or it sends nothing.
* `Waiting`, only for `Patient`: one batch at a time, and none behind a refusal.

One lemma per handler shows what it does to the path (`OnCourseReceive` for the
browser; `InSyncHello`, `InSyncAckAgain`, `InSyncRejected`, `InSyncRefused`,
`InSyncCommitted`, `InSyncNews` for the room), then one per action (`...Agrees`).

These theorems have two hypotheses, and are false without either (see "Limits").
`~LateDelivery` again, and `[]Answered`: `Patient`, or no refusal is under way.
`Patient` is the setting of collab_refused; in collab_accepted nothing is refused.
TLC checked `Agreement` on both before it was proved.

Only checked by TLC: `EverythingSettles`, as liveness is beyond the prover.

## 4. Persistence of a document

### Correspondence

`DocRoom` takes one step from one `await` to the next. Its storage is written
behind, as on Cloudflare: a write is visible at once (`View`), durable later and
in order (`Flush`), and nothing leaves the object before (`Flushed`, and an edit
is `acked` when its op is durable).

| code | model |
|---|---|
| `this.room`, `loading`, `checkpointed`, `alarmPending` | `rooms` and `current` (rooms that were dropped live on in running calls), `loading`, `checkpointed`, `alarmPending` |
| `checkpointing` | `checkpoint`: sync, put, landed, report |
| `restoring`, calls of `restoreVersion` | `restoring`, `restore`: waiting, loading, saving, awaiting a checkpoint, version, put, landed, record |
| op log, `LOG_FLOOR`, alarm | `storage`, with `unflushed` before it |
| R2 | `snapshot`, `versions` |
| `persist`, `edited` | `CommitEdit` |
| `load`, `restore`, `readLog` | `LoadSnapshot`, `LoadLog` |
| `writeCheckpoint` | `CheckpointSynced`, `CheckpointLands`, `CheckpointWritten`, `CheckpointReported`, `CheckpointFails` |
| `webSocketClose`, `alarm` | `LastSocketCloses`, `AlarmFires`, `AlarmCheckpoints` |
| `replaceWithVersion` | `RequestRestore` to `RestoreDone`, `RestoreFails` |
| eviction, deployment | `Stop` |

Abstractions: an edit is its number, a version its restore request. Calls that
wait for the same restore or load are resumed in one burst before anything else
happens; a message or an alarm in that burst is modelled as if it had come
after the restore ended and before the next began, which gives the same states. A
put under way when the object stops has landed or never will. Left out: tickets,
`saveVersion` and `snapshot` (they only read), the database row.

### Runs (`MCDocRoom`)

The log is kept one op behind a checkpoint that is due every two ops (500 and
200 in the code), so that three edits meet every case.

* **docroom_restores**: two restores, two edits, a stop and a failure at any
  point. `NothingLost` (an acked edit is in what a restart would load or in a
  saved version), `RestartKeepsTheDocument`, `KeptDocument` (storage and R2
  together implement `DurableDocument`), `RestoresEnd`.
* **docroom_reload**: one restore, three edits, a room dropped in the middle,
  a stop and a failure. `EditsReachTheCheckpoint` speaks of the behaviours in
  which the object does not stop, no room is dropped and nothing is restored:
  three edits, a failure and any alarms.

Four cases these bounds leave out, in which the code loses something, are under
"Limits".

**Fairness**: storage, R2 and the database answer (with success or failure), the
runtime runs alarms, and a room that is not loaded is loaded (by the alarm or
the restore that needs it; no property relies on it otherwise). Nobody has to
edit, connect or leave. **Deadlock** is not checked, as the bounded events run
out. A failed alarm is retried for ever, where the runtime gives up after
several times; two failures do not reach that limit.

### Proofs

`DocRoom_proofs` holds for any number of edits, stops, reloads and failures, any
length of the log that is kept and any number of ops between checkpoints.

| theorem | states | hypotheses |
|---|---|---|
| `TypeCorrect` | `Spec => []TypeOK` | none |
| `NothingIsLost` | `[]NothingLost` | `~AmbiguousPuts`, `Spec`, `[]Orderly` |
| `RestartsKeepTheDocument` | `[]RestartKeepsTheDocument` | the same |
| `DocumentIsKept` | `KeptDocument`, the refinement of `DurableDocument` | the same |
| `RestoresTakeTurns` | `[]Orderly` | `~AmbiguousPuts`, `TwoRestores`, `MaxReloads = 0`, `Spec` |
| `TwoRestoresAreSafe` | the three properties | the same, so of the constants only |

`Orderly` is `OneAtATime` (no two restores run side by side) and
`NothingLeftBehind` (no checkpoint is still running when its room is dropped).
These and `~AmbiguousPuts` are not there for the sake of the proof: the code
ensures none of the three, and without any one of them TLC finds a behaviour that
loses an edit or overwrites a restored document (the three cases under "Limits"
that DocRoomRestores.cfg shows). The theorems say that there is no
fourth. `TwoRestoresAreSafe` has the setting of docroom_restores, for any bounds but
its two restores: of two requests the second waits for the first, and when that
ends nobody is left who could begin beside it.

*Why an invariant about a ghost.* What a restart would load (`Durable`) is a
function of the checkpoint and the log; what it will load when all writes on
their way are durable is a fold over those writes. `Ghost(whole, top)` replaces the
fold by what it must come to: a document `whole`, and for each number i of writes
the revision `top[i]` that the log has reached after i of them. `Holds` says that
the log then continues the checkpoint with the edits of `whole` up to `top[i]` without
a gap (`Shows`), and that each write is of a kind that does that (`Adds`): an op is
the next edit of `whole`; a floor is at most one above the checkpoint, a trim at
most at it. `Shown` ties `whole` to the room in memory, or to R2 between a
restore's put and its switch. So an edit lengthens `whole` and `top`, a flush shifts `top`,
a checkpoint moves within `whole`, a stop cuts `whole` down to what was durable.

*What it rests on.* A checkpoint that lands must be of this room, ahead of R2
and durable in the log (`Checks`, `PutDurable`): it waits for `storage.sync`. A
restore that replaces R2 must have taken the version from a room that no edit,
checkpoint or reload has moved since (`InPlace`), which `Blocking` gives: as long
as a request is under way, `restoring` is set. And the floor is written before the
put, so that ops before the restore stay hidden whichever of the two a stop
cuts off. `Fresh` says that an edit is in a document once. TLC checked all of it
on the bounds of both runs before it was proved. `Unseen`, `Added` and `Replaced`
are what a step can do to `Durable`; each action is shown to be one of them, and
the three properties follow.

Two facts about data are proved from scratch: that the fold of the community
modules has the values it should (`FoldsExist` to `FoldIs`, by induction over the
number of writes, as a set of numbers), and that the `CHOOSE` and `Max` in `Loaded`
pick the edits of `whole` (`ShowsLoads`). The assumption `DocRoomAssumption` keeps
the names of edits and of restore requests apart.

Only checked by TLC: `RestoresEnd` and `EditsReachTheCheckpoint`, as liveness is
beyond the prover.

## 5. Database move

### Correspondence

`DatabaseMove` cuts a workflow step where it waits for a query, because routes,
the undo and clients get in between. A step that failed starts again at its
beginning (`StepFails`, `StepOf`), or the move is given up and undone.

| code | model |
|---|---|
| the workspace's row: its database, its encrypted URL | `workspace`: `at`, and the password (`key`) it knows |
| a database: password, `default_transaction_read_only`, tables | `db`: `key`, `readOnly`, `rows` (one for each writer), `born`, `alive` |
| the row of a move: status, `cancelRequestedAt`, `target*`, `progress` | `move`: `status`, `cancelled`, `target`, `marks` |
| a Workflow instance, its step and what the step carries | `flow` |
| `advance` | `Enters` (begins while `Live`), `NotEntered` |
| `lockSourcePartOne`, `lockSourcePartTwo` | `LockSource`, `MarkLock`, `RotatePassword`, `StoreUrl`, `SetReadOnly`, `EndSessions`, `EndSessionsAgain`, `ProbeReadOnly` |
| `prepareCopy`, `copyChunk`, checksums, `verifyMove` | `PrepareCopy` to `VerifyCompare`; a checksum is the set of rows |
| `switchToTarget`, `switchWorkspace` | `EnterSwitch`, `SwitchWorkspace`, `Switched` |
| `compensateDatabaseMove` by the workflow or by the recover route | `undo`, one runner each: `UndoLoads` to `Close`, `UndoFails` |
| `requestMoveCancel`, `recoverDatabaseMove`, `startDatabaseMove` | `Cancel`, `Recover`, `Ask`/`Start`/`CloseUnstarted` |
| `dropRetainedDatabase` | `DropRetained` |
| clients of the workspace (outside) | `Resolve`, `Connect`, `Write`: a URL once read may be used at any time later, and an open session outlives a new password |

### Runs (`MCDatabaseMove`)

* **move**: one move, two databases that may be created, a writer, one failure,
  one cancel, one recovery. `CancelledNeverSwitches`, `ServiceReturns`.
* **move_again**: a second move, which starts when the first is over.
  `UndoneForGood` (once everybody is done the workspace serves, and no target is
  left behind), `OneDatabaseSeen`: the workspace's database implements
  `OneDatabase`, wherever it is; a row is in it exactly if its write was
  acknowledged.

One failure suffices to put a stop or a retry at every query, since each step
starts from the rows alone; a second writer is of no other kind than the first.

**Fairness.** The Workflows engine runs its instances to their end, and an undo
or a start that was begun goes on. A worker may stop inside either: an undo that
fails (`UndoFails`, or `Close` once the row is closed), a start that is not told
whether its workflow was created (`Start`). Such a row stays active until somebody
recovers it; `CloseUnstarted` is for the route that was told of the failure. Nobody
has to cancel, recover, connect or start a move. **Deadlock** is not checked: when the moves are over and the
writers have written, nothing remains to be done.

**Assumptions**, each a constant or a guard of the model. A recovery is forced
only when the workflow is dead (`ForcedAlive = FALSE`, what the route asks the
administrator to know). A move is not undone any more once the next has started
(`Overlap = FALSE`). There is one recovery at a time. The route has closed a
move that seemed not to start before its workflow locks the source, a drain of
90 seconds later. Steps are retried as often as they like, or give up.

**What the assumptions hide.** With `Overlap = TRUE` (two moves, `MaxRecovers = 1`,
`MaxCancels = 0`, `MaxFailures = 1`) `OneDatabaseSeen` is violated: recovering the
failed first move unlocks the source that the second has locked and is copying,
and an acknowledged write stays behind. While a lock step is in flight beside a
recovery that needs no force, and for good after two rotations of the password
crossed and one failed, a row says failed although the workspace is not served,
against the header of compensate.ts.

### Proofs

The first part of `DatabaseMove_proofs` has no hypotheses. `TypeCorrect` is `Spec => []TypeOK`.
Types alone are not inductive, as steps use what earlier steps read and rows may
still lack. `Typing` adds which step finds what: a started move has a source
(`Started`), one past its preparation a target and the keys it carries (`Carried`),
an undo that unlocks knows the database it unlocks (`Unlocks`), a client that
looked the workspace up has a place to go (`Resolved`).

`CancelHolds` is `Spec => CancelledNeverSwitches`. A switch looks at the status of
its move alone, not at the request to cancel; so the invariant is that a cancelled
move is cancelling, failed or cancelled (`Cancels`), whatever a retry, a recovery
or a late step of the workflow writes into its row.

Its second part proves the refinement, `OneDatabaseIsSeen`: the workspace's
database, wherever it is, behaves as `OneDatabase`. A switch keeps the rows only if the
target has those of the source, which needs that nobody wrote since they were
compared, so nobody had a session, so the source was read-only all the while, so
nobody undid anything. Its invariant `IInv` says this one after the other:

* `Alone`: beside a live move at work no other workflow works and nothing is undone;
* `Placed`: the workspace is where a move completed or where it began, and does not
  return; `GivesBack`: an undo unlocks where the workspace is, and releases a
  database only where it is not;
* `Locked`: a source is read-only from the lock on, and for good once left;
  `Sessions`: no session outlives the lock, or is anywhere but at the workspace;
* `Served`, `Seen`, `Copies`: the databases needed are there, and what the workflow
  read of them is still so, up to the rows being the same when it switches.

It assumes `~Overlap` and `~ForcedAlive`, the settings of both runs. Without
`~Overlap` it is false (see above), and without `~ForcedAlive` too ("Limits").

The third part proves `UndoneForGood`: `UndoneWhereHeeded` and
`UndoneWithOneRecovery`. It says what is true once all have ended, so the invariant
`UInv` accounts for what is still broken while they have not, and for who will
repair it:

* `Repaired`: if the workspace's database does not take its password or is
  read-only, then a workflow is at work that noted its lock (`AtWork`), and will
  switch or be undone, or an undo is at work that knows of the lock and has not yet
  come past the repair (`Repairs`), or a run died or the last recovery failed, which
  the row and the administrator were told (`Excused`);
* `Untouched`: before the workflow notes its lock nothing is broken, and no recovery
  still at work will break it;
* `LockNoted`, with `Noted`: a note of the lock is not lost. Progress is saved as a
  whole, so an undo that read it earlier could take the note back; none does, as
  whoever reads it later than the note knows it;
* `TargetsUndone`, `ReleasedGone`: the target of a move that did not switch has a
  workflow, a dead run or an undo that will release it, or is gone; `MadeKnown`: a
  database that was created without a failure is in a row or about to be; `Left`:
  where the workspace was or is belongs to a move that completed.

`UndoneWhereHeeded` allows any number of recoveries, and assumes `Heeded`: a
recovery that failed is not followed by another one. `UndoneWithOneRecovery` assumes
`MaxRecovers <= 1` instead, as both runs do, and implies `Heeded`. Without either
it is false: a recovery that failed may leave a password that no URL has, and one of
another move, which has nothing to unlock, ends well and makes that report forgotten
("Limits"). An administrator who was told of a failure repeats that recovery first.

The fourth part proves `HasADatabase`: the workspace's database is not dropped, by a
release of a target, a recovery or the sweep. It has no hypothesis on the constants:
moves may overlap, and recoveries may be forced. What it assumes is `[][Unforced]_vars`:
no recovery is forced on a move that is still active while its workflow is at work. A
forced recovery of a move whose workflow is dead, or that has failed already, is
allowed. That one case is excluded because in it the database *is* dropped ("A forced
recovery" under "Limits"). `HasADatabaseUnforced` is the same from a hypothesis on the
constants: with `~ForcedAlive` no recovery is forced on a workflow that is alive.

The invariant is `SInv`, and says why no undo that releases a target can be overtaken
by a switch to it:

* `OneLive`: at most one move is active, which the unique index of the table gives;
* `NotTaken`: a move that is being undone does not switch any more: its row is no
  longer live, or its workflow is not at work. An undo forced on a working move lacks
  just this;
* `NotHere`: no undo comes to the release of the database where the workspace is;
* `Served` and `ReleasedGone`, from the other parts: where the workspace is belongs to
  a move that completed, or is where it began, and what was released is of one that did
  not.

No run lists `WorkspaceHasADatabase`. TLC checked it, `OneLive`, `NotTaken` and
`NotHere` for two moves, a failure and a recovery with `Overlap` and `ForcedAlive` TRUE,
`Next /\ Unforced` as the next-state relation and passwords rotated at most five times.

TLC checked each part of the other invariants on small configurations before it was
proved. Only checked by TLC: `ServiceReturns`, as liveness is beyond the prover.

Left out: contents of tables, migrations, chunk bookkeeping (`progress` is
written as a whole: a stale writer may undo another's mark, which is modelled
for the marks that decide something), caches of URLs, the audit trail.

## 6. Sequences and jobs

### Correspondence

`Jobs` has one operator for what in_process_jobs.rs does under one lock;
`Sequence` extends it and adds the tables, the routes and the runs. Each
statement of a route or a run is one action; so is each critical section of the
jobs.

| code | model |
|---|---|
| `InProcessJobs.runs` | `runs`; `Remember` forgets all finished keys or none, as the table may be full at any time |
| `SignalTable.slots` | `slot`: one for each key, as sequences use one signal |
| a wait's oneshot and where `wait_for_signal` is with it | `wait` |
| `park`, `deliver`, `unpark` | `Park`, `Deliver`, `TimeOut` (with `Elapse` before: the timer fires without the lock) |
| `workflows.status`, `sequence_enrollments` (`status`, `execution_id`) | `sequence`, `row` |
| a request and its locals | `request` |
| an `ExecuteSequenceJob` and where it is | `job` |
| `activate`, `start_runs`, `wake_runs` | `Admit`, `Unpause`, `Selected`, `Claim`, `LookUp`, `Spawn`, `StartFails`, `Release`, `Wake` |
| `check_gate`, `read_run_gate` | `Gate`, `GateRow`, `Wait`, `WaitEnds` |
| `load`, `attempt_step`, `record_failure`, `finalize` | `Load`, `LoadRow`, `Send`, `SendUnrecorded`, `Skip`, `Defer`, `StepFails`, `RecordFailure`, `Finalize` |
| the end of the process | `Restart`: requests, runs, signals and waits are gone, rows and emails stay |

`Tell` keeps what the properties remember (`late`, `unread`, `resent`) and
constrains nothing.

### Runs (`MCSequence`)

**sequence**: an enrollment, two emails, three requests of any kind, two tasks
(so that a second run could be spawned), one recheck and one deferral instead
of hundreds, one failure or end of the process. `OneRun`, `EmailsOnce`,
`HeldEmails`, `KeptForNobody`, `HintNotLost`, `SignalledIsNoTimeout`, `RunsGoOn`.
Three requests are needed for a pause and a resume beside the launch; no state of
one enrollment depends on another, except through the sequence's status, which
the requests change anyway. Four requests take TLC beyond the time a check may
have; a partial search of several million states showed no violation.

`HeldEmails` speaks of a pause only when it is in both tables: the gate reads
them in two statements, so between a pause and a resume it can pair an old
answer with a new one.

**Fairness**: `WF_vars(Progress)`. The server's tasks go on, and so do the requests
it has begun; there are only finitely many steps to take before all of them
end, so none can be passed over for ever. Requests, restarts and
the end of a signal's hour owe nothing. Nobody resumes a paused sequence for
sure: `RunsGoOn` promises only that a run which may go on is not left parked, and
it needs the daily recheck. An unenroll that read the row before a pause wakes
nobody, and so does a resume between the two statements of a pause; such a run
finds out when its wait times out. **Deadlock** is not checked, as requests run
out.

**sequence_paused_loading** is finding 1.

### Proofs

`Sequence_proofs` proves every safety property of the run, for any enrollments,
requests, tasks, steps and bounds. There is one assumption, `SomebodyToEnroll`:
the set of enrollments is not empty, since a request or job that is idle
needs some key in its record. What each proof rests on:

* `TypeCorrect`, with `Places`: only a run that goes on to complete its enrollment
  is past the last email, which `Send` needs for its index.
* `OneRunEach`, from `Claims`. `OneRun` speaks of runs only; that a second one never
  starts depends on requests between their statements. An enrollment that a
  request has claimed and not yet started is owed a run by this request alone, has
  no run, and is claimed in its row; and who has a run is claimed. `LookUp`,
  `Spawn` and the failed start each settle what is owed.
* `EachEmailOnce`, from `Counts`: nothing went out to whom no run was begun for, a
  run has sent nothing past its email, and that one only in vain.
* `PausedIsHeld`, from `Lateness`: past its gate and before its email, a run has
  sent nothing late but what it sent in vain. What is held is told from the rows
  after each statement (`Tell`).
* `KeptForTheNext`, from `Waits`: a slot and the wait parked in it name each other, and
  a wait not yet answered is in its slot. Of the critical sections that end a
  wait each leaves the slot empty or the signal with the wait.
* `SignalledSaysSo`, an action property, from `Waits`: a wait ends once its oneshot
  is sent or its slot is cleared, and never as a timeout with the signal in it.
* `SignalNotLost`, from `Heard`: between its read of the row and the end of its wait
  a run has every signal sent since in its slot or its wait.

`RunsGoOn` is liveness and stays with TLC.

### What the code does not promise

The claim of an enrollment outlives the process and its run does not: after a
stop, or when a worker ends between the claim and the start, the enrollment is
active, claimed, and nothing starts it. `EmailsOnce` and `HeldEmails` allow an email
that went out when neither its success nor its failure could be recorded
(`resent`). `finalize` and `record_failure` write the enrollment's status
whatever it is, so a person unenrolled during the last step ends as completed. An
enroll that read a draft sequence while a launch ran leaves its enrollment
pending. Beyond `MAX_REMEMBERED` keys all finished runs are forgotten, not "the
oldest" (in_process_jobs.rs:31); for sequences the claim still keeps them from
starting again. Delays, execution records, and the helpdesk engine that waits
for answers on the same jobs are not modelled.

## 7. Outgoing mail

### Correspondence

| code | model |
|---|---|
| `LedgerCore.hours` (per hour and sender: recipients, replies) | `counts`, with no bucket older than what a window can see |
| `reservations`, `expiresAt` | `reserved`; `due` has those whose two minutes are up |
| `decide` and the windows | `Allowed`, `WithinReplies`, `SenderHasRoom`, `WorkspaceHasRoom` |
| `liveReservations`, which drops what is over | `Live`, dropped by `Reserve` and `Refuse` |
| `guardedSend` | `message`: `Check` or `FailOpen`, `Transmit`, then `Commit`, `Release`, `SettleOpen` or `SettleLost` |
| eviction of the ledger | `Restart` |
| `pushPlatform`, `OutboundPlatformBudget.add` | `Push`, `Add`, `Pushed`, `PushFails` |
| the clock | `hour`; a day of the windows is the last `DayHours` hours, a day of the budget a calendar day |

### Run (`MCMailLedger`)

**mail_ledger**: two sends for two people each, three hours in days of two, limits
that one send or two reach, some mail from before, one fault. The mail from before
leaves no room in the sender's hour for two more, so that an answer goes out by the
limit of its own and conversations wait for the next hour. `WithinLimits`:
what the ledger counted, together with what it may still have to count, is within
the limits. `SentWithinLimits`: so is what really went out, but for sends marked
`slipped`, and the model marks only sends that took longer than two minutes or
met a fault, of the ledger, the call or the transport. `BudgetAgrees`: the platform's budget has what the ledger stored
as pushed, and more than the day's count only by deltas whose answer was lost.
Two sends suffice because the check of one depends on the others through a sum; what
was counted before is the third part of that sum. There is no liveness here:
the code promises none, and so `Spec` has no fairness; **deadlock** is not
checked, as clock and sends run out.

Replies have a limit of their own, the volume windows do not hold them back:
the properties bound conversations begun by the windows, and replies by the larger
of the two limits a reply can pass.

**What the code knowingly lets slip.** Reservations are forgotten by a restart; a
send that commits after its reservation was dropped is not counted; a guard that
gets no answer lets the mail go. A transport that throws without naming everybody it
reached has the others released (`guard.ts:568-573`): `Transmit` may slip. A delta is pushed again when its answer was
lost, and recipients counted after the day's last alarm are never pushed. Not
modelled: risk scores, reviews, templates, cases, the tripping of the budget, and
the loading of policies (`ensure` reads a policy that may be older than one
loaded after it, and `reserve` uses a policy read before it asked the platform).

### Proofs

`MailLedger_proofs` proves all four for any number of senders, messages, recipients,
hours, faults and any limits, from the assumptions `MailLedger` states of its
constants (finitely many messages and senders; what was counted before is within
the limits). The limits are about sums, so `InductionFacts` proves first, by
induction over the subsets of a finite set, that such a sum exists and how it
changes when one addend or one element does.

* `LimitsHold` (`WithinLimits`). A reservation is made against what is counted
  *and* reserved, so the check keeps the limit by itself; what has to be shown is
  that nothing later counts more than was reserved. `Booked`: a send that nothing
  took from the ledger has one live reservation, for all its recipients, and a
  reservation belongs to one send and is of its sender and kind. So a commit takes
  as much from the reservations as it adds to the counts, or more. `Counted`:
  nothing is counted in hours to come, so that a tick only shortens what the
  windows see. `InLimits` says the same as `WithinLimits` with each limit as two
  sums, counts and reservations (`WithinIs`), and is shown action by action.
* `SentMailIsWithinLimits` (`SentWithinLimits`). What went out is linked to the
  counts by the hour in which each send was counted, which no variable has. `Traced`
  says there are such hours: none is before the send was transmitted, and what was
  reached by the sends of one sender, summed by hour, is at most what is counted
  for the conversations it began. Those in the last day were counted in it, those
  under way have their reservations, and `WithinLimits` bounds both.
* `BudgetHasWhatWasPushed` (`BudgetAgrees`). `Accounts`: a push for today is for
  what was stored and its delta; the budget has what was stored, or will be once
  the answer comes, plus at most what was added again.

TLC checked `Counted`, `Booked`, `InLimits`, `Traced` and `Accounts` on the run's
configuration. Nothing about the ledger is left to TLC alone.

## 8. Copying a mailbox

### Correspondence

| code | model |
|---|---|
| `mail_messages` in the tenant's Postgres, its `updatedAt` and `deletedAt` | `pg` |
| `RoutedMailboxStore.apply` and `applySecondary` in mode shadow | `Ingest`, `Change`, `Delete` (`Dual`), then `Deliver` (`Applied`) or `DeliveryFails`; what is under way is `flying`, what failed for good `lost` |
| the object's rows and their clocks | `object`: `content`, `deleted`, `clk` for each of the two |
| `meta.backfill` | `backfill`, its cursors as one |
| `meta.continuation` | `slot`; what is left of a folder is `left` |
| the alarm, and `recomputeAlarm` after each write and each handler | `alarm`, `RecomputeAlarm` |
| `runAlarm`, `runContinuation`, `tickBackfill` | `AlarmFires`, `ContinueFolder`, `StartTick`, `ReadPage`, `CopyRow`, `EndTick`, `TickFails`; the tick between its awaits is `tick` |
| `fetchMessagesPage`, `fetchCatchupPage`, what a tick returns | `PageRows`, `AfterPage`, `AfterLast` |
| `applyPgRow` | `Merged` |
| `startBackfill`, `rebuildMailbox`, `afterWrite` of a folder | `StartBackfill`, `RebuildMailbox`, `FolderRead` |
| eviction in the handler | `Stop`: the runtime delivers the alarm again |

A tick reads its state once and writes it back at its end, whatever it is by
then, as the code does. Of the eight groups the model has the one of deletions and one
for the rest, as only these two differ in how the backfill writes them. An alarm
that was set comes: waits of 1, 5 and 30 minutes are left out, and with them the
five minutes the catch-up looks back, a margin for clocks that the model does
not have. Subscriptions and drafts are one page that is copied whole.

### Runs (`MCMailboxCopy`)

**mailbox_copy**: three messages of which the second was there before, pages of
two, two writes, two calls (starts, rebuilds, folders), one fault. So a message
may come before or after the old one in the order of creation, a page may be full
or the last, and a tick may fail, be repeated, or end the backfill.
`CopiedWhenDone`: a backfill that is done has missed no message. `SameWhenDone`:
and no content, except where a write is still under way or was lost.
`NothingPendsWithoutAlarm`, `BackfillEnds`, `FolderReadEnds`: what was left for the
alarm gets done, as far as the one continuation allows. **mailbox_deleted** is
finding 2.

`SameWhenDone` excuses a lost write of a message that came after the object was
first written to. Such a message may be copied by the catch-up while an older
write of it is under way and a newer one was lost; ingested at the tick's time,
it is stamped after both.

**Fairness**: `WF_vars(Alarm)`. The runtime calls an alarm that is due, and what the
handler awaits comes or fails. Writes, deliveries, calls and stops owe nothing.
**Deadlock** is not checked, as writes and calls run out.

**Assumptions**, each a constant. No rebuild during a tick (`RebuildDuringTick =
FALSE`). A message's ingest reaches the object before its other writes (`InOrder`).
A write is committed in the order of its time (`Delay = 0`). What happens without
them is under "Limits".

### Proofs

`MailboxCopy_proofs` proves four theorems, for any messages, page size, attempts
and bounds. Two have no hypotheses.

* `TypeCorrect`: `Spec => []TypeOK`. `Typing`, which is inductive, adds the order
  of times: no row, write, cursor or clock is ahead of Postgres' clock.
* `PendingHasAnAlarm`: `NothingPendsWithoutAlarm` is inductive as it stands: each
  action that makes something pending, or ends the handler, ends in
  `RecomputeAlarm` or sets the alarm, and the only one that clears the alarm
  starts the handler.

The other two hold with the settings of the run mailbox_copy. Each of
`RebuildDuringTick`, `Delay` and `InOrder` has its counterexample under "Limits".

* `NothingMissed`, if `~RebuildDuringTick` and `Delay = 0`: `CopiedWhenDone` speaks of
  the end of a backfill, so the invariant says what each state of it owes
  (`Behind`). A message that is not in the object lies ahead of the cursor, or its
  ingest is under way or lost and later than the backfill's beginning, so that the
  catch-up comes to it; in the catch-up it has to be both; at the end, its ingest
  is later than the end. While a page is copied the same holds of the state the
  tick will write, except for the rows of the page that are left. A write moves a
  message to the end of the catch-up's order, never behind its cursor (`Pages` and
  `Firsts` give the times).
* `NothingLeftBehind`, if `InOrder` as well: `SameWhenDone`, from the same account of
  contents (`Matched`). A message that is in the object and behind the cursor may
  still be undone: by a page's older row, by an older write, by a clock that is
  ahead of its content. Six more parts exclude that: a page's row is Postgres'
  or that has been written since (`RowsRead`); writes are in Postgres, and in their
  order of time (`Written`, `FirstOfAll`, `Waiting`); the object is not ahead of
  Postgres, and its clocks let in what is newer (`Clocked`).

TLC checked these invariants on the configuration of the run before they were
proved. `BackfillEnds` and `FolderReadEnds` are liveness and stay with TLC.

### What the code does not promise

Merging a row needs it to be newer than *every* group, so a row whose flags were
changed in the object keeps its old labels. An ingest knows no flags, snoozes or
categories: those of a copied message are lost until it changes. A folder's later
batches in mode object are not mirrored to Postgres; only the ids of the first
call are (`router.ts:199`). Nobody but an administrator starts a backfill. Each
message of the model has an RFC id of its own; a row that the object drops as the
duplicate of another one (`findIngestDuplicate`, `writes.ts:955`) is left out, as what
a backfill owes such a row is another question. Not modelled: mode object's writes, the outbox, snoozes, parity and its repair,
reverse sync, destroy.

## 9. Findings

1. *sequence_paused_loading.* A pause between a run's first gate and its load
   ends the run, where the routes say it parks (`sequence_run.rs:962`). Its claim
   remains, so a resume sends a signal nobody waits for.
2. *mailbox_deleted.* A row that is deleted in Postgres is ingested with all its
   clocks at the time of the tick and then deleted at the time of its deletion
   (`backfill.ts:420`), which is earlier: the object drops that as stale, and the
   message is alive in it. The comment above says it ends up marked as deleted.

### Limits

No run checks these twelve. TLC shows each with the constants below changed in the
configuration named, and the property given as its only one.

* *Late socket.* A batch from a dead socket that arrives after its session's new
  welcome is broadcast to the session itself, which applies it on top of its own
  copy (`client.ts:187`). CollabLate.cfg with `MaxEdits = 1`, `MaxServerOps = 0`,
  invariant `Convergence`.
* *Resync.* An edit made between a `reject` and its `resync` is committed by the
  room and dropped by its sender (`client.ts:104`). CollabRefused.cfg with
  `Patient = FALSE`, `MaxEdits = 3`, `MaxDrops = MaxStops = MaxRestores = 0`,
  `MaxLog = 9`, invariant `Convergence`.
* *Restores side by side.* Two restores that waited for a third run at the same
  time (`doc-room.ts:212`). DocRoomRestores.cfg with `Restore = {r1, r2, r3}`,
  `MaxStops = MaxFailures = 0`, invariant `NothingLost`.
* *A put that failed only in appearance* leaves R2 a revision ahead of the room,
  whose next op is skipped by a restart (`doc-room.ts:495`). DocRoomRestores.cfg
  with `Restore = {r1}`, `AmbiguousPuts = TRUE`, `MaxEdits = 1`, `MaxStops = 0`,
  invariant `NothingLost`.
* *A checkpoint of a dropped room* sets `checkpointed` back, and a later one
  overwrites a restored document (`doc-room.ts:549`). DocRoomRestores.cfg with
  `MaxEdits = 1`, `MaxReloads = 1`, `MaxStops = MaxFailures = 0`, invariant
  `RestartKeepsTheDocument`.
* *A checkpoint that outlives its room* does not see the edits of the next one,
  whose alarm it absorbed (`doc-room.ts:552`). DocRoomReload.cfg with
  `MaxEdits = 2`, `MaxStops = MaxReloads = MaxFailures = 0`, property
  `EditsReachTheCheckpoint` without its last disjunct.
* *A forced recovery.* `compensateDatabaseMove` looks once whether the workspace is
  at the target, and closes the row at its end (`compensate.ts:175`, `:196`). A
  recovery forced on a workflow that is alive lets it switch in between, and
  drops the database the workspace is then at. The guard in `switchWorkspace`
  (`state.ts:290`) helps only after the row is closed. DatabaseMove.cfg with
  `ForcedAlive = TRUE`, `MaxFailures = MaxCancels = 0`, invariant
  `WorkspaceHasADatabase`.
* *A failed recovery and another.* A recovery that rotated the password and failed
  before it stored the URL leaves the workspace without access, and says so to its
  caller only. A recovery of another failed move finds nothing to unlock and reports
  success. DatabaseMoveAgain.cfg with `MaxRecovers = 2`, invariant `UndoneForGood`.
* *A rebuild during a tick.* The end of the tick writes its state over the
  rebuild's (`backfill.ts:659`): the wiped messages before its cursor stay away, and
  the backfill ends as done. MailboxCopy.cfg with `RebuildDuringTick = TRUE`,
  invariant `CopiedWhenDone`.
* *A change that overtakes its ingest* is dropped as missing (`router.ts:605`).
  MailboxCopy.cfg with `InOrder = FALSE`, invariant `SameWhenDone`.
* *A write that is committed late* has an earlier time than the catch-up's end and,
  when the object does not get it, is missed by the catch-up (`router.ts:591`).
  MailboxCopy.cfg with `Delay = 1`, invariant `SameWhenDone`.
* *One continuation.* A folder marked as read during a backfill takes its place
  (`alarm.ts:125`): the backfill stays "running" for ever, and `startBackfill`
  leaves it alone (`backfill.ts:200`). MailboxCopy.cfg with `MaxWrites = 0`,
  property `BackfillEnds` without its conditions on `slot`. The other way round,
  a backfill started during a folder leaves its rest unmarked: `FolderReadEnds`
  without its last disjunct.

## 10. Not modelled

The sheet and board rooms and the self-hosted rooms (C), the
credits meter, envelopes, payment runs, reach, the pool of Neon databases, the
engines, events and webhooks: planned or left out for the reasons `PROJECT.json`
gives with each. Most of the repository is user interface, request handlers
that are one statement or transaction, generated code and translations; the
models cover the protocols and ledgers, which are a small part of its lines.

## 11. Running

    tlc -config CollabAccepted.cfg MCCollab
    tlc -config DocRoomRestores.cfg MCDocRoom
    tlc -config DatabaseMove.cfg MCDatabaseMove
    tlc -config Sequence.cfg MCSequence
    tlc -config MailLedger.cfg MCMailLedger
    tlc -config MailboxCopy.cfg MCMailboxCopy
    tlapm Collab_proofs.tla
    tlapm CollabConvergence_proofs.tla
    tlapm Sequence_proofs.tla
    tlapm DatabaseMove_proofs.tla
    tlapm DocRoom_proofs.tla
    tlapm MailLedger_proofs.tla
    tlapm MailboxCopy_proofs.tla
    tlapm InductionFacts.tla

Definitions marked "Mutant" or "Mutated", or placed next to the definition they
alter (`LogAfterButOne`, `RoomHelloOneBehind`, ...), belong to no specification: each
is a plausible mistake in the code, and `PROJECT.json` says which property it
violates when it takes the place of the original.
