-------------------------------- MODULE DocRoom --------------------------------
(***************************************************************************)
(* The Durable Object that keeps a document                                *)
(* (apps/workers/docs-api/src/room/doc-room.ts): the op log in its own     *)
(* storage, checkpoints of the whole document in R2, loading after a stop, *)
(* and restoring an earlier version.                                       *)
(*                                                                         *)
(* The object runs one event at a time up to its next await, so a step     *)
(* here is what runs between two awaits.  Its storage is written behind:   *)
(* a write is seen by later reads at once, is durable some time later, in  *)
(* order, and nothing leaves the object (an ack, a put to R2) before all   *)
(* earlier writes are durable.                                             *)
(*                                                                         *)
(* A document is the sequence of the edits in it; the edit that is made    *)
(* n-th is n, and a version that is restored is the document <<r>> of its  *)
(* restore request r.                                                      *)
(***************************************************************************)
EXTENDS Integers, FiniteSets, SequencesExt

CONSTANTS
    Restore,         \* restore requests, each with a version to go back to
    NoRestore,       \* restoring is null
    CheckpointEvery, \* ops after which a checkpoint starts at once
    KeepLog,         \* ops kept in the log behind the checkpoint
    AmbiguousPuts,   \* may a put to R2 that is reported as failed have landed?
    MaxEdits, MaxStops, MaxReloads, MaxFailures

ASSUME DocRoomAssumption ==
    /\ NoRestore \notin Restore
    /\ Restore \cap (1 .. MaxEdits) = {} \* a restored document holds no edit
    /\ CheckpointEvery \in Nat \ {0} /\ KeepLog \in Nat
    /\ AmbiguousPuts \in BOOLEAN
    /\ {MaxEdits, MaxStops, MaxReloads, MaxFailures} \subseteq Nat

VARIABLES
    (* in memory *)
    rooms,        \* every room object so far; only the current one changes
    current,      \* which of them is this.room; 0 is null
    loading,      \* <<checkpoint read>> while a room is being loaded
    checkpointed, \* revision of the latest checkpoint known of
    checkpoint,   \* the one checkpoint that may be running
    alarmPending,
    restoring,    \* the restore that others wait for
    restore,      \* where each restore request is
    (* outside the object's memory *)
    unflushed,    \* writes to storage not yet durable, oldest first
    storage,      \* what is durable: the op log, LOG_FLOOR, the alarm
    alarmRunning, \* the runtime's view of the alarm handler
    snapshot,     \* the checkpoint in R2
    versions,     \* documents saved as automatic versions
    acked,        \* edits acked to their senders
    used          \* how often each bounded event has happened

memory == <<rooms, current, loading, checkpointed, checkpoint, alarmPending,
            restoring, restore>>
vars == <<memory, unflushed, storage, alarmRunning, snapshot, versions,
          acked, used>>

Bound == [edit |-> MaxEdits, stop |-> MaxStops, reload |-> MaxReloads,
          failure |-> MaxFailures]

Edit == 1 .. MaxEdits
Doc == Seq(Edit \cup Restore)
Snapshot == [revision : Nat, doc : Doc]
LoggedOp == [revision : Nat, op : Edit]
Storage == [log : SUBSET LoggedOp, floor : Nat, alarm : BOOLEAN]
Write == [type : {"op"}, entry : LoggedOp] \cup [type : {"floor"}, floor : Nat]
            \cup [type : {"trim"}, upTo : Int] \cup [type : {"alarm"}]
Checkpoint == [phase : {"idle", "sync", "put", "landed", "report"},
               room : Nat, taken : Snapshot]
RestorePhase == {"new", "waiting", "loading", "saving", "awaiting",
                 "version", "put", "landed", "record", "done"}
Restoration == [phase : RestorePhase, room : Nat, taken : Snapshot,
                floorBefore : Nat]

TypeOK ==
    /\ rooms \in Seq(Snapshot)
    /\ current \in 0 .. Len(rooms)
    /\ loading \in Seq(Snapshot) /\ Len(loading) <= 1
    /\ checkpointed \in Nat
    /\ checkpoint \in Checkpoint
    /\ alarmPending \in BOOLEAN
    /\ restoring \in Restore \cup {NoRestore}
    /\ restore \in [Restore -> Restoration]
    /\ unflushed \in Seq(Write)
    /\ storage \in Storage
    /\ alarmRunning \in {"no", "settling", "checkpointing"}
    /\ snapshot \in Snapshot
    /\ versions \subseteq Doc
    /\ acked \subseteq Edit
    /\ used \in [DOMAIN Bound -> Nat]

NewDocument == [revision |-> 0, doc |-> <<>>]
NoCheckpoint == [phase |-> "idle", room |-> 0, taken |-> NewDocument]
NoRestoration == [phase |-> "new", room |-> 0, taken |-> NewDocument,
                  floorBefore |-> 0]

Init ==
    /\ rooms = <<>> /\ current = 0 /\ loading = <<>>
    /\ checkpointed = 0 /\ checkpoint = NoCheckpoint
    /\ alarmPending = FALSE
    /\ restoring = NoRestore
    /\ restore = [r \in Restore |-> NoRestoration]
    /\ unflushed = <<>>
    /\ storage = [log |-> {}, floor |-> 0, alarm |-> FALSE]
    /\ alarmRunning = "no"
    /\ snapshot = NewDocument
    /\ versions = {} /\ acked = {}
    /\ used = [event \in DOMAIN Bound |-> 0]

Spend(event) ==
    /\ used[event] < Bound[event]
    /\ used' = [used EXCEPT ![event] = @ + 1]

-----------------------------------------------------------------------------
(* Storage.                                                                *)

(* Storage after a write; trimLog drops ops up to and including upTo. *)
Written(st, w) ==
    CASE w.type = "op" ->
            [st EXCEPT !.log = {e \in @ : e.revision # w.entry.revision}
                                    \cup {w.entry}]
      [] w.type = "floor" -> [st EXCEPT !.floor = w.floor]
      [] w.type = "trim"  ->
            [st EXCEPT !.log = {e \in @ : e.revision > w.upTo}]
      [] w.type = "alarm" -> [st EXCEPT !.alarm = TRUE]

(* What the object reads: its own writes included. *)
View == FoldLeft(Written, storage, unflushed)

Flushed == unflushed = <<>>

(* Mutated: hides the op at the floor's own revision, the first one made   *)
(* after a restore that stopped halfway.                                   *)
ReplayedAboveFloor(from, st) ==
    {e \in st.log : e.revision > st.floor /\ e.revision > from.revision}

(* The ops a load applies to a checkpoint: those of readLog (not below the *)
(* floor) after the checkpoint.                                            *)
Replayed(from, st) ==
    {e \in st.log : e.revision >= st.floor /\ e.revision > from.revision}

(* Otherwise replay throws: "Op log has a gap after revision ...". *)
NoGap(from, st) ==
    \A e \in Replayed(from, st) :
        \A rev \in (from.revision + 1) .. e.revision :
            \E f \in Replayed(from, st) : f.revision = rev

(* The ops that follow the checkpoint, up to a gap should there be one.    *)
Loaded(from, st) ==
    LET has(rev) == \E e \in Replayed(from, st) : e.revision = rev
        opAt(rev) == CHOOSE op \in Edit :
                         [revision |-> rev, op |-> op] \in st.log
        n == Max({k \in 0 .. Cardinality(st.log) :
                      \A i \in 1 .. k : has(from.revision + i)})
    IN  [revision |-> from.revision + n,
         doc |-> from.doc \o [i \in 1 .. n |-> opAt(from.revision + i)]]

(* A write becomes durable; an op's ack may now leave. *)
Flush ==
    /\ unflushed # <<>>
    /\ storage' = Written(storage, Head(unflushed))
    /\ unflushed' = Tail(unflushed)
    /\ acked' = IF Head(unflushed).type = "op"
                THEN acked \cup {Head(unflushed).entry.op} ELSE acked
    /\ UNCHANGED <<memory, alarmRunning, snapshot, versions, used>>

-----------------------------------------------------------------------------
(* Checkpoints.                                                            *)

(* checkpoint(): joins the one running, or starts one if the room has      *)
(* moved on; the document is taken at once.                                *)
Started(id, room) ==
    IF checkpoint.phase # "idle" \/ room.revision <= checkpointed
    THEN checkpoint
    ELSE [phase |-> "sync", room |-> id, taken |-> room]

(* scheduleCheckpoint(): the writes it makes. *)
Scheduled ==
    IF alarmPending \/ View.alarm THEN <<>> ELSE <<[type |-> "alarm"]>>

(* Mutated: no storage.sync(). *)
CheckpointSyncedAtOnce ==
    /\ checkpoint.phase = "sync"
    /\ checkpoint' = [checkpoint EXCEPT !.phase = "put"]
    /\ UNCHANGED <<rooms, current, loading, checkpointed, alarmPending,
                   restoring, restore, unflushed, storage, alarmRunning,
                   snapshot, versions, acked, used>>

(* Every op the snapshot contains is durable before the snapshot exists. *)
CheckpointSynced ==
    /\ checkpoint.phase = "sync"
    /\ Flushed
    /\ checkpoint' = [checkpoint EXCEPT !.phase = "put"]
    /\ UNCHANGED <<rooms, current, loading, checkpointed, alarmPending,
                   restoring, restore, unflushed, storage, alarmRunning,
                   snapshot, versions, acked, used>>

(* R2 replaces the checkpoint. *)
CheckpointLands ==
    /\ checkpoint.phase = "put"
    /\ snapshot' = checkpoint.taken
    /\ checkpoint' = [checkpoint EXCEPT !.phase = "landed"]
    /\ UNCHANGED <<rooms, current, loading, checkpointed, alarmPending,
                   restoring, restore, unflushed, storage, alarmRunning,
                   versions, acked, used>>

(* Mutated: trims by the revision the room has reached meanwhile. *)
CheckpointWrittenTrimmingAhead ==
    /\ checkpoint.phase = "landed"
    /\ checkpointed' = checkpoint.taken.revision
    /\ unflushed' = Append(unflushed, [type |-> "trim",
                       upTo |-> rooms[checkpoint.room].revision - KeepLog])
    /\ checkpoint' = [checkpoint EXCEPT !.phase = "report"]
    /\ UNCHANGED <<rooms, current, loading, alarmPending, restoring, restore,
                   storage, alarmRunning, snapshot, versions, acked, used>>

(* The put has returned; the log is trimmed. *)
CheckpointWritten ==
    /\ checkpoint.phase = "landed"
    /\ checkpointed' = checkpoint.taken.revision
    /\ unflushed' = Append(unflushed, [type |-> "trim",
                               upTo |-> checkpoint.taken.revision - KeepLog])
    /\ checkpoint' = [checkpoint EXCEPT !.phase = "report"]
    /\ UNCHANGED <<rooms, current, loading, alarmPending, restoring, restore, storage, alarmRunning, snapshot, versions, acked,
                   used>>

(* Restores waiting for the checkpoint look again whether it is enough. *)
Rechecking ==
    [r \in Restore |->
        IF restore[r].phase = "awaiting"
        THEN [restore[r] EXCEPT !.phase = "saving"] ELSE restore[r]]

(* Mutated: edits made meanwhile do not get another checkpoint. *)
CheckpointReportedOnly ==
    /\ checkpoint.phase = "report"
    /\ checkpoint' = NoCheckpoint
    /\ restore' = Rechecking
    /\ alarmRunning' = IF alarmRunning = "checkpointing" THEN "no"
                       ELSE alarmRunning
    /\ UNCHANGED <<rooms, current, loading, checkpointed, alarmPending,
                   restoring, unflushed, storage, snapshot, versions, acked,
                   used>>

(* The checkpoint has been reported; edits made meanwhile get another. *)
CheckpointReported ==
    /\ checkpoint.phase = "report"
    /\ IF rooms[checkpoint.room].revision > checkpointed
       THEN /\ unflushed' = unflushed \o Scheduled
            /\ alarmPending' = TRUE
       ELSE UNCHANGED <<unflushed, alarmPending>>
    /\ checkpoint' = NoCheckpoint
    /\ restore' = Rechecking
    /\ alarmRunning' = IF alarmRunning = "checkpointing" THEN "no"
                       ELSE alarmRunning
    /\ UNCHANGED <<rooms, current, loading, checkpointed, restoring,
                   storage, snapshot, versions, acked, used>>

(* The last person leaves: webSocketClose checkpoints. *)
LastSocketCloses ==
    /\ current # 0
    /\ checkpoint' = Started(current, rooms[current])
    /\ checkpoint' # checkpoint
    /\ UNCHANGED <<rooms, current, loading, checkpointed, alarmPending,
                   restoring, restore, unflushed, storage, alarmRunning,
                   snapshot, versions, acked, used>>

(* The alarm handler starts, and waits for a restore to end. *)
AlarmFires ==
    /\ storage.alarm
    /\ alarmRunning = "no"
    /\ storage' = [storage EXCEPT !.alarm = FALSE]
    /\ alarmPending' = FALSE
    /\ alarmRunning' = "settling"
    /\ UNCHANGED <<rooms, current, loading, checkpointed, checkpoint, restoring,
                   restore, unflushed, snapshot, versions, acked,
                   used>>

AlarmCheckpoints ==
    /\ alarmRunning = "settling"
    /\ restoring = NoRestore
    /\ current # 0
    /\ checkpoint' = Started(current, rooms[current])
    /\ alarmRunning' = IF checkpoint'.phase = "idle" THEN "no"
                       ELSE "checkpointing"
    /\ UNCHANGED <<rooms, current, loading, checkpointed, alarmPending,
                   restoring, restore, unflushed, storage, snapshot,
                   versions, acked, used>>

-----------------------------------------------------------------------------
(* Loading the document.                                                   *)

(* A restore request that begins: it works on the room it finds, or on the *)
(* one it waits for.                                                       *)
Begun(r, id) ==
    [restore[r] EXCEPT !.room = id,
                       !.phase = IF id = 0 THEN "loading" ELSE "saving"]

(* Mutated: those that wait are not resumed. *)
EndAlone(ended, id) ==
    /\ restore' = [r \in Restore |->
                      IF r \in ended THEN [restore[r] EXCEPT !.phase = "done"]
                      ELSE restore[r]]
    /\ restoring' = NoRestore

(* The restores in ended return or throw, which sets restoring to null;    *)
(* all that waited in settled() go on before anything else happens, and    *)
(* the last of them is the one that later comers wait for.  (What waits    *)
(* waits for the same restore as long as there are three of them at most.) *)
End(ended, id) ==
    LET waiting == {r \in Restore : restore[r].phase = "waiting"}
    IN  /\ restore' = [r \in Restore |->
                          IF r \in ended
                          THEN [restore[r] EXCEPT !.phase = "done"]
                          ELSE IF r \in waiting THEN Begun(r, id)
                          ELSE restore[r]]
        /\ restoring' \in IF waiting = {} THEN {NoRestore} ELSE waiting

(* Mutated: each caller starts a load of its own (= for ??=). *)
LoadSnapshotUnshared ==
    /\ current = 0
    /\ loading' = Append(loading, snapshot)
    /\ UNCHANGED <<rooms, current, checkpointed, checkpoint, alarmPending,
                   restoring, restore, unflushed, storage, alarmRunning,
                   snapshot, versions, acked, used>>

(* Someone connects, or a message, an alarm or a restore needs the room:   *)
(* load() reads the checkpoint ...                                         *)
LoadSnapshot ==
    /\ current = 0 /\ loading = <<>>
    /\ loading' = <<snapshot>>
    /\ UNCHANGED <<rooms, current, checkpointed, checkpoint, alarmPending,
                   restoring, restore, unflushed, storage, alarmRunning,
                   snapshot, versions, acked, used>>

(* ... and then the op log, on which the document is rebuilt.  On a gap    *)
(* the load fails, and so do those that wait for it.                       *)
LoadLog ==
    /\ loading # <<>>
    /\ LET loaders == {r \in Restore : restore[r].phase = "loading"}
       IN  IF NoGap(loading[1], View)
           THEN /\ rooms' = Append(rooms, Loaded(loading[1], View))
                /\ current' = Len(rooms')
                /\ checkpointed' = loading[1].revision
                /\ restore' = [r \in Restore |->
                                  IF r \in loaders THEN Begun(r, current')
                                  ELSE restore[r]]
                /\ UNCHANGED restoring
           ELSE /\ IF loaders = {} THEN UNCHANGED <<restore, restoring>>
                   ELSE End(loaders, 0)
                /\ UNCHANGED <<rooms, current, checkpointed>>
    /\ loading' = <<>>
    /\ UNCHANGED <<checkpoint, alarmPending, unflushed, storage, alarmRunning,
                   snapshot, versions, acked, used>>

-----------------------------------------------------------------------------
(* Edits.                                                                  *)

(* Mutated: an edit does not wait for a restore. *)
CommitEditAnyTime ==
    /\ current # 0
    /\ Spend("edit")
    /\ LET edit == used.edit + 1
           room == [revision |-> rooms[current].revision + 1,
                    doc |-> Append(rooms[current].doc, edit)]
           logged == [type |-> "op",
                      entry |-> [revision |-> room.revision, op |-> edit]]
           due == room.revision - checkpointed >= CheckpointEvery
       IN  /\ rooms' = [rooms EXCEPT ![current] = room]
           /\ unflushed' = Append(unflushed, logged)
                               \o (IF due THEN <<>> ELSE Scheduled)
           /\ alarmPending' = (alarmPending \/ ~due)
           /\ checkpoint' = IF due THEN Started(current, room) ELSE checkpoint
    /\ UNCHANGED <<current, loading, checkpointed, restoring, restore, storage,
                   alarmRunning, snapshot, versions, acked>>

(* A message whose op commits: onCommit logs it, edited() sees to a        *)
(* checkpoint.                                                             *)
CommitEdit ==
    /\ current # 0 /\ restoring = NoRestore
    /\ Spend("edit")
    /\ LET edit == used.edit + 1
           room == [revision |-> rooms[current].revision + 1,
                    doc |-> Append(rooms[current].doc, edit)]
           logged == [type |-> "op",
                      entry |-> [revision |-> room.revision, op |-> edit]]
           due == room.revision - checkpointed >= CheckpointEvery
       IN  /\ rooms' = [rooms EXCEPT ![current] = room]
           /\ unflushed' = Append(unflushed, logged)
                               \o (IF due THEN <<>> ELSE Scheduled)
           /\ alarmPending' = (alarmPending \/ ~due)
           /\ checkpoint' = IF due THEN Started(current, room) ELSE checkpoint
    /\ UNCHANGED <<current, loading, checkpointed, restoring, restore, storage,
                   alarmRunning, snapshot, versions, acked>>

(* An op fails to apply and may leave the document half-changed: the room  *)
(* is dropped.                                                             *)
Reload ==
    /\ current # 0 /\ restoring = NoRestore
    /\ Spend("reload")
    /\ current' = 0 /\ loading' = <<>>
    /\ UNCHANGED <<rooms, checkpointed, checkpoint, alarmPending, restoring,
                   restore, unflushed, storage, alarmRunning, snapshot,
                   versions, acked>>

-----------------------------------------------------------------------------
(* Restoring a version: restoreVersion and replaceWithVersion.             *)

Moved(r, phase) == [restore EXCEPT ![r].phase = phase]

RequestRestore(r) ==
    /\ restore[r].phase = "new"
    /\ IF restoring = NoRestore
       THEN /\ restore' = [restore EXCEPT ![r] = Begun(r, current)]
            /\ restoring' = r
       ELSE /\ restore' = Moved(r, "waiting")
            /\ UNCHANGED restoring
    /\ UNCHANGED <<rooms, current, loading, checkpointed, checkpoint,
                   alarmPending, unflushed, storage, alarmRunning, snapshot,
                   versions, acked, used>>

(* 1. Everything so far is in the checkpoint: checkpoint() until it is.    *)
CheckpointForRestore(r) ==
    /\ restore[r].phase = "saving"
    /\ rooms[restore[r].room].revision > checkpointed
    /\ current # 0
    /\ checkpoint' = Started(current, rooms[current])
    /\ checkpoint'.phase # "idle"
    /\ restore' = Moved(r, "awaiting")
    /\ UNCHANGED <<rooms, current, loading, checkpointed, alarmPending,
                   restoring, unflushed, storage, alarmRunning, snapshot,
                   versions, acked, used>>

CaptureVersion(r) ==
    /\ restore[r].phase = "saving"
    /\ rooms[restore[r].room].revision <= checkpointed
    /\ restore' = [Moved(r, "version") EXCEPT
                      ![r].taken = rooms[restore[r].room]]
    /\ UNCHANGED <<rooms, current, loading, checkpointed, checkpoint,
                   alarmPending, restoring, unflushed, storage, alarmRunning,
                   snapshot, versions, acked, used>>

(* The version is in R2 and has its row; 2. the floor goes first.          *)
VersionSaved(r) ==
    /\ restore[r].phase = "version"
    /\ Flushed
    /\ versions' = versions \cup {restore[r].taken.doc}
    /\ restore' = [Moved(r, "put") EXCEPT ![r].floorBefore = View.floor]
    /\ unflushed' = Append(unflushed, [type |-> "floor",
                               floor |-> restore[r].taken.revision + 1])
    /\ UNCHANGED <<rooms, current, loading, checkpointed, checkpoint,
                   alarmPending, restoring, storage, alarmRunning, snapshot,
                   acked, used>>

RestoredDocument(r) ==
    [revision |-> restore[r].taken.revision + 1, doc |-> <<r>>]

RestoreLands(r) ==
    /\ restore[r].phase = "put"
    /\ Flushed
    /\ snapshot' = RestoredDocument(r)
    /\ restore' = Moved(r, "landed")
    /\ UNCHANGED <<rooms, current, loading, checkpointed, checkpoint,
                   alarmPending, restoring, unflushed, storage, alarmRunning,
                   versions, acked, used>>

(* 3. The new room takes over; the log of the old one is dropped.          *)
Switch(r) ==
    /\ restore[r].phase = "landed"
    /\ rooms' = Append(rooms, RestoredDocument(r))
    /\ current' = Len(rooms')
    /\ loading' = <<>>
    /\ checkpointed' = RestoredDocument(r).revision
    /\ unflushed' = Append(unflushed,
                       [type |-> "trim", upTo |-> restore[r].taken.revision])
    /\ restore' = Moved(r, "record")
    /\ UNCHANGED <<checkpoint, alarmPending, restoring, storage, alarmRunning,
                   snapshot, versions, acked, used>>

(* The tenant database has been told, or could not be.                     *)
RestoreDone(r) ==
    /\ restore[r].phase = "record"
    /\ End({r}, current)
    /\ UNCHANGED <<rooms, current, loading, checkpointed, checkpoint,
                   alarmPending, unflushed, storage, alarmRunning, snapshot,
                   versions, acked, used>>

(* The version cannot be read, the automatic one not be saved, or the put  *)
(* of the restored document fails: then the floor is put back.             *)
RestoreFails(r) ==
    /\ restore[r].phase \in {"saving", "version", "put"}
                                \cup (IF AmbiguousPuts THEN {"landed"} ELSE {})
    /\ Spend("failure")
    /\ unflushed' = IF restore[r].phase \in {"saving", "version"}
                    THEN unflushed
                    ELSE Append(unflushed, [type |-> "floor",
                                   floor |-> restore[r].floorBefore])
    /\ End({r}, current)
    /\ UNCHANGED <<rooms, current, loading, checkpointed, checkpoint,
                   alarmPending, storage, alarmRunning, snapshot, versions,
                   acked>>

-----------------------------------------------------------------------------
(* Failures.                                                               *)

(* Writing the checkpoint fails: so do the restores and the alarm waiting  *)
(* for it, and the runtime retries the alarm.                              *)
CheckpointFails ==
    /\ checkpoint.phase \in {"put"}
                                \cup (IF AmbiguousPuts THEN {"landed"} ELSE {})
    /\ Spend("failure")
    /\ checkpoint' = NoCheckpoint
    /\ LET failed == {r \in Restore : restore[r].phase = "awaiting"}
       IN  IF failed = {} THEN UNCHANGED <<restore, restoring>>
           ELSE End(failed, current)
    /\ IF alarmRunning = "checkpointing"
       THEN /\ alarmRunning' = "no"
            /\ storage' = [storage EXCEPT !.alarm = TRUE]
       ELSE UNCHANGED <<alarmRunning, storage>>
    /\ UNCHANGED <<rooms, current, loading, checkpointed, alarmPending,
                   unflushed, snapshot, versions, acked>>

(* The object stops, between any two steps: memory and what is not yet     *)
(* durable are lost, requests fail, and an alarm handler will run again.   *)
Stop ==
    /\ Spend("stop")
    /\ rooms' = <<>> /\ current' = 0 /\ loading' = <<>>
    /\ checkpointed' = 0 /\ checkpoint' = NoCheckpoint
    /\ alarmPending' = FALSE
    /\ restoring' = NoRestore
    /\ restore' = [r \in Restore |->
                      IF restore[r].phase = "new" THEN restore[r]
                      ELSE [NoRestoration EXCEPT !.phase = "done"]]
    /\ unflushed' = <<>>
    /\ storage' = [storage EXCEPT !.alarm = @ \/ alarmRunning # "no"]
    /\ alarmRunning' = "no"
    /\ UNCHANGED <<snapshot, versions, acked>>

RestoreStep(r) ==
    \/ CheckpointForRestore(r) \/ CaptureVersion(r) \/ VersionSaved(r)
    \/ RestoreLands(r) \/ Switch(r) \/ RestoreDone(r)

CheckpointStep ==
    CheckpointSynced \/ CheckpointLands \/ CheckpointWritten
        \/ CheckpointReported

Alarm == AlarmFires \/ AlarmCheckpoints

Load == LoadSnapshot \/ LoadLog

Next ==
    \/ Flush \/ CommitEdit \/ Reload \/ LastSocketCloses \/ Stop
    \/ Load \/ CheckpointStep \/ CheckpointFails \/ Alarm
    \/ \E r \in Restore :
           RequestRestore(r) \/ RestoreStep(r) \/ RestoreFails(r)

(* Storage, R2 and the tenant database answer; the runtime runs alarms.    *)
Fairness ==
    /\ WF_vars(Flush) /\ WF_vars(Load) /\ WF_vars(CheckpointStep)
    /\ WF_vars(Alarm)
    /\ \A r \in Restore : WF_vars(RestoreStep(r))

Spec == Init /\ [][Next]_vars /\ Fairness

-----------------------------------------------------------------------------
(* Properties.                                                             *)

Contents(doc) == {doc[i] : i \in DOMAIN doc}

(* An edit that was acked is never lost: it is in the document a restart   *)
(* would load, or in a version saved when that document was replaced.      *)
(* Holds between any two steps of checkpoints, trims, restores and stops.  *)
NothingLost ==
    \A e \in acked :
        \/ e \in Contents(Loaded(snapshot, storage).doc)
        \/ \E doc \in versions : e \in Contents(doc)

(* A restart would bring back the document as the room holds it, up to     *)
(* writes still on their way: the log continues the checkpoint without a   *)
(* gap, and no trimmed, floored or replaced op is missing or applied       *)
(* twice.  While a restore has written its checkpoint but not switched     *)
(* rooms yet, the two differ, and the document is the restored one.        *)
RestartKeepsTheDocument ==
    (current # 0 /\ \A r \in Restore : restore[r].phase # "landed") =>
        /\ NoGap(snapshot, View)
        /\ Loaded(snapshot, View) = rooms[current]

(* What storage and R2 keep changes only as DurableDocument says: one op   *)
(* at a time is added as it becomes durable, and a restore replaces only   *)
(* what was saved as a version; checkpoints, trims, floors and stops do    *)
(* not show.                                                               *)
Kept == INSTANCE DurableDocument WITH
            document <- Loaded(snapshot, storage).doc,
            saved <- versions,
            Edits <- Edit,
            Versions <- Restore
KeptDocument == Kept!Spec

(* Every restore request ends: neither waiting for another restore nor     *)
(* looping over checkpoints that others started goes on for ever.          *)
RestoresEnd ==
    \A r \in Restore : restore[r].phase # "new" ~> restore[r].phase = "done"

(* As long as the object does not stop, no room is dropped and nothing is  *)
(* restored, what has been edited ends up in the checkpoint: no edit is    *)
(* left without an alarm or a checkpoint to follow it.                     *)
EditsReachTheCheckpoint ==
    (current # 0 /\ rooms[current].revision > snapshot.revision) ~>
        \/ current = 0
        \/ rooms[current].revision <= snapshot.revision
        \/ used.stop > 0 \/ used.reload > 0
        \/ \E r \in Restore : restore[r].phase # "new"
=============================================================================
