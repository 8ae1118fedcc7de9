----------------------------- MODULE DatabaseMove -----------------------------
(***************************************************************************)
(* Moving a workspace to another database                                  *)
(* (apps/workers/workspace-worker/src/services/database-move, the workflow *)
(* in workflows/move-database.ts and the daily sweep after it).            *)
(*                                                                         *)
(* A workflow prepares a target, locks the source, copies, compares and    *)
(* switches.  What it knows is in the move's row, which the routes of the  *)
(* administrators (start, cancel, recover) read and write as well.  A step *)
(* is cut where it waits for a query, so that the others get in between; a *)
(* step that fails starts again, or the move is undone.                    *)
(*                                                                         *)
(* Left out: what is in a row of a table (a writer writes one row, and a   *)
(* checksum is the set of rows), migrations, the caches of connection URLs *)
(* (a writer may keep one for as long as it likes) and the refusal of      *)
(* writes by the first-party APIs while a move is on, which crons and      *)
(* queue consumers do not ask: the lock must do without it.                *)
(***************************************************************************)
EXTENDS Naturals, FiniteSets

CONSTANTS
    Move,             \* moves, one after the other
    Home,             \* the database the workspace starts with
    Target,           \* databases that may be created for moves
    Writer,           \* clients that write one row each
    Admin,            \* the administrator's recover route, a runner of the undo
    None,
    Overlap,          \* may a move still be undone once the next was started?
    ForcedAlive,      \* may a recovery be forced while the workflow still runs?
    MaxFailures,      \* failed queries, calls and workers
    MaxCancels, MaxRecovers

Database == {Home} \cup Target
Runner == Move \cup {Admin}

ASSUME DistinctNames ==
    /\ Home \notin Target
    /\ None \notin Database
    /\ Admin \notin Move
ASSUME Flags == Overlap \in BOOLEAN /\ ForcedAlive \in BOOLEAN
ASSUME Bounds == MaxFailures \in Nat /\ MaxCancels \in Nat /\ MaxRecovers \in Nat

VARIABLES
    workspace,        \* the workspace's row: where its database is and the password it knows
    db,               \* the databases
    move,             \* the rows of the moves
    flow,             \* the workflow of each move: its step and what it carries
    undo,             \* the undoing of a move, by its workflow or by a recovery
    writer,           \* the connections of the writers
    written,          \* the writes that were acknowledged
    failures, cancels, recovers

vars == <<workspace, db, move, flow, undo, writer, written, failures, cancels, recovers>>
budgets == <<failures, cancels, recovers>>

-----------------------------------------------------------------------------
(* The rows.                                                               *)

Over == {"completed", "failed", "cancelled"}
Cancellable == {"queued", "preparing", "soft_locked", "locked", "copying", "verifying"}
Active == Cancellable \cup {"switching", "cancelling"}

(* "none" and "asked" are not in the table yet: a start that has read the  *)
(* workspace is about to insert its row.                                   *)
Status == Active \cup Over \cup {"none", "asked"}

(* What a later step, or the undo, finds in the row's progress. *)
Mark == {"lockStarted", "prepared", "copied", "released"}

Marked(m, mark) == mark \in move[m].marks

(* Mutant: a cancel is not looked for. *)
LiveUnlessOver(m) == move[m].status \notin Over

(* advance() lets a step begin only while this holds. *)
Live(m) == move[m].status \in Active \ {"cancelling"} /\ ~move[m].cancelled

AtSource(m) == workspace.at = move[m].source

(* A connection URL works while its password is the database's. *)
Works(url) == db[url.at].alive /\ url.key = db[url.at].key

SourceAnswers(m) == AtSource(m) /\ Works(workspace)
TargetAnswers(m) == move[m].target # None /\ db[move[m].target].alive

(* A database nothing was created in yet. *)
Unborn == [alive |-> FALSE, born |-> FALSE, key |-> 0, readOnly |-> FALSE, rows |-> {}]

NewMove == [status |-> "none", cancelled |-> FALSE, unstarted |-> FALSE, source |-> None, target |-> None, marks |-> {}]

NewFlow == [step |-> "none", seen |-> {}, made |-> None, key |-> 0,
            before |-> {}, target |-> {}, after |-> {}, outcome |-> "failed"]

Idle == [phase |-> "idle", of |-> None, marks |-> {}, target |-> None, from |-> None,
         with |-> 0, key |-> 0, problem |-> FALSE, outcome |-> "failed"]

Init ==
    /\ workspace = [at |-> Home, key |-> 0]
    /\ db = [d \in Database |-> IF d = Home THEN [Unborn EXCEPT !.alive = TRUE, !.born = TRUE]
                                            ELSE Unborn]
    /\ move = [m \in Move |-> NewMove]
    /\ flow = [m \in Move |-> NewFlow]
    /\ undo = [r \in Runner |-> Idle]
    /\ writer = [w \in Writer |-> [phase |-> "idle", at |-> None, key |-> 0]]
    /\ written = {}
    /\ failures = 0 /\ cancels = 0 /\ recovers = 0

-----------------------------------------------------------------------------
(* Starting and cancelling.                                                *)

(* startDatabaseMove reads the workspace: its database is the source. *)
Ask(m) ==
    /\ move[m].status = "none"
    /\ move' = [move EXCEPT ![m].status = "asked", ![m].source = workspace.at]
    /\ UNCHANGED <<workspace, db, flow, undo, writer, written, budgets>>

(* No workflow is at work, nor a recovery. *)
Dead(m) == flow[m].step = "dead"

NobodyActs ==
    /\ \A m \in Move : flow[m].step \in {"none", "done", "dead"} /\ ~move[m].unstarted
    /\ \A r \in Runner : undo[r].phase \in {"idle", "done", "error"}

(* The row is inserted, unless another move is active (a unique index),    *)
(* and the workflow is started.  That call may fail, or only appear to; or *)
(* the worker stops before it is told of it.                               *)
Start(m) ==
    /\ move[m].status = "asked"
    /\ \A o \in Move : move[o].status \notin Active
    /\ Overlap \/ NobodyActs
    /\ \/ /\ move' = [move EXCEPT ![m].status = "queued"]
          /\ flow' = [flow EXCEPT ![m].step = "begin"]
          /\ UNCHANGED failures
       \/ /\ failures < MaxFailures
          /\ failures' = failures + 1
          /\ \E told \in BOOLEAN, step \in {"begin", "dead"} :
                 /\ move' = [move EXCEPT ![m].status = "queued", ![m].unstarted = told]
                 /\ flow' = [flow EXCEPT ![m].step = step]
    /\ UNCHANGED <<workspace, db, undo, writer, written, cancels, recovers>>

(* After a failed start the row is closed, whatever it says by then. *)
CloseUnstarted(m) ==
    /\ move[m].unstarted
    /\ move' = [move EXCEPT ![m].status = "failed", ![m].unstarted = FALSE]
    /\ UNCHANGED <<workspace, db, flow, undo, writer, written, budgets>>

(* requestMoveCancel: refused once the switch has begun. *)
Cancel(m) ==
    /\ cancels < MaxCancels
    /\ move[m].status \in Cancellable
    /\ move' = [move EXCEPT ![m].status = "cancelling", ![m].cancelled = TRUE]
    /\ cancels' = cancels + 1
    /\ UNCHANGED <<workspace, db, flow, undo, writer, written, failures, recovers>>

-----------------------------------------------------------------------------
(* The workflow, step by step.                                             *)

(* Where a failed step starts again. *)
StepOf(s) ==
    CASE s = "target-made" -> "prepare-target"
      [] s \in {"lock-mark", "lock-rotate", "lock-store", "lock-alter", "lock-end"} -> "lock-source"
      [] s = "lock-probe" -> "lock-verify"
      [] s = "prepare-mark" -> "prepare-copy"
      [] s = "copy-mark" -> "copy"
      [] s \in {"switch-commit", "switch-done"} -> "switch"
      [] OTHER -> s

Step == {"begin", "check-source", "prepare-target", "target-made", "target-ready", "soft-lock",
         "lock-source", "lock-mark", "lock-rotate", "lock-store", "lock-alter", "lock-end",
         "lock-verify", "lock-probe", "prepare-copy", "prepare-mark", "checksums-source",
         "copy", "copy-mark", "finish", "checksums-target", "checksums-source-after",
         "verify-compare", "switch", "switch-commit", "switch-done"}
Working(m) == flow[m].step \in Step
Beginning(m) == Working(m) /\ StepOf(flow[m].step) = flow[m].step

(* Steps that refuse a workspace that is no longer at the source. *)
Movable == {"check-source", "target-ready", "soft-lock", "lock-source", "lock-verify",
            "prepare-copy", "checksums-source", "copy", "finish", "checksums-source-after"}

(* The workflow of m leaves its steps for the undo. *)
GivesUp(m, outcome) ==
    /\ flow' = [flow EXCEPT ![m] = [NewFlow EXCEPT !.step = "undo", !.outcome = outcome]]
    /\ undo' = [undo EXCEPT ![m] = [Idle EXCEPT !.phase = "load", !.of = m, !.outcome = outcome]]

(* A step begins while the move is live; its row is read. *)
Enters(m, step, status) ==
    /\ flow[m].step = step
    /\ Live(m)
    /\ step \in Movable => AtSource(m)
    /\ move' = [move EXCEPT ![m].status = IF status = "same" THEN @ ELSE status]

Then(m, step) == flow' = [flow EXCEPT ![m].step = step]

(* A step of a move that was cancelled, or that is over, throws. *)
NotEntered(m) ==
    /\ Beginning(m)
    /\ ~Live(m)
    /\ flow[m].step = "switch" => move[m].status # "completed"
    /\ GivesUp(m, IF move[m].cancelled THEN "cancelled" ELSE "failed")
    /\ UNCHANGED <<workspace, db, move, writer, written, budgets>>

(* assertMovable throws, or there is no copy to go on with. *)
NotMovable(m) ==
    /\ Live(m)
    /\ \/ flow[m].step \in Movable /\ ~AtSource(m)
       \/ flow[m].step \in {"copy", "finish"} /\ ~Marked(m, "prepared")
    /\ GivesUp(m, "failed")
    /\ UNCHANGED <<workspace, db, move, writer, written, budgets>>

Begin(m) ==
    /\ Enters(m, "begin", "preparing")
    /\ Then(m, "check-source")
    /\ UNCHANGED <<workspace, db, undo, writer, written, budgets>>

CheckSource(m) ==
    /\ Enters(m, "check-source", "same")
    /\ SourceAnswers(m)
    /\ Then(m, "prepare-target")
    /\ UNCHANGED <<workspace, db, undo, writer, written, budgets>>

(* A target is created, unless the row has one from an earlier try. *)
PrepareTarget(m) ==
    /\ Enters(m, "prepare-target", "same")
    /\ \/ /\ move[m].target # None
          /\ Then(m, "target-ready")
          /\ UNCHANGED db
       \/ /\ move[m].target = None
          /\ \E t \in Target :
                /\ ~db[t].born
                /\ db' = [db EXCEPT ![t] = [@ EXCEPT !.alive = TRUE, !.born = TRUE]]
                /\ flow' = [flow EXCEPT ![m].step = "target-made", ![m].made = t]
    /\ UNCHANGED <<workspace, undo, writer, written, budgets>>

(* Mutant: the target of a move that was cancelled is not noted. *)
RecordTargetIfLive(m) ==
    /\ flow[m].step = "target-made"
    /\ move' = [move EXCEPT ![m].target = IF Live(m) THEN flow[m].made ELSE @]
    /\ flow' = [flow EXCEPT ![m].step = "target-ready", ![m].made = None]
    /\ UNCHANGED <<workspace, db, undo, writer, written, budgets>>

(* The target is noted in the row, whatever has become of the move. *)
RecordTarget(m) ==
    /\ flow[m].step = "target-made"
    /\ move' = [move EXCEPT ![m].target = flow[m].made]
    /\ flow' = [flow EXCEPT ![m].step = "target-ready", ![m].made = None]
    /\ UNCHANGED <<workspace, db, undo, writer, written, budgets>>

(* migrate-target and target-ready: both sides answer. *)
TargetReady(m) ==
    /\ Enters(m, "target-ready", "same")
    /\ SourceAnswers(m) /\ TargetAnswers(m)
    /\ Then(m, "soft-lock")
    /\ UNCHANGED <<workspace, db, undo, writer, written, budgets>>

SoftLock(m) ==
    /\ Enters(m, "soft-lock", "soft_locked")
    /\ Then(m, "lock-source")
    /\ UNCHANGED <<workspace, db, undo, writer, written, budgets>>

(* Mutant: the lock begins without a note. *)
LockSourceUnmarked(m) ==
    /\ Enters(m, "lock-source", "same")
    /\ Then(m, "lock-rotate")
    /\ UNCHANGED <<workspace, db, undo, writer, written, budgets>>

(* lockSourcePartOne: note that the lock begins, rotate the password,      *)
(* store the new one, make the database read-only and end its sessions.    *)
(* By then, 90 seconds of draining later, a start that failed has closed   *)
(* the row.                                                                *)
LockSource(m) ==
    /\ Enters(m, "lock-source", "same")
    /\ ~move[m].unstarted
    /\ flow' = [flow EXCEPT ![m].step = IF Marked(m, "lockStarted") THEN "lock-rotate" ELSE "lock-mark",
                            ![m].seen = move[m].marks]
    /\ UNCHANGED <<workspace, db, undo, writer, written, budgets>>

(* writeProgress saves the progress as the step read it, with one mark     *)
(* more.  It refuses a move that is over, and reports a cancel.            *)
SavesProgress(m, mark, next, stopWhenCancelled) ==
    /\ IF move[m].status \in Over
       THEN GivesUp(m, "failed") /\ UNCHANGED move
       ELSE /\ move' = [move EXCEPT ![m].marks = flow[m].seen \cup {mark}]
            /\ IF stopWhenCancelled /\ move[m].cancelled
               THEN GivesUp(m, "cancelled")
               ELSE /\ flow' = [flow EXCEPT ![m].step = next, ![m].seen = {}]
                    /\ UNCHANGED undo
    /\ UNCHANGED <<workspace, db, writer, written, budgets>>

MarkLock(m) ==
    /\ flow[m].step = "lock-mark"
    /\ SavesProgress(m, "lockStarted", "lock-rotate", TRUE)

RotatePassword(m) ==
    LET d == move[m].source IN
    /\ flow[m].step = "lock-rotate"
    /\ db[d].alive
    /\ db' = [db EXCEPT ![d].key = @ + 1]
    /\ flow' = [flow EXCEPT ![m].step = "lock-store", ![m].key = db[d].key + 1, ![m].seen = {}]
    /\ UNCHANGED <<workspace, move, undo, writer, written, budgets>>

(* setSourceDatabaseUrl is a compare-and-set on where the workspace is. *)
StoreUrl(m) ==
    /\ flow[m].step = "lock-store"
    /\ IF AtSource(m)
       THEN /\ workspace' = [workspace EXCEPT !.key = flow[m].key]
            /\ Then(m, "lock-alter")
            /\ UNCHANGED undo
       ELSE GivesUp(m, "failed") /\ UNCHANGED workspace
    /\ UNCHANGED <<db, move, writer, written, budgets>>

Rotated(m) == [at |-> move[m].source, key |-> flow[m].key]

SetReadOnly(m) ==
    /\ flow[m].step = "lock-alter"
    /\ Works(Rotated(m))
    /\ db' = [db EXCEPT ![move[m].source].readOnly = TRUE]
    /\ Then(m, "lock-end")
    /\ UNCHANGED <<workspace, move, undo, writer, written, budgets>>

(* Mutant: the sessions stay. *)
SessionsStay(d) == UNCHANGED writer

(* Every session on d ends; its client resolves the workspace again. *)
SessionsEnd(d) ==
    writer' = [w \in Writer |-> IF writer[w].phase = "connected" /\ writer[w].at = d
                                THEN [phase |-> "idle", at |-> None, key |-> 0]
                                ELSE writer[w]]

EndSessions(m) ==
    /\ flow[m].step = "lock-end"
    /\ Works(Rotated(m))
    /\ SessionsEnd(move[m].source)
    /\ flow' = [flow EXCEPT ![m].step = "lock-verify", ![m].key = 0]
    /\ UNCHANGED <<workspace, db, move, undo, written, budgets>>

(* lockSourcePartTwo: once more, then look whether a new session is        *)
(* read-only, and only then say locked.                                    *)
EndSessionsAgain(m) ==
    /\ Enters(m, "lock-verify", "same")
    /\ SourceAnswers(m)
    /\ SessionsEnd(move[m].source)
    /\ Then(m, "lock-probe")
    /\ UNCHANGED <<workspace, db, undo, written, budgets>>

ProbeReadOnly(m) ==
    /\ flow[m].step = "lock-probe"
    /\ SourceAnswers(m) /\ db[move[m].source].readOnly
    /\ IF Live(m)
       THEN /\ move' = [move EXCEPT ![m].status = "locked"]
            /\ Then(m, "prepare-copy")
            /\ UNCHANGED undo
       ELSE /\ GivesUp(m, IF move[m].cancelled THEN "cancelled" ELSE "failed")
            /\ UNCHANGED move
    /\ UNCHANGED <<workspace, db, writer, written, budgets>>

(* The target is emptied, once. *)
PrepareCopy(m) ==
    /\ Enters(m, "prepare-copy", "copying")
    /\ \/ /\ Marked(m, "prepared")
          /\ Then(m, "checksums-source")
          /\ UNCHANGED db
       \/ /\ ~Marked(m, "prepared")
          /\ SourceAnswers(m) /\ TargetAnswers(m)
          /\ db' = [db EXCEPT ![move[m].target].rows = {}]
          /\ flow' = [flow EXCEPT ![m].step = "prepare-mark", ![m].seen = move[m].marks]
    /\ UNCHANGED <<workspace, undo, writer, written, budgets>>

MarkPrepared(m) ==
    /\ flow[m].step = "prepare-mark"
    /\ SavesProgress(m, "prepared", "checksums-source", FALSE)

ChecksumSource(m) ==
    /\ Enters(m, "checksums-source", "same")
    /\ SourceAnswers(m)
    /\ flow' = [flow EXCEPT ![m].step = "copy", ![m].before = db[move[m].source].rows]
    /\ UNCHANGED <<workspace, db, undo, writer, written, budgets>>

(* copyChunk, until done: the insert skips what is there. *)
CopyChunk(m) ==
    /\ Enters(m, "copy", "same")
    /\ Marked(m, "prepared")
    /\ SourceAnswers(m) /\ TargetAnswers(m)
    /\ db' = [db EXCEPT ![move[m].target].rows = @ \cup db[move[m].source].rows]
    /\ flow' = [flow EXCEPT ![m].step = "copy-mark", ![m].seen = move[m].marks]
    /\ UNCHANGED <<workspace, undo, writer, written, budgets>>

MarkCopied(m) ==
    /\ flow[m].step = "copy-mark"
    /\ SavesProgress(m, "copied", "finish", TRUE)

(* finish-target and analyze-target. *)
FinishTarget(m) ==
    /\ Enters(m, "finish", "verifying")
    /\ Marked(m, "prepared")
    /\ SourceAnswers(m) /\ TargetAnswers(m)
    /\ Then(m, "checksums-target")
    /\ UNCHANGED <<workspace, db, undo, writer, written, budgets>>

ChecksumTarget(m) ==
    /\ Enters(m, "checksums-target", "same")
    /\ TargetAnswers(m)
    /\ flow' = [flow EXCEPT ![m].step = "checksums-source-after", ![m].target = db[move[m].target].rows]
    /\ UNCHANGED <<workspace, db, undo, writer, written, budgets>>

ChecksumSourceAfter(m) ==
    /\ Enters(m, "checksums-source-after", "same")
    /\ SourceAnswers(m)
    /\ flow' = [flow EXCEPT ![m].step = "verify-compare", ![m].after = db[move[m].source].rows]
    /\ UNCHANGED <<workspace, db, undo, writer, written, budgets>>

(* The copy is the source, and the source has not changed meanwhile. *)
Verified(m) == flow[m].before = flow[m].target /\ flow[m].before = flow[m].after

VerifyCompare(m) ==
    /\ Enters(m, "verify-compare", "verifying")
    /\ IF Verified(m)
       THEN /\ flow' = [flow EXCEPT ![m] = [NewFlow EXCEPT !.step = "switch"]]
            /\ UNCHANGED undo
       ELSE GivesUp(m, "failed")
    /\ UNCHANGED <<workspace, db, writer, written, budgets>>

(* switchToTarget. *)
EnterSwitch(m) ==
    /\ Enters(m, "switch", "switching")
    /\ IF AtSource(m) THEN Then(m, "switch-commit") /\ UNCHANGED undo
                      ELSE GivesUp(m, "failed")
    /\ UNCHANGED <<workspace, db, writer, written, budgets>>

(* The one transaction that points the workspace at the target. *)
MaySwitch(m) == AtSource(m) /\ move[m].status = "switching"

SwitchWorkspace(m) ==
    /\ flow[m].step = "switch-commit"
    /\ IF MaySwitch(m)
       THEN /\ workspace' = [at |-> move[m].target, key |-> db[move[m].target].key]
            /\ move' = [move EXCEPT ![m].status = "completed"]
            /\ Then(m, "switch-done")
            /\ UNCHANGED undo
       ELSE GivesUp(m, "failed") /\ UNCHANGED <<workspace, move>>
    /\ UNCHANGED <<db, writer, written, budgets>>

(* The step ends, or finds on a retry that it had ended. *)
Switched(m) ==
    /\ flow[m].step \in {"switch-done", "switch"}
    /\ move[m].status = "completed"
    /\ Then(m, "done")
    /\ UNCHANGED <<workspace, db, move, undo, writer, written, budgets>>

(* A query or a call fails, or the worker stops.  A target whose noting    *)
(* failed (or only seemed to) is given back, if the worker still can.      *)
StepFails(m) ==
    /\ failures < MaxFailures
    /\ failures' = failures + 1
    /\ Working(m)
    /\ \/ flow' = [flow EXCEPT ![m].step = StepOf(@), ![m].seen = {}, ![m].made = None, ![m].key = 0]
          /\ UNCHANGED undo
       \/ GivesUp(m, "failed")
    /\ IF flow[m].made = None THEN UNCHANGED <<db, move>>
       ELSE \E kept, noted \in BOOLEAN :
               /\ db' = [db EXCEPT ![flow[m].made].alive = kept]
               /\ move' = [move EXCEPT ![m].target = IF noted THEN flow[m].made ELSE @]
    /\ UNCHANGED <<workspace, writer, written, cancels, recovers>>

(* A connection a step needs is refused (its URL is out of date, or the    *)
(* database is gone or not read-only yet), or no target can be had.        *)
Refused(m) ==
    LET s == flow[m].step IN
    \/ s \in {"check-source", "target-ready", "lock-verify", "lock-probe", "prepare-copy",
              "checksums-source", "copy", "finish", "checksums-source-after"} /\ ~SourceAnswers(m)
    \/ s \in {"target-ready", "prepare-copy", "copy", "finish", "checksums-target"} /\ ~TargetAnswers(m)
    \/ s \in {"lock-alter", "lock-end"} /\ ~Works(Rotated(m))
    \/ s = "lock-rotate" /\ ~db[move[m].source].alive
    \/ s = "prepare-target" /\ move[m].target = None /\ \A t \in Target : db[t].born
    \/ s = "lock-probe" /\ ~db[move[m].source].readOnly

StepRefused(m) ==
    /\ Refused(m)
    /\ Beginning(m) => Live(m)
    /\ flow[m].step \in Movable => AtSource(m)
    /\ \/ flow' = [flow EXCEPT ![m].step = StepOf(@), ![m].seen = {}, ![m].key = 0]
          /\ UNCHANGED undo
       \/ GivesUp(m, "failed")
    /\ UNCHANGED <<workspace, db, move, writer, written, budgets>>

-----------------------------------------------------------------------------
(* Undoing a move (compensate.ts): unlock the source, give the target      *)
(* back, close the row.                                                    *)

(* The recover route.  It asks for force where the workflow may still run. *)
Recover(m) ==
    LET finished == move[m].status \in {"failed", "cancelled", "cancelling"} IN
    /\ recovers < MaxRecovers
    /\ undo[Admin].phase \in {"idle", "done", "error"}
    /\ move[m].status \in (Active \cup Over) \ {"completed"}
    /\ finished \/ flow[m].step = "dead" \/ ForcedAlive
    /\ Overlap \/ \A o \in Move : o = m \/ move[o].status \notin Active
    /\ undo' = [undo EXCEPT ![Admin] =
          [Idle EXCEPT !.phase = "load", !.of = m,
                       !.outcome = IF move[m].cancelled \/ move[m].status = "cancelled" THEN "cancelled" ELSE "failed"]]
    /\ recovers' = recovers + 1
    /\ UNCHANGED <<workspace, db, move, flow, writer, written, failures, cancels>>

Undoing == {"load", "look", "unlock", "unlock-store", "unlock-again", "release", "release-mark", "close"}

At(r, phase) == undo[r].phase = phase

(* Mutant: only an undo that succeeds ends its workflow. *)
EndsWell(r, how) ==
    /\ undo' = [undo EXCEPT ![r] = [Idle EXCEPT !.phase = how]]
    /\ IF r = Admin \/ how = "error" THEN UNCHANGED flow
       ELSE flow' = [flow EXCEPT ![r].step = "done"]

(* The undo of r ends.  A workflow that cannot undo its move is dead. *)
Ends(r, how) ==
    /\ undo' = [undo EXCEPT ![r] = [Idle EXCEPT !.phase = how]]
    /\ IF r = Admin THEN UNCHANGED flow
       ELSE flow' = [flow EXCEPT ![r].step = IF how = "done" THEN "done" ELSE "dead"]

(* What the undo throws: a workflow tries again or stops, a route answers. *)
Throws(r) ==
    \/ r # Admin /\ undo' = [undo EXCEPT ![r] = [Idle EXCEPT !.phase = "load", !.of = r,
                                                             !.outcome = undo[r].outcome]]
                 /\ UNCHANGED flow
    \/ Ends(r, "error")

UndoLoads(r) ==
    LET m == undo[r].of IN
    /\ At(r, "load")
    /\ IF move[m].status = "completed" THEN Ends(r, "done")
       ELSE /\ undo' = [undo EXCEPT ![r].phase = "look", ![r].marks = move[m].marks,
                                    ![r].target = move[m].target,
                                    ![r].outcome = IF move[m].cancelled /\ r # Admin THEN "cancelled" ELSE @]
            /\ UNCHANGED flow
    /\ UNCHANGED <<workspace, db, move, writer, written, budgets>>

(* The workspace is read.  If the move has switched, nothing is undone. *)
UndoLooks(r) ==
    LET u == undo[r]
        locked == "lockStarted" \in u.marks /\ AtSource(u.of) IN
    /\ At(r, "look")
    /\ IF u.target # None /\ workspace.at = u.target THEN Ends(r, "error")
       ELSE /\ undo' = [undo EXCEPT ![r].phase = IF locked THEN "unlock" ELSE "release",
                                    ![r].from = IF locked THEN workspace.at ELSE None,
                                    ![r].with = IF locked THEN workspace.key ELSE 0]
            /\ UNCHANGED flow
    /\ UNCHANGED <<workspace, db, move, writer, written, budgets>>

(* The database takes writes again.  With a password that is out of date,  *)
(* a new one is made first.                                                *)
Unlock(r) ==
    LET u == undo[r] IN
    /\ At(r, "unlock")
    /\ db[u.from].alive
    /\ IF Works([at |-> u.from, key |-> u.with])
       THEN /\ db' = [db EXCEPT ![u.from].readOnly = FALSE]
            /\ undo' = [undo EXCEPT ![r].phase = "release", ![r].with = 0, ![r].from = None]
       ELSE /\ db' = [db EXCEPT ![u.from].key = @ + 1]
            /\ undo' = [undo EXCEPT ![r].phase = "unlock-store", ![r].with = 0,
                                    ![r].key = db[u.from].key + 1]
    /\ UNCHANGED <<workspace, move, flow, writer, written, budgets>>

Troubled(r, next) == undo' = [undo EXCEPT ![r].phase = next, ![r].problem = TRUE,
                                          ![r].from = None, ![r].with = 0, ![r].key = 0]

UnlockStores(r) ==
    LET u == undo[r] IN
    /\ At(r, "unlock-store")
    /\ IF AtSource(u.of)
       THEN /\ workspace' = [workspace EXCEPT !.key = u.key]
            /\ undo' = [undo EXCEPT ![r].phase = "unlock-again"]
       ELSE Troubled(r, "release") /\ UNCHANGED workspace
    /\ UNCHANGED <<db, move, flow, writer, written, budgets>>

UnlockAgain(r) ==
    LET u == undo[r] IN
    /\ At(r, "unlock-again")
    /\ IF Works([at |-> u.from, key |-> u.key])
       THEN /\ db' = [db EXCEPT ![u.from].readOnly = FALSE]
            /\ undo' = [undo EXCEPT ![r].phase = "release", ![r].from = None, ![r].key = 0]
       ELSE Troubled(r, "release") /\ UNCHANGED db
    /\ UNCHANGED <<workspace, move, flow, writer, written, budgets>>

(* The target the row knows of is dropped, once. *)
ReleaseTarget(r) ==
    LET u == undo[r] IN
    /\ At(r, "release")
    /\ IF u.target = None \/ "released" \in u.marks
       THEN undo' = [undo EXCEPT ![r].phase = "close"] /\ UNCHANGED db
       ELSE /\ db' = [db EXCEPT ![u.target].alive = FALSE]
            /\ undo' = [undo EXCEPT ![r].phase = "release-mark"]
    /\ UNCHANGED <<workspace, move, flow, writer, written, budgets>>

(* The progress is saved as the undo read it, with one mark more. *)
MarkReleased(r) ==
    LET u == undo[r] IN
    /\ At(r, "release-mark")
    /\ move' = [move EXCEPT ![u.of].marks = u.marks \cup {"released"}]
    /\ undo' = [undo EXCEPT ![r].phase = "close"]
    /\ UNCHANGED <<workspace, db, flow, writer, written, budgets>>

(* The row says how the move ended, unless it completed meanwhile.  What    *)
(* follows, the audit trail and the caches, may fail.                      *)
Close(r) ==
    LET u == undo[r] IN
    /\ At(r, "close")
    /\ IF u.problem THEN Throws(r) /\ UNCHANGED <<move, failures>>
       ELSE /\ move' = [move EXCEPT ![u.of].status = IF @ = "completed" THEN @ ELSE u.outcome]
            /\ \/ Ends(r, "done") /\ UNCHANGED failures
               \/ failures < MaxFailures /\ failures' = failures + 1 /\ Throws(r)
    /\ UNCHANGED <<workspace, db, writer, written, cancels, recovers>>

(* Something of it fails: unlocking and releasing are noted and the rest   *)
(* still done.  A route whose worker stops just ends.                      *)
UndoFails(r) ==
    /\ failures < MaxFailures
    /\ failures' = failures + 1
    /\ \/ undo[r].phase \in {"unlock", "unlock-store", "unlock-again"} /\ Troubled(r, "release")
          /\ UNCHANGED flow
       \/ undo[r].phase \in {"release", "release-mark"} /\ Troubled(r, "close") /\ UNCHANGED flow
       \/ undo[r].phase \notin {"idle", "done", "error"} /\ Throws(r)
    /\ UNCHANGED <<workspace, db, move, writer, written, cancels, recovers>>

-----------------------------------------------------------------------------
(* The daily sweep, and those who use the database.                        *)

(* The old database of a completed move is dropped, if no workspace is     *)
(* there.                                                                  *)
StillInUse(m) == workspace.at = move[m].source

DropRetained(m) ==
    /\ move[m].status = "completed"
    /\ db[move[m].source].alive
    /\ ~StillInUse(m)
    /\ db' = [db EXCEPT ![move[m].source].alive = FALSE]
    /\ UNCHANGED <<workspace, move, flow, undo, writer, written, budgets>>

(* A client looks up the workspace's database, ... *)
Resolve(w) ==
    /\ writer[w].phase = "idle"
    /\ writer' = [writer EXCEPT ![w] = [phase |-> "resolved", at |-> workspace.at, key |-> workspace.key]]
    /\ UNCHANGED <<workspace, db, move, flow, undo, written, budgets>>

(* ... connects (a session on a locked database can only read: it is given *)
(* up), ...                                                                *)
Connect(w) ==
    LET url == [at |-> writer[w].at, key |-> writer[w].key] IN
    /\ writer[w].phase = "resolved"
    /\ writer' = [writer EXCEPT ![w] =
          IF Works(url) /\ ~db[url.at].readOnly
          THEN [phase |-> "connected", at |-> url.at, key |-> 0]
          ELSE [phase |-> "idle", at |-> None, key |-> 0]]
    /\ UNCHANGED <<workspace, db, move, flow, undo, written, budgets>>

(* ... and writes: neither a new password nor the read-only default        *)
(* touches a session that is open.                                         *)
Write(w) ==
    /\ writer[w].phase = "connected"
    /\ db[writer[w].at].alive
    /\ db' = [db EXCEPT ![writer[w].at].rows = @ \cup {w}]
    /\ writer' = [writer EXCEPT ![w] = [phase |-> "done", at |-> None, key |-> 0]]
    /\ written' = written \cup {w}
    /\ UNCHANGED <<workspace, move, flow, undo, budgets>>

-----------------------------------------------------------------------------
FlowStep(m) ==
    \/ NotEntered(m) \/ NotMovable(m) \/ StepRefused(m)
    \/ Begin(m) \/ CheckSource(m) \/ PrepareTarget(m) \/ RecordTarget(m) \/ TargetReady(m)
    \/ SoftLock(m) \/ LockSource(m) \/ MarkLock(m) \/ RotatePassword(m) \/ StoreUrl(m)
    \/ SetReadOnly(m) \/ EndSessions(m) \/ EndSessionsAgain(m) \/ ProbeReadOnly(m)
    \/ PrepareCopy(m) \/ MarkPrepared(m) \/ ChecksumSource(m) \/ CopyChunk(m) \/ MarkCopied(m)
    \/ FinishTarget(m) \/ ChecksumTarget(m) \/ ChecksumSourceAfter(m) \/ VerifyCompare(m)
    \/ EnterSwitch(m) \/ SwitchWorkspace(m) \/ Switched(m)

UndoStep(r) ==
    \/ UndoLoads(r) \/ UndoLooks(r) \/ Unlock(r) \/ UnlockStores(r) \/ UnlockAgain(r)
    \/ ReleaseTarget(r) \/ MarkReleased(r) \/ Close(r)

Next ==
    \/ \E m \in Move : Ask(m) \/ Start(m) \/ CloseUnstarted(m) \/ Cancel(m) \/ Recover(m) \/ DropRetained(m)
                       \/ FlowStep(m) \/ StepFails(m)
    \/ \E r \in Runner : UndoStep(r) \/ UndoFails(r)
    \/ \E w \in Writer : Resolve(w) \/ Connect(w) \/ Write(w)

(* A workflow goes on, and so do an undo and a start that were begun. *)
Fairness ==
    /\ \A m \in Move : WF_vars(FlowStep(m)) /\ WF_vars(CloseUnstarted(m))
    /\ \A r \in Runner : WF_vars(UndoStep(r))

Spec == Init /\ [][Next]_vars /\ Fairness

-----------------------------------------------------------------------------
(* What must hold.                                                         *)

(* The rows, the workflows, the undoings and the connections have their    *)
(* types.                                                                  *)
TypeOK ==
    /\ workspace \in [at : Database, key : Nat]
    /\ db \in [Database -> [alive : BOOLEAN, born : BOOLEAN, key : Nat, readOnly : BOOLEAN,
                            rows : SUBSET Writer]]
    /\ move \in [Move -> [status : Status, cancelled : BOOLEAN, unstarted : BOOLEAN, source : Database \cup {None},
                          target : Target \cup {None}, marks : SUBSET Mark]]
    /\ flow \in [Move -> [step : Step \cup {"none", "undo", "done", "dead"}, seen : SUBSET Mark,
                          made : Target \cup {None}, key : Nat,
                          before : SUBSET Writer, target : SUBSET Writer, after : SUBSET Writer,
                          outcome : {"failed", "cancelled"}]]
    /\ \A m \in Move : flow[m].step = "undo" <=> undo[m].phase \in Undoing
    /\ undo \in [Runner -> [phase : {"idle", "done", "error"} \cup Undoing, of : Move \cup {None},
                            marks : SUBSET Mark, target : Target \cup {None},
                            from : Database \cup {None}, with : Nat, key : Nat,
                            problem : BOOLEAN, outcome : {"failed", "cancelled"}]]
    /\ writer \in [Writer -> [phase : {"idle", "resolved", "connected", "done"},
                              at : Database \cup {None}, key : Nat]]
    /\ written \subseteq Writer
    /\ failures \in 0..MaxFailures /\ cancels \in 0..MaxCancels /\ recovers \in 0..MaxRecovers

(* Through locks, copies, switches, undoings and the sweep, the workspace  *)
(* sees one database that changes by acknowledged writes only: no write is *)
(* lost to the database left behind and none appears.                      *)
One == INSTANCE OneDatabase WITH rows <- db[workspace.at].rows
OneDatabaseSeen == One!Spec

(* Nothing drops the database the workspace is at: not the release of a    *)
(* target, not the sweep, and not a recovery, unless it was forced while   *)
(* the workflow could still switch (compensate.ts looks only once).        *)
WorkspaceHasADatabase == db[workspace.at].alive

(* A move whose cancel was accepted never points the workspace at its      *)
(* target, wherever the workflow was (requestMoveCancel against advance).  *)
CancelledNeverSwitches ==
    [][\A m \in Move : move[m].cancelled => ~(workspace'.at # workspace.at /\ workspace'.at = move[m].target)]_vars

(* Once everybody is done, the workspace can read and write where it is,   *)
(* it knows the password, and the target of a move that did not switch is  *)
(* gone, as is one its row never heard of if nothing failed; unless an     *)
(* undo gave up or failed, which its caller is told.                       *)
Serving == Works(workspace) /\ ~db[workspace.at].readOnly
Settled ==
    /\ NobodyActs
    /\ \A m \in Move : move[m].status \notin Active /\ ~Dead(m)
    /\ undo[Admin].phase # "error"

UndoneForGood ==
    Settled =>
        /\ Serving
        /\ \A m \in Move : move[m].target # None /\ move[m].status # "completed"
                             => ~db[move[m].target].alive
        /\ failures = 0 => \A t \in Target : db[t].alive => \E m \in Move : t \in {workspace.at, move[m].source}

(* A move that was started ends, with the workspace serving, unless an     *)
(* undo gave up or failed.                                                 *)
ServiceReturns ==
    \A m \in Move : move[m].status = "queued"
                      ~> \/ move[m].status \in Over /\ Serving
                         \/ Dead(m) \/ undo[Admin].phase = "error"

=============================================================================
