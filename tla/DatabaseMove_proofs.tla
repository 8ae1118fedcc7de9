-------------------------- MODULE DatabaseMove_proofs --------------------------
(***************************************************************************)
(* What holds of database moves for any number of moves, databases and     *)
(* writers, and any number of failures, cancels and recoveries: types, and *)
(* that a move that was cancelled does not switch.                         *)
(*                                                                         *)
(* Then, that a workspace that is moved, and moved again, sees one         *)
(* database that changes by acknowledged writes only (OneDatabase).  This  *)
(* takes two things which the routes leave to the administrator: a         *)
(* recovery is not forced while the workflow may still run, and a move is  *)
(* not undone once the next one was started.                               *)
(*                                                                         *)
(* Then, what is left once everybody is done: a workspace that serves, and *)
(* no target of a move that did not switch.  This takes a third thing: a   *)
(* recovery that failed is not followed by another one.                    *)
(*                                                                         *)
(* Last, that the workspace's database is never dropped, wherever a move   *)
(* is undone: beside a newer one too, and by a recovery that is forced,    *)
(* except that of a move whose workflow may still switch.                  *)
(***************************************************************************)
EXTENDS DatabaseMove, TLAPS

-----------------------------------------------------------------------------
(* Types.                                                                  *)

Marks == SUBSET Mark
Rows == SUBSET Writer
Outcome == {"failed", "cancelled"}
Place == Step \cup {"none", "undo", "done", "dead"}
Phase == {"idle", "done", "error"} \cup Undoing
Holding == {"idle", "resolved", "connected", "done"}

AUrl == [at : Database, key : Nat]
ADatabase == [alive : BOOLEAN, born : BOOLEAN, key : Nat, readOnly : BOOLEAN, rows : Rows]
AMove == [status : Status, cancelled : BOOLEAN, unstarted : BOOLEAN, source : Database \cup {None},
          target : Target \cup {None}, marks : Marks]
AFlow == [step : Place, seen : Marks, made : Target \cup {None}, key : Nat,
          before : Rows, target : Rows, after : Rows, outcome : Outcome]
AnUndo == [phase : Phase, of : Move \cup {None}, marks : Marks, target : Target \cup {None},
           from : Database \cup {None}, with : Nat, key : Nat, problem : BOOLEAN, outcome : Outcome]
AWriter == [phase : Holding, at : Database \cup {None}, key : Nat]

PlacesTyped == workspace \in AUrl /\ db \in [Database -> ADatabase]
MovesTyped == move \in [Move -> AMove] /\ flow \in [Move -> AFlow] /\ undo \in [Runner -> AnUndo]
WritersTyped == writer \in [Writer -> AWriter] /\ written \in Rows
BudgetsTyped == failures \in 0..MaxFailures /\ cancels \in 0..MaxCancels /\ recovers \in 0..MaxRecovers
Typed == PlacesTyped /\ MovesTyped /\ WritersTyped /\ BudgetsTyped

Undone(r) == undo[r].phase \in Undoing

(* The parts of the type invariant.                                        *)
LEMMA TypeParts ==
    TypeOK <=> Typed /\ \A m \in Move : flow[m].step = "undo" <=> Undone(m)
  BY DEF TypeOK, Typed, PlacesTyped, MovesTyped, WritersTyped, BudgetsTyped, Marks, Rows, Outcome,
         Place, Phase, Holding, AUrl, ADatabase, AMove, AFlow, AnUndo, AWriter, Undone

(* The names a row, a workflow or an undo may carry.                       *)
LEMMA Names ==
    /\ Step \subseteq Place /\ {"none", "undo", "done", "dead"} \subseteq Place
    /\ "undo" \notin Step /\ "done" \notin Step /\ "dead" \notin Step /\ "none" \notin Step
    /\ \A s \in Step : StepOf(s) \in Step
    /\ Undoing \subseteq Phase /\ {"idle", "done", "error"} \subseteq Phase
    /\ {"idle", "done", "error"} \cap Undoing = {}
    /\ {"load", "look", "unlock", "unlock-store", "unlock-again", "release", "release-mark", "close"}
          \subseteq Undoing
    /\ Active \subseteq Status /\ Over \subseteq Status /\ {"none", "asked"} \subseteq Status
    /\ Cancellable \subseteq Active /\ "cancelling" \in Active
    /\ {"failed", "cancelled"} \subseteq Outcome /\ Outcome \subseteq Over /\ "completed" \in Over
    /\ Active \cap (Over \cup {"none", "asked"}) = {} /\ Over \cap {"none", "asked"} = {}
    /\ "completed" \notin Outcome
    /\ {} \in Marks /\ {} \in Rows
    /\ \A mark \in Mark, seen \in Marks : seen \cup {mark} \in Marks
    /\ Target \subseteq Database /\ Home \in Database /\ Move \subseteq Runner /\ Admin \in Runner
  BY DEF Step, Place, StepOf, Undoing, Phase, Active, Cancellable, Over, Status, Outcome, Marks, Rows,
         Database, Runner

(* Rows, workflows, undos and connections that were not begun.             *)
LEMMA NewTyped ==
    /\ NewMove \in AMove /\ NewFlow \in AFlow /\ Idle \in AnUndo /\ Unborn \in ADatabase
    /\ [phase |-> "idle", at |-> None, key |-> 0] \in AWriter
  BY Names DEF NewMove, NewFlow, Idle, Unborn, AMove, AFlow, AnUndo, ADatabase, AWriter, Holding

(* A move's source is known once it is asked for, its workflow is there    *)
(* only once it is in the table, and so is what is undone.  A workflow     *)
(* carries a new target from its creation until the row has it, and comes  *)
(* past that only with one.                                                *)
Past == Step \ {"begin", "check-source"}
WithTarget == Past \ {"prepare-target", "target-made"}

Started ==
    /\ \A m \in Move : move[m].status \in {"none", "asked"} => flow[m].step = "none"
    /\ \A m \in Move : move[m].status # "none" => move[m].source \in Database
    /\ \A m \in Move : move[m].unstarted => move[m].status \notin {"none", "asked"}
    /\ \A r \in Runner :
           Undone(r) => undo[r].of \in Move /\ move[undo[r].of].status \notin {"none", "asked"}
Carried ==
    /\ \A m \in Move : flow[m].step = "target-made" <=> flow[m].made # None
    /\ \A m \in Move : flow[m].made # None => move[m].target = None
    /\ \A m \in Move : flow[m].step \in WithTarget => move[m].target # None
    /\ \A m \in Move : flow[m].step = "undo" <=> Undone(m)

(* A workflow that starts a step, or the next statement of one, ...        *)
LEMMA ThenTyped ==
    ASSUME NEW f \in AFlow, NEW step \in Place
    PROVE  [f EXCEPT !.step = step] \in AFlow
  BY DEF AFlow

(* ... and one that gives up.                                              *)
LEMMA GivesUpTyped ==
    ASSUME MovesTyped, NEW m \in Move, NEW outcome \in Outcome, GivesUp(m, outcome)
    PROVE  /\ flow' \in [Move -> AFlow] /\ undo' \in [Runner -> AnUndo]
           /\ \A o \in Move \ {m} : flow'[o] = flow[o]
           /\ \A r \in Runner \ {m} : undo'[r] = undo[r]
           /\ flow'[m].step = "undo" /\ flow'[m].made = None
           /\ undo'[m] = [Idle EXCEPT !.phase = "load", !.of = m, !.outcome = outcome]
           /\ undo'[m].phase = "load" /\ undo'[m].of = m
<1> DEFINE f == [NewFlow EXCEPT !.step = "undo", !.outcome = outcome]
           u == [Idle EXCEPT !.phase = "load", !.of = m, !.outcome = outcome]
<1>1. f \in AFlow /\ f.step = "undo" /\ f.made = None
  BY Names DEF NewFlow, AFlow
<1>2. u \in AnUndo /\ u.phase = "load" /\ u.of = m
  BY Names DEF Idle, AnUndo
<1>3. flow' = [flow EXCEPT ![m] = f] /\ undo' = [undo EXCEPT ![m] = u]
  BY DEF GivesUp
<1>4. m \in Runner
  BY Names
<1> HIDE DEF f
<1>5. QED
  BY <1>1, <1>2, <1>3, <1>4 DEF MovesTyped

(* A step that begins may say so in the row.                               *)
LEMMA EntersTyped ==
    ASSUME MovesTyped, NEW m \in Move, NEW step, NEW status \in (Active \ {"cancelling"}) \cup {"same"},
           Enters(m, step, status)
    PROVE  /\ move' \in [Move -> AMove]
           /\ \A o \in Move \ {m} : move'[o] = move[o]
           /\ move'[m].source = move[m].source /\ move'[m].cancelled = move[m].cancelled
           /\ move'[m].unstarted = move[m].unstarted /\ move'[m].target = move[m].target
           /\ move'[m].status \in Active \ {"cancelling"}
           /\ flow[m].step = step /\ Live(m) /\ (step \in Movable => AtSource(m))
<1>1. move[m] \in AMove /\ move[m].status \in Active \ {"cancelling"}
  BY DEF MovesTyped, Enters, Live
<1> DEFINE s == IF status = "same" THEN move[m].status ELSE status
           q == [move[m] EXCEPT !.status = s]
<1>2. s \in Active \ {"cancelling"} /\ s \in Status
  BY <1>1, Names
<1> HIDE DEF s
<1>3. /\ q \in AMove /\ q.status = s /\ q.source = move[m].source /\ q.cancelled = move[m].cancelled
      /\ q.unstarted = move[m].unstarted /\ q.target = move[m].target
  BY <1>1, <1>2 DEF AMove
<1>4. move' = [move EXCEPT ![m] = q]
  BY DEF Enters, s
<1> HIDE DEF q
<1>5. QED
  BY <1>2, <1>3, <1>4 DEF MovesTyped, Enters

(* The row of a workflow's move keeps its source.  Its status stays, or    *)
(* goes from one that is live to another, or says that it has switched.    *)
RowGoesOn(m) ==
    /\ move'[m].source = move[m].source
    /\ move'[m].cancelled = move[m].cancelled
    /\ move'[m].unstarted = move[m].unstarted
    /\ \/ move'[m].status = move[m].status
       \/ Live(m) /\ move'[m].status \in Active \ {"cancelling"}
       \/ SwitchWorkspace(m) /\ MaySwitch(m) /\ move'[m].status = "completed"

(* The target is one that was just created, or has become the row's.       *)
TargetGoesOn(m) ==
    \/ flow'[m].made = None /\ move'[m].target = move[m].target
    \/ flow'[m].made = None /\ flow[m].made # None /\ move'[m].target = flow[m].made
    \/ /\ flow'[m].made \in Target /\ ~db[flow'[m].made].born /\ db'[flow'[m].made].born
       /\ move[m].target = None /\ move'[m].target = None

(* How far a workflow is.                                                  *)
WithReady == WithTarget \ {"target-ready"}
Locking == WithReady \ {"soft-lock", "lock-source"}
Closed == Locking \ {"lock-mark", "lock-rotate", "lock-store", "lock-alter"}
Emptied == Closed \ {"lock-end"}
Copied == {"copy", "copy-mark", "finish", "checksums-target", "checksums-source-after", "verify-compare"}
Compared == {"checksums-source-after", "verify-compare"}
Switching == {"switch", "switch-commit", "switch-done"}

(* It gets past each of these places only by the step that leads there.    *)
Turns(m) ==
    LET s == flow[m].step
        t == flow'[m].step IN
    /\ t = "target-made" <=> flow'[m].made # None
    /\ t \in Past => s \in Past \/ AtSource(m)
    /\ t \in WithTarget => s \in WithTarget \/ move'[m].target # None
    /\ t \in WithReady => s \in WithReady \/ TargetAnswers(m)
    /\ t \in Locking => s \in Locking \/ ~move[m].unstarted
    /\ t \in Closed => s \in Closed \/ SetReadOnly(m)
    /\ t \in Emptied => s \in Emptied \/ EndSessions(m)
    /\ t \in Copied => (s \in Copied /\ flow'[m].before = flow[m].before) \/ ChecksumSource(m)
    /\ t \in Compared => (s \in Compared /\ flow'[m].target = flow[m].target) \/ ChecksumTarget(m)
    /\ t \in Switching => s \in Switching \/ (VerifyCompare(m) /\ Verified(m))

FlowGoesOn(m) ==
    /\ Working(m)
    /\ \/ flow'[m].step = "undo" /\ undo'[m].phase = "load" /\ undo'[m].of = m
       \/ undo' = undo /\ flow'[m].step \in Step \cup {"done"}
    /\ Turns(m)

(* A step that starts again is no further than it was.                     *)
LEMMA Again ==
    ASSUME NEW s \in Step
    PROVE  /\ StepOf(s) \in Step /\ StepOf(s) # "target-made"
           /\ StepOf(s) \in Past => s \in Past
           /\ StepOf(s) \in WithTarget => s \in WithTarget
           /\ StepOf(s) \in WithReady => s \in WithReady
           /\ StepOf(s) \in Locking => s \in Locking
           /\ StepOf(s) \in Closed => s \in Closed
           /\ StepOf(s) \in Emptied => s \in Emptied
           /\ StepOf(s) \in Copied => s \in Copied
           /\ StepOf(s) \in Compared => s \in Compared
           /\ StepOf(s) \in Switching => s \in Switching
  BY DEF StepOf, Step, Past, WithTarget, WithReady, Locking, Closed, Emptied, Copied, Compared, Switching

(* Places and what leads from one to the next, one after the other.        *)
LEMMA Order ==
    /\ "undo" \notin Past /\ "done" \notin Past /\ Past \subseteq Step
    /\ WithTarget \subseteq Past /\ WithReady \subseteq WithTarget /\ Locking \subseteq WithReady
    /\ Closed \subseteq Locking /\ Emptied \subseteq Closed
    /\ Copied \subseteq Emptied /\ Compared \subseteq Copied /\ Switching \subseteq Emptied
    /\ Copied \cap Switching = {}
    /\ {"check-source", "prepare-target", "target-made", "target-ready"} \cap WithReady = {}
    /\ {"soft-lock", "lock-source"} \cap Locking = {}
    /\ {"soft-lock", "lock-source"} \subseteq WithReady
    /\ {"lock-mark", "lock-rotate", "lock-store", "lock-alter"} \subseteq Locking \ Closed
    /\ "lock-end" \in Closed \ Emptied
    /\ {"lock-verify", "lock-probe", "prepare-copy", "prepare-mark", "checksums-source"}
           \subseteq Emptied \ (Copied \cup Switching)
    /\ "target-ready" \in WithTarget /\ {"prepare-target", "target-made"} \subseteq Past \ WithTarget
    /\ {"begin", "check-source"} \subseteq Step \ Past
  BY DEF Step, Past, WithTarget, WithReady, Locking, Closed, Emptied, Copied, Compared, Switching

Others(m) ==
    /\ \A o \in Move \ {m} : move'[o] = move[o] /\ flow'[o] = flow[o]
    /\ \A r \in Runner \ {m} : undo'[r] = undo[r]

(* The statements that change the row by more than its status: a mark is   *)
(* added, ...                                                              *)
LEMMA SavesTyped ==
    ASSUME MovesTyped, NEW m \in Move, NEW mark \in Mark, NEW next \in Place, NEW stops \in BOOLEAN,
           SavesProgress(m, mark, next, stops)
    PROVE  /\ move' \in [Move -> AMove]
           /\ \A o \in Move \ {m} : move'[o] = move[o]
           /\ move'[m].source = move[m].source /\ move'[m].cancelled = move[m].cancelled
           /\ move'[m].unstarted = move[m].unstarted /\ move'[m].target = move[m].target
           /\ move'[m].status = move[m].status
           /\ \/ \E outcome \in Outcome : GivesUp(m, outcome)
              \/ flow' = [flow EXCEPT ![m].step = next, ![m].seen = {}] /\ UNCHANGED undo
           /\ UNCHANGED <<workspace, db, writer, written, budgets>>
<1> DEFINE q == [move[m] EXCEPT !.marks = flow[m].seen \cup {mark}]
<1>1. flow[m].seen \cup {mark} \in Marks
  BY Names DEF MovesTyped, AFlow
<1>2. /\ q \in AMove /\ q.status = move[m].status /\ q.source = move[m].source
      /\ q.cancelled = move[m].cancelled /\ q.unstarted = move[m].unstarted /\ q.target = move[m].target
  BY <1>1 DEF MovesTyped, AMove
<1>3. UNCHANGED move \/ move' = [move EXCEPT ![m] = q]
  BY DEF SavesProgress
<1> HIDE DEF q
<1>4. \/ \E outcome \in Outcome : GivesUp(m, outcome)
      \/ flow' = [flow EXCEPT ![m].step = next, ![m].seen = {}] /\ UNCHANGED undo
  BY Names DEF SavesProgress
<1>5. QED
  BY <1>2, <1>3, <1>4 DEF MovesTyped, SavesProgress

(* ... or the target is noted.                                             *)
LEMMA NotesTyped ==
    ASSUME MovesTyped, NEW m \in Move, NEW t \in Target \cup {None},
           move' = [move EXCEPT ![m].target = t]
    PROVE  /\ move' \in [Move -> AMove]
           /\ \A o \in Move \ {m} : move'[o] = move[o]
           /\ move'[m].source = move[m].source /\ move'[m].cancelled = move[m].cancelled
           /\ move'[m].unstarted = move[m].unstarted /\ move'[m].target = t
           /\ move'[m].status = move[m].status
  BY DEF MovesTyped, AMove

(* What a workflow carries as it goes on.                                  *)
LEMMA CarriesTyped ==
    ASSUME NEW f \in AFlow, NEW t \in Place
    PROVE  /\ \A seen \in Marks : [f EXCEPT !.step = t, !.seen = seen] \in AFlow
           /\ \A seen \in Marks, key \in Nat : [f EXCEPT !.step = t, !.key = key, !.seen = seen] \in AFlow
           /\ \A key \in Nat : [f EXCEPT !.step = t, !.key = key] \in AFlow
           /\ \A rows \in Rows : /\ [f EXCEPT !.step = t, !.before = rows] \in AFlow
                                 /\ [f EXCEPT !.step = t, !.target = rows] \in AFlow
                                 /\ [f EXCEPT !.step = t, !.after = rows] \in AFlow
           /\ \A made \in Target \cup {None} : [f EXCEPT !.step = t, !.made = made] \in AFlow
           /\ [f EXCEPT !.step = t, !.seen = {}, !.made = None, !.key = 0] \in AFlow
  BY Names DEF AFlow

(* A workflow's step, or the failure of one: what becomes of the move's    *)
(* row and of the workflow.                                                *)
LEMMA FlowGoes ==
    ASSUME Typed, Started, Carried, NEW m \in Move, FlowStep(m) \/ StepFails(m)
    PROVE  MovesTyped' /\ Others(m) /\ RowGoesOn(m) /\ TargetGoesOn(m) /\ FlowGoesOn(m)
<1> DEFINE Goal == MovesTyped' /\ Others(m) /\ RowGoesOn(m) /\ TargetGoesOn(m) /\ FlowGoesOn(m)
           RowIs == /\ move' \in [Move -> AMove] /\ \A o \in Move \ {m} : move'[o] = move[o]
                    /\ RowGoesOn(m)
           SameTarget == move'[m].target = move[m].target
<1>0. MovesTyped /\ flow[m] \in AFlow /\ move[m] \in AMove /\ PlacesTyped
  BY DEF Typed, MovesTyped
<1>1. ASSUME NEW outcome \in Outcome, GivesUp(m, outcome), RowIs, Working(m),
             SameTarget \/ (flow[m].made # None /\ move'[m].target = flow[m].made)
      PROVE  Goal
  <2>1. /\ flow' \in [Move -> AFlow] /\ undo' \in [Runner -> AnUndo]
        /\ \A o \in Move \ {m} : flow'[o] = flow[o]
        /\ \A r \in Runner \ {m} : undo'[r] = undo[r]
        /\ flow'[m].step = "undo" /\ flow'[m].made = None
        /\ undo'[m].phase = "load" /\ undo'[m].of = m
    BY <1>0, <1>1, GivesUpTyped
  <2>2. "undo" \notin Past
    BY Order
  <2>3. Turns(m)
    BY <2>1, <2>2, Order DEF Turns
  <2>4. QED
    BY <1>1, <2>1, <2>3 DEF MovesTyped, Others, TargetGoesOn, FlowGoesOn
<1>2. ASSUME NEW f \in AFlow, flow' = [flow EXCEPT ![m] = f], UNCHANGED undo, RowIs, Working(m),
             f.step \in Step \cup {"done"}
      PROVE  /\ flow'[m] = f
             /\ Turns(m) /\ TargetGoesOn(m) => Goal
  BY <1>0, <1>2 DEF MovesTyped, Others, FlowGoesOn
<1>3. UNCHANGED move => RowIs
  BY <1>0 DEF MovesTyped, RowGoesOn
<1>4. ASSUME NEW step, NEW status \in (Active \ {"cancelling"}) \cup {"same"}, Enters(m, step, status)
      PROVE  RowIs /\ SameTarget /\ flow[m].step = step /\ Live(m) /\ (step \in Movable => AtSource(m))
             /\ (step # "target-made" => flow[m].made = None)
  BY <1>0, <1>4, EntersTyped DEF RowGoesOn, Carried
<1>5. {"same", "preparing", "soft_locked", "locked", "copying", "verifying", "switching"}
         \subseteq (Active \ {"cancelling"}) \cup {"same"}
  BY DEF Active, Cancellable
<1>6. ASSUME NEW s \in Step, flow[m].step = s PROVE Working(m) /\ (s # "target-made" => flow[m].made = None)
  BY <1>6 DEF Working, Carried
<1> SUFFICES Goal
  OBVIOUS
<1> HIDE DEF Goal, RowIs, SameTarget
<1> DEFINE Row == RowIs /\ SameTarget
<1>7. UNCHANGED move => Row
  BY <1>3 DEF SameTarget
<1>8. ASSUME NEW s \in Step, NEW t \in Step, flow[m].step = s, Then(m, t), UNCHANGED undo, Row,
             s # "target-made", t # "target-made",
             t \in Past => s \in Past \/ AtSource(m),
             t \in WithTarget => s \in WithTarget \/ move[m].target # None,
             t \in WithReady => s \in WithReady \/ TargetAnswers(m),
             t \in Locking => s \in Locking \/ ~move[m].unstarted,
             t \in Closed => s \in Closed \/ SetReadOnly(m),
             t \in Emptied => s \in Emptied \/ EndSessions(m),
             t \in Copied => s \in Copied,
             t \in Compared => s \in Compared,
             t \in Switching => s \in Switching
      PROVE  Goal
  <2> DEFINE f == [flow[m] EXCEPT !.step = t]
  <2>1. t \in Place
    BY Names
  <2>2. f \in AFlow /\ f.step = t /\ f.made = None /\ f.before = flow[m].before /\ f.target = flow[m].target
    BY <1>0, <1>6, <1>8, <2>1, ThenTyped DEF AFlow
  <2>3. flow' = [flow EXCEPT ![m] = f]
    BY <1>8 DEF Then
  <2> HIDE DEF f
  <2>4. flow'[m] = f
    BY <1>0, <2>3 DEF MovesTyped
  <2>5. Turns(m)
    BY <1>8, <2>2, <2>4 DEF Turns, SameTarget
  <2>6. TargetGoesOn(m)
    BY <1>8, <2>2, <2>4 DEF TargetGoesOn, SameTarget
  <2>7. QED
    BY <1>2, <1>6, <1>8, <2>2, <2>3, <2>5, <2>6
<1>9. ASSUME NEW f \in AFlow, NEW s \in Step, NEW t \in Step, flow[m].step = s,
             flow' = [flow EXCEPT ![m] = f], f.step = t, f.made = None, UNCHANGED undo, Row,
             s # "target-made", t # "target-made",
             t \in Past => s \in Past \/ AtSource(m),
             t \in WithTarget => s \in WithTarget \/ move[m].target # None,
             t \in WithReady => s \in WithReady \/ TargetAnswers(m),
             t \in Locking => s \in Locking \/ ~move[m].unstarted,
             t \in Closed => s \in Closed \/ SetReadOnly(m),
             t \in Emptied => s \in Emptied \/ EndSessions(m),
             t \in Copied => (s \in Copied /\ f.before = flow[m].before) \/ ChecksumSource(m),
             t \in Compared => (s \in Compared /\ f.target = flow[m].target) \/ ChecksumTarget(m),
             t \in Switching => s \in Switching \/ (VerifyCompare(m) /\ Verified(m))
      PROVE  Goal
  <2>1. flow'[m] = f
    BY <1>0, <1>9 DEF MovesTyped
  <2>2. Turns(m)
    BY <1>9, <2>1 DEF Turns, SameTarget
  <2>3. TargetGoesOn(m)
    BY <1>9, <2>1 DEF TargetGoesOn, SameTarget
  <2>4. QED
    BY <1>2, <1>6, <1>9, <2>1, <2>2, <2>3
<1>10. CASE NotEntered(m) \/ NotMovable(m)
  <2>1. PICK outcome \in Outcome : GivesUp(m, outcome)
    BY <1>10, Names DEF NotEntered, NotMovable
  <2>2. Working(m) /\ UNCHANGED move
    BY <1>10 DEF NotEntered, Beginning, NotMovable, Movable, Working, Step
  <2>3. QED
    BY <1>1, <1>7, <2>1, <2>2 DEF SameTarget
<1>11. CASE StepRefused(m)
  <2>1. flow[m].step \in Step /\ flow[m].step # "target-made" /\ UNCHANGED move
    BY <1>11 DEF StepRefused, Refused, Step
  <2>2. CASE GivesUp(m, "failed")
    BY <1>1, <1>7, <2>1, <2>2, Names DEF SameTarget, Working
  <2>3. CASE ~GivesUp(m, "failed")
    <3> DEFINE t == StepOf(flow[m].step)
               f == [flow[m] EXCEPT !.step = t, !.key = 0, !.seen = {}]
    <3>1. t \in Step /\ t \in Place /\ t # "target-made"
      BY <2>1, Again, Names
    <3>2. f \in AFlow
      BY <1>0, <3>1, CarriesTyped, Names
    <3>3. f.step = t /\ f.made = None /\ f.before = flow[m].before /\ f.target = flow[m].target
      BY <1>0, <1>6, <2>1 DEF AFlow
    <3>4. flow' = [flow EXCEPT ![m] = f] /\ UNCHANGED undo
      BY <1>11, <2>3 DEF StepRefused
    <3> HIDE DEF f
    <3>5. Row /\ flow'[m] = f
      BY <1>0, <1>7, <2>1, <3>4 DEF MovesTyped
    <3>6. Turns(m)
      BY <2>1, <3>1, <3>3, <3>5, Again DEF Turns, SameTarget
    <3>7. TargetGoesOn(m)
      BY <3>3, <3>5 DEF TargetGoesOn, SameTarget
    <3>8. QED
      BY <1>2, <1>6, <2>1, <3>1, <3>2, <3>3, <3>4, <3>5, <3>6, <3>7
  <2>4. QED
    BY <2>2, <2>3
<1>12. CASE Begin(m) \/ CheckSource(m)
  <2>1. \/ Enters(m, "begin", "preparing") /\ Then(m, "check-source")
        \/ Enters(m, "check-source", "same") /\ Then(m, "prepare-target") /\ SourceAnswers(m)
    BY <1>12 DEF Begin, CheckSource
  <2>2. UNCHANGED undo
    BY <1>12 DEF Begin, CheckSource
  <2>3. QED
    BY <1>4, <1>5, <1>8, <2>1, <2>2, Order DEF SourceAnswers
<1>13. CASE TargetReady(m) \/ SoftLock(m)
  <2>1. \/ Enters(m, "target-ready", "same") /\ Then(m, "soft-lock") /\ TargetAnswers(m)
        \/ Enters(m, "soft-lock", "soft_locked") /\ Then(m, "lock-source")
    BY <1>13 DEF TargetReady, SoftLock
  <2>2. UNCHANGED undo
    BY <1>13 DEF TargetReady, SoftLock
  <2>3. QED
    BY <1>4, <1>5, <1>8, <2>1, <2>2, Order
<1>14. CASE SetReadOnly(m) \/ StoreUrl(m)
  <2>1. UNCHANGED move /\ flow[m].step \in {"lock-alter", "lock-store"}
    BY <1>14 DEF SetReadOnly, StoreUrl
  <2>2. CASE GivesUp(m, "failed")
    BY <1>1, <1>6, <1>7, <2>1, <2>2, Names, Order DEF SameTarget
  <2>3. CASE ~GivesUp(m, "failed")
    <3>1. \/ flow[m].step = "lock-alter" /\ Then(m, "lock-end") /\ SetReadOnly(m)
          \/ flow[m].step = "lock-store" /\ Then(m, "lock-alter")
      BY <1>14, <2>3 DEF SetReadOnly, StoreUrl
    <3>2. UNCHANGED undo
      BY <1>14, <2>3 DEF SetReadOnly, StoreUrl
    <3>3. QED
      BY <1>7, <1>8, <2>1, <3>1, <3>2, Order
  <2>4. QED
    BY <2>2, <2>3
<1>15. CASE EndSessionsAgain(m) \/ FinishTarget(m)
  <2>1. \/ Enters(m, "lock-verify", "same") /\ Then(m, "lock-probe")
        \/ Enters(m, "finish", "verifying") /\ Then(m, "checksums-target")
    BY <1>15 DEF EndSessionsAgain, FinishTarget
  <2>2. UNCHANGED undo
    BY <1>15 DEF EndSessionsAgain, FinishTarget
  <2>3. {"finish", "checksums-target"} \subseteq Copied \ Compared
    BY DEF Copied, Compared
  <2>4. QED
    BY <1>4, <1>5, <1>8, <2>1, <2>2, <2>3, Order
<1>16. CASE ProbeReadOnly(m)
  <2>1. flow[m].step = "lock-probe" /\ Working(m)
    BY <1>6, <1>16, Order DEF ProbeReadOnly
  <2>2. CASE Live(m)
    <3> DEFINE q == [move[m] EXCEPT !.status = "locked"]
    <3>1. "locked" \in Active \ {"cancelling"} /\ "locked" \in Status
      BY DEF Active, Cancellable, Status
    <3>2. /\ q \in AMove /\ q.status = "locked" /\ q.source = move[m].source
          /\ q.cancelled = move[m].cancelled /\ q.unstarted = move[m].unstarted
          /\ q.target = move[m].target
      BY <1>0, <3>1 DEF AMove
    <3>3. move' = [move EXCEPT ![m] = q] /\ Then(m, "prepare-copy") /\ UNCHANGED undo
      BY <1>16, <2>2 DEF ProbeReadOnly
    <3> HIDE DEF q
    <3>4. Row
      BY <1>0, <2>2, <3>1, <3>2, <3>3 DEF MovesTyped, RowIs, SameTarget, RowGoesOn
    <3>5. QED
      BY <1>8, <2>1, <3>3, <3>4, Order
  <2>3. CASE ~Live(m)
    <3>1. PICK outcome \in Outcome : GivesUp(m, outcome)
      BY <1>16, <2>3, Names DEF ProbeReadOnly
    <3>2. UNCHANGED move
      BY <1>16, <2>3 DEF ProbeReadOnly
    <3>3. QED
      BY <1>1, <1>7, <2>1, <3>1, <3>2 DEF SameTarget
  <2>4. QED
    BY <2>2, <2>3
<1>17. CASE MarkLock(m) \/ MarkPrepared(m) \/ MarkCopied(m)
  <2>1. PICK mark \in Mark, next \in {"lock-rotate", "checksums-source", "finish"}, stops \in BOOLEAN :
            /\ SavesProgress(m, mark, next, stops)
            /\ \/ flow[m].step = "lock-mark" /\ next = "lock-rotate"
               \/ flow[m].step = "prepare-mark" /\ next = "checksums-source"
               \/ flow[m].step = "copy-mark" /\ next = "finish"
    BY <1>17 DEF MarkLock, MarkPrepared, MarkCopied, Mark
  <2>2. /\ next \in Step /\ next \in Place /\ flow[m].step \in Step /\ flow[m].step # "target-made"
        /\ next # "target-made"
    BY <2>1 DEF Step, Place
  <2>9. /\ move' \in [Move -> AMove]
        /\ \A o \in Move \ {m} : move'[o] = move[o]
        /\ move'[m].source = move[m].source /\ move'[m].cancelled = move[m].cancelled
        /\ move'[m].unstarted = move[m].unstarted /\ move'[m].target = move[m].target
        /\ move'[m].status = move[m].status
        /\ \/ \E outcome \in Outcome : GivesUp(m, outcome)
           \/ flow' = [flow EXCEPT ![m].step = next, ![m].seen = {}] /\ UNCHANGED undo
    <3> HIDE DEF Goal, RowIs, SameTarget, Row
    <3>1. SavesProgress(m, mark, next, stops) /\ next \in Place
      BY <2>1, <2>2
    <3>2. QED
      BY <1>0, <3>1, SavesTyped
  <2>3. Row
    BY <2>9 DEF RowIs, SameTarget, RowGoesOn
  <2>4. CASE \E outcome \in Outcome : GivesUp(m, outcome)
    BY <1>1, <1>6, <2>2, <2>3, <2>4 DEF SameTarget
  <2>5. CASE flow' = [flow EXCEPT ![m].step = next, ![m].seen = {}] /\ UNCHANGED undo
    <3> DEFINE f == [flow[m] EXCEPT !.step = next, !.seen = {}]
    <3>1. f \in AFlow
      BY <1>0, <2>2, CarriesTyped, Names
    <3>2. /\ f.step = next /\ f.made = None /\ f.before = flow[m].before
          /\ f.target = flow[m].target
      BY <1>0, <1>6, <2>2 DEF AFlow
    <3>3. flow' = [flow EXCEPT ![m] = f]
      BY <2>5
    <3> HIDE DEF f
    <3>4. {"copy-mark", "finish"} \subseteq Copied \ Compared
      BY DEF Copied, Compared
    <3>5. CASE flow[m].step = "lock-mark" /\ next = "lock-rotate"
      BY <1>9, <2>2, <2>3, <2>5, <3>1, <3>2, <3>3, <3>5, Order, ZenonT(60)
    <3>6. CASE flow[m].step = "prepare-mark" /\ next = "checksums-source"
      BY <1>9, <2>2, <2>3, <2>5, <3>1, <3>2, <3>3, <3>6, Order
    <3>7. CASE flow[m].step = "copy-mark" /\ next = "finish"
      <4>1. {"copy-mark", "finish"} \subseteq (Copied \ (Compared \cup Switching)) \cap Closed \cap Locking
        BY <3>4, Order
      <4>2. QED
        BY <1>9, <2>2, <2>3, <2>5, <3>1, <3>2, <3>3, <3>7, <4>1, Order
    <3>8. QED
      BY <2>1, <3>5, <3>6, <3>7
  <2>6. QED
    BY <2>4, <2>5, <2>9
<1>18. CASE PrepareTarget(m)
  <2>1. Row /\ flow[m].step = "prepare-target" /\ flow[m].made = None
    <3>1. Enters(m, "prepare-target", "same")
      BY <1>18 DEF PrepareTarget
    <3>2. QED
      BY <1>4, <1>5, <3>1
  <2>2. /\ {"prepare-target", "target-ready", "target-made"} \subseteq Step
        /\ UNCHANGED undo
    BY <1>18 DEF Step, PrepareTarget
  <2>3. CASE move[m].target # None
    <3>1. Then(m, "target-ready")
      BY <1>18, <2>3 DEF PrepareTarget
    <3>2. QED
      BY <1>8, <2>1, <2>2, <2>3, <3>1, Order
  <2>4. CASE move[m].target = None
    <3>1. PICK t \in Target :
              /\ ~db[t].born
              /\ db' = [db EXCEPT ![t] = [@ EXCEPT !.alive = TRUE, !.born = TRUE]]
              /\ flow' = [flow EXCEPT ![m].step = "target-made", ![m].made = t]
      BY <1>18, <2>4 DEF PrepareTarget
    <3> DEFINE f == [flow[m] EXCEPT !.step = "target-made", !.made = t]
    <3>2. f \in AFlow
      BY <1>0, <2>2, CarriesTyped, Names
    <3>3. /\ f.step = "target-made" /\ f.made = t /\ f.before = flow[m].before
          /\ f.target = flow[m].target
      BY <1>0 DEF AFlow
    <3>4. flow' = [flow EXCEPT ![m] = f]
      BY <3>1
    <3> HIDE DEF f
    <3>5. flow'[m] = f
      BY <1>0, <3>4 DEF MovesTyped
    <3>6. t # None /\ t \in Database
      BY Names, DistinctNames
    <3>7. Turns(m)
      <4>1. "target-made" \in Past /\ "prepare-target" \in Past
        BY Order
      <4>2. "target-made" \notin WithTarget
        BY Order
      <4>3. QED
        BY <2>1, <3>3, <3>5, <3>6, <4>1, <4>2, Order DEF Turns
    <3>8. db'[t].born
      BY <1>0, <3>1, <3>6 DEF PlacesTyped, ADatabase
    <3>9. TargetGoesOn(m)
      BY <2>1, <2>4, <3>1, <3>3, <3>5, <3>8 DEF TargetGoesOn, SameTarget
    <3>10. QED
      BY <1>2, <1>6, <2>1, <2>2, <3>2, <3>3, <3>4, <3>7, <3>9
  <2>5. QED
    BY <2>3, <2>4
<1>19. CASE RecordTarget(m)
  <2>1. flow[m].step = "target-made" /\ flow[m].made \in Target /\ Working(m) /\ UNCHANGED undo
    BY <1>0, <1>19 DEF RecordTarget, Carried, AFlow, Working, Step
  <2>2. /\ move' \in [Move -> AMove]
        /\ \A o \in Move \ {m} : move'[o] = move[o]
        /\ move'[m].source = move[m].source /\ move'[m].cancelled = move[m].cancelled
        /\ move'[m].unstarted = move[m].unstarted /\ move'[m].target = flow[m].made
        /\ move'[m].status = move[m].status
    BY <1>0, <1>19, <2>1, NotesTyped DEF RecordTarget
  <2>3. RowIs
    BY <2>2 DEF RowIs, RowGoesOn
  <2> DEFINE f == [flow[m] EXCEPT !.step = "target-ready", !.made = None]
  <2>4. "target-ready" \in Step /\ "target-ready" \in Place
    BY DEF Step, Place
  <2>5. f \in AFlow
    BY <1>0, <2>4, CarriesTyped
  <2>6. f.step = "target-ready" /\ f.made = None
    BY <1>0 DEF AFlow
  <2>7. flow' = [flow EXCEPT ![m] = f]
    BY <1>19 DEF RecordTarget
  <2> HIDE DEF f
  <2>8. flow'[m] = f
    BY <1>0, <2>7 DEF MovesTyped
  <2>9. flow[m].made # None
    BY <2>1, DistinctNames DEF Database
  <2>10. "target-ready" \in WithTarget \ WithReady /\ "target-made" \in Past
    BY Order
  <2>11. Turns(m)
    BY <2>1, <2>2, <2>6, <2>8, <2>9, <2>10, Order DEF Turns
  <2>12. TargetGoesOn(m)
    BY <2>2, <2>6, <2>8, <2>9 DEF TargetGoesOn
  <2>13. QED
    BY <1>2, <2>1, <2>3, <2>4, <2>5, <2>6, <2>7, <2>11, <2>12
<1>20. CASE LockSource(m)
  <2>1. Row /\ flow[m].step = "lock-source" /\ flow[m].made = None
    BY <1>4, <1>5, <1>20 DEF LockSource
  <2>2. PICK t \in {"lock-mark", "lock-rotate"} :
            flow' = [flow EXCEPT ![m].step = t, ![m].seen = move[m].marks]
    BY <1>20 DEF LockSource
  <2>3. {"lock-source", "lock-mark", "lock-rotate"} \subseteq Step /\ t \in Place
    BY DEF Step, Place
  <2> DEFINE f == [flow[m] EXCEPT !.step = t, !.seen = move[m].marks]
  <2>4. move[m].marks \in Marks
    BY <1>0 DEF AMove
  <2>5. f \in AFlow
    BY <1>0, <2>3, <2>4, CarriesTyped
  <2>6. f.step = t /\ f.made = None
    BY <1>0, <2>1 DEF AFlow
  <2>7. flow' = [flow EXCEPT ![m] = f] /\ UNCHANGED undo
    BY <1>20, <2>2 DEF LockSource
  <2> HIDE DEF f
  <2>8. ~move[m].unstarted /\ t \in Step /\ t # "target-made"
    BY <1>20, <2>3 DEF LockSource
  <2>9. "lock-source" \in WithReady /\ t \in Locking \ Closed
    BY Order
  <2>10. QED
    BY <1>9, <2>1, <2>3, <2>5, <2>6, <2>7, <2>8, <2>9, Order
<1>21. CASE RotatePassword(m)
  <2>1. flow[m].step = "lock-rotate" /\ flow[m].made = None /\ Row
    BY <1>6, <1>7, <1>21, Order DEF RotatePassword
  <2>2. {"lock-store", "lock-rotate"} \subseteq Step /\ "lock-store" \in Place
    BY DEF Step, Place
  <2>3. move[m].source \in Database
    BY <1>0, <2>1, <2>2 DEF Started
  <2> DEFINE key == db[move[m].source].key + 1
             f == [flow[m] EXCEPT !.step = "lock-store", !.key = key, !.seen = {}]
  <2>4. key \in Nat
    BY <1>0, <2>3 DEF PlacesTyped, ADatabase
  <2>5. flow' = [flow EXCEPT ![m] = f] /\ UNCHANGED undo
    BY <1>21 DEF RotatePassword
  <2> HIDE DEF key
  <2>6. f \in AFlow
    BY <1>0, <2>2, <2>4, CarriesTyped, Names
  <2>7. f.step = "lock-store" /\ f.made = None
    BY <1>0, <2>1 DEF AFlow
  <2> HIDE DEF f
  <2>8. QED
    BY <1>9, <2>1, <2>2, <2>5, <2>6, <2>7, Order
<1>22. CASE EndSessions(m)
  <2>1. flow[m].step = "lock-end" /\ flow[m].made = None /\ Row
    BY <1>6, <1>7, <1>22, Order DEF EndSessions
  <2>2. {"lock-end", "lock-verify"} \subseteq Step /\ "lock-verify" \in Place
    BY DEF Step, Place
  <2> DEFINE f == [flow[m] EXCEPT !.step = "lock-verify", !.key = 0]
  <2>3. flow' = [flow EXCEPT ![m] = f] /\ UNCHANGED undo
    BY <1>22 DEF EndSessions
  <2>4. f \in AFlow
    BY <1>0, <2>2, CarriesTyped
  <2>5. f.step = "lock-verify" /\ f.made = None
    BY <1>0, <2>1 DEF AFlow
  <2> HIDE DEF f
  <2>6. QED
    BY <1>9, <1>22, <2>1, <2>2, <2>3, <2>4, <2>5, Order
<1>23. CASE PrepareCopy(m)
  <2>1. Row /\ flow[m].step = "prepare-copy" /\ flow[m].made = None /\ UNCHANGED undo
    BY <1>4, <1>5, <1>23 DEF PrepareCopy
  <2>2. {"prepare-copy", "prepare-mark", "checksums-source"} \subseteq Step /\ "prepare-mark" \in Place
    BY DEF Step, Place
  <2>3. CASE Then(m, "checksums-source")
    BY <1>8, <2>1, <2>2, <2>3, Order
  <2>4. CASE ~Then(m, "checksums-source")
    <3> DEFINE f == [flow[m] EXCEPT !.step = "prepare-mark", !.seen = move[m].marks]
    <3>1. flow' = [flow EXCEPT ![m] = f]
      BY <1>23, <2>4 DEF PrepareCopy
    <3>2. move[m].marks \in Marks
      BY <1>0 DEF AMove
    <3>3. f \in AFlow
      BY <1>0, <2>2, <3>2, CarriesTyped
    <3>4. f.step = "prepare-mark" /\ f.made = None
      BY <1>0, <2>1 DEF AFlow
    <3> HIDE DEF f
    <3>5. QED
      BY <1>9, <2>1, <2>2, <3>1, <3>3, <3>4, Order
  <2>5. QED
    BY <2>3, <2>4
<1>24. CASE ChecksumSource(m)
  <2>1. Row /\ flow[m].step = "checksums-source" /\ flow[m].made = None /\ UNCHANGED undo
    BY <1>4, <1>5, <1>24 DEF ChecksumSource
  <2>2. {"checksums-source", "copy"} \subseteq Step /\ "copy" \in Place
    BY DEF Step, Place
  <2>3. move[m].source \in Database
    BY <1>0, <2>1, <2>2 DEF Started
  <2>4. db[move[m].source].rows \in Rows
    BY <1>0, <2>3 DEF PlacesTyped, ADatabase
  <2> DEFINE f == [flow[m] EXCEPT !.step = "copy", !.before = db[move[m].source].rows]
  <2>5. flow' = [flow EXCEPT ![m] = f]
    BY <1>24 DEF ChecksumSource
  <2>6. f \in AFlow
    BY <1>0, <2>2, <2>4, CarriesTyped
  <2>7. f.step = "copy" /\ f.made = None
    BY <1>0, <2>1 DEF AFlow
  <2> HIDE DEF f
  <2>8. "copy" \in Copied \ Compared
    BY DEF Copied, Compared
  <2>9. QED
    BY <1>9, <1>24, <2>1, <2>2, <2>5, <2>6, <2>7, <2>8, Order
<1>25. CASE CopyChunk(m)
  <2>1. Row /\ flow[m].step = "copy" /\ flow[m].made = None /\ UNCHANGED undo
    BY <1>4, <1>5, <1>25 DEF CopyChunk
  <2>2. {"copy", "copy-mark"} \subseteq Step /\ "copy-mark" \in Place /\ move[m].marks \in Marks
    BY <1>0 DEF Step, Place, AMove
  <2> DEFINE f == [flow[m] EXCEPT !.step = "copy-mark", !.seen = move[m].marks]
  <2>3. flow' = [flow EXCEPT ![m] = f]
    BY <1>25 DEF CopyChunk
  <2>4. f \in AFlow
    BY <1>0, <2>2, CarriesTyped
  <2>5. f.step = "copy-mark" /\ f.made = None /\ f.before = flow[m].before
    BY <1>0, <2>1 DEF AFlow
  <2> HIDE DEF f
  <2>6. {"copy", "copy-mark"} \subseteq Copied \ Compared
    BY DEF Copied, Compared
  <2>7. QED
    BY <1>9, <2>1, <2>2, <2>3, <2>4, <2>5, <2>6, Order, ZenonT(60)
<1>26. CASE ChecksumTarget(m)
  <2>1. Row /\ flow[m].step = "checksums-target" /\ flow[m].made = None /\ UNCHANGED undo
    BY <1>4, <1>5, <1>26 DEF ChecksumTarget
  <2>2. /\ {"checksums-target", "checksums-source-after"} \subseteq Step
        /\ "checksums-source-after" \in Place
    BY DEF Step, Place
  <2>3. move[m].target \in Database
    BY <1>0, <1>26, Names DEF ChecksumTarget, TargetAnswers, AMove
  <2>4. db[move[m].target].rows \in Rows
    BY <1>0, <2>3 DEF PlacesTyped, ADatabase
  <2> DEFINE f == [flow[m] EXCEPT !.step = "checksums-source-after", !.target = db[move[m].target].rows]
  <2>5. flow' = [flow EXCEPT ![m] = f]
    BY <1>26 DEF ChecksumTarget
  <2>6. f \in AFlow
    BY <1>0, <2>2, <2>4, CarriesTyped
  <2>7. f.step = "checksums-source-after" /\ f.made = None /\ f.before = flow[m].before
    BY <1>0, <2>1 DEF AFlow
  <2> HIDE DEF f
  <2>8. "checksums-target" \in Copied /\ "checksums-source-after" \in Copied
    BY DEF Copied
  <2>9. QED
    BY <1>9, <1>26, <2>1, <2>2, <2>5, <2>6, <2>7, <2>8, Order
<1>27. CASE ChecksumSourceAfter(m)
  <2>1. Row /\ flow[m].step = "checksums-source-after" /\ flow[m].made = None /\ UNCHANGED undo
    BY <1>4, <1>5, <1>27 DEF ChecksumSourceAfter
  <2>2. {"checksums-source-after", "verify-compare"} \subseteq Step /\ "verify-compare" \in Place
    BY DEF Step, Place
  <2>3. move[m].source \in Database
    BY <1>0, <2>1, <2>2 DEF Started
  <2>4. db[move[m].source].rows \in Rows
    BY <1>0, <2>3 DEF PlacesTyped, ADatabase
  <2> DEFINE f == [flow[m] EXCEPT !.step = "verify-compare", !.after = db[move[m].source].rows]
  <2>5. flow' = [flow EXCEPT ![m] = f]
    BY <1>27 DEF ChecksumSourceAfter
  <2>6. f \in AFlow
    BY <1>0, <2>2, <2>4, CarriesTyped
  <2>7. /\ f.step = "verify-compare" /\ f.made = None /\ f.before = flow[m].before
        /\ f.target = flow[m].target
    BY <1>0, <2>1 DEF AFlow
  <2> HIDE DEF f
  <2>8. {"checksums-source-after", "verify-compare"} \subseteq Compared
    BY DEF Compared
  <2>9. QED
    BY <1>9, <2>1, <2>2, <2>5, <2>6, <2>7, <2>8, Order, ZenonT(60)
<1>28. CASE VerifyCompare(m)
  <2>1. Row /\ flow[m].step = "verify-compare" /\ flow[m].made = None
    BY <1>4, <1>5, <1>28 DEF VerifyCompare
  <2>2. {"verify-compare", "switch"} \subseteq Step /\ "switch" \in Place
    BY DEF Step, Place
  <2>3. CASE Verified(m)
    <3> DEFINE f == [NewFlow EXCEPT !.step = "switch"]
    <3>1. flow' = [flow EXCEPT ![m] = f] /\ UNCHANGED undo
      BY <1>28, <2>3 DEF VerifyCompare
    <3>2. f \in AFlow
      BY <2>2, NewTyped, ThenTyped
    <3>3. f.step = "switch" /\ f.made = None
      BY DEF NewFlow
    <3> HIDE DEF f
    <3>4. "verify-compare" \in Emptied /\ "switch" \in Switching
      BY Order DEF Compared, Switching
    <3>5. QED
      BY <1>9, <1>28, <2>1, <2>2, <2>3, <3>1, <3>2, <3>3, <3>4, Order
  <2>4. CASE ~Verified(m)
    <3>1. GivesUp(m, "failed")
      BY <1>28, <2>4 DEF VerifyCompare
    <3>2. QED
      BY <1>1, <1>6, <2>1, <2>2, <3>1, Names
  <2>5. QED
    BY <2>3, <2>4
<1>29. CASE EnterSwitch(m)
  <2>1. Row /\ flow[m].step = "switch" /\ flow[m].made = None
    BY <1>4, <1>5, <1>29 DEF EnterSwitch
  <2>2. {"switch", "switch-commit"} \subseteq Step /\ {"switch", "switch-commit"} \subseteq Switching
    BY DEF Step, Switching
  <2>3. CASE AtSource(m)
    <3>1. Then(m, "switch-commit") /\ UNCHANGED undo
      BY <1>29, <2>3 DEF EnterSwitch
    <3>2. QED
      BY <1>8, <2>1, <2>2, <3>1, Order
  <2>4. CASE ~AtSource(m)
    <3>1. GivesUp(m, "failed")
      BY <1>29, <2>4 DEF EnterSwitch
    <3>2. QED
      BY <1>1, <1>6, <2>1, <2>2, <3>1, Names
  <2>5. QED
    BY <2>3, <2>4
<1>30. CASE SwitchWorkspace(m)
  <2>1. flow[m].step = "switch-commit" /\ flow[m].made = None
    BY <1>6, <1>30, Order DEF SwitchWorkspace, Switching
  <2>2. /\ {"switch-done", "switch-commit"} \subseteq Step
        /\ {"switch-done", "switch-commit"} \subseteq Switching
    BY DEF Step, Switching
  <2>3. CASE MaySwitch(m)
    <3> DEFINE q == [move[m] EXCEPT !.status = "completed"]
    <3>1. /\ q \in AMove /\ q.status = "completed" /\ q.source = move[m].source
          /\ q.cancelled = move[m].cancelled /\ q.unstarted = move[m].unstarted
          /\ q.target = move[m].target
      BY <1>0, Names DEF AMove
    <3>2. move' = [move EXCEPT ![m] = q] /\ Then(m, "switch-done") /\ UNCHANGED undo
      BY <1>30, <2>3 DEF SwitchWorkspace
    <3> HIDE DEF q
    <3>3. Row
      BY <1>0, <1>30, <2>3, <3>1, <3>2 DEF MovesTyped, RowIs, SameTarget, RowGoesOn
    <3>4. QED
      BY <1>8, <2>1, <2>2, <3>2, <3>3, Order
  <2>4. CASE ~MaySwitch(m)
    <3>1. GivesUp(m, "failed") /\ UNCHANGED move
      BY <1>30, <2>4 DEF SwitchWorkspace
    <3>2. QED
      BY <1>1, <1>6, <1>7, <2>1, <2>2, <3>1, Names
  <2>5. QED
    BY <2>3, <2>4
<1>31. CASE Switched(m)
  <2>1. /\ flow[m].step \in {"switch-done", "switch"} /\ flow[m].made = None
        /\ flow' = [flow EXCEPT ![m].step = "done"] /\ UNCHANGED undo /\ Row /\ Working(m)
    BY <1>6, <1>7, <1>31, Order DEF Switched, Then, Switching
  <2> DEFINE f == [flow[m] EXCEPT !.step = "done"]
  <2>2. f \in AFlow
    BY <1>0, ThenTyped, Names
  <2>3. f.step = "done" /\ f.made = None
    BY <1>0, <2>1 DEF AFlow
  <2>4. flow' = [flow EXCEPT ![m] = f]
    BY <2>1
  <2> HIDE DEF f
  <2>5. flow'[m] = f
    BY <1>0, <2>4 DEF MovesTyped
  <2>6. Turns(m)
    BY <2>3, <2>5, Order DEF Turns
  <2>7. TargetGoesOn(m)
    BY <2>1, <2>3, <2>5 DEF TargetGoesOn, SameTarget
  <2>8. QED
    BY <1>2, <2>1, <2>2, <2>3, <2>4, <2>6, <2>7
<1>32. CASE StepFails(m)
  <2>1. flow[m].step \in Step /\ Working(m)
    BY <1>32 DEF StepFails, Working
  <2>2. RowIs /\ (SameTarget \/ (flow[m].made # None /\ move'[m].target = flow[m].made))
    <3>1. CASE UNCHANGED move
      BY <1>7, <3>1
    <3>2. CASE ~UNCHANGED move
      <4>1. PICK noted \in BOOLEAN :
                /\ flow[m].made # None
                /\ move' = [move EXCEPT ![m].target = IF noted THEN flow[m].made ELSE @]
        BY <1>32, <3>2 DEF StepFails
      <4> DEFINE t == IF noted THEN flow[m].made ELSE move[m].target
      <4>2. t \in Target \cup {None} /\ move' = [move EXCEPT ![m].target = t]
        BY <1>0, <4>1 DEF AMove, AFlow
      <4>3. /\ move' \in [Move -> AMove]
            /\ \A o \in Move \ {m} : move'[o] = move[o]
            /\ move'[m].source = move[m].source /\ move'[m].cancelled = move[m].cancelled
            /\ move'[m].unstarted = move[m].unstarted /\ move'[m].target = t
            /\ move'[m].status = move[m].status
        <5> HIDE DEF t
        <5>1. QED
          BY <1>0, <4>2, NotesTyped
      <4>4. QED
        BY <4>1, <4>3 DEF RowIs, SameTarget, RowGoesOn
    <3>3. QED
      BY <3>1, <3>2
  <2>3. CASE GivesUp(m, "failed")
    BY <1>1, <2>1, <2>2, <2>3, Names
  <2>4. CASE ~GivesUp(m, "failed")
    <3> DEFINE t == StepOf(flow[m].step)
               f == [flow[m] EXCEPT !.step = t, !.seen = {}, !.made = None, !.key = 0]
    <3>1. t \in Step /\ t \in Place /\ t # "target-made"
      BY <2>1, Again, Names
    <3>2. f \in AFlow
      BY <1>0, <3>1, CarriesTyped
    <3>3. f.step = t /\ f.made = None /\ f.before = flow[m].before /\ f.target = flow[m].target
      BY <1>0 DEF AFlow
    <3>4. flow' = [flow EXCEPT ![m] = f] /\ UNCHANGED undo
      BY <1>32, <2>4 DEF StepFails
    <3> HIDE DEF f
    <3>5. flow'[m] = f
      BY <1>0, <3>4 DEF MovesTyped
    <3>6. t \in WithTarget => flow[m].step \in WithTarget
      BY <2>1, Again
    <3>7. Turns(m)
      BY <2>1, <3>1, <3>3, <3>5, <3>6, Again DEF Turns
    <3>8. TargetGoesOn(m)
      BY <2>2, <3>3, <3>5 DEF TargetGoesOn, SameTarget
    <3>9. QED
      BY <1>2, <2>1, <2>2, <3>1, <3>2, <3>3, <3>4, <3>7, <3>8
  <2>5. QED
    BY <2>3, <2>4
<1>33. QED
  BY <1>10, <1>11, <1>12, <1>13, <1>14, <1>15, <1>16, <1>17, <1>18, <1>19, <1>20, <1>21, <1>22, <1>23,
     <1>24, <1>25, <1>26, <1>27, <1>28, <1>29, <1>30, <1>31, <1>32 DEF FlowStep

(* What the step of a workflow does to the databases and the connections:  *)
(* a database that was made for it may go again, its target is written in  *)
(* two of the steps, and sessions end.                                     *)
Writes(m) == flow[m].step \in {"prepare-copy", "copy"} /\ Live(m) /\ move[m].target # None

DatabasesGoOn(m) ==
    \A d \in Database :
        /\ db[d].alive => db'[d].alive \/ d = flow[m].made
        /\ db[d].born => db'[d].born
        /\ db[d].readOnly => db'[d].readOnly
        /\ db'[d].rows # db[d].rows => Writes(m) /\ d = move[m].target

SessionsGoOn ==
    \A w \in Writer :
        \/ writer'[w] = writer[w]
        \/ writer[w].phase = "connected" /\ writer'[w] = [phase |-> "idle", at |-> None, key |-> 0]

PlacesGoOn(m) ==
    /\ DatabasesGoOn(m) /\ SessionsGoOn /\ written' = written
    /\ \/ workspace'.at = workspace.at
       \/ SwitchWorkspace(m) /\ MaySwitch(m) /\ workspace'.at = move[m].target

(* A database whose fields change keeps its type.                          *)
LEMMA DatabaseTyped ==
    ASSUME PlacesTyped, NEW d \in Database, NEW q \in ADatabase, db' = [db EXCEPT ![d] = q]
    PROVE  /\ db' \in [Database -> ADatabase] /\ db'[d] = q
           /\ \A e \in Database \ {d} : db'[e] = db[e]
  BY DEF PlacesTyped

(* Sessions end.                                                           *)
LEMMA SessionsEndTyped ==
    ASSUME WritersTyped, NEW d, SessionsEnd(d)
    PROVE  /\ writer' \in [Writer -> AWriter] /\ SessionsGoOn
           /\ \A w \in Writer : ~(writer'[w].phase = "connected" /\ writer'[w].at = d)
<1>1. \A w \in Writer : writer[w] \in AWriter
  BY DEF WritersTyped
<1>2. QED
  BY <1>1, NewTyped DEF SessionsEnd, SessionsGoOn, WritersTyped

(* A workflow's step, or the failure of one: the workspace, the databases  *)
(* and the connections.                                                    *)
LEMMA FlowMovesPlaces ==
    ASSUME Typed, Started, Carried, NEW m \in Move, FlowStep(m) \/ StepFails(m)
    PROVE  PlacesTyped' /\ WritersTyped' /\ BudgetsTyped' /\ PlacesGoOn(m)
<1> DEFINE Goal == PlacesTyped' /\ WritersTyped' /\ BudgetsTyped' /\ PlacesGoOn(m)
<1>0. PlacesTyped /\ WritersTyped /\ BudgetsTyped /\ move[m] \in AMove /\ flow[m] \in AFlow
  BY DEF Typed, MovesTyped
<1>1. UNCHANGED <<writer, written>> => WritersTyped' /\ SessionsGoOn /\ written' = written
  BY <1>0 DEF WritersTyped, SessionsGoOn
<1>2. UNCHANGED budgets => BudgetsTyped'
  BY <1>0 DEF BudgetsTyped, budgets
<1>3. UNCHANGED db => db' \in [Database -> ADatabase] /\ DatabasesGoOn(m)
  BY <1>0 DEF PlacesTyped, DatabasesGoOn
<1>4. UNCHANGED workspace => workspace' \in AUrl /\ workspace'.at = workspace.at
  BY <1>0 DEF PlacesTyped
<1>5. flow[m].step \in Step => move[m].source \in Database
  BY <1>0, Names DEF Started
<1>6. ASSUME NEW d \in Database, NEW q \in ADatabase, db' = [db EXCEPT ![d] = q],
             db[d].alive => q.alive \/ d = flow[m].made, db[d].born => q.born, db[d].readOnly => q.readOnly,
             q.rows # db[d].rows => Writes(m) /\ d = move[m].target
      PROVE  db' \in [Database -> ADatabase] /\ DatabasesGoOn(m)
  BY <1>0, <1>6, DatabaseTyped DEF DatabasesGoOn
<1>7. \A d \in Database : db[d] \in ADatabase
  BY <1>0 DEF PlacesTyped
<1>8. CASE UNCHANGED <<workspace, db, writer, written, budgets>>
  BY <1>1, <1>2, <1>3, <1>4, <1>8 DEF PlacesTyped, PlacesGoOn
<1>9. CASE PrepareTarget(m)
  <2>1. UNCHANGED <<workspace, writer, written, budgets>>
    BY <1>9 DEF PrepareTarget
  <2>2. db' \in [Database -> ADatabase] /\ DatabasesGoOn(m)
    <3>1. CASE UNCHANGED db
      BY <1>3, <3>1
    <3>2. CASE ~UNCHANGED db
      <4>1. PICK t \in Target : ~db[t].born /\ db' = [db EXCEPT ![t] = [@ EXCEPT !.alive = TRUE, !.born = TRUE]]
        BY <1>9, <3>2 DEF PrepareTarget
      <4> DEFINE q == [db[t] EXCEPT !.alive = TRUE, !.born = TRUE]
      <4>2. t \in Database /\ db' = [db EXCEPT ![t] = q]
        BY <4>1, Names
      <4>3. q \in ADatabase /\ q.alive /\ q.born /\ q.readOnly = db[t].readOnly /\ q.rows = db[t].rows
        BY <1>7, <4>2 DEF ADatabase
      <4> HIDE DEF q
      <4>4. QED
        BY <1>6, <4>2, <4>3
    <3>3. QED
      BY <3>1, <3>2
  <2>3. QED
    BY <1>1, <1>2, <1>4, <2>1, <2>2 DEF PlacesTyped, PlacesGoOn
<1>10. CASE RotatePassword(m)
  <2>1. UNCHANGED <<workspace, writer, written, budgets>>
    BY <1>10 DEF RotatePassword
  <2>2. move[m].source \in Database
    BY <1>5, <1>10 DEF RotatePassword, Step
  <2> DEFINE d == move[m].source
             q == [db[d] EXCEPT !.key = db[d].key + 1]
  <2>3. db' = [db EXCEPT ![d] = q]
    BY <1>10 DEF RotatePassword
  <2>4. db[d].key + 1 \in Nat
    BY <1>7, <2>2 DEF ADatabase
  <2>5. /\ q \in ADatabase /\ q.alive = db[d].alive /\ q.born = db[d].born
        /\ q.readOnly = db[d].readOnly /\ q.rows = db[d].rows
    BY <1>7, <2>2, <2>4 DEF ADatabase
  <2> HIDE DEF q
  <2>6. db' \in [Database -> ADatabase] /\ DatabasesGoOn(m)
    BY <1>6, <2>2, <2>3, <2>5
  <2>7. QED
    BY <1>1, <1>2, <1>4, <2>1, <2>6 DEF PlacesTyped, PlacesGoOn
<1>11. CASE SetReadOnly(m)
  <2>1. UNCHANGED <<workspace, writer, written, budgets>>
    BY <1>11 DEF SetReadOnly
  <2>2. move[m].source \in Database
    BY <1>5, <1>11 DEF SetReadOnly, Step
  <2> DEFINE d == move[m].source
             q == [db[d] EXCEPT !.readOnly = TRUE]
  <2>3. db' = [db EXCEPT ![d] = q]
    BY <1>11 DEF SetReadOnly
  <2>4. q \in ADatabase /\ q.alive = db[d].alive /\ q.born = db[d].born /\ q.readOnly /\ q.rows = db[d].rows
    BY <1>7, <2>2 DEF ADatabase
  <2> HIDE DEF q
  <2>5. db' \in [Database -> ADatabase] /\ DatabasesGoOn(m)
    BY <1>6, <2>2, <2>3, <2>4
  <2>6. QED
    BY <1>1, <1>2, <1>4, <2>1, <2>5 DEF PlacesTyped, PlacesGoOn
<1>12. CASE PrepareCopy(m) \/ CopyChunk(m)
  <2>1. UNCHANGED <<workspace, writer, written, budgets>>
    BY <1>12 DEF PrepareCopy, CopyChunk
  <2>2. CASE UNCHANGED db
    BY <1>1, <1>2, <1>3, <1>4, <2>1, <2>2 DEF PlacesTyped, PlacesGoOn
  <2>3. CASE ~UNCHANGED db
    <3> DEFINE d == move[m].target
    <3>1. /\ flow[m].step \in {"prepare-copy", "copy"} /\ Live(m) /\ d # None /\ AtSource(m)
          /\ \E rows \in {{}, db[d].rows \cup db[move[m].source].rows} :
                 db' = [db EXCEPT ![d].rows = rows]
      BY <1>12, <2>3 DEF PrepareCopy, CopyChunk, Enters, TargetAnswers, SourceAnswers
    <3>2. d \in Database /\ move[m].source \in Database
      BY <1>0, <1>5, <3>1, Names DEF AMove, Step
    <3>3. PICK rows \in Rows : db' = [db EXCEPT ![d].rows = rows]
      BY <1>7, <3>1, <3>2 DEF ADatabase, Rows
    <3> DEFINE q == [db[d] EXCEPT !.rows = rows]
    <3>4. db' = [db EXCEPT ![d] = q]
      BY <3>3
    <3>5. /\ q \in ADatabase /\ q.alive = db[d].alive /\ q.born = db[d].born
          /\ q.readOnly = db[d].readOnly
      BY <1>7, <3>2 DEF ADatabase
    <3> HIDE DEF q
    <3>6. db' \in [Database -> ADatabase] /\ DatabasesGoOn(m)
      BY <1>6, <3>1, <3>2, <3>4, <3>5 DEF Writes
    <3>7. QED
      BY <1>1, <1>2, <1>4, <2>1, <3>6 DEF PlacesTyped, PlacesGoOn
  <2>4. QED
    BY <2>2, <2>3
<1>13. CASE StoreUrl(m)
  <2>1. UNCHANGED <<db, writer, written, budgets>>
    BY <1>13 DEF StoreUrl
  <2>2. workspace' \in AUrl /\ workspace'.at = workspace.at
    <3>1. flow[m].key \in Nat
      BY <1>0 DEF AFlow
    <3>2. UNCHANGED workspace \/ workspace' = [workspace EXCEPT !.key = flow[m].key]
      BY <1>13 DEF StoreUrl
    <3>3. QED
      BY <1>0, <3>1, <3>2 DEF PlacesTyped, AUrl
  <2>3. QED
    BY <1>1, <1>2, <1>3, <2>1, <2>2 DEF PlacesTyped, PlacesGoOn
<1>14. CASE EndSessions(m) \/ EndSessionsAgain(m)
  <2>1. UNCHANGED <<workspace, db, written, budgets>> /\ SessionsEnd(move[m].source)
    BY <1>14 DEF EndSessions, EndSessionsAgain
  <2>2. writer' \in [Writer -> AWriter] /\ SessionsGoOn
    BY <1>0, <2>1, SessionsEndTyped
  <2>3. QED
    BY <1>0, <1>2, <1>3, <1>4, <2>1, <2>2 DEF PlacesTyped, PlacesGoOn, WritersTyped
<1>15. CASE SwitchWorkspace(m)
  <2>1. UNCHANGED <<db, writer, written, budgets>>
    BY <1>15 DEF SwitchWorkspace
  <2>2. CASE MaySwitch(m)
    <3>1. move[m].target \in Target
      BY <1>0, <1>15, Order DEF SwitchWorkspace, Carried, AMove, Switching
    <3>2. workspace' = [at |-> move[m].target, key |-> db[move[m].target].key]
      BY <1>15, <2>2 DEF SwitchWorkspace
    <3>3. move[m].target \in Database /\ db[move[m].target].key \in Nat
      BY <1>7, <3>1, Names DEF ADatabase
    <3>4. workspace' \in AUrl /\ workspace'.at = move[m].target
      BY <3>2, <3>3 DEF AUrl
    <3>5. QED
      BY <1>1, <1>2, <1>3, <1>15, <2>1, <2>2, <3>4 DEF PlacesTyped, PlacesGoOn
  <2>3. CASE ~MaySwitch(m)
    <3>1. UNCHANGED workspace
      BY <1>15, <2>3 DEF SwitchWorkspace
    <3>2. QED
      BY <1>1, <1>2, <1>3, <1>4, <2>1, <3>1 DEF PlacesTyped, PlacesGoOn
  <2>4. QED
    BY <2>2, <2>3
<1>16. CASE StepFails(m)
  <2>1. UNCHANGED <<workspace, writer, written, cancels, recovers>> /\ failures < MaxFailures
        /\ failures' = failures + 1
    BY <1>16 DEF StepFails
  <2>2. BudgetsTyped'
    BY <1>0, <2>1, Bounds DEF BudgetsTyped
  <2>3. db' \in [Database -> ADatabase] /\ DatabasesGoOn(m)
    <3>1. CASE UNCHANGED db
      BY <1>3, <3>1
    <3>2. CASE ~UNCHANGED db
      <4> DEFINE d == flow[m].made
      <4>1. PICK kept \in BOOLEAN : d # None /\ db' = [db EXCEPT ![d].alive = kept]
        BY <1>16, <3>2 DEF StepFails
      <4>2. d \in Database
        BY <1>0, <4>1, Names DEF AFlow
      <4> DEFINE q == [db[d] EXCEPT !.alive = kept]
      <4>3. db' = [db EXCEPT ![d] = q]
        BY <4>1
      <4>4. /\ q \in ADatabase /\ q.born = db[d].born
            /\ q.readOnly = db[d].readOnly /\ q.rows = db[d].rows
        BY <1>7, <4>2 DEF ADatabase
      <4> HIDE DEF q
      <4>5. QED
        BY <1>6, <4>2, <4>3, <4>4
    <3>3. QED
      BY <3>1, <3>2
  <2>4. QED
    BY <1>1, <1>4, <2>1, <2>2, <2>3 DEF PlacesTyped, PlacesGoOn
<1>17. CASE RecordTarget(m) \/ NotEntered(m) \/ NotMovable(m) \/ StepRefused(m) \/ Begin(m)
            \/ CheckSource(m) \/ TargetReady(m) \/ SoftLock(m) \/ LockSource(m) \/ ProbeReadOnly(m)
  BY <1>8, <1>17 DEF RecordTarget, NotEntered, NotMovable, StepRefused, Begin, CheckSource, TargetReady,
                     SoftLock, LockSource, ProbeReadOnly
<1>18. CASE MarkLock(m) \/ MarkPrepared(m) \/ MarkCopied(m) \/ ChecksumSource(m) \/ FinishTarget(m)
            \/ ChecksumTarget(m) \/ ChecksumSourceAfter(m) \/ VerifyCompare(m) \/ EnterSwitch(m) \/ Switched(m)
  BY <1>8, <1>18 DEF MarkLock, MarkPrepared, MarkCopied, SavesProgress, ChecksumSource, FinishTarget,
                     ChecksumTarget, ChecksumSourceAfter, VerifyCompare, EnterSwitch, Switched
<1>19. QED
  BY <1>9, <1>10, <1>11, <1>12, <1>13, <1>14, <1>15, <1>16, <1>17, <1>18 DEF FlowStep

-----------------------------------------------------------------------------
(* Undoing.                                                                *)

Unlocking == {"unlock", "unlock-store", "unlock-again"}
Releasing == Unlocking \cup {"release"}

(* The undo of r goes on with the same move or ends, and with it r's       *)
(* workflow.                                                               *)
UndoGoesOn(r) ==
    /\ Undone(r)
    /\ \A q \in Runner \ {r} : undo'[q] = undo[q]
    /\ \A o \in Move \ {r} : flow'[o] = flow[o]
    /\ \/ Undone(r)' /\ flow' = flow /\ (undo'[r].of = undo[r].of \/ (undo'[r].of = r /\ r \in Move))
       \/ /\ ~Undone(r)'
          /\ r \in Move => flow'[r].step \in {"done", "dead"} /\ flow'[r].made = flow[r].made

(* It looks where the workspace is before it unlocks or releases anything. *)
UndoTurns(r) ==
    /\ undo'[r].phase \in Unlocking =>
           undo'[r].from = workspace.at \/ (undo[r].phase \in Unlocking /\ undo'[r].from = undo[r].from)
    /\ undo'[r].phase \in Releasing =>
           /\ undo'[r].target = undo[r].target
           /\ undo[r].phase \in Releasing \/ undo[r].target = None \/ undo[r].target # workspace.at

(* The row is marked, or closed; a completed one stays.                    *)
RowsGetOver(r) ==
    \A o \in Move :
        /\ move'[o].source = move[o].source /\ move'[o].target = move[o].target
        /\ move'[o].cancelled = move[o].cancelled /\ move'[o].unstarted = move[o].unstarted
        /\ \/ move'[o].status = move[o].status
           \/ o = undo[r].of /\ move[o].status # "completed" /\ move'[o].status \in Outcome

(* The source takes writes again, and the target goes.                     *)
PlacesGoBack(r) ==
    /\ workspace'.at = workspace.at /\ UNCHANGED <<writer, written>>
    /\ \A d \in Database :
           /\ db'[d].rows = db[d].rows
           /\ db[d].born => db'[d].born
           /\ db[d].readOnly => db'[d].readOnly \/ (undo[r].phase \in Unlocking /\ d = undo[r].from)
           /\ db[d].alive => db'[d].alive \/ (undo[r].phase = "release" /\ d = undo[r].target)

(* The undo ends ...                                                       *)
LEMMA EndsTyped ==
    ASSUME MovesTyped, NEW r \in Runner, Undone(r), NEW how \in {"done", "error"}, Ends(r, how)
    PROVE  /\ undo' \in [Runner -> AnUndo] /\ flow' \in [Move -> AFlow]
           /\ UndoGoesOn(r) /\ UndoTurns(r)
<1> DEFINE u == [Idle EXCEPT !.phase = how]
<1>1. u \in AnUndo /\ u.phase = how
  BY NewTyped, Names DEF AnUndo, Idle, Phase
<1>2. undo' = [undo EXCEPT ![r] = u]
  BY DEF Ends
<1> HIDE DEF u
<1>3. undo' \in [Runner -> AnUndo] /\ undo'[r] = u /\ \A q \in Runner \ {r} : undo'[q] = undo[q]
  BY <1>1, <1>2 DEF MovesTyped
<1>4. ~Undone(r)'
  BY <1>1, <1>3, Names DEF Undone
<1>5. UndoTurns(r)
  BY <1>1, <1>3 DEF UndoTurns, Unlocking, Releasing
<1>6. /\ flow' \in [Move -> AFlow] /\ \A o \in Move \ {r} : flow'[o] = flow[o]
      /\ r \in Move => flow'[r].step \in {"done", "dead"} /\ flow'[r].made = flow[r].made
  <2>1. CASE r = Admin
    BY <2>1, DistinctNames DEF Ends, MovesTyped
  <2>2. CASE r # Admin
    <3>1. r \in Move
      BY <2>2 DEF Runner
    <3> DEFINE step == IF how = "done" THEN "done" ELSE "dead"
               f == [flow[r] EXCEPT !.step = step]
    <3>2. step \in {"done", "dead"} /\ step \in Place /\ flow[r] \in AFlow
      BY <3>1, Names DEF MovesTyped
    <3>3. flow' = [flow EXCEPT ![r] = f]
      BY <2>2 DEF Ends
    <3> HIDE DEF step
    <3>4. f \in AFlow
      BY <3>2, ThenTyped
    <3>5. f.step = step /\ f.made = flow[r].made
      BY <3>2 DEF AFlow
    <3> HIDE DEF f
    <3>6. QED
      BY <3>1, <3>2, <3>3, <3>4, <3>5 DEF MovesTyped
  <2>3. QED
    BY <2>1, <2>2
<1>7. QED
  BY <1>3, <1>4, <1>5, <1>6 DEF UndoGoesOn

(* ... or goes on.                                                         *)
LEMMA UndoesTyped ==
    ASSUME MovesTyped, NEW r \in Runner, Undone(r), NEW u \in AnUndo,
           undo' = [undo EXCEPT ![r] = u], UNCHANGED flow, u.phase \in Undoing,
           u.of = undo[r].of \/ (u.of = r /\ r \in Move)
    PROVE  /\ undo' \in [Runner -> AnUndo] /\ flow' \in [Move -> AFlow]
           /\ UndoGoesOn(r) /\ undo'[r] = u
<1>1. undo' \in [Runner -> AnUndo] /\ undo'[r] = u /\ \A q \in Runner \ {r} : undo'[q] = undo[q]
  BY DEF MovesTyped
<1>2. QED
  BY <1>1 DEF UndoGoesOn, MovesTyped, Undone

(* Nothing happens to the databases.                                       *)
LEMMA PlacesStay ==
    ASSUME Typed, NEW r, UNCHANGED <<db, writer, written>>, workspace' \in AUrl,
           workspace'.at = workspace.at
    PROVE  PlacesTyped' /\ WritersTyped' /\ PlacesGoBack(r)
  BY DEF Typed, PlacesTyped, WritersTyped, PlacesGoBack

(* One database changes.                                                   *)
LEMMA OnePlaceChanges ==
    ASSUME Typed, NEW r, NEW d \in Database, NEW q \in ADatabase, db' = [db EXCEPT ![d] = q],
           UNCHANGED <<workspace, writer, written>>, q.rows = db[d].rows, db[d].born => q.born,
           db[d].readOnly => q.readOnly \/ (undo[r].phase \in Unlocking /\ d = undo[r].from),
           db[d].alive => q.alive \/ (undo[r].phase = "release" /\ d = undo[r].target)
    PROVE  PlacesTyped' /\ WritersTyped' /\ PlacesGoBack(r)
<1>1. /\ db' \in [Database -> ADatabase] /\ db'[d] = q
      /\ \A e \in Database \ {d} : db'[e] = db[e]
  BY DatabaseTyped DEF Typed
<1>2. QED
  BY <1>1 DEF Typed, PlacesTyped, WritersTyped, PlacesGoBack

(* The rows stay.                                                          *)
LEMMA RowsStay ==
    ASSUME MovesTyped, NEW r, UNCHANGED move
    PROVE  move' \in [Move -> AMove] /\ RowsGetOver(r)
  BY DEF MovesTyped, RowsGetOver

(* An undo that unlocks knows what.                                        *)
Unlocks == \A r \in Runner : undo[r].phase \in Unlocking => undo[r].from \in Database

(* A step of an undo, or the failure of one.                               *)
LEMMA UndoGoes ==
    ASSUME Typed, Started, Carried, Unlocks, NEW r \in Runner, UndoStep(r) \/ UndoFails(r)
    PROVE  /\ Typed' /\ UndoGoesOn(r) /\ UndoTurns(r) /\ RowsGetOver(r) /\ PlacesGoBack(r)
<1> DEFINE Goal == Typed' /\ UndoGoesOn(r) /\ UndoTurns(r) /\ RowsGetOver(r) /\ PlacesGoBack(r)
           Undos == /\ undo' \in [Runner -> AnUndo] /\ flow' \in [Move -> AFlow]
                    /\ UndoGoesOn(r) /\ UndoTurns(r)
           RowsOver == move' \in [Move -> AMove] /\ RowsGetOver(r)
           PlacesBack == PlacesTyped' /\ WritersTyped' /\ PlacesGoBack(r)
<1>0. /\ MovesTyped /\ undo[r] \in AnUndo /\ PlacesTyped
      /\ \A o \in Move : move[o] \in AMove
  BY DEF Typed, MovesTyped
<1>1. Undone(r)
  <2>1. CASE UndoStep(r)
    BY <2>1 DEF UndoStep, UndoLoads, UndoLooks, Unlock, UnlockStores, UnlockAgain, ReleaseTarget,
                MarkReleased, Close, At, Undone, Undoing
  <2>2. CASE UndoFails(r)
    <3>1. /\ undo[r].phase \in {"unlock", "unlock-store", "unlock-again", "release", "release-mark"}
             \/ undo[r].phase \notin {"idle", "done", "error"}
          /\ undo[r].phase \in Phase
      BY <1>0, <2>2 DEF UndoFails, AnUndo
    <3>2. QED
      BY <3>1 DEF Undone, Undoing, Phase
  <2>3. QED
    BY <2>1, <2>2
<1>2. undo[r].of \in Move
  BY <1>1 DEF Started
<1>3. ASSUME NEW how \in {"done", "error"}, Ends(r, how) PROVE Undos
  BY <1>0, <1>1, <1>3, EndsTyped
<1>4. ASSUME NEW u \in AnUndo, undo' = [undo EXCEPT ![r] = u], UNCHANGED flow, u.phase \in Undoing,
             u.of = undo[r].of \/ (u.of = r /\ r \in Move),
             u.phase \in Unlocking => u.from = workspace.at \/ (undo[r].phase \in Unlocking /\ u.from = undo[r].from),
             u.phase \in Releasing =>
                 /\ u.target = undo[r].target
                 /\ undo[r].phase \in Releasing \/ undo[r].target = None \/ undo[r].target # workspace.at
      PROVE  Undos
  <2>1. /\ undo' \in [Runner -> AnUndo] /\ flow' \in [Move -> AFlow]
        /\ UndoGoesOn(r) /\ undo'[r] = u
    BY <1>0, <1>1, <1>4, UndoesTyped
  <2>2. UndoTurns(r)
    BY <1>4, <2>1 DEF UndoTurns
  <2>3. QED
    BY <2>1, <2>2
<1>5. ASSUME Throws(r) PROVE Undos
  <2>1. CASE Ends(r, "error")
    BY <1>3, <2>1
  <2>2. CASE ~Ends(r, "error")
    <3> DEFINE u == [Idle EXCEPT !.phase = "load", !.of = r, !.outcome = undo[r].outcome]
    <3>1. r \in Move /\ undo' = [undo EXCEPT ![r] = u] /\ UNCHANGED flow
      BY <1>5, <2>2 DEF Throws, Runner
    <3>2. u \in AnUndo /\ u.phase = "load" /\ u.of = r
      BY <1>0, <3>1, NewTyped, Names DEF Idle, AnUndo
    <3> HIDE DEF u
    <3>3. "load" \in Undoing /\ "load" \notin Releasing /\ "load" \notin Unlocking
      BY Names DEF Releasing, Unlocking
    <3>4. QED
      BY <1>4, <3>1, <3>2, <3>3
  <2>3. QED
    BY <2>1, <2>2
<1>6. ASSUME NEW next \in {"release", "close"}, Troubled(r, next), UNCHANGED flow,
             undo[r].phase \in Unlocking \/ (undo[r].phase \in {"release", "release-mark"} /\ next = "close")
      PROVE  Undos
  <2> DEFINE u == [undo[r] EXCEPT !.phase = next, !.problem = TRUE, !.from = None, !.with = 0, !.key = 0]
  <2>1. next \in Phase /\ next \in Undoing /\ "close" \notin Releasing /\ next \notin Unlocking
    BY Names DEF Releasing, Unlocking
  <2>2. u \in AnUndo /\ u.phase = next /\ u.of = undo[r].of /\ u.target = undo[r].target
    BY <1>0, <2>1 DEF AnUndo
  <2>3. undo' = [undo EXCEPT ![r] = u]
    BY <1>6 DEF Troubled
  <2> HIDE DEF u
  <2>4. QED
    BY <1>4, <1>6, <2>1, <2>2, <2>3 DEF Releasing
<1>7. UNCHANGED move => RowsOver
  BY <1>0, RowsStay
<1>8. UNCHANGED <<workspace, db, writer, written>> => PlacesBack
  BY <1>0, PlacesStay DEF PlacesTyped
<1>9. UNCHANGED budgets => BudgetsTyped'
  BY DEF Typed, BudgetsTyped, budgets
<1> SUFFICES Undos /\ RowsOver /\ PlacesBack /\ BudgetsTyped'
  BY DEF Typed, MovesTyped
<1> HIDE DEF Goal, Undos, RowsOver, PlacesBack
<1>10. CASE UndoLoads(r)
  <2>1. UNCHANGED <<workspace, db, move, writer, written, budgets>> /\ undo[r].phase = "load"
    BY <1>10 DEF UndoLoads, At
  <2>2. CASE Ends(r, "done")
    BY <1>3, <1>7, <1>8, <1>9, <2>1, <2>2
  <2>3. CASE ~Ends(r, "done")
    <3> DEFINE m == undo[r].of
               how == IF move[m].cancelled /\ r # Admin THEN "cancelled" ELSE undo[r].outcome
               u == [undo[r] EXCEPT !.phase = "look", !.marks = move[m].marks, !.target = move[m].target,
                                    !.outcome = how]
    <3>1. undo' = [undo EXCEPT ![r] = u] /\ UNCHANGED flow
      BY <1>10, <2>3 DEF UndoLoads
    <3>2. how \in Outcome /\ move[m].marks \in Marks /\ move[m].target \in Target \cup {None}
      BY <1>0, <1>2, Names DEF AnUndo, AMove
    <3>3. "look" \in Phase /\ "look" \in Undoing /\ "look" \notin Releasing /\ "look" \notin Unlocking
      BY Names DEF Releasing, Unlocking
    <3> HIDE DEF how
    <3>4. u \in AnUndo /\ u.phase = "look" /\ u.of = undo[r].of
      BY <1>0, <3>2, <3>3 DEF AnUndo
    <3> HIDE DEF u
    <3>5. QED
      BY <1>4, <1>7, <1>8, <1>9, <2>1, <3>1, <3>3, <3>4
  <2>4. QED
    BY <2>2, <2>3
<1>11. CASE UndoLooks(r)
  <2>1. UNCHANGED <<workspace, db, move, writer, written, budgets>> /\ undo[r].phase = "look"
    BY <1>11 DEF UndoLooks, At
  <2>2. CASE Ends(r, "error")
    BY <1>3, <1>7, <1>8, <1>9, <2>1, <2>2
  <2>3. CASE ~Ends(r, "error")
    <3>1. /\ undo[r].target = None \/ undo[r].target # workspace.at
          /\ UNCHANGED flow
          /\ \/ undo' = [undo EXCEPT ![r].phase = "unlock", ![r].from = workspace.at, ![r].with = workspace.key]
             \/ undo' = [undo EXCEPT ![r].phase = "release", ![r].from = None, ![r].with = 0]
      BY <1>11, <2>3 DEF UndoLooks
    <3>2. PICK phase \in {"unlock", "release"}, from \in Database \cup {None}, with \in Nat :
              /\ undo' = [undo EXCEPT ![r].phase = phase, ![r].from = from, ![r].with = with]
              /\ phase = "unlock" => from = workspace.at
      BY <1>0, <3>1 DEF PlacesTyped, AUrl
    <3> DEFINE u == [undo[r] EXCEPT !.phase = phase, !.from = from, !.with = with]
    <3>3. /\ phase \in Phase /\ phase \in Undoing /\ phase \in Releasing
          /\ "release" \notin Unlocking /\ "unlock" \in Unlocking
      BY Names DEF Releasing, Unlocking
    <3>4. u \in AnUndo /\ u.phase = phase /\ u.of = undo[r].of /\ u.from = from /\ u.target = undo[r].target
      BY <1>0, <3>3 DEF AnUndo
    <3>5. undo' = [undo EXCEPT ![r] = u]
      BY <3>2
    <3> HIDE DEF u
    <3>6. QED
      BY <1>4, <1>7, <1>8, <1>9, <2>1, <3>1, <3>2, <3>3, <3>4, <3>5
  <2>4. QED
    BY <2>2, <2>3
<1>12. CASE Unlock(r)
  <2>1. UNCHANGED <<workspace, move, flow, writer, written, budgets>> /\ undo[r].phase = "unlock"
    BY <1>12 DEF Unlock, At
  <2>2. undo[r].from \in Database
    BY <2>1 DEF Unlocks, Unlocking
  <2> DEFINE d == undo[r].from
             open == Works([at |-> d, key |-> undo[r].with])
             key == db[d].key + 1
             q == IF open THEN [db[d] EXCEPT !.readOnly = FALSE] ELSE [db[d] EXCEPT !.key = key]
             u == IF open THEN [undo[r] EXCEPT !.phase = "release", !.with = 0, !.from = None]
                          ELSE [undo[r] EXCEPT !.phase = "unlock-store", !.with = 0, !.key = key]
  <2>3. db' = [db EXCEPT ![d] = q] /\ undo' = [undo EXCEPT ![r] = u]
    BY <1>12 DEF Unlock
  <2>4. db[d] \in ADatabase /\ key \in Nat
    BY <1>0, <2>2 DEF PlacesTyped, ADatabase
  <2> HIDE DEF open, key
  <2>5. /\ q \in ADatabase /\ q.rows = db[d].rows /\ q.born = db[d].born /\ q.alive = db[d].alive
    BY <2>4 DEF ADatabase
  <2>6. /\ {"release", "unlock-store"} \subseteq Phase \cap Undoing
        /\ {"unlock", "unlock-store"} \subseteq Unlocking \cap Releasing
        /\ "release" \notin Unlocking
    BY Names DEF Releasing, Unlocking
  <2>7. /\ u \in AnUndo /\ u.phase \in {"release", "unlock-store"} /\ u.of = undo[r].of
        /\ u.target = undo[r].target /\ (u.phase = "unlock-store" => u.from = undo[r].from)
    BY <1>0, <2>4, <2>6 DEF AnUndo
  <2> HIDE DEF q, u
  <2>8. PlacesBack
    BY <2>1, <2>2, <2>3, <2>5, <2>6, OnePlaceChanges DEF PlacesBack
  <2>9. Undos
    BY <1>4, <2>1, <2>3, <2>6, <2>7
  <2>10. QED
    BY <1>7, <1>9, <2>1, <2>8, <2>9
<1>13. CASE UnlockStores(r)
  <2>1. UNCHANGED <<db, move, flow, writer, written, budgets>> /\ undo[r].phase = "unlock-store"
    BY <1>13 DEF UnlockStores, At
  <2>2. CASE AtSource(undo[r].of)
    <3> DEFINE u == [undo[r] EXCEPT !.phase = "unlock-again"]
    <3>1. workspace' = [workspace EXCEPT !.key = undo[r].key] /\ undo' = [undo EXCEPT ![r] = u]
      BY <1>13, <2>2 DEF UnlockStores
    <3>2. /\ "unlock-again" \in Phase \cap Undoing
          /\ {"unlock-again", "unlock-store"} \subseteq Unlocking \cap Releasing
      BY Names DEF Releasing, Unlocking
    <3>3. /\ u \in AnUndo /\ u.phase = "unlock-again" /\ u.of = undo[r].of
          /\ u.target = undo[r].target /\ u.from = undo[r].from
      BY <1>0, <3>2 DEF AnUndo
    <3>4. undo[r].key \in Nat
      BY <1>0 DEF AnUndo
    <3>5. workspace' \in AUrl /\ workspace'.at = workspace.at
      BY <1>0, <3>1, <3>4 DEF PlacesTyped, AUrl
    <3> HIDE DEF u
    <3>6. PlacesBack
      BY <2>1, <3>5, PlacesStay DEF PlacesBack
    <3>7. Undos
      BY <1>4, <2>1, <3>1, <3>2, <3>3
    <3>8. QED
      BY <1>7, <1>9, <2>1, <3>6, <3>7
  <2>3. CASE ~AtSource(undo[r].of)
    <3>1. Troubled(r, "release") /\ UNCHANGED workspace
      BY <1>13, <2>3 DEF UnlockStores
    <3>2. QED
      BY <1>6, <1>7, <1>8, <1>9, <2>1, <3>1 DEF Unlocking
  <2>4. QED
    BY <2>2, <2>3
<1>14. CASE UnlockAgain(r)
  <2>1. UNCHANGED <<workspace, move, flow, writer, written, budgets>> /\ undo[r].phase = "unlock-again"
    BY <1>14 DEF UnlockAgain, At
  <2>2. CASE Works([at |-> undo[r].from, key |-> undo[r].key])
    <3> DEFINE d == undo[r].from
               q == [db[d] EXCEPT !.readOnly = FALSE]
               u == [undo[r] EXCEPT !.phase = "release", !.from = None, !.key = 0]
    <3>1. db' = [db EXCEPT ![d] = q] /\ undo' = [undo EXCEPT ![r] = u]
      BY <1>14, <2>2 DEF UnlockAgain
    <3>2. d \in Database
      BY <2>1 DEF Unlocks, Unlocking
    <3>3. q \in ADatabase /\ q.rows = db[d].rows /\ q.born = db[d].born /\ q.alive = db[d].alive
      BY <1>0, <3>2 DEF PlacesTyped, ADatabase
    <3>4. /\ "release" \in Phase \cap Undoing /\ "unlock-again" \in Unlocking \cap Releasing
          /\ "release" \notin Unlocking
      BY Names DEF Releasing, Unlocking
    <3>5. u \in AnUndo /\ u.phase = "release" /\ u.of = undo[r].of /\ u.target = undo[r].target
      BY <1>0, <3>4 DEF AnUndo
    <3> HIDE DEF u, q
    <3>6. PlacesBack
      BY <2>1, <3>1, <3>2, <3>3, <3>4, OnePlaceChanges DEF PlacesBack
    <3>7. Undos
      BY <1>4, <2>1, <3>1, <3>4, <3>5
    <3>8. QED
      BY <1>7, <1>9, <2>1, <3>6, <3>7
  <2>3. CASE ~Works([at |-> undo[r].from, key |-> undo[r].key])
    <3>1. Troubled(r, "release") /\ UNCHANGED db
      BY <1>14, <2>3 DEF UnlockAgain
    <3>2. QED
      BY <1>6, <1>7, <1>8, <1>9, <2>1, <3>1 DEF Unlocking
  <2>4. QED
    BY <2>2, <2>3
<1>15. CASE ReleaseTarget(r)
  <2>1. UNCHANGED <<workspace, move, flow, writer, written, budgets>> /\ undo[r].phase = "release"
    BY <1>15 DEF ReleaseTarget, At
  <2>2. PICK phase \in {"close", "release-mark"} : undo' = [undo EXCEPT ![r].phase = phase]
    BY <1>15 DEF ReleaseTarget
  <2> DEFINE u == [undo[r] EXCEPT !.phase = phase]
  <2>3. phase \in Phase /\ phase \in Undoing /\ phase \notin Releasing /\ phase \notin Unlocking
    BY Names DEF Releasing, Unlocking
  <2>4. u \in AnUndo /\ u.phase = phase /\ u.of = undo[r].of
    BY <1>0, <2>3 DEF AnUndo
  <2>5. undo' = [undo EXCEPT ![r] = u]
    BY <2>2
  <2> HIDE DEF u
  <2>6. Undos
    BY <1>4, <2>1, <2>3, <2>4, <2>5
  <2>7. CASE UNCHANGED db
    BY <1>7, <1>8, <1>9, <2>1, <2>6, <2>7
  <2>8. CASE ~UNCHANGED db
    <3> DEFINE d == undo[r].target
               q == [db[d] EXCEPT !.alive = FALSE]
    <3>1. d # None /\ db' = [db EXCEPT ![d] = q]
      BY <1>15, <2>8 DEF ReleaseTarget
    <3>2. d \in Database
      BY <1>0, <3>1, Names DEF AnUndo
    <3>3. q \in ADatabase /\ q.rows = db[d].rows /\ q.born = db[d].born /\ q.readOnly = db[d].readOnly
      BY <1>0, <3>2 DEF PlacesTyped, ADatabase
    <3> HIDE DEF q
    <3>4. PlacesBack
      BY <2>1, <3>1, <3>2, <3>3, OnePlaceChanges DEF PlacesBack
    <3>5. QED
      BY <1>7, <1>9, <2>1, <2>6, <3>4
  <2>9. QED
    BY <2>7, <2>8
<1>16. CASE MarkReleased(r)
  <2>1. /\ UNCHANGED <<workspace, db, flow, writer, written, budgets>> /\ undo[r].phase = "release-mark"
        /\ undo' = [undo EXCEPT ![r].phase = "close"]
    BY <1>16 DEF MarkReleased, At
  <2> DEFINE u == [undo[r] EXCEPT !.phase = "close"]
             m == undo[r].of
             q == [move[m] EXCEPT !.marks = undo[r].marks \cup {"released"}]
  <2>2. "close" \in Phase /\ "close" \in Undoing /\ "close" \notin Releasing /\ "close" \notin Unlocking
    BY Names DEF Releasing, Unlocking
  <2>3. u \in AnUndo /\ u.phase = "close" /\ u.of = undo[r].of /\ undo' = [undo EXCEPT ![r] = u]
    BY <1>0, <2>1, <2>2 DEF AnUndo
  <2> HIDE DEF u
  <2>4. Undos
    BY <1>4, <2>1, <2>2, <2>3
  <2>5. undo[r].marks \cup {"released"} \in Marks
    BY <1>0, Names DEF AnUndo, Mark
  <2>6. /\ q \in AMove /\ q.status = move[m].status /\ q.source = move[m].source
        /\ q.target = move[m].target /\ q.cancelled = move[m].cancelled
        /\ q.unstarted = move[m].unstarted
    BY <1>0, <1>2, <2>5 DEF AMove
  <2>7. move' = [move EXCEPT ![m] = q]
    BY <1>16 DEF MarkReleased
  <2> HIDE DEF q
  <2>8. RowsOver
    BY <1>0, <1>2, <2>6, <2>7 DEF RowsOver, RowsGetOver, MovesTyped
  <2>9. QED
    BY <1>8, <1>9, <2>1, <2>4, <2>8
<1>17. CASE Close(r)
  <2>1. UNCHANGED <<workspace, db, writer, written>> /\ BudgetsTyped'
    <3>1. /\ UNCHANGED <<workspace, db, writer, written, cancels, recovers>>
          /\ failures' = failures \/ (failures < MaxFailures /\ failures' = failures + 1)
      BY <1>17 DEF Close
    <3>2. QED
      BY <3>1, Bounds DEF Typed, BudgetsTyped
  <2>2. CASE undo[r].problem
    <3>1. Throws(r) /\ UNCHANGED move
      BY <1>17, <2>2 DEF Close
    <3>2. QED
      BY <1>5, <1>7, <1>8, <2>1, <3>1
  <2>3. CASE ~undo[r].problem
    <3> DEFINE m == undo[r].of
               status == IF move[m].status = "completed" THEN move[m].status ELSE undo[r].outcome
               q == [move[m] EXCEPT !.status = status]
    <3>1. move' = [move EXCEPT ![m] = q] /\ (Ends(r, "done") \/ Throws(r))
      BY <1>17, <2>3 DEF Close
    <3>2. undo[r].outcome \in Outcome /\ Outcome \subseteq Status
      BY <1>0, Names DEF AnUndo
    <3>3. /\ status \in Status
          /\ status = move[m].status \/ (move[m].status # "completed" /\ status \in Outcome)
      BY <1>0, <1>2, <3>2 DEF AMove
    <3> HIDE DEF status
    <3>4. /\ q \in AMove /\ q.status = status /\ q.source = move[m].source
          /\ q.target = move[m].target /\ q.cancelled = move[m].cancelled
          /\ q.unstarted = move[m].unstarted
      BY <1>0, <1>2, <3>3 DEF AMove
    <3> HIDE DEF q
    <3>5. RowsOver
      BY <1>0, <1>2, <3>1, <3>3, <3>4 DEF RowsOver, RowsGetOver, MovesTyped
    <3>6. QED
      BY <1>3, <1>5, <1>8, <2>1, <3>1, <3>5
  <2>4. QED
    BY <2>2, <2>3
<1>18. CASE UndoFails(r)
  <2>1. /\ UNCHANGED <<workspace, db, move, writer, written, cancels, recovers>>
        /\ failures < MaxFailures /\ failures' = failures + 1
    BY <1>18 DEF UndoFails
  <2>2. BudgetsTyped'
    BY <2>1, Bounds DEF Typed, BudgetsTyped
  <2>3. Undos
    <3>1. CASE undo[r].phase \in {"unlock", "unlock-store", "unlock-again"} /\ Troubled(r, "release") /\ UNCHANGED flow
      BY <1>6, <3>1 DEF Unlocking
    <3>2. CASE undo[r].phase \in {"release", "release-mark"} /\ Troubled(r, "close") /\ UNCHANGED flow
      BY <1>6, <3>2
    <3>3. CASE Throws(r)
      BY <1>5, <3>3
    <3>4. QED
      BY <1>18, <3>1, <3>2, <3>3 DEF UndoFails
  <2>4. QED
    BY <1>7, <1>8, <2>1, <2>2, <2>3
<1>19. QED
  BY <1>10, <1>11, <1>12, <1>13, <1>14, <1>15, <1>16, <1>17, <1>18 DEF UndoStep

-----------------------------------------------------------------------------
(* The routes, the sweep and the writers.                                  *)

SameRowBut(m) == \A o \in Move \ {m} : move'[o] = move[o]

(* The source of a move that is asked for is where the workspace is.       *)
LEMMA AskGoes ==
    ASSUME Typed, NEW m \in Move, Ask(m)
    PROVE  /\ Typed' /\ SameRowBut(m) /\ UNCHANGED <<workspace, db, flow, undo, writer, written>>
           /\ move[m].status = "none" /\ move'[m].status = "asked" /\ move'[m].source = workspace.at
           /\ move'[m].target = move[m].target /\ move'[m].cancelled = move[m].cancelled
           /\ move'[m].unstarted = move[m].unstarted
<1> DEFINE q == [move[m] EXCEPT !.status = "asked", !.source = workspace.at]
<1>1. workspace.at \in Database /\ "asked" \in Status /\ move[m] \in AMove
  BY Names DEF Typed, PlacesTyped, AUrl, MovesTyped
<1>2. /\ q \in AMove /\ q.status = "asked" /\ q.source = workspace.at /\ q.target = move[m].target
      /\ q.cancelled = move[m].cancelled /\ q.unstarted = move[m].unstarted
  BY <1>1 DEF AMove
<1>3. move' = [move EXCEPT ![m] = q] /\ UNCHANGED <<workspace, db, flow, undo, writer, written, budgets>>
  BY DEF Ask
<1> HIDE DEF q
<1>4. move[m].status = "none"
  BY DEF Ask
<1>5. QED
  BY <1>2, <1>3, <1>4 DEF Typed, PlacesTyped, MovesTyped, WritersTyped, BudgetsTyped, budgets, SameRowBut

(* A move that is started is queued, with a workflow or without.           *)
LEMMA StartGoes ==
    ASSUME Typed, NEW m \in Move, Start(m)
    PROVE  /\ Typed' /\ SameRowBut(m) /\ UNCHANGED <<workspace, db, undo, writer, written>>
           /\ move[m].status = "asked" /\ move'[m].status = "queued"
           /\ move'[m].source = move[m].source /\ move'[m].target = move[m].target
           /\ move'[m].cancelled = move[m].cancelled
           /\ \A o \in Move \ {m} : flow'[o] = flow[o]
           /\ flow'[m].step \in {"begin", "dead"} /\ flow'[m].made = flow[m].made
           /\ \A o \in Move : move[o].status \notin Active
           /\ Overlap \/ NobodyActs
<1>1. PICK b \in BOOLEAN, step \in {"begin", "dead"} :
          /\ move' = [move EXCEPT ![m].status = "queued", ![m].unstarted = b]
          /\ flow' = [flow EXCEPT ![m].step = step]
          /\ failures' = failures \/ (failures < MaxFailures /\ failures' = failures + 1)
  <2>1. CASE move' = [move EXCEPT ![m].status = "queued"]
    <3>1. move' = [move EXCEPT ![m].status = "queued", ![m].unstarted = move[m].unstarted]
      BY <2>1 DEF Typed, MovesTyped, AMove
    <3>2. move[m].unstarted \in BOOLEAN
      BY DEF Typed, MovesTyped, AMove
    <3>3. /\ failures' = failures \/ (failures < MaxFailures /\ failures' = failures + 1)
          /\ \E step \in {"begin", "dead"} : flow' = [flow EXCEPT ![m].step = step]
      BY DEF Start
    <3>4. QED
      BY <3>1, <3>2, <3>3
  <2>2. CASE ~(move' = [move EXCEPT ![m].status = "queued"])
    BY <2>2 DEF Start
  <2>3. QED
    BY <2>1, <2>2
<1>2. /\ "queued" \in Status /\ step \in Place /\ move[m] \in AMove /\ flow[m] \in AFlow
  BY DEF Typed, MovesTyped, Status, Active, Cancellable, Place, Step
<1> DEFINE q == [move[m] EXCEPT !.status = "queued", !.unstarted = b]
           f == [flow[m] EXCEPT !.step = step]
<1>3. /\ q \in AMove /\ q.status = "queued" /\ q.source = move[m].source /\ q.target = move[m].target
      /\ q.cancelled = move[m].cancelled
  BY <1>2 DEF AMove
<1>4. f \in AFlow
  BY <1>2, ThenTyped
<1>5. f.step = step /\ f.made = flow[m].made
  BY <1>2 DEF AFlow
<1>6. move' = [move EXCEPT ![m] = q] /\ flow' = [flow EXCEPT ![m] = f]
  BY <1>1
<1>7. UNCHANGED <<workspace, db, undo, writer, written, cancels, recovers>> /\ move[m].status = "asked"
      /\ (\A o \in Move : move[o].status \notin Active) /\ (Overlap \/ NobodyActs)
  BY DEF Start
<1> HIDE DEF q, f
<1>8. BudgetsTyped'
  BY <1>1, <1>7, Bounds DEF Typed, BudgetsTyped
<1>9. QED
  BY <1>3, <1>4, <1>5, <1>6, <1>7, <1>8 DEF Typed, PlacesTyped, MovesTyped, WritersTyped, SameRowBut

(* A start that failed closes the row, and so ...                          *)
LEMMA CloseGoes ==
    ASSUME Typed, NEW m \in Move, CloseUnstarted(m)
    PROVE  /\ Typed' /\ SameRowBut(m) /\ UNCHANGED <<workspace, db, flow, undo, writer, written>>
           /\ move[m].unstarted /\ move'[m].status = "failed" /\ ~move'[m].unstarted
           /\ move'[m].source = move[m].source /\ move'[m].target = move[m].target
           /\ move'[m].cancelled = move[m].cancelled
<1> DEFINE q == [move[m] EXCEPT !.status = "failed", !.unstarted = FALSE]
<1>1. "failed" \in Status /\ move[m] \in AMove
  BY DEF Typed, MovesTyped, Status, Over
<1>2. /\ q \in AMove /\ q.status = "failed" /\ q.source = move[m].source /\ q.target = move[m].target
      /\ q.cancelled = move[m].cancelled /\ ~q.unstarted
  BY <1>1 DEF AMove
<1>3. /\ move' = [move EXCEPT ![m] = q] /\ UNCHANGED <<workspace, db, flow, undo, writer, written, budgets>>
      /\ move[m].unstarted
  BY DEF CloseUnstarted
<1> HIDE DEF q
<1>4. QED
  BY <1>2, <1>3 DEF Typed, PlacesTyped, MovesTyped, WritersTyped, BudgetsTyped, budgets, SameRowBut

(* ... does a cancel mark it.                                              *)
LEMMA CancelGoes ==
    ASSUME Typed, NEW m \in Move, Cancel(m)
    PROVE  /\ Typed' /\ SameRowBut(m) /\ UNCHANGED <<workspace, db, flow, undo, writer, written>>
           /\ move[m].status \in Cancellable /\ move'[m].status = "cancelling" /\ move'[m].cancelled
           /\ move'[m].source = move[m].source /\ move'[m].target = move[m].target
           /\ move'[m].unstarted = move[m].unstarted
<1> DEFINE q == [move[m] EXCEPT !.status = "cancelling", !.cancelled = TRUE]
<1>1. "cancelling" \in Status /\ move[m] \in AMove
  BY DEF Typed, MovesTyped, Status, Active
<1>2. /\ q \in AMove /\ q.status = "cancelling" /\ q.source = move[m].source /\ q.target = move[m].target
      /\ q.cancelled /\ q.unstarted = move[m].unstarted
  BY <1>1 DEF AMove
<1>3. /\ move' = [move EXCEPT ![m] = q]
      /\ UNCHANGED <<workspace, db, flow, undo, writer, written, failures, recovers>>
      /\ move[m].status \in Cancellable /\ cancels < MaxCancels /\ cancels' = cancels + 1
  BY DEF Cancel
<1> HIDE DEF q
<1>4. BudgetsTyped'
  BY <1>3, Bounds DEF Typed, BudgetsTyped
<1>5. QED
  BY <1>2, <1>3, <1>4 DEF Typed, PlacesTyped, MovesTyped, WritersTyped, SameRowBut

(* A recovery is an undo of the administrator's, of a move in the table.   *)
LEMMA RecoverGoes ==
    ASSUME Typed, NEW m \in Move, Recover(m)
    PROVE  /\ Typed' /\ UNCHANGED <<workspace, db, move, flow, writer, written>>
           /\ \A r \in Runner \ {Admin} : undo'[r] = undo[r]
           /\ undo'[Admin].phase = "load" /\ undo'[Admin].of = m
           /\ move[m].status \notin {"none", "asked"}
<1> DEFINE outcome == IF move[m].cancelled \/ move[m].status = "cancelled" THEN "cancelled" ELSE "failed"
           u == [Idle EXCEPT !.phase = "load", !.of = m, !.outcome = outcome]
<1>1. outcome \in Outcome
  BY Names
<1>2. /\ undo' = [undo EXCEPT ![Admin] = u] /\ UNCHANGED <<workspace, db, move, flow, writer, written, failures, cancels>>
      /\ recovers < MaxRecovers /\ recovers' = recovers + 1
  BY DEF Recover
<1>3. move[m].status \notin {"none", "asked"}
  BY Names DEF Recover
<1> HIDE DEF outcome
<1>4. u \in AnUndo /\ u.phase = "load" /\ u.of = m
  BY <1>1, NewTyped, Names DEF Idle, AnUndo
<1> HIDE DEF u
<1>5. BudgetsTyped'
  BY <1>2, Bounds DEF Typed, BudgetsTyped
<1>6. QED
  BY <1>2, <1>3, <1>4, <1>5, Names DEF Typed, PlacesTyped, MovesTyped, WritersTyped

(* The sweep drops one database, where the workspace is not.               *)
LEMMA DropGoes ==
    ASSUME Typed, Started, NEW m \in Move, DropRetained(m)
    PROVE  /\ Typed' /\ UNCHANGED <<workspace, move, flow, undo, writer, written>>
           /\ move[m].status = "completed" /\ move[m].source # workspace.at
           /\ \A d \in Database :
                  /\ db'[d].rows = db[d].rows /\ db'[d].born = db[d].born
                  /\ db'[d].readOnly = db[d].readOnly
                  /\ d # move[m].source => db'[d].alive = db[d].alive
<1> DEFINE d == move[m].source
           q == [db[d] EXCEPT !.alive = FALSE]
<1>1. /\ move[m].status = "completed" /\ d # workspace.at /\ db' = [db EXCEPT ![d] = q]
      /\ UNCHANGED <<workspace, move, flow, undo, writer, written, budgets>>
  BY DEF DropRetained, StillInUse
<1>2. d \in Database /\ db[d] \in ADatabase
  BY <1>1 DEF Typed, PlacesTyped, Started
<1>3. /\ q \in ADatabase /\ q.rows = db[d].rows /\ q.born = db[d].born /\ q.readOnly = db[d].readOnly
  BY <1>2 DEF ADatabase
<1> HIDE DEF q
<1>4. QED
  BY <1>1, <1>2, <1>3 DEF Typed, PlacesTyped, MovesTyped, WritersTyped, BudgetsTyped, budgets

(* A client resolves the workspace, connects and writes.                   *)
SameWriterBut(w) == \A v \in Writer \ {w} : writer'[v] = writer[v]

(* It resolves it, ...                                                     *)
LEMMA ResolveGoes ==
    ASSUME Typed, NEW w \in Writer, Resolve(w)
    PROVE  /\ Typed' /\ SameWriterBut(w) /\ UNCHANGED <<workspace, db, move, flow, undo, written>>
           /\ writer[w].phase = "idle"
           /\ writer'[w].phase = "resolved" /\ writer'[w].at = workspace.at
<1> DEFINE q == [phase |-> "resolved", at |-> workspace.at, key |-> workspace.key]
<1>1. q \in AWriter /\ q.phase = "resolved" /\ q.at = workspace.at
  BY DEF Typed, PlacesTyped, AUrl, AWriter, Holding
<1>2. /\ writer' = [writer EXCEPT ![w] = q] /\ UNCHANGED <<workspace, db, move, flow, undo, written, budgets>>
      /\ writer[w].phase = "idle"
  BY DEF Resolve
<1> HIDE DEF q
<1>3. QED
  BY <1>1, <1>2 DEF Typed, PlacesTyped, MovesTyped, WritersTyped, BudgetsTyped, budgets, SameWriterBut

(* ... connects, unless the database only lets it read, ...                *)
LEMMA ConnectGoes ==
    ASSUME Typed, NEW w \in Writer, Connect(w)
    PROVE  /\ Typed' /\ SameWriterBut(w) /\ UNCHANGED <<workspace, db, move, flow, undo, written>>
           /\ writer[w].phase = "resolved"
           /\ \/ writer'[w].phase = "idle"
              \/ writer'[w].phase = "connected" /\ writer'[w].at = writer[w].at /\ ~db[writer[w].at].readOnly
<1> DEFINE url == [at |-> writer[w].at, key |-> writer[w].key]
           open == Works(url) /\ ~db[url.at].readOnly
           q == IF open THEN [phase |-> "connected", at |-> url.at, key |-> 0]
                        ELSE [phase |-> "idle", at |-> None, key |-> 0]
<1>1. open => ~db[writer[w].at].readOnly
  OBVIOUS
<1>2. /\ writer' = [writer EXCEPT ![w] = q] /\ UNCHANGED <<workspace, db, move, flow, undo, written, budgets>>
      /\ writer[w].phase = "resolved"
  BY DEF Connect
<1>3. writer[w].at \in Database \cup {None}
  BY DEF Typed, WritersTyped, AWriter
<1> HIDE DEF open
<1>4. q \in AWriter
  BY <1>3 DEF AWriter, Holding
<1>5. (~open /\ q.phase = "idle") \/ (open /\ q.phase = "connected" /\ q.at = writer[w].at)
  OBVIOUS
<1> HIDE DEF q
<1>6. QED
  BY <1>1, <1>2, <1>4, <1>5 DEF Typed, PlacesTyped, MovesTyped, WritersTyped, BudgetsTyped, budgets, SameWriterBut

(* ... and writes.                                                         *)
LEMMA WriteGoes ==
    ASSUME Typed, NEW w \in Writer, Write(w), writer[w].at \in Database
    PROVE  /\ Typed' /\ SameWriterBut(w) /\ UNCHANGED <<workspace, move, flow, undo>>
           /\ writer[w].phase = "connected" /\ writer'[w].phase = "done"
           /\ written' = written \cup {w}
           /\ db'[writer[w].at].rows = db[writer[w].at].rows \cup {w}
           /\ \A d \in Database :
                  /\ db'[d].alive = db[d].alive /\ db'[d].born = db[d].born
                  /\ db'[d].readOnly = db[d].readOnly
                  /\ d # writer[w].at => db'[d].rows = db[d].rows
<1> DEFINE d == writer[w].at
           q == [db[d] EXCEPT !.rows = db[d].rows \cup {w}]
           u == [phase |-> "done", at |-> None, key |-> 0]
<1>1. /\ db' = [db EXCEPT ![d] = q] /\ writer' = [writer EXCEPT ![w] = u]
      /\ written' = written \cup {w} /\ UNCHANGED <<workspace, move, flow, undo, budgets>>
      /\ writer[w].phase = "connected"
  BY DEF Write
<1>2. db[d] \in ADatabase
  BY DEF Typed, PlacesTyped
<1>3. db[d].rows \cup {w} \in Rows /\ written \cup {w} \in Rows
  BY <1>2 DEF ADatabase, Rows, Typed, WritersTyped
<1>4. /\ q \in ADatabase /\ q.rows = db[d].rows \cup {w} /\ q.born = db[d].born
      /\ q.readOnly = db[d].readOnly /\ q.alive = db[d].alive
  BY <1>2, <1>3 DEF ADatabase
<1>5. u \in AWriter /\ u.phase = "done"
  BY DEF AWriter, Holding
<1> HIDE DEF q, u
<1>6. QED
  BY <1>1, <1>3, <1>4, <1>5 DEF Typed, PlacesTyped, MovesTyped, WritersTyped, BudgetsTyped, budgets, SameWriterBut

-----------------------------------------------------------------------------
(* The type invariant.                                                     *)

(* A client that has resolved the workspace knows a database.              *)
Resolved == \A w \in Writer : writer[w].phase \in {"resolved", "connected"} => writer[w].at \in Database

Typing == Typed /\ Started /\ Carried /\ Unlocks /\ Resolved

Flows(m) == FlowStep(m) \/ StepFails(m)
Undoes(r) == UndoStep(r) \/ UndoFails(r)

(* What a step of the system is.                                           *)
LEMMA NextIs ==
    ASSUME Next
    PROVE  \/ \E m \in Move : Flows(m)
           \/ \E r \in Runner : Undoes(r)
           \/ \E m \in Move : \/ Ask(m) \/ Start(m) \/ CloseUnstarted(m) \/ Cancel(m) \/ Recover(m)
                              \/ DropRetained(m)
           \/ \E w \in Writer : Resolve(w) \/ Connect(w) \/ Write(w)
  BY Zenon DEF Next, Flows, Undoes

(* It holds at first, ...                                                  *)
LEMMA TypingAtFirst == Init => Typing
<1> SUFFICES ASSUME Init PROVE Typing
  OBVIOUS
<1>1. PlacesTyped
  <2>1. workspace \in AUrl
    BY Names DEF Init, AUrl
  <2>2. [Unborn EXCEPT !.alive = TRUE, !.born = TRUE] \in ADatabase
    BY NewTyped DEF ADatabase
  <2>3. QED
    BY <2>1, <2>2, NewTyped DEF Init, PlacesTyped
<1>2. MovesTyped
  BY NewTyped DEF Init, MovesTyped
<1>3. WritersTyped
  BY NewTyped, Names DEF Init, WritersTyped
<1>4. BudgetsTyped
  BY Bounds DEF Init, BudgetsTyped
<1>5. \A m \in Move : /\ flow[m].step = "none" /\ flow[m].made = None
                      /\ move[m].status = "none" /\ move[m].target = None
                      /\ ~move[m].unstarted
  BY DEF Init, NewFlow, NewMove
<1>6. \A r \in Runner : undo[r].phase = "idle"
  BY DEF Init, Idle
<1>7. \A r \in Runner : ~Undone(r) /\ undo[r].phase \notin Unlocking
  BY <1>6, Names DEF Undone, Unlocking
<1>8. Started
  BY <1>5, <1>7 DEF Started
<1>9. Carried
  BY <1>5, <1>7, Order, Names DEF Carried
<1>10. Unlocks /\ Resolved
  BY <1>7 DEF Unlocks, Resolved, Init
<1>11. QED
  BY <1>1, <1>2, <1>3, <1>4, <1>8, <1>9, <1>10 DEF Typing, Typed

(* ... and after each step of a workflow, ...                              *)
LEMMA FlowsKeepTyping ==
    ASSUME Typing, NEW m \in Move, Flows(m)
    PROVE  Typing'
<1>1. /\ MovesTyped' /\ Others(m) /\ RowGoesOn(m) /\ TargetGoesOn(m) /\ FlowGoesOn(m)
      /\ PlacesTyped' /\ WritersTyped' /\ BudgetsTyped' /\ PlacesGoOn(m)
  BY FlowGoes, FlowMovesPlaces DEF Typing, Flows
<1>2. flow[m].step \in Step /\ move[m].status \notin {"none", "asked"} /\ move'[m].status \notin {"none", "asked"}
  <2>1. flow[m].step \in Step /\ move[m].status \notin {"none", "asked"}
    BY <1>1, Names DEF FlowGoesOn, Working, Typing, Started
  <2>2. QED
    BY <1>1, <2>1, Names DEF RowGoesOn
<1>3. \/ flow'[m].step = "undo" /\ undo'[m].phase = "load" /\ undo'[m].of = m
      \/ undo' = undo /\ flow'[m].step \in Step \cup {"done"}
  BY <1>1 DEF FlowGoesOn
<1>4. Started'
  <2>1. \A o \in Move : move'[o].status \in {"none", "asked"} => flow'[o].step = "none"
    BY <1>1, <1>2 DEF Typing, Started, Others
  <2>2. \A o \in Move : move'[o].status # "none" => move'[o].source \in Database
    BY <1>1, <1>2 DEF Typing, Started, Others, RowGoesOn
  <2>3. \A o \in Move : move'[o].unstarted => move'[o].status \notin {"none", "asked"}
    BY <1>1, <1>2 DEF Typing, Started, Others
  <2>4. \A r \in Runner :
            Undone(r)' => undo'[r].of \in Move /\ move'[undo'[r].of].status \notin {"none", "asked"}
    <3> SUFFICES ASSUME NEW r \in Runner, Undone(r)'
                 PROVE  undo'[r].of \in Move /\ move'[undo'[r].of].status \notin {"none", "asked"}
      OBVIOUS
    <3>1. CASE undo'[r] = undo[r]
      BY <1>1, <1>2, <3>1 DEF Typing, Started, Others, Undone
    <3>2. CASE undo'[r] # undo[r]
      BY <1>1, <1>2, <1>3, <3>2 DEF Others
    <3>3. QED
      BY <3>1, <3>2
  <2>5. QED
    BY <2>1, <2>2, <2>3, <2>4 DEF Started
<1>5. Carried'
  <2>1. flow'[m].step = "target-made" <=> flow'[m].made # None
    BY <1>1 DEF FlowGoesOn, Turns
  <2>2. flow'[m].made # None => move'[m].target = None
    BY <1>1 DEF TargetGoesOn
  <2>3. flow'[m].step \in WithTarget => move'[m].target # None
    <3> SUFFICES ASSUME flow'[m].step \in WithTarget PROVE move'[m].target # None
      OBVIOUS
    <3>1. flow'[m].step # "target-made"
      BY Order
    <3>2. flow'[m].made = None
      BY <2>1, <3>1
    <3>3. flow[m].step \in WithTarget => move[m].target # None
      BY DEF Typing, Carried
    <3>4. None \notin Target
      BY DistinctNames, Names
    <3>5. QED
      BY <1>1, <3>2, <3>3, <3>4 DEF FlowGoesOn, Turns, TargetGoesOn
  <2>4. flow'[m].step = "undo" <=> Undone(m)'
    <3>1. "load" \in Undoing /\ "undo" \notin Step /\ ~Undone(m)
      BY <1>2, Names DEF Typing, Carried
    <3>2. QED
      BY <1>3, <3>1 DEF Undone
  <2>5. \A o \in Move \ {m} : flow'[o] = flow[o] /\ move'[o] = move[o] /\ Undone(o)' = Undone(o)
    BY <1>1, Names DEF Others, Undone
  <2>6. QED
    BY <2>1, <2>2, <2>3, <2>4, <2>5 DEF Typing, Carried
<1>6. Unlocks'
  <2>1. "load" \notin Unlocking
    BY DEF Unlocking
  <2>2. \A r \in Runner : undo'[r] = undo[r] \/ undo'[r].phase = "load"
    BY <1>1, <1>3 DEF Others
  <2>3. QED
    BY <2>1, <2>2 DEF Typing, Unlocks
<1>7. Resolved'
  BY <1>1 DEF PlacesGoOn, SessionsGoOn, Typing, Resolved
<1>8. QED
  BY <1>1, <1>4, <1>5, <1>6, <1>7 DEF Typing, Typed

(* ... of an undo, ...                                                     *)
LEMMA UndoesKeepTyping ==
    ASSUME Typing, NEW r \in Runner, Undoes(r)
    PROVE  Typing'
<1>1. /\ Typed' /\ UndoGoesOn(r) /\ UndoTurns(r) /\ RowsGetOver(r) /\ PlacesGoBack(r)
  BY UndoGoes DEF Typing, Undoes
<1>2. undo[r].of \in Move /\ move[undo[r].of].status \notin {"none", "asked"}
  BY <1>1 DEF UndoGoesOn, Typing, Started
<1>3. \A o \in Move : move[o].status \notin {"none", "asked"} => move'[o].status \notin {"none", "asked"}
  BY <1>1, Names DEF RowsGetOver
<1>4. r \in Move => flow[r].step = "undo" /\ flow[r].made = None /\ move[r].status \notin {"none", "asked"}
  <2>1. r \in Move => flow[r].step = "undo"
    BY <1>1 DEF UndoGoesOn, Typing, Carried
  <2>2. QED
    BY <2>1 DEF Typing, Carried, Started
<1>5. \A o \in Move : \/ flow'[o] = flow[o]
                      \/ o = r /\ ~Undone(r)' /\ flow'[o].step \in {"done", "dead"} /\ flow'[o].made = None
  BY <1>1, <1>4 DEF UndoGoesOn
<1>6. Started'
  <2>1. \A o \in Move : move'[o].status \in {"none", "asked"} => flow'[o].step = "none"
    <3> SUFFICES ASSUME NEW o \in Move, move'[o].status \in {"none", "asked"} PROVE flow'[o].step = "none"
      OBVIOUS
    <3>1. move[o].status \in {"none", "asked"}
      BY <1>3
    <3>2. o # r /\ flow[o].step = "none"
      BY <1>4, <3>1 DEF Typing, Started
    <3>3. QED
      BY <1>5, <3>2
  <2>2. \A o \in Move : move'[o].status # "none" => move'[o].source \in Database
    BY <1>1, <1>2 DEF RowsGetOver, Typing, Started
  <2>3. \A o \in Move : move'[o].unstarted => move'[o].status \notin {"none", "asked"}
    BY <1>1, <1>3 DEF Typing, Started, RowsGetOver
  <2>4. \A q \in Runner :
            Undone(q)' => undo'[q].of \in Move /\ move'[undo'[q].of].status \notin {"none", "asked"}
    <3> SUFFICES ASSUME NEW q \in Runner, Undone(q)'
                 PROVE  undo'[q].of \in Move /\ move'[undo'[q].of].status \notin {"none", "asked"}
      OBVIOUS
    <3>1. CASE q # r
      <4>1. undo'[q] = undo[q]
        BY <1>1, <3>1 DEF UndoGoesOn
      <4>2. QED
        BY <1>3, <4>1 DEF Typing, Started, Undone
    <3>2. CASE q = r
      <4>1. undo'[r].of = undo[r].of \/ (undo'[r].of = r /\ r \in Move)
        BY <1>1, <3>2 DEF UndoGoesOn
      <4>2. QED
        BY <1>2, <1>3, <1>4, <3>2, <4>1
    <3>3. QED
      BY <3>1, <3>2
  <2>5. QED
    BY <2>1, <2>2, <2>3, <2>4 DEF Started
<1>7. Carried'
  <2>1. \A o \in Move : /\ move'[o].target = move[o].target
                        /\ flow'[o].made = flow[o].made
                        /\ flow'[o].step = flow[o].step \/ (o = r /\ ~Undone(r)' /\ flow'[o].step \in {"done", "dead"})
    BY <1>1, <1>4, <1>5 DEF RowsGetOver
  <2>2. {"done", "dead", "undo"} \cap Step = {} /\ "target-made" \in Step /\ WithTarget \subseteq Step
    BY Names, Order
  <2>3. \A o \in Move : flow'[o].step = "target-made" <=> flow'[o].made # None
    BY <1>4, <2>1, <2>2 DEF Typing, Carried
  <2>4. \A o \in Move : flow'[o].made # None => move'[o].target = None
    BY <2>1 DEF Typing, Carried
  <2>5. \A o \in Move : flow'[o].step \in WithTarget => move'[o].target # None
    BY <2>1, <2>2 DEF Typing, Carried
  <2>6. \A o \in Move : flow'[o].step = "undo" <=> Undone(o)'
    <3> SUFFICES ASSUME NEW o \in Move PROVE flow'[o].step = "undo" <=> Undone(o)'
      OBVIOUS
    <3>1. CASE o # r
      <4>1. flow'[o] = flow[o] /\ undo'[o] = undo[o]
        BY <1>1, <3>1, Names DEF UndoGoesOn
      <4>2. QED
        BY <4>1 DEF Typing, Carried, Undone
    <3>2. CASE o = r
      BY <1>1, <1>4, <3>2 DEF UndoGoesOn
    <3>3. QED
      BY <3>1, <3>2
  <2>7. QED
    BY <2>3, <2>4, <2>5, <2>6 DEF Carried
<1>8. Unlocks'
  <2>1. workspace.at \in Database
    BY DEF Typing, Typed, PlacesTyped, AUrl
  <2>2. \A q \in Runner \ {r} : undo'[q] = undo[q]
    BY <1>1 DEF UndoGoesOn
  <2>3. QED
    BY <1>1, <2>1, <2>2 DEF Typing, Unlocks, UndoTurns
<1>9. Resolved'
  BY <1>1 DEF PlacesGoBack, Typing, Resolved
<1>10. QED
  BY <1>1, <1>6, <1>7, <1>8, <1>9 DEF Typing

(* ... of a route or the sweep, ...                                        *)
LEMMA RoutesKeepTyping ==
    ASSUME Typing, NEW m \in Move,
           Ask(m) \/ Start(m) \/ CloseUnstarted(m) \/ Cancel(m) \/ Recover(m) \/ DropRetained(m)
    PROVE  Typing'
<1>1. CASE Ask(m)
  <2>1. /\ Typed' /\ SameRowBut(m) /\ UNCHANGED <<workspace, db, flow, undo, writer, written>>
        /\ move[m].status = "none" /\ move'[m].status = "asked" /\ move'[m].source = workspace.at
        /\ move'[m].target = move[m].target
        /\ move'[m].unstarted = move[m].unstarted
    BY <1>1, AskGoes DEF Typing
  <2>2. flow[m].step = "none" /\ workspace.at \in Database
    BY <2>1 DEF Typing, Started, Typed, PlacesTyped, AUrl
  <2>3. Started'
    <3>1. ~move'[m].unstarted
      BY <2>1 DEF Typing, Started
    <3>2. QED
      BY <2>1, <2>2, <3>1 DEF Typing, Started, SameRowBut, Undone
  <2>4. Carried'
    BY <2>1 DEF Typing, Carried, SameRowBut, Undone
  <2>5. QED
    BY <2>1, <2>3, <2>4 DEF Typing, Unlocks, Resolved
<1>2. CASE Start(m)
  <2>1. /\ Typed' /\ SameRowBut(m) /\ UNCHANGED <<workspace, db, undo, writer, written>>
        /\ move[m].status = "asked" /\ move'[m].status = "queued"
        /\ move'[m].source = move[m].source /\ move'[m].target = move[m].target
        /\ \A o \in Move \ {m} : flow'[o] = flow[o]
        /\ flow'[m].step \in {"begin", "dead"} /\ flow'[m].made = flow[m].made
    BY <1>2, StartGoes DEF Typing
  <2>2. flow[m].step = "none" /\ flow[m].made = None
    BY <2>1 DEF Typing, Started, Carried
  <2>3. Started'
    BY <2>1, <2>2 DEF Typing, Started, SameRowBut, Undone
  <2>4. ~Undone(m)
    BY <2>2 DEF Typing, Carried
  <2>5. flow'[m].step \notin WithTarget /\ flow'[m].step \notin {"target-made", "undo"}
    BY <2>1, Order, Names
  <2>6. Carried'
    BY <2>1, <2>2, <2>4, <2>5 DEF Typing, Carried, SameRowBut, Undone
  <2>7. QED
    BY <2>1, <2>3, <2>6 DEF Typing, Unlocks, Resolved
<1>3. CASE CloseUnstarted(m)
  <2>1. /\ Typed' /\ SameRowBut(m) /\ UNCHANGED <<workspace, db, flow, undo, writer, written>>
        /\ move[m].unstarted /\ move'[m].status = "failed"
        /\ move'[m].source = move[m].source /\ move'[m].target = move[m].target
    BY <1>3, CloseGoes DEF Typing
  <2>2. Started'
    BY <2>1 DEF Typing, Started, SameRowBut, Undone
  <2>3. Carried'
    BY <2>1 DEF Typing, Carried, SameRowBut, Undone
  <2>4. QED
    BY <2>1, <2>2, <2>3 DEF Typing, Unlocks, Resolved
<1>4. CASE Cancel(m)
  <2>1. /\ Typed' /\ SameRowBut(m) /\ UNCHANGED <<workspace, db, flow, undo, writer, written>>
        /\ move[m].status \in Cancellable /\ move'[m].status = "cancelling"
        /\ move'[m].source = move[m].source /\ move'[m].target = move[m].target
    BY <1>4, CancelGoes DEF Typing
  <2>2. move[m].status \notin {"none", "asked"}
    BY <2>1, Names
  <2>3. Started'
    BY <2>1, <2>2 DEF Typing, Started, SameRowBut, Undone
  <2>4. Carried'
    BY <2>1 DEF Typing, Carried, SameRowBut, Undone
  <2>5. QED
    BY <2>1, <2>3, <2>4 DEF Typing, Unlocks, Resolved
<1>5. CASE Recover(m)
  <2>1. /\ Typed' /\ UNCHANGED <<workspace, db, move, flow, writer, written>>
        /\ \A r \in Runner \ {Admin} : undo'[r] = undo[r]
        /\ undo'[Admin].phase = "load" /\ undo'[Admin].of = m
        /\ move[m].status \notin {"none", "asked"}
    BY <1>5, RecoverGoes DEF Typing
  <2>2. "load" \notin Unlocking /\ Admin \notin Move
    BY DistinctNames DEF Unlocking
  <2>3. Started'
    BY <2>1, Zenon DEF Typing, Started, Undone
  <2>4. Carried'
    BY <2>1, <2>2, Names DEF Typing, Carried, Undone
  <2>5. Unlocks' /\ Resolved'
    BY <2>1, <2>2 DEF Typing, Unlocks, Resolved
  <2>6. QED
    BY <2>1, <2>3, <2>4, <2>5 DEF Typing
<1>6. CASE DropRetained(m)
  <2>1. Typed' /\ UNCHANGED <<workspace, move, flow, undo, writer, written>>
    BY <1>6, DropGoes DEF Typing
  <2>2. QED
    BY <2>1 DEF Typing, Started, Carried, Unlocks, Resolved, Undone
<1>7. QED
  BY <1>1, <1>2, <1>3, <1>4, <1>5, <1>6

(* ... and of a client.                                                    *)
LEMMA WritersKeepTyping ==
    ASSUME Typing, NEW w \in Writer, Resolve(w) \/ Connect(w) \/ Write(w)
    PROVE  Typing'
<1>1. Typed' /\ SameWriterBut(w) /\ UNCHANGED <<workspace, move, flow, undo>>
      /\ \/ writer'[w].phase \in {"idle", "done"}
         \/ writer'[w].phase \in {"resolved", "connected"} /\ writer'[w].at \in Database
  <2>1. CASE Resolve(w)
    BY <2>1, ResolveGoes DEF Typing, Typed, PlacesTyped, AUrl
  <2>2. CASE Connect(w)
    BY <2>2, ConnectGoes DEF Typing, Resolved
  <2>3. CASE Write(w)
    <3>1. writer[w].at \in Database
      BY <2>3 DEF Write, Typing, Resolved
    <3>2. QED
      BY <2>3, <3>1, WriteGoes DEF Typing
  <2>4. QED
    BY <2>1, <2>2, <2>3
<1>2. Started' /\ Carried' /\ Unlocks'
  BY <1>1 DEF Typing, Started, Carried, Unlocks, Undone
<1>3. Resolved'
  BY <1>1 DEF Typing, Resolved, SameWriterBut
<1>4. QED
  BY <1>1, <1>2, <1>3 DEF Typing

(* It stays where nothing happens, too.                                    *)
LEMMA TypingKept == Typing /\ [Next]_vars => Typing'
<1>1. ASSUME Typing, UNCHANGED vars PROVE Typing'
  BY <1>1 DEF vars, budgets, Typing, Typed, PlacesTyped, MovesTyped, WritersTyped, BudgetsTyped, Started,
              Carried, Unlocks, Resolved, Undone
<1>2. ASSUME Typing, Next PROVE Typing'
  BY <1>2, NextIs, FlowsKeepTyping, UndoesKeepTyping, RoutesKeepTyping, WritersKeepTyping
<1>3. QED
  BY <1>1, <1>2

(* TypeOK: whatever is cancelled, recovered or fails, and in whatever      *)
(* order, the rows, the workflows, the undoings and the connections are    *)
(* what the code takes them for, and a workflow is at its undo exactly     *)
(* while that runs.                                                        *)
THEOREM TypeCorrect == Spec => []TypeOK
<1>1. Spec => []Typing
  BY TypingAtFirst, TypingKept, PTL DEF Spec
<1>2. Typing => TypeOK
  BY TypeParts DEF Typing, Carried
<1>3. QED
  BY <1>1, <1>2, PTL

-----------------------------------------------------------------------------
(* A cancel that was accepted.                                             *)

(* A cancelled move is being undone or is over, but has not completed.     *)
Cancels == \A m \in Move : move[m].cancelled => move[m].status \in {"cancelling", "failed", "cancelled"}

(* No database is the target of two moves, nor one that is about to be.    *)
Targets ==
    /\ \A m \in Move : move[m].target # None => db[move[m].target].born
    /\ \A m \in Move : flow[m].made # None => db[flow[m].made].born
    /\ \A m, o \in Move : move[m].target # None /\ move[m].target = move[o].target => m = o
    /\ \A m, o \in Move : flow[m].made # None => flow[m].made # move[o].target
    /\ \A m, o \in Move : flow[m].made # None /\ flow[m].made = flow[o].made => m = o

(* Nothing that counts for targets changes.                                *)
LEMMA TargetsStay ==
    ASSUME Typing, Targets, \A d \in Database : db[d].born => db'[d].born,
           \A m \in Move : move'[m].target = move[m].target /\ flow'[m].made = flow[m].made
    PROVE  Targets'
<1>1. \A m \in Move : move[m].target \in Target \cup {None} /\ flow[m].made \in Target \cup {None}
  BY DEF Typing, Typed, MovesTyped, AMove, AFlow
<1>2. \A m \in Move : /\ move[m].target # None => move[m].target \in Database
                      /\ flow[m].made # None => flow[m].made \in Database
  BY <1>1, Names
<1>3. QED
  BY <1>2 DEF Targets

(* A workflow's step.                                                      *)
LEMMA FlowsKeepTargets ==
    ASSUME Typing, Targets, NEW m \in Move, Flows(m)
    PROVE  Targets'
<1>1. /\ Others(m) /\ TargetGoesOn(m) /\ PlacesGoOn(m)
  BY FlowGoes, FlowMovesPlaces DEF Typing, Flows
<1>2. \A o \in Move : /\ move[o].target # None => move[o].target \in Database
                      /\ flow[o].made # None => flow[o].made \in Database
  BY Names DEF Typing, Typed, MovesTyped, AMove, AFlow
<1>3. \A d \in Database : db[d].born => db'[d].born
  BY <1>1 DEF PlacesGoOn, DatabasesGoOn
<1>4. \A o \in Move \ {m} : move'[o].target = move[o].target /\ flow'[o].made = flow[o].made
  BY <1>1 DEF Others
<1>5. CASE flow'[m].made = None /\ move'[m].target = move[m].target
  BY <1>2, <1>3, <1>4, <1>5 DEF Targets
<1>6. CASE flow'[m].made = None /\ flow[m].made # None /\ move'[m].target = flow[m].made
  <2>1. \A o \in Move : /\ move'[o].target # None => db'[move'[o].target].born
                        /\ flow'[o].made # None => db'[flow'[o].made].born
    BY <1>2, <1>3, <1>4, <1>6 DEF Targets
  <2>2. \A n, o \in Move : move'[n].target # None /\ move'[n].target = move'[o].target => n = o
    BY <1>4, <1>6 DEF Targets
  <2>3. \A n, o \in Move : flow'[n].made # None => flow'[n].made # move'[o].target
    BY <1>4, <1>6 DEF Targets
  <2>4. \A n, o \in Move : flow'[n].made # None /\ flow'[n].made = flow'[o].made => n = o
    BY <1>4, <1>6 DEF Targets
  <2>5. QED
    BY <2>1, <2>2, <2>3, <2>4 DEF Targets
<1>7. CASE /\ flow'[m].made \in Target /\ ~db[flow'[m].made].born /\ db'[flow'[m].made].born
           /\ move[m].target = None /\ move'[m].target = None
  <2>1. \A o \in Move : /\ move[o].target # None => move[o].target # flow'[m].made
                        /\ flow[o].made # None => flow[o].made # flow'[m].made
    BY <1>7 DEF Targets
  <2>2. flow'[m].made # None
    BY <1>7, DistinctNames DEF Database
  <2>3. \A o \in Move : /\ move'[o].target # None => db'[move'[o].target].born
                        /\ flow'[o].made # None => db'[flow'[o].made].born
    BY <1>2, <1>3, <1>4, <1>7 DEF Targets
  <2>4. \A n, o \in Move : move'[n].target # None /\ move'[n].target = move'[o].target => n = o
    BY <1>4, <1>7 DEF Targets
  <2>5. \A n, o \in Move : flow'[n].made # None => flow'[n].made # move'[o].target
    BY <1>4, <1>7, <2>1, <2>2 DEF Targets
  <2>6. \A n, o \in Move : flow'[n].made # None /\ flow'[n].made = flow'[o].made => n = o
    BY <1>4, <1>7, <2>1 DEF Targets
  <2>7. QED
    BY <2>3, <2>4, <2>5, <2>6 DEF Targets
<1>8. QED
  BY <1>1, <1>5, <1>6, <1>7 DEF TargetGoesOn

(* Every step of the system keeps targets apart, ...                       *)
LEMMA TargetsKept == Typing /\ Targets /\ [Next]_vars => Targets'
<1>1. ASSUME Typing, Targets, UNCHANGED vars PROVE Targets'
  BY <1>1 DEF vars, Targets
<1>2. ASSUME Typing, Targets, NEW r \in Runner, Undoes(r) PROVE Targets'
  <2>1. Typed' /\ UndoGoesOn(r) /\ RowsGetOver(r) /\ PlacesGoBack(r)
    BY <1>2, UndoGoes DEF Typing, Undoes
  <2>2. \A m \in Move : flow'[m].made = flow[m].made
    BY <2>1 DEF UndoGoesOn
  <2>3. QED
    BY <1>2, <2>1, <2>2, TargetsStay DEF RowsGetOver, PlacesGoBack
<1>3. ASSUME Typing, Targets, NEW m \in Move,
             Ask(m) \/ Start(m) \/ CloseUnstarted(m) \/ Cancel(m) \/ Recover(m) \/ DropRetained(m)
      PROVE  Targets'
  <2>1. /\ \A d \in Database : db'[d].born = db[d].born
        /\ \A o \in Move : move'[o].target = move[o].target /\ flow'[o].made = flow[o].made
    <3>1. CASE Ask(m)
      BY <1>3, <3>1, AskGoes DEF Typing, SameRowBut
    <3>2. CASE Start(m)
      BY <1>3, <3>2, StartGoes DEF Typing, SameRowBut
    <3>3. CASE CloseUnstarted(m)
      BY <1>3, <3>3, CloseGoes DEF Typing, SameRowBut
    <3>4. CASE Cancel(m)
      BY <1>3, <3>4, CancelGoes DEF Typing, SameRowBut
    <3>5. CASE Recover(m)
      BY <1>3, <3>5, RecoverGoes DEF Typing
    <3>6. CASE DropRetained(m)
      BY <1>3, <3>6, DropGoes DEF Typing
    <3>7. QED
      BY <1>3, <3>1, <3>2, <3>3, <3>4, <3>5, <3>6
  <2>2. QED
    BY <1>3, <2>1, TargetsStay
<1>4. ASSUME Typing, Targets, NEW w \in Writer, Resolve(w) \/ Connect(w) \/ Write(w) PROVE Targets'
  <2>1. UNCHANGED <<move, flow>> /\ \A d \in Database : db'[d].born = db[d].born
    <3>1. CASE Resolve(w)
      BY <1>4, <3>1, ResolveGoes DEF Typing
    <3>2. CASE Connect(w)
      BY <1>4, <3>2, ConnectGoes DEF Typing
    <3>3. CASE Write(w)
      <4>1. writer[w].at \in Database
        BY <1>4, <3>3 DEF Write, Typing, Resolved
      <4>2. QED
        BY <1>4, <3>3, <4>1, WriteGoes DEF Typing
    <3>4. QED
      BY <1>4, <3>1, <3>2, <3>3
  <2>2. QED
    BY <1>4, <2>1, TargetsStay
<1>5. QED
  BY <1>1, <1>2, <1>3, <1>4, FlowsKeepTargets, NextIs

(* ... and leaves a cancelled move cancelled.                              *)
LEMMA CancelsKept == Typing /\ Cancels /\ [Next]_vars => Cancels'
<1>1. ASSUME Typing, Cancels, UNCHANGED vars PROVE Cancels'
  BY <1>1 DEF vars, Cancels
<1>2. ASSUME Typing, Cancels, NEW m \in Move, Flows(m) PROVE Cancels'
  <2>1. Others(m) /\ RowGoesOn(m)
    BY <1>2, FlowGoes DEF Typing, Flows
  <2>2. MaySwitch(m) => ~move[m].cancelled
    BY <1>2 DEF MaySwitch, Cancels
  <2>3. QED
    BY <1>2, <2>1, <2>2 DEF Cancels, Others, RowGoesOn, Live
<1>3. ASSUME Typing, Cancels, NEW r \in Runner, Undoes(r) PROVE Cancels'
  <2>1. RowsGetOver(r)
    BY <1>3, UndoGoes DEF Typing, Undoes
  <2>2. QED
    BY <1>3, <2>1 DEF Cancels, RowsGetOver, Outcome
<1>4. ASSUME Typing, Cancels, NEW m \in Move,
             Ask(m) \/ Start(m) \/ CloseUnstarted(m) \/ Cancel(m) \/ Recover(m) \/ DropRetained(m)
      PROVE  Cancels'
  <2>1. CASE Ask(m)
    BY <1>4, <2>1, AskGoes DEF Typing, SameRowBut, Cancels
  <2>2. CASE Start(m)
    BY <1>4, <2>2, StartGoes DEF Typing, SameRowBut, Cancels
  <2>3. CASE CloseUnstarted(m)
    BY <1>4, <2>3, CloseGoes DEF Typing, SameRowBut, Cancels
  <2>4. CASE Cancel(m)
    BY <1>4, <2>4, CancelGoes DEF Typing, SameRowBut, Cancels
  <2>5. CASE Recover(m) \/ DropRetained(m)
    BY <1>4, <2>5, RecoverGoes, DropGoes DEF Typing, Cancels
  <2>6. QED
    BY <1>4, <2>1, <2>2, <2>3, <2>4, <2>5
<1>5. ASSUME Typing, Cancels, NEW w \in Writer, Resolve(w) \/ Connect(w) \/ Write(w) PROVE Cancels'
  BY <1>5 DEF Cancels, Resolve, Connect, Write
<1>6. QED
  BY <1>1, <1>2, <1>3, <1>4, <1>5, NextIs

(* At first there is neither.                                              *)
LEMMA TargetsAtFirst == Init => Targets /\ Cancels
  BY DEF Init, Targets, Cancels, NewMove, NewFlow

(* Only the last step of a workflow points the workspace elsewhere.        *)
LEMMA OnlySwitches ==
    ASSUME Typing, [Next]_vars, workspace'.at # workspace.at
    PROVE  \E m \in Move : /\ Flows(m) /\ SwitchWorkspace(m) /\ MaySwitch(m)
                           /\ workspace'.at = move[m].target /\ move[m].target # None
<1>1. Next
  BY DEF vars
<1>2. CASE \E m \in Move : Flows(m)
  <2>1. PICK m \in Move : Flows(m)
    BY <1>2
  <2>2. SwitchWorkspace(m) /\ MaySwitch(m) /\ workspace'.at = move[m].target
    BY <2>1, FlowMovesPlaces DEF Typing, Flows, PlacesGoOn
  <2>3. "switch-commit" \in WithTarget
    BY Order DEF Switching
  <2>4. QED
    BY <2>1, <2>2, <2>3 DEF SwitchWorkspace, Typing, Carried
<1>3. CASE \E r \in Runner : Undoes(r)
  BY <1>3, UndoGoes DEF Typing, Undoes, PlacesGoBack
<1>4. CASE \E m \in Move : \/ Ask(m) \/ Start(m) \/ CloseUnstarted(m) \/ Cancel(m) \/ Recover(m)
                           \/ DropRetained(m)
  BY <1>4 DEF Ask, Start, CloseUnstarted, Cancel, Recover, DropRetained
<1>5. CASE \E w \in Writer : Resolve(w) \/ Connect(w) \/ Write(w)
  BY <1>5 DEF Resolve, Connect, Write
<1>6. QED
  BY <1>1, <1>2, <1>3, <1>4, <1>5, NextIs

(* CancelledNeverSwitches: whatever the workflow was doing when a cancel   *)
(* was accepted, and whoever recovers the move meanwhile, the workspace is *)
(* never pointed at its target.                                            *)
THEOREM CancelHolds == Spec => CancelledNeverSwitches
<1>1. Spec => [](Typing /\ Targets /\ Cancels)
  <2>1. Init => Typing /\ Targets /\ Cancels
    BY TypingAtFirst, TargetsAtFirst
  <2>2. Typing /\ Targets /\ Cancels /\ [Next]_vars => (Typing /\ Targets /\ Cancels)'
    BY TypingKept, TargetsKept, CancelsKept
  <2>3. QED
    BY <2>1, <2>2, PTL DEF Spec
<1>2. Typing /\ Targets /\ Cancels /\ [Next]_vars =>
          [\A m \in Move : move[m].cancelled => ~(workspace'.at # workspace.at /\ workspace'.at = move[m].target)]_vars
  <2> SUFFICES ASSUME Typing, Targets, Cancels, [Next]_vars, NEW m \in Move, move[m].cancelled,
                      workspace'.at # workspace.at, workspace'.at = move[m].target
               PROVE  FALSE
    OBVIOUS
  <2>1. PICK o \in Move : MaySwitch(o) /\ workspace'.at = move[o].target /\ move[o].target # None
    BY OnlySwitches
  <2>2. o = m
    BY <2>1 DEF Targets
  <2>3. QED
    BY <2>1, <2>2 DEF MaySwitch, Cancels
<1>3. QED
  BY <1>1, <1>2, PTL DEF Spec, CancelledNeverSwitches

-----------------------------------------------------------------------------
(* One at a time.                                                          *)

Known == Typing /\ Targets /\ Cancels

Quiet(m) == flow[m].step \in {"none", "done", "dead"}

(* While a move is live and its workflow at work, no other workflow is and *)
(* nothing is undone.                                                      *)
Alone ==
    \A m \in Move : Live(m) /\ Working(m) =>
        /\ \A o \in Move \ {m} : Quiet(o)
        /\ \A r \in Runner : ~Undone(r)

(* What else may happen then.                                              *)
Calm(m) ==
    /\ Live(m) /\ Working(m) /\ UNCHANGED <<workspace, flow, undo>>
    /\ move'[m].source = move[m].source /\ move'[m].target = move[m].target
    /\ \/ UNCHANGED <<db, writer, written>>
       \/ \E o \in Move : DropRetained(o)
       \/ \E w \in Writer : Resolve(w) \/ Connect(w) \/ Write(w)

(* A step of the system, of which a live move comes out live, was this     *)
(* workflow's, or started it, or is one of those.                          *)
LEMMA MineOrCalm ==
    ASSUME ~Overlap, ~ForcedAlive, Known, Alone, [Next]_vars, NEW m \in Move, Live(m)', Working(m)'
    PROVE  \/ Flows(m) /\ Live(m) /\ Working(m)
           \/ /\ flow'[m].step = "begin" /\ NobodyActs /\ undo' = undo
              /\ \A o \in Move \ {m} : flow'[o] = flow[o]
           \/ Calm(m)
<1>1. CASE UNCHANGED vars
  BY <1>1 DEF vars, Calm, Live, Working
<1>2. ASSUME NEW o \in Move, Flows(o)
      PROVE  Flows(m) /\ Live(m) /\ Working(m)
  <2>1. Others(o) /\ RowGoesOn(o) /\ FlowGoesOn(o) /\ Working(o)
    BY <1>2, FlowGoes DEF Known, Typing, Flows, FlowGoesOn
  <2>2. CASE o = m
    <3>1. Live(m)
      BY <2>1, <2>2, Names DEF RowGoesOn, Live
    <3>2. QED
      BY <1>2, <2>1, <2>2, <3>1
  <2>3. CASE o # m
    <3>1. Live(m) /\ Working(m)
      BY <2>1, <2>3 DEF Others, Live, Working
    <3>2. Quiet(o)
      BY <2>3, <3>1 DEF Alone
    <3>3. QED
      BY <2>1, <3>2, Names DEF Quiet, Working
  <2>4. QED
    BY <2>2, <2>3
<1>3. ASSUME NEW r \in Runner, Undoes(r) PROVE FALSE
  <2>1. Undone(r) /\ UndoGoesOn(r) /\ RowsGetOver(r)
    BY <1>3, UndoGoes DEF Known, Typing, Undoes, UndoGoesOn
  <2>2. Live(m) /\ Working(m)
    <3>1. Live(m)
      BY <2>1, Names DEF RowsGetOver, Live
    <3>2. Working(m)
      BY <2>1, Names DEF UndoGoesOn, Working
    <3>3. QED
      BY <3>1, <3>2
  <2>3. QED
    BY <2>1, <2>2 DEF Alone
<1>4. ASSUME NEW o \in Move, Start(o)
      PROVE  /\ flow'[m].step = "begin" /\ NobodyActs /\ undo' = undo
             /\ \A p \in Move \ {m} : flow'[p] = flow[p]
  <2>1. /\ SameRowBut(o) /\ undo' = undo /\ NobodyActs
        /\ \A p \in Move \ {o} : flow'[p] = flow[p]
        /\ flow'[o].step \in {"begin", "dead"}
        /\ \A p \in Move : move[p].status \notin Active
    BY <1>4, StartGoes DEF Known, Typing
  <2>2. o = m
    BY <2>1 DEF SameRowBut, Live
  <2>3. flow'[m].step # "dead"
    BY Names DEF Working
  <2>4. QED
    BY <2>1, <2>2, <2>3
<1>5. ASSUME NEW o \in Move, Ask(o) \/ CloseUnstarted(o) \/ Cancel(o)
      PROVE  Calm(m)
  <2>1. /\ SameRowBut(o) /\ UNCHANGED <<workspace, db, flow, undo, writer, written>>
        /\ move'[o].status \in {"asked", "failed", "cancelling"}
    BY <1>5, AskGoes, CloseGoes, CancelGoes DEF Known, Typing
  <2>2. o # m
    BY <2>1, Names DEF Live, Over
  <2>3. QED
    BY <2>1, <2>2 DEF SameRowBut, Calm, Live, Working
<1>6. ASSUME NEW o \in Move, Recover(o) PROVE FALSE
  <2>1. UNCHANGED <<move, flow>>
    BY <1>6 DEF Recover
  <2>2. Live(m) /\ Working(m)
    BY <2>1 DEF Live, Working
  <2>3. o = m
    BY <1>6, <2>2 DEF Recover, Live
  <2>4. move[m].status \in {"failed", "cancelled", "cancelling"} \/ flow[m].step = "dead"
    BY <1>6, <2>3 DEF Recover
  <2>5. QED
    BY <2>2, <2>4, Names DEF Live, Working, Over
<1>7. ASSUME NEW o \in Move, DropRetained(o) PROVE Calm(m)
  BY <1>7 DEF DropRetained, Calm, Live, Working
<1>8. ASSUME NEW w \in Writer, Resolve(w) \/ Connect(w) \/ Write(w) PROVE Calm(m)
  <2>1. UNCHANGED <<workspace, move, flow, undo>>
    BY <1>8 DEF Resolve, Connect, Write
  <2>2. QED
    BY <1>8, <2>1 DEF Calm, Live, Working
<1>9. QED
  BY <1>1, <1>2, <1>3, <1>4, <1>5, <1>6, <1>7, <1>8, NextIs

(* Nobody acts, so it is alone that a workflow begins, and goes on.        *)
LEMMA AloneKept ==
    ASSUME ~Overlap, ~ForcedAlive, Known, Alone, [Next]_vars
    PROVE  Alone'
<1> SUFFICES ASSUME NEW m \in Move, Live(m)', Working(m)'
             PROVE  (\A o \in Move \ {m} : Quiet(o)') /\ (\A r \in Runner : ~Undone(r)')
  BY DEF Alone
<1>1. CASE Flows(m) /\ Live(m) /\ Working(m)
  <2>1. Others(m) /\ FlowGoesOn(m)
    BY <1>1, FlowGoes DEF Known, Typing, Flows
  <2>2. undo' = undo
    BY <2>1, Names DEF FlowGoesOn, Working
  <2>3. QED
    BY <1>1, <2>1, <2>2 DEF Alone, Others, Quiet, Undone
<1>2. CASE /\ flow'[m].step = "begin" /\ NobodyActs /\ undo' = undo
           /\ \A o \in Move \ {m} : flow'[o] = flow[o]
  <2>1. \A o \in Move \ {m} : Quiet(o)'
    BY <1>2 DEF NobodyActs, Quiet
  <2>2. \A r \in Runner : ~Undone(r)'
    BY <1>2, Names DEF NobodyActs, Undone
  <2>3. QED
    BY <2>1, <2>2
<1>3. CASE Calm(m)
  BY <1>3 DEF Calm, Alone, Quiet, Undone
<1>4. QED
  BY <1>1, <1>2, <1>3, MineOrCalm

-----------------------------------------------------------------------------
(* Where the workspace is.                                                 *)

Completed(m) == move[m].status = "completed"

(* The workspace is where it started or at the target of a move that       *)
(* completed, and these are the places moves start from.                   *)
Homes ==
    /\ workspace.at = Home \/ \E m \in Move : Completed(m) /\ move[m].target = workspace.at
    /\ \A m \in Move : \/ move[m].source \in {None, Home}
                       \/ \E o \in Move : Completed(o) /\ move[o].target = move[m].source

(* A live move is past its first look at the workspace only where that is  *)
(* still at its source, and comes to the lock only if its start was not    *)
(* taken for failed.  The workspace does not return to where it moved from.*)
Leaves ==
    /\ \A m \in Move : Live(m) /\ flow[m].step \in Past => AtSource(m)
    /\ \A m \in Move : flow[m].step \in Locking => ~move[m].unstarted
    /\ \A m \in Move : Completed(m) => /\ move[m].source # workspace.at /\ ~move[m].unstarted
                                       /\ move[m].target # None

Placed == Homes /\ Leaves

(* A target is not a place a move starts from before it completed.         *)
LEMMA Elsewhere ==
    ASSUME Known, Placed, NEW m \in Move, ~Completed(m)
    PROVE  /\ move[m].target # workspace.at
           /\ flow[m].made # None => flow[m].made # workspace.at
           /\ \A o \in Move : move[o].source \in Database => move[m].target # move[o].source
<1>1. workspace.at \in Database /\ None \notin Database /\ Home \notin Target
  BY DistinctNames DEF Known, Typing, Typed, PlacesTyped, AUrl
<1>2. move[m].target \in Target \cup {None} /\ flow[m].made \in Target \cup {None} /\ Home # None
  BY <1>1, Names DEF Known, Typing, Typed, MovesTyped, AMove, AFlow
<1>3. \A o \in Move : Completed(o) => /\ move[o].target # None
                                      /\ move[o].target # move[m].target
                                      /\ flow[m].made # None => move[o].target # flow[m].made
  BY DEF Known, Targets, Placed, Leaves
<1>4. move[m].target # workspace.at
  BY <1>1, <1>2, <1>3 DEF Placed, Homes
<1>5. flow[m].made # None => flow[m].made # workspace.at
  BY <1>1, <1>2, <1>3 DEF Placed, Homes
<1>6. \A o \in Move : move[o].source \in Database => move[m].target # move[o].source
  BY <1>1, <1>2, <1>3 DEF Placed, Homes
<1>7. QED
  BY <1>4, <1>5, <1>6

(* The switch.                                                             *)
Switches(m) ==
    /\ Flows(m) /\ SwitchWorkspace(m) /\ Live(m) /\ Working(m) /\ AtSource(m)
    /\ flow[m].step = "switch-commit" /\ ~Completed(m) /\ Completed(m)'
    /\ move'[m].source = move[m].source /\ move'[m].target = move[m].target
    /\ move'[m].unstarted = move[m].unstarted
    /\ \A o \in Move \ {m} : move'[o] = move[o]
    /\ workspace'.at = move[m].target /\ move[m].target \in Target
    /\ UNCHANGED <<db, undo, writer, written>>

(* It is this when it takes effect.                                        *)
LEMMA SwitchIs ==
    ASSUME Known, NEW m \in Move, Flows(m), SwitchWorkspace(m), MaySwitch(m)
    PROVE  Switches(m)
<1>1. Others(m) /\ RowGoesOn(m)
  BY FlowGoes DEF Known, Typing, Flows
<1>2. flow[m].step = "switch-commit" /\ Working(m)
  BY Order DEF SwitchWorkspace, Switching, Working
<1>3. Live(m) /\ AtSource(m)
  BY DEF MaySwitch, Live, Known, Cancels, Active
<1>4. move[m].target \in Target
  <2>1. move[m].target # None
    BY <1>2, Order DEF Known, Typing, Carried, Switching
  <2>2. QED
    BY <2>1 DEF Known, Typing, Typed, MovesTyped, AMove
<1>5. move[m] \in AMove
  BY DEF Known, Typing, Typed, MovesTyped
<1> DEFINE q == [move[m] EXCEPT !.status = "completed"]
<1>6. /\ move' = [move EXCEPT ![m] = q]
      /\ workspace' = [at |-> move[m].target, key |-> db[move[m].target].key]
      /\ UNCHANGED <<db, undo, writer, written>>
  BY DEF SwitchWorkspace
<1>7. q.status = "completed" /\ q.source = move[m].source /\ q.target = move[m].target
      /\ q.unstarted = move[m].unstarted
  BY <1>5 DEF AMove
<1> HIDE DEF q
<1>8. /\ move'[m] = q /\ workspace'.at = move[m].target
      /\ \A o \in Move \ {m} : move'[o] = move[o]
  BY <1>6 DEF Known, Typing, Typed, MovesTyped
<1>9. ~Completed(m)
  BY DEF MaySwitch, Completed
<1>10. QED
  BY <1>2, <1>3, <1>4, <1>6, <1>7, <1>8, <1>9 DEF Switches, Completed

(* The row of a move that completed stays, a move completes by its switch, *)
(* and the workspace moves by one.                                         *)
RowsStayOver ==
    \A m \in Move :
        /\ move'[m].target = move[m].target \/ ~Completed(m)
        /\ move'[m].source = move[m].source \/ (Ask(m) /\ move'[m].source = workspace.at)
        /\ Completed(m) => /\ Completed(m)' /\ move'[m].target = move[m].target
                           /\ move'[m].source = move[m].source /\ ~move'[m].unstarted
        /\ Completed(m)' => Completed(m) \/ Switches(m)

(* Every step is like this.                                                *)
LEMMA Completes ==
    ASSUME Known, Placed, [Next]_vars
    PROVE  RowsStayOver /\ (workspace'.at = workspace.at \/ \E m \in Move : Switches(m))
<1>1. workspace'.at = workspace.at \/ \E m \in Move : Switches(m)
  BY OnlySwitches, SwitchIs DEF Known
<1>2. CASE UNCHANGED vars
  BY <1>1, <1>2 DEF vars, RowsStayOver, Completed, Placed, Leaves
<1>3. \A m \in Move : Completed(m) => ~move[m].unstarted
  BY DEF Placed, Leaves
<1>4. ASSUME NEW o \in Move, Flows(o) PROVE RowsStayOver
  <2>1. Others(o) /\ RowGoesOn(o) /\ TargetGoesOn(o)
    BY <1>4, FlowGoes DEF Known, Typing, Flows
  <2>2. Completed(o)' => Completed(o) \/ Switches(o)
    BY <1>4, <2>1, SwitchIs, Names DEF RowGoesOn, Completed
  <2>3. Completed(o) => Completed(o)' /\ move'[o].target = move[o].target
    <3> SUFFICES ASSUME Completed(o) PROVE Completed(o)' /\ move'[o].target = move[o].target
      OBVIOUS
    <3>1. Completed(o)'
      BY <2>1, Names DEF Completed, RowGoesOn, Live
    <3>2. move[o].target # None
      BY DEF Placed, Leaves
    <3>3. flow[o].made = None
      BY <3>2 DEF Known, Typing, Carried
    <3>4. QED
      BY <2>1, <3>1, <3>2, <3>3 DEF TargetGoesOn
  <2>4. QED
    BY <1>3, <2>1, <2>2, <2>3 DEF RowsStayOver, Others, RowGoesOn, Completed
<1>5. ASSUME NEW r \in Runner, Undoes(r) PROVE RowsStayOver
  <2>1. RowsGetOver(r)
    BY <1>5, UndoGoes DEF Known, Typing, Undoes
  <2>2. QED
    BY <1>3, <2>1, Names DEF RowsStayOver, RowsGetOver, Completed
<1>6. ASSUME NEW m \in Move,
             Ask(m) \/ Start(m) \/ CloseUnstarted(m) \/ Cancel(m) \/ Recover(m) \/ DropRetained(m)
      PROVE  RowsStayOver
  <2>1. CASE Ask(m)
    BY <1>3, <2>1, AskGoes DEF Known, Typing, SameRowBut, RowsStayOver, Completed
  <2>2. CASE Start(m)
    BY <1>3, <2>2, StartGoes DEF Known, Typing, SameRowBut, RowsStayOver, Completed
  <2>3. CASE CloseUnstarted(m)
    BY <1>3, <2>3, CloseGoes DEF Known, Typing, SameRowBut, RowsStayOver, Completed
  <2>4. CASE Cancel(m)
    BY <1>3, <2>4, CancelGoes DEF Known, Typing, SameRowBut, RowsStayOver, Completed, Cancellable
  <2>5. CASE Recover(m) \/ DropRetained(m)
    BY <1>3, <2>5 DEF Recover, DropRetained, RowsStayOver, Completed
  <2>6. QED
    BY <1>6, <2>1, <2>2, <2>3, <2>4, <2>5
<1>7. ASSUME NEW w \in Writer, Resolve(w) \/ Connect(w) \/ Write(w) PROVE RowsStayOver
  BY <1>3, <1>7 DEF Resolve, Connect, Write, RowsStayOver, Completed
<1>8. QED
  BY <1>1, <1>2, <1>4, <1>5, <1>6, <1>7, NextIs

(* The workspace, the sources and the locks of live moves.                 *)
LEMMA HomesKept ==
    ASSUME Known, Placed, [Next]_vars
    PROVE  Homes'
<1>1. RowsStayOver /\ (workspace'.at = workspace.at \/ \E m \in Move : Switches(m))
  BY Completes
<1>2. workspace'.at = Home \/ \E m \in Move : Completed(m)' /\ move'[m].target = workspace'.at
  <2>1. CASE workspace'.at = workspace.at
    BY <1>1, <2>1 DEF Placed, Homes, RowsStayOver
  <2>2. CASE \E m \in Move : Switches(m)
    <3>1. PICK m \in Move : Switches(m)
      BY <2>2
    <3>2. QED
      BY <3>1 DEF Switches
  <2>3. QED
    BY <1>1, <2>1, <2>2
<1>3. ASSUME NEW m \in Move
      PROVE  \/ move'[m].source \in {None, Home}
             \/ \E o \in Move : Completed(o)' /\ move'[o].target = move'[m].source
  <2>1. \/ move'[m].source \in {None, Home}
        \/ \E o \in Move : Completed(o) /\ move[o].target = move'[m].source
    BY <1>1 DEF RowsStayOver, Placed, Homes
  <2>2. QED
    BY <1>1, <2>1 DEF RowsStayOver
<1>4. QED
  BY <1>2, <1>3 DEF Homes

(* And what a live move has seen of it, where that is still so.            *)
LeftWhereSeen == \A m \in Move : Live(m) /\ flow[m].step \in Past => AtSource(m)

LEMMA LeavesFrom ==
    ASSUME Known, Placed, [Next]_vars, LeftWhereSeen'
    PROVE  Leaves'
<1>1. RowsStayOver /\ (workspace'.at = workspace.at \/ \E m \in Move : Switches(m))
  BY Completes
<1>2. \A m \in Move : flow'[m].step \in Locking => ~move'[m].unstarted
  <2>1. CASE UNCHANGED vars
    BY <2>1 DEF vars, Placed, Leaves
  <2>2. ASSUME NEW o \in Move, Flows(o)
        PROVE  \A m \in Move : flow'[m].step \in Locking => ~move'[m].unstarted
    <3>1. Others(o) /\ RowGoesOn(o) /\ FlowGoesOn(o)
      BY <2>2, FlowGoes DEF Known, Typing, Flows
    <3>2. QED
      BY <3>1 DEF Others, RowGoesOn, FlowGoesOn, Turns, Placed, Leaves
  <2>3. ASSUME NEW r \in Runner, Undoes(r)
        PROVE  \A m \in Move : flow'[m].step \in Locking => ~move'[m].unstarted
    <3>1. UndoGoesOn(r) /\ RowsGetOver(r)
      BY <2>3, UndoGoes DEF Known, Typing, Undoes
    <3>2. {"done", "dead"} \cap Locking = {}
      BY Order, Names
    <3>3. \A m \in Move : flow'[m].step = flow[m].step \/ flow'[m].step \in {"done", "dead"}
      BY <3>1 DEF UndoGoesOn
    <3>4. QED
      BY <3>1, <3>2, <3>3 DEF RowsGetOver, Placed, Leaves
  <2>4. ASSUME NEW o \in Move, Start(o)
        PROVE  \A m \in Move : flow'[m].step \in Locking => ~move'[m].unstarted
    <3>1. /\ SameRowBut(o) /\ \A m \in Move \ {o} : flow'[m] = flow[m]
          /\ flow'[o].step \in {"begin", "dead"}
      BY <2>4, StartGoes DEF Known, Typing
    <3>2. {"begin", "dead"} \cap Locking = {}
      BY Order, Names
    <3>3. QED
      BY <3>1, <3>2 DEF SameRowBut, Placed, Leaves
  <2>5. ASSUME NEW o \in Move, Ask(o) \/ CloseUnstarted(o) \/ Cancel(o) \/ Recover(o) \/ DropRetained(o)
        PROVE  \A m \in Move : flow'[m].step \in Locking => ~move'[m].unstarted
    <3>1. flow' = flow /\ \A m \in Move : move'[m].unstarted => move[m].unstarted
      <4>1. CASE Ask(o) \/ CloseUnstarted(o) \/ Cancel(o)
        BY <4>1, AskGoes, CloseGoes, CancelGoes DEF Known, Typing, SameRowBut
      <4>2. CASE Recover(o) \/ DropRetained(o)
        BY <4>2 DEF Recover, DropRetained
      <4>3. QED
        BY <2>5, <4>1, <4>2
    <3>2. QED
      BY <3>1 DEF Placed, Leaves
  <2>6. ASSUME NEW w \in Writer, Resolve(w) \/ Connect(w) \/ Write(w)
        PROVE  \A m \in Move : flow'[m].step \in Locking => ~move'[m].unstarted
    <3>1. UNCHANGED <<move, flow>>
      BY <2>6 DEF Resolve, Connect, Write
    <3>2. QED
      BY <3>1 DEF Placed, Leaves
  <2>7. QED
    BY <2>1, <2>2, <2>3, <2>4, <2>5, <2>6, NextIs
<1>3. ASSUME NEW m \in Move, Completed(m)'
      PROVE  move'[m].source # workspace'.at /\ ~move'[m].unstarted /\ move'[m].target # None
  <2>1. CASE Switches(m)
    <3>1. ~move[m].unstarted
      BY <2>1, Order DEF Switches, Switching, Placed, Leaves
    <3>2. move[m].target # workspace.at
      BY <2>1, Elsewhere DEF Switches
    <3>3. None \notin Target
      BY DistinctNames, Names
    <3>4. QED
      BY <2>1, <3>1, <3>2, <3>3 DEF Switches, AtSource
  <2>2. CASE Completed(m) /\ workspace'.at = workspace.at
    BY <1>1, <2>2 DEF RowsStayOver, Placed, Leaves
  <2>3. CASE Completed(m) /\ \E o \in Move : Switches(o)
    <3>1. PICK o \in Move : Switches(o)
      BY <2>3
    <3>2. move[m].source \in Database
      BY <2>3 DEF Completed, Known, Typing, Started
    <3>3. move[o].target # move[m].source
      BY <3>1, <3>2, Elsewhere DEF Switches
    <3>4. QED
      BY <1>1, <2>3, <3>1, <3>3 DEF Switches, RowsStayOver, Placed, Leaves
  <2>4. QED
    BY <1>1, <1>3, <2>1, <2>2, <2>3 DEF RowsStayOver
<1>4. QED
  BY <1>2, <1>3 DEF Leaves, LeftWhereSeen

LEMMA LeavesKept ==
    ASSUME ~Overlap, ~ForcedAlive, Known, Alone, Placed, [Next]_vars
    PROVE  Leaves'
<1>1. RowsStayOver /\ (workspace'.at = workspace.at \/ \E m \in Move : Switches(m))
  BY Completes
<1>2. ASSUME NEW m \in Move, Live(m)', flow'[m].step \in Past
      PROVE  AtSource(m)'
  <2>1. Working(m)' /\ flow'[m].step # "begin"
    BY <1>2, Order DEF Working, Past
  <2>2. CASE Flows(m) /\ Live(m) /\ Working(m)
    <3>1. FlowGoesOn(m) /\ RowGoesOn(m) /\ PlacesGoOn(m)
      BY <2>2, FlowGoes, FlowMovesPlaces DEF Known, Typing, Flows
    <3>2. AtSource(m)
      BY <1>2, <2>2, <3>1 DEF FlowGoesOn, Turns, Placed, Leaves
    <3>3. workspace'.at = workspace.at
      <4>1. CASE SwitchWorkspace(m) /\ MaySwitch(m)
        <5>1. Switches(m)
          BY <2>2, <4>1, SwitchIs
        <5>2. QED
          BY <1>2, <5>1 DEF Switches, Completed, Live, Active, Cancellable
      <4>2. QED
        BY <3>1, <4>1 DEF PlacesGoOn
    <3>4. QED
      BY <3>1, <3>2, <3>3 DEF AtSource, RowGoesOn
  <2>3. CASE Calm(m)
    BY <1>2, <2>3 DEF Calm, AtSource, Placed, Leaves
  <2>4. QED
    BY <1>2, <2>1, <2>2, <2>3, MineOrCalm
<1>3. QED
  BY <1>2, LeavesFrom DEF LeftWhereSeen

-----------------------------------------------------------------------------
(* Undoing.                                                                *)

(* What is undone is unlocked where the workspace is, and a target is      *)
(* given back only where it is not.                                        *)
GivesBack ==
    \A r \in Runner :
        /\ undo[r].phase \in Unlocking => undo[r].from = workspace.at
        /\ undo[r].phase \in Releasing => undo[r].target # workspace.at

(* The workspace does not move meanwhile.                                  *)
LEMMA GivesBackKept ==
    ASSUME Known, Alone, Placed, GivesBack, [Next]_vars
    PROVE  GivesBack'
<1>1. Unlocking \subseteq Releasing /\ Releasing \subseteq Undoing /\ "load" \notin Releasing
  BY DEF Unlocking, Releasing, Undoing
<1>2. CASE \E m \in Move : Switches(m)
  <2>1. PICK m \in Move : Switches(m)
    BY <1>2
  <2>2. \A r \in Runner : ~Undone(r)
    BY <2>1 DEF Switches, Alone
  <2>3. QED
    BY <1>1, <2>1, <2>2 DEF Switches, GivesBack, Undone
<1>3. CASE workspace'.at = workspace.at
  <2>1. ASSUME NEW r \in Runner, undo'[r] = undo[r] \/ undo'[r].phase \notin Releasing
        PROVE  /\ undo'[r].phase \in Unlocking => undo'[r].from = workspace'.at
               /\ undo'[r].phase \in Releasing => undo'[r].target # workspace'.at
    BY <1>1, <1>3, <2>1 DEF GivesBack
  <2>2. ASSUME NEW m \in Move, Flows(m) PROVE GivesBack'
    <3>1. Others(m) /\ FlowGoesOn(m)
      BY <2>2, FlowGoes DEF Known, Typing, Flows
    <3>2. \A r \in Runner : undo'[r] = undo[r] \/ undo'[r].phase = "load"
      BY <3>1 DEF Others, FlowGoesOn
    <3>3. QED
      BY <1>1, <2>1, <3>2 DEF GivesBack
  <2>3. ASSUME NEW r \in Runner, Undoes(r) PROVE GivesBack'
    <3>1. UndoGoesOn(r) /\ UndoTurns(r)
      BY <2>3, UndoGoes DEF Known, Typing, Undoes
    <3>2. \A q \in Runner \ {r} : undo'[q] = undo[q]
      BY <3>1 DEF UndoGoesOn
    <3>3. workspace.at # None
      BY DistinctNames DEF Known, Typing, Typed, PlacesTyped, AUrl
    <3>4. /\ undo'[r].phase \in Unlocking => undo'[r].from = workspace'.at
          /\ undo'[r].phase \in Releasing => undo'[r].target # workspace'.at
      BY <1>3, <3>1, <3>3 DEF UndoTurns, GivesBack
    <3>5. QED
      BY <2>1, <3>2, <3>4 DEF GivesBack
  <2>4. ASSUME NEW m \in Move, Recover(m) PROVE GivesBack'
    <3>1. \A r \in Runner : undo'[r] = undo[r] \/ undo'[r].phase = "load"
      BY <2>4, RecoverGoes DEF Known, Typing
    <3>2. QED
      BY <1>1, <2>1, <3>1 DEF GivesBack
  <2>5. ASSUME undo' = undo PROVE GivesBack'
    BY <2>1, <2>5 DEF GivesBack
  <2>6. QED
    BY <2>2, <2>3, <2>4, <2>5, NextIs
       DEF vars, Ask, Start, CloseUnstarted, Cancel, DropRetained, Resolve, Connect, Write
<1>4. QED
  BY <1>2, <1>3, Completes

-----------------------------------------------------------------------------
(* The lock.                                                               *)

(* The source is read-only from when the lock is set, and for good if the  *)
(* move completes.                                                         *)
Locked ==
    /\ \A m \in Move : Live(m) /\ flow[m].step \in Closed => db[move[m].source].readOnly
    /\ \A m \in Move : Completed(m) => db[move[m].source].readOnly

(* Only an undo lets a database take writes again, where the workspace is. *)
LEMMA ReadOnlyStays ==
    ASSUME Known, GivesBack, [Next]_vars, NEW d \in Database, db[d].readOnly
    PROVE  db'[d].readOnly \/ (d = workspace.at /\ \E r \in Runner : Undone(r) /\ Undoes(r))
<1>1. CASE \E m \in Move : Flows(m)
  BY <1>1, FlowMovesPlaces DEF Known, Typing, Flows, PlacesGoOn, DatabasesGoOn
<1>2. CASE \E r \in Runner : Undoes(r)
  BY <1>2, UndoGoes DEF Known, Typing, Undoes, PlacesGoBack, UndoGoesOn, GivesBack
<1>3. ASSUME NEW m \in Move, DropRetained(m) PROVE db'[d].readOnly
  BY <1>3, DropGoes DEF Known, Typing
<1>4. ASSUME NEW w \in Writer, Write(w) PROVE db'[d].readOnly
  <2>1. writer[w].at \in Database
    BY <1>4 DEF Write, Known, Typing, Resolved
  <2>2. QED
    BY <1>4, <2>1, WriteGoes DEF Known, Typing
<1>5. CASE UNCHANGED db
  BY <1>5
<1>6. QED
  BY <1>1, <1>2, <1>3, <1>4, <1>5, NextIs
     DEF vars, Ask, Start, CloseUnstarted, Cancel, Recover, Resolve, Connect

(* A live move's source stays locked, and a completed one's.               *)
LEMMA LockedKept ==
    ASSUME ~Overlap, ~ForcedAlive, Known, Alone, Placed, GivesBack, Locked, [Next]_vars
    PROVE  Locked'
<1>1. RowsStayOver
  BY Completes
<1>2. ASSUME NEW m \in Move, Live(m)', flow'[m].step \in Closed
      PROVE  db'[move'[m].source].readOnly
  <2>1. Working(m)' /\ flow'[m].step # "begin"
    BY <1>2, Order DEF Working, Past
  <2>2. CASE Flows(m) /\ Live(m) /\ Working(m)
    <3>1. FlowGoesOn(m) /\ RowGoesOn(m) /\ PlacesGoOn(m)
      BY <2>2, FlowGoes, FlowMovesPlaces DEF Known, Typing, Flows
    <3>2. move[m].source \in Database /\ move'[m].source = move[m].source
      BY <2>2, <3>1, Names DEF RowGoesOn, Known, Typing, Started, Working, Live
    <3>3. CASE flow[m].step \in Closed
      BY <2>2, <3>1, <3>2, <3>3 DEF Locked, PlacesGoOn, DatabasesGoOn
    <3>4. CASE SetReadOnly(m)
      BY <3>2, <3>4 DEF SetReadOnly, Known, Typing, Typed, PlacesTyped, ADatabase
    <3>5. QED
      BY <1>2, <3>1, <3>3, <3>4 DEF FlowGoesOn, Turns
  <2>3. CASE Calm(m)
    <3>1. db[move[m].source].readOnly /\ move[m].source \in Database
      BY <1>2, <2>3, Names DEF Calm, Locked, Known, Typing, Started, Live
    <3>2. \A r \in Runner : ~Undone(r)
      BY <2>3 DEF Calm, Alone
    <3>3. QED
      BY <2>3, <3>1, <3>2, ReadOnlyStays DEF Calm
  <2>4. QED
    BY <1>2, <2>1, <2>2, <2>3, MineOrCalm
<1>3. ASSUME NEW m \in Move, Completed(m)'
      PROVE  db'[move'[m].source].readOnly
  <2>1. CASE Completed(m)
    <3>1. /\ move'[m].source = move[m].source /\ move[m].source # workspace.at
          /\ move[m].source \in Database /\ db[move[m].source].readOnly
      BY <1>1, <2>1 DEF RowsStayOver, Placed, Leaves, Locked, Known, Typing, Started, Completed
    <3>2. QED
      BY <3>1, ReadOnlyStays
  <2>2. CASE Switches(m)
    BY <2>2, Order DEF Switches, Locked, Switching
  <2>3. QED
    BY <1>1, <1>3, <2>1, <2>2 DEF RowsStayOver
<1>4. QED
  BY <1>2, <1>3 DEF Locked

-----------------------------------------------------------------------------
(* The sessions.                                                           *)

ConnectedAt(w, d) == writer[w].phase = "connected" /\ writer[w].at = d

(* A client's session is where the workspace is; one that only looked it   *)
(* up may still go to a database that was left behind, which is locked.    *)
(* Once the sessions of a locked source were ended there are none.         *)
Sessions ==
    /\ \A w \in Writer : writer[w].phase = "connected" => writer[w].at = workspace.at
    /\ \A w \in Writer : writer[w].phase = "resolved" =>
           writer[w].at = workspace.at \/ \E m \in Move : Completed(m) /\ move[m].source = writer[w].at
    /\ \A m \in Move : Live(m) /\ flow[m].step \in Emptied =>
           \A w \in Writer : ~ConnectedAt(w, move[m].source)

(* What a client does.                                                     *)
LEMMA WriterGoes ==
    ASSUME Known, Locked, Sessions, NEW w \in Writer, Resolve(w) \/ Connect(w) \/ Write(w)
    PROVE  /\ SameWriterBut(w) /\ UNCHANGED <<workspace, move, flow, undo>>
           /\ \/ writer'[w].phase \in {"idle", "done"}
              \/ writer'[w].phase = "resolved" /\ writer'[w].at = workspace.at
              \/ writer'[w].phase = "connected" /\ writer'[w].at = workspace.at /\ ~db[workspace.at].readOnly
<1>1. CASE Resolve(w)
  BY <1>1, ResolveGoes DEF Known, Typing
<1>2. CASE Connect(w)
  <2>1. /\ SameWriterBut(w) /\ UNCHANGED <<workspace, move, flow, undo>> /\ writer[w].phase = "resolved"
        /\ \/ writer'[w].phase = "idle"
           \/ writer'[w].phase = "connected" /\ writer'[w].at = writer[w].at /\ ~db[writer[w].at].readOnly
    BY <1>2, ConnectGoes DEF Known, Typing
  <2>2. QED
    BY <2>1 DEF Sessions, Locked
<1>3. CASE Write(w)
  <2>1. writer[w].at \in Database
    BY <1>3 DEF Write, Known, Typing, Resolved
  <2>2. QED
    BY <1>3, <2>1, WriteGoes DEF Known, Typing
<1>4. QED
  BY <1>1, <1>2, <1>3

(* What others do to the clients.                                          *)
LEMMA SessionsGo ==
    ASSUME Known, [Next]_vars, ~\E w \in Writer : Resolve(w) \/ Connect(w) \/ Write(w)
    PROVE  SessionsGoOn /\ written' = written
<1>1. CASE \E m \in Move : Flows(m)
  BY <1>1, FlowMovesPlaces DEF Known, Typing, Flows, PlacesGoOn
<1>2. CASE \E r \in Runner : Undoes(r)
  BY <1>2, UndoGoes DEF Known, Typing, Undoes, PlacesGoBack, SessionsGoOn
<1>3. CASE UNCHANGED <<writer, written>>
  BY <1>3 DEF SessionsGoOn
<1>4. QED
  BY <1>1, <1>2, <1>3, NextIs DEF vars, Ask, Start, CloseUnstarted, Cancel, Recover, DropRetained

(* A session is never left on a database the workspace has moved from.     *)
LEMMA SessionsKept ==
    ASSUME ~Overlap, ~ForcedAlive, Known, Alone, Placed, GivesBack, Locked, Sessions, [Next]_vars
    PROVE  Sessions'
<1>1. RowsStayOver
  BY Completes
<1>2. CASE \E m \in Move : Switches(m)
  <2>1. PICK m \in Move : Switches(m)
    BY <1>2
  <2>2. writer' = writer /\ move[m].source = workspace.at /\ flow[m].step \in Emptied /\ Live(m)
    BY <2>1, Order DEF Switches, AtSource, Switching
  <2>3. \A w \in Writer : writer[w].phase # "connected"
    BY <2>2 DEF Sessions, ConnectedAt
  <2>4. Completed(m)' /\ move'[m].source = workspace.at
    BY <2>1, <2>2 DEF Switches
  <2>5. \A o \in Move : Completed(o) => Completed(o)' /\ move'[o].source = move[o].source
    BY <1>1 DEF RowsStayOver
  <2>6. \A w \in Writer : writer[w].phase = "resolved" =>
            \E o \in Move : Completed(o)' /\ move'[o].source = writer[w].at
    BY <2>4, <2>5 DEF Sessions
  <2>7. QED
    BY <2>2, <2>3, <2>6 DEF Sessions, ConnectedAt
<1>3. CASE workspace'.at = workspace.at
  <2>1. ASSUME NEW w \in Writer, writer'[w].phase = "connected" PROVE writer'[w].at = workspace'.at
    <3>1. CASE writer'[w] = writer[w]
      BY <1>3, <2>1, <3>1 DEF Sessions
    <3>2. CASE Resolve(w) \/ Connect(w) \/ Write(w)
      BY <1>3, <2>1, <3>2, WriterGoes
    <3>3. CASE writer'[w] = [phase |-> "idle", at |-> None, key |-> 0]
      BY <2>1, <3>3
    <3>4. QED
      BY <3>1, <3>2, <3>3, SessionsGo, WriterGoes DEF SessionsGoOn, SameWriterBut
  <2>2. ASSUME NEW w \in Writer, writer'[w].phase = "resolved"
        PROVE  writer'[w].at = workspace'.at \/ \E m \in Move : Completed(m)' /\ move'[m].source = writer'[w].at
    <3>1. CASE writer'[w] = writer[w]
      BY <1>1, <1>3, <2>2, <3>1 DEF Sessions, RowsStayOver
    <3>2. CASE Resolve(w) \/ Connect(w) \/ Write(w)
      BY <1>3, <2>2, <3>2, WriterGoes
    <3>3. CASE writer'[w] = [phase |-> "idle", at |-> None, key |-> 0]
      BY <2>2, <3>3
    <3>4. QED
      BY <3>1, <3>2, <3>3, SessionsGo, WriterGoes DEF SessionsGoOn, SameWriterBut
  <2>3. ASSUME NEW m \in Move, Live(m)', flow'[m].step \in Emptied, NEW w \in Writer
        PROVE  ~(writer'[w].phase = "connected" /\ writer'[w].at = move'[m].source)
    <3>1. Working(m)' /\ flow'[m].step # "begin" /\ flow'[m].step \in Closed
      BY <2>3, Order DEF Working, Past
    <3>2. CASE Flows(m) /\ Live(m) /\ Working(m)
      <4>1. FlowGoesOn(m) /\ RowGoesOn(m) /\ PlacesGoOn(m)
        BY <3>2, FlowGoes, FlowMovesPlaces DEF Known, Typing, Flows
      <4>2. CASE flow[m].step \in Emptied
        BY <3>2, <4>1, <4>2 DEF Sessions, ConnectedAt, PlacesGoOn, SessionsGoOn, RowGoesOn
      <4>3. CASE EndSessions(m)
        <5>1. SessionsEnd(move[m].source) /\ WritersTyped
          BY <4>3 DEF EndSessions, Known, Typing, Typed
        <5>2. QED
          BY <4>1, <5>1, SessionsEndTyped DEF RowGoesOn
      <4>4. QED
        BY <2>3, <4>1, <4>2, <4>3 DEF FlowGoesOn, Turns
    <3>3. CASE Calm(m)
      <4>1. ~ConnectedAt(w, move[m].source) /\ db[move[m].source].readOnly /\ move'[m].source = move[m].source
        BY <2>3, <3>1, <3>3 DEF Calm, Sessions, Locked
      <4>2. CASE writer'[w] = writer[w]
        BY <4>1, <4>2 DEF ConnectedAt
      <4>3. CASE Resolve(w) \/ Connect(w) \/ Write(w)
        BY <4>1, <4>3, WriterGoes
      <4>4. CASE writer'[w] = [phase |-> "idle", at |-> None, key |-> 0]
        BY <4>4
      <4>5. QED
        BY <4>2, <4>3, <4>4, SessionsGo, WriterGoes DEF SessionsGoOn, SameWriterBut
    <3>4. QED
      BY <2>3, <3>1, <3>2, <3>3, MineOrCalm
  <2>4. QED
    BY <2>1, <2>2, <2>3 DEF Sessions, ConnectedAt
<1>4. QED
  BY <1>2, <1>3, Completes

-----------------------------------------------------------------------------
(* The databases that are needed.                                          *)

(* The workspace's database is there, and so is the target of a move that  *)
(* has found it.                                                           *)
Served ==
    /\ db[workspace.at].alive
    /\ \A m \in Move : Live(m) /\ flow[m].step \in WithReady => db[move[m].target].alive

(* Who drops a database: a workflow that has just made it, an undo, or the *)
(* sweep after a move.                                                     *)
LEMMA AliveStays ==
    ASSUME Known, Placed, [Next]_vars, NEW d \in Database, db[d].alive
    PROVE  \/ db'[d].alive
           \/ \E m \in Move : Flows(m) /\ flow[m].made # None /\ d = flow[m].made
           \/ \E r \in Runner : Undone(r) /\ At(r, "release") /\ d = undo[r].target
           \/ \E m \in Move : DropRetained(m) /\ Completed(m) /\ d = move[m].source /\ d # workspace.at
<1>1. ASSUME NEW m \in Move, Flows(m)
      PROVE  db'[d].alive \/ (flow[m].made # None /\ d = flow[m].made)
  <2>1. db'[d].alive \/ d = flow[m].made
    BY <1>1, FlowMovesPlaces DEF Known, Typing, Flows, PlacesGoOn, DatabasesGoOn
  <2>2. d # None
    BY DistinctNames
  <2>3. QED
    BY <2>1, <2>2
<1>2. ASSUME NEW r \in Runner, Undoes(r)
      PROVE  db'[d].alive \/ (Undone(r) /\ At(r, "release") /\ d = undo[r].target)
  BY <1>2, UndoGoes DEF Known, Typing, Undoes, PlacesGoBack, UndoGoesOn, At
<1>3. ASSUME NEW m \in Move, DropRetained(m)
      PROVE  db'[d].alive \/ (Completed(m) /\ d = move[m].source /\ d # workspace.at)
  BY <1>3, DropGoes DEF Known, Typing, Completed
<1>4. ASSUME NEW w \in Writer, Write(w) PROVE db'[d].alive
  <2>1. writer[w].at \in Database
    BY <1>4 DEF Write, Known, Typing, Resolved
  <2>2. QED
    BY <1>4, <2>1, WriteGoes DEF Known, Typing
<1>5. CASE UNCHANGED db
  BY <1>5
<1>6. QED
  BY <1>1, <1>2, <1>3, <1>4, <1>5, NextIs
     DEF vars, Ask, Start, CloseUnstarted, Cancel, Recover, Resolve, Connect

(* No undo releases the database the workspace is at, so it stays, ...     *)
NotHere == \A r \in Runner : undo[r].phase \in Releasing => undo[r].target # workspace.at

LEMMA HereStays ==
    ASSUME Known, Placed, NotHere, Served, [Next]_vars
    PROVE  db'[workspace'.at].alive
<1>1. CASE \E m \in Move : Switches(m)
  <2>1. PICK m \in Move : Switches(m)
    BY <1>1
  <2>2. flow[m].step \in WithReady
    BY <2>1, Order DEF Switches, Switching
  <2>3. QED
    BY <2>1, <2>2 DEF Switches, Served
<1>2. CASE workspace'.at = workspace.at
  <2>1. workspace.at \in Database
    BY DEF Known, Typing, Typed, PlacesTyped, AUrl
  <2>2. ASSUME NEW m \in Move, flow[m].made # None PROVE workspace.at # flow[m].made
    <3>1. move[m].target = None
      BY <2>2 DEF Known, Typing, Carried
    <3>2. ~Completed(m)
      BY <3>1 DEF Placed, Leaves
    <3>3. QED
      BY <2>2, <3>2, Elsewhere
  <2>3. QED
    BY <1>2, <2>1, <2>2, AliveStays DEF Served, NotHere, At, Releasing
<1>3. QED
  BY <1>1, <1>2, Completes

(* ... and a workflow that goes on has the target it has found.            *)
LEMMA FlowServed ==
    ASSUME Known, Served, NEW m \in Move, Flows(m), Live(m), flow'[m].step \in WithReady
    PROVE  db'[move'[m].target].alive
<1>1. FlowGoesOn(m) /\ TargetGoesOn(m) /\ PlacesGoOn(m)
  BY FlowGoes, FlowMovesPlaces DEF Known, Typing, Flows, FlowGoesOn
<1>2. /\ move[m].target # None /\ db[move[m].target].alive
  <2>1. CASE flow[m].step \in WithReady
    BY <2>1, Order DEF Served, Known, Typing, Carried
  <2>2. CASE TargetAnswers(m)
    BY <2>2 DEF TargetAnswers
  <2>3. QED
    BY <1>1, <2>1, <2>2 DEF FlowGoesOn, Turns
<1>3. flow[m].made = None
  BY <1>2 DEF Known, Typing, Carried
<1>4. move'[m].target = move[m].target
  BY <1>1, <1>2, <1>3 DEF TargetGoesOn
<1>5. move[m].target \in Database
  BY <1>2, Names DEF Known, Typing, Typed, MovesTyped, AMove
<1>6. QED
  BY <1>1, <1>2, <1>3, <1>4, <1>5 DEF PlacesGoOn, DatabasesGoOn

(* A database that is needed is not dropped.                               *)
LEMMA ServedKept ==
    ASSUME ~Overlap, ~ForcedAlive, Known, Alone, Placed, GivesBack, Served, [Next]_vars
    PROVE  Served'
<1>1. RowsStayOver
  BY Completes
<1>2. db'[workspace'.at].alive
  BY HereStays DEF NotHere, GivesBack
<1>3. ASSUME NEW m \in Move, Live(m)', flow'[m].step \in WithReady
      PROVE  db'[move'[m].target].alive
  <2>1. Working(m)' /\ flow'[m].step # "begin" /\ flow'[m].step \in WithTarget
    BY <1>3, Order DEF Working, Past
  <2>2. CASE Flows(m) /\ Live(m) /\ Working(m)
    BY <1>3, <2>2, FlowServed
  <2>3. CASE Calm(m)
    <3>1. /\ db[move[m].target].alive /\ move'[m].target = move[m].target /\ flow'[m] = flow[m]
          /\ move[m].target # None
      BY <1>3, <2>1, <2>3 DEF Calm, Served, Known, Typing, Carried
    <3>2. move[m].target \in Database
      BY <3>1, Names DEF Known, Typing, Typed, MovesTyped, AMove
    <3>3. \A r \in Runner : ~Undone(r)
      BY <2>3 DEF Calm, Alone
    <3>4. ASSUME NEW o \in Move, Flows(o), flow[o].made # None PROVE move[m].target # flow[o].made
      BY <3>4 DEF Known, Targets
    <3>5. ASSUME NEW o \in Move, Completed(o) PROVE move[m].target # move[o].source
      <4>1. ~Completed(m)
        BY <2>3, Names DEF Calm, Live, Completed
      <4>2. move[o].source \in Database
        BY <3>5 DEF Completed, Known, Typing, Started
      <4>3. QED
        BY <4>1, <4>2, Elsewhere
    <3>6. QED
      BY <3>1, <3>2, <3>3, <3>4, <3>5, AliveStays
  <2>4. QED
    BY <1>3, <2>1, <2>2, <2>3, MineOrCalm
<1>4. QED
  BY <1>2, <1>3 DEF Served

-----------------------------------------------------------------------------
(* The rows.                                                               *)

(* What the workspace sees is what was acknowledged.                       *)
Seen ==
    /\ db[workspace.at].rows = written
    /\ \A w \in Writer : writer[w].phase # "done" => w \notin written

(* What a workflow has read of the two databases is still so, and they are *)
(* alike once that was compared.                                           *)
Copies ==
    \A m \in Move : Live(m) =>
        /\ flow[m].step \in Copied => flow[m].before = db[move[m].source].rows
        /\ flow[m].step \in Compared => flow[m].target = db[move[m].target].rows
        /\ flow[m].step \in Switching => db[move[m].target].rows = db[move[m].source].rows

(* Rows are written by a live workflow, away from the workspace, and by    *)
(* clients, where the workspace is.                                        *)
LEMMA RowsWritten ==
    ASSUME Known, Placed, Sessions, [Next]_vars, NEW d \in Database, db'[d].rows # db[d].rows
    PROVE  \/ \E m \in Move : Flows(m) /\ Writes(m) /\ d = move[m].target /\ d # workspace.at
           \/ \E w \in Writer : Write(w) /\ d = workspace.at /\ ConnectedAt(w, d)
<1>1. ASSUME NEW m \in Move, Flows(m)
      PROVE  Writes(m) /\ d = move[m].target /\ d # workspace.at
  <2>1. Writes(m) /\ d = move[m].target
    BY <1>1, FlowMovesPlaces DEF Known, Typing, Flows, PlacesGoOn, DatabasesGoOn
  <2>2. ~Completed(m)
    BY <2>1, Names DEF Writes, Live, Completed
  <2>3. QED
    BY <2>1, <2>2, Elsewhere
<1>2. ASSUME NEW r \in Runner, Undoes(r) PROVE FALSE
  BY <1>2, UndoGoes DEF Known, Typing, Undoes, PlacesGoBack
<1>3. ASSUME NEW m \in Move, DropRetained(m) PROVE FALSE
  BY <1>3, DropGoes DEF Known, Typing
<1>4. ASSUME NEW w \in Writer, Write(w) PROVE d = workspace.at /\ ConnectedAt(w, d)
  <2>1. writer[w].at \in Database
    BY <1>4 DEF Write, Known, Typing, Resolved
  <2>2. d = writer[w].at /\ writer[w].phase = "connected"
    BY <1>4, <2>1, WriteGoes DEF Known, Typing
  <2>3. QED
    BY <2>2 DEF Sessions, ConnectedAt
<1>5. CASE UNCHANGED db
  BY <1>5
<1>6. QED
  BY <1>1, <1>2, <1>3, <1>4, <1>5, NextIs
     DEF vars, Ask, Start, CloseUnstarted, Cancel, Recover, Resolve, Connect

(* A client writes a row that was not there.                               *)
LEMMA WritesOne ==
    ASSUME Known, Sessions, Seen, NEW w \in Writer, Write(w)
    PROVE  /\ w \notin db[workspace.at].rows /\ workspace' = workspace
           /\ db'[workspace.at].rows = db[workspace.at].rows \cup {w} /\ written' = written \cup {w}
<1>1. writer[w].at \in Database /\ writer[w].phase = "connected"
  BY DEF Write, Known, Typing, Resolved
<1>2. writer[w].at = workspace.at
  BY <1>1 DEF Sessions
<1>3. QED
  BY <1>1, <1>2, WriteGoes DEF Known, Typing, Seen

(* The workspace sees the acknowledged writes.                             *)
LEMMA SeenKept ==
    ASSUME Known, Alone, Placed, Locked, Sessions, Seen, Copies, [Next]_vars
    PROVE  Seen'
<1>1. workspace.at \in Database
  BY DEF Known, Typing, Typed, PlacesTyped, AUrl
<1>2. CASE \E m \in Move : Switches(m)
  <2>1. PICK m \in Move : Switches(m)
    BY <1>2
  <2>2. db[move[m].target].rows = db[workspace.at].rows
    BY <2>1 DEF Switches, Copies, Switching, AtSource
  <2>3. QED
    BY <2>1, <2>2 DEF Switches, Seen
<1>3. CASE workspace'.at = workspace.at
  <2>1. CASE \E w \in Writer : Write(w)
    <3>1. PICK w \in Writer : Write(w)
      BY <2>1
    <3>2. /\ db'[workspace.at].rows = db[workspace.at].rows \cup {w} /\ written' = written \cup {w}
      BY <3>1, WritesOne
    <3>3. writer'[w].phase = "done" /\ \A v \in Writer \ {w} : writer'[v] = writer[v]
      <4>1. writer[w].at \in Database
        BY <3>1 DEF Write, Known, Typing, Resolved
      <4>2. QED
        BY <3>1, <4>1, WriteGoes DEF Known, Typing, SameWriterBut
    <3>4. QED
      BY <1>3, <3>2, <3>3 DEF Seen
  <2>2. CASE ~\E w \in Writer : Write(w)
    <3>1. db'[workspace.at].rows = db[workspace.at].rows
      BY <1>1, <2>2, RowsWritten
    <3>2. written' = written /\ \A w \in Writer : writer'[w].phase # "done" => writer[w].phase # "done"
      <4>1. CASE \E w \in Writer : Resolve(w) \/ Connect(w)
        <5>1. PICK w \in Writer : Resolve(w) \/ Connect(w)
          BY <4>1
        <5>2. SameWriterBut(w) /\ written' = written /\ writer[w].phase # "done"
          BY <5>1, ResolveGoes, ConnectGoes DEF Known, Typing
        <5>3. QED
          BY <5>2 DEF SameWriterBut
      <4>2. CASE ~\E w \in Writer : Resolve(w) \/ Connect(w)
        BY <2>2, <4>2, SessionsGo DEF SessionsGoOn
      <4>3. QED
        BY <4>1, <4>2
    <3>3. QED
      BY <1>3, <3>1, <3>2 DEF Seen
  <2>3. QED
    BY <2>1, <2>2
<1>4. QED
  BY <1>2, <1>3, Completes

(* What a live workflow has read stays what it is.                         *)
LEMMA CopiesKept ==
    ASSUME ~Overlap, ~ForcedAlive, Known, Alone, Placed, Sessions, Copies, [Next]_vars
    PROVE  Copies'
<1> SUFFICES ASSUME NEW m \in Move, Live(m)', flow'[m].step \in Copied \cup Switching
             PROVE  /\ flow'[m].step \in Copied => flow'[m].before = db'[move'[m].source].rows
                    /\ flow'[m].step \in Compared => flow'[m].target = db'[move'[m].target].rows
                    /\ flow'[m].step \in Switching => db'[move'[m].target].rows = db'[move'[m].source].rows
  BY Order DEF Copies
<1>1. Working(m)' /\ flow'[m].step # "begin" /\ flow'[m].step \in Emptied
  BY Order DEF Working, Past
<1>2. CASE Flows(m) /\ Live(m) /\ Working(m)
  <2>1. FlowGoesOn(m) /\ RowGoesOn(m) /\ TargetGoesOn(m) /\ PlacesGoOn(m)
    BY <1>2, FlowGoes, FlowMovesPlaces DEF Known, Typing, Flows
  <2>2. flow[m].step \in Emptied \/ EndSessions(m)
    BY <1>1, <2>1 DEF FlowGoesOn, Turns
  <2>3. flow[m].step \in Closed
    BY <2>2, Order DEF EndSessions
  <2>4. flow[m].step \in Past /\ flow[m].step \in WithTarget
    BY <2>3, Order
  <2>5. /\ move[m].source = workspace.at /\ move[m].source \in Database /\ move'[m].source = move[m].source
        /\ move[m].target # workspace.at
    <3>1. ~Completed(m)
      BY <1>2, Names DEF Live, Completed
    <3>2. AtSource(m)
      BY <1>2, <2>4 DEF Placed, Leaves
    <3>3. QED
      BY <2>1, <3>1, <3>2, Elsewhere DEF RowGoesOn, AtSource, Known, Typing, Typed, PlacesTyped, AUrl
  <2>6. move[m].target # None /\ flow[m].made = None
    BY <2>4 DEF Known, Typing, Carried
  <2>7. move'[m].target = move[m].target /\ move[m].target \in Database
    BY <2>1, <2>6, Names DEF TargetGoesOn, Known, Typing, Typed, MovesTyped, AMove
  <2>8. db'[move[m].source].rows = db[move[m].source].rows
    BY <2>1, <2>5 DEF PlacesGoOn, DatabasesGoOn
  <2>9. flow[m].step \in Compared \cup Switching => db'[move[m].target].rows = db[move[m].target].rows
    <3>1. {"prepare-copy", "copy"} \cap (Compared \cup Switching) = {}
      BY DEF Compared, Switching
    <3>2. QED
      BY <2>1, <2>7, <3>1 DEF PlacesGoOn, DatabasesGoOn, Writes
  <2>10. flow'[m].step \in Copied => flow'[m].before = db'[move'[m].source].rows
    <3>1. CASE flow[m].step \in Copied /\ flow'[m].before = flow[m].before
      BY <1>2, <2>5, <2>8, <3>1 DEF Copies
    <3>2. CASE ChecksumSource(m)
      BY <2>5, <2>8, <3>2 DEF ChecksumSource, Known, Typing, Typed, MovesTyped, AFlow
    <3>3. QED
      BY <2>1, <3>1, <3>2 DEF FlowGoesOn, Turns
  <2>11. flow'[m].step \in Compared => flow'[m].target = db'[move'[m].target].rows
    <3>1. CASE flow[m].step \in Compared /\ flow'[m].target = flow[m].target
      BY <1>2, <2>7, <2>9, <3>1 DEF Copies
    <3>2. CASE ChecksumTarget(m)
      BY <2>7, <3>2 DEF ChecksumTarget, Known, Typing, Typed, MovesTyped, AFlow
    <3>3. QED
      BY <2>1, <3>1, <3>2 DEF FlowGoesOn, Turns
  <2>12. flow'[m].step \in Switching => db'[move'[m].target].rows = db'[move'[m].source].rows
    <3>1. CASE flow[m].step \in Switching
      BY <1>2, <2>5, <2>7, <2>8, <2>9, <3>1 DEF Copies
    <3>2. CASE VerifyCompare(m) /\ Verified(m)
      <4>1. flow[m].step \in Compared /\ flow[m].step \in Copied /\ UNCHANGED db
        BY <3>2 DEF VerifyCompare, Enters, Compared, Copied
      <4>2. db[move[m].target].rows = db[move[m].source].rows
        BY <1>2, <3>2, <4>1 DEF Copies, Verified
      <4>3. QED
        BY <2>5, <2>7, <4>1, <4>2
    <3>3. QED
      BY <2>1, <3>1, <3>2 DEF FlowGoesOn, Turns
  <2>13. QED
    BY <2>10, <2>11, <2>12
<1>3. CASE Calm(m)
  <2>1. flow'[m] = flow[m] /\ move'[m].source = move[m].source /\ move'[m].target = move[m].target /\ Live(m)
    BY <1>3 DEF Calm
  <2>2. flow[m].step \in Past /\ flow[m].step \in WithTarget
    BY <1>1, <2>1, Order
  <2>3. move[m].source = workspace.at /\ move[m].target # workspace.at
    <3>1. ~Completed(m) /\ AtSource(m)
      BY <2>1, <2>2, Names DEF Live, Completed, Placed, Leaves
    <3>2. QED
      BY <3>1, Elsewhere DEF AtSource
  <2>4. workspace.at \in Database /\ move[m].target \in Database
    BY <2>2, Names DEF Known, Typing, Typed, PlacesTyped, MovesTyped, AUrl, AMove, Carried
  <2>5. ~\E o \in Move : Flows(o) /\ Writes(o) /\ o # m
    <3> SUFFICES ASSUME NEW o \in Move, Flows(o), o # m PROVE FALSE
      OBVIOUS
    <3>1. Working(o)
      BY FlowGoes DEF Known, Typing, Flows, FlowGoesOn
    <3>2. Quiet(o)
      BY <1>3 DEF Calm, Alone
    <3>3. QED
      BY <3>1, <3>2, Names DEF Quiet, Working
  <2>6. db'[move[m].source].rows = db[move[m].source].rows
    BY <1>1, <2>1, <2>3, <2>4, RowsWritten DEF Sessions
  <2>7. CASE Flows(m)
    BY <1>2, <1>3, <2>7 DEF Calm
  <2>8. CASE ~Flows(m)
    <3>1. db'[move[m].target].rows = db[move[m].target].rows
      BY <2>3, <2>4, <2>5, <2>8, RowsWritten
    <3>2. QED
      BY <2>1, <2>6, <3>1 DEF Copies
  <2>9. QED
    BY <2>7, <2>8
<1>4. QED
  BY <1>1, <1>2, <1>3, MineOrCalm

-----------------------------------------------------------------------------
(* One database.                                                           *)

IInv == Known /\ Alone /\ Placed /\ GivesBack /\ Locked /\ Sessions /\ Served /\ Seen /\ Copies

(* At first there is one, and it is empty.                                 *)
LEMMA IInvAtFirst == Init => IInv
<1> SUFFICES ASSUME Init PROVE IInv
  OBVIOUS
<1>1. Known
  BY TypingAtFirst, TargetsAtFirst DEF Known
<1>2. workspace.at = Home /\ db[Home].alive /\ db[Home].rows = {} /\ written = {}
  BY Names DEF Init, Unborn
<1>3. \A m \in Move : /\ move[m].status = "none" /\ move[m].source = None /\ ~move[m].unstarted
                      /\ ~Live(m) /\ ~Completed(m)
  BY Names DEF Init, NewMove, Live, Completed
<1>4. \A r \in Runner : undo[r].phase = "idle"
  BY DEF Init, Idle
<1>5. \A w \in Writer : writer[w].phase = "idle"
  BY DEF Init
<1>6. Alone /\ Placed /\ Locked /\ Copies
  BY <1>2, <1>3 DEF Alone, Placed, Homes, Leaves, Locked, Copies
<1>7. GivesBack
  BY <1>4 DEF GivesBack, Unlocking, Releasing
<1>8. Sessions /\ Served /\ Seen
  BY <1>2, <1>3, <1>5 DEF Sessions, Served, Seen
<1>9. QED
  BY <1>1, <1>6, <1>7, <1>8 DEF IInv

(* It is an invariant, ...                                                 *)
LEMMA IInvKept == ~Overlap /\ ~ForcedAlive /\ IInv /\ [Next]_vars => IInv'
<1> SUFFICES ASSUME ~Overlap, ~ForcedAlive, IInv, [Next]_vars PROVE IInv'
  OBVIOUS
<1>1. Known'
  BY TypingKept, TargetsKept, CancelsKept DEF IInv, Known
<1>2. Alone' /\ Placed' /\ GivesBack'
  BY AloneKept, HomesKept, LeavesKept, GivesBackKept DEF IInv, Placed
<1>3. Locked' /\ Sessions' /\ Served'
  BY LockedKept, SessionsKept, ServedKept DEF IInv
<1>4. Seen' /\ Copies'
  BY SeenKept, CopiesKept DEF IInv
<1>5. QED
  BY <1>1, <1>2, <1>3, <1>4 DEF IInv

(* ... where a step writes one row, or none.                               *)
LEMMA WritesOrNot ==
    IInv /\ IInv' /\ [Next]_vars => [One!Next]_<<db[workspace.at].rows, written>>
<1> SUFFICES ASSUME IInv, IInv', [Next]_vars PROVE [One!Next]_<<db[workspace.at].rows, written>>
  OBVIOUS
<1>1. db[workspace.at].rows = written /\ db'[workspace'.at].rows = written'
  BY DEF IInv, Seen
<1>2. CASE \E w \in Writer : Write(w)
  <2>1. PICK w \in Writer : Write(w)
    BY <1>2
  <2>2. /\ w \notin db[workspace.at].rows /\ workspace' = workspace
        /\ db'[workspace.at].rows = db[workspace.at].rows \cup {w} /\ written' = written \cup {w}
    BY <2>1, WritesOne DEF IInv
  <2>3. One!Write(w)
    BY <2>2 DEF One!Write
  <2>4. QED
    BY <2>3 DEF One!Next
<1>3. CASE ~\E w \in Writer : Write(w)
  <2>1. written' = written
    <3>1. CASE \E w \in Writer : Resolve(w) \/ Connect(w)
      BY <3>1 DEF Resolve, Connect
    <3>2. CASE ~\E w \in Writer : Resolve(w) \/ Connect(w)
      BY <1>3, <3>2, SessionsGo DEF IInv
    <3>3. QED
      BY <3>1, <3>2
  <2>2. QED
    BY <1>1, <2>1
<1>4. QED
  BY <1>2, <1>3

(* OneDatabaseSeen: through locks, copies, switches, failures, cancels,    *)
(* undoings and the sweep, a workspace has one database that changes by    *)
(* acknowledged writes only.                                               *)
THEOREM OneDatabaseIsSeen == ~Overlap /\ ~ForcedAlive => (Spec => OneDatabaseSeen)
<1> SUFFICES ASSUME ~Overlap, ~ForcedAlive PROVE Spec => OneDatabaseSeen
  OBVIOUS
<1>1. IInv /\ [Next]_vars => IInv'
  BY IInvKept
<1>2. IInv /\ IInv' /\ [Next]_vars => [One!Next]_<<db[workspace.at].rows, written>>
  BY WritesOrNot
<1>3. Init => One!Init
  BY IInvAtFirst DEF Init, One!Init, IInv, Seen
<1>4. QED
  BY <1>1, <1>2, <1>3, IInvAtFirst, PTL DEF Spec, OneDatabaseSeen, One!Spec

-----------------------------------------------------------------------------
(* Undone for good.  What the steps of a workflow and of an undo do to     *)
(* passwords, locks and notes.                                             *)

SameLock(d) == db'[d].key = db[d].key /\ db'[d].readOnly = db[d].readOnly
SameLocks == workspace' = workspace /\ \A d \in Database : SameLock(d)

(* A workflow changes a password or a lock in the steps that lock the      *)
(* source, and the workspace's row in two statements.                      *)
FlowLocks(m) ==
    \/ SameLocks
    \/ RotatePassword(m) \/ SetReadOnly(m)
    \/ StoreUrl(m) /\ AtSource(m)
    \/ SwitchWorkspace(m) /\ MaySwitch(m)

LEMMA FlowLocksOnly ==
    ASSUME Typing, NEW m \in Move, Flows(m)
    PROVE  FlowLocks(m)
<1>0. PlacesTyped /\ flow[m] \in AFlow /\ move[m] \in AMove
  BY DEF Typing, Typed, MovesTyped
<1>1. CASE UNCHANGED <<workspace, db>>
  BY <1>1 DEF FlowLocks, SameLocks, SameLock
<1>2. ASSUME NEW d \in Database, NEW q \in ADatabase, db' = [db EXCEPT ![d] = q], UNCHANGED workspace,
             q.key = db[d].key, q.readOnly = db[d].readOnly
      PROVE  FlowLocks(m)
  BY <1>0, <1>2, DatabaseTyped DEF FlowLocks, SameLocks, SameLock
<1>3. \A d \in Database : db[d] \in ADatabase
  BY <1>0 DEF PlacesTyped
<1>4. CASE PrepareTarget(m)
  <2>1. CASE UNCHANGED db
    BY <1>1, <1>4, <2>1 DEF PrepareTarget
  <2>2. CASE ~UNCHANGED db
    <3>1. PICK t \in Target : db' = [db EXCEPT ![t] = [@ EXCEPT !.alive = TRUE, !.born = TRUE]]
      BY <1>4, <2>2 DEF PrepareTarget
    <3> DEFINE q == [db[t] EXCEPT !.alive = TRUE, !.born = TRUE]
    <3>2. t \in Database /\ db[t] \in ADatabase
      BY <1>3, Names
    <3>3. q \in ADatabase /\ q.key = db[t].key /\ q.readOnly = db[t].readOnly
      BY <3>2 DEF ADatabase
    <3>4. db' = [db EXCEPT ![t] = q] /\ UNCHANGED workspace
      BY <1>4, <3>1 DEF PrepareTarget
    <3> HIDE DEF q
    <3>5. QED
      BY <1>2, <3>2, <3>3, <3>4
  <2>3. QED
    BY <2>1, <2>2
<1>5. CASE PrepareCopy(m) \/ CopyChunk(m)
  <2>1. CASE UNCHANGED db
    BY <1>1, <1>5, <2>1 DEF PrepareCopy, CopyChunk
  <2>2. CASE ~UNCHANGED db
    <3> DEFINE t == move[m].target
    <3>1. t \in Target /\ move[m].source \in Database
      <4>1. TargetAnswers(m) /\ SourceAnswers(m)
        BY <1>5, <2>2 DEF PrepareCopy, CopyChunk
      <4>2. t # None
        BY <4>1 DEF TargetAnswers
      <4>3. workspace.at = move[m].source
        BY <4>1 DEF SourceAnswers, AtSource
      <4>4. QED
        BY <1>0, <4>2, <4>3 DEF AMove, PlacesTyped, AUrl
    <3>2. t \in Database
      BY <3>1, Names
    <3>3. PICK rows \in Rows : db' = [db EXCEPT ![t].rows = rows]
      <4>1. CASE PrepareCopy(m)
        BY <2>2, <4>1, Names DEF PrepareCopy
      <4>2. CASE CopyChunk(m)
        <5>1. db[t].rows \in Rows /\ db[move[m].source].rows \in Rows
          BY <1>3, <3>1, <3>2 DEF ADatabase
        <5>2. db[t].rows \cup db[move[m].source].rows \in Rows
          BY <5>1 DEF Rows
        <5>3. db' = [db EXCEPT ![t].rows = db[t].rows \cup db[move[m].source].rows]
          BY <4>2 DEF CopyChunk
        <5>4. QED
          BY <5>2, <5>3
      <4>3. QED
        BY <1>5, <4>1, <4>2
    <3> DEFINE q == [db[t] EXCEPT !.rows = rows]
    <3>4. q \in ADatabase /\ q.key = db[t].key /\ q.readOnly = db[t].readOnly
      BY <1>3, <3>2 DEF ADatabase
    <3>5. db' = [db EXCEPT ![t] = q] /\ UNCHANGED workspace
      BY <1>5, <3>3 DEF PrepareCopy, CopyChunk
    <3> HIDE DEF q, t
    <3>6. QED
      BY <1>2, <3>2, <3>4, <3>5
  <2>3. QED
    BY <2>1, <2>2
<1>6. CASE StepFails(m)
  <2>1. CASE UNCHANGED db
    BY <1>1, <1>6, <2>1 DEF StepFails
  <2>2. CASE ~UNCHANGED db
    <3>1. PICK kept \in BOOLEAN : flow[m].made # None /\ db' = [db EXCEPT ![flow[m].made].alive = kept]
      BY <1>6, <2>2 DEF StepFails
    <3> DEFINE t == flow[m].made
               q == [db[t] EXCEPT !.alive = kept]
    <3>2. t \in Database
      BY <1>0, <3>1, Names DEF AFlow
    <3>3. q \in ADatabase /\ q.key = db[t].key /\ q.readOnly = db[t].readOnly
      BY <1>3, <3>2 DEF ADatabase
    <3>4. db' = [db EXCEPT ![t] = q] /\ UNCHANGED workspace
      BY <1>6, <3>1 DEF StepFails
    <3> HIDE DEF q, t
    <3>5. QED
      BY <1>2, <3>2, <3>3, <3>4
  <2>3. QED
    BY <2>1, <2>2
<1>7. CASE RotatePassword(m) \/ SetReadOnly(m)
  BY <1>7 DEF FlowLocks
<1>8. CASE StoreUrl(m)
  BY <1>1, <1>8 DEF FlowLocks, StoreUrl
<1>9. CASE SwitchWorkspace(m)
  BY <1>1, <1>9 DEF FlowLocks, SwitchWorkspace
<1>10. CASE NotEntered(m) \/ NotMovable(m) \/ StepRefused(m) \/ Begin(m) \/ CheckSource(m)
  BY <1>1, <1>10 DEF NotEntered, NotMovable, StepRefused, Begin, CheckSource
<1>11. CASE RecordTarget(m) \/ TargetReady(m) \/ SoftLock(m) \/ LockSource(m) \/ MarkLock(m)
  BY <1>1, <1>11 DEF RecordTarget, TargetReady, SoftLock, LockSource, MarkLock, SavesProgress
<1>12. CASE \/ EndSessions(m) \/ EndSessionsAgain(m) \/ ProbeReadOnly(m) \/ MarkPrepared(m)
            \/ ChecksumSource(m) \/ MarkCopied(m)
  BY <1>1, <1>12 DEF EndSessions, EndSessionsAgain, ProbeReadOnly, MarkPrepared, ChecksumSource,
                     MarkCopied, SavesProgress
<1>13. CASE \/ FinishTarget(m) \/ ChecksumTarget(m) \/ ChecksumSourceAfter(m) \/ VerifyCompare(m)
            \/ EnterSwitch(m) \/ Switched(m)
  BY <1>1, <1>13 DEF FinishTarget, ChecksumTarget, ChecksumSourceAfter, VerifyCompare, EnterSwitch, Switched
<1>14. QED
  BY <1>4, <1>5, <1>6, <1>7, <1>8, <1>9, <1>10, <1>11, <1>12, <1>13 DEF Flows, FlowStep

(* From its note that the lock begins until it ends or gives up, a         *)
(* workflow is in one of these places.                                     *)
Locks == Locking \ {"lock-mark"}
LockSteps == {"lock-rotate", "lock-store", "lock-alter", "lock-end", "lock-verify", "lock-probe",
              "prepare-copy", "prepare-mark", "checksums-source", "copy", "copy-mark", "finish",
              "checksums-target", "checksums-source-after", "verify-compare",
              "switch", "switch-commit", "switch-done"}

LEMMA LocksAre == Locks = LockSteps
  BY DEF Locks, LockSteps, Locking, WithReady, WithTarget, Past, Step

(* What a workflow notes in its row, and what it knows of it.              *)
RowNotes(m) ==
    \/ move'[m].marks = move[m].marks
    \/ flow[m].step = "lock-mark" /\ move'[m].marks = flow[m].seen \cup {"lockStarted"}
    \/ /\ flow[m].step \in {"prepare-mark", "copy-mark"}
       /\ \E mark \in {"prepared", "copied"} : move'[m].marks = flow[m].seen \cup {mark}

FlowNotes(m) ==
    LET s == flow[m].step
        t == flow'[m].step IN
    /\ RowNotes(m)
    /\ flow'[m].seen \subseteq flow[m].seen \cup move[m].marks
    /\ t \in {"prepare-mark", "copy-mark"} => flow'[m].seen = move[m].marks /\ s \in {"prepare-copy", "copy"}
    /\ t \in Locks =>
           \/ s \in Locks
           \/ s = "lock-source" /\ Live(m) /\ Marked(m, "lockStarted")
           \/ /\ s = "lock-mark" /\ move'[m].marks = flow[m].seen \cup {"lockStarted"}
              /\ ~move[m].cancelled /\ move[m].status \notin Over
    /\ t = "lock-store" => RotatePassword(m)
    /\ t = "done" => Completed(m)

(* It forgets when it gives up.                                            *)
LEMMA GivesUpForgets ==
    ASSUME Typing, NEW m \in Move, NEW outcome, GivesUp(m, outcome)
    PROVE  flow'[m].step = "undo" /\ flow'[m].seen = {} /\ flow'[m].made = None
  BY DEF GivesUp, NewFlow, Typing, Typed, MovesTyped

(* A status in the row is no mark.                                         *)
LEMMA EntersNotes ==
    ASSUME Typing, NEW m \in Move, NEW step, NEW status, Enters(m, step, status)
    PROVE  /\ move'[m].marks = move[m].marks /\ move'[m].target = move[m].target
           /\ flow[m].step = step /\ Live(m)
<1> DEFINE s == IF status = "same" THEN move[m].status ELSE status
           q == [move[m] EXCEPT !.status = s]
<1>1. q.marks = move[m].marks /\ q.target = move[m].target
  BY DEF Typing, Typed, MovesTyped, AMove
<1>2. move' = [move EXCEPT ![m] = q]
  BY DEF Enters
<1> HIDE DEF q
<1>3. move'[m] = q
  BY <1>2 DEF Typing, Typed, MovesTyped
<1>4. QED
  BY <1>1, <1>3 DEF Enters

(* A step goes on.                                                         *)
LEMMA ThenNotes ==
    ASSUME Typing, NEW m \in Move, NEW t, Then(m, t)
    PROVE  flow'[m].step = t /\ flow'[m].seen = flow[m].seen /\ flow'[m].made = flow[m].made
  BY DEF Then, Typing, Typed, MovesTyped, AFlow

(* A mark is saved.                                                        *)
LEMMA SavesNotes ==
    ASSUME Typing, NEW m \in Move, NEW mark \in Mark, NEW next, NEW stops \in BOOLEAN,
           SavesProgress(m, mark, next, stops)
    PROVE  \/ flow'[m].step = "undo" /\ flow'[m].seen = {} /\ flow'[m].made = None
              /\ move'[m].marks \in {move[m].marks, flow[m].seen \cup {mark}}
           \/ /\ flow'[m].step = next /\ flow'[m].seen = {} /\ flow'[m].made = flow[m].made
              /\ move'[m].marks = flow[m].seen \cup {mark}
              /\ move[m].status \notin Over /\ ~(stops /\ move[m].cancelled)
<1>1. CASE move[m].status \in Over
  <2>1. GivesUp(m, "failed") /\ UNCHANGED move
    BY <1>1 DEF SavesProgress
  <2>2. QED
    BY <2>1, GivesUpForgets
<1>2. CASE move[m].status \notin Over
  <2>1. move' = [move EXCEPT ![m].marks = flow[m].seen \cup {mark}]
    BY <1>2 DEF SavesProgress
  <2>2. move'[m].marks = flow[m].seen \cup {mark}
    BY <2>1 DEF Typing, Typed, MovesTyped, AMove
  <2>3. CASE stops /\ move[m].cancelled
    <3>1. GivesUp(m, "cancelled")
      BY <1>2, <2>3 DEF SavesProgress
    <3>2. QED
      BY <2>2, <3>1, GivesUpForgets
  <2>4. CASE ~(stops /\ move[m].cancelled)
    <3>1. flow' = [flow EXCEPT ![m].step = next, ![m].seen = {}]
      BY <1>2, <2>4 DEF SavesProgress
    <3>2. flow'[m].step = next /\ flow'[m].seen = {} /\ flow'[m].made = flow[m].made
      BY <3>1 DEF Typing, Typed, MovesTyped, AFlow
    <3>3. QED
      BY <1>2, <2>2, <2>4, <3>2
  <2>5. QED
    BY <2>3, <2>4
<1>3. QED
  BY <1>1, <1>2

LEMMA FlowNotesOnly ==
    ASSUME Typing, NEW m \in Move, Flows(m)
    PROVE  FlowNotes(m)
<1> DEFINE s == flow[m].step
           t == flow'[m].step
           Row == move'[m].marks = move[m].marks
           Known0 == flow'[m].seen \subseteq flow[m].seen \cup move[m].marks
<1>0. flow[m] \in AFlow /\ move[m] \in AMove /\ move \in [Move -> AMove] /\ flow \in [Move -> AFlow]
  BY DEF Typing, Typed, MovesTyped
<1>1. ASSUME NEW outcome, GivesUp(m, outcome), RowNotes(m)
      PROVE  FlowNotes(m)
  <2>1. t = "undo" /\ flow'[m].seen = {}
    BY <1>1, GivesUpForgets
  <2>2. QED
    BY <1>1, <2>1, LocksAre DEF FlowNotes, LockSteps
<1>2. UNCHANGED move => Row
  OBVIOUS
<1>3. Row => RowNotes(m)
  BY DEF RowNotes
<1>4. ASSUME Row, Known0, t \notin {"prepare-mark", "copy-mark", "lock-store", "done"},
             t \in LockSteps => s \in LockSteps
      PROVE  FlowNotes(m)
  BY <1>3, <1>4, LocksAre DEF FlowNotes
<1>5. ASSUME NEW step, NEW status, Enters(m, step, status), NEW next, Then(m, next),
             next \notin {"prepare-mark", "copy-mark", "lock-store", "done"},
             next \in LockSteps => step \in LockSteps
      PROVE  FlowNotes(m)
  BY <1>4, <1>5, EntersNotes, ThenNotes
<1>6. ASSUME NEW step, NEW next, step = s, Then(m, next), UNCHANGED move,
             next \notin {"prepare-mark", "copy-mark", "lock-store", "done"},
             next \in LockSteps => step \in LockSteps
      PROVE  FlowNotes(m)
  BY <1>2, <1>4, <1>6, ThenNotes
<1>10. CASE NotEntered(m) \/ NotMovable(m)
  BY <1>1, <1>2, <1>3, <1>10 DEF NotEntered, NotMovable
<1>11. ASSUME NEW r \in Step, s = r PROVE /\ StepOf(r) \in LockSteps => r \in LockSteps
                                          /\ StepOf(r) \notin {"prepare-mark", "copy-mark", "lock-store", "done"}
  BY DEF StepOf, LockSteps, Step
<1>12. CASE StepRefused(m)
  <2>1. UNCHANGED move /\ s \in Step
    BY <1>12 DEF StepRefused, Refused, Step
  <2>2. CASE GivesUp(m, "failed")
    BY <1>1, <1>2, <1>3, <2>1, <2>2
  <2>3. CASE ~GivesUp(m, "failed")
    <3>1. flow' = [flow EXCEPT ![m].step = StepOf(@), ![m].seen = {}, ![m].key = 0]
      BY <1>12, <2>3 DEF StepRefused
    <3>2. t = StepOf(s) /\ flow'[m].seen = {}
      BY <1>0, <3>1 DEF AFlow
    <3>3. QED
      BY <1>2, <1>4, <1>11, <2>1, <3>2
  <2>4. QED
    BY <2>2, <2>3
<1>13. CASE StepFails(m)
  <2>1. s \in Step
    BY <1>13 DEF StepFails, Working
  <2>2. Row
    <3>1. CASE UNCHANGED move
      BY <1>2, <3>1
    <3>2. CASE ~UNCHANGED move
      <4>1. PICK noted \in BOOLEAN : move' = [move EXCEPT ![m].target = IF noted THEN flow[m].made ELSE @]
        BY <1>13, <3>2 DEF StepFails
      <4>2. QED
        BY <1>0, <4>1 DEF AMove
    <3>3. QED
      BY <3>1, <3>2
  <2>3. CASE GivesUp(m, "failed")
    BY <1>1, <1>3, <2>2, <2>3
  <2>4. CASE ~GivesUp(m, "failed")
    <3>1. flow' = [flow EXCEPT ![m].step = StepOf(@), ![m].seen = {}, ![m].made = None, ![m].key = 0]
      BY <1>13, <2>4 DEF StepFails
    <3>2. t = StepOf(s) /\ flow'[m].seen = {}
      BY <1>0, <3>1 DEF AFlow
    <3>3. QED
      BY <1>4, <1>11, <2>1, <2>2, <3>2
  <2>5. QED
    BY <2>3, <2>4
<1>14. CASE Begin(m) \/ CheckSource(m) \/ TargetReady(m) \/ SoftLock(m)
  BY <1>5, <1>14 DEF Begin, CheckSource, TargetReady, SoftLock, LockSteps
<1>15. CASE PrepareTarget(m)
  <2>1. Enters(m, "prepare-target", "same")
    BY <1>15 DEF PrepareTarget
  <2>2. CASE Then(m, "target-ready")
    BY <1>5, <2>1, <2>2 DEF LockSteps
  <2>3. CASE ~Then(m, "target-ready")
    <3>1. PICK d \in Target : flow' = [flow EXCEPT ![m].step = "target-made", ![m].made = d]
      BY <1>15, <2>3 DEF PrepareTarget
    <3>2. t = "target-made" /\ flow'[m].seen = flow[m].seen
      BY <1>0, <3>1 DEF AFlow
    <3>3. QED
      BY <1>4, <2>1, <3>2, EntersNotes DEF LockSteps
  <2>4. QED
    BY <2>2, <2>3
<1>16. CASE RecordTarget(m)
  <2>1. flow' = [flow EXCEPT ![m].step = "target-ready", ![m].made = None]
        /\ move' = [move EXCEPT ![m].target = flow[m].made]
    BY <1>16 DEF RecordTarget
  <2>2. t = "target-ready" /\ flow'[m].seen = flow[m].seen /\ Row
    BY <1>0, <2>1 DEF AFlow, AMove
  <2>3. QED
    BY <1>4, <2>2 DEF LockSteps
<1>17. CASE LockSource(m)
  <2> DEFINE next == IF Marked(m, "lockStarted") THEN "lock-rotate" ELSE "lock-mark"
  <2>1. /\ Enters(m, "lock-source", "same")
        /\ flow' = [flow EXCEPT ![m].step = next, ![m].seen = move[m].marks]
    BY <1>17 DEF LockSource
  <2>2. t = next /\ flow'[m].seen = move[m].marks
    BY <1>0, <2>1 DEF AFlow
  <2>3. Row /\ s = "lock-source" /\ Live(m)
    BY <2>1, EntersNotes
  <2>4. QED
    BY <1>3, <2>2, <2>3, LocksAre DEF FlowNotes, LockSteps
<1>18. CASE MarkLock(m)
  <2>1. s = "lock-mark" /\ SavesProgress(m, "lockStarted", "lock-rotate", TRUE) /\ "lockStarted" \in Mark
    BY <1>18 DEF MarkLock, Mark
  <2>2. \/ t = "undo" /\ flow'[m].seen = {}
           /\ move'[m].marks \in {move[m].marks, flow[m].seen \cup {"lockStarted"}}
        \/ /\ t = "lock-rotate" /\ flow'[m].seen = {}
           /\ move'[m].marks = flow[m].seen \cup {"lockStarted"}
           /\ move[m].status \notin Over /\ ~move[m].cancelled
    BY <2>1, SavesNotes
  <2>3. QED
    BY <2>1, <2>2, LocksAre DEF FlowNotes, RowNotes, LockSteps
<1>19. CASE MarkPrepared(m)
  <2>1. /\ s = "prepare-mark" /\ SavesProgress(m, "prepared", "checksums-source", FALSE)
        /\ "prepared" \in Mark
    BY <1>19 DEF MarkPrepared, Mark
  <2>2. \/ t = "undo" /\ flow'[m].seen = {}
           /\ move'[m].marks \in {move[m].marks, flow[m].seen \cup {"prepared"}}
        \/ /\ t = "checksums-source" /\ flow'[m].seen = {}
           /\ move'[m].marks = flow[m].seen \cup {"prepared"}
    BY <2>1, SavesNotes
  <2>3. QED
    BY <2>1, <2>2, LocksAre DEF FlowNotes, RowNotes, LockSteps
<1>20. CASE MarkCopied(m)
  <2>1. s = "copy-mark" /\ SavesProgress(m, "copied", "finish", TRUE) /\ "copied" \in Mark
    BY <1>20 DEF MarkCopied, Mark
  <2>2. \/ t = "undo" /\ flow'[m].seen = {}
           /\ move'[m].marks \in {move[m].marks, flow[m].seen \cup {"copied"}}
        \/ /\ t = "finish" /\ flow'[m].seen = {}
           /\ move'[m].marks = flow[m].seen \cup {"copied"}
    BY <2>1, SavesNotes
  <2>3. QED
    BY <2>1, <2>2, LocksAre DEF FlowNotes, RowNotes, LockSteps
<1>21. CASE RotatePassword(m)
  <2>1. /\ s = "lock-rotate" /\ UNCHANGED move
        /\ flow' = [flow EXCEPT ![m].step = "lock-store", ![m].key = db[move[m].source].key + 1, ![m].seen = {}]
    BY <1>21 DEF RotatePassword
  <2>2. t = "lock-store" /\ flow'[m].seen = {}
    BY <1>0, <2>1 DEF AFlow
  <2>3. QED
    BY <1>3, <1>21, <2>1, <2>2, LocksAre DEF FlowNotes, LockSteps
<1>22. CASE StoreUrl(m)
  <2>1. CASE AtSource(m)
    BY <1>6, <1>22, <2>1 DEF StoreUrl, LockSteps
  <2>2. CASE ~AtSource(m)
    BY <1>1, <1>2, <1>3, <1>22, <2>2 DEF StoreUrl
  <2>3. QED
    BY <2>1, <2>2
<1>23. CASE SetReadOnly(m)
  BY <1>6, <1>23 DEF SetReadOnly, LockSteps
<1>24. CASE EndSessions(m)
  <2>1. s = "lock-end" /\ UNCHANGED move /\ flow' = [flow EXCEPT ![m].step = "lock-verify", ![m].key = 0]
    BY <1>24 DEF EndSessions
  <2>2. t = "lock-verify" /\ flow'[m].seen = flow[m].seen
    BY <1>0, <2>1 DEF AFlow
  <2>3. QED
    BY <1>4, <2>1, <2>2 DEF LockSteps
<1>25. CASE EndSessionsAgain(m) \/ FinishTarget(m)
  BY <1>5, <1>25 DEF EndSessionsAgain, FinishTarget, LockSteps
<1>26. CASE ProbeReadOnly(m)
  <2>1. s = "lock-probe"
    BY <1>26 DEF ProbeReadOnly
  <2>2. CASE Live(m)
    <3>1. move' = [move EXCEPT ![m].status = "locked"] /\ Then(m, "prepare-copy")
      BY <1>26, <2>2 DEF ProbeReadOnly
    <3>2. Row
      BY <1>0, <3>1 DEF AMove
    <3>3. QED
      BY <1>4, <2>1, <3>1, <3>2, ThenNotes DEF LockSteps
  <2>3. CASE ~Live(m)
    BY <1>1, <1>2, <1>3, <1>26, <2>3 DEF ProbeReadOnly
  <2>4. QED
    BY <2>2, <2>3
<1>27. CASE PrepareCopy(m)
  <2>1. Enters(m, "prepare-copy", "copying")
    BY <1>27 DEF PrepareCopy
  <2>2. CASE Then(m, "checksums-source")
    BY <1>5, <2>1, <2>2 DEF LockSteps
  <2>3. CASE ~Then(m, "checksums-source")
    <3>1. flow' = [flow EXCEPT ![m].step = "prepare-mark", ![m].seen = move[m].marks]
      BY <1>27, <2>3 DEF PrepareCopy
    <3>2. t = "prepare-mark" /\ flow'[m].seen = move[m].marks
      BY <1>0, <3>1 DEF AFlow
    <3>3. Row /\ s = "prepare-copy"
      BY <2>1, EntersNotes
    <3>4. QED
      BY <1>3, <3>2, <3>3, LocksAre DEF FlowNotes, LockSteps
  <2>4. QED
    BY <2>2, <2>3
<1>28. CASE ChecksumSource(m)
  <2>1. /\ Enters(m, "checksums-source", "same")
        /\ flow' = [flow EXCEPT ![m].step = "copy", ![m].before = db[move[m].source].rows]
    BY <1>28 DEF ChecksumSource
  <2>2. t = "copy" /\ flow'[m].seen = flow[m].seen
    BY <1>0, <2>1 DEF AFlow
  <2>3. QED
    BY <1>4, <2>1, <2>2, EntersNotes DEF LockSteps
<1>29. CASE CopyChunk(m)
  <2>1. /\ Enters(m, "copy", "same")
        /\ flow' = [flow EXCEPT ![m].step = "copy-mark", ![m].seen = move[m].marks]
    BY <1>29 DEF CopyChunk
  <2>2. t = "copy-mark" /\ flow'[m].seen = move[m].marks
    BY <1>0, <2>1 DEF AFlow
  <2>3. Row /\ s = "copy"
    BY <2>1, EntersNotes
  <2>4. QED
    BY <1>3, <2>2, <2>3, LocksAre DEF FlowNotes, LockSteps
<1>30. CASE ChecksumTarget(m)
  <2>1. /\ Enters(m, "checksums-target", "same")
        /\ flow' = [flow EXCEPT ![m].step = "checksums-source-after", ![m].target = db[move[m].target].rows]
    BY <1>30 DEF ChecksumTarget
  <2>2. t = "checksums-source-after" /\ flow'[m].seen = flow[m].seen
    BY <1>0, <2>1 DEF AFlow
  <2>3. QED
    BY <1>4, <2>1, <2>2, EntersNotes DEF LockSteps
<1>31. CASE ChecksumSourceAfter(m)
  <2>1. /\ Enters(m, "checksums-source-after", "same")
        /\ flow' = [flow EXCEPT ![m].step = "verify-compare", ![m].after = db[move[m].source].rows]
    BY <1>31 DEF ChecksumSourceAfter
  <2>2. t = "verify-compare" /\ flow'[m].seen = flow[m].seen
    BY <1>0, <2>1 DEF AFlow
  <2>3. QED
    BY <1>4, <2>1, <2>2, EntersNotes DEF LockSteps
<1>32. CASE VerifyCompare(m)
  <2>1. Enters(m, "verify-compare", "verifying")
    BY <1>32 DEF VerifyCompare
  <2>2. Row /\ s = "verify-compare"
    BY <2>1, EntersNotes
  <2>3. CASE Verified(m)
    <3>1. flow' = [flow EXCEPT ![m] = [NewFlow EXCEPT !.step = "switch"]]
      BY <1>32, <2>3 DEF VerifyCompare
    <3>2. t = "switch" /\ flow'[m].seen = {}
      BY <1>0, <3>1 DEF NewFlow
    <3>3. QED
      BY <1>4, <2>2, <3>2 DEF LockSteps
  <2>4. CASE ~Verified(m)
    BY <1>1, <1>3, <1>32, <2>2, <2>4 DEF VerifyCompare
  <2>5. QED
    BY <2>3, <2>4
<1>33. CASE EnterSwitch(m)
  <2>1. Enters(m, "switch", "switching")
    BY <1>33 DEF EnterSwitch
  <2>2. CASE AtSource(m)
    BY <1>5, <1>33, <2>1, <2>2 DEF EnterSwitch, LockSteps
  <2>3. CASE ~AtSource(m)
    BY <1>1, <1>3, <1>33, <2>1, <2>3, EntersNotes DEF EnterSwitch
  <2>4. QED
    BY <2>2, <2>3
<1>34. CASE SwitchWorkspace(m)
  <2>1. s = "switch-commit"
    BY <1>34 DEF SwitchWorkspace
  <2>2. CASE MaySwitch(m)
    <3>1. move' = [move EXCEPT ![m].status = "completed"] /\ Then(m, "switch-done")
      BY <1>34, <2>2 DEF SwitchWorkspace
    <3>2. Row
      BY <1>0, <3>1 DEF AMove
    <3>3. QED
      BY <1>4, <2>1, <3>1, <3>2, ThenNotes DEF LockSteps
  <2>3. CASE ~MaySwitch(m)
    BY <1>1, <1>2, <1>3, <1>34, <2>3 DEF SwitchWorkspace
  <2>4. QED
    BY <2>2, <2>3
<1>35. CASE Switched(m)
  <2>1. Completed(m) /\ Then(m, "done") /\ UNCHANGED move
    BY <1>35 DEF Switched, Completed
  <2>2. t = "done" /\ flow'[m].seen = flow[m].seen
    BY <2>1, ThenNotes
  <2>3. QED
    BY <1>2, <1>3, <2>1, <2>2, LocksAre DEF FlowNotes, LockSteps
<1>36. QED
  BY <1>10, <1>12, <1>13, <1>14, <1>15, <1>16, <1>17, <1>18, <1>19, <1>20, <1>21, <1>22, <1>23, <1>24,
     <1>25, <1>26, <1>27, <1>28, <1>29, <1>30, <1>31, <1>32, <1>33, <1>34, <1>35 DEF Flows, FlowStep

(* A database is there that was not, when it is made; and what was made is *)
(* the row's next, unless the step fails.                                  *)
FlowTargets(m) ==
    /\ \A d \in Database : db'[d].alive =>
           \/ db[d].alive
           \/ ~db[d].born /\ flow'[m].made = d
           \/ StepFails(m) /\ d = flow[m].made
    /\ flow[m].made # None => StepFails(m) \/ move'[m].target = flow[m].made

LEMMA FlowTargetsOnly ==
    ASSUME Typing, NEW m \in Move, Flows(m)
    PROVE  FlowTargets(m)
<1>0. flow[m] \in AFlow /\ move[m] \in AMove /\ PlacesTyped
  BY DEF Typing, Typed, MovesTyped
<1>1. flow[m].made # None => StepFails(m) \/ move'[m].target = flow[m].made
  <2> SUFFICES ASSUME flow[m].made # None, ~StepFails(m) PROVE move'[m].target = flow[m].made
    OBVIOUS
  <2>1. flow[m].step = "target-made"
    BY DEF Typing, Carried
  <2>2. ~Beginning(m) /\ flow[m].step \notin Movable \cup {"copy", "finish"}
    BY <2>1 DEF Beginning, StepOf, Movable
  <2>3. ~NotEntered(m) /\ ~NotMovable(m) /\ ~StepRefused(m)
    BY <2>1, <2>2 DEF NotEntered, NotMovable, StepRefused, Refused
  <2>4. ~(Begin(m) \/ CheckSource(m) \/ PrepareTarget(m) \/ TargetReady(m) \/ SoftLock(m) \/ LockSource(m))
    BY <2>1 DEF Begin, CheckSource, PrepareTarget, TargetReady, SoftLock, LockSource, Enters
  <2>5. ~(\/ MarkLock(m) \/ RotatePassword(m) \/ StoreUrl(m) \/ SetReadOnly(m) \/ EndSessions(m)
          \/ EndSessionsAgain(m) \/ ProbeReadOnly(m) \/ PrepareCopy(m) \/ MarkPrepared(m))
    BY <2>1 DEF MarkLock, RotatePassword, StoreUrl, SetReadOnly, EndSessions, EndSessionsAgain,
                ProbeReadOnly, PrepareCopy, MarkPrepared, Enters
  <2>6. ~(\/ ChecksumSource(m) \/ CopyChunk(m) \/ MarkCopied(m) \/ FinishTarget(m) \/ ChecksumTarget(m)
          \/ ChecksumSourceAfter(m) \/ VerifyCompare(m) \/ EnterSwitch(m) \/ SwitchWorkspace(m)
          \/ Switched(m))
    BY <2>1 DEF ChecksumSource, CopyChunk, MarkCopied, FinishTarget, ChecksumTarget, ChecksumSourceAfter,
                VerifyCompare, EnterSwitch, SwitchWorkspace, Switched, Enters
  <2>7. RecordTarget(m)
    BY <2>3, <2>4, <2>5, <2>6 DEF Flows, FlowStep
  <2>8. move' = [move EXCEPT ![m].target = flow[m].made]
    BY <2>7 DEF RecordTarget
  <2>9. QED
    BY <1>0, <2>8 DEF Typing, Typed, MovesTyped, AMove
<1>2. ASSUME NEW d \in Database, db'[d].alive, ~db[d].alive, ~StepFails(m)
      PROVE  ~db[d].born /\ flow'[m].made = d
  <2>1. CASE PrepareTarget(m)
    <3>1. db' # db
      BY <1>2
    <3>2. PICK t \in Target :
              /\ ~db[t].born
              /\ db' = [db EXCEPT ![t] = [@ EXCEPT !.alive = TRUE, !.born = TRUE]]
              /\ flow' = [flow EXCEPT ![m].step = "target-made", ![m].made = t]
      BY <2>1, <3>1 DEF PrepareTarget
    <3>3. t = d
      BY <1>0, <1>2, <3>2 DEF PlacesTyped
    <3>4. flow'[m].made = t
      BY <3>2 DEF Typing, Typed, MovesTyped, AFlow
    <3>5. QED
      BY <3>2, <3>3, <3>4
  <2>2. CASE RotatePassword(m) \/ SetReadOnly(m) \/ PrepareCopy(m) \/ CopyChunk(m)
    <3>1. db' # db
      BY <1>2
    <3>2. CASE RotatePassword(m)
      <4>1. db' = [db EXCEPT ![move[m].source].key = @ + 1]
        BY <3>2 DEF RotatePassword
      <4>2. QED
        BY <1>0, <1>2, <4>1 DEF PlacesTyped, ADatabase
    <3>3. CASE SetReadOnly(m)
      <4>1. db' = [db EXCEPT ![move[m].source].readOnly = TRUE]
        BY <3>3 DEF SetReadOnly
      <4>2. QED
        BY <1>0, <1>2, <4>1 DEF PlacesTyped, ADatabase
    <3>4. CASE PrepareCopy(m)
      <4>1. db' = [db EXCEPT ![move[m].target].rows = {}]
        BY <3>1, <3>4 DEF PrepareCopy
      <4>2. QED
        BY <1>0, <1>2, <4>1 DEF PlacesTyped, ADatabase
    <3>5. CASE CopyChunk(m)
      <4>1. db' = [db EXCEPT ![move[m].target].rows = @ \cup db[move[m].source].rows]
        BY <3>5 DEF CopyChunk
      <4>2. QED
        BY <1>0, <1>2, <4>1 DEF PlacesTyped, ADatabase
    <3>6. QED
      BY <2>2, <3>2, <3>3, <3>4, <3>5
  <2>3. CASE NotEntered(m) \/ NotMovable(m) \/ StepRefused(m) \/ Begin(m) \/ CheckSource(m)
    BY <1>2, <2>3 DEF NotEntered, NotMovable, StepRefused, Begin, CheckSource
  <2>4. CASE RecordTarget(m) \/ TargetReady(m) \/ SoftLock(m) \/ LockSource(m) \/ MarkLock(m) \/ StoreUrl(m)
    BY <1>2, <2>4 DEF RecordTarget, TargetReady, SoftLock, LockSource, MarkLock, SavesProgress, StoreUrl
  <2>5. CASE \/ EndSessions(m) \/ EndSessionsAgain(m) \/ ProbeReadOnly(m) \/ MarkPrepared(m)
             \/ ChecksumSource(m) \/ MarkCopied(m)
    BY <1>2, <2>5 DEF EndSessions, EndSessionsAgain, ProbeReadOnly, MarkPrepared, ChecksumSource,
                      MarkCopied, SavesProgress
  <2>6. CASE \/ FinishTarget(m) \/ ChecksumTarget(m) \/ ChecksumSourceAfter(m) \/ VerifyCompare(m)
             \/ EnterSwitch(m) \/ SwitchWorkspace(m) \/ Switched(m)
    BY <1>2, <2>6 DEF FinishTarget, ChecksumTarget, ChecksumSourceAfter, VerifyCompare, EnterSwitch,
                      SwitchWorkspace, Switched
  <2>7. QED
    BY <1>2, <2>1, <2>2, <2>3, <2>4, <2>5, <2>6 DEF Flows, FlowStep
<1>3. ASSUME NEW d \in Database, db'[d].alive, ~db[d].alive, StepFails(m)
      PROVE  d = flow[m].made
  <2>1. PICK kept \in BOOLEAN : db' = [db EXCEPT ![flow[m].made].alive = kept]
    BY <1>3 DEF StepFails
  <2>2. QED
    BY <1>0, <1>3, <2>1 DEF PlacesTyped
<1>4. QED
  BY <1>1, <1>2, <1>3 DEF FlowTargets

(* The undo of r: what it changes, ...                                     *)
Working0(r) == Works([at |-> undo[r].from, key |-> undo[r].with])
WorkingAgain(r) == Works([at |-> undo[r].from, key |-> undo[r].key])
Late == {"release", "release-mark", "close"}

UndoLocks(r) ==
    \/ SameLocks
    \/ Unlock(r)
    \/ UnlockStores(r) /\ AtSource(undo[r].of)
    \/ UnlockAgain(r) /\ WorkingAgain(r)

UndoNotes(r) ==
    /\ \A o \in Move : \/ move'[o].marks = move[o].marks
                       \/ /\ o = undo[r].of /\ At(r, "release-mark")
                          /\ move'[o].marks = undo[r].marks \cup {"released"}
    /\ \A d \in Database : db'[d].alive => db[d].alive

(* ... where it goes on, ...                                               *)
UndoPlaces(r) ==
    LET u == undo[r]
        v == undo'[r]
        p == u.phase
        q == v.phase IN
    /\ q = "load" => r \in Move /\ v.of = r /\ v.marks = {} /\ v.target = None
    /\ q \in Undoing \ {"load"} =>
           /\ v.of = u.of
           /\ \/ p # "load" /\ v.marks = u.marks /\ v.target = u.target
              \/ /\ p = "load" /\ q = "look" /\ v.marks = move[u.of].marks /\ v.target = move[u.of].target
    /\ q = "look" => p = "load"
    /\ q = "unlock" => p = "look" /\ AtSource(u.of) /\ v.with = workspace.key /\ v.from = workspace.at
    /\ q = "unlock-store" =>
           /\ Unlock(r) /\ ~Working0(r) /\ v.from = u.from /\ v.key = db[u.from].key + 1
    /\ q = "unlock-again" => UnlockStores(r) /\ AtSource(u.of) /\ v.key = u.key /\ v.from = u.from
    /\ q \in Late =>
           \/ v.problem \/ (Unlock(r) /\ Working0(r)) \/ (UnlockAgain(r) /\ WorkingAgain(r))
           \/ p = "look" /\ ~("lockStarted" \in u.marks /\ AtSource(u.of))
           \/ p \in Late /\ ~u.problem
    /\ q = "release-mark" => /\ p = "release" /\ u.target # None /\ "released" \notin u.marks
                             /\ db' = [db EXCEPT ![u.target].alive = FALSE]
    /\ q = "close" => v.problem \/ p = "release-mark" \/ u.target = None \/ "released" \in u.marks

(* ... and how it ends.                                                    *)
UndoEnds(r) ==
    undo'[r].phase \notin Undoing =>
        \/ undo'[r].phase = "error" /\ (r # Admin => flow'[r].step = "dead")
        \/ undo'[r].phase = "done" /\ At(r, "load") /\ Completed(undo[r].of)
        \/ undo'[r].phase = "done" /\ At(r, "close") /\ ~undo[r].problem

LEMMA UndoLocksOnly ==
    ASSUME Typing, NEW r \in Runner, Undoes(r)
    PROVE  UndoLocks(r) /\ UndoNotes(r)
<1>0. /\ PlacesTyped /\ undo[r] \in AnUndo /\ move \in [Move -> AMove] /\ \A d \in Database : db[d] \in ADatabase
  BY DEF Typing, Typed, MovesTyped, PlacesTyped
<1>1. UNCHANGED <<workspace, db>> => SameLocks
  BY DEF SameLocks, SameLock
<1>2. UNCHANGED <<move, db>> => UndoNotes(r)
  BY DEF UndoNotes
<1>3. ASSUME UNCHANGED move, NEW d \in Database, NEW q \in ADatabase, db' = [db EXCEPT ![d] = q],
             q.alive => db[d].alive
      PROVE  UndoNotes(r)
  BY <1>0, <1>3 DEF UndoNotes, PlacesTyped
<1>4. CASE UndoLoads(r) \/ UndoLooks(r)
  BY <1>1, <1>2, <1>4 DEF UndoLoads, UndoLooks, UndoLocks
<1>5. CASE Unlock(r)
  <2>1. UndoLocks(r) /\ UNCHANGED move
    BY <1>5 DEF UndoLocks, Unlock
  <2>2. undo[r].from \in Database
    BY <1>5 DEF Unlock, At, Typing, Unlocks, Unlocking
  <2>3. \/ db' = [db EXCEPT ![undo[r].from].readOnly = FALSE]
        \/ db' = [db EXCEPT ![undo[r].from].key = @ + 1]
    BY <1>5 DEF Unlock
  <2>4. \A d \in Database : db'[d].alive => db[d].alive
    BY <1>0, <2>2, <2>3 DEF PlacesTyped, ADatabase
  <2>5. QED
    BY <2>1, <2>4 DEF UndoNotes
<1>6. CASE UnlockStores(r)
  BY <1>1, <1>2, <1>6 DEF UnlockStores, UndoLocks
<1>7. CASE UnlockAgain(r)
  <2>1. UNCHANGED move
    BY <1>7 DEF UnlockAgain
  <2>2. CASE WorkingAgain(r)
    <3>1. undo[r].from \in Database
      BY <1>7 DEF UnlockAgain, At, Typing, Unlocks, Unlocking
    <3>2. db' = [db EXCEPT ![undo[r].from].readOnly = FALSE]
      BY <1>7, <2>2 DEF UnlockAgain, WorkingAgain
    <3>3. \A d \in Database : db'[d].alive => db[d].alive
      BY <1>0, <3>1, <3>2 DEF PlacesTyped, ADatabase
    <3>4. QED
      BY <1>7, <2>1, <2>2, <3>3 DEF UndoNotes, UndoLocks
  <2>3. CASE ~WorkingAgain(r)
    <3>1. UNCHANGED <<workspace, db>>
      BY <1>7, <2>3 DEF UnlockAgain, WorkingAgain
    <3>2. QED
      BY <1>1, <1>2, <2>1, <3>1 DEF UndoLocks
  <2>4. QED
    BY <2>2, <2>3
<1>8. CASE ReleaseTarget(r)
  <2>1. UNCHANGED <<workspace, move>>
    BY <1>8 DEF ReleaseTarget
  <2>2. CASE UNCHANGED db
    BY <1>1, <1>2, <2>1, <2>2 DEF UndoLocks
  <2>3. CASE ~UNCHANGED db
    <3>1. undo[r].target # None /\ db' = [db EXCEPT ![undo[r].target].alive = FALSE]
      BY <1>8, <2>3 DEF ReleaseTarget
    <3>2. undo[r].target \in Database
      BY <1>0, <3>1, Names DEF AnUndo
    <3>3. \A d \in Database : /\ db'[d].alive => db[d].alive
                              /\ db'[d].key = db[d].key /\ db'[d].readOnly = db[d].readOnly
      BY <1>0, <3>1, <3>2 DEF PlacesTyped, ADatabase
    <3>4. QED
      BY <2>1, <3>3 DEF UndoNotes, UndoLocks, SameLocks, SameLock
  <2>4. QED
    BY <2>2, <2>3
<1>9. CASE MarkReleased(r)
  <2>1. /\ UNCHANGED <<workspace, db>> /\ At(r, "release-mark")
        /\ move' = [move EXCEPT ![undo[r].of].marks = undo[r].marks \cup {"released"}]
    BY <1>9 DEF MarkReleased
  <2>2. undo[r].of \in Move
    BY <2>1, Names DEF At, Typing, Started, Undone
  <2>3. \A o \in Move : \/ move'[o].marks = move[o].marks
                        \/ o = undo[r].of /\ move'[o].marks = undo[r].marks \cup {"released"}
    BY <1>0, <2>1, <2>2 DEF AMove
  <2>4. QED
    BY <1>1, <2>1, <2>3 DEF UndoNotes, UndoLocks
<1>10. CASE Close(r)
  <2>1. UNCHANGED <<workspace, db>>
    BY <1>10 DEF Close
  <2>2. \A o \in Move : move'[o].marks = move[o].marks
    <3>1. CASE UNCHANGED move
      BY <3>1
    <3>2. CASE ~UNCHANGED move
      <4>1. PICK status : move' = [move EXCEPT ![undo[r].of].status = status]
        BY <1>10, <3>2 DEF Close
      <4>2. QED
        BY <1>0, <4>1 DEF AMove
    <3>3. QED
      BY <3>1, <3>2
  <2>3. QED
    BY <1>1, <2>1, <2>2 DEF UndoNotes, UndoLocks
<1>11. CASE UndoFails(r)
  BY <1>1, <1>2, <1>11 DEF UndoFails, UndoLocks
<1>12. QED
  BY <1>4, <1>5, <1>6, <1>7, <1>8, <1>9, <1>10, <1>11 DEF Undoes, UndoStep

(* It ends, ...                                                            *)
LEMMA EndsPlaces ==
    ASSUME Typing, NEW r \in Runner, Undone(r), NEW how \in {"done", "error"}, Ends(r, how)
    PROVE  /\ UndoPlaces(r) /\ undo'[r].phase = how /\ how \notin Undoing
           /\ how = "error" /\ r # Admin => flow'[r].step = "dead"
<1>1. undo'[r].phase = how
  BY DEF Ends, Idle, Typing, Typed, MovesTyped
<1>2. how \notin Undoing
  BY Names
<1>3. how = "error" /\ r # Admin => flow'[r].step = "dead"
  <2> SUFFICES ASSUME how = "error", r # Admin PROVE flow'[r].step = "dead"
    OBVIOUS
  <2>1. r \in Move /\ flow' = [flow EXCEPT ![r].step = "dead"]
    BY DEF Ends, Runner
  <2>2. QED
    BY <2>1 DEF Typing, Typed, MovesTyped, AFlow
<1>4. UndoPlaces(r)
  BY <1>1, <1>2 DEF UndoPlaces, Undoing, Late
<1>5. QED
  BY <1>1, <1>2, <1>3, <1>4

(* ... it starts again, ...                                                *)
LEMMA ThrowsPlaces ==
    ASSUME Typing, NEW r \in Runner, Undone(r), Throws(r)
    PROVE  UndoPlaces(r) /\ UndoEnds(r)
<1>1. CASE Ends(r, "error")
  BY <1>1, EndsPlaces DEF UndoEnds
<1>2. CASE ~Ends(r, "error")
  <2> DEFINE u == [Idle EXCEPT !.phase = "load", !.of = r, !.outcome = undo[r].outcome]
  <2>1. undo' = [undo EXCEPT ![r] = u] /\ r # Admin
    BY <1>2 DEF Throws
  <2>2. u.phase = "load" /\ u.of = r /\ u.marks = {} /\ u.target = None
    BY DEF Idle
  <2> HIDE DEF u
  <2>3. undo'[r] = u
    BY <2>1 DEF Typing, Typed, MovesTyped
  <2>4. QED
    BY <2>1, <2>2, <2>3 DEF UndoPlaces, UndoEnds, Runner, Undoing, Late
<1>3. QED
  BY <1>1, <1>2

(* ... and it goes on without what has failed.                             *)
LEMMA TroubledPlaces ==
    ASSUME Typing, NEW r \in Runner, Undone(r), ~At(r, "load"), NEW next \in {"release", "close"},
           Troubled(r, next)
    PROVE  UndoPlaces(r) /\ UndoEnds(r)
<1> DEFINE u == undo[r]
           v == [u EXCEPT !.phase = next, !.problem = TRUE, !.from = None, !.with = 0, !.key = 0]
<1>1. u \in AnUndo
  BY DEF Typing, Typed, MovesTyped
<1>2. /\ v.phase = next /\ v.problem /\ v.of = u.of /\ v.marks = u.marks /\ v.target = u.target
  BY <1>1 DEF AnUndo
<1>3. undo' = [undo EXCEPT ![r] = v]
  BY DEF Troubled
<1> HIDE DEF v
<1>4. undo'[r] = v
  BY <1>3 DEF Typing, Typed, MovesTyped
<1>5. QED
  BY <1>2, <1>4 DEF UndoPlaces, UndoEnds, Undoing, Late, At

LEMMA UndoPlacesOnly ==
    ASSUME Typing, NEW r \in Runner, Undoes(r)
    PROVE  UndoPlaces(r) /\ UndoEnds(r)
<1> DEFINE u == undo[r]
<1>0. u \in AnUndo /\ undo \in [Runner -> AnUndo] /\ PlacesTyped
  BY DEF Typing, Typed, MovesTyped
<1>1. Undone(r)
  BY UndoGoes DEF Typing, Undoes, UndoGoesOn
<1>2. CASE UndoLoads(r)
  <2>1. CASE Completed(u.of)
    <3>1. Ends(r, "done") /\ At(r, "load")
      BY <1>2, <2>1 DEF UndoLoads, Completed
    <3>2. QED
      BY <1>1, <2>1, <3>1, EndsPlaces DEF UndoEnds
  <2>2. CASE ~Completed(u.of)
    <3>1. PICK outcome :
              undo' = [undo EXCEPT ![r].phase = "look", ![r].marks = move[u.of].marks,
                                   ![r].target = move[u.of].target, ![r].outcome = outcome]
      BY <1>2, <2>2 DEF UndoLoads, Completed
    <3>2. /\ undo'[r].phase = "look" /\ undo'[r].of = u.of /\ undo'[r].marks = move[u.of].marks
          /\ undo'[r].target = move[u.of].target
      BY <1>0, <3>1 DEF AnUndo
    <3>3. u.phase = "load"
      BY <1>2 DEF UndoLoads, At
    <3>4. QED
      BY <3>2, <3>3 DEF UndoPlaces, UndoEnds, Undoing, Late
  <2>3. QED
    BY <2>1, <2>2
<1>3. CASE UndoLooks(r)
  <2>1. CASE Ends(r, "error")
    BY <1>1, <2>1, EndsPlaces DEF UndoEnds
  <2>2. CASE ~Ends(r, "error")
    <3> DEFINE locked == "lockStarted" \in u.marks /\ AtSource(u.of)
    <3>1. undo' = [undo EXCEPT ![r].phase = IF locked THEN "unlock" ELSE "release",
                               ![r].from = IF locked THEN workspace.at ELSE None,
                               ![r].with = IF locked THEN workspace.key ELSE 0]
      BY <1>3, <2>2 DEF UndoLooks
    <3>2. /\ undo'[r].phase = (IF locked THEN "unlock" ELSE "release") /\ undo'[r].of = u.of
          /\ undo'[r].marks = u.marks /\ undo'[r].target = u.target
          /\ undo'[r].from = (IF locked THEN workspace.at ELSE None)
          /\ undo'[r].with = (IF locked THEN workspace.key ELSE 0)
      BY <1>0, <3>1 DEF AnUndo
    <3>3. u.phase = "look"
      BY <1>3 DEF UndoLooks, At
    <3>4. QED
      BY <3>2, <3>3 DEF UndoPlaces, UndoEnds, Undoing, Late
  <2>3. QED
    BY <2>1, <2>2
<1>4. CASE Unlock(r)
  <2>1. u.phase = "unlock"
    BY <1>4 DEF Unlock, At
  <2>2. CASE Working0(r)
    <3>1. undo' = [undo EXCEPT ![r].phase = "release", ![r].with = 0, ![r].from = None]
      BY <1>4, <2>2 DEF Unlock, Working0
    <3>2. /\ undo'[r].phase = "release" /\ undo'[r].of = u.of /\ undo'[r].marks = u.marks
          /\ undo'[r].target = u.target
      BY <1>0, <3>1 DEF AnUndo
    <3>3. QED
      BY <1>4, <2>1, <2>2, <3>2 DEF UndoPlaces, UndoEnds, Undoing, Late
  <2>3. CASE ~Working0(r)
    <3>1. undo' = [undo EXCEPT ![r].phase = "unlock-store", ![r].with = 0, ![r].key = db[u.from].key + 1]
      BY <1>4, <2>3 DEF Unlock, Working0
    <3>2. /\ undo'[r].phase = "unlock-store" /\ undo'[r].of = u.of /\ undo'[r].marks = u.marks
          /\ undo'[r].target = u.target /\ undo'[r].from = u.from /\ undo'[r].key = db[u.from].key + 1
      BY <1>0, <3>1 DEF AnUndo
    <3>3. QED
      BY <1>4, <2>1, <2>3, <3>2 DEF UndoPlaces, UndoEnds, Undoing, Late
  <2>4. QED
    BY <2>2, <2>3
<1>5. CASE UnlockStores(r)
  <2>1. u.phase = "unlock-store"
    BY <1>5 DEF UnlockStores, At
  <2>2. CASE AtSource(u.of)
    <3>1. undo' = [undo EXCEPT ![r].phase = "unlock-again"]
      BY <1>5, <2>2 DEF UnlockStores
    <3>2. /\ undo'[r].phase = "unlock-again" /\ undo'[r].of = u.of /\ undo'[r].marks = u.marks
          /\ undo'[r].target = u.target /\ undo'[r].from = u.from /\ undo'[r].key = u.key
      BY <1>0, <3>1 DEF AnUndo
    <3>3. QED
      BY <1>5, <2>1, <2>2, <3>2 DEF UndoPlaces, UndoEnds, Undoing, Late
  <2>3. CASE ~AtSource(u.of)
    <3>1. Troubled(r, "release")
      BY <1>5, <2>3 DEF UnlockStores
    <3>2. QED
      BY <1>1, <2>1, <3>1, TroubledPlaces DEF At
  <2>4. QED
    BY <2>2, <2>3
<1>6. CASE UnlockAgain(r)
  <2>1. u.phase = "unlock-again"
    BY <1>6 DEF UnlockAgain, At
  <2>2. CASE WorkingAgain(r)
    <3>1. undo' = [undo EXCEPT ![r].phase = "release", ![r].from = None, ![r].key = 0]
      BY <1>6, <2>2 DEF UnlockAgain, WorkingAgain
    <3>2. /\ undo'[r].phase = "release" /\ undo'[r].of = u.of /\ undo'[r].marks = u.marks
          /\ undo'[r].target = u.target
      BY <1>0, <3>1 DEF AnUndo
    <3>3. QED
      BY <1>6, <2>1, <2>2, <3>2 DEF UndoPlaces, UndoEnds, Undoing, Late
  <2>3. CASE ~WorkingAgain(r)
    <3>1. Troubled(r, "release")
      BY <1>6, <2>3 DEF UnlockAgain, WorkingAgain
    <3>2. QED
      BY <1>1, <2>1, <3>1, TroubledPlaces DEF At
  <2>4. QED
    BY <2>2, <2>3
<1>7. CASE ReleaseTarget(r)
  <2>1. u.phase = "release"
    BY <1>7 DEF ReleaseTarget, At
  <2>2. PICK next \in {"close", "release-mark"} :
            /\ undo' = [undo EXCEPT ![r].phase = next]
            /\ next = "close" => u.target = None \/ "released" \in u.marks
            /\ next = "release-mark" => /\ ~(u.target = None \/ "released" \in u.marks)
                                        /\ db' = [db EXCEPT ![u.target].alive = FALSE]
    BY <1>7 DEF ReleaseTarget
  <2>3. /\ undo'[r].phase = next /\ undo'[r].of = u.of /\ undo'[r].marks = u.marks
        /\ undo'[r].target = u.target /\ undo'[r].problem = u.problem
    BY <1>0, <2>2 DEF AnUndo
  <2>4. QED
    BY <2>1, <2>2, <2>3 DEF UndoPlaces, UndoEnds, Undoing, Late
<1>8. CASE MarkReleased(r)
  <2>1. u.phase = "release-mark" /\ undo' = [undo EXCEPT ![r].phase = "close"]
    BY <1>8 DEF MarkReleased, At
  <2>2. /\ undo'[r].phase = "close" /\ undo'[r].of = u.of /\ undo'[r].marks = u.marks
        /\ undo'[r].target = u.target /\ undo'[r].problem = u.problem
    BY <1>0, <2>1 DEF AnUndo
  <2>3. QED
    BY <2>1, <2>2 DEF UndoPlaces, UndoEnds, Undoing, Late
<1>9. CASE Close(r)
  <2>1. CASE u.problem
    BY <1>1, <1>9, <2>1, ThrowsPlaces DEF Close
  <2>2. CASE ~u.problem
    <3>1. (Ends(r, "done") \/ Throws(r)) /\ At(r, "close")
      BY <1>9, <2>2 DEF Close
    <3>2. QED
      BY <1>1, <2>2, <3>1, EndsPlaces, ThrowsPlaces DEF UndoEnds
  <2>3. QED
    BY <2>1, <2>2
<1>10. CASE UndoFails(r)
  <2>1. CASE undo[r].phase \in {"unlock", "unlock-store", "unlock-again"} /\ Troubled(r, "release")
    BY <1>1, <2>1, TroubledPlaces DEF At
  <2>2. CASE undo[r].phase \in {"release", "release-mark"} /\ Troubled(r, "close")
    BY <1>1, <2>2, TroubledPlaces DEF At
  <2>3. CASE Throws(r)
    BY <1>1, <2>3, ThrowsPlaces
  <2>4. QED
    BY <1>10, <2>1, <2>2, <2>3 DEF UndoFails
<1>11. QED
  BY <1>2, <1>3, <1>4, <1>5, <1>6, <1>7, <1>8, <1>9, <1>10 DEF Undoes, UndoStep

(* Every other step leaves passwords, locks and notes as they are: a move  *)
(* is asked for or started, a recovery begins, or a database is dropped.   *)
Otherwise ==
    /\ SameLocks
    /\ \A d \in Database : db'[d].alive => db[d].alive
    /\ \A m \in Move :
           /\ move'[m].marks = move[m].marks /\ move'[m].target = move[m].target
           /\ move'[m].source = move[m].source \/ move[m].status = "none"
           /\ \/ flow'[m] = flow[m]
              \/ /\ Start(m) /\ flow[m].step = "none" /\ flow'[m].step \in {"begin", "dead"}
                 /\ flow'[m].seen = flow[m].seen /\ flow'[m].made = flow[m].made
    /\ \A r \in Runner :
           \/ undo'[r] = undo[r]
           \/ /\ r = Admin /\ ~Undone(r) /\ undo'[r].phase = "load"
              /\ undo'[r].marks = {} /\ undo'[r].target = None

LEMMA StepsAre ==
    ASSUME Typing, [Next]_vars
    PROVE  (\E m \in Move : Flows(m)) \/ (\E r \in Runner : Undoes(r)) \/ Otherwise
<1>0. /\ PlacesTyped /\ move \in [Move -> AMove] /\ flow \in [Move -> AFlow] /\ undo \in [Runner -> AnUndo]
      /\ \A d \in Database : db[d] \in ADatabase
  BY DEF Typing, Typed, MovesTyped, PlacesTyped
<1> DEFINE Places == SameLocks /\ \A d \in Database : db'[d].alive => db[d].alive
           SameRow(m) == /\ move'[m].marks = move[m].marks /\ move'[m].target = move[m].target
                         /\ move'[m].source = move[m].source
<1>1. UNCHANGED <<workspace, db>> => Places
  BY DEF SameLocks, SameLock
<1>2. CASE UNCHANGED vars
  BY <1>1, <1>2 DEF vars, Otherwise
<1>3. ASSUME NEW m \in Move, Ask(m) PROVE Otherwise
  <2>1. /\ move' = [move EXCEPT ![m].status = "asked", ![m].source = workspace.at]
        /\ move[m].status = "none" /\ UNCHANGED <<workspace, db, flow, undo>>
    BY <1>3 DEF Ask
  <2>2. /\ \A o \in Move \ {m} : move'[o] = move[o]
        /\ move'[m].marks = move[m].marks /\ move'[m].target = move[m].target
    BY <1>0, <2>1 DEF AMove
  <2>3. QED
    BY <1>1, <2>1, <2>2 DEF Otherwise
<1>4. ASSUME NEW m \in Move, Start(m) PROVE Otherwise
  <2>1. /\ move[m].status = "asked" /\ UNCHANGED <<workspace, db, undo>>
        /\ \E b \in BOOLEAN : \/ move' = [move EXCEPT ![m].status = "queued"]
                              \/ move' = [move EXCEPT ![m].status = "queued", ![m].unstarted = b]
        /\ \E step \in {"begin", "dead"} : flow' = [flow EXCEPT ![m].step = step]
    BY <1>4 DEF Start
  <2>2. \A o \in Move : SameRow(o)
    BY <1>0, <2>1 DEF AMove
  <2>3. /\ \A o \in Move \ {m} : flow'[o] = flow[o]
        /\ flow'[m].step \in {"begin", "dead"} /\ flow'[m].seen = flow[m].seen /\ flow'[m].made = flow[m].made
    BY <1>0, <2>1 DEF AFlow
  <2>4. flow[m].step = "none"
    BY <2>1 DEF Typing, Started
  <2>5. QED
    BY <1>1, <1>4, <2>1, <2>2, <2>3, <2>4 DEF Otherwise
<1>5. ASSUME NEW m \in Move, CloseUnstarted(m) \/ Cancel(m) PROVE Otherwise
  <2>1. /\ UNCHANGED <<workspace, db, flow, undo>>
        /\ \/ move' = [move EXCEPT ![m].status = "failed", ![m].unstarted = FALSE]
           \/ move' = [move EXCEPT ![m].status = "cancelling", ![m].cancelled = TRUE]
    BY <1>5 DEF CloseUnstarted, Cancel
  <2>2. \A o \in Move : SameRow(o)
    BY <1>0, <2>1 DEF AMove
  <2>3. QED
    BY <1>1, <2>1, <2>2 DEF Otherwise
<1>6. ASSUME NEW m \in Move, Recover(m) PROVE Otherwise
  <2>1. PICK outcome : undo' = [undo EXCEPT ![Admin] = [Idle EXCEPT !.phase = "load", !.of = m, !.outcome = outcome]]
    BY <1>6 DEF Recover
  <2>2. UNCHANGED <<workspace, db, move, flow>> /\ undo[Admin].phase \in {"idle", "done", "error"}
    BY <1>6 DEF Recover
  <2>3. /\ undo'[Admin].phase = "load" /\ undo'[Admin].marks = {} /\ undo'[Admin].target = None
        /\ \A r \in Runner \ {Admin} : undo'[r] = undo[r]
    BY <1>0, <2>1, Names DEF Idle
  <2>4. ~Undone(Admin)
    BY <2>2, Names DEF Undone
  <2>5. QED
    BY <1>1, <2>2, <2>3, <2>4 DEF Otherwise
<1>7. ASSUME NEW m \in Move, DropRetained(m) PROVE Otherwise
  <2>1. db' = [db EXCEPT ![move[m].source].alive = FALSE] /\ UNCHANGED <<workspace, move, flow, undo>>
    BY <1>7 DEF DropRetained
  <2>2. \A d \in Database : /\ db'[d].alive => db[d].alive
                            /\ db'[d].key = db[d].key /\ db'[d].readOnly = db[d].readOnly
    BY <1>0, <2>1 DEF PlacesTyped, ADatabase
  <2>3. QED
    BY <2>1, <2>2 DEF Otherwise, SameLocks, SameLock
<1>8. ASSUME NEW w \in Writer, Resolve(w) \/ Connect(w) PROVE Otherwise
  BY <1>1, <1>8 DEF Resolve, Connect, Otherwise
<1>9. ASSUME NEW w \in Writer, Write(w) PROVE Otherwise
  <2>1. db' = [db EXCEPT ![writer[w].at].rows = @ \cup {w}] /\ UNCHANGED <<workspace, move, flow, undo>>
    BY <1>9 DEF Write
  <2>2. \A d \in Database : /\ db'[d].alive => db[d].alive
                            /\ db'[d].key = db[d].key /\ db'[d].readOnly = db[d].readOnly
    BY <1>0, <2>1 DEF PlacesTyped, ADatabase
  <2>3. QED
    BY <2>1, <2>2 DEF Otherwise, SameLocks, SameLock
<1>10. QED
  BY <1>2, <1>3, <1>4, <1>5, <1>6, <1>7, <1>8, <1>9, NextIs

-----------------------------------------------------------------------------
(* Who is at work, and what was noted.                                     *)

(* One workflow at a time is started and not over.                         *)
OneWorks == \A m, o \in Move : ~Quiet(m) /\ ~Quiet(o) => m = o

(* It undoes its own move.                                                 *)
OwnUndo == \A m \in Move : Undone(m) => undo[m].of = m

(* A database that is read-only was locked for a move.                     *)
LockedSources ==
    /\ \A m \in Move : move[m].status = "none" => move[m].source = None
    /\ \A d \in Database : db[d].readOnly => \E m \in Move : move[m].source = d

CancellingSaid == \A m \in Move : move[m].status = "cancelling" => move[m].cancelled

(* That the lock began is noted for good: no undo at work will save the    *)
(* progress it read without the note.                                      *)
Loaded(r, m) == Undone(r) /\ ~At(r, "load") /\ undo[r].of = m
Noted(m) ==
    /\ Marked(m, "lockStarted")
    /\ \A r \in Runner : Loaded(r, m) => "lockStarted" \in undo[r].marks

(* It is while the workflow is past its note, and in what it saves later.  *)
LockNoted ==
    /\ \A m \in Move : flow[m].step \in {"prepare-mark", "copy-mark"} => "lockStarted" \in flow[m].seen
    /\ \A m \in Move : flow[m].step \in Locks => Noted(m)

(* A move that is known of has its source.                                 *)
LEMMA SourceStays ==
    ASSUME Known, Placed, [Next]_vars, NEW m \in Move, move[m].status # "none"
    PROVE  move'[m].source = move[m].source /\ move[m].source \in Database
  BY Completes DEF RowsStayOver, Ask, Known, Typing, Started

(* A workflow that goes on is its move's, ...                              *)
LEMMA FlowIs ==
    ASSUME Known, NEW m \in Move, Flows(m)
    PROVE  /\ Working(m) /\ ~Quiet(m) /\ ~Undone(m) /\ move[m].status \notin {"none", "asked"}
           /\ Others(m) /\ RowGoesOn(m) /\ FlowGoesOn(m)
           /\ undo'[m] = undo[m] \/ At(m, "load")' 
           /\ flow'[m].step \in Step \cup {"done", "undo"}
<1>1. Others(m) /\ RowGoesOn(m) /\ FlowGoesOn(m) /\ Working(m)
  BY FlowGoes DEF Known, Typing, Flows, FlowGoesOn
<1>2. ~Quiet(m) /\ ~Undone(m) /\ move[m].status \notin {"none", "asked"}
  BY <1>1, Names DEF Quiet, Working, Known, Typing, Carried, Started
<1>3. QED
  BY <1>1, <1>2 DEF FlowGoesOn, At

(* ... and so is an undo of its own.                                       *)
LEMMA UndoIs ==
    ASSUME Known, NEW r \in Runner, Undoes(r)
    PROVE  /\ Undone(r) /\ undo[r].of \in Move /\ move[undo[r].of].status \notin {"none", "asked"}
           /\ UndoGoesOn(r) /\ RowsGetOver(r) /\ PlacesGoBack(r)
           /\ r \in Move => flow[r].step = "undo" /\ ~Quiet(r) /\ ~Working(r)
           /\ \A m \in Move : flow'[m] = flow[m] \/ (m = r /\ flow'[m].step \in {"done", "dead"})
<1>1. UndoGoesOn(r) /\ RowsGetOver(r) /\ PlacesGoBack(r)
  BY UndoGoes DEF Known, Typing, Undoes
<1>2. Undone(r) /\ undo[r].of \in Move /\ move[undo[r].of].status \notin {"none", "asked"}
  BY <1>1 DEF UndoGoesOn, Known, Typing, Started
<1>3. r \in Move => flow[r].step = "undo" /\ ~Quiet(r) /\ ~Working(r)
  BY <1>2, Names DEF Quiet, Working, Known, Typing, Carried
<1>4. ASSUME NEW m \in Move PROVE flow'[m] = flow[m] \/ (m = r /\ flow'[m].step \in {"done", "dead"})
  BY <1>1 DEF UndoGoesOn
<1>5. QED
  BY <1>1, <1>2, <1>3, <1>4

LEMMA OneWorksKept ==
    ASSUME ~Overlap, Known, OneWorks, [Next]_vars
    PROVE  OneWorks'
<1>1. ASSUME \A m \in Move : ~Quiet(m)' => ~Quiet(m) PROVE OneWorks'
  BY <1>1 DEF OneWorks
<1>2. CASE \E m \in Move : Flows(m)
  BY <1>1, <1>2, FlowIs DEF Others, Quiet
<1>3. CASE \E r \in Runner : Undoes(r)
  BY <1>1, <1>3, UndoIs DEF Quiet
<1>4. CASE Otherwise
  <2>1. CASE \E m \in Move : Start(m)
    <3>1. PICK m \in Move : Start(m)
      BY <2>1
    <3>2. NobodyActs /\ \A o \in Move \ {m} : flow'[o] = flow[o]
      BY <3>1, StartGoes DEF Known, Typing
    <3>3. QED
      BY <3>2 DEF NobodyActs, OneWorks, Quiet
  <2>2. CASE ~\E m \in Move : Start(m)
    BY <1>1, <1>4, <2>2 DEF Otherwise, Quiet
  <2>3. QED
    BY <2>1, <2>2
<1>5. QED
  BY <1>2, <1>3, <1>4, StepsAre DEF Known

LEMMA OwnUndoKept ==
    ASSUME Known, OwnUndo, [Next]_vars
    PROVE  OwnUndo'
<1>1. CASE \E m \in Move : Flows(m)
  <2>1. PICK m \in Move : Flows(m)
    BY <1>1
  <2>2. Others(m) /\ FlowGoesOn(m)
    BY <2>1, FlowIs
  <2>3. QED
    BY <2>2, Names DEF Others, FlowGoesOn, OwnUndo, Undone
<1>2. CASE \E r \in Runner : Undoes(r)
  <2>1. PICK r \in Runner : Undoes(r)
    BY <1>2
  <2>2. UndoGoesOn(r)
    BY <2>1, UndoIs
  <2>3. QED
    BY <2>2, Names DEF UndoGoesOn, OwnUndo, Undone
<1>3. CASE Otherwise
  BY <1>3, Names, DistinctNames DEF Otherwise, OwnUndo, Undone
<1>4. QED
  BY <1>1, <1>2, <1>3, StepsAre DEF Known

(* Locks are set for a source.                                             *)
LEMMA LockedSourcesKept ==
    ASSUME Known, Placed, LockedSources, [Next]_vars
    PROVE  LockedSources'
<1>1. ASSUME NEW m \in Move, move'[m].status = "none"
      PROVE  move[m].status = "none" /\ move'[m].source = move[m].source
  <2>1. CASE \E o \in Move : Flows(o)
    <3>1. PICK o \in Move : Flows(o)
      BY <2>1
    <3>2. Others(o) /\ RowGoesOn(o)
      BY <3>1, FlowIs
    <3>3. QED
      BY <1>1, <3>2, Names DEF Others, RowGoesOn
  <2>2. CASE \E r \in Runner : Undoes(r)
    <3>1. PICK r \in Runner : Undoes(r)
      BY <2>2
    <3>2. RowsGetOver(r)
      BY <3>1, UndoIs
    <3>3. QED
      BY <1>1, <3>2, Names DEF RowsGetOver
  <2>3. ASSUME NEW o \in Move, Ask(o) \/ Start(o) \/ CloseUnstarted(o) \/ Cancel(o)
        PROVE  move[m].status = "none" /\ move'[m].source = move[m].source
    <3>1. SameRowBut(o) /\ move'[o].status \in {"asked", "queued", "failed", "cancelling"}
      BY <2>3, AskGoes, StartGoes, CloseGoes, CancelGoes DEF Known, Typing
    <3>2. QED
      BY <1>1, <3>1 DEF SameRowBut
  <2>4. CASE UNCHANGED move
    BY <1>1, <2>4
  <2>5. QED
    BY <2>1, <2>2, <2>3, <2>4, NextIs DEF vars, Recover, DropRetained, Resolve, Connect, Write
<1>2. ASSUME NEW d \in Database, NEW m \in Move, move[m].source = d PROVE move'[m].source = d
  <2>1. move[m].status # "none"
    BY <1>2, DistinctNames DEF LockedSources
  <2>2. QED
    BY <1>2, <2>1, SourceStays
<1>3. ASSUME NEW d \in Database, db'[d].readOnly, ~db[d].readOnly
      PROVE  \E m \in Move : move'[m].source = d
  <2>1. ~SameLocks
    BY <1>3 DEF SameLocks, SameLock
  <2>2. CASE \E m \in Move : Flows(m)
    <3>1. PICK m \in Move : Flows(m)
      BY <2>2
    <3>2. FlowLocks(m) /\ move[m].source \in Database
      BY <3>1, FlowIs, FlowLocksOnly, SourceStays DEF Known
    <3>3. SetReadOnly(m) \/ RotatePassword(m)
      BY <1>3, <2>1, <3>2 DEF FlowLocks, StoreUrl, SwitchWorkspace
    <3>4. move[m].source = d
      <4>1. \/ db' = [db EXCEPT ![move[m].source].readOnly = TRUE]
            \/ db' = [db EXCEPT ![move[m].source].key = @ + 1]
        BY <3>3 DEF SetReadOnly, RotatePassword
      <4>2. QED
        BY <1>3, <3>2, <4>1 DEF Known, Typing, Typed, PlacesTyped, ADatabase
    <3>5. QED
      BY <1>2, <3>4
  <2>3. CASE \E r \in Runner : Undoes(r)
    <3>1. PICK r \in Runner : Undoes(r)
      BY <2>3
    <3>2. UndoLocks(r)
      BY <3>1, UndoLocksOnly DEF Known
    <3>3. Unlock(r) \/ UnlockAgain(r)
      BY <1>3, <2>1, <3>2 DEF UndoLocks, UnlockStores
    <3>4. \/ UNCHANGED db
          \/ db' = [db EXCEPT ![undo[r].from].readOnly = FALSE]
          \/ db' = [db EXCEPT ![undo[r].from].key = @ + 1]
      BY <3>3 DEF Unlock, UnlockAgain
    <3>5. QED
      BY <1>3, <3>4 DEF Known, Typing, Typed, PlacesTyped, ADatabase
  <2>4. QED
    BY <2>1, <2>2, <2>3, StepsAre DEF Known, Otherwise
<1>4. QED
  BY <1>1, <1>2, <1>3 DEF LockedSources

LEMMA CancellingSaidKept ==
    ASSUME Known, CancellingSaid, [Next]_vars
    PROVE  CancellingSaid'
<1> SUFFICES ASSUME NEW m \in Move, move'[m].status = "cancelling" PROVE move'[m].cancelled
  BY DEF CancellingSaid
<1>1. CASE \E o \in Move : Flows(o)
  <2>1. PICK o \in Move : Flows(o)
    BY <1>1
  <2>2. Others(o) /\ RowGoesOn(o)
    BY <2>1, FlowIs
  <2>3. QED
    BY <2>2 DEF Others, RowGoesOn, CancellingSaid
<1>2. CASE \E r \in Runner : Undoes(r)
  <2>1. PICK r \in Runner : Undoes(r)
    BY <1>2
  <2>2. RowsGetOver(r)
    BY <2>1, UndoIs
  <2>3. QED
    BY <2>2 DEF RowsGetOver, CancellingSaid, Outcome
<1>3. ASSUME NEW o \in Move, Ask(o) \/ Start(o) \/ CloseUnstarted(o) \/ Cancel(o)
      PROVE  move'[m].cancelled
  <2>1. SameRowBut(o) /\ (move'[o].status \in {"asked", "queued", "failed"} \/ move'[o].cancelled)
    BY <1>3, AskGoes, StartGoes, CloseGoes, CancelGoes DEF Known, Typing
  <2>2. QED
    BY <2>1 DEF SameRowBut, CancellingSaid
<1>4. CASE UNCHANGED move
  BY <1>4 DEF CancellingSaid
<1>5. QED
  BY <1>1, <1>2, <1>3, <1>4, NextIs DEF vars, Recover, DropRetained, Resolve, Connect, Write

(* What is noted stays noted.                                              *)
LEMMA NotedStays ==
    ASSUME Known, OwnUndo, LockNoted, [Next]_vars, NEW m \in Move, Noted(m)
    PROVE  Noted(m)'
<1>0. "lockStarted" \in move[m].marks
  BY DEF Noted, Marked
<1>1. CASE \E o \in Move : Flows(o)
  <2>1. PICK o \in Move : Flows(o)
    BY <1>1
  <2>2. Others(o) /\ FlowNotes(o) /\ (undo'[o] = undo[o] \/ At(o, "load")')
    BY <2>1, FlowIs, FlowNotesOnly DEF Known
  <2>3. "lockStarted" \in move'[m].marks
    BY <1>0, <2>2 DEF Others, FlowNotes, RowNotes, LockNoted
  <2>4. ASSUME NEW r \in Runner, Loaded(r, m)' PROVE undo'[r] = undo[r]
    BY <2>2, <2>4 DEF Others, Loaded, At
  <2>5. QED
    BY <2>3, <2>4 DEF Noted, Marked, Loaded, Undone, At
<1>2. CASE \E r \in Runner : Undoes(r)
  <2>1. PICK r \in Runner : Undoes(r)
    BY <1>2
  <2>2. UndoGoesOn(r) /\ UndoPlaces(r) /\ UndoNotes(r) /\ Undone(r)
    BY <2>1, UndoIs, UndoPlacesOnly, UndoLocksOnly DEF Known
  <2>3. "lockStarted" \in move'[m].marks
    <3>1. CASE move'[m].marks = move[m].marks
      BY <1>0, <3>1
    <3>2. CASE m = undo[r].of /\ At(r, "release-mark") /\ move'[m].marks = undo[r].marks \cup {"released"}
      BY <2>2, <3>2 DEF Noted, Loaded, At
    <3>3. QED
      BY <2>2, <3>1, <3>2 DEF UndoNotes
  <2>4. ASSUME NEW q \in Runner, Loaded(q, m)' PROVE "lockStarted" \in undo'[q].marks
    <3>1. CASE q # r
      BY <2>2, <2>4, <3>1 DEF UndoGoesOn, Noted, Loaded, Undone, At
    <3>2. CASE q = r
      <4>1. undo'[r].phase \in Undoing \ {"load"} /\ undo'[r].of = m
        BY <2>4, <3>2 DEF Loaded, Undone, At
      <4>2. /\ undo[r].of = m
            /\ \/ ~At(r, "load") /\ undo'[r].marks = undo[r].marks
               \/ undo'[r].marks = move[m].marks
        BY <2>2, <4>1 DEF UndoPlaces, At
      <4>3. QED
        BY <1>0, <2>2, <3>2, <4>2 DEF Noted, Loaded
    <3>3. QED
      BY <3>1, <3>2
  <2>5. QED
    BY <2>3, <2>4 DEF Noted, Marked
<1>3. CASE Otherwise
  <2>1. "lockStarted" \in move'[m].marks
    BY <1>0, <1>3 DEF Otherwise
  <2>2. ASSUME NEW r \in Runner, Loaded(r, m)' PROVE undo'[r] = undo[r]
    BY <1>3, <2>2 DEF Otherwise, Loaded, At
  <2>3. QED
    BY <2>1, <2>2 DEF Noted, Marked, Loaded, Undone, At
<1>4. QED
  BY <1>1, <1>2, <1>3, StepsAre DEF Known

(* A workflow that starts to lock has noted it, alone.                     *)
LEMMA LockNotedKept ==
    ASSUME Known, Alone, OwnUndo, CancellingSaid, LockNoted, [Next]_vars
    PROVE  LockNoted'
<1>0. {"begin", "dead", "done", "lock-source", "lock-mark"} \cap Locks = {} /\ {"prepare-copy", "copy"} \subseteq Locks
      /\ Locks \subseteq Step
  BY LocksAre DEF LockSteps, Step
<1>1. ASSUME NEW m \in Move, Flows(m)
      PROVE  /\ flow'[m].step \in {"prepare-mark", "copy-mark"} => "lockStarted" \in flow'[m].seen
             /\ flow'[m].step \in Locks => Noted(m)'
  <2>1. FlowNotes(m) /\ FlowGoesOn(m) /\ Others(m) /\ Working(m) /\ move[m].status \notin {"none", "asked"}
    BY <1>1, FlowIs, FlowNotesOnly DEF Known
  <2>2. flow'[m].step \in {"prepare-mark", "copy-mark"} => "lockStarted" \in flow'[m].seen
    BY <1>0, <2>1 DEF FlowNotes, LockNoted, Noted, Marked
  <2>3. ASSUME flow'[m].step \in Locks PROVE Noted(m)'
    <3>1. CASE flow[m].step \in Locks
      BY <3>1, NotedStays DEF LockNoted
    <3>2. CASE flow[m].step = "lock-source" /\ Live(m) /\ Marked(m, "lockStarted")
      <4>1. Noted(m)
        BY <2>1, <3>2 DEF Alone, Noted, Loaded
      <4>2. QED
        BY <4>1, NotedStays
    <3>3. CASE /\ flow[m].step = "lock-mark" /\ move'[m].marks = flow[m].seen \cup {"lockStarted"}
               /\ ~move[m].cancelled /\ move[m].status \notin Over
      <4>1. move[m].status \in Status /\ move[m].status # "cancelling"
        BY <3>3 DEF CancellingSaid, Known, Typing, Typed, MovesTyped, AMove
      <4>2. Live(m)
        BY <2>1, <3>3, <4>1 DEF Live, Status
      <4>3. \A r \in Runner : ~Undone(r)
        BY <2>1, <4>2 DEF Alone
      <4>4. undo' = undo
        BY <1>0, <2>1, <2>3, Names DEF FlowGoesOn
      <4>5. QED
        BY <3>3, <4>3, <4>4 DEF Noted, Marked, Loaded, Undone
    <3>4. QED
      BY <2>1, <2>3, <3>1, <3>2, <3>3 DEF FlowNotes
  <2>4. QED
    BY <2>2, <2>3
<1>2. ASSUME NEW m \in Move, flow'[m] = flow[m] \/ flow'[m].step \in {"begin", "dead", "done"}
      PROVE  /\ flow'[m].step \in {"prepare-mark", "copy-mark"} => "lockStarted" \in flow'[m].seen
             /\ flow'[m].step \in Locks => Noted(m)'
  BY <1>0, <1>2, NotedStays DEF LockNoted
<1>3. CASE \E o \in Move : Flows(o)
  BY <1>1, <1>2, <1>3, FlowIs DEF Others, LockNoted
<1>4. CASE \E r \in Runner : Undoes(r)
  BY <1>2, <1>4, UndoIs DEF LockNoted
<1>5. CASE Otherwise
  BY <1>2, <1>5 DEF Otherwise, LockNoted
<1>6. QED
  BY <1>3, <1>4, <1>5, StepsAre DEF Known

(* What is unlocked is the source of the move, ...                         *)
UnlocksSource ==
    \A r \in Runner : undo[r].phase \in Unlocking => undo[r].from = move[undo[r].of].source

LEMMA UnlocksSourceKept ==
    ASSUME Known, Placed, UnlocksSource, [Next]_vars
    PROVE  UnlocksSource'
<1>0. Unlocking \subseteq Undoing /\ "load" \notin Unlocking
  BY DEF Unlocking, Undoing
<1>1. ASSUME NEW r \in Runner, undo'[r] = undo[r]
      PROVE  undo'[r].phase \in Unlocking => undo'[r].from = move'[undo'[r].of].source
  <2> SUFFICES ASSUME undo[r].phase \in Unlocking PROVE undo[r].from = move'[undo[r].of].source
    BY <1>1
  <2>1. undo[r].of \in Move /\ move[undo[r].of].status # "none"
    BY <1>0, <1>1 DEF Known, Typing, Started, Undone
  <2>2. QED
    BY <2>1, SourceStays DEF UnlocksSource
<1>2. CASE \E m \in Move : Flows(m)
  BY <1>0, <1>1, <1>2, FlowIs DEF Others, UnlocksSource, At
<1>3. CASE \E r \in Runner : Undoes(r)
  <2>1. PICK r \in Runner : Undoes(r)
    BY <1>3
  <2>2. UndoGoesOn(r) /\ UndoPlaces(r)
    BY <2>1, UndoIs, UndoPlacesOnly DEF Known
  <2>3. undo[r].of \in Move /\ move'[undo[r].of].source = move[undo[r].of].source
    BY <2>1, UndoIs, SourceStays
  <2>4. ASSUME undo'[r].phase \in Unlocking PROVE undo'[r].from = move'[undo'[r].of].source
    <3>1. undo'[r].of = undo[r].of
      BY <1>0, <2>2, <2>4 DEF UndoPlaces
    <3>2. CASE undo'[r].phase = "unlock"
      BY <2>2, <2>3, <3>1, <3>2 DEF UndoPlaces, AtSource
    <3>3. CASE undo'[r].phase \in {"unlock-store", "unlock-again"}
      <4>1. undo'[r].from = undo[r].from /\ undo[r].phase \in Unlocking
        BY <2>2, <3>3 DEF UndoPlaces, Unlock, UnlockStores, At, Unlocking
      <4>2. QED
        BY <2>3, <3>1, <4>1 DEF UnlocksSource
    <3>4. QED
      BY <2>4, <3>2, <3>3 DEF Unlocking
  <2>5. QED
    BY <1>1, <2>2, <2>4 DEF UndoGoesOn, UnlocksSource
<1>4. CASE Otherwise
  BY <1>0, <1>1, <1>4 DEF Otherwise, UnlocksSource
<1>5. QED
  BY <1>2, <1>3, <1>4, StepsAre DEF Known

-----------------------------------------------------------------------------
(* Passwords and locks, change by change.                                  *)

(* A workflow makes a new password for the source, ...                     *)
LEMMA RotateIs ==
    ASSUME Known, NEW m \in Move, Flows(m), RotatePassword(m)
    PROVE  /\ workspace' = workspace /\ move[m].source \in Database
           /\ \A d \in Database : /\ db'[d].readOnly = db[d].readOnly
                                  /\ d # move[m].source => db'[d].key = db[d].key
           /\ db'[move[m].source].key = db[move[m].source].key + 1
           /\ flow[m].step = "lock-rotate" /\ flow'[m].step = "lock-store"
           /\ flow'[m].key = db[move[m].source].key + 1
<1>1. move[m].source \in Database
  BY FlowIs DEF Known, Typing, Started
<1>2. /\ db' = [db EXCEPT ![move[m].source].key = @ + 1] /\ workspace' = workspace
      /\ flow' = [flow EXCEPT ![m].step = "lock-store", ![m].key = db[move[m].source].key + 1, ![m].seen = {}]
      /\ flow[m].step = "lock-rotate"
  BY DEF RotatePassword
<1>3. db \in [Database -> ADatabase] /\ flow \in [Move -> AFlow]
  BY DEF Known, Typing, Typed, PlacesTyped, MovesTyped
<1>4. flow'[m].step = "lock-store" /\ flow'[m].key = db[move[m].source].key + 1
  BY <1>2, <1>3 DEF AFlow
<1>5. QED
  BY <1>1, <1>2, <1>3, <1>4 DEF ADatabase

(* ... makes it read-only, ...                                             *)
LEMMA LockIs ==
    ASSUME Known, NEW m \in Move, Flows(m), SetReadOnly(m)
    PROVE  /\ workspace' = workspace /\ move[m].source \in Database
           /\ \A d \in Database : /\ db'[d].key = db[d].key
                                  /\ d # move[m].source => db'[d].readOnly = db[d].readOnly
           /\ flow[m].step = "lock-alter" /\ flow'[m].step = "lock-end"
<1>1. move[m].source \in Database
  BY FlowIs DEF Known, Typing, Started
<1>2. /\ db' = [db EXCEPT ![move[m].source].readOnly = TRUE] /\ workspace' = workspace
      /\ Then(m, "lock-end") /\ flow[m].step = "lock-alter"
  BY DEF SetReadOnly
<1>3. db \in [Database -> ADatabase]
  BY DEF Known, Typing, Typed, PlacesTyped
<1>4. QED
  BY <1>1, <1>2, <1>3, ThenNotes DEF ADatabase, Known

(* ... and stores the password.                                            *)
LEMMA StoreIs ==
    ASSUME Known, NEW m \in Move, StoreUrl(m), AtSource(m)
    PROVE  /\ workspace'.at = workspace.at /\ workspace'.key = flow[m].key /\ db' = db
           /\ flow[m].step = "lock-store" /\ flow'[m].step = "lock-alter"
<1>1. /\ workspace' = [workspace EXCEPT !.key = flow[m].key] /\ db' = db
      /\ Then(m, "lock-alter") /\ flow[m].step = "lock-store"
  BY DEF StoreUrl
<1>2. workspace \in AUrl
  BY DEF Known, Typing, Typed, PlacesTyped
<1>3. QED
  BY <1>1, <1>2, ThenNotes DEF AUrl, Known

(* With the switch the workspace has the target's password.                *)
LEMMA SwitchTakesKey ==
    ASSUME Known, NEW m \in Move, SwitchWorkspace(m), MaySwitch(m)
    PROVE  workspace'.key = db'[workspace'.at].key
  BY DEF SwitchWorkspace

(* An undo unlocks, or makes a new password, ...                           *)
LEMMA UnlockIs ==
    ASSUME Known, NEW r \in Runner, Unlock(r)
    PROVE  /\ workspace' = workspace /\ undo[r].from \in Database /\ At(r, "unlock")
           /\ \A d \in Database : d # undo[r].from => SameLock(d)
           /\ Working0(r) => db'[undo[r].from].key = db[undo[r].from].key /\ ~db'[undo[r].from].readOnly
           /\ ~Working0(r) => /\ db'[undo[r].from].key = db[undo[r].from].key + 1
                              /\ db'[undo[r].from].readOnly = db[undo[r].from].readOnly
<1>1. undo[r].from \in Database /\ At(r, "unlock")
  BY DEF Unlock, At, Known, Typing, Unlocks, Unlocking
<1>2. db \in [Database -> ADatabase] /\ workspace' = workspace
  BY DEF Known, Typing, Typed, PlacesTyped, Unlock
<1>3. CASE Working0(r)
  <2>1. db' = [db EXCEPT ![undo[r].from].readOnly = FALSE]
    BY <1>3 DEF Unlock, Working0
  <2>2. QED
    BY <1>1, <1>2, <1>3, <2>1 DEF ADatabase, SameLock
<1>4. CASE ~Working0(r)
  <2>1. db' = [db EXCEPT ![undo[r].from].key = @ + 1]
    BY <1>4 DEF Unlock, Working0
  <2>2. QED
    BY <1>1, <1>2, <1>4, <2>1 DEF ADatabase, SameLock
<1>5. QED
  BY <1>3, <1>4

(* ... stores it, ...                                                      *)
LEMMA UnlockStoresIs ==
    ASSUME Known, NEW r \in Runner, UnlockStores(r), AtSource(undo[r].of)
    PROVE  /\ workspace'.at = workspace.at /\ workspace'.key = undo[r].key /\ db' = db
           /\ At(r, "unlock-store") /\ undo'[r].phase = "unlock-again" /\ undo'[r].key = undo[r].key
           /\ undo'[r].of = undo[r].of
<1>1. /\ workspace' = [workspace EXCEPT !.key = undo[r].key] /\ db' = db
      /\ undo' = [undo EXCEPT ![r].phase = "unlock-again"] /\ At(r, "unlock-store")
  BY DEF UnlockStores
<1>2. workspace \in AUrl /\ undo \in [Runner -> AnUndo]
  BY DEF Known, Typing, Typed, PlacesTyped, MovesTyped
<1>3. QED
  BY <1>1, <1>2 DEF AUrl, AnUndo

(* ... and unlocks with it.                                                *)
LEMMA UnlockAgainIs ==
    ASSUME Known, NEW r \in Runner, UnlockAgain(r), WorkingAgain(r)
    PROVE  /\ workspace' = workspace /\ undo[r].from \in Database /\ At(r, "unlock-again")
           /\ \A d \in Database : d # undo[r].from => SameLock(d)
           /\ db'[undo[r].from].key = db[undo[r].from].key /\ ~db'[undo[r].from].readOnly
<1>1. undo[r].from \in Database /\ At(r, "unlock-again")
  BY DEF UnlockAgain, At, Known, Typing, Unlocks, Unlocking
<1>2. db \in [Database -> ADatabase] /\ workspace' = workspace
  BY DEF Known, Typing, Typed, PlacesTyped, UnlockAgain
<1>3. db' = [db EXCEPT ![undo[r].from].readOnly = FALSE]
  BY DEF UnlockAgain, WorkingAgain
<1>4. QED
  BY <1>1, <1>2, <1>3 DEF ADatabase, SameLock

-----------------------------------------------------------------------------
(* Who will repair it.                                                     *)

(* An undo gave up, or its caller was told that it failed.                 *)
Excused == undo[Admin].phase = "error" \/ \E m \in Move : Dead(m)

(* Who was told so asks for no other recovery.                             *)
Heeded == undo[Admin].phase = "error" => undo'[Admin].phase = "error"

LEMMA ExcusedStays ==
    ASSUME Known, Heeded, [Next]_vars, Excused
    PROVE  Excused'
<1>1. ASSUME NEW m \in Move, Dead(m), flow'[m] = flow[m] PROVE Excused'
  BY <1>1 DEF Excused, Dead
<1>2. CASE \E o \in Move : Flows(o)
  <2>1. PICK o \in Move : Flows(o)
    BY <1>2
  <2>2. \A m \in Move \ {o} : flow'[m] = flow[m]
    BY <2>1, FlowIs DEF Others
  <2>3. ~Dead(o)
    BY <2>1, FlowIs DEF Dead, Quiet
  <2>4. QED
    BY <1>1, <2>2, <2>3 DEF Excused, Heeded
<1>3. CASE \E r \in Runner : Undoes(r)
  <2>1. PICK r \in Runner : Undoes(r)
    BY <1>3
  <2>2. \A m \in Move : flow'[m] = flow[m] \/ (m = r /\ flow[r].step = "undo")
    BY <2>1, UndoIs
  <2>3. QED
    BY <1>1, <2>2 DEF Excused, Dead, Heeded
<1>4. CASE Otherwise
  BY <1>1, <1>4 DEF Otherwise, Excused, Dead, Heeded
<1>5. QED
  BY <1>2, <1>3, <1>4, StepsAre DEF Known

(* The workspace cannot write: its password is out of date, or its         *)
(* database is locked.                                                     *)
Here == db[workspace.at]
Broken == workspace.key # Here.key \/ Here.readOnly

(* A workflow that locks the source will have it undone, ...               *)
AtWork(m) == Working(m) /\ AtSource(m) /\ Noted(m)

(* ... and an undo that knows of the lock will unlock.  With a password    *)
(* that is the database's it does so only where the workspace knows it.    *)
Sound(key) == workspace.key = key \/ Here.key # key

Repairs(r) ==
    /\ Undone(r) /\ AtSource(undo[r].of)
    /\ At(r, "load") => Marked(undo[r].of, "lockStarted")
    /\ At(r, "look") => "lockStarted" \in undo[r].marks
    /\ At(r, "unlock") => Sound(undo[r].with)
    /\ At(r, "unlock-again") => Sound(undo[r].key)
    /\ undo[r].phase \in Late => undo[r].problem
    /\ r # Admin => Noted(undo[r].of)

Repaired == ~Excused /\ Broken => (\E m \in Move : AtWork(m)) \/ (\E r \in Runner : Repairs(r))

(* Until the workflow has noted that it locks, nothing is broken, nor will *)
(* a recovery of an earlier move break it.                                 *)
Unspoilt ==
    /\ ~Broken
    /\ \A r \in Runner : /\ At(r, "unlock") => undo[r].with = workspace.key
                         /\ ~At(r, "unlock-store") /\ ~At(r, "unlock-again")
Untouched == ~Excused => \A c \in Move : ~Quiet(c) /\ AtSource(c) /\ ~Noted(c) => Unspoilt

(* The workspace is as it was. *)
SameKey == workspace' = workspace /\ db'[workspace.at].key = Here.key
SameHere == workspace' = workspace /\ SameLock(workspace.at)

LEMMA HereIs == ASSUME Known PROVE workspace.at \in Database
  BY DEF Known, Typing, Typed, PlacesTyped, AUrl

LEMMA HereKeeps == ASSUME Known, SameHere PROVE SameKey
  BY HereIs DEF SameHere, SameKey, SameLock, Here

LEMMA BrokenBefore == ASSUME SameHere PROVE Broken' <=> Broken
  BY DEF SameHere, SameLock, Broken, Here

(* A workflow at work stays at the workspace's place unless it switches.   *)
LEMMA StaysAtSource ==
    ASSUME Known, Placed, [Next]_vars, NEW m \in Move, move[m].status # "none", workspace'.at = workspace.at
    PROVE  AtSource(m)' <=> AtSource(m)
  BY SourceStays DEF AtSource

(* A runner that repairs and does not act goes on to repair.               *)
LEMMA RepairsOn ==
    ASSUME Known, Placed, OwnUndo, LockNoted, [Next]_vars, SameKey, NEW r \in Runner, Repairs(r),
           undo'[r] = undo[r],
           "lockStarted" \in move[undo[r].of].marks => "lockStarted" \in move'[undo[r].of].marks
    PROVE  Repairs(r)'
<1>1. PICK o \in Move : o = undo[r].of
  BY DEF Repairs, Known, Typing, Started
<1>2. undo'[r].of = o /\ move[o].status # "none" /\ AtSource(o)
  BY <1>1 DEF Repairs, Known, Typing, Started
<1>3. AtSource(o)'
  BY <1>2, StaysAtSource DEF SameKey
<1>4. r # Admin => Noted(o)'
  BY <1>1, NotedStays DEF Repairs
<1>5. At(r, "load") => "lockStarted" \in move'[o].marks
  BY <1>1 DEF Repairs, Marked
<1>6. \A key : workspace.key = key \/ Here.key # key => workspace'.key = key \/ db'[workspace'.at].key # key
  BY DEF SameKey, Here
<1>7. /\ At(r, "unlock") => workspace'.key = undo'[r].with \/ db'[workspace'.at].key # undo'[r].with
      /\ At(r, "unlock-again") => workspace'.key = undo'[r].key \/ db'[workspace'.at].key # undo'[r].key
  BY <1>6 DEF Repairs, Sound
<1>8. At(r, "look") => "lockStarted" \in undo'[r].marks
  BY DEF Repairs
<1>9. Undone(r) /\ (undo[r].phase \in Late => undo'[r].problem)
  BY DEF Repairs
<1>10. QED
  BY <1>2, <1>3, <1>4, <1>5, <1>7, <1>8, <1>9 DEF Repairs, Undone, At, Marked, Sound, Here

(* A workflow that locks has noted it.                                     *)
LEMMA LockersNote ==
    ASSUME Known, LockNoted, NEW m \in Move, Flows(m), RotatePassword(m) \/ SetReadOnly(m) \/ StoreUrl(m)
    PROVE  Noted(m)
<1>1. flow[m].step \in LockSteps
  BY DEF RotatePassword, SetReadOnly, StoreUrl, LockSteps
<1>2. QED
  BY <1>1, LocksAre DEF LockNoted

(* What it locks is elsewhere, or it is at work here.                      *)
LEMMA FlowHere ==
    ASSUME Known, Placed, OwnUndo, LockNoted, [Next]_vars, NEW m \in Move, Flows(m)
    PROVE  SameHere \/ Switches(m) \/ (AtWork(m)' /\ Noted(m) /\ AtSource(m))
<1>1. FlowLocks(m) /\ workspace.at \in Database
  BY FlowLocksOnly, HereIs DEF Known
<1>2. CASE SameLocks
  BY <1>1, <1>2 DEF SameLocks, SameHere
<1>3. CASE SwitchWorkspace(m) /\ MaySwitch(m)
  BY <1>3, SwitchIs
<1>4. ASSUME RotatePassword(m) \/ SetReadOnly(m) \/ StoreUrl(m), AtSource(m) PROVE AtWork(m)' /\ Noted(m)
  <2>1. Noted(m) /\ Noted(m)'
    BY <1>4, LockersNote, NotedStays
  <2>2. workspace'.at = workspace.at
    BY <1>4, StoreIs DEF RotatePassword, SetReadOnly
  <2>3. AtSource(m)'
    BY <1>4, <2>2, FlowIs, StaysAtSource
  <2>4. Working(m)'
    <3>1. flow'[m].step \in {"lock-store", "lock-end", "lock-alter"}
      BY <1>4, RotateIs, LockIs, StoreIs
    <3>2. QED
      BY <3>1, Order DEF Working, Locking, WithReady, WithTarget, Past
  <2>5. QED
    BY <2>1, <2>3, <2>4 DEF AtWork
<1>5. CASE RotatePassword(m) \/ SetReadOnly(m)
  <2>1. CASE AtSource(m)
    BY <1>4, <1>5, <2>1
  <2>2. CASE ~AtSource(m)
    BY <1>1, <1>5, <2>2, RotateIs, LockIs DEF AtSource, SameHere, SameLock
  <2>3. QED
    BY <2>1, <2>2
<1>6. QED
  BY <1>1, <1>2, <1>3, <1>4, <1>5 DEF FlowLocks

(* A switch serves: the target is not locked and its password is taken.    *)
LEMMA SwitchServes ==
    ASSUME Known, Placed, LockedSources, NEW m \in Move, Switches(m)
    PROVE  ~Broken'
<1>1. MaySwitch(m)
  BY DEF Switches, SwitchWorkspace, Completed
<1>2. workspace'.key = db'[workspace'.at].key
  BY <1>1, SwitchTakesKey DEF Switches
<1>3. workspace'.at = move[m].target /\ db' = db /\ move[m].target \in Database /\ ~Completed(m)
  BY Names DEF Switches
<1>4. ~db[move[m].target].readOnly
  <2> SUFFICES ASSUME db[move[m].target].readOnly PROVE FALSE
    OBVIOUS
  <2>1. PICK o \in Move : move[o].source = move[m].target
    BY <1>3 DEF LockedSources
  <2>2. QED
    BY <1>3, <2>1, Elsewhere
<1>5. QED
  BY <1>2, <1>3, <1>4 DEF Broken, Here

(* Nothing is spoilt before the note.                                      *)
LEMMA UntouchedKept ==
    ASSUME Known, Placed, GivesBack, Served, OneWorks, OwnUndo, LockNoted, Repaired, Untouched, Heeded,
           ~Overlap, [Next]_vars
    PROVE  Untouched'
<1> SUFFICES ASSUME ~Excused', NEW c \in Move, ~Quiet(c)', AtSource(c)', ~Noted(c)'
             PROVE  Unspoilt'
  BY DEF Untouched
<1>0. ~Excused /\ ~Noted(c)
  BY ExcusedStays, NotedStays
<1>1. ~Quiet(c) => move[c].status # "none"
  BY DEF Quiet, Known, Typing, Started
<1>2. ASSUME SameLocks, Unspoilt, \A r \in Runner : undo'[r] = undo[r] \/ undo'[r].phase = "load"
      PROVE  Unspoilt'
  <2>1. SameHere
    BY <1>2, HereIs DEF SameLocks, SameHere
  <2>2. ~Broken'
    BY <1>2, <2>1, BrokenBefore DEF Unspoilt
  <2>3. QED
    BY <1>2, <2>2 DEF Unspoilt, SameLocks, At
<1>3. ASSUME ~Quiet(c), AtSource(c) PROVE Unspoilt
  BY <1>0, <1>3 DEF Untouched
<1>4. CASE Otherwise
  <2>1. SameLocks /\ \A r \in Runner : undo'[r] = undo[r] \/ undo'[r].phase = "load"
    BY <1>4 DEF Otherwise
  <2>2. CASE ~Quiet(c)
    <3>1. AtSource(c)
      BY <1>1, <2>1, <2>2, StaysAtSource DEF SameLocks
    <3>2. QED
      BY <1>2, <1>3, <2>1, <2>2, <3>1
  <2>3. CASE Quiet(c)
    <3>1. Start(c)
      BY <1>4, <2>3 DEF Otherwise, Quiet
    <3>2. NobodyActs
      BY <3>1 DEF Start
    <3>3. \A r \in Runner : ~Undone(r)
      BY <3>2, Names DEF NobodyActs, Undone
    <3>4. \A m \in Move : ~Working(m)
      BY <3>2, Names DEF NobodyActs, Working
    <3>5. ~Broken
      BY <1>0, <3>3, <3>4 DEF Repaired, AtWork, Repairs
    <3>6. Unspoilt
      BY <3>3, <3>5 DEF Unspoilt, At, Undone, Undoing
    <3>7. QED
      BY <1>2, <2>1, <3>6
  <2>4. QED
    BY <2>2, <2>3
<1>5. CASE \E m \in Move : Flows(m)
  <2>1. PICK m \in Move : Flows(m)
    BY <1>5
  <2>2. Others(m) /\ ~Quiet(m) /\ (undo'[m] = undo[m] \/ undo'[m].phase = "load")
    BY <2>1, FlowIs DEF At
  <2>3. m = c
    <3>1. m # c => ~Quiet(c)
      BY <2>2 DEF Others, Quiet
    <3>2. QED
      BY <2>2, <3>1 DEF OneWorks
  <2>4. ~Switches(c)
    <3> SUFFICES ASSUME Switches(c) PROVE FALSE
      OBVIOUS
    <3>1. move[c].source = move[c].target /\ ~Completed(c) /\ move[c].target \in Database
      BY Names DEF Switches, AtSource
    <3>2. QED
      BY <3>1, Elsewhere
  <2>5. SameLocks
    <3>1. FlowLocks(c) /\ ~(RotatePassword(c) \/ SetReadOnly(c) \/ StoreUrl(c))
      BY <1>0, <2>1, <2>3, FlowLocksOnly, LockersNote DEF Known
    <3>2. QED
      BY <2>1, <2>3, <2>4, <3>1, SwitchIs DEF FlowLocks
  <2>6. AtSource(c)
    BY <1>1, <2>2, <2>3, <2>5, StaysAtSource DEF SameLocks
  <2>7. \A r \in Runner : undo'[r] = undo[r] \/ undo'[r].phase = "load"
    BY <2>2 DEF Others
  <2>8. QED
    BY <1>2, <1>3, <2>2, <2>3, <2>5, <2>6, <2>7
<1>6. CASE \E q \in Runner : Undoes(q)
  <2>1. PICK q \in Runner : Undoes(q)
    BY <1>6
  <2>2. UndoPlaces(q) /\ UndoLocks(q) /\ UndoGoesOn(q) /\ workspace'.at = workspace.at
    BY <2>1, UndoIs, UndoPlacesOnly, UndoLocksOnly DEF Known, PlacesGoBack
  <2>3. ~Quiet(c)
    BY <2>1, UndoIs DEF Quiet
  <2>4. AtSource(c)
    BY <1>1, <2>2, <2>3, StaysAtSource
  <2>5. Unspoilt
    BY <1>3, <2>3, <2>4
  <2>6. At(q, "unlock") => Working0(q) /\ undo[q].from = workspace.at
    BY <2>5 DEF Unspoilt, Broken, Here, Working0, Works, Served, GivesBack, At, Unlocking
  <2>7. ~UnlockStores(q) /\ ~UnlockAgain(q)
    BY <2>5 DEF Unspoilt, UnlockStores, UnlockAgain
  <2>8. workspace' = workspace /\ ~Broken'
    <3>1. CASE SameLocks
      BY <2>5, <3>1, HereIs, BrokenBefore DEF SameLocks, SameHere, Unspoilt
    <3>2. CASE Unlock(q)
      BY <2>5, <2>6, <3>2, UnlockIs DEF Unspoilt, Broken, Here
    <3>3. QED
      BY <2>2, <2>7, <3>1, <3>2 DEF UndoLocks
  <2>9. /\ At(q, "unlock")' => undo'[q].with = workspace.key
        /\ ~At(q, "unlock-store")' /\ ~At(q, "unlock-again")'
    BY <2>2, <2>6, <2>7 DEF UndoPlaces, At, Unlock
  <2>10. QED
    BY <2>2, <2>5, <2>8, <2>9 DEF Unspoilt, UndoGoesOn, At
<1>7. QED
  BY <1>4, <1>5, <1>6, StepsAre DEF Known

(* A workflow at work ends by giving up, and its undo will unlock.         *)
LEMMA AtWorkOn ==
    ASSUME Known, Placed, OwnUndo, LockNoted, [Next]_vars, NEW m \in Move, Flows(m), SameHere, AtWork(m)
    PROVE  AtWork(m)' \/ Repairs(m)'
<1>1. FlowGoesOn(m) /\ FlowNotes(m) /\ move[m].status # "none" /\ flow'[m].step \in Step \cup {"done", "undo"}
  BY FlowIs, FlowNotesOnly DEF Known
<1>2. AtSource(m)' /\ Noted(m)'
  BY <1>1, StaysAtSource, NotedStays DEF AtWork, SameHere
<1>3. CASE flow'[m].step \in Step
  BY <1>2, <1>3 DEF AtWork, Working
<1>4. CASE flow'[m].step = "done"
  <2>1. Completed(m)
    BY <1>1, <1>4 DEF FlowNotes
  <2>2. QED
    BY <2>1 DEF AtWork, AtSource, Placed, Leaves
<1>5. CASE flow'[m].step = "undo"
  <2>1. undo'[m].phase = "load" /\ undo'[m].of = m
    BY <1>1, <1>5, Names DEF FlowGoesOn
  <2>2. "load" \in Undoing \ Late
    BY DEF Undoing, Late
  <2>3. QED
    BY <1>2, <2>1, <2>2 DEF Repairs, Undone, At, Noted, Marked
<1>6. QED
  BY <1>1, <1>3, <1>4, <1>5

(* It goes on with a step of another's undo.                               *)
LEMMA AtWorkStays ==
    ASSUME Known, Placed, OwnUndo, LockNoted, [Next]_vars, NEW m \in Move, AtWork(m),
           flow'[m] = flow[m], workspace'.at = workspace.at
    PROVE  AtWork(m)'
<1>1. move[m].status # "none"
  BY Names DEF AtWork, Working, Known, Typing, Started
<1>2. AtSource(m)' /\ Noted(m)'
  BY <1>1, StaysAtSource, NotedStays DEF AtWork
<1>3. QED
  BY <1>2 DEF AtWork, Working

(* An undo that repairs goes on to repair, until an end that its caller is *)
(* told of, or makes the password with which it will.                      *)
LEMMA UndoRepairsOn ==
    ASSUME Known, Placed, OwnUndo, LockNoted, [Next]_vars, NEW q \in Runner, Undoes(q), Repairs(q),
           SameLocks, ~Unlock(q), ~(UnlockAgain(q) /\ WorkingAgain(q)),
           ~(UnlockStores(q) /\ AtSource(undo[q].of))
    PROVE  Repairs(q)' \/ Excused'
<1>1. PICK o \in Move : o = undo[q].of
  BY DEF Repairs, Known, Typing, Started
<1>2. AtSource(o) /\ move[o].status # "none" /\ (q # Admin => Noted(o))
  BY <1>1 DEF Repairs, Known, Typing, Started
<1>3. AtSource(o)' /\ (q # Admin => Noted(o)') /\ workspace' = workspace
  BY <1>2, StaysAtSource, NotedStays DEF SameLocks
<1>4. UndoPlaces(q) /\ UndoEnds(q)
  BY UndoPlacesOnly DEF Known
<1>5. CASE undo'[q].phase \notin Undoing
  <2>1. CASE undo'[q].phase = "error" /\ (q # Admin => flow'[q].step = "dead")
    BY <2>1 DEF Excused, Dead, Runner
  <2>2. CASE At(q, "load") /\ Completed(undo[q].of)
    BY <1>1, <1>2, <2>2 DEF AtSource, Placed, Leaves
  <2>3. CASE At(q, "close") /\ ~undo[q].problem
    BY <2>3 DEF Repairs, At, Late
  <2>4. QED
    BY <1>4, <1>5, <2>1, <2>2, <2>3 DEF UndoEnds
<1>6. CASE undo'[q].phase = "load"
  <2>1. q \in Move /\ undo'[q].of = q /\ q # Admin
    BY <1>4, <1>6, DistinctNames DEF UndoPlaces
  <2>2. o = q
    BY <1>1, <2>1 DEF OwnUndo, Repairs
  <2>3. "load" \in Undoing \ Late /\ Marked(o, "lockStarted")'
    BY <1>3, <2>1 DEF Undoing, Late, Noted
  <2>4. QED
    BY <1>3, <1>6, <2>1, <2>2, <2>3 DEF Repairs, Undone, At, Marked
<1>7. CASE undo'[q].phase \in Undoing \ {"load"}
  <2>1. undo'[q].of = o
    BY <1>1, <1>4, <1>7 DEF UndoPlaces
  <2>2. undo'[q].phase = "look" => "lockStarted" \in undo'[q].marks
    BY <1>1, <1>4 DEF UndoPlaces, Repairs, At, Marked, Undoing
  <2>3. undo'[q].phase = "unlock" => undo'[q].with = workspace'.key
    BY <1>3, <1>4 DEF UndoPlaces
  <2>4. undo'[q].phase # "unlock-again"
    BY <1>4 DEF UndoPlaces
  <2>5. undo'[q].phase \in Late => undo'[q].problem
    <3> SUFFICES ASSUME undo'[q].phase \in Late, ~undo'[q].problem PROVE FALSE
      OBVIOUS
    <3>1. CASE undo[q].phase = "look" /\ ~("lockStarted" \in undo[q].marks /\ AtSource(undo[q].of))
      BY <3>1 DEF Repairs, At
    <3>2. CASE undo[q].phase \in Late /\ ~undo[q].problem
      BY <3>2 DEF Repairs
    <3>3. QED
      BY <1>4, <3>1, <3>2 DEF UndoPlaces
  <2>6. QED
    BY <1>3, <1>7, <2>1, <2>2, <2>3, <2>4, <2>5 DEF Repairs, Undone, At, Sound
<1>8. QED
  BY <1>5, <1>6, <1>7

(* Where it is not the workspace's password, it makes one.                 *)
LEMMA UnlockRotates ==
    ASSUME Known, NEW q \in Runner, Unlock(q), ~Working0(q)
    PROVE  undo'[q].phase = "unlock-store" /\ undo'[q].of = undo[q].of
<1>1. undo' = [undo EXCEPT ![q].phase = "unlock-store", ![q].with = 0, ![q].key = db[undo[q].from].key + 1]
  BY DEF Unlock, Working0
<1>2. undo \in [Runner -> AnUndo]
  BY DEF Known, Typing, Typed, MovesTyped
<1>3. QED
  BY <1>1, <1>2 DEF AnUndo

(* What is broken, somebody will repair.                                   *)
LEMMA RepairedKept ==
    ASSUME Known, Placed, GivesBack, Served, OneWorks, OwnUndo, LockedSources, LockNoted, UnlocksSource,
           Repaired, Untouched, Heeded, [Next]_vars
    PROVE  Repaired'
<1> SUFFICES ASSUME ~Excused', Broken'
             PROVE  (\E m \in Move : AtWork(m)') \/ (\E r \in Runner : Repairs(r)')
  BY DEF Repaired
<1>0. ~Excused
  BY ExcusedStays
<1>1. \A m \in Move : AtWork(m) => ~Quiet(m)
  BY Names DEF AtWork, Working, Quiet
<1>2. CASE Otherwise
  <2>1. SameHere
    BY <1>2, HereIs DEF Otherwise, SameLocks, SameHere
  <2>2. Broken
    BY <2>1, BrokenBefore
  <2>3. ASSUME NEW m \in Move, AtWork(m) PROVE AtWork(m)'
    <3>1. flow'[m] = flow[m]
      BY <1>1, <1>2, <2>3 DEF Otherwise, Quiet
    <3>2. QED
      BY <2>1, <2>3, <3>1, AtWorkStays DEF SameHere
  <2>4. ASSUME NEW r \in Runner, Repairs(r) PROVE Repairs(r)'
    <3>1. undo'[r] = undo[r] /\ undo[r].of \in Move
      BY <1>2, <2>4 DEF Otherwise, Repairs, Known, Typing, Started
    <3>2. move'[undo[r].of].marks = move[undo[r].of].marks
      BY <1>2, <3>1 DEF Otherwise
    <3>3. QED
      BY <2>1, <2>4, <3>1, <3>2, RepairsOn, HereKeeps
  <2>5. QED
    BY <1>0, <2>2, <2>3, <2>4 DEF Repaired
<1>3. CASE \E m \in Move : Flows(m)
  <2>1. PICK m \in Move : Flows(m)
    BY <1>3
  <2>2. Others(m) /\ ~Quiet(m) /\ ~Undone(m) /\ FlowNotes(m)
    BY <2>1, FlowIs, FlowNotesOnly DEF Known
  <2>3. CASE AtWork(m)'
    BY <2>3
  <2>4. CASE SameHere
    <3>1. Broken
      BY <2>4, BrokenBefore
    <3>2. CASE \E o \in Move : AtWork(o)
      <4>1. AtWork(m)
        BY <1>1, <2>2, <3>2 DEF OneWorks
      <4>2. QED
        BY <2>1, <2>4, <4>1, AtWorkOn DEF Runner
    <3>3. ASSUME NEW r \in Runner, Repairs(r) PROVE Repairs(r)'
      <4>1. r # m
        BY <2>2, <3>3 DEF Repairs
      <4>2. undo'[r] = undo[r] /\ undo[r].of \in Move
        BY <2>2, <3>3, <4>1 DEF Others, Repairs, Known, Typing, Started
      <4>3. "lockStarted" \in move[undo[r].of].marks => "lockStarted" \in move'[undo[r].of].marks
        <5>1. CASE undo[r].of # m
          BY <2>2, <4>2, <5>1 DEF Others
        <5>2. CASE undo[r].of = m
          BY <2>2, <5>2 DEF FlowNotes, RowNotes, LockNoted
        <5>3. QED
          BY <5>1, <5>2
      <4>4. QED
        BY <2>4, <3>3, <4>2, <4>3, RepairsOn, HereKeeps
    <3>4. QED
      BY <1>0, <3>1, <3>2, <3>3 DEF Repaired
  <2>5. CASE Switches(m)
    BY <2>5, SwitchServes
  <2>6. QED
    BY <2>1, <2>3, <2>4, <2>5, FlowHere
<1>4. CASE \E q \in Runner : Undoes(q)
  <2>1. PICK q \in Runner : Undoes(q)
    BY <1>4
  <2>2. /\ UndoPlaces(q) /\ UndoLocks(q) /\ UndoNotes(q) /\ UndoGoesOn(q) /\ workspace'.at = workspace.at
        /\ Undone(q) /\ undo[q].of \in Move /\ (q \in Move => ~Quiet(q) /\ ~Working(q))
    BY <2>1, UndoIs, UndoPlacesOnly, UndoLocksOnly DEF Known, PlacesGoBack
  <2>3. ASSUME NEW m \in Move, AtWork(m) PROVE AtWork(m)'
    <3>1. m # q
      BY <2>2, <2>3 DEF AtWork
    <3>2. flow'[m] = flow[m]
      BY <2>1, <3>1, UndoIs
    <3>3. QED
      BY <2>2, <2>3, <3>2, AtWorkStays
  <2>4. q # Admin => undo[q].of = q /\ q \in Move
    BY <2>2 DEF OwnUndo, Runner
  <2>5. ASSUME Broken, SameKey, NEW r \in Runner \ {q}, Repairs(r) PROVE Repairs(r)'
    <3>1. undo'[r] = undo[r]
      BY <2>2 DEF UndoGoesOn
    <3>2. PICK o \in Move : o = undo[r].of
      BY <2>5 DEF Repairs, Known, Typing, Started
    <3>3. ASSUME o = undo[q].of, At(q, "release-mark"), move'[o].marks = undo[q].marks \cup {"released"}
          PROVE  "lockStarted" \in move'[o].marks
      <4>1. Noted(o)
        <5>1. CASE r # Admin
          BY <2>5, <3>2, <5>1 DEF Repairs
        <5>2. CASE r = Admin
          <6>1. q \in Move /\ o = q /\ AtSource(o)
            BY <2>4, <2>5, <3>2, <3>3, <5>2 DEF Repairs
          <6>2. QED
            BY <1>0, <2>2, <2>5, <6>1 DEF Untouched, Unspoilt
        <5>3. QED
          BY <5>1, <5>2
      <4>2. Loaded(q, o)
        BY <2>2, <3>3 DEF Loaded, At
      <4>3. QED
        BY <3>3, <4>1, <4>2 DEF Noted
    <3>4. "lockStarted" \in move[undo[r].of].marks => "lockStarted" \in move'[undo[r].of].marks
      BY <2>2, <3>2, <3>3 DEF UndoNotes
    <3>5. QED
      BY <2>5, <3>1, <3>4, RepairsOn
  <2>6. ASSUME Broken, SameKey, ~Repairs(q) \/ Repairs(q)'
        PROVE  (\E m \in Move : AtWork(m)') \/ (\E r \in Runner : Repairs(r)')
    BY <1>0, <2>3, <2>5, <2>6 DEF Repaired
  <2>7. q # Admin /\ AtSource(undo[q].of) /\ ~Unspoilt => Noted(undo[q].of)
    BY <1>0, <2>2, <2>4 DEF Untouched
  <2>8. CASE Unlock(q)
    <3>1. undo[q].from = workspace.at /\ undo[q].from = move[undo[q].of].source /\ At(q, "unlock")
      BY <2>8 DEF Unlock, GivesBack, UnlocksSource, At, Unlocking
    <3>2. CASE Working0(q)
      <4>1. /\ workspace' = workspace /\ db'[workspace.at].key = Here.key /\ ~db'[workspace.at].readOnly
            /\ Here.key = undo[q].with
        BY <2>8, <3>1, <3>2, UnlockIs DEF Here, Working0, Works
      <4>2. workspace.key # Here.key
        BY <4>1 DEF Broken, Here
      <4>3. Broken /\ ~Repairs(q)
        BY <3>1, <4>1, <4>2 DEF Broken, Repairs, Sound
      <4>4. QED
        BY <2>6, <4>1, <4>3 DEF SameKey
    <3>3. CASE ~Working0(q)
      <4>1. ~Unspoilt
        BY <2>8, <3>1, <3>3 DEF Unspoilt, Broken, Here, Working0, Works, Served
      <4>2. PICK o \in Move : o = undo[q].of
        BY <2>2
      <4>3. AtSource(o) /\ move[o].status # "none"
        BY <2>2, <3>1, <4>2 DEF AtSource, Known, Typing, Started
      <4>4. AtSource(o)' /\ (q # Admin => Noted(o)')
        BY <2>2, <2>7, <4>1, <4>2, <4>3, StaysAtSource, NotedStays
      <4>5. undo'[q].phase = "unlock-store" /\ undo'[q].of = o
        BY <2>8, <3>3, <4>2, UnlockRotates
      <4>6. Repairs(q)'
        BY <4>4, <4>5 DEF Repairs, Undone, At, Undoing, Late
      <4>7. QED
        BY <4>6
    <3>4. QED
      BY <3>2, <3>3
  <2>9. CASE UnlockStores(q) /\ AtSource(undo[q].of)
    <3>1. /\ workspace'.key = undo'[q].key /\ At(q, "unlock-store") /\ undo'[q].phase = "unlock-again"
          /\ undo'[q].of = undo[q].of
      BY <2>9, UnlockStoresIs
    <3>2. PICK o \in Move : o = undo[q].of
      BY <2>2
    <3>3. AtSource(o) /\ move[o].status # "none" /\ (q # Admin => Noted(o))
      BY <2>2, <2>7, <2>9, <3>1, <3>2 DEF Unspoilt, Known, Typing, Started
    <3>4. AtSource(o)' /\ (q # Admin => Noted(o)')
      BY <2>2, <3>3, StaysAtSource, NotedStays
    <3>5. Repairs(q)'
      BY <3>1, <3>2, <3>4 DEF Repairs, Undone, At, Undoing, Late, Sound
    <3>6. QED
      BY <3>5
  <2>10. CASE UnlockAgain(q) /\ WorkingAgain(q)
    <3>1. undo[q].from = workspace.at /\ At(q, "unlock-again")
      BY <2>10 DEF UnlockAgain, GivesBack, At, Unlocking
    <3>2. /\ workspace' = workspace /\ db'[workspace.at].key = Here.key /\ ~db'[workspace.at].readOnly
          /\ Here.key = undo[q].key
      BY <2>10, <3>1, UnlockAgainIs DEF Here, WorkingAgain, Works
    <3>3. workspace.key # Here.key
      BY <3>2 DEF Broken, Here
    <3>4. Broken /\ ~Repairs(q)
      BY <3>1, <3>2, <3>3 DEF Broken, Repairs, Sound
    <3>5. QED
      BY <2>6, <3>2, <3>4 DEF SameKey
  <2>11. CASE /\ SameLocks /\ ~Unlock(q) /\ ~(UnlockAgain(q) /\ WorkingAgain(q))
              /\ ~(UnlockStores(q) /\ AtSource(undo[q].of))
    <3>1. SameHere /\ SameKey
      BY <2>11, HereIs DEF SameLocks, SameHere, SameKey, SameLock, Here
    <3>2. Broken
      BY <3>1, BrokenBefore
    <3>3. Repairs(q) => Repairs(q)'
      BY <2>1, <2>11, UndoRepairsOn
    <3>4. QED
      BY <2>6, <3>1, <3>2, <3>3
  <2>12. QED
    BY <2>2, <2>8, <2>9, <2>10, <2>11 DEF UndoLocks
<1>5. QED
  BY <1>2, <1>3, <1>4, StepsAre DEF Known

-----------------------------------------------------------------------------
(* Targets.                                                                *)

(* What steps do to the budget of failures and of recoveries.              *)
Budgets ==
    /\ failures' = failures \/ failures' = failures + 1
    /\ recovers' = recovers \/ (recovers' = recovers + 1 /\ \E m \in Move : Recover(m))

LEMMA BudgetsOnly ==
    ASSUME [Next]_vars
    PROVE  Budgets /\ \A m \in Move : StepFails(m) => failures' = failures + 1
<1>1. UNCHANGED budgets => Budgets
  BY DEF budgets, Budgets
<1>2. ASSUME NEW m \in Move, Flows(m) PROVE Budgets
  <2>1. CASE NotEntered(m) \/ NotMovable(m) \/ StepRefused(m) \/ Begin(m) \/ CheckSource(m)
    BY <1>1, <2>1 DEF NotEntered, NotMovable, StepRefused, Begin, CheckSource
  <2>2. CASE \/ PrepareTarget(m) \/ RecordTarget(m) \/ TargetReady(m) \/ SoftLock(m) \/ LockSource(m)
             \/ MarkLock(m) \/ RotatePassword(m)
    BY <1>1, <2>2 DEF PrepareTarget, RecordTarget, TargetReady, SoftLock, LockSource, MarkLock,
                      SavesProgress, RotatePassword
  <2>3. CASE \/ StoreUrl(m) \/ SetReadOnly(m) \/ EndSessions(m) \/ EndSessionsAgain(m) \/ ProbeReadOnly(m)
             \/ PrepareCopy(m) \/ MarkPrepared(m)
    BY <1>1, <2>3 DEF StoreUrl, SetReadOnly, EndSessions, EndSessionsAgain, ProbeReadOnly, PrepareCopy,
                      MarkPrepared, SavesProgress
  <2>4. CASE \/ ChecksumSource(m) \/ CopyChunk(m) \/ MarkCopied(m) \/ FinishTarget(m) \/ ChecksumTarget(m)
             \/ ChecksumSourceAfter(m)
    BY <1>1, <2>4 DEF ChecksumSource, CopyChunk, MarkCopied, FinishTarget, ChecksumTarget,
                      ChecksumSourceAfter, SavesProgress
  <2>5. CASE VerifyCompare(m) \/ EnterSwitch(m) \/ SwitchWorkspace(m) \/ Switched(m)
    BY <1>1, <2>5 DEF VerifyCompare, EnterSwitch, SwitchWorkspace, Switched
  <2>6. CASE StepFails(m)
    BY <2>6 DEF StepFails, Budgets
  <2>7. QED
    BY <1>2, <2>1, <2>2, <2>3, <2>4, <2>5, <2>6 DEF Flows, FlowStep
<1>3. ASSUME NEW r \in Runner, Undoes(r) PROVE Budgets
  <2>1. CASE UndoLoads(r) \/ UndoLooks(r) \/ Unlock(r) \/ UnlockStores(r) \/ UnlockAgain(r)
    BY <1>1, <2>1 DEF UndoLoads, UndoLooks, Unlock, UnlockStores, UnlockAgain
  <2>2. CASE ReleaseTarget(r) \/ MarkReleased(r) \/ Close(r)
    BY <1>1, <2>2 DEF ReleaseTarget, MarkReleased, Close, Budgets, budgets
  <2>3. CASE UndoFails(r)
    BY <2>3 DEF UndoFails, Budgets
  <2>4. QED
    BY <1>3, <2>1, <2>2, <2>3 DEF Undoes, UndoStep
<1>4. ASSUME NEW m \in Move, Ask(m) \/ Start(m) \/ CloseUnstarted(m) \/ Cancel(m) \/ Recover(m) \/ DropRetained(m)
      PROVE  Budgets
  BY <1>1, <1>4 DEF Ask, Start, CloseUnstarted, Cancel, Recover, DropRetained, Budgets
<1>5. ASSUME NEW w \in Writer, Resolve(w) \/ Connect(w) \/ Write(w) PROVE Budgets
  BY <1>1, <1>5 DEF Resolve, Connect, Write
<1>6. \A m \in Move : StepFails(m) => failures' = failures + 1
  BY DEF StepFails
<1>7. CASE UNCHANGED vars
  BY <1>1, <1>6, <1>7 DEF vars, budgets
<1>8. QED
  BY <1>2, <1>3, <1>4, <1>5, <1>6, <1>7, NextIs

(* A move that did not switch has a target; the target has gone.           *)
Pending(m) == move[m].target # None /\ ~Completed(m) /\ db[move[m].target].alive
Gone(m) == move[m].target # None /\ ~db[move[m].target].alive

LEMMA TargetIs ==
    ASSUME Known, NEW m \in Move, move[m].target # None
    PROVE  move[m].target \in Target /\ move[m].target \in Database
  BY Names DEF Known, Typing, Typed, MovesTyped, AMove

(* A move's target stays, and no step makes it again.                      *)
LEMMA TargetStays ==
    ASSUME Known, [Next]_vars, NEW m \in Move, move[m].target # None
    PROVE  /\ move'[m].target = move[m].target
           /\ db'[move[m].target].alive => db[move[m].target].alive
<1>1. CASE \E o \in Move : Flows(o)
  <2>1. PICK o \in Move : Flows(o)
    BY <1>1
  <2>2. Others(o) /\ TargetGoesOn(o) /\ FlowTargets(o)
    BY <2>1, FlowGoes, FlowTargetsOnly DEF Known, Typing, Flows
  <2>3. move'[m].target = move[m].target
    BY <2>2 DEF Others, TargetGoesOn, Known, Typing, Carried
  <2>4. move[m].target # flow[o].made
    BY DEF Known, Targets
  <2>5. db[move[m].target].born
    BY DEF Known, Targets
  <2>6. QED
    BY <2>2, <2>3, <2>4, <2>5, TargetIs DEF FlowTargets
<1>2. CASE \E r \in Runner : Undoes(r)
  <2>1. PICK r \in Runner : Undoes(r)
    BY <1>2
  <2>2. RowsGetOver(r) /\ UndoNotes(r)
    BY <2>1, UndoIs, UndoLocksOnly DEF Known
  <2>3. QED
    BY <2>2, TargetIs DEF RowsGetOver, UndoNotes
<1>3. CASE Otherwise
  BY <1>3, TargetIs DEF Otherwise
<1>4. QED
  BY <1>1, <1>2, <1>3, StepsAre DEF Known

LEMMA GoneStays ==
    ASSUME Known, [Next]_vars, NEW m \in Move, Gone(m)
    PROVE  Gone(m)'
  BY TargetStays DEF Gone

(* What is noted as released has gone, and an undo knows the target.       *)
ReleaseNoted(r, m) ==
    Loaded(r, m) =>
        /\ "released" \in undo[r].marks \/ At(r, "release-mark") => Gone(m)
        /\ undo[r].target # None => undo[r].target = move[m].target
ReleasedGone ==
    /\ \A m \in Move : Marked(m, "released") => Gone(m)
    /\ \A m \in Move : flow[m].step \notin {"done", "dead"} /\ "released" \in flow[m].seen => Gone(m)
    /\ \A r \in Runner, m \in Move : ReleaseNoted(r, m)

LEMMA ReleasedGoneKept ==
    ASSUME Known, ReleasedGone, [Next]_vars
    PROVE  ReleasedGone'
<1>1. ASSUME NEW r \in Runner, undo'[r] = undo[r] \/ undo'[r].phase = "load", NEW m \in Move
      PROVE  ReleaseNoted(r, m)'
  <2> SUFFICES ASSUME undo'[r] = undo[r], Loaded(r, m)
               PROVE  /\ "released" \in undo[r].marks \/ At(r, "release-mark") => Gone(m)'
                      /\ undo[r].target # None => undo[r].target = move'[m].target
    BY <1>1 DEF ReleaseNoted, Loaded, Undone, At
  <2>1. ReleaseNoted(r, m)
    BY DEF ReleasedGone
  <2>2. QED
    BY <2>1, GoneStays, TargetStays DEF ReleaseNoted
<1>2. ASSUME NEW m \in Move, flow[m].step \notin {"done", "dead"},
             "released" \in move[m].marks \cup flow[m].seen
      PROVE  Gone(m)'
  BY <1>2, GoneStays DEF ReleasedGone, Marked
<1>3. ASSUME NEW m \in Move, "released" \in move[m].marks PROVE Gone(m)'
  BY <1>3, GoneStays DEF ReleasedGone, Marked
<1>4. CASE \E o \in Move : Flows(o)
  <2>1. PICK o \in Move : Flows(o)
    BY <1>4
  <2>2. /\ Others(o) /\ FlowNotes(o) /\ (undo'[o] = undo[o] \/ undo'[o].phase = "load")
        /\ flow[o].step \notin {"done", "dead"}
    BY <2>1, FlowIs, FlowNotesOnly DEF Known, At, Quiet
  <2>3. /\ "released" \in move'[o].marks => "released" \in move[o].marks \cup flow[o].seen
        /\ "released" \in flow'[o].seen => "released" \in move[o].marks \cup flow[o].seen
    BY <2>2 DEF FlowNotes, RowNotes
  <2>4. QED
    BY <1>1, <1>2, <1>3, <2>2, <2>3 DEF Others, ReleasedGone, Marked
<1>5. CASE \E r \in Runner : Undoes(r)
  <2>1. PICK r \in Runner : Undoes(r)
    BY <1>5
  <2>2. UndoNotes(r) /\ UndoPlaces(r) /\ UndoGoesOn(r) /\ Undone(r) /\ undo[r].of \in Move
    BY <2>1, UndoIs, UndoLocksOnly, UndoPlacesOnly DEF Known
  <2>3. ASSUME NEW m \in Move, "released" \in move'[m].marks PROVE Gone(m)'
    <3>1. CASE move'[m].marks = move[m].marks
      BY <1>3, <2>3, <3>1
    <3>2. CASE m = undo[r].of /\ At(r, "release-mark")
      <4>1. Loaded(r, m)
        BY <2>2, <3>2 DEF Loaded, At
      <4>2. Gone(m)
        BY <3>2, <4>1 DEF ReleasedGone, ReleaseNoted
      <4>3. QED
        BY <4>2, GoneStays
    <3>3. QED
      BY <2>2, <3>1, <3>2 DEF UndoNotes
  <2>4. ASSUME NEW m \in Move, flow'[m].step \notin {"done", "dead"}, "released" \in flow'[m].seen
        PROVE  Gone(m)'
    <3>1. flow'[m] = flow[m]
      BY <2>1, <2>4, UndoIs
    <3>2. QED
      BY <1>2, <2>4, <3>1
  <2>5. ASSUME NEW m \in Move PROVE ReleaseNoted(r, m)'
    <3> SUFFICES ASSUME undo'[r].phase \in Undoing \ {"load"}, undo'[r].of = m
                 PROVE  /\ "released" \in undo'[r].marks \/ undo'[r].phase = "release-mark" => Gone(m)'
                        /\ undo'[r].target # None => undo'[r].target = move'[m].target
      BY DEF ReleaseNoted, Loaded, Undone, At
    <3>1. undo[r].of = m
      BY <2>2 DEF UndoPlaces
    <3>2. CASE undo[r].phase # "load" /\ undo'[r].marks = undo[r].marks /\ undo'[r].target = undo[r].target
      <4>1. Loaded(r, m)
        BY <2>2, <3>1, <3>2 DEF Loaded, At
      <4>2. /\ "released" \in undo[r].marks => Gone(m)
            /\ undo[r].target # None => undo[r].target = move[m].target
        BY <4>1 DEF ReleasedGone, ReleaseNoted
      <4>3. undo'[r].target # None => undo'[r].target = move'[m].target
        BY <3>2, <4>2, TargetStays
      <4>4. ASSUME undo'[r].phase = "release-mark" PROVE Gone(m)'
        <5>1. undo[r].target # None /\ db' = [db EXCEPT ![undo[r].target].alive = FALSE]
          BY <2>2, <4>4 DEF UndoPlaces
        <5>2. undo[r].target = move[m].target /\ move[m].target \in Database /\ move'[m].target = move[m].target
          BY <4>2, <5>1, TargetStays, TargetIs
        <5>3. ~db'[move[m].target].alive
          BY <5>1, <5>2 DEF Known, Typing, Typed, PlacesTyped, ADatabase
        <5>4. QED
          BY <5>1, <5>2, <5>3 DEF Gone
      <4>5. QED
        BY <3>2, <4>2, <4>3, <4>4, GoneStays
    <3>3. CASE /\ undo[r].phase = "load" /\ undo'[r].phase = "look"
               /\ undo'[r].marks = move[m].marks /\ undo'[r].target = move[m].target
      BY <1>3, <3>3, TargetStays
    <3>4. QED
      BY <2>2, <3>1, <3>2, <3>3 DEF UndoPlaces
  <2>6. \A q \in Runner \ {r} : undo'[q] = undo[q]
    BY <2>2 DEF UndoGoesOn
  <2>7. QED
    BY <1>1, <2>3, <2>4, <2>5, <2>6 DEF ReleasedGone, Marked
<1>6. CASE Otherwise
  <2>1. /\ \A m \in Move : /\ move'[m].marks = move[m].marks /\ flow'[m].seen = flow[m].seen
                           /\ flow'[m] = flow[m] \/ flow[m].step = "none"
        /\ \A r \in Runner : undo'[r] = undo[r] \/ undo'[r].phase = "load"
    BY <1>6 DEF Otherwise
  <2>2. QED
    BY <1>1, <1>2, <1>3, <2>1 DEF ReleasedGone, Marked
<1>7. QED
  BY <1>4, <1>5, <1>6, StepsAre DEF Known

(* The target of a move that is neither at work nor given up will be       *)
(* released by its own undo.                                               *)
Releases(m) ==
    /\ Undone(m) /\ ~At(m, "release-mark")
    /\ ~At(m, "load") => undo[m].target = move[m].target
    /\ At(m, "close") => undo[m].problem
TargetsUndone == \A m \in Move : Pending(m) => Working(m) \/ Dead(m) \/ Releases(m)

LEMMA TargetsUndoneKept ==
    ASSUME Known, Placed, OwnUndo, ReleasedGone, TargetsUndone, [Next]_vars
    PROVE  TargetsUndone'
<1> SUFFICES ASSUME NEW m \in Move, Pending(m)' PROVE Working(m)' \/ Dead(m)' \/ Releases(m)'
  BY DEF TargetsUndone
<1>0. ~Completed(m)
  BY Completes DEF RowsStayOver, Pending
<1>1. ASSUME move[m].target # None PROVE Pending(m) /\ move'[m].target = move[m].target
  BY <1>0, <1>1, TargetStays DEF Pending
<1>2. ASSUME move'[m].target = move[m].target, flow'[m] = flow[m], undo'[m] = undo[m]
      PROVE  Working(m)' \/ Dead(m)' \/ Releases(m)'
  <2>1. Pending(m)
    BY <1>1, <1>2 DEF Pending
  <2>2. Working(m) \/ Dead(m) \/ Releases(m)
    BY <2>1 DEF TargetsUndone
  <2>3. QED
    BY <1>2, <2>2 DEF Working, Dead, Releases, Undone, At
<1>3. CASE \E o \in Move : Flows(o)
  <2>1. PICK o \in Move : Flows(o)
    BY <1>3
  <2>2. Others(o) /\ FlowNotes(o) /\ FlowGoesOn(o) /\ flow'[o].step \in Step \cup {"done", "undo"}
    BY <2>1, FlowIs, FlowNotesOnly DEF Known
  <2>3. CASE o # m
    BY <1>2, <2>2, <2>3 DEF Others, Runner
  <2>4. CASE o = m
    <3>1. flow'[m].step # "done"
      BY <1>0, <2>2, <2>4 DEF FlowNotes
    <3>2. CASE flow'[m].step \in Step
      BY <3>2 DEF Working
    <3>3. CASE flow'[m].step = "undo"
      <4>1. undo'[m].phase = "load"
        BY <2>2, <2>4, <3>3, Names DEF FlowGoesOn
      <4>2. QED
        BY <4>1 DEF Releases, Undone, At, Undoing
    <3>4. QED
      BY <2>2, <2>4, <3>1, <3>2, <3>3
  <2>5. QED
    BY <2>3, <2>4
<1>4. CASE \E r \in Runner : Undoes(r)
  <2>1. PICK r \in Runner : Undoes(r)
    BY <1>4
  <2>2. /\ UndoPlaces(r) /\ UndoEnds(r) /\ UndoGoesOn(r) /\ RowsGetOver(r) /\ Undone(r)
        /\ r \in Move => flow[r].step = "undo" /\ ~Working(r)
    BY <2>1, UndoIs, UndoPlacesOnly DEF Known
  <2>3. move'[m].target = move[m].target
    BY <2>2 DEF RowsGetOver
  <2>4. CASE r # m
    <3>1. flow'[m] = flow[m] /\ undo'[m] = undo[m]
      BY <2>1, <2>2, <2>4, UndoIs DEF UndoGoesOn, Runner
    <3>2. QED
      BY <1>2, <2>3, <3>1
  <2>5. CASE r = m
    <3>1. Pending(m) /\ move[m].target # None /\ db'[move[m].target].alive
      BY <1>1, <2>3 DEF Pending
    <3>2. Releases(m)
      BY <2>2, <2>5, <3>1 DEF TargetsUndone, Dead
    <3>3. undo[m].of = m /\ m # Admin
      BY <2>2, <2>5, DistinctNames DEF OwnUndo
    <3>4. CASE undo'[m].phase \notin Undoing
      <4>1. ~(At(m, "load") /\ Completed(m)) /\ ~(At(m, "close") /\ ~undo[m].problem)
        BY <1>0, <3>2 DEF Releases
      <4>2. flow'[m].step = "dead"
        BY <2>2, <2>5, <3>3, <3>4, <4>1 DEF UndoEnds
      <4>3. QED
        BY <4>2 DEF Dead
    <3>5. CASE undo'[m].phase = "load"
      BY <3>5 DEF Releases, Undone, At, Undoing
    <3>6. CASE undo'[m].phase \in Undoing \ {"load"}
      <4>1. undo'[m].target = move[m].target
        BY <2>2, <2>5, <3>2, <3>3, <3>6 DEF UndoPlaces, Releases, At
      <4>2. undo'[m].phase # "release-mark"
        <5> SUFFICES ASSUME undo'[m].phase = "release-mark" PROVE FALSE
          OBVIOUS
        <5>1. undo[m].phase = "release" /\ db' = [db EXCEPT ![undo[m].target].alive = FALSE]
          BY <2>2, <2>5 DEF UndoPlaces
        <5>2. undo[m].target = move[m].target
          BY <3>2, <5>1 DEF Releases, At
        <5>3. QED
          BY <3>1, <5>1, <5>2, TargetIs DEF Known, Typing, Typed, PlacesTyped, ADatabase
      <4>3. undo'[m].phase = "close" => undo'[m].problem
        <5> SUFFICES ASSUME undo'[m].phase = "close", ~undo'[m].problem PROVE FALSE
          OBVIOUS
        <5>1. undo[m].phase # "load"
          BY <2>2, <2>5, <3>6 DEF UndoPlaces
        <5>2. undo[m].target = move[m].target /\ undo[m].phase # "release-mark"
          BY <3>2, <5>1 DEF Releases, At
        <5>3. "released" \in undo[m].marks
          BY <2>2, <2>5, <3>1, <5>2 DEF UndoPlaces
        <5>4. Gone(m)
          BY <2>2, <2>5, <3>3, <5>1, <5>3 DEF ReleasedGone, ReleaseNoted, Loaded, At
        <5>5. QED
          BY <3>1, <5>4 DEF Gone, Pending
      <4>4. QED
        BY <2>3, <3>6, <4>1, <4>2, <4>3 DEF Releases, Undone, At
    <3>7. QED
      BY <3>4, <3>5, <3>6
  <2>6. QED
    BY <2>4, <2>5
<1>5. CASE Otherwise
  <2>1. move'[m].target = move[m].target /\ undo'[m] = undo[m]
    BY <1>5, DistinctNames DEF Otherwise, Runner
  <2>2. CASE flow'[m] = flow[m]
    BY <1>2, <2>1, <2>2
  <2>3. CASE flow'[m].step \in {"begin", "dead"}
    BY <2>3, Order DEF Working, Dead
  <2>4. QED
    BY <1>5, <2>2, <2>3 DEF Otherwise
<1>6. QED
  BY <1>3, <1>4, <1>5, StepsAre DEF Known

(* While nothing fails, a database that was made is known of.              *)
MadeKnown ==
    failures = 0 => \A t \in Target : db[t].alive => \E m \in Move : t \in {flow[m].made, move[m].target}

LEMMA MadeKnownKept ==
    ASSUME Known, MadeKnown, [Next]_vars
    PROVE  MadeKnown'
<1> SUFFICES ASSUME failures' = 0, NEW t \in Target, db'[t].alive
             PROVE  \E m \in Move : t \in {flow'[m].made, move'[m].target}
  BY DEF MadeKnown
<1>0. failures \in Nat
  BY Bounds DEF Known, Typing, Typed, BudgetsTyped
<1>1. failures = 0 /\ \A m \in Move : ~StepFails(m)
  BY <1>0, BudgetsOnly DEF Budgets
<1>2. t \in Database /\ t # None
  BY Names, DistinctNames
<1>3. db[t].alive => \E m \in Move : t \in {flow[m].made, move[m].target}
  BY <1>1 DEF MadeKnown
<1>4. \A m \in Move : t = move[m].target => t = move'[m].target
  BY <1>2, TargetStays
<1>5. CASE \E o \in Move : Flows(o)
  <2>1. PICK o \in Move : Flows(o)
    BY <1>5
  <2>2. Others(o) /\ FlowTargets(o)
    BY <2>1, FlowIs, FlowTargetsOnly DEF Known
  <2>3. \A m \in Move : t = flow[m].made => t = flow'[m].made \/ t = move'[m].target
    BY <1>1, <1>2, <2>2 DEF FlowTargets, Others
  <2>4. db[t].alive \/ flow'[o].made = t
    BY <1>1, <1>2, <2>2 DEF FlowTargets
  <2>5. QED
    BY <1>3, <1>4, <2>3, <2>4
<1>6. CASE \E r \in Runner : Undoes(r)
  <2>1. PICK r \in Runner : Undoes(r)
    BY <1>6
  <2>2. UndoNotes(r) /\ UndoGoesOn(r)
    BY <2>1, UndoIs, UndoLocksOnly DEF Known
  <2>3. \A m \in Move : flow'[m].made = flow[m].made
    BY <2>2 DEF UndoGoesOn
  <2>4. QED
    BY <1>2, <1>3, <1>4, <2>2, <2>3 DEF UndoNotes
<1>7. CASE Otherwise
  BY <1>2, <1>3, <1>4, <1>7 DEF Otherwise
<1>8. QED
  BY <1>5, <1>6, <1>7, StepsAre DEF Known

(* The target of a move that switched is the workspace's place, or a later *)
(* move's source.                                                          *)
Left ==
    \A m \in Move : Completed(m) =>
        move[m].target = workspace.at \/ \E o \in Move : move[o].source = move[m].target

LEMMA LeftKept ==
    ASSUME Known, Placed, LockedSources, Left, [Next]_vars
    PROVE  Left'
<1> SUFFICES ASSUME NEW m \in Move, Completed(m)'
             PROVE  move'[m].target = workspace'.at \/ \E o \in Move : move'[o].source = move'[m].target
  BY DEF Left
<1>0. RowsStayOver /\ (workspace'.at = workspace.at \/ \E o \in Move : Switches(o))
  BY Completes
<1>1. CASE Switches(m)
  BY <1>1 DEF Switches
<1>2. CASE Completed(m)
  <2>1. move'[m].target = move[m].target /\ move[m].target # None
    BY <1>0, <1>2 DEF RowsStayOver, Placed, Leaves
  <2>2. ASSUME NEW o \in Move, move[o].source = move[m].target PROVE move'[o].source = move[m].target
    <3>1. move[o].status # "none"
      BY <2>1, <2>2 DEF LockedSources
    <3>2. QED
      BY <2>2, <3>1, SourceStays
  <2>3. CASE move[m].target = workspace.at
    <3>1. CASE workspace'.at = workspace.at
      BY <2>1, <2>3, <3>1
    <3>2. ASSUME NEW o \in Move, Switches(o) PROVE move[o].source = move[m].target
      BY <2>3, <3>2 DEF Switches, AtSource
    <3>3. QED
      BY <1>0, <2>1, <2>2, <3>1, <3>2
  <2>4. QED
    BY <1>2, <2>1, <2>2, <2>3 DEF Left
<1>3. QED
  BY <1>0, <1>1, <1>2 DEF RowsStayOver

-----------------------------------------------------------------------------
(* Undone for good.                                                        *)

UInv ==
    /\ IInv
    /\ OneWorks /\ OwnUndo /\ LockedSources /\ CancellingSaid /\ LockNoted /\ UnlocksSource
    /\ Repaired /\ Untouched
    /\ ReleasedGone /\ TargetsUndone /\ MadeKnown /\ Left

(* At first nothing was begun.                                             *)
LEMMA UInvAtFirst == Init => UInv
<1> SUFFICES ASSUME Init PROVE UInv
  OBVIOUS
<1>1. IInv
  BY IInvAtFirst
<1>2. /\ workspace = [at |-> Home, key |-> 0] /\ Home \in Database
      /\ db = [d \in Database |-> IF d = Home THEN [Unborn EXCEPT !.alive = TRUE, !.born = TRUE] ELSE Unborn]
  BY Names DEF Init
<1>3. \A m \in Move : /\ move[m].status = "none" /\ move[m].source = None /\ move[m].target = None
                      /\ move[m].marks = {}
                      /\ flow[m].step = "none" /\ flow[m].seen = {} /\ flow[m].made = None
  BY DEF Init, NewMove, NewFlow
<1>4. \A r \in Runner : undo[r].phase = "idle" /\ ~Undone(r)
  BY Names DEF Init, Idle, Undone
<1>5. \A d \in Database : ~db[d].readOnly /\ db[d].key = 0 /\ (db[d].alive => d = Home)
  BY <1>2 DEF Unborn
<1>6. OneWorks /\ OwnUndo /\ LockedSources /\ CancellingSaid
  BY <1>3, <1>4, <1>5 DEF OneWorks, Quiet, OwnUndo, LockedSources, CancellingSaid, Runner
<1>7. "none" \notin LockSteps
  BY DEF LockSteps
<1>8. LockNoted /\ UnlocksSource
  BY <1>3, <1>4, <1>7, LocksAre DEF LockNoted, UnlocksSource, Unlocking
<1>9. ~Broken
  BY <1>2, <1>5 DEF Broken, Here
<1>10. Repaired /\ Untouched
  BY <1>3, <1>9 DEF Repaired, Untouched, Quiet
<1>11. ReleasedGone /\ TargetsUndone
  BY <1>3, <1>4 DEF ReleasedGone, ReleaseNoted, Loaded, Marked, TargetsUndone, Pending
<1>12. MadeKnown /\ Left
  BY <1>3, <1>5, Names, DistinctNames DEF MadeKnown, Left, Completed
<1>13. QED
  BY <1>1, <1>6, <1>8, <1>10, <1>11, <1>12 DEF UInv

(* It is kept where who was told of a failed recovery asks for no other.   *)
LEMMA UInvKept == ~Overlap /\ ~ForcedAlive /\ UInv /\ [Next]_vars /\ Heeded => UInv'
<1> SUFFICES ASSUME ~Overlap, ~ForcedAlive, UInv, [Next]_vars, Heeded PROVE UInv'
  OBVIOUS
<1>1. IInv' /\ Known /\ Alone /\ Placed /\ GivesBack /\ Served
  BY IInvKept DEF UInv, IInv
<1>2. OneWorks' /\ OwnUndo' /\ LockedSources' /\ CancellingSaid'
  BY <1>1, OneWorksKept, OwnUndoKept, LockedSourcesKept, CancellingSaidKept DEF UInv
<1>3. LockNoted' /\ UnlocksSource'
  BY <1>1, LockNotedKept, UnlocksSourceKept DEF UInv
<1>4. Repaired' /\ Untouched'
  BY <1>1, RepairedKept, UntouchedKept DEF UInv
<1>5. ReleasedGone' /\ TargetsUndone' /\ MadeKnown' /\ Left'
  BY <1>1, ReleasedGoneKept, TargetsUndoneKept, MadeKnownKept, LeftKept DEF UInv
<1>6. QED
  BY <1>1, <1>2, <1>3, <1>4, <1>5 DEF UInv

(* Once everybody is done nobody is left to repair or to release.          *)
LEMMA SettledIsUndone == UInv => UndoneForGood
<1> SUFFICES ASSUME UInv, Settled
             PROVE  /\ Serving
                    /\ \A m \in Move : move[m].target # None /\ move[m].status # "completed"
                                         => ~db[move[m].target].alive
                    /\ failures = 0 => \A t \in Target : db[t].alive =>
                                           \E m \in Move : t \in {workspace.at, move[m].source}
  BY DEF UndoneForGood
<1>1. /\ \A m \in Move : ~Working(m) /\ ~Dead(m)
      /\ \A r \in Runner : ~Undone(r)
  BY Names DEF Settled, NobodyActs, Working, Undone
<1>2. ~Excused
  BY <1>1 DEF Excused, Settled
<1>3. Serving
  <2>1. ~Broken
    BY <1>1, <1>2 DEF UInv, Repaired, AtWork, Repairs
  <2>2. QED
    BY <2>1 DEF Serving, Works, Broken, Here, UInv, IInv, Served
<1>4. \A m \in Move : ~Pending(m)
  BY <1>1 DEF UInv, TargetsUndone, Releases, Runner
<1>5. ASSUME failures = 0, NEW t \in Target, db[t].alive
      PROVE  \E m \in Move : t \in {workspace.at, move[m].source}
  <2>1. PICK m \in Move : t \in {flow[m].made, move[m].target}
    BY <1>5 DEF UInv, MadeKnown
  <2>2. t # None
    BY Names, DistinctNames
  <2>3. flow[m].made = None
    BY <1>1, Order DEF Past, Working, UInv, IInv, Known, Typing, Carried
  <2>4. t = move[m].target
    BY <2>1, <2>2, <2>3
  <2>5. Completed(m)
    BY <1>4, <1>5, <2>2, <2>4 DEF Pending
  <2>6. QED
    BY <2>4, <2>5 DEF UInv, Left
<1>6. QED
  BY <1>3, <1>4, <1>5 DEF Pending, Completed

(* UndoneForGood: whatever failed, was cancelled or was recovered, once    *)
(* everybody is done the workspace reads and writes where it is, and no    *)
(* target is left of a move that did not switch.  A recovery that failed   *)
(* must not be followed by one of another move: its report would be gone,  *)
(* and what it left is still broken.                                       *)
THEOREM UndoneWhereHeeded ==
    ~Overlap /\ ~ForcedAlive => (Spec /\ [][Heeded]_vars => []UndoneForGood)
<1> SUFFICES ASSUME ~Overlap, ~ForcedAlive PROVE Spec /\ [][Heeded]_vars => []UndoneForGood
  OBVIOUS
<1>1. UInv /\ [Next]_vars /\ [Heeded]_vars => UInv'
  <2>1. [Heeded]_vars => Heeded
    BY DEF vars, Heeded
  <2>2. QED
    BY <2>1, UInvKept
<1>2. QED
  BY <1>1, UInvAtFirst, SettledIsUndone, PTL DEF Spec

(* With one recovery there is none to follow.                              *)
FirstRecovery == recovers = 0 => undo[Admin].phase = "idle"

LEMMA FirstRecoveryKept ==
    ASSUME Typing, FirstRecovery, [Next]_vars
    PROVE  FirstRecovery' /\ (MaxRecovers <= 1 => Heeded)
<1>0. recovers \in Nat /\ MaxRecovers \in Nat /\ Admin \in Runner /\ Admin \notin Move
  BY Bounds, DistinctNames DEF Typing, Typed, BudgetsTyped, Runner
<1>1. CASE \E m \in Move : Recover(m)
  <2>1. recovers < MaxRecovers /\ recovers' = recovers + 1
    BY <1>1 DEF Recover
  <2>2. MaxRecovers <= 1 => undo[Admin].phase = "idle"
    BY <1>0, <2>1 DEF FirstRecovery
  <2>3. QED
    BY <1>0, <2>1, <2>2 DEF FirstRecovery, Heeded
<1>2. CASE ~\E m \in Move : Recover(m)
  <2>1. recovers' = recovers
    BY <1>2, BudgetsOnly DEF Budgets
  <2>2. undo'[Admin] = undo[Admin] \/ Undone(Admin)
    <3>1. ASSUME NEW m \in Move, Flows(m) PROVE undo'[Admin] = undo[Admin]
      BY <1>0, <3>1, FlowGoes DEF Typing, Flows, Others
    <3>2. ASSUME NEW r \in Runner, Undoes(r) PROVE undo'[Admin] = undo[Admin] \/ Undone(Admin)
      BY <1>0, <3>2, UndoGoes DEF Typing, Undoes, UndoGoesOn
    <3>3. ASSUME NEW m \in Move, Ask(m) \/ Start(m) \/ CloseUnstarted(m) \/ Cancel(m) \/ DropRetained(m)
          PROVE  undo' = undo
      BY <3>3 DEF Ask, Start, CloseUnstarted, Cancel, DropRetained
    <3>4. ASSUME NEW w \in Writer, Resolve(w) \/ Connect(w) \/ Write(w) PROVE undo' = undo
      BY <3>4 DEF Resolve, Connect, Write
    <3>5. QED
      BY <1>2, <3>1, <3>2, <3>3, <3>4, NextIs DEF vars
  <2>3. Undone(Admin) => undo[Admin].phase \notin {"idle", "error"}
    BY Names DEF Undone
  <2>4. QED
    BY <2>1, <2>2, <2>3 DEF FirstRecovery, Heeded
<1>3. QED
  BY <1>1, <1>2

(* UndoneForGood where a recovery is asked for once.                       *)
THEOREM UndoneWithOneRecovery ==
    ~Overlap /\ ~ForcedAlive /\ MaxRecovers <= 1 => (Spec => []UndoneForGood)
<1> SUFFICES ASSUME ~Overlap, ~ForcedAlive, MaxRecovers <= 1 PROVE Spec => []UndoneForGood
  OBVIOUS
<1>1. Init => UInv /\ FirstRecovery
  <2>1. Init => FirstRecovery
    BY DEF Init, FirstRecovery, Idle, Runner
  <2>2. QED
    BY <2>1, UInvAtFirst
<1>2. UInv /\ FirstRecovery /\ [Next]_vars => (UInv /\ FirstRecovery)'
  BY UInvKept, FirstRecoveryKept DEF UInv, IInv, Known
<1>3. QED
  BY <1>1, <1>2, SettledIsUndone, PTL DEF Spec

-----------------------------------------------------------------------------
(* A database for the workspace, also where moves overlap and recoveries   *)
(* are forced.                                                             *)

(* The workflow may come to point the workspace at the move's target.      *)
Switchable(m) == Live(m) /\ Working(m)

(* A recovery of such a move is the one that an administrator must not     *)
(* force: compensate.ts looks where the workspace is, and only then        *)
(* releases the target.                                                    *)
Unforced == \A m \in Move : Recover(m) => ~Switchable(m)

(* One move at a time is live (a unique index), and what is undone does    *)
(* not switch any more.                                                    *)
OneLive == \A m, o \in Move : Live(m) /\ Live(o) => m = o
NotTaken == \A r \in Runner : Undone(r) => ~Switchable(undo[r].of)

(* A move gets live by its start only.                                     *)
LEMMA LiveOn ==
    ASSUME Known, [Next]_vars, NEW m \in Move, Live(m)'
    PROVE  \/ Live(m)
           \/ /\ Start(m) /\ move[m].status = "asked" /\ undo' = undo /\ flow'[m].step \in {"begin", "dead"}
              /\ \A o \in Move : ~Live(o) /\ (o # m => move'[o] = move[o])
<1>1. CASE UNCHANGED vars
  BY <1>1 DEF vars, Live
<1>2. ASSUME NEW o \in Move, Flows(o) PROVE Live(m)
  <2>1. Others(o) /\ RowGoesOn(o)
    BY <1>2, FlowIs
  <2>2. CASE o = m
    BY <2>1, <2>2, Names DEF RowGoesOn, Live
  <2>3. CASE o # m
    BY <2>1, <2>3 DEF Others, Live
  <2>4. QED
    BY <2>2, <2>3
<1>3. ASSUME NEW r \in Runner, Undoes(r) PROVE Live(m)
  <2>1. RowsGetOver(r)
    BY <1>3, UndoIs
  <2>2. QED
    BY <2>1, Names DEF RowsGetOver, Live
<1>4. ASSUME NEW o \in Move, Start(o)
      PROVE  \/ Live(m)
             \/ /\ Start(m) /\ move[m].status = "asked" /\ undo' = undo /\ flow'[m].step \in {"begin", "dead"}
                /\ \A p \in Move : ~Live(p) /\ (p # m => move'[p] = move[p])
  <2>1. /\ SameRowBut(o) /\ undo' = undo /\ move[o].status = "asked" /\ flow'[o].step \in {"begin", "dead"}
        /\ \A p \in Move : move[p].status \notin Active
    BY <1>4, StartGoes DEF Known, Typing
  <2>2. \A p \in Move : ~Live(p)
    BY <2>1 DEF Live
  <2>3. CASE o = m
    BY <1>4, <2>1, <2>2, <2>3 DEF SameRowBut
  <2>4. CASE o # m
    BY <2>1, <2>4 DEF SameRowBut, Live
  <2>5. QED
    BY <2>3, <2>4
<1>5. ASSUME NEW o \in Move, Ask(o) \/ CloseUnstarted(o) \/ Cancel(o) PROVE Live(m)
  <2>1. SameRowBut(o) /\ move'[o].status \in {"asked", "failed", "cancelling"}
    BY <1>5, AskGoes, CloseGoes, CancelGoes DEF Known, Typing
  <2>2. o # m
    BY <2>1, Names DEF Live, Over
  <2>3. QED
    BY <2>1, <2>2 DEF SameRowBut, Live
<1>6. ASSUME NEW o \in Move, Recover(o) \/ DropRetained(o) PROVE Live(m)
  BY <1>6 DEF Recover, DropRetained, Live
<1>7. ASSUME NEW w \in Writer, Resolve(w) \/ Connect(w) \/ Write(w) PROVE Live(m)
  BY <1>7 DEF Resolve, Connect, Write, Live
<1>8. QED
  BY <1>1, <1>2, <1>3, <1>4, <1>5, <1>6, <1>7, NextIs

LEMMA OneLiveKept ==
    ASSUME Known, OneLive, [Next]_vars
    PROVE  OneLive'
<1> SUFFICES ASSUME NEW m \in Move, NEW o \in Move, Live(m)', Live(o)' PROVE m = o
  BY DEF OneLive
<1>1. CASE Live(m) /\ Live(o)
  BY <1>1 DEF OneLive
<1>2. CASE ~Live(m)
  <2>1. \A p \in Move : ~Live(p) /\ (p # m => move'[p] = move[p])
    BY <1>2, LiveOn
  <2>2. QED
    BY <2>1 DEF Live
<1>3. CASE ~Live(o)
  <2>1. \A p \in Move : ~Live(p) /\ (p # o => move'[p] = move[p])
    BY <1>3, LiveOn
  <2>2. QED
    BY <2>1 DEF Live
<1>4. QED
  BY <1>1, <1>2, <1>3

(* What a workflow has left it does not come back to.                      *)
LEMMA SwitchableOn ==
    ASSUME Known, [Next]_vars, NEW m \in Move, Switchable(m)'
    PROVE  Switchable(m) \/ move[m].status = "asked"
<1>1. CASE Live(m)
  <2>1. CASE \E o \in Move : Flows(o)
    <3>1. PICK o \in Move : Flows(o)
      BY <2>1
    <3>2. Working(o) /\ Others(o)
      BY <3>1, FlowIs
    <3>3. Working(m)
      BY <3>2 DEF Others, Working, Switchable
    <3>4. QED
      BY <1>1, <3>3 DEF Switchable
  <2>2. CASE \E r \in Runner : Undoes(r)
    <3>1. PICK r \in Runner : Undoes(r)
      BY <2>2
    <3>2. flow'[m] = flow[m] \/ flow'[m].step \in {"done", "dead"}
      BY <3>1, UndoIs
    <3>3. QED
      BY <1>1, <3>2, Names DEF Switchable, Working
  <2>3. CASE Otherwise
    <3>1. flow'[m] = flow[m] \/ Start(m)
      BY <2>3 DEF Otherwise
    <3>2. QED
      BY <1>1, <3>1 DEF Start, Switchable, Working
  <2>4. QED
    BY <2>1, <2>2, <2>3, StepsAre DEF Known
<1>2. CASE ~Live(m)
  BY <1>2, LiveOn DEF Switchable
<1>3. QED
  BY <1>1, <1>2

LEMMA NotTakenKept ==
    ASSUME Known, NotTaken, [Next]_vars, Unforced
    PROVE  NotTaken'
<1> SUFFICES ASSUME NEW r \in Runner, Undone(r)' PROVE ~Switchable(undo[r].of)'
  BY DEF NotTaken
<1>0. ASSUME NEW m \in Move, undo'[r].of = m, ~Switchable(m)' PROVE ~Switchable(undo[r].of)'
  BY <1>0 DEF Switchable, Live, Working
<1>1. ASSUME NEW m \in Move, undo'[r].of = m, move[m].status # "asked", ~Switchable(m)
      PROVE  ~Switchable(undo[r].of)'
  BY <1>0, <1>1, SwitchableOn
<1>2. ASSUME undo'[r] = undo[r] PROVE ~Switchable(undo[r].of)'
  <2>1. /\ undo[r].of \in Move /\ move[undo[r].of].status # "asked" /\ ~Switchable(undo[r].of)
        /\ undo'[r].of = undo[r].of
    BY <1>2 DEF NotTaken, Undone, Known, Typing, Started
  <2>2. QED
    BY <1>1, <2>1
<1>3. ASSUME NEW m \in Move, Flows(m) PROVE ~Switchable(undo[r].of)'
  <2>1. Others(m) /\ FlowGoesOn(m)
    BY <1>3, FlowIs
  <2>2. CASE undo'[r] = undo[r]
    BY <1>2, <2>2
  <2>3. CASE flow'[m].step = "undo" /\ undo'[m].of = m /\ r = m
    <3>1. ~Switchable(m)'
      BY <2>3, Names DEF Switchable, Working
    <3>2. QED
      BY <1>0, <2>3, <3>1
  <2>4. QED
    BY <2>1, <2>2, <2>3 DEF Others, FlowGoesOn
<1>4. ASSUME NEW q \in Runner, Undoes(q) PROVE ~Switchable(undo[r].of)'
  <2>1. UndoGoesOn(q) /\ Undone(q) /\ undo[q].of \in Move /\ move[undo[q].of].status # "asked"
    BY <1>4, UndoIs
  <2>2. CASE undo'[r] = undo[r]
    BY <1>2, <2>2
  <2>3. CASE r = q /\ undo'[q].of = undo[q].of
    BY <1>1, <2>1, <2>3 DEF NotTaken
  <2>4. CASE r = q /\ undo'[q].of = q /\ q \in Move /\ flow' = flow
    <3>1. flow[q].step = "undo"
      BY <1>4, <2>4, UndoIs
    <3>2. ~Switchable(q)'
      BY <2>4, <3>1, Names DEF Switchable, Working
    <3>3. QED
      BY <1>0, <2>4, <3>2
  <2>5. QED
    BY <2>1, <2>2, <2>3, <2>4 DEF UndoGoesOn
<1>5. ASSUME NEW m \in Move, Recover(m) PROVE ~Switchable(undo[r].of)'
  <2>1. /\ UNCHANGED <<move, flow>> /\ undo'[Admin].of = m
        /\ \A q \in Runner \ {Admin} : undo'[q] = undo[q]
    BY <1>5, RecoverGoes DEF Known, Typing
  <2>2. ~Switchable(m)'
    BY <1>5, <2>1 DEF Unforced, Switchable, Live, Working
  <2>3. QED
    BY <1>0, <1>2, <2>1, <2>2
<1>6. CASE undo' = undo
  BY <1>2, <1>6
<1>7. QED
  BY <1>3, <1>4, <1>5, <1>6, NextIs
     DEF vars, Ask, Start, CloseUnstarted, Cancel, DropRetained, Resolve, Connect, Write

(* The one that is live is past its first look only where the workspace    *)
(* still is at its source: no other one can move it.                       *)
LEMMA WhereSeenKept ==
    ASSUME Known, Placed, OneLive, [Next]_vars
    PROVE  LeftWhereSeen'
<1> SUFFICES ASSUME NEW m \in Move, Live(m)', flow'[m].step \in Past PROVE AtSource(m)'
  BY DEF LeftWhereSeen
<1>1. Live(m) /\ move[m].status # "none"
  BY LiveOn, Names, Order DEF Live, Past, Step
<1>2. move'[m].source = move[m].source
  BY <1>1, SourceStays
<1>3. workspace'.at = workspace.at
  <2> SUFFICES ASSUME NEW o \in Move, Switches(o) PROVE FALSE
    BY Completes
  <2>1. o = m
    BY <1>1 DEF Switches, OneLive
  <2>2. QED
    BY <2>1, Names DEF Switches, Completed, Live
<1>4. AtSource(m)
  <2>1. CASE flow[m].step \in Past
    BY <1>1, <2>1 DEF Placed, Leaves
  <2>2. ASSUME NEW o \in Move, Flows(o) PROVE flow[m].step \in Past \/ AtSource(m)
    BY <2>2, FlowIs DEF Others, FlowGoesOn, Turns
  <2>3. ASSUME NEW r \in Runner, Undoes(r) PROVE flow[m].step \in Past
    <3>1. flow'[m] = flow[m] \/ flow'[m].step \in {"done", "dead"}
      BY <2>3, UndoIs
    <3>2. QED
      BY <3>1, Order, Names
  <2>4. ASSUME Otherwise PROVE flow[m].step \in Past
    <3>1. flow'[m] = flow[m] \/ flow'[m].step \in {"begin", "dead"}
      BY <2>4 DEF Otherwise
    <3>2. QED
      BY <3>1, Order, Names
  <2>5. QED
    BY <2>1, <2>2, <2>3, <2>4, StepsAre DEF Known
<1>5. QED
  BY <1>2, <1>3, <1>4 DEF AtSource

(* No undo comes to release the database the workspace is at: it has       *)
(* looked, and a move that is undone does not switch after that.           *)
LEMMA NotHereKept ==
    ASSUME Known, Placed, NotTaken, ReleasedGone, NotHere, [Next]_vars
    PROVE  NotHere'
<1>1. Releasing \subseteq Undoing /\ "load" \notin Releasing
  BY DEF Unlocking, Releasing, Undoing
<1>2. CASE \E m \in Move : Switches(m)
  <2>1. PICK m \in Move : Switches(m)
    BY <1>2
  <2>2. ASSUME NEW r \in Runner, undo[r].phase \in Releasing, undo[r].target = move[m].target
        PROVE  FALSE
    <3>1. Undone(r) /\ undo[r].of \in Move /\ undo[r].target # None
      BY <1>1, <2>1, <2>2, Names, DistinctNames DEF Switches, Undone, Known, Typing, Started
    <3>2. Loaded(r, undo[r].of)
      BY <1>1, <2>2, <3>1 DEF Loaded, At
    <3>3. undo[r].target = move[undo[r].of].target
      BY <3>1, <3>2 DEF ReleasedGone, ReleaseNoted
    <3>4. undo[r].of = m
      BY <2>2, <3>1, <3>3 DEF Known, Targets
    <3>5. QED
      BY <2>1, <3>1, <3>4 DEF NotTaken, Switches, Switchable
  <2>3. QED
    BY <2>1, <2>2 DEF Switches, NotHere
<1>3. CASE workspace'.at = workspace.at
  <2>1. ASSUME NEW r \in Runner, undo'[r] = undo[r] \/ undo'[r].phase \notin Releasing
        PROVE  undo'[r].phase \in Releasing => undo'[r].target # workspace'.at
    BY <1>3, <2>1 DEF NotHere
  <2>2. ASSUME NEW m \in Move, Flows(m) PROVE NotHere'
    <3>1. \A r \in Runner : undo'[r] = undo[r] \/ undo'[r].phase = "load"
      BY <2>2, FlowIs DEF Others, At
    <3>2. QED
      BY <1>1, <2>1, <3>1 DEF NotHere
  <2>3. ASSUME NEW r \in Runner, Undoes(r) PROVE NotHere'
    <3>1. UndoGoesOn(r) /\ UndoTurns(r)
      BY <2>3, UndoGoes DEF Known, Typing, Undoes
    <3>2. workspace.at # None
      BY DistinctNames DEF Known, Typing, Typed, PlacesTyped, AUrl
    <3>3. undo'[r].phase \in Releasing => undo'[r].target # workspace'.at
      BY <1>3, <3>1, <3>2 DEF UndoTurns, NotHere
    <3>4. QED
      BY <2>1, <3>1, <3>3 DEF UndoGoesOn, NotHere
  <2>4. ASSUME Otherwise PROVE NotHere'
    <3>1. \A r \in Runner : undo'[r] = undo[r] \/ undo'[r].phase = "load"
      BY <2>4 DEF Otherwise
    <3>2. QED
      BY <1>1, <2>1, <3>1 DEF NotHere
  <2>5. QED
    BY <2>2, <2>3, <2>4, StepsAre DEF Known
<1>4. QED
  BY <1>2, <1>3, Completes

(* Nor the target of the move that may still switch to it.                 *)
LEMMA ServedOn ==
    ASSUME Known, Placed, NotTaken, ReleasedGone, NotHere, Served, [Next]_vars
    PROVE  Served'
<1>1. db'[workspace'.at].alive
  BY HereStays
<1>2. ASSUME NEW m \in Move, Live(m)', flow'[m].step \in WithReady
      PROVE  db'[move'[m].target].alive
  <2>1. Live(m)
    BY <1>2, LiveOn, Order, Names
  <2>2. CASE Flows(m)
    BY <1>2, <2>1, <2>2, FlowServed
  <2>3. CASE ~Flows(m)
    <3>1. flow'[m] = flow[m] \/ flow'[m].step \in {"begin", "done", "dead"}
      <4>1. CASE \E o \in Move : Flows(o)
        BY <2>3, <4>1, FlowIs DEF Others
      <4>2. CASE \E r \in Runner : Undoes(r)
        BY <4>2, UndoIs
      <4>3. CASE Otherwise
        BY <4>3 DEF Otherwise
      <4>4. QED
        BY <4>1, <4>2, <4>3, StepsAre DEF Known
    <3>2. flow[m].step \in WithReady
      BY <1>2, <3>1, Order, Names
    <3>3. db[move[m].target].alive /\ move[m].target # None /\ Switchable(m)
      BY <2>1, <3>2, Order DEF Served, Known, Typing, Carried, Switchable, Working
    <3>4. move[m].target \in Database /\ move'[m].target = move[m].target
      BY <3>3, TargetIs, TargetStays
    <3>5. ASSUME NEW o \in Move, flow[o].made # None PROVE move[m].target # flow[o].made
      BY <3>5 DEF Known, Targets
    <3>6. ASSUME NEW r \in Runner, Undone(r), At(r, "release") PROVE move[m].target # undo[r].target
      <4>1. Loaded(r, undo[r].of) /\ undo[r].of \in Move
        BY <3>6 DEF Loaded, At, Known, Typing, Started
      <4>2. undo[r].target # None => undo[r].target = move[undo[r].of].target
        BY <4>1 DEF ReleasedGone, ReleaseNoted
      <4>3. undo[r].of # m
        BY <3>3, <3>6 DEF NotTaken
      <4>4. QED
        BY <3>3, <4>1, <4>2, <4>3 DEF Known, Targets
    <3>7. ASSUME NEW o \in Move, Completed(o) PROVE move[m].target # move[o].source
      <4>1. ~Completed(m)
        BY <2>1, Names DEF Live, Completed
      <4>2. move[o].source \in Database
        BY <3>7 DEF Completed, Known, Typing, Started
      <4>3. QED
        BY <4>1, <4>2, Elsewhere
    <3>8. QED
      BY <3>3, <3>4, <3>5, <3>6, <3>7, AliveStays
  <2>4. QED
    BY <2>2, <2>3
<1>3. QED
  BY <1>1, <1>2 DEF Served

SInv == Known /\ Placed /\ OneLive /\ NotTaken /\ ReleasedGone /\ NotHere /\ Served

LEMMA SInvAtFirst == Init => SInv
<1> SUFFICES ASSUME Init PROVE SInv
  OBVIOUS
<1>1. Known /\ Placed /\ ReleasedGone /\ Served
  BY UInvAtFirst DEF UInv, IInv
<1>2. /\ \A m \in Move : ~Live(m)
      /\ \A r \in Runner : undo[r].phase = "idle"
  BY Names DEF Init, NewMove, Idle, Live
<1>3. OneLive /\ NotTaken /\ NotHere
  BY <1>2, Names DEF OneLive, NotTaken, NotHere, Undone, Releasing, Unlocking
<1>4. QED
  BY <1>1, <1>3 DEF SInv

LEMMA SInvKept == SInv /\ [Next]_vars /\ Unforced => SInv'
<1> SUFFICES ASSUME SInv, [Next]_vars, Unforced PROVE SInv'
  OBVIOUS
<1>1. Known' /\ Placed'
  BY TypingKept, TargetsKept, CancelsKept, HomesKept, WhereSeenKept, LeavesFrom DEF SInv, Known, Placed
<1>2. OneLive' /\ NotTaken'
  BY OneLiveKept, NotTakenKept DEF SInv
<1>3. ReleasedGone' /\ NotHere' /\ Served'
  BY ReleasedGoneKept, NotHereKept, ServedOn DEF SInv
<1>4. QED
  BY <1>1, <1>2, <1>3 DEF SInv

(* WorkspaceHasADatabase, whatever moves, undoings and sweeps do beside    *)
(* each other: the database the workspace is at is dropped only if a       *)
(* recovery is forced while the move's workflow may still switch.          *)
THEOREM HasADatabase == Spec /\ [][Unforced]_vars => []WorkspaceHasADatabase
<1>1. SInv /\ [Next]_vars /\ [Unforced]_vars => SInv'
  <2>1. SInv /\ UNCHANGED vars => Unforced
    <3>1. SInv => recovers \in Nat
      BY Bounds DEF SInv, Known, Typing, Typed, BudgetsTyped
    <3>2. QED
      BY <3>1 DEF vars, Unforced, Recover
  <2>2. QED
    BY <2>1, SInvKept
<1>2. SInv => WorkspaceHasADatabase
  BY DEF SInv, Served, WorkspaceHasADatabase
<1>3. QED
  BY <1>1, <1>2, SInvAtFirst, PTL DEF Spec

(* It is never dropped where the recover route is not forced: what it asks *)
(* for force for includes every move that may still switch.                *)
THEOREM HasADatabaseUnforced == ~ForcedAlive => (Spec => []WorkspaceHasADatabase)
<1> SUFFICES ASSUME ~ForcedAlive PROVE Spec => []WorkspaceHasADatabase
  OBVIOUS
<1>1. Unforced
  <2> SUFFICES ASSUME NEW m \in Move, Recover(m), Switchable(m) PROVE FALSE
    BY DEF Unforced
  <2>1. move[m].status \in {"failed", "cancelled", "cancelling"} \/ flow[m].step = "dead"
    BY DEF Recover
  <2>2. QED
    BY <2>1, Names DEF Switchable, Live, Working, Over
<1>2. SInv /\ [Next]_vars => SInv'
  BY <1>1, SInvKept
<1>3. SInv => WorkspaceHasADatabase
  BY DEF SInv, Served, WorkspaceHasADatabase
<1>4. QED
  BY <1>2, <1>3, SInvAtFirst, PTL DEF Spec

================================================================================
