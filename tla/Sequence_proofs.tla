---------------------------- MODULE Sequence_proofs ----------------------------
(***************************************************************************)
(* What holds of sequences for any number of enrollments, emails, requests *)
(* and tasks, and any bounds.                                              *)
(***************************************************************************)
EXTENDS Sequence, TLAPS

-----------------------------------------------------------------------------
(* Types.                                                                  *)

Statement ==
    {"new", "admit", "unpause", "wake", "select", "claim", "start", "starting", "release",
     "pauseRows", "unenroll", "pauseOne", "readSequence", "resumeOne", "insert", "done"}
Seen == Status \cup {"draft"}
Whom == SUBSET Enrollment
ARequest ==
    [at : Statement, resumes : BOOLEAN, whom : Whom, todo : Whom, failed : Whom,
     saw : Seen, claimed : BOOLEAN]
ARow == [status : Status, claimed : BOOLEAN]

Place == {"idle", "gate", "gateRow", "wait", "load", "loadRow", "step", "fail", "finalize", "return"}
Label == {"start", "step", "final"}
Read == {"none", "draft", "active", "paused"}
Result == {"none", "succeeded", "failed"}
Email == 1 .. Steps + 1
Checks == 0 .. MaxRechecks
Deferrals == 0 .. MaxDeferrals
AJob ==
    [of : Enrollment, at : Place, label : Label, step : Email, saw : Read,
     checks : Checks, deferrals : Deferrals, result : Result]

RequestsTyped == request \in [Request -> ARequest]
RowsTyped == sequence \in {"draft", "active", "paused"} /\ row \in [Enrollment -> ARow]
JobsTyped == job \in [Task -> AJob]

(* The parts of the type invariant.                                        *)
LEMMA TypeParts ==
    TypeOK <=> /\ JobsTypeOK /\ RowsTyped /\ RequestsTyped /\ JobsTyped
               /\ sent \in [Enrollment -> [1 .. Steps -> Nat]]
               /\ failures \in 0 .. MaxFailures
               /\ resent \in 0 .. failures
               /\ late \in [Enrollment -> Nat]
               /\ unread \in [Enrollment -> BOOLEAN]
  BY DEF TypeOK, RowsTyped, RequestsTyped, JobsTyped, ARequest, ARow, AJob,
         Statement, Seen, Whom, Place, Label, Read, Result, Email, Checks, Deferrals

(* The names a request or a job may carry.                                 *)
LEMMA Names ==
    /\ Whom = SUBSET Enrollment
    /\ \A s \in Status : s \in Seen
    /\ {"none", "pending", "active", "paused", "unenrolled", "completed", "failed"} \subseteq Status
    /\ {"draft", "active", "paused"} \subseteq Seen \cap Read
    /\ {"new", "admit", "unpause", "wake", "select", "claim", "start", "starting", "release",
        "pauseRows", "unenroll", "pauseOne", "readSequence", "resumeOne", "insert", "done"}
          \subseteq Statement
    /\ {"idle", "gate", "gateRow", "wait", "load", "loadRow", "step", "fail", "finalize", "return"}
          \subseteq Place
    /\ {"start", "step", "final"} \subseteq Label
    /\ {"none", "succeeded", "failed"} \subseteq Result
    /\ "none" \in Read
  BY DEF Statement, Seen, Whom, Status, Place, Label, Read, Result

(* The numbers a job may carry.                                            *)
LEMMA Numbers ==
    /\ 1 \in Email /\ 1 <= Steps
    /\ \A i \in Email : i <= Steps => i \in 1 .. Steps /\ i + 1 \in Email
    /\ \A i \in Email : i <= Steps /\ i # Steps => i + 1 <= Steps
    /\ 0 \in Checks /\ \A i \in Checks : i < MaxRechecks => i + 1 \in Checks
    /\ 0 \in Deferrals /\ \A i \in Deferrals : i < MaxDeferrals => i + 1 \in Deferrals
  BY SequenceBounds DEF Email, Checks, Deferrals

(* A request as it comes in.                                               *)
LEMMA NewRequestTyped ==
    ASSUME NEW at \in Statement, NEW todo \in Whom
    PROVE  [NewRequest EXCEPT !.at = at, !.todo = todo] \in ARequest
  BY Names DEF NewRequest, ARequest

(* A row is still one after its status is set.                             *)
LEMMA SetTyped ==
    ASSUME RowsTyped, NEW es, NEW s \in Status, Set(es, s)
    PROVE  row' \in [Enrollment -> ARow]
  BY DEF RowsTyped, Set, ARow

(* A request that goes on, or ends, is still one.                          *)
LEMMA GoTyped ==
    ASSUME RequestsTyped, NEW r \in Request, NEW at \in Statement, Go(r, at)
    PROVE  RequestsTyped'
<1>1. [NewRequest EXCEPT !.at = "done"] \in ARequest
  BY Names DEF NewRequest, ARequest
<1>2. [request[r] EXCEPT !.at = at] \in ARequest
  BY DEF RequestsTyped, ARequest
<1>3. QED
  BY <1>1, <1>2 DEF Go, RequestsTyped

(* Requests stay requests, and rows rows, whichever statement is next.     *)
LEMMA RequestsKeepTypes ==
    ASSUME RequestsTyped, RowsTyped, NEW r \in Request, RequestBegins(r) \/ RequestGoesOn(r)
    PROVE  RequestsTyped' /\ RowsTyped'
<1>1. CASE Launch(r) \/ Resume(r)
  BY <1>1, Names DEF Launch, Resume, Activate, RequestsTyped, RowsTyped, ARequest
<1>2. CASE Start(r) \/ Select(r)
  <2>1. Selected(r)
    BY <1>2 DEF Start, Select
  <2>2. CASE Go(r, "done")
    BY <2>1, <2>2, GoTyped, Names DEF Selected, database, RowsTyped
  <2>3. CASE ~Go(r, "done")
    BY <2>1, <2>3, Names DEF Selected, With, database, RowsTyped, RequestsTyped, ARequest
  <2>4. QED
    BY <2>2, <2>3
<1>3. CASE Pause(r)
  BY <1>3, Names DEF Pause, RowsTyped, RequestsTyped, ARequest
<1>4. CASE Enroll(r)
  <2>1. With("none") \in Whom /\ sequence \in Seen
    BY Names DEF With, RowsTyped
  <2>2. [request[r] EXCEPT !.at = "insert", !.whom = With("none"), !.saw = sequence] \in ARequest
    BY <2>1, Names DEF RequestsTyped, ARequest
  <2>3. QED
    BY <1>4, <2>2 DEF Enroll, database, RowsTyped, RequestsTyped
<1>5. CASE Unenroll(r) \/ PauseOne(r) \/ ResumeOne(r)
  <2>1. PICK e \in Enrollment, next \in {"unenroll", "pauseOne", "readSequence"} : ReadRow(r, e, next)
    BY <1>5 DEF Unenroll, PauseOne, ResumeOne, With
  <2>2. row[e].status \in Seen /\ row[e].claimed \in BOOLEAN /\ {e} \in Whom /\ next \in Statement
    BY Names DEF RowsTyped, ARow
  <2>3. [request[r] EXCEPT !.at = next, !.whom = {e}, !.saw = row[e].status,
                           !.claimed = row[e].claimed] \in ARequest
    BY <2>2 DEF RequestsTyped, ARequest
  <2>4. QED
    BY <2>1, <2>3 DEF ReadRow, database, RowsTyped, RequestsTyped
<1>6. CASE Admit(r) \/ PauseRows(r)
  BY <1>6, SetTyped, GoTyped, Names DEF Admit, PauseRows, RowsTyped
<1>7. CASE Unpause(r)
  <2>1. RowsTyped'
    BY <1>7, SetTyped, Names DEF Unpause, RowsTyped
  <2> DEFINE woken == {e \in With("paused") : row[e].claimed}
  <2>2. woken \in Whom
    BY Names DEF With
  <2>3. [request[r] EXCEPT !.at = "wake", !.todo = woken] \in ARequest
    BY <2>2, Names DEF RequestsTyped, ARequest
  <2>4. QED
    BY <1>7, <2>1, <2>3 DEF Unpause, RequestsTyped
<1>8. CASE Wake(r)
  <2>1. RowsTyped'
    BY <1>8 DEF Wake, database, RowsTyped
  <2>2. CASE request[r].todo = {}
    BY <1>8, <2>1, <2>2, GoTyped, Names DEF Wake
  <2>3. CASE request[r].todo # {}
    BY <1>8, <2>1, <2>3, Names DEF Wake, RequestsTyped, ARequest
  <2>4. QED
    BY <2>2, <2>3
<1>9. CASE Claim(r)
  <2> DEFINE won == {e \in request[r].whom : row[e].status = "active" /\ ~row[e].claimed}
  <2>1. row' \in [Enrollment -> ARow]
    BY <1>9 DEF Claim, RowsTyped, ARow
  <2>2. won \in Whom
    BY Names DEF RequestsTyped, ARequest
  <2>3. [NewRequest EXCEPT !.at = "start", !.todo = won] \in ARequest
    BY <2>2, NewRequestTyped, Names
  <2>4. QED
    BY <1>9, <2>1, <2>3 DEF Claim, RowsTyped, RequestsTyped
<1>10. CASE LookUp(r)
  <2>1. \A e \in request[r].todo : request[r].todo \ {e} \in Whom /\ {e} \in Whom
    BY Names DEF RequestsTyped, ARequest
  <2>2. \A e \in request[r].todo :
            /\ [request[r] EXCEPT !.todo = @ \ {e}] \in ARequest
            /\ [request[r] EXCEPT !.at = "starting", !.whom = {e}] \in ARequest
    BY <2>1, Names DEF RequestsTyped, ARequest
  <2>3. QED
    BY <1>10, <2>2 DEF LookUp, database, RowsTyped, RequestsTyped
<1>11. CASE Spawn(r)
  BY <1>11, Names DEF Spawn, database, RowsTyped, RequestsTyped, ARequest
<1>12. CASE StartFails(r)
  <2>1. \A e \in request[r].todo :
            request[r].todo \ {e} \in Whom /\ request[r].failed \cup {e} \in Whom
    BY Names DEF RequestsTyped, ARequest
  <2>2. \A e \in request[r].todo :
            [request[r] EXCEPT !.todo = @ \ {e}, !.failed = @ \cup {e}] \in ARequest
    BY <2>1, Names DEF RequestsTyped, ARequest
  <2>3. QED
    BY <1>12, <2>2 DEF StartFails, database, RowsTyped, RequestsTyped
<1>13. CASE Started(r) \/ ReadSequence(r)
  BY <1>13, GoTyped, Names DEF Started, ReadSequence, database, RowsTyped
<1>14. CASE Release(r)
  <2>1. RequestsTyped'
    BY <1>14, GoTyped, Names DEF Release
  <2>2. RowsTyped'
    BY <1>14 DEF Release, RowsTyped, ARow
  <2>3. QED
    BY <2>1, <2>2
<1>15. CASE UnenrollRow(r) \/ PauseRow(r) \/ ResumeRow(r)
  <2>1. RowsTyped'
    BY <1>15, SetTyped, Names DEF UnenrollRow, PauseRow, ResumeRow, RowsTyped
  <2>2. CASE Go(r, "done") \/ Go(r, "claim")
    BY <2>1, <2>2, GoTyped, Names
  <2>3. CASE ~(Go(r, "done") \/ Go(r, "claim"))
    BY <1>15, <2>1, <2>3, Names DEF UnenrollRow, PauseRow, ResumeRow, RequestsTyped, ARequest
  <2>4. QED
    BY <2>2, <2>3
<1>16. CASE Insert(r)
  <2>1. RowsTyped'
    BY <1>16, SetTyped, Names DEF Insert, RowsTyped
  <2>2. CASE Go(r, "done")
    BY <2>1, <2>2, GoTyped, Names
  <2>3. CASE ~Go(r, "done")
    BY <1>16, <2>1, <2>3, Names DEF Insert, With, RequestsTyped, ARequest
  <2>4. QED
    BY <2>2, <2>3
<1>17. CASE RequestFails(r)
  BY <1>17, GoTyped, Names DEF RequestFails, database, RowsTyped
<1>18. QED
  BY <1>1, <1>2, <1>3, <1>4, <1>5, <1>6, <1>7, <1>8, <1>9, <1>10, <1>11, <1>12, <1>13, <1>14,
     <1>15, <1>16, <1>17 DEF RequestBegins, RequestGoesOn

(* A run is on an email of the sequence, but where it goes on to complete  *)
(* the enrollment.                                                         *)
Placed(j) ==
    /\ j.label = "final" => j.at \in {"gate", "gateRow", "wait"}
    /\ j.label # "final" /\ j.at # "finalize" => j.step <= Steps
Places == \A t \in Task : Placed(job[t])

(* A job that is beginning, or over.                                       *)
LEMMA NoJobTyped ==
    ASSUME NEW e \in Enrollment, NEW at \in Place, NEW result \in Result
    PROVE  LET j == [NoJob(e) EXCEPT !.at = at, !.result = result]
           IN j \in AJob /\ Placed(j)
  BY Names, Numbers DEF NoJob, AJob, Placed

(* A job that has passed its gate, that stops, or is on to the next email. *)
LEMMA JobGoesOnTyped ==
    ASSUME JobsTyped, Places, NEW t \in Task
    PROVE  /\ job[t].at = "gateRow" => Passed(t) \in AJob /\ Placed(Passed(t))
           /\ Stopped(t) \in AJob /\ Placed(Stopped(t))
           /\ job[t].at = "step" => NextStep(t) \in AJob /\ Placed(NextStep(t))
<1>1. job[t] \in AJob /\ Placed(job[t])
  BY DEF JobsTyped, Places
<1>2. ASSUME job[t].at = "gateRow" PROVE Passed(t) \in AJob /\ Placed(Passed(t))
  BY <1>1, <1>2, Names, Numbers DEF Passed, AJob, Placed
<1>3. Stopped(t) \in AJob /\ Placed(Stopped(t))
  BY <1>1, NoJobTyped, Names DEF Stopped, AJob
<1>4. ASSUME job[t].at = "step" PROVE NextStep(t) \in AJob /\ Placed(NextStep(t))
  <2>1. job[t].step \in Email /\ job[t].step <= Steps
    BY <1>1, <1>4 DEF AJob, Placed
  <2>2. job[t].step + 1 \in Email /\ (job[t].step # Steps => job[t].step + 1 <= Steps)
    BY <2>1, Numbers
  <2>3. QED
    BY <1>1, <2>2, Names, Numbers DEF NextStep, AJob, Placed
<1>5. QED
  BY <1>2, <1>3, <1>4

(* A gate is passed by who read twice that he may; who reads that he is    *)
(* paused waits, until he has read too often; others stop.                 *)
LEMMA GateRowEnds ==
    ASSUME NEW t \in Task, GateRow(t)
    PROVE  \/ /\ job' = [job EXCEPT ![t] = Passed(t)]
              /\ row[job[t].of].status = "active" /\ job[t].saw = "active"
           \/ job' = [job EXCEPT ![t] = Stopped(t)]
           \/ /\ job[t].checks < MaxRechecks
              /\ job' = [job EXCEPT ![t] = [job[t] EXCEPT !.at = "wait", !.saw = "none",
                                                          !.checks = @ + 1]]
<1> DEFINE status == row[job[t].of].status
           paused == status = "paused" \/ (status = "active" /\ job[t].saw = "paused")
           waits == [job[t] EXCEPT !.at = "wait", !.saw = "none", !.checks = @ + 1]
<1>1. job' = [job EXCEPT ![t] = CASE paused /\ job[t].checks < MaxRechecks -> waits
                                  [] ~paused /\ status = "active" /\ job[t].saw = "active" -> Passed(t)
                                  [] OTHER -> Stopped(t)]
  BY DEF GateRow
<1>2. CASE paused /\ job[t].checks < MaxRechecks
  BY <1>1, <1>2
<1>3. CASE ~(paused /\ job[t].checks < MaxRechecks) /\ ~paused /\ status = "active" /\ job[t].saw = "active"
  BY <1>1, <1>3
<1>4. CASE ~(paused /\ job[t].checks < MaxRechecks) /\ ~(~paused /\ status = "active" /\ job[t].saw = "active")
  BY <1>1, <1>4
<1>5. QED
  BY <1>2, <1>3, <1>4

(* Jobs stay jobs, whatever they do.                                       *)
LEMMA RunsKeepTypes ==
    ASSUME JobsTyped, RowsTyped, Places, NEW t \in Task, JobGoesOn(t)
    PROVE  JobsTyped' /\ Places'
<1> DEFINE Becomes(j) == job' = [job EXCEPT ![t] = j]
<1>1. ASSUME NEW j \in AJob, Placed(j), Becomes(j) PROVE JobsTyped' /\ Places'
  BY <1>1 DEF JobsTyped, Places
<1>2. ASSUME UNCHANGED job PROVE JobsTyped' /\ Places'
  BY <1>2 DEF JobsTyped, Places
<1>3. job[t] \in AJob /\ Placed(job[t])
  BY DEF JobsTyped, Places
<1>4. CASE Gate(t)
  <2> DEFINE j == [job[t] EXCEPT !.at = "gateRow", !.saw = sequence]
  <2>1. j \in AJob /\ Placed(j)
    BY <1>3, <1>4, Names DEF Gate, Doing, AJob, Placed, RowsTyped
  <2>2. QED
    BY <1>1, <1>4, <2>1 DEF Gate
<1>5. CASE GateRow(t)
  <2> DEFINE j == [job[t] EXCEPT !.at = "wait", !.saw = "none", !.checks = @ + 1]
  <2>1. job[t].checks < MaxRechecks => j \in AJob /\ Placed(j)
    BY <1>3, <1>5, Names, Numbers DEF GateRow, Doing, AJob, Placed
  <2>2. CASE Becomes(Passed(t))
    BY <1>1, <1>5, <2>2, JobGoesOnTyped DEF GateRow, Doing
  <2>3. CASE Becomes(Stopped(t))
    BY <1>1, <2>3, JobGoesOnTyped
  <2>4. CASE job[t].checks < MaxRechecks /\ Becomes(j)
    BY <1>1, <2>1, <2>4
  <2>5. QED
    BY <1>5, <2>2, <2>3, <2>4, GateRowEnds
<1>6. CASE Wait(t) \/ WaitEnds(t)
  <2>1. \A at \in {"gate", "wait"} :
            [job[t] EXCEPT !.at = at] \in AJob /\ Placed([job[t] EXCEPT !.at = at])
    BY <1>3, <1>6, Names DEF Wait, WaitEnds, Doing, AJob, Placed
  <2>2. QED
    BY <1>1, <1>6, <2>1 DEF Wait, WaitEnds
<1>7. CASE WaitElapses(t) \/ SendUnrecorded(t)
  BY <1>2, <1>7 DEF WaitElapses, SendUnrecorded
<1>8. CASE Load(t) \/ LoadRow(t)
  <2>1. \A at \in {"loadRow", "step"} :
            [job[t] EXCEPT !.at = at] \in AJob /\ Placed([job[t] EXCEPT !.at = at])
    BY <1>3, <1>8, Names DEF Load, LoadRow, Doing, AJob, Placed
  <2>2. QED
    BY <1>1, <1>8, <2>1, JobGoesOnTyped DEF Load, LoadRow
<1>9. CASE Send(t) \/ Skip(t)
  BY <1>1, <1>9, JobGoesOnTyped DEF Send, Skip, Doing
<1>10. CASE Defer(t)
  <2> DEFINE j == [job[t] EXCEPT !.at = "gate", !.label = "step", !.deferrals = @ + 1]
  <2>1. j \in AJob /\ Placed(j)
    BY <1>3, <1>10, Names, Numbers DEF Defer, Doing, AJob, Placed
  <2>2. QED
    BY <1>1, <1>10, <2>1 DEF Defer
<1>11. CASE StepFails(t)
  <2> DEFINE j == [job[t] EXCEPT !.at = "fail"]
  <2>1. j \in AJob /\ Placed(j)
    BY <1>3, <1>11, Names, Numbers DEF StepFails, Doing, AJob, Placed
  <2>2. QED
    BY <1>1, <1>11, <2>1 DEF StepFails
<1>12. CASE RecordFailure(t) \/ Finalize(t)
  BY <1>1, <1>12, JobGoesOnTyped DEF RecordFailure, Finalize, Ends
<1>13. CASE GiveUp(t)
  <2> DEFINE j == [NoJob(job[t].of) EXCEPT !.at = "return", !.result = "failed"]
  <2>1. j \in AJob /\ Placed(j)
    BY <1>3, NoJobTyped, Names DEF AJob
  <2>2. QED
    BY <1>1, <1>13, <2>1 DEF GiveUp
<1>14. CASE Return(t)
  <2>1. NoJob(job[t].of) \in AJob /\ Placed(NoJob(job[t].of))
    BY <1>3, Names, Numbers DEF NoJob, AJob, Placed
  <2>2. QED
    BY <1>1, <1>14, <2>1 DEF Return
<1>15. QED
  BY <1>4, <1>5, <1>6, <1>7, <1>8, <1>9, <1>10, <1>11, <1>12, <1>13, <1>14 DEF JobGoesOn

-----------------------------------------------------------------------------
(* The operators of Jobs.                                                  *)

ASlot == [parked : Task \cup {NoTask}, kept : BOOLEAN]
Where == {"idle", "parked", "elapsed"}
Oneshot == {"empty", "sent", "closed"}
AWait == [at : Where, shot : Oneshot, woke : BOOLEAN]
SlotsTyped == slot \in [Key -> ASlot] /\ wait \in [Task -> AWait]

(* The type of the jobs has a part for the runs and one for the signals.   *)
LEMMA JobsTypeParts == JobsTypeOK <=> runs \in [Key -> RunState] /\ SlotsTyped
  BY DEF JobsTypeOK, SlotsTyped, ASlot, AWait, Where, Oneshot

(* A wait that is over, one that was answered, and one that begins.        *)
LEMMA WaitsTyped ==
    /\ \A b \in BOOLEAN : [NoWait EXCEPT !.woke = b] \in AWait
    /\ NoWait \in AWait /\ [NoWait EXCEPT !.at = "parked"] \in AWait
    /\ EmptySlot \in ASlot
    /\ \A x \in AWait : /\ \A s \in {"sent", "closed"} : [x EXCEPT !.shot = s] \in AWait
                        /\ [x EXCEPT !.at = "elapsed"] \in AWait
                        /\ [x EXCEPT !.woke = FALSE] \in AWait
    /\ \A x \in ASlot : /\ \A b \in BOOLEAN : [x EXCEPT !.kept = b] \in ASlot
                        /\ \A u \in Task \cup {NoTask} : [x EXCEPT !.parked = u] \in ASlot
<1>1. {"sent", "closed", "empty"} \subseteq Oneshot /\ {"elapsed", "parked", "idle"} \subseteq Where
  BY DEF Where, Oneshot
<1>2. \A b \in BOOLEAN : [NoWait EXCEPT !.woke = b] \in AWait
  BY <1>1 DEF NoWait, AWait
<1>3. NoWait \in AWait /\ [NoWait EXCEPT !.at = "parked"] \in AWait
  BY <1>1 DEF NoWait, AWait
<1>4. EmptySlot \in ASlot
  BY DEF EmptySlot, ASlot
<1>5. \A x \in AWait : /\ \A s \in {"sent", "closed"} : [x EXCEPT !.shot = s] \in AWait
                       /\ [x EXCEPT !.at = "elapsed"] \in AWait
                       /\ [x EXCEPT !.woke = FALSE] \in AWait
  BY <1>1 DEF AWait
<1>6. \A x \in ASlot : /\ \A b \in BOOLEAN : [x EXCEPT !.kept = b] \in ASlot
                       /\ \A u \in Task \cup {NoTask} : [x EXCEPT !.parked = u] \in ASlot
  BY DEF ASlot
<1>7. QED
  BY <1>2, <1>3, <1>4, <1>5, <1>6

(* Signals and waits keep the types of the table.                          *)
LEMMA SignalsKeepTypes ==
    ASSUME SlotsTyped, NEW k \in Key, NEW t \in Task,
           \/ Deliver(k) \/ Expire(k) \/ Park(t, k) \/ Woken(t) \/ Elapse(t) \/ TimeOut(t, k)
    PROVE  SlotsTyped'
<1> DEFINE Answered(b) == wait' = [wait EXCEPT ![t] = [NoWait EXCEPT !.woke = b]]
<1>1. CASE Deliver(k)
  <2>1. slot[k].parked \in Task \cup {NoTask}
    BY DEF SlotsTyped, ASlot
  <2>2. CASE slot[k].parked = NoTask
    <3>1. [slot[k] EXCEPT !.kept = TRUE] \in ASlot
      BY WaitsTyped DEF SlotsTyped
    <3>2. QED
      BY <1>1, <2>2, <3>1 DEF Deliver, SlotsTyped
  <2>3. CASE slot[k].parked # NoTask
    <3>1. [wait[slot[k].parked] EXCEPT !.shot = "sent"] \in AWait
      BY <2>1, <2>3, WaitsTyped DEF SlotsTyped
    <3>2. QED
      BY <1>1, <2>3, <3>1, WaitsTyped DEF Deliver, SlotsTyped
  <2>4. QED
    BY <2>2, <2>3
<1>2. CASE Expire(k)
  BY <1>2, WaitsTyped DEF Expire, SlotsTyped
<1>3. CASE Park(t, k)
  <2>1. CASE slot[k].kept
    <3>1. [slot[k] EXCEPT !.kept = FALSE] \in ASlot /\ [NoWait EXCEPT !.woke = TRUE] \in AWait
      BY WaitsTyped DEF SlotsTyped
    <3>2. QED
      BY <1>3, <2>1, <3>1 DEF Park, SlotsTyped
  <2>2. CASE ~slot[k].kept
    <3>1. [slot[k] EXCEPT !.parked = t] \in ASlot /\ [NoWait EXCEPT !.at = "parked"] \in AWait
      BY WaitsTyped DEF SlotsTyped
    <3>2. \A u \in Task : [wait[u] EXCEPT !.shot = "closed"] \in AWait /\ wait[u] \in AWait
      BY WaitsTyped DEF SlotsTyped
    <3>3. QED
      BY <1>3, <2>2, <3>1, <3>2 DEF Park, SlotsTyped
  <2>3. QED
    BY <2>1, <2>2
<1>4. CASE Woken(t)
  <2>1. UNCHANGED slot /\ Answered(wait[t].shot = "sent")
    BY <1>4 DEF Woken
  <2>2. QED
    BY <2>1, WaitsTyped DEF SlotsTyped
<1>5. CASE Elapse(t)
  BY <1>5, WaitsTyped DEF Elapse, SlotsTyped
<1>6. CASE TimeOut(t, k)
  <2>1. CASE slot[k].parked = t
    <3>1. [slot[k] EXCEPT !.parked = NoTask] \in ASlot /\ NoWait \in AWait
      BY WaitsTyped DEF SlotsTyped
    <3>2. QED
      BY <1>6, <2>1, <3>1 DEF TimeOut, SlotsTyped
  <2>2. CASE slot[k].parked # t
    <3>1. UNCHANGED slot /\ Answered(wait[t].shot = "sent")
      BY <1>6, <2>2 DEF TimeOut
    <3>2. QED
      BY <3>1, WaitsTyped DEF SlotsTyped
  <2>3. QED
    BY <2>1, <2>2
<1>7. QED
  BY <1>1, <1>2, <1>3, <1>4, <1>5, <1>6

(* Remembering a run keeps the type of what is remembered.                 *)
LEMMA RememberTyped ==
    ASSUME runs \in [Key -> RunState], NEW k \in Key, NEW s \in RunState, Remember(k, s)
    PROVE  runs' \in [Key -> RunState]
<1>1. "none" \in RunState
  BY DEF RunState
<1>2. QED
  BY <1>1 DEF Remember

-----------------------------------------------------------------------------
(* The steps, by what they change.                                         *)

(* What a request touches: the table of signals only to wake a run, and    *)
(* the jobs and what is remembered of them only to start one.              *)
LEMMA RequestsFrame ==
    ASSUME NEW r \in Request, RequestBegins(r) \/ RequestGoesOn(r)
    PROVE  /\ Wake(r) \/ UNCHANGED <<slot, wait>>
           /\ Spawn(r) \/ UNCHANGED <<runs, job>>
           /\ UNCHANGED sent
           /\ failures' = failures \/ (failures < MaxFailures /\ failures' = failures + 1)
<1> USE DEF jobsVars, database
<1>1. CASE RequestBegins(r)
  BY <1>1 DEF RequestBegins, Launch, Resume, Activate, Start, Selected, Pause, Enroll,
              Unenroll, PauseOne, ResumeOne, ReadRow
<1>2. CASE Wake(r)
  BY <1>2 DEF Wake
<1>3. CASE RequestGoesOn(r) /\ ~Wake(r)
  BY <1>3 DEF RequestGoesOn, Admit, Unpause, Select, Selected, Claim, LookUp, Spawn, StartFails,
              Started, Release, PauseRows, UnenrollRow, PauseRow, ReadSequence, ResumeRow, Insert,
              RequestFails
<1>4. QED
  BY <1>1, <1>2, <1>3

(* What a job touches: the table of signals only at its gate and in its    *)
(* wait, what is remembered of runs when it returns, its row at its end.   *)
LEMMA JobsFrame ==
    ASSUME NEW t \in Task, JobGoesOn(t)
    PROVE  /\ Gate(t) \/ Wait(t) \/ WaitElapses(t) \/ WaitEnds(t) \/ UNCHANGED <<slot, wait>>
           /\ Return(t) \/ UNCHANGED runs
           /\ RecordFailure(t) \/ Finalize(t) \/ UNCHANGED row
           /\ Send(t) \/ SendUnrecorded(t) \/ UNCHANGED sent
           /\ UNCHANGED <<sequence, request>>
           /\ failures' = failures \/ (failures < MaxFailures /\ failures' = failures + 1)
  BY DEF JobGoesOn, Gate, GateRow, Wait, WaitElapses, WaitEnds, Load, LoadRow, Send, SendUnrecorded,
         Skip, Defer, StepFails, RecordFailure, Finalize, Ends, GiveUp, Return, jobsVars, database

(* An email goes out from a job that is at one.                            *)
LEMMA SendsTyped ==
    ASSUME JobsTyped, Places, sent \in [Enrollment -> [1 .. Steps -> Nat]], NEW t \in Task,
           Send(t) \/ SendUnrecorded(t)
    PROVE  /\ job[t].of \in Enrollment /\ job[t].step \in 1 .. Steps
           /\ sent' \in [Enrollment -> [1 .. Steps -> Nat]]
<1>1. job[t] \in AJob /\ Placed(job[t]) /\ job[t].at = "step" /\ Sends(t)
  BY DEF JobsTyped, Places, Send, SendUnrecorded, Doing
<1>2. job[t].of \in Enrollment /\ job[t].step \in 1 .. Steps
  BY <1>1, Numbers DEF AJob, Placed
<1>3. [sent[job[t].of] EXCEPT ![job[t].step] = @ + 1] \in [1 .. Steps -> Nat]
  <2>1. sent[job[t].of] \in [1 .. Steps -> Nat]
    BY <1>2
  <2> DEFINE n == sent[job[t].of][job[t].step]
  <2>2. n \in Nat
    BY <1>2, <2>1, Zenon
  <2> HIDE DEF n
  <2>3. n + 1 \in Nat
    BY <2>2
  <2>4. QED
    BY <2>1, <2>3 DEF n
<1>4. sent' = [sent EXCEPT ![job[t].of] = [sent[job[t].of] EXCEPT ![job[t].step] = @ + 1]]
  BY <1>1 DEF Sends
<1>5. QED
  BY <1>2, <1>3, <1>4

(* What the properties remember keeps its type.                            *)
LEMMA TellTyped ==
    ASSUME TypeOK, Tell,
           failures' = failures \/ (failures < MaxFailures /\ failures' = failures + 1)
    PROVE  /\ failures' \in 0 .. MaxFailures
           /\ resent' \in 0 .. failures'
           /\ late' \in [Enrollment -> Nat]
           /\ unread' \in [Enrollment -> BOOLEAN]
<1>1. failures \in Nat /\ resent \in 0 .. failures /\ failures \in 0 .. MaxFailures
  BY SequenceBounds DEF TypeOK
<1>2. failures' \in 0 .. MaxFailures
  BY <1>1, SequenceBounds
<1>3. resent' = resent \/ (failures' = failures + 1 /\ resent' = resent + 1)
  BY <1>1 DEF Tell
<1>4. resent' \in 0 .. failures'
  BY <1>1, <1>3
<1>5. \A e \in Enrollment : late[e] \in Nat
  BY DEF TypeOK
<1>6. \A e \in Enrollment : late[e] + (IF sent'[e] # sent[e] THEN 1 ELSE 0) \in Nat
  BY <1>5
<1>7. late' \in [Enrollment -> Nat]
  BY <1>6 DEF Tell
<1>8. unread' \in [Enrollment -> BOOLEAN]
  BY DEF Tell
<1>9. QED
  BY <1>2, <1>4, <1>7, <1>8

(* A job is started on a task that has none.                               *)
LEMMA SpawnStarts ==
    ASSUME RequestsTyped, JobsTyped, NEW r \in Request, Spawn(r)
    PROVE  \E e \in request[r].whom, t \in Task :
              /\ e \in Enrollment /\ job[t].at = "idle"
              /\ Remember(e, "running")
              /\ job' = [job EXCEPT ![t] = [NoJob(e) EXCEPT !.at = "gate"]]
              /\ request' = [request EXCEPT ![r].at = "start", ![r].todo = @ \ {e}, ![r].whom = {}]
<1> DEFINE t == CHOOSE u \in Idle : TRUE
<1>1. t \in Idle
  BY DEF Spawn
<1>2. request[r].whom \subseteq Enrollment
  BY Names DEF RequestsTyped, ARequest
<1>3. QED
  BY <1>1, <1>2 DEF Spawn, Idle

(* A step keeps all of it.                                                 *)
LEMMA TypesKept ==
    ASSUME TypeOK, Places, [Next]_vars
    PROVE  TypeOK' /\ Places'
<1>0. /\ runs \in [Key -> RunState] /\ SlotsTyped /\ RowsTyped /\ RequestsTyped /\ JobsTyped
      /\ sent \in [Enrollment -> [1 .. Steps -> Nat]]
      /\ failures \in 0 .. MaxFailures
  BY TypeParts, JobsTypeParts
<1> DEFINE Kept == /\ runs' \in [Key -> RunState] /\ SlotsTyped' /\ RowsTyped' /\ RequestsTyped'
                   /\ JobsTyped' /\ Places'
                   /\ sent' \in [Enrollment -> [1 .. Steps -> Nat]]
           Failing == failures' = failures \/ (failures < MaxFailures /\ failures' = failures + 1)
<1>1. ASSUME NEW r \in Request, RequestBegins(r) \/ RequestGoesOn(r) PROVE Kept /\ Failing
  <2>1. RowsTyped' /\ RequestsTyped'
    BY <1>0, <1>1, RequestsKeepTypes
  <2>2. Failing /\ UNCHANGED sent
    BY <1>1, RequestsFrame
  <2>3. CASE Wake(r)
    <3>1. request[r].todo \subseteq Key
      BY <1>0, Names DEF RequestsTyped, ARequest, Enrollment
    <3>2. UNCHANGED <<runs, job>>
      BY <2>3 DEF Wake, jobsVars
    <3>3. UNCHANGED <<slot, wait>> \/ \E e \in Key : Deliver(e)
      BY <2>3, <3>1 DEF Wake, jobsVars
    <3>4. SlotsTyped'
      <4>1. CASE UNCHANGED <<slot, wait>>
        BY <1>0, <4>1 DEF SlotsTyped
      <4>2. ASSUME NEW e \in Key, Deliver(e) PROVE SlotsTyped'
        <5>1. CASE Task = {}
          BY <1>0, <4>2, <5>1 DEF Deliver, SlotsTyped, ASlot
        <5>2. CASE Task # {}
          BY <1>0, <4>2, <5>2, SignalsKeepTypes
        <5>3. QED
          BY <5>1, <5>2
      <4>3. QED
        BY <3>3, <4>1, <4>2
    <3>5. QED
      BY <1>0, <2>1, <2>2, <3>2, <3>4 DEF JobsTyped, Places
  <2>4. CASE Spawn(r)
    <3>1. PICK e \in Enrollment, t \in Task :
              /\ Remember(e, "running")
              /\ job' = [job EXCEPT ![t] = [NoJob(e) EXCEPT !.at = "gate"]]
      BY <1>0, <2>4, SpawnStarts
    <3>2. [NoJob(e) EXCEPT !.at = "gate"] \in AJob /\ Placed([NoJob(e) EXCEPT !.at = "gate"])
      BY Names, Numbers DEF NoJob, AJob, Placed
    <3>3. JobsTyped' /\ Places'
      BY <1>0, <3>1, <3>2 DEF JobsTyped, Places
    <3>4. runs' \in [Key -> RunState]
      BY <1>0, <3>1, RememberTyped DEF RunState, Enrollment
    <3>5. UNCHANGED <<slot, wait>>
      BY <2>4 DEF Spawn
    <3>6. QED
      BY <1>0, <2>1, <2>2, <3>3, <3>4, <3>5 DEF SlotsTyped
  <2>5. CASE ~Wake(r) /\ ~Spawn(r)
    <3>1. UNCHANGED <<slot, wait, runs, job>>
      BY <1>1, <2>5, RequestsFrame
    <3>2. QED
      BY <1>0, <2>1, <2>2, <3>1 DEF SlotsTyped, JobsTyped, Places
  <2>6. QED
    BY <2>2, <2>3, <2>4, <2>5
<1>2. ASSUME NEW t \in Task, JobGoesOn(t) PROVE Kept /\ Failing
  <2>1. JobsTyped' /\ Places'
    BY <1>0, <1>2, RunsKeepTypes
  <2>2. Failing /\ UNCHANGED <<sequence, request>>
    BY <1>2, JobsFrame
  <2>3. RequestsTyped'
    BY <1>0, <2>2 DEF RequestsTyped
  <2>4. job[t].of \in Key /\ job[t].result \in Result
    BY <1>0 DEF JobsTyped, AJob, Enrollment
  <2>5. RowsTyped'
    <3>1. CASE RecordFailure(t) \/ Finalize(t)
      <4>1. row' = row \/ Set({job[t].of}, "failed") \/ Set({job[t].of}, "completed")
        BY <3>1 DEF RecordFailure, Finalize, Ends
      <4>2. QED
        BY <1>0, <2>2, <4>1, SetTyped, Names DEF RowsTyped
    <3>2. CASE UNCHANGED row
      BY <1>0, <2>2, <3>2 DEF RowsTyped
    <3>3. QED
      BY <1>2, <3>1, <3>2, JobsFrame
  <2>6. sent' \in [Enrollment -> [1 .. Steps -> Nat]]
    BY <1>0, <1>2, JobsFrame, SendsTyped
  <2>7. SlotsTyped'
    <3>1. CASE Gate(t)
      <4>1. [wait[t] EXCEPT !.woke = FALSE] \in AWait
        BY <1>0, WaitsTyped DEF SlotsTyped
      <4>2. QED
        BY <1>0, <3>1, <4>1 DEF Gate, SlotsTyped
    <3>2. CASE Wait(t) \/ WaitElapses(t) \/ WaitEnds(t)
      BY <1>0, <2>4, <3>2, SignalsKeepTypes DEF Wait, WaitElapses, WaitEnds
    <3>3. CASE UNCHANGED <<slot, wait>>
      BY <1>0, <3>3 DEF SlotsTyped
    <3>4. QED
      BY <1>2, <3>1, <3>2, <3>3, JobsFrame
  <2>8. runs' \in [Key -> RunState]
    <3>1. CASE Return(t)
      BY <1>0, <2>4, <3>1, RememberTyped DEF Return, Result, RunState
    <3>2. QED
      BY <1>0, <1>2, <3>1, JobsFrame
  <2>9. QED
    BY <2>1, <2>2, <2>3, <2>5, <2>6, <2>7, <2>8
<1>3. ASSUME NEW e \in Enrollment, HourPasses(e) PROVE Kept /\ Failing
  <2>1. SlotsTyped'
    <3>1. [slot[e] EXCEPT !.kept = FALSE] \in ASlot
      BY <1>0, WaitsTyped DEF SlotsTyped, Enrollment
    <3>2. QED
      BY <1>0, <1>3, <3>1 DEF HourPasses, Expire, SlotsTyped, Enrollment
  <2>2. QED
    BY <1>0, <1>3, <2>1 DEF HourPasses, database, RowsTyped, RequestsTyped, JobsTyped, Places
<1>4. ASSUME Restart PROVE Kept /\ Failing
  <2>1. /\ runs' = [k \in Key |-> "none"] /\ slot' = [k \in Key |-> EmptySlot]
        /\ wait' = [t \in Task |-> NoWait] /\ job' = [t \in Task |-> NoJob(job[t].of)]
        /\ UNCHANGED <<row, sequence, sent>> /\ Failing
    BY <1>4 DEF Restart, ForgetJobs, database
  <2>2. runs' \in [Key -> RunState] /\ SlotsTyped'
    BY <2>1, WaitsTyped DEF RunState, SlotsTyped
  <2>3. \A t \in Task : NoJob(job[t].of) \in AJob /\ Placed(NoJob(job[t].of))
    BY <1>0, Names, Numbers DEF JobsTyped, NoJob, AJob, Placed
  <2>4. JobsTyped' /\ Places'
    BY <2>1, <2>3 DEF JobsTyped, Places
  <2>5. [NewRequest EXCEPT !.at = "done"] \in ARequest
    BY Names DEF NewRequest, ARequest
  <2>6. RequestsTyped'
    BY <1>0, <1>4, <2>5 DEF Restart, RequestsTyped
  <2>7. QED
    BY <1>0, <2>1, <2>2, <2>4, <2>6 DEF RowsTyped
<1>5. CASE Next
  <2>1. Kept /\ Failing /\ Tell
    BY <1>1, <1>2, <1>3, <1>4, <1>5 DEF Next, Step
  <2>2. /\ failures' \in 0 .. MaxFailures
        /\ resent' \in 0 .. failures'
        /\ late' \in [Enrollment -> Nat]
        /\ unread' \in [Enrollment -> BOOLEAN]
    BY <2>1, TellTyped
  <2>3. JobsTypeOK'
    BY <2>1 DEF JobsTypeOK, SlotsTyped, ASlot, AWait, Where, Oneshot
  <2>4. QED
    BY <2>1, <2>2, <2>3
       DEF TypeOK, RowsTyped, RequestsTyped, JobsTyped, ARequest, ARow, AJob,
           Statement, Seen, Whom, Place, Label, Read, Result, Email, Checks, Deferrals
<1>6. CASE UNCHANGED vars
  BY <1>0, <1>6 DEF vars, jobsVars, database, told, TypeOK, JobsTypeOK, Places
<1>7. QED
  BY <1>5, <1>6

(* Requests, jobs, rows and the table of signals keep their types, and a   *)
(* run is always at an email of the sequence, or past the last one on its  *)
(* way to complete the enrollment.                                         *)
THEOREM TypeCorrect == Spec => [](TypeOK /\ Places)
<1>1. Init => TypeOK /\ Places
  <2> SUFFICES ASSUME Init PROVE TypeOK /\ Places
    OBVIOUS
  <2>1. (CHOOSE k \in Key : TRUE) \in Enrollment
    BY SomebodyToEnroll DEF Enrollment
  <2>2. NoJob(CHOOSE k \in Key : TRUE) \in AJob /\ Placed(NoJob(CHOOSE k \in Key : TRUE))
    BY <2>1, Names, Numbers DEF NoJob, AJob, Placed
  <2>3. JobsTyped /\ Places
    BY <2>2 DEF Init, JobsTyped, Places
  <2>4. NewRequest \in ARequest
    BY Names DEF NewRequest, ARequest
  <2>5. RequestsTyped
    BY <2>4 DEF Init, RequestsTyped
  <2>6. RowsTyped
    <3>1. \A s \in {"none", "pending"} : [status |-> s, claimed |-> FALSE] \in ARow
      BY Names DEF ARow
    <3>2. row \in [Enrollment -> {[status |-> s, claimed |-> FALSE] : s \in {"none", "pending"}}]
      BY DEF Init
    <3>3. row \in [Enrollment -> ARow]
      BY <3>1, <3>2
    <3>4. QED
      BY <3>3 DEF Init, RowsTyped
  <2>7. JobsTypeOK
    BY WaitsTyped, JobsTypeParts DEF Init, JobsInit, RunState, SlotsTyped
  <2>8. sent \in [Enrollment -> [1 .. Steps -> Nat]]
    BY DEF Init
  <2>9. failures \in 0 .. MaxFailures /\ resent \in 0 .. failures
    <3>1. failures = 0 /\ resent = 0
      BY DEF Init
    <3>2. QED
      BY <3>1, SequenceBounds
  <2>10. QED
    BY <2>3, <2>5, <2>6, <2>7, <2>8, <2>9, TypeParts DEF Init
<1>2. TypeOK /\ Places /\ [Next]_vars => (TypeOK /\ Places)'
  BY TypesKept
<1>3. QED
  BY <1>1, <1>2, PTL DEF Spec

-----------------------------------------------------------------------------
(* One run for an enrollment.                                              *)

(* Whom a request has claimed and neither started nor let go of.           *)
Owes(q, e) ==
    \/ q.at \in {"start", "starting"} /\ e \in q.todo \cup q.failed
    \/ q.at = "release" /\ e \in q.failed

(* A request starts whom it still has to start, and who failed is not      *)
(* among them.                                                             *)
Orderly(q) ==
    /\ q.at = "starting" => q.whom \subseteq q.todo
    /\ q.at \in {"start", "starting"} => q.todo \cap q.failed = {}

Runs(t, e) == job[t].of = e /\ job[t].at # "idle"

(* Who is owed a start is claimed and has no run; one request owes it; and *)
(* who has a run is claimed.                                               *)
Claims ==
    /\ \A r \in Request : Orderly(request[r])
    /\ \A r \in Request, e \in Enrollment : Owes(request[r], e) => row[e].claimed
    /\ \A r \in Request, e \in Enrollment, t \in Task : Owes(request[r], e) => ~Runs(t, e)
    /\ \A r, q \in Request, e \in Enrollment :
           Owes(request[r], e) /\ Owes(request[q], e) => r = q
    /\ \A t \in Task, e \in Enrollment : Runs(t, e) => row[e].claimed
    /\ \A t, u \in Task, e \in Enrollment : Runs(t, e) /\ Runs(u, e) => t = u

(* With no more owed, no more running and the same claimed, claims hold.   *)
LEMMA ClaimsOfLess ==
    ASSUME Claims,
           \A r \in Request : Orderly(request'[r]),
           \A r \in Request, e \in Enrollment : Owes(request'[r], e) => Owes(request[r], e),
           \A t \in Task, e \in Enrollment : Runs(t, e)' => Runs(t, e),
           \A e \in Enrollment : row'[e].claimed = row[e].claimed
    PROVE  Claims'
  BY Zenon DEF Claims

(* A run stays on its enrollment, goes on to the next email only past this *)
(* one, gets to an email only past a gate at which its row was active, and *)
(* to a wait only past a gate.                                             *)
MovesTo(t, j) ==
    /\ j.of = job[t].of
    /\ job[t].at # "idle"
    /\ \/ j.at \in {"idle", "return"}
       \/ /\ job[t].at # "return"
          /\ j.step = job[t].step \/ (job[t].at = "step" /\ j.step = job[t].step + 1)
    /\ j.at \in {"load", "loadRow", "step"} =>
          \/ job[t].at \in {"load", "loadRow"}
          \/ job[t].at = "gateRow" /\ row[job[t].of].status = "active"
    /\ j.at = "gateRow" => Gate(t)
    /\ j.at = "wait" => job[t].at \in {"gateRow", "wait"}

(* A step of a job moves that job alone, the way MovesTo allows.           *)
LEMMA RunsMove ==
    ASSUME JobsTyped, NEW t \in Task, JobGoesOn(t)
    PROVE  \/ UNCHANGED job
           \/ MovesTo(t, job'[t]) /\ \A u \in Task \ {t} : job'[u] = job[u]
<1>1. job[t] \in AJob /\ job \in [Task -> AJob]
  BY DEF JobsTyped
<1> DEFINE Done == \/ UNCHANGED job
                   \/ MovesTo(t, job'[t]) /\ \A u \in Task \ {t} : job'[u] = job[u]
           Becomes(j) == job' = [job EXCEPT ![t] = j]
<1>2. ASSUME NEW of \in {job[t].of}, NEW j, j.of = of, MovesTo(t, j), Becomes(j) PROVE Done
  BY <1>1, <1>2
<1> SUFFICES Done
  OBVIOUS
<1> HIDE DEF Done
<1>3. CASE Gate(t)
  <2> DEFINE j == [job[t] EXCEPT !.at = "gateRow", !.saw = sequence]
  <2>1. j.of = job[t].of /\ MovesTo(t, j)
    BY <1>1, <1>3 DEF Gate, Doing, AJob, MovesTo
  <2>2. Becomes(j)
    BY <1>3 DEF Gate
  <2> HIDE DEF j
  <2>3. QED
    BY <1>2, <2>1, <2>2
<1>4. ASSUME job[t].at \notin {"idle"} PROVE Stopped(t).of = job[t].of /\ MovesTo(t, Stopped(t))
  BY <1>1, <1>4 DEF Stopped, NoJob, AJob, MovesTo
<1>5. CASE GateRow(t)
  <2> DEFINE j == [job[t] EXCEPT !.at = "wait", !.saw = "none", !.checks = @ + 1]
  <2>1. job[t].at = "gateRow"
    BY <1>5 DEF GateRow, Doing
  <2>2. j.of = job[t].of /\ MovesTo(t, j)
    BY <1>1, <2>1 DEF AJob, MovesTo
  <2>3. row[job[t].of].status = "active" => Passed(t).of = job[t].of /\ MovesTo(t, Passed(t))
    <3>1. Passed(t).of = job[t].of /\ Passed(t).step = job[t].step
          /\ Passed(t).at \in {"load", "finalize", "step"}
      BY <1>1 DEF AJob, Passed
    <3>2. QED
      BY <2>1, <3>1 DEF MovesTo
  <2>4. \/ Becomes(Passed(t)) /\ row[job[t].of].status = "active"
        \/ Becomes(Stopped(t)) \/ Becomes(j)
    BY <1>5, GateRowEnds
  <2> HIDE DEF j
  <2>5. QED
    BY <1>2, <1>4, <2>1, <2>2, <2>3, <2>4
<1>6. CASE Wait(t) \/ WaitEnds(t) \/ StepFails(t)
  <2>1. PICK at : /\ Becomes([job[t] EXCEPT !.at = at])
                  /\ at = "fail" \/ (job[t].at = "wait" /\ at \in {"gate", "wait"})
    BY <1>6 DEF Wait, WaitEnds, StepFails, Doing
  <2> DEFINE j == [job[t] EXCEPT !.at = at]
  <2>2. j.of = job[t].of /\ MovesTo(t, j)
    BY <1>1, <1>6, <2>1 DEF Wait, WaitEnds, StepFails, Doing, AJob, MovesTo
  <2> HIDE DEF j
  <2>3. QED
    BY <1>2, <2>1, <2>2 DEF j
<1>7. CASE Load(t) \/ LoadRow(t)
  <2>1. PICK at : /\ Becomes([job[t] EXCEPT !.at = at]) \/ Becomes(Stopped(t))
                  /\ at \in {"loadRow", "step"}
    BY <1>7 DEF Load, LoadRow
  <2> DEFINE j == [job[t] EXCEPT !.at = at]
  <2>2. job[t].at \in {"load", "loadRow"}
    BY <1>7 DEF Load, LoadRow, Doing
  <2>3. j.of = job[t].of /\ MovesTo(t, j)
    BY <1>1, <2>1, <2>2 DEF AJob, MovesTo
  <2>4. Becomes(j) \/ Becomes(Stopped(t))
    BY <2>1
  <2> HIDE DEF j
  <2>5. QED
    BY <1>2, <1>4, <2>2, <2>3, <2>4
<1>8. CASE Send(t) \/ Skip(t)
  <2>1. NextStep(t).of = job[t].of /\ MovesTo(t, NextStep(t))
    BY <1>1, <1>8 DEF Send, Skip, Doing, AJob, NextStep, MovesTo
  <2>2. QED
    BY <1>2, <1>8, <2>1 DEF Send, Skip
<1>9. CASE RecordFailure(t) \/ Finalize(t)
  BY <1>2, <1>4, <1>9 DEF RecordFailure, Finalize, Ends, Doing
<1>10. CASE Defer(t)
  <2> DEFINE j == [job[t] EXCEPT !.at = "gate", !.label = "step", !.deferrals = @ + 1]
  <2>1. j.of = job[t].of /\ MovesTo(t, j)
    BY <1>1, <1>10 DEF Defer, Doing, AJob, MovesTo
  <2>2. Becomes(j)
    BY <1>10 DEF Defer
  <2> HIDE DEF j
  <2>3. QED
    BY <1>2, <2>1, <2>2
<1>11. CASE GiveUp(t)
  <2> DEFINE j == [NoJob(job[t].of) EXCEPT !.at = "return", !.result = "failed"]
  <2>1. j.of = job[t].of /\ MovesTo(t, j)
    BY <1>1, <1>11 DEF GiveUp, NoJob, AJob, MovesTo
  <2>2. Becomes(j)
    BY <1>11 DEF GiveUp
  <2> HIDE DEF j
  <2>3. QED
    BY <1>2, <2>1, <2>2
<1>12. CASE Return(t)
  <2>1. NoJob(job[t].of).of = job[t].of /\ MovesTo(t, NoJob(job[t].of))
    BY <1>1, <1>12 DEF Return, Doing, NoJob, AJob, MovesTo
  <2>2. QED
    BY <1>2, <1>12, <2>1 DEF Return
<1>13. CASE WaitElapses(t) \/ SendUnrecorded(t)
  BY <1>13 DEF WaitElapses, SendUnrecorded, Done
<1>14. QED
  BY <1>3, <1>5, <1>6, <1>7, <1>8, <1>9, <1>10, <1>11, <1>12, <1>13 DEF JobGoesOn

(* A statement that is none of the start's leaves a request that owes      *)
(* nobody, and leaves who is claimed alone.                                *)
LEMMA OthersOweNothing ==
    ASSUME RequestsTyped, RowsTyped, NEW r \in Request,
           RequestBegins(r) \/ RequestGoesOn(r),
           ~(Claim(r) \/ LookUp(r) \/ Spawn(r) \/ StartFails(r) \/ Started(r) \/ Release(r))
    PROVE  /\ \A p \in Request \ {r} : request'[p] = request[p]
           /\ request'[r].at \notin {"start", "starting", "release"}
           /\ \A e \in Enrollment : row'[e].claimed = row[e].claimed
<1> DEFINE Fine == /\ \A p \in Request \ {r} : request'[p] = request[p]
                   /\ request'[r].at \notin {"start", "starting", "release"}
           SameClaims == \A e \in Enrollment : row'[e].claimed = row[e].claimed
           Other == Statement \ {"start", "starting", "release"}
<1>1. request \in [Request -> ARequest] /\ request[r] \in ARequest
  BY DEF RequestsTyped
<1>2. ASSUME NEW at \in Other, Go(r, at) PROVE Fine
  <2>1. [NewRequest EXCEPT !.at = "done"].at = "done" /\ [request[r] EXCEPT !.at = at].at = at
    BY <1>1 DEF NewRequest, ARequest
  <2>2. QED
    BY <1>1, <1>2, <2>1 DEF Go
<1>3. ASSUME NEW es, NEW s, Set(es, s) PROVE SameClaims
  BY <1>3 DEF Set, RowsTyped, ARow
<1>4. ASSUME UNCHANGED row PROVE SameClaims
  BY <1>4
<1>5. {"admit", "unpause", "wake", "select", "claim", "pauseRows", "unenroll", "pauseOne",
       "readSequence", "resumeOne", "insert", "done"} \subseteq Other
  BY Names
<1>6. ASSUME NEW at \in Other, NEW q, q.at = at, request' = [request EXCEPT ![r] = q]
      PROVE  Fine
  BY <1>1, <1>6
<1> SUFFICES Fine /\ SameClaims
  OBVIOUS
<1> HIDE DEF Other, Fine, SameClaims
<1>7. CASE Launch(r) \/ Resume(r) \/ Pause(r)
  <2>1. PICK q : /\ q \in {[request[r] EXCEPT !.at = "admit", !.resumes = b] : b \in BOOLEAN}
                            \cup {[request[r] EXCEPT !.at = "pauseRows"]}
                 /\ request' = [request EXCEPT ![r] = q]
    BY <1>7 DEF Launch, Resume, Activate, Pause
  <2>2. q.at \in {"admit", "pauseRows"}
    BY <1>1, <2>1 DEF ARequest
  <2>3. UNCHANGED row
    BY <1>7 DEF Launch, Resume, Activate, Pause
  <2>4. Fine
    BY <1>5, <1>6, <2>1, <2>2
  <2>5. SameClaims
    BY <1>4, <2>3
  <2>6. QED
    BY <2>4, <2>5
<1>8. CASE Start(r) \/ Select(r)
  <2> DEFINE unstarted == {e \in With("active") : ~row[e].claimed}
             q == [request[r] EXCEPT !.at = "claim", !.whom = unstarted]
  <2>1. Go(r, "done") \/ request' = [request EXCEPT ![r] = q]
    BY <1>8 DEF Start, Select, Selected
  <2>2. q.at = "claim"
    BY <1>1 DEF ARequest
  <2>3. UNCHANGED row
    BY <1>8 DEF Start, Select, Selected, database
  <2> HIDE DEF q
  <2>4. QED
    BY <1>2, <1>4, <1>5, <1>6, <2>1, <2>2, <2>3
<1>9. CASE Enroll(r)
  <2> DEFINE q == [request[r] EXCEPT !.at = "insert", !.whom = With("none"), !.saw = sequence]
  <2>1. q.at = "insert"
    BY <1>1 DEF ARequest
  <2>2. request' = [request EXCEPT ![r] = q] /\ UNCHANGED row
    BY <1>9 DEF Enroll, database
  <2> HIDE DEF q
  <2>3. QED
    BY <1>4, <1>5, <1>6, <2>1, <2>2
<1>10. CASE Unenroll(r) \/ PauseOne(r) \/ ResumeOne(r)
  <2>1. PICK e \in Enrollment, next \in {"unenroll", "pauseOne", "readSequence"} : ReadRow(r, e, next)
    BY <1>10 DEF Unenroll, PauseOne, ResumeOne, With
  <2> DEFINE q == [request[r] EXCEPT !.at = next, !.whom = {e}, !.saw = row[e].status,
                                     !.claimed = row[e].claimed]
  <2>2. q.at = next
    BY <1>1 DEF ARequest
  <2>3. request' = [request EXCEPT ![r] = q] /\ UNCHANGED row
    BY <2>1 DEF ReadRow, database
  <2> HIDE DEF q
  <2>4. QED
    BY <1>4, <1>5, <1>6, <2>2, <2>3
<1>11. CASE Admit(r) \/ PauseRows(r) \/ PauseRow(r)
  BY <1>2, <1>3, <1>5, <1>11 DEF Admit, PauseRows, PauseRow
<1>12. CASE Unpause(r)
  <2> DEFINE q == [request[r] EXCEPT !.at = "wake", !.todo = {e \in With("paused") : row[e].claimed}]
  <2>1. q.at = "wake"
    BY <1>1 DEF ARequest
  <2>2. request' = [request EXCEPT ![r] = q] /\ Set(With("paused"), "active")
    BY <1>12 DEF Unpause
  <2> HIDE DEF q
  <2>3. QED
    BY <1>3, <1>5, <1>6, <2>1, <2>2
<1>13. CASE Wake(r)
  <2>1. PICK e : \/ Go(r, "select") \/ Go(r, "done")
                 \/ request' = [request EXCEPT ![r].todo = @ \ {e}]
    BY <1>13 DEF Wake
  <2> DEFINE q == [request[r] EXCEPT !.todo = @ \ {e}]
  <2>2. q.at = "wake"
    BY <1>1, <1>13 DEF Wake, At, ARequest
  <2>3. Go(r, "select") \/ Go(r, "done") \/ request' = [request EXCEPT ![r] = q]
    BY <2>1
  <2>4. UNCHANGED row
    BY <1>13 DEF Wake, database
  <2> HIDE DEF q
  <2>5. QED
    BY <1>2, <1>4, <1>5, <1>6, <2>2, <2>3, <2>4
<1>14. CASE UnenrollRow(r) \/ ResumeRow(r)
  <2> DEFINE q == [request[r] EXCEPT !.at = "wake", !.todo = request[r].whom]
  <2>1. Go(r, "done") \/ Go(r, "claim") \/ request' = [request EXCEPT ![r] = q]
    BY <1>14 DEF UnenrollRow, ResumeRow
  <2>2. q.at = "wake"
    BY <1>1 DEF ARequest
  <2>3. SameClaims
    BY <1>3, <1>14 DEF UnenrollRow, ResumeRow
  <2> HIDE DEF q
  <2>4. QED
    BY <1>2, <1>5, <1>6, <2>1, <2>2, <2>3
<1>15. CASE ReadSequence(r) \/ RequestFails(r)
  BY <1>2, <1>4, <1>5, <1>15 DEF ReadSequence, RequestFails, database
<1>16. CASE Insert(r)
  <2> DEFINE new == request[r].whom \cap With("none")
             q == [request[r] EXCEPT !.at = "claim", !.whom = new]
  <2>1. Go(r, "done") \/ request' = [request EXCEPT ![r] = q]
    BY <1>16 DEF Insert
  <2>2. q.at = "claim"
    BY <1>1 DEF ARequest
  <2>3. SameClaims
    BY <1>3, <1>16 DEF Insert
  <2> HIDE DEF q
  <2>4. QED
    BY <1>2, <1>5, <1>6, <2>1, <2>2, <2>3
<1>17. QED
  BY <1>7, <1>8, <1>9, <1>10, <1>11, <1>12, <1>13, <1>14, <1>15, <1>16
     DEF RequestBegins, RequestGoesOn

(* Who is let go of was owed, who is owed now was or was not claimed, and  *)
(* a run begins for who was owed.                                          *)
Handed(r) ==
    /\ \A e \in Enrollment : row[e].claimed => row'[e].claimed \/ Owes(request[r], e)
    /\ \A q \in Request, e \in Enrollment :
           Owes(request'[q], e) => Owes(request[q], e) \/ ~row[e].claimed
    /\ \A t \in Task :
           \/ job'[t] = job[t]
           \/ \E e \in Enrollment :
                 Owes(request[r], e) /\ job'[t] = [NoJob(e) EXCEPT !.at = "gate"]

(* A step of a request keeps the claims.                                   *)
LEMMA RequestsKeepClaims ==
    ASSUME RequestsTyped, RowsTyped, JobsTyped, Claims, NEW r \in Request,
           RequestBegins(r) \/ RequestGoesOn(r)
    PROVE  Claims' /\ Handed(r)
<1>0. request[r] \in ARequest /\ Orderly(request[r])
  BY DEF RequestsTyped, Claims
<1>1. ASSUME NEW q, Orderly(q), \A e \in Enrollment : Owes(q, e) => Owes(request[r], e),
             request'[r] = q, \A p \in Request \ {r} : request'[p] = request[p],
             UNCHANGED job,
             \A e \in Enrollment : row'[e].claimed = row[e].claimed
      PROVE  Claims' /\ Handed(r)
  <2>1. \A p \in Request : request'[p] = IF p = r THEN q ELSE request[p]
    BY <1>1
  <2>2. \A p \in Request : Orderly(request'[p])
    BY <1>1, <2>1 DEF Claims
  <2>3. \A p \in Request, e \in Enrollment : Owes(request'[p], e) => Owes(request[p], e)
    BY <1>1, <2>1
  <2>4. \A t \in Task, e \in Enrollment : Runs(t, e)' => Runs(t, e)
    BY <1>1 DEF Runs
  <2>5. QED
    BY <1>1, <2>2, <2>3, <2>4, ClaimsOfLess DEF Handed
<1>2. ASSUME NEW q, request' = [request EXCEPT ![r] = q]
      PROVE  request'[r] = q /\ \A p \in Request \ {r} : request'[p] = request[p]
  BY <1>2 DEF RequestsTyped
<1>12. CASE Claim(r)
  <2> DEFINE won == {e \in request[r].whom : row[e].status = "active" /\ ~row[e].claimed}
             q == [NewRequest EXCEPT !.at = "start", !.todo = won]
  <2>1. /\ request' = [request EXCEPT ![r] = q] /\ UNCHANGED job
        /\ row' = [e \in Enrollment |-> [row[e] EXCEPT !.claimed = @ \/ e \in won]]
    BY <1>12 DEF Claim
  <2>2. request'[r] = q /\ \A p \in Request \ {r} : request'[p] = request[p]
    BY <1>2, <2>1
  <2>3. q.at = "start" /\ q.todo = won /\ q.failed = {}
    BY DEF NewRequest
  <2>4. \A e \in Enrollment : row'[e].claimed <=> row[e].claimed \/ e \in won
    BY <2>1 DEF RowsTyped, ARow
  <2>5. Orderly(q) /\ \A e \in Enrollment : Owes(q, e) <=> e \in won
    BY <2>3 DEF Orderly, Owes
  <2>6. \A e \in won : ~row[e].claimed
    OBVIOUS
  <2>7. \A t \in Task, e \in Enrollment : Runs(t, e)' <=> Runs(t, e)
    BY <2>1 DEF Runs
  <2> HIDE DEF won, q
  <2>8. \A p \in Request : Orderly(request'[p])
    BY <2>2, <2>5 DEF Claims
  <2>9. \A p \in Request, e \in Enrollment :
            Owes(request'[p], e) => Owes(request[p], e) \/ (p = r /\ e \in won)
    BY <2>2, <2>5
  <2>10. \A p \in Request, e \in Enrollment : Owes(request[p], e) => e \notin won
    BY <2>6 DEF Claims
  <2>11. \A t \in Task, e \in Enrollment : Runs(t, e) => e \notin won
    BY <2>6 DEF Claims
  <2>12. Claims'
    BY <2>4, <2>7, <2>8, <2>9, <2>10, <2>11, Zenon DEF Claims
  <2>13. Handed(r)
    BY <2>1, <2>4, <2>6, <2>9 DEF Handed
  <2>14. QED
    BY <2>12, <2>13
<1>3. CASE LookUp(r)
  <2>1. PICK e \in request[r].todo :
            request' = IF AlreadyRun(e)
                       THEN [request EXCEPT ![r].todo = @ \ {e}]
                       ELSE [request EXCEPT ![r].at = "starting", ![r].whom = {e}]
    BY <1>3 DEF LookUp
  <2> DEFINE p == [request[r] EXCEPT !.todo = @ \ {e}]
             q == [request[r] EXCEPT !.at = "starting", !.whom = {e}]
  <2>2. request[r].at = "start" /\ UNCHANGED <<row, job>>
    BY <1>3 DEF LookUp, At, database
  <2>3. Orderly(p) /\ \A f \in Enrollment : Owes(p, f) => Owes(request[r], f)
    BY <1>0, <2>2 DEF Orderly, Owes, ARequest
  <2>4. Orderly(q) /\ \A f \in Enrollment : Owes(q, f) => Owes(request[r], f)
    BY <1>0, <2>2 DEF Orderly, Owes, ARequest
  <2>5. request' = [request EXCEPT ![r] = p] \/ request' = [request EXCEPT ![r] = q]
    BY <2>1
  <2> HIDE DEF p, q
  <2>6. QED
    BY <1>1, <1>2, <2>2, <2>3, <2>4, <2>5
<1>4. CASE Spawn(r)
  <2>1. PICK e \in request[r].whom, t \in Task :
              /\ e \in Enrollment /\ job[t].at = "idle"
              /\ job' = [job EXCEPT ![t] = [NoJob(e) EXCEPT !.at = "gate"]]
              /\ request' = [request EXCEPT ![r].at = "start", ![r].todo = @ \ {e}, ![r].whom = {}]
    BY <1>4, SpawnStarts
  <2> DEFINE q == [request[r] EXCEPT !.at = "start", !.todo = @ \ {e}, !.whom = {}]
  <2>2. UNCHANGED row /\ request[r].at = "starting"
    BY <1>4 DEF Spawn, database, At
  <2>3. e \in request[r].todo /\ e \notin request[r].failed
    BY <1>0, <2>1, <2>2 DEF Orderly
  <2>4. Orderly(q) /\ \A f \in Enrollment : Owes(q, f) <=> Owes(request[r], f) /\ f # e
    BY <1>0, <2>2, <2>3 DEF Orderly, Owes, ARequest
  <2>5. Owes(request[r], e)
    BY <2>2, <2>3 DEF Owes
  <2>18. request' = [request EXCEPT ![r] = q]
    BY <2>1
  <2>6. request'[r] = q /\ \A p \in Request \ {r} : request'[p] = request[p]
    BY <1>2, <2>18
  <2>7. \A u \in Task, f \in Enrollment : Runs(u, f)' => (u = t /\ f = e) \/ Runs(u, f)
    BY <2>1 DEF Runs, NoJob, JobsTyped
  <2>8. UNCHANGED row
    BY <2>2
  <2> HIDE DEF q
  <2>9. (\A p \in Request : Orderly(request[p]))' /\ (\A p \in Request, f \in Enrollment : Owes(request[p], f) => row[f].claimed)'
    BY <2>4, <2>6, <2>8, Zenon DEF Claims
  <2>15. \A u \in Task : ~Runs(u, e)
    BY <2>1, <2>5 DEF Claims
  <2>16. \A p \in Request \ {r} : ~Owes(request[p], e)
    BY <2>1, <2>5 DEF Claims
  <2>17. \A p \in Request, f \in Enrollment : Owes(request'[p], f) => Owes(request[p], f) /\ f # e
    BY <2>4, <2>6, <2>16
  <2>10. (\A p \in Request, f \in Enrollment, u \in Task : Owes(request[p], f) => ~Runs(u, f))'
    BY <2>7, <2>17, Zenon DEF Claims
  <2>11. (\A p, o \in Request, f \in Enrollment : Owes(request[p], f) /\ Owes(request[o], f) => p = o)'
    BY <2>17, Zenon DEF Claims
  <2>12. (\A u \in Task, f \in Enrollment : Runs(u, f) => row[f].claimed)'
    BY <2>1, <2>5, <2>7, <2>8, Zenon DEF Claims
  <2>13. (\A u, v \in Task, f \in Enrollment : Runs(u, f) /\ Runs(v, f) => u = v)'
    BY <2>7, <2>15, ZenonT(60) DEF Claims
  <2>19. Handed(r)
    BY <2>1, <2>5, <2>8, <2>17 DEF Handed, JobsTyped
  <2>14. QED
    BY <2>19, <2>9, <2>10, <2>11, <2>12, <2>13, Zenon DEF Claims
<1>5. CASE StartFails(r)
  <2>1. PICK e \in request[r].todo :
            request' = [request EXCEPT ![r].todo = @ \ {e}, ![r].failed = @ \cup {e}]
    BY <1>5 DEF StartFails
  <2> DEFINE q == [request[r] EXCEPT !.todo = @ \ {e}, !.failed = @ \cup {e}]
  <2>2. request[r].at = "start" /\ UNCHANGED <<row, job>>
    BY <1>5 DEF StartFails, At, database
  <2>3. Orderly(q) /\ \A f \in Enrollment : Owes(q, f) => Owes(request[r], f)
    BY <1>0, <2>2 DEF Orderly, Owes, ARequest
  <2>4. request' = [request EXCEPT ![r] = q]
    BY <2>1
  <2> HIDE DEF q
  <2>5. QED
    BY <1>1, <1>2, <2>2, <2>3, <2>4
<1>6. CASE Started(r)
  <2>1. PICK q : /\ q = [NewRequest EXCEPT !.at = "done"] \/ q = [request[r] EXCEPT !.at = "release"]
                 /\ request' = [request EXCEPT ![r] = q]
    BY <1>6 DEF Started, Go
  <2>2. request[r].at = "start" /\ UNCHANGED <<row, job>>
    BY <1>6 DEF Started, At, database
  <2>3. Orderly(q) /\ \A f \in Enrollment : Owes(q, f) => Owes(request[r], f)
    BY <1>0, <2>1, <2>2 DEF Orderly, Owes, ARequest, NewRequest
  <2>4. QED
    BY <1>1, <1>2, <2>1, <2>2, <2>3
<1>7. CASE Release(r)
  <2> DEFINE q == [NewRequest EXCEPT !.at = "done"]
  <2>1. /\ request' = [request EXCEPT ![r] = q] /\ UNCHANGED job
        /\ row' = [e \in Enrollment |-> [row[e] EXCEPT !.claimed = @ /\ e \notin request[r].failed]]
    BY <1>7 DEF Release, Go
  <2>2. request'[r] = q /\ \A p \in Request \ {r} : request'[p] = request[p]
    BY <1>2, <2>1
  <2>3. Orderly(q) /\ \A e \in Enrollment : ~Owes(q, e)
    BY DEF NewRequest, Orderly, Owes
  <2>4. \A e \in Enrollment : row'[e].claimed <=> row[e].claimed /\ ~Owes(request[r], e)
    BY <1>7, <2>1 DEF Release, At, Owes, RowsTyped, ARow
  <2>5. \A t \in Task, e \in Enrollment : Runs(t, e)' <=> Runs(t, e)
    BY <2>1 DEF Runs
  <2> HIDE DEF q
  <2>7. \A p \in Request : Orderly(request'[p])
    BY <2>2, <2>3 DEF Claims
  <2>8. \A p \in Request, e \in Enrollment : Owes(request'[p], e) => p # r /\ Owes(request[p], e)
    BY <2>2, <2>3
  <2>9. \A p \in Request, e \in Enrollment : p # r /\ Owes(request[p], e) => ~Owes(request[r], e)
    BY DEF Claims
  <2>10. \A t \in Task, e \in Enrollment : Runs(t, e) => ~Owes(request[r], e)
    BY DEF Claims
  <2>11. Claims'
    BY <2>10, <2>4, <2>5, <2>7, <2>8, <2>9, Zenon DEF Claims
  <2>12. Handed(r)
    BY <2>1, <2>4, <2>8 DEF Handed
  <2>6. QED
    BY <2>11, <2>12
<1>8. CASE ~(Claim(r) \/ LookUp(r) \/ Spawn(r) \/ StartFails(r) \/ Started(r) \/ Release(r))
  <2>1. /\ \A p \in Request \ {r} : request'[p] = request[p]
        /\ request'[r].at \notin {"start", "starting", "release"}
        /\ \A e \in Enrollment : row'[e].claimed = row[e].claimed
    BY <1>8, OthersOweNothing
  <2>2. UNCHANGED job
    BY <1>8, RequestsFrame
  <2>3. Orderly(request'[r]) /\ \A e \in Enrollment : ~Owes(request'[r], e)
    BY <2>1 DEF Orderly, Owes
  <2>4. QED
    BY <1>1, <2>1, <2>2, <2>3
<1>9. QED
  BY <1>12, <1>3, <1>4, <1>5, <1>6, <1>7, <1>8

(* So does every other step.                                               *)
LEMMA ClaimsKept ==
    ASSUME TypeOK, Claims, [Next]_vars
    PROVE  Claims'
<1>0. RowsTyped /\ RequestsTyped /\ JobsTyped
  BY TypeParts
<1>1. ASSUME NEW r \in Request, RequestBegins(r) \/ RequestGoesOn(r) PROVE Claims'
  BY <1>0, <1>1, RequestsKeepClaims
<1>2. ASSUME NEW t \in Task, JobGoesOn(t) PROVE Claims'
  <2>1. UNCHANGED request /\ (RecordFailure(t) \/ Finalize(t) \/ UNCHANGED row)
    BY <1>2, JobsFrame
  <2>2. \A e \in Enrollment : row'[e].claimed = row[e].claimed
    BY <1>0, <2>1 DEF RecordFailure, Finalize, Ends, Set, RowsTyped, ARow
  <2>3. \A u \in Task, e \in Enrollment : Runs(u, e)' => Runs(u, e)
    BY <1>0, <1>2, RunsMove DEF Runs, MovesTo
  <2>4. (\A r \in Request : Orderly(request[r]))' /\ \A r \in Request, e \in Enrollment : Owes(request'[r], e) => Owes(request[r], e)
    BY <2>1 DEF Claims
  <2>5. QED
    BY <2>2, <2>3, <2>4, ClaimsOfLess
<1>3. ASSUME NEW e \in Enrollment, HourPasses(e) PROVE Claims'
  BY <1>3 DEF HourPasses, database, Claims, Runs
<1>4. ASSUME Restart PROVE Claims'
  <2>1. \A r \in Request : request'[r].at \notin {"start", "starting", "release"}
    BY <1>0, <1>4 DEF Restart, At, RequestsTyped, ARequest, NewRequest
  <2>2. \A r \in Request : Orderly(request'[r]) /\ \A e \in Enrollment : ~Owes(request'[r], e)
    BY <2>1 DEF Orderly, Owes
  <2>3. \A t \in Task, e \in Enrollment : ~Runs(t, e)'
    BY <1>4 DEF Restart, Runs, NoJob
  <2>4. UNCHANGED row
    BY <1>4 DEF Restart, database
  <2>5. QED
    BY <2>2, <2>3, <2>4, ClaimsOfLess
<1>5. CASE UNCHANGED vars
  BY <1>5 DEF vars, database, Claims, Runs
<1>6. QED
  BY <1>1, <1>2, <1>3, <1>4, <1>5 DEF Next, Step

(* At first nobody has claimed, owes or runs anything.                     *)
LEMMA ClaimsAtFirst == Init => Claims
<1> SUFFICES ASSUME Init PROVE Claims
  OBVIOUS
<1>1. \A r \in Request : Orderly(request[r]) /\ \A e \in Enrollment : ~Owes(request[r], e)
  BY DEF Init, NewRequest, Orderly, Owes
<1>2. \A t \in Task, e \in Enrollment : ~Runs(t, e)
  BY DEF Init, NoJob, Runs
<1>3. QED
  BY <1>1, <1>2, Zenon DEF Claims

(* The claim lets one request through, and no run begins but by it: there  *)
(* is one run for an enrollment at a time, whatever is launched, resumed   *)
(* or started side by side, fails in between or is restarted.              *)
THEOREM OneRunEach == Spec => []OneRun
<1>1. Init => Claims
  BY ClaimsAtFirst
<1>2. TypeOK /\ Claims /\ [Next]_vars => Claims'
  BY ClaimsKept
<1>3. TypeOK /\ Claims => OneRun
  BY DEF TypeOK, Claims, OneRun, Runs
<1>4. QED
  BY <1>1, <1>2, <1>3, TypeCorrect, PTL DEF Spec

-----------------------------------------------------------------------------
(* Each email once.                                                        *)

(* Nothing was sent to whom no run was begun for; a run has sent nothing   *)
(* of what is past its email, and that one only in vain.                   *)
Counts ==
    /\ \A e \in Enrollment, i \in 1 .. Steps : ~row[e].claimed => sent[e][i] = 0
    /\ \A r \in Request, e \in Enrollment, i \in 1 .. Steps : Owes(request[r], e) => sent[e][i] = 0
    /\ \A t \in Task, e \in Enrollment, i \in 1 .. Steps :
           job[t].of = e /\ job[t].at \notin {"idle", "return"} =>
               /\ i > job[t].step => sent[e][i] = 0
               /\ i = job[t].step => sent[e][i] <= resent
    /\ \A e \in Enrollment, i \in 1 .. Steps : sent[e][i] <= 1 + resent

(* A statement of a request keeps the counts.                              *)
LEMMA RequestsKeepCounts ==
    ASSUME TypeOK, Claims, Counts, NEW r \in Request, RequestBegins(r) \/ RequestGoesOn(r), Tell
    PROVE  Counts'
<1>1. RowsTyped /\ RequestsTyped /\ JobsTyped /\ resent \in Nat
      /\ sent \in [Enrollment -> [1 .. Steps -> Nat]]
  BY TypeParts
<1>2. Handed(r)
  BY <1>1, RequestsKeepClaims
<1>3. sent' = sent
  BY RequestsFrame
<1>4. resent' = resent
  BY <1>1, <1>3 DEF Tell
<1>5. \A e \in Enrollment, i \in 1 .. Steps : Owes(request[r], e) => sent[e][i] = 0
  BY DEF Counts
<1>6. \A e \in Enrollment, i \in 1 .. Steps : ~row'[e].claimed => sent[e][i] = 0
  BY <1>2, <1>5 DEF Handed, Counts
<1>7. \A q \in Request, e \in Enrollment, i \in 1 .. Steps : Owes(request'[q], e) => sent[e][i] = 0
  BY <1>2 DEF Handed, Counts
<1>8. \A t \in Task, e \in Enrollment, i \in 1 .. Steps :
          job'[t].of = e /\ job'[t].at \notin {"idle", "return"} =>
               /\ i > job'[t].step => sent[e][i] = 0
               /\ i = job'[t].step => sent[e][i] <= resent
  <2> TAKE t \in Task, e \in Enrollment, i \in 1 .. Steps
  <2>1. CASE job'[t] = job[t]
    BY <2>1 DEF Counts
  <2>2. CASE job'[t] # job[t]
    <3>1. PICK f \in Enrollment : Owes(request[r], f) /\ job'[t] = [NoJob(f) EXCEPT !.at = "gate"]
      BY <1>2, <2>2 DEF Handed
    <3>2. job'[t].of = f
      BY <3>1 DEF NoJob
    <3>3. job'[t].of = e => sent[e][i] = 0
      BY <1>5, <3>1, <3>2
    <3>4. QED
      BY <1>1, <3>3
  <2>3. QED
    BY <2>1, <2>2
<1>9. QED
  BY <1>3, <1>4, <1>6, <1>7, <1>8, Zenon DEF Counts

(* A job keeps them: it sends the email it is at, and goes on to the next. *)
LEMMA RunsKeepCounts ==
    ASSUME TypeOK, Places, Claims, Counts, NEW t \in Task, JobGoesOn(t), Tell
    PROVE  Counts'
<1> DEFINE me == job[t].of
           n == job[t].step
<1>1. RowsTyped /\ RequestsTyped /\ JobsTyped /\ resent \in Nat
      /\ sent \in [Enrollment -> [1 .. Steps -> Nat]]
  BY TypeParts
<1>2. me \in Enrollment /\ n \in Nat
  BY <1>1 DEF JobsTyped, AJob, Email
<1>3. UNCHANGED request /\ \A e \in Enrollment : row'[e].claimed = row[e].claimed
  <2>1. UNCHANGED request /\ (RecordFailure(t) \/ Finalize(t) \/ UNCHANGED row)
    BY JobsFrame
  <2>2. QED
    BY <1>1, <2>1 DEF RecordFailure, Finalize, Ends, Set, RowsTyped, ARow
<1>4. ASSUME NEW u \in Task, NEW e \in Enrollment, NEW i \in 1 .. Steps,
             job'[u].of = e, job'[u].at \notin {"idle", "return"}
      PROVE  \/ job'[u] = job[u]
             \/ u = t /\ me = e /\ job[t].at \notin {"idle", "return"}
                /\ (job'[t].step = n \/ (job[t].at = "step" /\ job'[t].step = n + 1))
  BY <1>1, <1>4, RunsMove DEF MovesTo
<1>5. CASE ~(Send(t) \/ SendUnrecorded(t))
  <2>1. sent' = sent
    BY <1>5, JobsFrame
  <2>2. resent' = resent
    BY <1>1, <2>1 DEF Tell
  <2>3. ASSUME NEW u \in Task, NEW e \in Enrollment, NEW i \in 1 .. Steps,
               job'[u].of = e, job'[u].at \notin {"idle", "return"}
        PROVE  /\ i > job'[u].step => sent[e][i] = 0
               /\ i = job'[u].step => sent[e][i] <= resent
    <3>1. CASE job'[u] = job[u]
      BY <2>3, <3>1 DEF Counts
    <3>2. CASE job'[u] # job[u]
      <4>1. u = t /\ me = e /\ job[t].at \notin {"idle", "return"}
            /\ (job'[t].step = n \/ job'[t].step = n + 1)
        BY <1>4, <2>3, <3>2
      <4>2. (i > n => sent[e][i] = 0) /\ (i = n => sent[e][i] <= resent)
        BY <4>1 DEF Counts
      <4>3. QED
        BY <1>1, <1>2, <4>1, <4>2
    <3>3. QED
      BY <3>1, <3>2
  <2>4. QED
    BY <1>3, <2>1, <2>2, <2>3, Zenon DEF Counts
<1>6. CASE Send(t) \/ SendUnrecorded(t)
  <2>1. /\ job[t].at = "step" /\ n \in 1 .. Steps
        /\ sent' = [sent EXCEPT ![me][n] = @ + 1]
    BY <1>1, <1>6, SendsTyped DEF Send, SendUnrecorded, Doing, Sends
  <2>2. \A e \in Enrollment, i \in 1 .. Steps :
            sent'[e][i] = IF e = me /\ i = n THEN sent[e][i] + 1 ELSE sent[e][i]
    BY <1>1, <1>2, <2>1
  <2>3. \A i \in 1 .. Steps : (i > n => sent[me][i] = 0) /\ (i = n => sent[me][i] <= resent)
    BY <1>2, <2>1 DEF Counts
  <2>4. resent' = resent \/ resent' = resent + 1
    BY <1>1 DEF Tell
  <2>5. Runs(t, me)
    BY <2>1 DEF Runs
  <2>6. row[me].claimed /\ \A r \in Request : ~Owes(request[r], me)
    BY <1>2, <2>5 DEF Claims
  <2>7. \A u \in Task : Runs(u, me) => u = t
    BY <1>2, <2>5 DEF Claims
  <2>8. \A e \in Enrollment, i \in 1 .. Steps : sent[e][i] \in Nat
    BY <1>1
  <2>9. \A e \in Enrollment, i \in 1 .. Steps : sent'[e][i] <= 1 + resent'
    <3> TAKE e \in Enrollment, i \in 1 .. Steps
    <3>1. sent[e][i] <= 1 + resent /\ (e = me /\ i = n => sent[e][i] <= resent)
      BY <2>3 DEF Counts
    <3>2. QED
      BY <1>1, <2>2, <2>4, <2>8, <3>1
  <2>10. ASSUME NEW u \in Task, NEW e \in Enrollment, NEW i \in 1 .. Steps,
                job'[u].of = e, job'[u].at \notin {"idle", "return"}
         PROVE  /\ i > job'[u].step => sent'[e][i] = 0
                /\ i = job'[u].step => sent'[e][i] <= resent'
    <3>1. CASE u # t
      <4>1. job'[u] = job[u]
        BY <1>1, <3>1, RunsMove
      <4>2. e # me
        BY <2>7, <2>10, <3>1, <4>1 DEF Runs
      <4>3. (i > job[u].step => sent[e][i] = 0) /\ (i = job[u].step => sent[e][i] <= resent)
        BY <2>10, <4>1 DEF Counts
      <4>4. QED
        BY <1>1, <2>2, <2>4, <2>8, <4>1, <4>2, <4>3
    <3>2. CASE u = t /\ Send(t)
      <4>1. job'[t] = NextStep(t)
        BY <1>1, <3>2 DEF Send, JobsTyped
      <4>2. job'[t].of = me /\ job'[t].step = n + 1
        BY <1>1, <4>1 DEF NextStep, JobsTyped, AJob
      <4>3. e = me
        BY <2>10, <3>2, <4>2
      <4>4. i >= n + 1 => sent[e][i] = 0 /\ sent'[e][i] = sent[e][i]
        BY <1>2, <2>2, <2>3, <4>3
      <4>5. QED
        BY <1>1, <1>2, <2>4, <3>2, <4>2, <4>4
    <3>3. CASE u = t /\ SendUnrecorded(t)
      <4>1. job'[t] = job[t]
        BY <3>3 DEF SendUnrecorded
      <4>2. failures' # failures
        BY SequenceBounds, TypeParts, <3>3 DEF SendUnrecorded
      <4>3. sent[me][n] + 1 # sent[me][n]
        BY <1>2, <2>1, <2>8
      <4>4. sent' # sent
        BY <1>2, <2>1, <2>2, <4>3
      <4>5. resent' = resent + 1
        BY <4>2, <4>4 DEF Tell
      <4>6. e = me
        BY <2>10, <3>3, <4>1
      <4>7. (i > n => sent[e][i] = 0) /\ (i = n => sent[e][i] <= resent)
        BY <2>3, <4>6
      <4>8. QED
        BY <1>1, <1>2, <2>2, <2>8, <3>3, <4>1, <4>5, <4>6, <4>7
    <3>4. QED
      BY <1>6, <3>1, <3>2, <3>3
  <2>11. \A e \in Enrollment, i \in 1 .. Steps : e # me => sent'[e][i] = sent[e][i]
    BY <2>2
  <2>12. \A e \in Enrollment, i \in 1 .. Steps : ~row'[e].claimed => sent'[e][i] = 0
    BY <1>3, <2>6, <2>11 DEF Counts
  <2>13. \A r \in Request, e \in Enrollment, i \in 1 .. Steps : Owes(request'[r], e) => sent'[e][i] = 0
    BY <1>3, <2>6, <2>11 DEF Counts
  <2>14. QED
    BY <2>9, <2>10, <2>12, <2>13, Zenon DEF Counts
<1>7. QED
  BY <1>5, <1>6

(* Nothing else sends.                                                     *)
LEMMA CountsKept ==
    ASSUME TypeOK, Places, Claims, Counts, [Next]_vars
    PROVE  Counts'
<1>1. ASSUME (\E e \in Enrollment : HourPasses(e)) \/ Restart, Tell
      PROVE  Counts'
  <2>1. sent' = sent /\ UNCHANGED row
    BY <1>1 DEF HourPasses, Restart, database
  <2>2. resent' = resent
    <3>1. resent \in Nat
      BY TypeParts
    <3>2. QED
      BY <1>1, <2>1, <3>1 DEF Tell
  <2>3. CASE \E e \in Enrollment : HourPasses(e)
    <3>1. UNCHANGED <<request, job>>
      BY <2>3 DEF HourPasses
    <3>2. QED
      BY <2>1, <2>2, <3>1 DEF Counts
  <2>4. CASE Restart
    <3>1. \A r \in Request, e \in Enrollment : ~Owes(request'[r], e)
      BY <2>4, TypeParts DEF Restart, At, RequestsTyped, ARequest, NewRequest, Owes
    <3>2. \A t \in Task : job'[t].at = "idle"
      BY <2>4 DEF Restart, NoJob
    <3>3. QED
      BY <2>1, <2>2, <3>1, <3>2 DEF Counts
  <2>5. QED
    BY <1>1, <2>3, <2>4
<1>2. CASE UNCHANGED vars
  BY <1>2 DEF vars, database, told, Counts
<1>3. QED
  BY <1>1, <1>2, RequestsKeepCounts, RunsKeepCounts DEF Next, Step

(* No email goes out twice to a person, whatever is paused, resumed,       *)
(* launched again or restarted: only a send of which no record could be    *)
(* made is repeated.                                                       *)
THEOREM EachEmailOnce == Spec => []EmailsOnce
<1>1. Init => Claims /\ Counts
  <2> SUFFICES ASSUME Init PROVE Claims /\ Counts
    OBVIOUS
  <2>1. \A e \in Enrollment, i \in 1 .. Steps : sent[e][i] = 0
    BY DEF Init
  <2>2. \A r \in Request, e \in Enrollment : ~Owes(request[r], e)
    BY DEF Init, NewRequest, Owes
  <2>3. \A t \in Task : job[t].at = "idle"
    BY DEF Init, NoJob
  <2>4. resent = 0
    BY DEF Init
  <2>5. Counts
    BY <2>1, <2>2, <2>3, <2>4 DEF Counts
  <2>6. QED
    BY <2>5, ClaimsAtFirst
<1>2. TypeOK /\ Places /\ Claims /\ Counts /\ [Next]_vars => (Claims /\ Counts)'
  BY ClaimsKept, CountsKept
<1>3. Counts => EmailsOnce
  BY DEF Counts, EmailsOnce
<1>4. QED
  BY <1>1, <1>2, <1>3, TypeCorrect, PTL DEF Spec

-----------------------------------------------------------------------------
(* What goes out although it is to be held.                                *)

(* A run past its gate has sent, since the person was to get nothing, only *)
(* what it sent in vain.                                                   *)
Lateness ==
    /\ \A e \in Enrollment : ~Held(e) => late[e] = 0
    /\ \A t \in Task, e \in Enrollment :
           job[t].of = e /\ job[t].at \in {"load", "loadRow", "step"} => late[e] <= resent
    /\ \A e \in Enrollment : late[e] <= 1 + resent

(* A step that sends nothing, and lets no run past its gate but one whose  *)
(* row is active, makes nothing late.                                      *)
LEMMA NothingSent ==
    ASSUME TypeOK, Lateness, Tell, sent' = sent,
           \A t \in Task : job'[t].at \in {"load", "loadRow", "step"} =>
               /\ job'[t].of = job[t].of
               /\ \/ job[t].at \in {"load", "loadRow", "step"}
                  \/ row[job[t].of].status = "active"
    PROVE  Lateness'
<1>1. late \in [Enrollment -> Nat] /\ resent \in Nat
  BY TypeParts
<1>2. resent' = resent
  BY <1>1 DEF Tell
<1>3. \A e \in Enrollment : late'[e] = IF ~Held(e)' THEN 0 ELSE late[e] + 0
  BY DEF Tell
<1>4. \A e \in Enrollment : late'[e] = 0 \/ late'[e] = late[e]
  BY <1>1, <1>3
<1>5. \A e \in Enrollment : row[e].status = "active" => late[e] = 0
  BY DEF Lateness, Held
<1>6. \A t \in Task, e \in Enrollment :
          job'[t].of = e /\ job'[t].at \in {"load", "loadRow", "step"} => late[e] <= resent
  BY <1>1, <1>5 DEF Lateness
<1>7. \A t \in Task, e \in Enrollment :
          job'[t].of = e /\ job'[t].at \in {"load", "loadRow", "step"} => late'[e] <= resent'
  BY <1>1, <1>2, <1>4, <1>6
<1>8. \A e \in Enrollment : ~Held(e)' => late'[e] = 0
  BY <1>3
<1>9. \A e \in Enrollment : late'[e] <= 1 + resent'
  BY <1>1, <1>2, <1>4 DEF Lateness
<1>10. QED
  BY <1>7, <1>8, <1>9, Zenon DEF Lateness

(* A run that sends was at its email, and then is at its gate, or tries    *)
(* the same again and has sent in vain.                                    *)
LEMMA SentLate ==
    ASSUME TypeOK, Places, Claims, Lateness, Tell, NEW t \in Task, Send(t) \/ SendUnrecorded(t)
    PROVE  Lateness'
<1> DEFINE me == job[t].of
<1>1. late \in [Enrollment -> Nat] /\ resent \in Nat /\ JobsTyped
      /\ sent \in [Enrollment -> [1 .. Steps -> Nat]]
  BY TypeParts
<1>2. me \in Enrollment /\ job[t].at = "step" /\ job[t].step \in 1 .. Steps
  BY <1>1, SendsTyped DEF Send, SendUnrecorded, Doing
<1>3. \A e \in Enrollment : e # me => sent'[e] = sent[e]
  BY <1>1, <1>2 DEF Send, SendUnrecorded, Sends
<1>4. resent' = resent \/ resent' = resent + 1
  BY <1>1 DEF Tell
<1>5. \A e \in Enrollment : late'[e] = 0 \/ late'[e] = late[e] \/ (e = me /\ late'[e] = late[e] + 1)
  <2> TAKE e \in Enrollment
  <2>1. late'[e] = IF ~Held(e)' THEN 0 ELSE late[e] + IF sent'[e] # sent[e] THEN 1 ELSE 0
    BY DEF Tell
  <2>2. QED
    BY <1>1, <1>3, <2>1
<1>6. late[me] <= resent
  BY <1>2 DEF Lateness
<1>7. \A e \in Enrollment : ~Held(e)' => late'[e] = 0
  BY DEF Tell
<1>8. \A e \in Enrollment : late'[e] <= 1 + resent'
  BY <1>1, <1>2, <1>4, <1>5, <1>6, SMTT(60) DEF Lateness
<1>9. ASSUME NEW u \in Task, NEW e \in Enrollment,
             job'[u].of = e, job'[u].at \in {"load", "loadRow", "step"}
      PROVE  late'[e] <= resent'
  <2>1. CASE u # t
    <3>1. job'[u] = job[u]
      BY <1>1, <2>1 DEF Send, SendUnrecorded, JobsTyped
    <3>2. Runs(u, e) /\ Runs(t, me)
      BY <1>2, <1>9, <3>1 DEF Runs
    <3>3. e # me
      BY <1>2, <2>1, <3>2 DEF Claims
    <3>4. late[e] <= resent
      BY <1>9, <3>1 DEF Lateness
    <3>5. QED
      BY <1>1, <1>4, <1>5, <3>3, <3>4
  <2>2. CASE u = t /\ Send(t)
    <3>1. job'[t].at = "gate"
      BY <1>1, <2>2 DEF Send, NextStep, JobsTyped, AJob
    <3>2. QED
      BY <1>9, <2>2, <3>1
  <2>3. CASE u = t /\ SendUnrecorded(t)
    <3>1. job'[t] = job[t] /\ failures' # failures
      BY <2>3, TypeParts, SequenceBounds DEF SendUnrecorded
    <3>2. sent'[me][job[t].step] = sent[me][job[t].step] + 1 /\ sent[me][job[t].step] \in Nat
      BY <1>1, <1>2, <2>3 DEF SendUnrecorded, Sends
    <3>3. sent' # sent
      BY <3>2
    <3>4. resent' = resent + 1
      BY <3>1, <3>3 DEF Tell
    <3>5. e = me
      BY <1>9, <2>3, <3>1
    <3>6. late[e] \in Nat /\ (late'[e] = 0 \/ late'[e] = late[e] \/ late'[e] = late[e] + 1)
      BY <1>1, <1>5
    <3>7. QED
      BY <1>1, <1>6, <3>4, <3>5, <3>6
  <2>4. QED
    BY <2>1, <2>2, <2>3
<1>10. QED
  BY <1>7, <1>8, <1>9, Zenon DEF Lateness

(* Every step keeps the account of the emails sent late.                   *)
LEMMA LatenessKept ==
    ASSUME TypeOK, Places, Claims, Lateness, [Next]_vars
    PROVE  Lateness'
<1>0. RowsTyped /\ RequestsTyped /\ JobsTyped
  BY TypeParts
<1>1. ASSUME NEW r \in Request, RequestBegins(r) \/ RequestGoesOn(r), Tell PROVE Lateness'
  <2>1. Handed(r) /\ sent' = sent
    BY <1>0, <1>1, RequestsKeepClaims, RequestsFrame
  <2>2. \A t \in Task : job'[t] = job[t] \/ job'[t].at = "gate"
    BY <2>1, ZenonT(60) DEF Handed, NoJob
  <2>3. QED
    BY <1>1, <2>1, <2>2, NothingSent
<1>2. ASSUME NEW t \in Task, JobGoesOn(t), Tell PROVE Lateness'
  <2>1. CASE Send(t) \/ SendUnrecorded(t)
    BY <1>2, <2>1, SentLate
  <2>2. CASE ~(Send(t) \/ SendUnrecorded(t))
    <3>1. sent' = sent
      BY <1>2, <2>2, JobsFrame
    <3>2. UNCHANGED job \/ (MovesTo(t, job'[t]) /\ \A u \in Task \ {t} : job'[u] = job[u])
      BY <1>0, <1>2, RunsMove
    <3>3. QED
      BY <1>2, <3>1, <3>2, NothingSent DEF MovesTo
  <2>3. QED
    BY <2>1, <2>2
<1>3. ASSUME (\E e \in Enrollment : HourPasses(e)) \/ Restart, Tell PROVE Lateness'
  <2>1. sent' = sent /\ (UNCHANGED job \/ \A t \in Task : job'[t].at = "idle")
    BY <1>3 DEF HourPasses, Restart, NoJob
  <2>2. QED
    BY <1>3, <2>1, NothingSent
<1>4. CASE UNCHANGED vars
  BY <1>4 DEF vars, database, told, Lateness, Held
<1>5. QED
  BY <1>1, <1>2, <1>3, <1>4 DEF Next, Step

(* Once a pause is in both tables, or the person is unenrolled, the person *)
(* gets at most the email whose gate was passed before, for any length of  *)
(* a sequence and any requests in between; it can go out again only when   *)
(* no record of it could be made.                                          *)
THEOREM PausedIsHeld == Spec => []HeldEmails
<1>1. Init => Claims /\ Lateness
  <2> SUFFICES ASSUME Init PROVE Claims /\ Lateness
    OBVIOUS
  <2>1. (\A e \in Enrollment : late[e] = 0) /\ resent = 0 /\ \A t \in Task : job[t].at = "idle"
    BY DEF Init, NoJob
  <2>2. Lateness
    BY <2>1 DEF Lateness
  <2>3. QED
    BY <2>2, ClaimsAtFirst
<1>2. TypeOK /\ Places /\ Claims /\ Lateness /\ [Next]_vars => (Claims /\ Lateness)'
  BY ClaimsKept, LatenessKept
<1>3. Lateness => HeldEmails
  BY DEF Lateness, HeldEmails
<1>4. QED
  BY <1>1, <1>2, <1>3, TypeCorrect, PTL DEF Spec

-----------------------------------------------------------------------------
(* Signals.                                                                *)

(* A slot and the wait parked in it agree, and a run waits only where it   *)
(* is about to.                                                            *)
Waits ==
    /\ KeptForNobody
    /\ \A t \in Task : wait[t].at # "idle" => job[t].at = "wait"
    /\ \A t \in Task : wait[t].at = "idle" => wait[t].shot = "empty"
    /\ \A t \in Task, k \in Key :
           job[t].of = k /\ wait[t].at # "idle" /\ wait[t].shot = "empty" => slot[k].parked = t
    /\ \A t \in Task, k \in Key :
           slot[k].parked = t => /\ job[t].of = k
                                 /\ wait[t].at # "idle" /\ wait[t].shot = "empty"

(* Between its read of the row and the end of its wait a run has heard of  *)
(* every signal since it began to read.                                    *)
Heard ==
    \A t \in Task, k \in Key :
        job[t].of = k /\ job[t].at \in {"gateRow", "wait"} /\ unread[k] =>
            slot[k].kept \/ wait[t].shot # "empty"

(* Slots and waits that stay as they are, of runs that stay in their wait. *)
LEMMA SameWaits ==
    ASSUME Waits, slot' = slot,
           \A t \in Task : wait'[t].at = wait[t].at /\ wait'[t].shot = wait[t].shot,
           \A t \in Task : wait[t].at # "idle" => job'[t].at = "wait" /\ job'[t].of = job[t].of
    PROVE  Waits'
<1>1. KeptForNobody'
  BY DEF Waits, KeptForNobody
<1>2. (\A t \in Task : wait[t].at # "idle" => job[t].at = "wait")'
  BY DEF Waits
<1>3. (\A t \in Task : wait[t].at = "idle" => wait[t].shot = "empty")'
  BY DEF Waits
<1>4. (\A t \in Task, k \in Key :
           job[t].of = k /\ wait[t].at # "idle" /\ wait[t].shot = "empty" => slot[k].parked = t)'
  BY DEF Waits
<1>5. (\A t \in Task, k \in Key :
           slot[k].parked = t => /\ job[t].of = k
                                 /\ wait[t].at # "idle" /\ wait[t].shot = "empty")'
  BY DEF Waits
<1>6. QED
  BY <1>1, <1>2, <1>3, <1>4, <1>5 DEF Waits

(* What becomes of the waits when a signal is delivered: the wait that was *)
(* parked is ended by it, and others are left alone.                       *)
LEMMA Delivered ==
    ASSUME SlotsTyped, NEW k \in Key, Deliver(k)
    PROVE  /\ \A j \in Key \ {k} : slot'[j] = slot[j]
           /\ \A t \in Task : t # slot[k].parked => wait'[t] = wait[t]
           /\ \A t \in Task : wait'[t].at = wait[t].at
           /\ slot'[k].parked = NoTask
           /\ IF slot[k].parked = NoTask THEN slot'[k].kept
              ELSE wait'[slot[k].parked].shot = "sent" /\ ~slot'[k].kept
<1>1. slot[k].parked \in Task \cup {NoTask}
  BY DEF SlotsTyped, ASlot
<1>2. CASE slot[k].parked = NoTask
  BY <1>2, NoTaskIsNoTask DEF Deliver, SlotsTyped, ASlot
<1>3. CASE slot[k].parked # NoTask
  BY <1>1, <1>3 DEF Deliver, SlotsTyped, ASlot, AWait, EmptySlot
<1>4. QED
  BY <1>2, <1>3

(* What becomes of them when a wait begins.                                *)
LEMMA Parked ==
    ASSUME SlotsTyped, NEW t \in Task, NEW k \in Key, Park(t, k)
    PROVE  /\ wait[t].at = "idle"
           /\ \A j \in Key \ {k} : slot'[j] = slot[j]
           /\ \A u \in Task \ {t} : wait'[u].at = wait[u].at
                                    /\ (wait'[u].shot = wait[u].shot \/
                                        (slot[k].parked = u /\ wait'[u].shot = "closed"))
           /\ wait'[t].shot = "empty" /\ ~slot'[k].kept
           /\ IF slot[k].kept THEN wait'[t].at = "idle" /\ slot'[k].parked = slot[k].parked
              ELSE wait'[t].at = "parked" /\ slot'[k].parked = t
<1>1. CASE slot[k].kept
  <2>1. /\ wait[t].at = "idle"
        /\ slot' = [slot EXCEPT ![k].kept = FALSE]
        /\ wait' = [wait EXCEPT ![t] = [NoWait EXCEPT !.woke = TRUE]]
    BY <1>1 DEF Park
  <2>2. \A u \in Task \ {t} : wait'[u] = wait[u]
    BY <2>1 DEF SlotsTyped
  <2>3. wait'[t].at = "idle" /\ wait'[t].shot = "empty"
    BY <2>1 DEF SlotsTyped, NoWait
  <2>4. slot'[k].kept = FALSE /\ slot'[k].parked = slot[k].parked
        /\ \A j \in Key \ {k} : slot'[j] = slot[j]
    BY <2>1 DEF SlotsTyped, ASlot
  <2>5. QED
    BY <1>1, <2>1, <2>2, <2>3, <2>4
<1>2. CASE ~slot[k].kept
  <2>1. /\ wait[t].at = "idle"
        /\ slot' = [slot EXCEPT ![k].parked = t]
        /\ wait' = [u \in Task |->
               CASE u = t -> [NoWait EXCEPT !.at = "parked"]
                 [] u # t /\ u = slot[k].parked -> [wait[u] EXCEPT !.shot = "closed"]
                 [] OTHER -> wait[u]]
    BY <1>2 DEF Park
  <2>2. wait'[t] = [NoWait EXCEPT !.at = "parked"]
    BY <2>1
  <2>3. wait'[t].at = "parked" /\ wait'[t].shot = "empty"
    BY <2>2 DEF NoWait
  <2>4. \A u \in Task \ {t} : \/ wait'[u] = wait[u]
                              \/ u = slot[k].parked /\ wait'[u] = [wait[u] EXCEPT !.shot = "closed"]
    BY <2>1
  <2>5. \A u \in Task : [wait[u] EXCEPT !.shot = "closed"].at = wait[u].at
                       /\ [wait[u] EXCEPT !.shot = "closed"].shot = "closed"
    BY DEF SlotsTyped, AWait
  <2>6. slot'[k].kept = slot[k].kept /\ slot'[k].parked = t
        /\ \A j \in Key \ {k} : slot'[j] = slot[j]
    BY <2>1 DEF SlotsTyped, ASlot
  <2>7. QED
    BY <1>2, <2>1, <2>3, <2>4, <2>5, <2>6
<1>3. QED
  BY <1>1, <1>2

(* A wait that finds a signal kept takes the place of nobody; one that is  *)
(* parked closes the oneshot of whom it takes the place of.                *)
LEMMA ParkCloses ==
    ASSUME SlotsTyped, NEW t \in Task, NEW k \in Key, Park(t, k), NEW u \in Task \ {t}
    PROVE  /\ slot[k].kept => wait'[u] = wait[u]
           /\ ~slot[k].kept /\ slot[k].parked = u => wait'[u].shot = "closed"
<1>1. CASE slot[k].kept
  <2>1. wait' = [wait EXCEPT ![t] = [NoWait EXCEPT !.woke = TRUE]]
    BY <1>1 DEF Park
  <2>2. QED
    BY <1>1, <2>1 DEF SlotsTyped
<1>2. CASE ~slot[k].kept /\ slot[k].parked = u
  <2>1. wait'[u] = [wait[u] EXCEPT !.shot = "closed"]
    BY <1>2 DEF Park
  <2>2. QED
    BY <1>2, <2>1 DEF SlotsTyped, AWait
<1>3. QED
  BY <1>1, <1>2

(* And when a wait ends.                                                   *)
LEMMA Ended ==
    ASSUME SlotsTyped, NEW t \in Task, NEW k \in Key, Woken(t) \/ TimeOut(t, k)
    PROVE  /\ wait[t].at # "idle" /\ wait'[t].at = "idle" /\ wait'[t].shot = "empty"
           /\ \A j \in Key \ {k} : slot'[j] = slot[j]
           /\ \A u \in Task \ {t} : wait'[u] = wait[u]
           /\ slot'[k].kept = slot[k].kept
           /\ \/ slot'[k].parked = slot[k].parked
                 /\ (wait[t].shot # "empty" \/ slot[k].parked # t)
                 /\ wait'[t].woke = (wait[t].shot = "sent")
              \/ slot[k].parked = t /\ slot'[k].parked = NoTask
<1>1. CASE Woken(t)
  BY <1>1 DEF Woken, SlotsTyped, ASlot, AWait, NoWait
<1>2. CASE TimeOut(t, k)
  BY <1>2 DEF TimeOut, SlotsTyped, ASlot, AWait, NoWait
<1>3. QED
  BY <1>1, <1>2

(* A signal delivered to whom nothing changes but his wait.                *)
LEMMA DeliverKeepsWaits ==
    ASSUME SlotsTyped, Waits, NEW k \in Key, Deliver(k), UNCHANGED job
    PROVE  Waits'
<1> DEFINE p == slot[k].parked
<1>1. /\ \A j \in Key \ {k} : slot'[j] = slot[j]
      /\ \A t \in Task : t # p => wait'[t] = wait[t]
      /\ \A t \in Task : wait'[t].at = wait[t].at
      /\ slot'[k].parked = NoTask
      /\ p # NoTask => wait'[p].shot = "sent"
  BY Delivered
<1>2. \A t \in Task : t # NoTask
  BY NoTaskIsNoTask
<1>3. p \in Task => job[p].of = k /\ wait[p].at # "idle"
  BY DEF Waits
<1>4. KeptForNobody'
  BY <1>1 DEF Waits, KeptForNobody
<1>5. (\A t \in Task : wait[t].at # "idle" => job[t].at = "wait")'
  BY <1>1 DEF Waits
<1>6. (\A t \in Task : wait[t].at = "idle" => wait[t].shot = "empty")'
  BY <1>1, <1>3 DEF Waits
<1>7. (\A t \in Task, j \in Key :
           job[t].of = j /\ wait[t].at # "idle" /\ wait[t].shot = "empty" => slot[j].parked = t)'
  <2> SUFFICES ASSUME NEW t \in Task, NEW j \in Key, job[t].of = j,
                      wait'[t].at # "idle", wait'[t].shot = "empty"
               PROVE  slot'[j].parked = t
    OBVIOUS
  <2>1. t # p
    BY <1>1, <1>2
  <2>2. slot[j].parked = t
    BY <1>1, <2>1 DEF Waits
  <2>3. j # k
    BY <2>1, <2>2
  <2>4. QED
    BY <1>1, <2>2, <2>3
<1>8. (\A t \in Task, j \in Key :
           slot[j].parked = t => /\ job[t].of = j
                                 /\ wait[t].at # "idle" /\ wait[t].shot = "empty")'
  <2> SUFFICES ASSUME NEW t \in Task, NEW j \in Key, slot'[j].parked = t
               PROVE  job[t].of = j /\ wait'[t].at # "idle" /\ wait'[t].shot = "empty"
    OBVIOUS
  <2>1. j # k
    BY <1>1, <1>2
  <2>2. slot[j].parked = t
    BY <1>1, <2>1
  <2>3. job[t].of = j /\ wait[t].at # "idle" /\ wait[t].shot = "empty"
    BY <2>2 DEF Waits
  <2>4. t # p
    BY <1>3, <2>1, <2>3
  <2>5. QED
    BY <1>1, <2>3, <2>4
<1>9. QED
  BY <1>4, <1>5, <1>6, <1>7, <1>8 DEF Waits

(* A run begins to wait, or goes back to its gate when a signal was kept.  *)
LEMMA ParkKeepsWaits ==
    ASSUME SlotsTyped, Waits, NEW t \in Task, NEW k \in Key, job[t].of = k, Park(t, k),
           \A u \in Task : job'[u].of = job[u].of,
           \A u \in Task \ {t} : job'[u].at = job[u].at,
           job'[t].at = IF wait'[t].at = "idle" THEN "gate" ELSE "wait"
    PROVE  Waits'
<1>1. /\ wait[t].at = "idle"
      /\ \A j \in Key \ {k} : slot'[j] = slot[j]
      /\ \A u \in Task \ {t} : wait'[u].at = wait[u].at
                               /\ (wait'[u].shot = wait[u].shot \/
                                   (slot[k].parked = u /\ wait'[u].shot = "closed"))
      /\ wait'[t].shot = "empty" /\ ~slot'[k].kept
      /\ IF slot[k].kept THEN wait'[t].at = "idle" /\ slot'[k].parked = slot[k].parked
         ELSE wait'[t].at = "parked" /\ slot'[k].parked = t
  BY Parked
<1>2. \A j \in Key : slot[j].parked # t
  BY <1>1 DEF Waits
<1>3. KeptForNobody'
  BY <1>1 DEF Waits, KeptForNobody
<1>4. (\A u \in Task : wait[u].at # "idle" => job[u].at = "wait")'
  BY <1>1 DEF Waits
<1>5. (\A u \in Task : wait[u].at = "idle" => wait[u].shot = "empty")'
  <2> SUFFICES ASSUME NEW u \in Task, wait'[u].at = "idle" PROVE wait'[u].shot = "empty"
    OBVIOUS
  <2>1. u # t => wait[u].at = "idle" /\ slot[k].parked # u
    BY <1>1 DEF Waits
  <2>2. QED
    BY <1>1, <2>1 DEF Waits
<1>6. (\A u \in Task, j \in Key :
           job[u].of = j /\ wait[u].at # "idle" /\ wait[u].shot = "empty" => slot[j].parked = u)'
  <2> SUFFICES ASSUME NEW u \in Task, NEW j \in Key, job[u].of = j,
                      wait'[u].at # "idle", wait'[u].shot = "empty"
               PROVE  slot'[j].parked = u
    OBVIOUS
  <2>1. CASE u = t
    BY <1>1, <2>1
  <2>2. CASE u # t
    <3>1. wait[u].at # "idle" /\ wait[u].shot = "empty"
      BY <1>1, <2>2
    <3>2. slot[j].parked = u
      BY <3>1 DEF Waits
    <3>3. CASE j = k
      <4>1. wait'[u].shot = wait[u].shot
        BY <3>1
      <4>2. slot[k].kept
        BY <1>1, <2>2, <3>2, <3>3, ParkCloses
      <4>3. QED
        BY <1>1, <3>2, <3>3, <4>2
    <3>4. QED
      BY <1>1, <3>2, <3>3
  <2>3. QED
    BY <2>1, <2>2
<1>7. (\A u \in Task, j \in Key :
           slot[j].parked = u => /\ job[u].of = j
                                 /\ wait[u].at # "idle" /\ wait[u].shot = "empty")'
  <2> SUFFICES ASSUME NEW u \in Task, NEW j \in Key, slot'[j].parked = u
               PROVE  job[u].of = j /\ wait'[u].at # "idle" /\ wait'[u].shot = "empty"
    OBVIOUS
  <2>1. CASE u = t
    <3>1. j = k /\ ~slot[k].kept
      BY <1>1, <1>2, <2>1
    <3>2. QED
      BY <1>1, <2>1, <3>1
  <2>2. CASE u # t
    <3>1. slot[j].parked = u
      BY <1>1, <2>2
    <3>2. job[u].of = j /\ wait[u].at # "idle" /\ wait[u].shot = "empty"
      BY <3>1 DEF Waits
    <3>3. j = k => slot[k].kept
      BY <1>1, <2>2
    <3>4. slot[k].kept => wait'[u] = wait[u]
      BY <2>2, ParkCloses
    <3>5. j # k => slot[k].parked # u
      BY <3>2 DEF Waits
    <3>6. QED
      BY <1>1, <2>2, <3>2, <3>3, <3>4, <3>5
  <2>3. QED
    BY <2>1, <2>2
<1>8. QED
  BY <1>3, <1>4, <1>5, <1>6, <1>7 DEF Waits

(* A wait ends, and its run goes back to its gate.                         *)
LEMMA EndKeepsWaits ==
    ASSUME SlotsTyped, Waits, NEW t \in Task, NEW k \in Key, job[t].of = k,
           Woken(t) \/ TimeOut(t, k),
           \A u \in Task : job'[u].of = job[u].of,
           \A u \in Task \ {t} : job'[u].at = job[u].at
    PROVE  Waits'
<1>1. /\ wait[t].at # "idle" /\ wait'[t].at = "idle" /\ wait'[t].shot = "empty"
      /\ \A j \in Key \ {k} : slot'[j] = slot[j]
      /\ \A u \in Task \ {t} : wait'[u] = wait[u]
      /\ slot'[k].kept = slot[k].kept
      /\ \/ slot'[k].parked = slot[k].parked /\ (wait[t].shot # "empty" \/ slot[k].parked # t)
         \/ slot[k].parked = t /\ slot'[k].parked = NoTask
  BY Ended
<1>2. \A j \in Key \ {k} : slot[j].parked # t
  BY DEF Waits
<1>3. slot'[k].parked # t
  BY <1>1, NoTaskIsNoTask DEF Waits
<1>4. KeptForNobody'
  BY <1>1, NoTaskIsNoTask DEF Waits, KeptForNobody
<1>5. (\A u \in Task : wait[u].at # "idle" => job[u].at = "wait")'
  BY <1>1 DEF Waits
<1>6. (\A u \in Task : wait[u].at = "idle" => wait[u].shot = "empty")'
  BY <1>1 DEF Waits
<1>7. (\A u \in Task, j \in Key :
           job[u].of = j /\ wait[u].at # "idle" /\ wait[u].shot = "empty" => slot[j].parked = u)'
  BY <1>1, <1>2, <1>3 DEF Waits
<1>8. (\A u \in Task, j \in Key :
           slot[j].parked = u => /\ job[u].of = j
                                 /\ wait[u].at # "idle" /\ wait[u].shot = "empty")'
  BY <1>1, <1>2, <1>3, NoTaskIsNoTask DEF Waits
<1>9. QED
  BY <1>4, <1>5, <1>6, <1>7, <1>8 DEF Waits

(* A run in its wait goes on only by it.                                   *)
LEMMA WaitingRuns ==
    ASSUME NEW t \in Task, JobGoesOn(t), job[t].at = "wait"
    PROVE  Wait(t) \/ WaitElapses(t) \/ WaitEnds(t)
  BY DEF JobGoesOn, Gate, GateRow, Load, LoadRow, Send, SendUnrecorded, Skip, Defer, StepFails,
         RecordFailure, Finalize, Ends, GiveUp, Return, Doing

(* A request is woken by nobody else, and nobody else is touched.          *)
LEMMA OneRequest ==
    ASSUME RequestsTyped, RowsTyped, NEW r \in Request, RequestBegins(r) \/ RequestGoesOn(r)
    PROVE  /\ \A p \in Request \ {r} : request'[p] = request[p]
           /\ At(r, "wake") => Wake(r)
<1>1. \A p \in Request \ {r} : request'[p] = request[p]
  <2>1. CASE Claim(r) \/ LookUp(r) \/ Spawn(r) \/ StartFails(r) \/ Started(r) \/ Release(r)
    <3>1. PICK q : request' = [request EXCEPT ![r] = q]
      BY <2>1 DEF Claim, LookUp, Spawn, StartFails, Started, Release, Go
    <3>2. QED
      BY <3>1 DEF RequestsTyped
  <2>2. QED
    BY <2>1, OthersOweNothing
<1>2. At(r, "wake") => Wake(r)
  BY DEF RequestBegins, Launch, Resume, Activate, Start, Begins, Selected, Pause, Enroll,
         Unenroll, PauseOne, ResumeOne, ReadRow, RequestGoesOn, Admit, Unpause, Select, Claim,
         LookUp, Spawn, StartFails, Started, Release, PauseRows, UnenrollRow, PauseRow,
         ReadSequence, ResumeRow, Insert, RequestFails, At
<1>3. QED
  BY <1>1, <1>2

(* A step of a request delivers a signal, starts a run, or leaves both the *)
(* signals and the runs alone.                                             *)
LEMMA RequestsAndSignals ==
    ASSUME RequestsTyped, JobsTyped, NEW r \in Request, RequestBegins(r) \/ RequestGoesOn(r)
    PROVE  \/ /\ Wake(r) /\ UNCHANGED job
              /\ \E e \in request[r].todo :
                    /\ e \in Key /\ Deliver(e)
                    /\ request' = [request EXCEPT ![r].todo = @ \ {e}]
           \/ /\ UNCHANGED <<slot, wait>>
              /\ Wake(r) => request[r].todo = {}
              /\ \A t \in Task : \/ job'[t] = job[t]
                                 \/ job[t].at = "idle" /\ job'[t].at = "gate"
<1>1. CASE Wake(r) /\ request[r].todo # {}
  <2>1. request[r].todo \subseteq Key
    BY Names DEF RequestsTyped, ARequest, Enrollment
  <2>2. QED
    BY <1>1, <2>1 DEF Wake
<1>2. CASE Wake(r) /\ request[r].todo = {}
  BY <1>2 DEF Wake, jobsVars
<1>3. CASE Spawn(r)
  <2>1. PICK e \in request[r].whom, t \in Task :
            job[t].at = "idle" /\ job' = [job EXCEPT ![t] = [NoJob(e) EXCEPT !.at = "gate"]]
    BY <1>3, SpawnStarts
  <2>2. \A u \in Task : job'[u] = job[u] \/ (u = t /\ job'[u].at = "gate")
    BY <2>1 DEF JobsTyped, NoJob
  <2>3. UNCHANGED <<slot, wait>> /\ ~Wake(r)
    BY <1>3 DEF Spawn, Wake, At
  <2>4. QED
    BY <2>1, <2>2, <2>3
<1>4. CASE ~Wake(r) /\ ~Spawn(r)
  BY <1>4, RequestsFrame
<1>5. QED
  BY <1>1, <1>2, <1>3, <1>4

(* Every step keeps slots and waits in agreement.                          *)
LEMMA WaitsKept ==
    ASSUME TypeOK, Waits, [Next]_vars
    PROVE  Waits'
<1>0. SlotsTyped /\ RequestsTyped /\ RowsTyped /\ JobsTyped
  BY TypeParts, JobsTypeParts
<1>1. ASSUME NEW r \in Request, RequestBegins(r) \/ RequestGoesOn(r) PROVE Waits'
  <2>1. ASSUME NEW e \in Key, Deliver(e), UNCHANGED job PROVE Waits'
    BY <1>0, <2>1, DeliverKeepsWaits
  <2>2. CASE /\ UNCHANGED <<slot, wait>>
             /\ \A t \in Task : job'[t] = job[t] \/ (job[t].at = "idle" /\ job'[t].at = "gate")
    <3>1. \A t \in Task : wait[t].at # "idle" => job'[t] = job[t] /\ job[t].at = "wait"
      BY <2>2 DEF Waits
    <3>2. QED
      BY <2>2, <3>1, SameWaits
  <2>3. QED
    BY <1>0, <1>1, <2>1, <2>2, RequestsAndSignals
<1>2. ASSUME NEW t \in Task, JobGoesOn(t) PROVE Waits'
  <2>1. job[t].of \in Key
    BY <1>0 DEF JobsTyped, AJob, Enrollment
  <2>2. CASE Wait(t)
    <3>1. Park(t, job[t].of)
      BY <2>2 DEF Wait
    <3>2. job' = [job EXCEPT ![t].at = IF wait'[t].at = "idle" THEN "gate" ELSE "wait"]
      BY <2>2 DEF Wait
    <3>3. /\ \A u \in Task : job'[u].of = job[u].of
          /\ \A u \in Task \ {t} : job'[u].at = job[u].at
          /\ job'[t].at = IF wait'[t].at = "idle" THEN "gate" ELSE "wait"
      BY <1>0, <3>2 DEF JobsTyped, AJob
    <3>4. QED
      BY <1>0, <2>1, <3>1, <3>3, ParkKeepsWaits
  <2>3. CASE WaitEnds(t)
    <3>1. Woken(t) \/ TimeOut(t, job[t].of)
      BY <2>3 DEF WaitEnds
    <3>2. /\ \A u \in Task : job'[u].of = job[u].of
          /\ \A u \in Task \ {t} : job'[u].at = job[u].at
      BY <1>0, <2>3 DEF WaitEnds, JobsTyped, AJob
    <3>3. QED
      BY <1>0, <2>1, <3>1, <3>2, EndKeepsWaits
  <2>4. CASE WaitElapses(t)
    <3>1. /\ UNCHANGED <<slot, job>>
          /\ wait[t].at = "parked" /\ wait' = [wait EXCEPT ![t].at = "elapsed"]
      BY <2>4 DEF WaitElapses, Elapse
    <3>2. \A u \in Task : /\ wait'[u].shot = wait[u].shot
                          /\ wait'[u].at = IF u = t THEN "elapsed" ELSE wait[u].at
      BY <1>0, <3>1 DEF SlotsTyped, AWait
    <3>3. \A u \in Task : wait'[u].at = "idle" <=> wait[u].at = "idle"
      BY <3>1, <3>2
    <3>4. QED
      BY <3>1, <3>2, <3>3 DEF Waits, KeptForNobody
  <2>5. CASE Gate(t)
    <3>1. /\ UNCHANGED slot /\ job[t].at = "gate"
          /\ \A u \in Task : wait'[u].at = wait[u].at /\ wait'[u].shot = wait[u].shot
          /\ \A u \in Task \ {t} : job'[u] = job[u]
      BY <1>0, <2>5 DEF Gate, Doing, SlotsTyped, AWait, JobsTyped
    <3>2. wait[t].at = "idle"
      BY <3>1 DEF Waits
    <3>3. \A u \in Task : wait[u].at # "idle" => job'[u] = job[u] /\ job[u].at = "wait"
      BY <3>1, <3>2 DEF Waits
    <3>4. QED
      BY <3>1, <3>3, SameWaits
  <2>6. CASE ~(Wait(t) \/ WaitElapses(t) \/ WaitEnds(t) \/ Gate(t))
    <3>1. UNCHANGED <<slot, wait>>
      BY <1>2, <2>6, JobsFrame
    <3>2. wait[t].at = "idle"
      BY <1>2, <2>6, WaitingRuns DEF Waits
    <3>3. \A u \in Task \ {t} : job'[u] = job[u]
      BY <1>0, <1>2, RunsMove
    <3>4. \A u \in Task : wait[u].at # "idle" => job'[u] = job[u] /\ job[u].at = "wait"
      BY <3>2, <3>3 DEF Waits
    <3>5. QED
      BY <3>1, <3>4, SameWaits
  <2>7. QED
    BY <2>2, <2>3, <2>4, <2>5, <2>6
<1>3. ASSUME NEW e \in Enrollment, HourPasses(e) PROVE Waits'
  <2>1. UNCHANGED <<wait, job>>
    BY <1>3 DEF HourPasses, Expire
  <2>2. \A k \in Key : slot'[k].parked = slot[k].parked /\ (slot'[k].kept => slot[k].kept)
    BY <1>0, <1>3 DEF HourPasses, Expire, SlotsTyped, ASlot
  <2>3. QED
    BY <2>1, <2>2 DEF Waits, KeptForNobody
<1>4. CASE Restart
  <2>1. /\ \A k \in Key : slot'[k].parked = NoTask /\ ~slot'[k].kept
        /\ \A t \in Task : wait'[t].at = "idle" /\ wait'[t].shot = "empty"
    BY <1>4 DEF Restart, ForgetJobs, EmptySlot, NoWait
  <2>2. QED
    BY <2>1, NoTaskIsNoTask DEF Waits, KeptForNobody
<1>5. CASE UNCHANGED vars
  BY <1>5 DEF vars, jobsVars, Waits, KeptForNobody
<1>6. QED
  BY <1>1, <1>2, <1>3, <1>4, <1>5 DEF Next, Step

(* No slot holds anything, and nobody waits, at first.                     *)
LEMMA WaitsAtFirst == Init => Waits
<1> SUFFICES ASSUME Init PROVE Waits
  OBVIOUS
<1>1. /\ \A k \in Key : slot[k].parked = NoTask /\ ~slot[k].kept
      /\ \A t \in Task : wait[t].at = "idle" /\ wait[t].shot = "empty"
  BY DEF Init, JobsInit, EmptySlot, NoWait
<1>2. QED
  BY <1>1, NoTaskIsNoTask DEF Waits, KeptForNobody

(* A signal is kept for the next wait only while none is parked, although  *)
(* waits begin, end, time out and take each other's place in between.      *)
THEOREM KeptForTheNext == Spec => []KeptForNobody
<1>1. TypeOK /\ Waits /\ [Next]_vars => Waits'
  BY WaitsKept
<1>2. Waits => KeptForNobody
  BY DEF Waits
<1>3. QED
  BY <1>1, <1>2, WaitsAtFirst, TypeCorrect, PTL DEF Spec

(* A wait that was signalled says so, also when its time was up just then: *)
(* who takes the wait out of the table too late finds the signal.          *)
THEOREM SignalledSaysSo == Spec => SignalledIsNoTimeout
<1>1. ASSUME TypeOK, Waits, Next, NEW t \in Task,
             wait[t].shot = "sent", wait'[t].at = "idle", failures' = failures
      PROVE  wait'[t].woke
  <2>0. SlotsTyped /\ RequestsTyped /\ RowsTyped /\ JobsTyped
    BY <1>1, TypeParts, JobsTypeParts
  <2>1. wait[t].at # "idle" /\ job[t].at = "wait" /\ \A k \in Key : slot[k].parked # t
    BY <1>1 DEF Waits
  <2>2. wait'[t].at # wait[t].at
    BY <1>1, <2>1
  <2>3. ASSUME NEW r \in Request, RequestBegins(r) \/ RequestGoesOn(r) PROVE FALSE
    <3>1. wait'[t].at = wait[t].at
      BY <2>0, <2>3, RequestsAndSignals, Delivered
    <3>2. QED
      BY <2>2, <3>1
  <2>4. ASSUME NEW u \in Task, JobGoesOn(u) PROVE wait'[t].woke
    <3>0. job[u].of \in Key
      BY <2>0 DEF JobsTyped, AJob, Enrollment
    <3>1. CASE Wait(u)
      <4>1. Park(u, job[u].of)
        BY <3>1 DEF Wait
      <4>2. wait[u].at = "idle" /\ \A v \in Task \ {u} : wait'[v].at = wait[v].at
        BY <2>0, <3>0, <4>1, Parked
      <4>3. QED
        BY <2>1, <2>2, <4>2
    <3>2. CASE WaitElapses(u)
      <4>1. wait[u].shot = "empty" /\ wait' = [wait EXCEPT ![u].at = "elapsed"]
        BY <3>2 DEF WaitElapses, Elapse
      <4>2. QED
        BY <1>1, <2>0, <2>2, <4>1 DEF SlotsTyped
    <3>3. CASE WaitEnds(u)
      <4>1. Woken(u) \/ TimeOut(u, job[u].of)
        BY <3>3 DEF WaitEnds
      <4>2. u = t
        BY <2>0, <2>2, <3>0, <4>1, Ended
      <4>3. slot[job[u].of].parked # t
        BY <2>1, <3>0
      <4>4. wait'[t].woke = (wait[t].shot = "sent")
        BY <2>0, <3>0, <4>1, <4>2, <4>3, Ended
      <4>5. QED
        BY <1>1, <4>4
    <3>4. CASE Gate(u)
      BY <2>0, <2>2, <3>4 DEF Gate, SlotsTyped, AWait
    <3>5. CASE ~(Wait(u) \/ WaitElapses(u) \/ WaitEnds(u) \/ Gate(u))
      BY <2>2, <2>4, <3>5, JobsFrame
    <3>6. QED
      BY <3>1, <3>2, <3>3, <3>4, <3>5
  <2>5. ASSUME NEW e \in Enrollment, HourPasses(e) PROVE FALSE
    BY <2>2, <2>5 DEF HourPasses, Expire
  <2>6. ASSUME Restart PROVE FALSE
    BY <1>1, <2>6, TypeParts, SequenceBounds DEF Restart
  <2>7. QED
    BY <1>1, <2>3, <2>4, <2>5, <2>6 DEF Next, Step
<1>3. TypeOK /\ Waits /\ [Next]_vars =>
          [\A t \in Task :
               wait[t].shot = "sent" /\ wait'[t].at = "idle" /\ failures' = failures
                   => wait'[t].woke]_vars
  BY <1>1
<1>4. TypeOK /\ Waits /\ [Next]_vars => Waits'
  BY WaitsKept
<1>5. QED
  BY <1>3, <1>4, WaitsAtFirst, TypeCorrect, PTL DEF Spec, SignalledIsNoTimeout

(* What the run of another enrollment, or none, does cannot keep a run     *)
(* from hearing of a signal.                                               *)
LEMMA OtherRuns ==
    ASSUME Claims, NEW t \in Task, NEW u \in Task, NEW k \in Enrollment,
           Runs(t, k), Runs(u, k)
    PROVE  t = u
  BY DEF Claims

(* A signal is kept, or reaches the wait, of the one run that may have     *)
(* read before it; and a run takes a kept signal only to read again.       *)
LEMMA HeardKept ==
    ASSUME TypeOK, Claims, Waits, Heard, [Next]_vars
    PROVE  Heard'
<1>0. SlotsTyped /\ RequestsTyped /\ RowsTyped /\ JobsTyped
  BY TypeParts, JobsTypeParts
<1> DEFINE Sent(k) == \E r \in Request : At(r, "wake") /\ k \in request[r].todo \ request'[r].todo
           ReadsRow(k) == \E t \in Task : job[t].of = k /\ Doing(t, "gate") /\ job'[t].at = "gateRow"
           Hears(t, k) == slot'[k].kept \/ wait'[t].shot # "empty"
           Between(t, k) == job'[t].of = k /\ job'[t].at \in {"gateRow", "wait"}
<1>1. ASSUME Tell PROVE \A k \in Key : unread'[k] => Sent(k) \/ (unread[k] /\ ~ReadsRow(k))
  BY <1>1 DEF Tell, Enrollment
<1>2. ASSUME NEW r \in Request, RequestBegins(r) \/ RequestGoesOn(r), Tell PROVE Heard'
  <2>1. SUFFICES ASSUME NEW t \in Task, NEW k \in Key, Between(t, k), unread'[k] PROVE Hears(t, k)
    BY DEF Heard
  <2>2. \A p \in Request : At(p, "wake") /\ k \in request[p].todo \ request'[p].todo => p = r /\ Wake(r)
    BY <1>0, <1>2, OneRequest
  <2>3. ASSUME NEW e \in Key, Deliver(e), UNCHANGED job,
               request' = [request EXCEPT ![r].todo = @ \ {e}]
        PROVE  Hears(t, k)
    <3>1. Sent(k) => k = e
      BY <1>0, <2>2, <2>3 DEF RequestsTyped, ARequest
    <3>2. /\ \A j \in Key \ {e} : slot'[j] = slot[j]
          /\ \A u \in Task : u # slot[e].parked => wait'[u] = wait[u]
          /\ IF slot[e].parked = NoTask THEN slot'[e].kept ELSE wait'[slot[e].parked].shot = "sent"
      BY <1>0, <2>3, Delivered
    <3>3. CASE k # e
      <4>1. slot[k].kept \/ wait[t].shot # "empty"
        BY <1>1, <1>2, <2>1, <2>3, <3>1, <3>3 DEF Heard
      <4>2. slot[e].parked = t => wait'[t].shot = "sent"
        BY <3>2, NoTaskIsNoTask
      <4>3. QED
        BY <3>2, <3>3, <4>1, <4>2
    <3>4. CASE k = e
      <4>1. CASE slot[e].parked = NoTask
        BY <3>2, <3>4, <4>1
      <4>2. CASE slot[e].parked # NoTask
        <5> DEFINE u == slot[e].parked
        <5>1. u \in Task
          BY <1>0, <4>2 DEF SlotsTyped, ASlot
        <5>2. job[u].of = e /\ job[u].at = "wait"
          BY <5>1 DEF Waits
        <5>3. Runs(u, k) /\ Runs(t, k)
          BY <2>1, <2>3, <3>4, <5>2 DEF Runs
        <5>4. t = u
          BY <5>1, <5>3, OtherRuns DEF Enrollment
        <5>5. QED
          BY <3>2, <4>2, <5>4
      <4>3. QED
        BY <4>1, <4>2
    <3>5. QED
      BY <3>3, <3>4
  <2>4. CASE /\ UNCHANGED <<slot, wait>>
             /\ Wake(r) => request[r].todo = {}
             /\ \A u \in Task : job'[u] = job[u] \/ (job[u].at = "idle" /\ job'[u].at = "gate")
    <3>1. ~Sent(k)
      BY <2>2, <2>4
    <3>2. unread[k]
      BY <1>1, <1>2, <2>1, <3>1
    <3>3. job'[t] = job[t]
      BY <2>1, <2>4
    <3>4. QED
      BY <2>1, <2>4, <3>2, <3>3 DEF Heard
  <2>5. QED
    BY <1>0, <1>2, <2>3, <2>4, RequestsAndSignals
<1>3. ASSUME NEW t \in Task, JobGoesOn(t), Tell PROVE Heard'
  <2>1. SUFFICES ASSUME NEW u \in Task, NEW k \in Key, Between(u, k), unread'[k] PROVE Hears(u, k)
    BY DEF Heard
  <2>2. UNCHANGED request
    BY <1>3, JobsFrame
  <2>3. unread[k] /\ ~ReadsRow(k)
    BY <1>1, <1>3, <2>1, <2>2
  <2>4. UNCHANGED job \/ (MovesTo(t, job'[t]) /\ \A v \in Task \ {t} : job'[v] = job[v])
    BY <1>0, <1>3, RunsMove
  <2>5. job[t].of \in Key /\ job'[t].of = job[t].of
    BY <1>0, <2>4 DEF JobsTyped, AJob, Enrollment, MovesTo
  <2>6. job[u].of = k /\ job[u].at # "idle"
    BY <2>1, <2>4 DEF MovesTo
  <2>7. u # t /\ job[t].at # "idle" => job[t].of # k
    <3> SUFFICES ASSUME u # t, job[t].at # "idle", job[t].of = k PROVE FALSE
      OBVIOUS
    <3>1. Runs(u, k) /\ Runs(t, k)
      BY <2>6 DEF Runs
    <3>2. QED
      BY <3>1, OtherRuns DEF Enrollment
  <2>8. u # t => job'[u] = job[u]
    BY <2>4
  <2>9. u # t => slot[k].kept \/ wait[u].shot # "empty"
    BY <2>1, <2>3, <2>8 DEF Heard
  <2>10. CASE Wait(t)
    <3>1. Park(t, job[t].of) /\ job[t].at = "wait"
          /\ job' = [job EXCEPT ![t].at = IF wait'[t].at = "idle" THEN "gate" ELSE "wait"]
      BY <2>10 DEF Wait, Doing
    <3>2. /\ wait[t].at = "idle"
          /\ \A j \in Key \ {job[t].of} : slot'[j] = slot[j]
          /\ \A v \in Task \ {t} : wait[v].shot # "empty" => wait'[v].shot # "empty"
          /\ slot[job[t].of].kept => wait'[t].at = "idle"
      BY <1>0, <2>5, <3>1, Parked
    <3>3. CASE u = t
      <4>1. slot[k].kept
        BY <2>3, <2>6, <3>1, <3>2, <3>3 DEF Heard, Waits
      <4>2. job'[t].at = "gate"
        BY <1>0, <2>6, <3>1, <3>2, <3>3, <4>1 DEF JobsTyped, AJob
      <4>3. QED
        BY <2>1, <3>3, <4>2
    <3>4. CASE u # t
      BY <2>7, <2>9, <3>1, <3>2, <3>4
    <3>5. QED
      BY <3>3, <3>4
  <2>11. CASE WaitEnds(t)
    <3>1. (Woken(t) \/ TimeOut(t, job[t].of)) /\ job[t].at = "wait" /\ job'[t].at = "gate"
      BY <1>0, <2>11 DEF WaitEnds, Doing, JobsTyped, AJob
    <3>2. /\ \A j \in Key \ {job[t].of} : slot'[j] = slot[j]
          /\ \A v \in Task \ {t} : wait'[v] = wait[v]
      BY <1>0, <2>5, <3>1, Ended
    <3>3. u # t
      BY <2>1, <3>1
    <3>4. QED
      BY <2>7, <2>9, <3>1, <3>2, <3>3
  <2>12. CASE WaitElapses(t)
    <3>1. UNCHANGED <<slot, job>> /\ wait' = [wait EXCEPT ![t].at = "elapsed"]
      BY <2>12 DEF WaitElapses, Elapse
    <3>2. wait'[u].shot = wait[u].shot
      BY <1>0, <3>1 DEF SlotsTyped, AWait
    <3>3. QED
      BY <2>1, <2>3, <3>1, <3>2 DEF Heard
  <2>13. CASE Gate(t)
    <3>1. Doing(t, "gate") /\ job'[t].at = "gateRow" /\ UNCHANGED slot
          /\ \A v \in Task : wait'[v].shot = wait[v].shot
      BY <1>0, <2>13 DEF Gate, JobsTyped, AJob, SlotsTyped, AWait
    <3>2. u # t
      BY <2>3, <2>6, <3>1
    <3>3. QED
      BY <2>9, <3>1, <3>2
  <2>14. CASE ~(Wait(t) \/ WaitElapses(t) \/ WaitEnds(t) \/ Gate(t))
    <3>1. UNCHANGED <<slot, wait>>
      BY <1>3, <2>14, JobsFrame
    <3>2. u = t => job[t].at \in {"gateRow", "wait"}
      BY <2>1, <2>4, <2>14 DEF MovesTo
    <3>3. QED
      BY <2>3, <2>6, <2>9, <3>1, <3>2 DEF Heard
  <2>15. QED
    BY <2>10, <2>11, <2>12, <2>13, <2>14
<1>4. ASSUME NEW e \in Enrollment, HourPasses(e), Tell PROVE Heard'
  <2>1. /\ UNCHANGED <<wait, job, request>>
        /\ \A t \in Task : job[t].of = e => job[t].at \notin {"gateRow", "wait"}
        /\ \A k \in Key \ {e} : slot'[k] = slot[k]
    BY <1>0, <1>4 DEF HourPasses, Expire, SlotsTyped
  <2>2. \A k \in Key : unread'[k] => unread[k]
    BY <1>1, <1>4, <2>1
  <2>3. QED
    BY <2>1, <2>2 DEF Heard
<1>5. CASE Restart
  BY <1>5 DEF Restart, NoJob, Heard
<1>6. CASE UNCHANGED vars
  BY <1>6 DEF vars, jobsVars, told, Heard
<1>7. QED
  BY <1>2, <1>3, <1>4, <1>5, <1>6 DEF Next, Step

(* A run does not sleep through a signal sent since it last began to read  *)
(* the database: the signal is kept and keeps it from waiting, or it ends  *)
(* the wait, with any number of requests that send and any number of runs. *)
THEOREM SignalNotLost == Spec => []HintNotLost
<1>1. Init => Claims /\ Waits /\ Heard
  <2>1. Init => Heard
    BY DEF Init, NoJob, Heard
  <2>2. QED
    BY <2>1, ClaimsAtFirst, WaitsAtFirst
<1>2. TypeOK /\ Claims /\ Waits /\ Heard /\ [Next]_vars => (Claims /\ Waits /\ Heard)'
  BY ClaimsKept, WaitsKept, HeardKept
<1>3. TypeOK /\ Heard => HintNotLost
  <2> SUFFICES ASSUME TypeOK, Heard PROVE HintNotLost
    OBVIOUS
  <2>1. \A t \in Task : job[t].of \in Key
    BY TypeParts DEF JobsTyped, AJob, Enrollment
  <2>2. QED
    BY <2>1 DEF Heard, HintNotLost, Doing
<1>4. QED
  BY <1>1, <1>2, <1>3, TypeCorrect, PTL DEF Spec

===============================================================================
