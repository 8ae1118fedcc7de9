------------------------------- MODULE Sequence -------------------------------
(***************************************************************************)
(* Sequences of the CRM: people are enrolled, and for each enrollment a    *)
(* job sends the emails of the sequence one after the other               *)
(* (rust/crates/crm-domain/src/sequence_run.rs).  Routes enroll people,    *)
(* launch, pause and resume the sequence, pause, resume and unenroll one   *)
(* person (rust/modules/crm/src/sequences.rs), each a row of statements    *)
(* without a transaction.  They tell the jobs nothing: a job reads the     *)
(* database before each email, parks while it says paused, and a signal    *)
(* only makes it read again.                                               *)
(*                                                                         *)
(* A route and a job are cut wherever they wait for the database or take a *)
(* lock, so the others get in between.  The jobs run in the server's own   *)
(* process (Jobs).  Left out: the execution records, which nobody reads to *)
(* decide anything, delays between emails (they only take time), deleting  *)
(* a sequence and editing its steps.                                       *)
(***************************************************************************)
EXTENDS Jobs, FiniteSets

CONSTANTS
    Steps,            \* the number of emails of the sequence
    Requests,         \* the number of requests to the routes
    MaxRechecks,      \* times a paused run reads again before it gives up
    MaxDeferrals,     \* times a send is put off by a sending limit
    MaxFailures       \* statements and starts that fail, ends of the process

\* One job for each enrollment: its key is the enrollment's id.
Enrollment == Key
Request == 1 .. Requests

ASSUME SomebodyToEnroll == Key # {}
ASSUME SequenceBounds ==
    /\ Steps \in Nat \ {0} /\ Requests \in Nat /\ MaxRechecks \in Nat
    /\ MaxDeferrals \in Nat /\ MaxFailures \in Nat

VARIABLES
    sequence,         \* the sequence's status
    row,              \* the rows of the enrollments
    request,          \* the requests being handled
    job,              \* the jobs running: one task each
    sent,             \* the emails that went out
    failures,
    resent,           \* emails that went out again because no record was made
    late,             \* emails sent since the person was to get none
    unread            \* has a signal been sent since the run last began to read?

database == <<sequence, row>>
told == <<resent, late, unread>>
vars == <<jobsVars, database, request, job, sent, failures, told>>

-----------------------------------------------------------------------------

Status == {"none", "pending", "active", "paused", "unenrolled", "completed", "failed"}

\* A route: the statement it is at, the enrollments it is about, those it has
\* still to start or wake, and what it read.
NewRequest == [at |-> "new", resumes |-> FALSE, whom |-> {}, todo |-> {}, failed |-> {},
               saw |-> "none", claimed |-> FALSE]

\* A job: the statement it is at, why it reads the database, the email it is
\* on, the status it read, and how often it has read again or put off sending.
NoJob(k) == [of |-> k, at |-> "idle", label |-> "start", step |-> 1, saw |-> "none",
             checks |-> 0, deferrals |-> 0, result |-> "none"]

TypeOK ==
    /\ JobsTypeOK
    /\ sequence \in {"draft", "active", "paused"}
    /\ row \in [Enrollment -> [status : Status, claimed : BOOLEAN]]
    /\ request \in [Request ->
           [at : {"new", "admit", "unpause", "wake", "select", "claim", "start",
                  "starting", "release", "pauseRows", "unenroll", "pauseOne", "readSequence",
                  "resumeOne", "insert", "done"},
            resumes : BOOLEAN,
            whom : SUBSET Enrollment, todo : SUBSET Enrollment, failed : SUBSET Enrollment,
            saw : Status \cup {"draft"}, claimed : BOOLEAN]]
    /\ job \in [Task ->
           [of : Enrollment,
            at : {"idle", "gate", "gateRow", "wait", "load", "loadRow", "step", "fail",
                  "finalize", "return"},
            label : {"start", "step", "final"}, step : 1 .. Steps + 1,
            saw : {"none", "draft", "active", "paused"}, checks : 0 .. MaxRechecks,
            deferrals : 0 .. MaxDeferrals, result : {"none", "succeeded", "failed"}]]
    /\ sent \in [Enrollment -> [1 .. Steps -> Nat]]
    /\ failures \in 0 .. MaxFailures
    /\ resent \in 0 .. failures
    /\ late \in [Enrollment -> Nat]
    /\ unread \in [Enrollment -> BOOLEAN]

Runnable(e) == sequence = "active" /\ row[e].status = "active"

\* Nothing is to be sent: a pause of the sequence has reached both tables, or
\* the person was unenrolled.
Held(e) ==
    \/ row[e].status = "unenrolled"
    \/ (row[e].status # "active" /\ sequence # "active")

Init ==
    /\ JobsInit
    /\ sequence = "draft"
    /\ row \in [Enrollment -> {[status |-> s, claimed |-> FALSE] : s \in {"none", "pending"}}]
    /\ request = [r \in Request |-> NewRequest]
    /\ job = [t \in Task |-> NoJob(CHOOSE k \in Key : TRUE)]
    /\ sent = [e \in Enrollment |-> [i \in 1 .. Steps |-> 0]]
    /\ failures = 0
    /\ resent = 0
    /\ late = [e \in Enrollment |-> 0]
    /\ unread = [e \in Enrollment |-> FALSE]

-----------------------------------------------------------------------------
(* The routes.                                                             *)

At(r, statement) == request[r].at = statement
Go(r, statement) ==
    request' = [request EXCEPT ![r] = IF statement = "done" THEN [NewRequest EXCEPT !.at = "done"]
                                      ELSE [@ EXCEPT !.at = statement]]

\* Requests are made one after the other, and handled side by side.
Begins(r) == At(r, "new") /\ \A q \in Request : q < r => ~At(q, "new")

Set(es, status) == row' = [e \in Enrollment |-> IF e \in es THEN [row[e] EXCEPT !.status = status]
                                                ELSE row[e]]
Idle == {t \in Task : job[t].at = "idle"}
With(status) == {e \in Enrollment : row[e].status = status}

\* launch, refused when nobody is enrolled, and resume set the sequence
\* active, then let in who is pending; resume also resumes who is paused and
\* wakes their runs.  Then both start who has none.
Activate(r, resumes) ==
    /\ Begins(r)
    /\ sequence' = "active"
    /\ request' = [request EXCEPT ![r].at = "admit", ![r].resumes = resumes]
    /\ UNCHANGED <<jobsVars, row, job, sent, failures>>

Launch(r) ==
    /\ \E e \in Enrollment : row[e].status \notin {"none", "unenrolled"}
    /\ Activate(r, FALSE)

Resume(r) == Activate(r, TRUE)

Admit(r) ==
    /\ At(r, "admit")
    /\ Set(With("pending"), "active")
    /\ Go(r, IF request[r].resumes THEN "unpause" ELSE "select")
    /\ UNCHANGED <<jobsVars, sequence, job, sent, failures>>

Unpause(r) ==
    /\ At(r, "unpause")
    /\ Set(With("paused"), "active")
    /\ request' = [request EXCEPT ![r].at = "wake",
                                  ![r].todo = {e \in With("paused") : row[e].claimed}]
    /\ UNCHANGED <<jobsVars, sequence, job, sent, failures>>

\* Each run is sent its signal; a resume goes on to start the others.
Wake(r) ==
    /\ At(r, "wake")
    /\ IF request[r].todo = {}
       THEN /\ Go(r, IF request[r].resumes THEN "select" ELSE "done")
            /\ UNCHANGED jobsVars
       ELSE \E e \in request[r].todo :
                /\ Deliver(e)
                /\ request' = [request EXCEPT ![r].todo = @ \ {e}]
                /\ UNCHANGED runs
    /\ UNCHANGED <<database, job, sent, failures>>

\* The active enrollments without a run; start is this alone.
Selected(r) ==
    /\ LET unstarted == {e \in With("active") : ~row[e].claimed}
       IN IF unstarted = {} THEN Go(r, "done")
          ELSE request' = [request EXCEPT ![r].at = "claim", ![r].whom = unstarted]
    /\ UNCHANGED <<jobsVars, database, job, sent, failures>>

Start(r) == Begins(r) /\ Selected(r)
Select(r) == At(r, "select") /\ Selected(r)

\* Mutant: whoever was selected is claimed, by another request or not.
ClaimAnyway(r) ==
    /\ At(r, "claim")
    /\ LET won == request[r].whom \cap With("active")
       IN /\ row' = [e \in Enrollment |-> [row[e] EXCEPT !.claimed = @ \/ e \in won]]
          /\ request' = [request EXCEPT ![r] = [NewRequest EXCEPT !.at = "start", !.todo = won]]
    /\ UNCHANGED <<jobsVars, sequence, job, sent, failures>>

\* One statement claims the enrollments; only one request wins each.
Claim(r) ==
    /\ At(r, "claim")
    /\ LET won == {e \in request[r].whom : row[e].status = "active" /\ ~row[e].claimed}
       IN /\ row' = [e \in Enrollment |-> [row[e] EXCEPT !.claimed = @ \/ e \in won]]
          /\ request' = [request EXCEPT ![r] = [NewRequest EXCEPT !.at = "start", !.todo = won]]
    /\ UNCHANGED <<jobsVars, sequence, job, sent, failures>>

\* start() of one enrollment's job looks the key up under the lock ...
LookUp(r) ==
    /\ At(r, "start")
    /\ request[r].todo # {}
    /\ \E e \in request[r].todo :
           request' = IF AlreadyRun(e)
                      THEN [request EXCEPT ![r].todo = @ \ {e}]
                      ELSE [request EXCEPT ![r].at = "starting", ![r].whom = {e}]
    /\ UNCHANGED <<jobsVars, database, job, sent, failures>>

\* ... and records the run under the lock again, then spawns it.
Spawn(r) ==
    /\ At(r, "starting")
    /\ Idle # {}
    /\ \E e \in request[r].whom :
           LET t == CHOOSE u \in Idle : TRUE IN
           /\ Remember(e, "running")
           /\ job' = [job EXCEPT ![t] = [NoJob(e) EXCEPT !.at = "gate"]]
           /\ request' = [request EXCEPT ![r].at = "start", ![r].todo = @ \ {e}, ![r].whom = {}]
    /\ UNCHANGED <<slot, wait, database, sent, failures>>

\* No job is registered under the name (the module has not come up yet).
StartFails(r) ==
    /\ At(r, "start")
    /\ failures < MaxFailures
    /\ \E e \in request[r].todo :
           request' = [request EXCEPT ![r].todo = @ \ {e}, ![r].failed = @ \cup {e}]
    /\ failures' = failures + 1
    /\ UNCHANGED <<jobsVars, database, job, sent>>

\* All were started, or the claims of those that were not are given back.
Started(r) ==
    /\ At(r, "start")
    /\ request[r].todo = {}
    /\ Go(r, IF request[r].failed = {} THEN "done" ELSE "release")
    /\ UNCHANGED <<jobsVars, database, job, sent, failures>>

Release(r) ==
    /\ At(r, "release")
    /\ row' = [e \in Enrollment |-> [row[e] EXCEPT !.claimed = @ /\ e \notin request[r].failed]]
    /\ Go(r, "done")
    /\ UNCHANGED <<jobsVars, sequence, job, sent, failures>>

\* pause: the sequence first, then the enrollments.
Pause(r) ==
    /\ Begins(r)
    /\ sequence' = "paused"
    /\ request' = [request EXCEPT ![r].at = "pauseRows"]
    /\ UNCHANGED <<jobsVars, row, job, sent, failures>>

PauseRows(r) ==
    /\ At(r, "pauseRows")
    /\ Set(With("active"), "paused")
    /\ Go(r, "done")
    /\ UNCHANGED <<jobsVars, sequence, job, sent, failures>>

\* Routes about one person read the row, and later write it.
ReadRow(r, e, next) ==
    /\ Begins(r)
    /\ request' = [request EXCEPT ![r].at = next, ![r].whom = {e},
                                  ![r].saw = row[e].status, ![r].claimed = row[e].claimed]
    /\ UNCHANGED <<jobsVars, database, job, sent, failures>>

Unenroll(r) ==
    \E e \in Enrollment : row[e].status # "none" /\ ReadRow(r, e, "unenroll")

\* A run that was paused when the row was read is woken to end.
UnenrollRow(r) ==
    /\ At(r, "unenroll")
    /\ Set(request[r].whom, "unenrolled")
    /\ IF request[r].saw = "paused" /\ request[r].claimed
       THEN request' = [request EXCEPT ![r].at = "wake", ![r].todo = request[r].whom]
       ELSE Go(r, "done")
    /\ UNCHANGED <<jobsVars, sequence, job, sent, failures>>

PauseOne(r) ==
    \E e \in With("active") : ReadRow(r, e, "pauseOne")

PauseRow(r) ==
    /\ At(r, "pauseOne")
    /\ Set(request[r].whom \cap With("active"), "paused")
    /\ Go(r, "done")
    /\ UNCHANGED <<jobsVars, sequence, job, sent, failures>>

ResumeOne(r) ==
    \E e \in With("paused") : ReadRow(r, e, "readSequence")

\* Refused while the whole sequence is paused.
ReadSequence(r) ==
    /\ At(r, "readSequence")
    /\ Go(r, IF sequence = "paused" THEN "done" ELSE "resumeOne")
    /\ UNCHANGED <<jobsVars, database, job, sent, failures>>

\* The run is woken, or started when there was none.
ResumeRow(r) ==
    /\ At(r, "resumeOne")
    /\ Set(request[r].whom \cap With("paused"), "active")
    /\ IF request[r].claimed
       THEN request' = [request EXCEPT ![r].at = "wake", ![r].todo = request[r].whom]
       ELSE Go(r, "claim")
    /\ UNCHANGED <<jobsVars, sequence, job, sent, failures>>

\* Who is enrolled while the sequence is active is started at once.
Enroll(r) ==
    /\ Begins(r)
    /\ With("none") # {}
    /\ request' = [request EXCEPT ![r].at = "insert", ![r].whom = With("none"), ![r].saw = sequence]
    /\ UNCHANGED <<jobsVars, database, job, sent, failures>>

\* On conflict do nothing: who was enrolled meanwhile stays as he is.
Insert(r) ==
    /\ At(r, "insert")
    /\ LET new == request[r].whom \cap With("none")
           active == request[r].saw = "active"
       IN /\ Set(new, IF active THEN "active" ELSE "pending")
          /\ IF active /\ new # {}
             THEN request' = [request EXCEPT ![r].at = "claim", ![r].whom = new]
             ELSE Go(r, "done")
    /\ UNCHANGED <<jobsVars, sequence, job, sent, failures>>

\* A statement fails: the rest of the request is not done, and nothing of it
\* is taken back.
RequestFails(r) ==
    /\ request[r].at \notin {"new", "wake", "start", "starting", "done"}
    /\ failures < MaxFailures
    /\ failures' = failures + 1
    /\ Go(r, "done")
    /\ UNCHANGED <<jobsVars, database, job, sent>>

-----------------------------------------------------------------------------
(* The job of an enrollment.                                               *)

Doing(t, statement) == job[t].at = statement

\* A run reads whether it may go on before the first email, before every
\* other, before a send that was put off, and before it is completed.  Two
\* statements: the sequence, then the enrollment.  What a wait before it
\* answered is not looked at.
Gate(t) ==
    /\ Doing(t, "gate")
    /\ job' = [job EXCEPT ![t].at = "gateRow", ![t].saw = sequence]
    /\ wait' = [wait EXCEPT ![t].woke = FALSE]
    /\ UNCHANGED <<runs, slot, database, request, sent, failures>>

Passed(t) ==
    [job[t] EXCEPT !.checks = 0, !.saw = "none", !.label = "step",
                   !.at = CASE job[t].label = "start" -> "load"
                            [] job[t].label = "final" -> "finalize"
                            [] OTHER -> "step"]
Stopped(t) == [NoJob(job[t].of) EXCEPT !.at = "return", !.result = "succeeded"]

\* Mutant: one recheck too many.
GateRowOnceMore(t) ==
    LET status == row[job[t].of].status
        paused == status = "paused" \/ (status = "active" /\ job[t].saw = "paused")
    IN
    /\ Doing(t, "gateRow")
    /\ job' = [job EXCEPT ![t] =
           CASE paused /\ job[t].checks <= MaxRechecks ->
                    [job[t] EXCEPT !.at = "wait", !.saw = "none", !.checks = @ + 1]
             [] ~paused /\ status = "active" /\ job[t].saw = "active" -> Passed(t)
             [] OTHER -> Stopped(t)]
    /\ UNCHANGED <<jobsVars, database, request, sent, failures>>

\* Paused by either, it waits and reads again, a number of times; anything
\* else but active ends the run.
GateRow(t) ==
    LET status == row[job[t].of].status
        paused == status = "paused" \/ (status = "active" /\ job[t].saw = "paused")
    IN
    /\ Doing(t, "gateRow")
    /\ job' = [job EXCEPT ![t] =
           CASE paused /\ job[t].checks < MaxRechecks ->
                    [job[t] EXCEPT !.at = "wait", !.saw = "none", !.checks = @ + 1]
             [] ~paused /\ status = "active" /\ job[t].saw = "active" -> Passed(t)
             [] OTHER -> Stopped(t)]
    /\ UNCHANGED <<jobsVars, database, request, sent, failures>>

\* It waits for the signal; whatever ends the wait, it reads again.
Wait(t) ==
    /\ Doing(t, "wait")
    /\ Park(t, job[t].of)
    /\ job' = [job EXCEPT ![t].at = IF wait'[t].at = "idle" THEN "gate" ELSE "wait"]
    /\ UNCHANGED <<runs, database, request, sent, failures>>

\* Mutant: only a signal ends a wait.
WaitEndsOnSignal(t) ==
    /\ Doing(t, "wait")
    /\ Woken(t)
    /\ job' = [job EXCEPT ![t].at = "gate"]
    /\ UNCHANGED <<runs, database, request, sent, failures>>

WaitEnds(t) ==
    /\ Doing(t, "wait")
    /\ Woken(t) \/ TimeOut(t, job[t].of)
    /\ job' = [job EXCEPT ![t].at = "gate"]
    /\ UNCHANGED <<runs, database, request, sent, failures>>

WaitElapses(t) ==
    /\ Elapse(t)
    /\ UNCHANGED <<runs, database, request, job, sent, failures>>

\* The definition is loaded, if the sequence is active, and after that the
\* enrollment is; otherwise the run ends.
Load(t) ==
    /\ Doing(t, "load")
    /\ job' = [job EXCEPT ![t] = IF sequence = "active" THEN [@ EXCEPT !.at = "loadRow"]
                                 ELSE Stopped(t)]
    /\ UNCHANGED <<jobsVars, database, request, sent, failures>>

LoadRow(t) ==
    /\ Doing(t, "loadRow")
    /\ job' = [job EXCEPT ![t] = IF row[@.of].status = "active" THEN [@ EXCEPT !.at = "step"]
                                 ELSE Stopped(t)]
    /\ UNCHANGED <<jobsVars, database, request, sent, failures>>

\* Mutant: the gate is passed once and not read again after a delay.
NextUngated(t) ==
    [job[t] EXCEPT !.step = @ + 1, !.deferrals = 0,
                   !.at = IF job[t].step = Steps THEN "gate" ELSE "step",
                   !.label = IF job[t].step = Steps THEN "final" ELSE "step"]

\* On to the next email, past its gate.
NextStep(t) ==
    [job[t] EXCEPT !.step = @ + 1, !.deferrals = 0, !.at = "gate",
                   !.label = IF job[t].step = Steps THEN "final" ELSE "step"]

Sends(t) == sent' = [sent EXCEPT ![job[t].of][job[t].step] = @ + 1]

\* The email goes out, and its record says so.
Send(t) ==
    /\ Doing(t, "step")
    /\ Sends(t)
    /\ job' = [job EXCEPT ![t] = NextStep(t)]
    /\ UNCHANGED <<jobsVars, database, request, failures>>

\* The email went out, but neither that nor a failure could be recorded: the
\* step is tried again.
SendUnrecorded(t) ==
    /\ Doing(t, "step")
    /\ failures < MaxFailures
    /\ failures' = failures + 1
    /\ Sends(t)
    /\ UNCHANGED <<jobsVars, database, request, job>>

\* Its condition is not met, or it failed and the run goes on regardless.
Skip(t) ==
    /\ Doing(t, "step")
    /\ job' = [job EXCEPT ![t] = NextStep(t)]
    /\ UNCHANGED <<jobsVars, database, request, sent, failures>>

\* Sending is limited: the run sleeps and reads the gate again.
Defer(t) ==
    /\ Doing(t, "step")
    /\ job[t].deferrals < MaxDeferrals
    /\ job' = [job EXCEPT ![t].at = "gate", ![t].label = "step", ![t].deferrals = @ + 1]
    /\ UNCHANGED <<jobsVars, database, request, sent, failures>>

\* The step failed; the enrollment is marked after the step and the run.
StepFails(t) ==
    /\ Doing(t, "step")
    /\ failures < MaxFailures
    /\ failures' = failures + 1
    /\ job' = [job EXCEPT ![t].at = "fail"]
    /\ UNCHANGED <<jobsVars, database, request, sent>>

\* Whatever the status is by now; that it could not be written is only logged.
Ends(t, statement, status) ==
    /\ Doing(t, statement)
    /\ \/ Set({job[t].of}, status) /\ UNCHANGED failures
       \/ failures < MaxFailures /\ failures' = failures + 1 /\ UNCHANGED row
    /\ job' = [job EXCEPT ![t] = Stopped(t)]
    /\ UNCHANGED <<jobsVars, sequence, request, sent>>

RecordFailure(t) == Ends(t, "fail", "failed")
Finalize(t) == Ends(t, "finalize", "completed")

\* A step whose attempts are spent fails the job.
GiveUp(t) ==
    /\ job[t].at \in {"gate", "gateRow", "load", "loadRow", "step", "fail", "finalize"}
    /\ failures < MaxFailures
    /\ failures' = failures + 1
    /\ job' = [job EXCEPT ![t] = [NoJob(@.of) EXCEPT !.at = "return", !.result = "failed"]]
    /\ UNCHANGED <<jobsVars, database, request, sent>>

\* The task records how the job ended.
Return(t) ==
    /\ Doing(t, "return")
    /\ Remember(job[t].of, job[t].result)
    /\ job' = [job EXCEPT ![t] = NoJob(@.of)]
    /\ UNCHANGED <<slot, wait, database, request, sent, failures>>

\* From its read a run is at its wait within the hour a signal is kept.
HourPasses(e) ==
    /\ Expire(e)
    /\ \A t \in Task : job[t].of = e => job[t].at \notin {"gateRow", "wait"}
    /\ UNCHANGED <<runs, database, request, job, sent, failures>>

\* The process ends, and with it every request and every job.
Restart ==
    /\ failures < MaxFailures
    /\ failures' = failures + 1
    /\ ForgetJobs
    /\ request' = [r \in Request |-> IF At(r, "new") THEN request[r]
                                     ELSE [NewRequest EXCEPT !.at = "done"]]
    /\ job' = [t \in Task |-> NoJob(job[t].of)]
    /\ UNCHANGED <<database, sent>>

-----------------------------------------------------------------------------

\* What the properties remember: emails that went out although they were to
\* be held, and signals the run has not begun to read the database after.
Tell ==
    /\ resent' = resent + IF sent' # sent /\ failures' # failures THEN 1 ELSE 0
    /\ late' = [e \in Enrollment |->
           IF ~Held(e)' THEN 0 ELSE late[e] + IF sent'[e] # sent[e] THEN 1 ELSE 0]
    /\ unread' = [e \in Enrollment |->
           \/ /\ failures' = failures
              /\ \E r \in Request : At(r, "wake") /\ e \in request[r].todo \ request'[r].todo
           \/ /\ unread[e]
              /\ ~\E t \in Task : /\ job[t].of = e /\ Doing(t, "gate")
                                  /\ job'[t].at = "gateRow"]

RequestBegins(r) ==
    \/ Launch(r) \/ Resume(r) \/ Start(r) \/ Pause(r) \/ Enroll(r)
    \/ Unenroll(r) \/ PauseOne(r) \/ ResumeOne(r)

RequestGoesOn(r) ==
    \/ Admit(r) \/ Unpause(r) \/ Wake(r) \/ Select(r) \/ Claim(r)
    \/ LookUp(r) \/ Spawn(r) \/ StartFails(r) \/ Started(r) \/ Release(r)
    \/ PauseRows(r) \/ UnenrollRow(r) \/ PauseRow(r)
    \/ ReadSequence(r) \/ ResumeRow(r) \/ Insert(r)
    \/ RequestFails(r)

JobGoesOn(t) ==
    \/ Gate(t) \/ GateRow(t) \/ Wait(t) \/ WaitElapses(t) \/ WaitEnds(t)
    \/ Load(t) \/ LoadRow(t)
    \/ Send(t) \/ SendUnrecorded(t) \/ Skip(t) \/ Defer(t) \/ StepFails(t)
    \/ RecordFailure(t) \/ Finalize(t) \/ GiveUp(t) \/ Return(t)

Step ==
    \/ \E r \in Request : RequestBegins(r) \/ RequestGoesOn(r)
    \/ \E t \in Task : JobGoesOn(t)
    \/ \E e \in Enrollment : HourPasses(e)
    \/ Restart

Next == Step /\ Tell

\* The server goes on with what it has begun: requests, jobs and their timers.
\* No request and no job is favoured, and none can take all the time there is:
\* each has an end.
Progress ==
    /\ \/ \E r \in Request : RequestGoesOn(r)
       \/ \E t \in Task : JobGoesOn(t)
    /\ Tell

Spec == Init /\ [][Next]_vars /\ WF_vars(Progress)

-----------------------------------------------------------------------------

\* There is one run for an enrollment at a time, although start() looks a key
\* up and records it under two locks: the claim lets one request through
\* ("a retry / concurrent launch / double click can never trigger a second
\* run", crm-api/src/routes/sequences/index.ts).
OneRun ==
    \A t, u \in Task :
        job[t].of = job[u].of /\ job[t].at # "idle" /\ job[u].at # "idle" => t = u

\* No email goes out twice, whatever is paused, resumed, launched again or
\* restarted: only a send that could not be recorded is repeated.
EmailsOnce ==
    \A e \in Enrollment, i \in 1 .. Steps : sent[e][i] <= 1 + resent

\* Once a pause is in both tables, or the person is unenrolled, at most the
\* email goes out whose gate was passed before.
HeldEmails == \A e \in Enrollment : late[e] <= 1 + resent

\* A signal is kept only while no wait is parked (the comment on
\* SignalSlot.pending_since).
KeptForNobody == \A k \in Key : slot[k].kept => slot[k].parked = NoTask

\* A run does not sleep through a signal sent since it began to read: the
\* signal ends its wait, or keeps it from waiting ("a signal sent while the
\* job is between its database read and its wait is not lost", jobs.rs).
HintNotLost ==
    \A t \in Task :
        Doing(t, "wait") /\ unread[job[t].of] =>
            \/ slot[job[t].of].kept
            \/ wait[t].shot # "empty"

\* A wait that was signalled says so, also when its time was up just then.
SignalledIsNoTimeout ==
    [][\A t \in Task :
          wait[t].shot = "sent" /\ wait'[t].at = "idle" /\ failures' = failures
              => wait'[t].woke]_vars

\* A run that may go on goes on until it has ended: it is not left parked.
RunsGoOn ==
    \A t \in Task : []<>(Doing(t, "idle") \/ ~Runnable(job[t].of))

\* An enrollment that is active, in an active sequence, gets somewhere.
EnrollmentsGoOn == \A e \in Enrollment : Runnable(e) ~> ~Runnable(e)

=============================================================================
