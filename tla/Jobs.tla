--------------------------------- MODULE Jobs ---------------------------------
(***************************************************************************)
(* The jobs of the Rust server when they run in its own process            *)
(* (rust/crates/ports/src/in_process_jobs.rs): which keys have been run,   *)
(* and the table that carries signals to the waits of running jobs.        *)
(*                                                                         *)
(* The operators are what is done under one lock, and each is an action on *)
(* the three variables; who calls them, and what else happens in the same  *)
(* step, is for the module that extends this one.  A slot is that of the   *)
(* only signal the jobs of a key wait for.  Left out: the retries of a     *)
(* step, the delay of a start (both only take time), and sweeping the      *)
(* slots, which removes what counts as absent already (a signal kept past  *)
(* its hour is none; a wait is dropped only together with the process).    *)
(***************************************************************************)
EXTENDS Naturals

CONSTANTS
    Key,              \* job keys
    Task,             \* tasks of the process that may run a job
    NoTask

ASSUME NoTaskIsNoTask == NoTask \notin Task

VARIABLES
    runs,             \* what is remembered of each key
    slot,             \* the wait parked on a key's signal, or a signal kept for the next
    wait              \* the waits: where each is, its oneshot, and what the last one answered

jobsVars == <<runs, slot, wait>>

RunState == {"none", "running", "succeeded", "failed"}
EmptySlot == [parked |-> NoTask, kept |-> FALSE]
NoWait == [at |-> "idle", shot |-> "empty", woke |-> FALSE]

JobsTypeOK ==
    /\ runs \in [Key -> RunState]
    /\ slot \in [Key -> [parked : Task \cup {NoTask}, kept : BOOLEAN]]
    /\ wait \in [Task -> [at : {"idle", "parked", "elapsed"},
                          shot : {"empty", "sent", "closed"},
                          woke : BOOLEAN]]

JobsInit ==
    /\ runs = [k \in Key |-> "none"]
    /\ slot = [k \in Key |-> EmptySlot]
    /\ wait = [t \in Task |-> NoWait]

-----------------------------------------------------------------------------
(* Runs.                                                                   *)

\* start() finds the key running or done, and does nothing.
AlreadyRun(k) == runs[k] \in {"running", "succeeded"}

\* A full table forgets every run that has ended before it takes another;
\* the keys that fill it are those of every job in the process.
Remember(k, state) ==
    \E full \in BOOLEAN :
        runs' = [j \in Key |-> CASE j = k -> state
                                 [] j # k /\ full /\ runs[j] # "running" -> "none"
                                 [] OTHER -> runs[j]]

-----------------------------------------------------------------------------
(* Signals.                                                                *)

\* Mutant: a signal that finds no wait is dropped.
DeliverOrDrop(k) ==
    \/ /\ slot[k].parked # NoTask
       /\ wait' = [wait EXCEPT ![slot[k].parked].shot = "sent"]
       /\ slot' = [slot EXCEPT ![k] = EmptySlot]
    \/ slot[k].parked = NoTask /\ UNCHANGED <<slot, wait>>

\* A signal ends the wait that is parked, or is kept for the next one.
Deliver(k) ==
    \/ /\ slot[k].parked # NoTask
       /\ wait' = [wait EXCEPT ![slot[k].parked].shot = "sent"]
       /\ slot' = [slot EXCEPT ![k] = EmptySlot]
    \/ /\ slot[k].parked = NoTask
       /\ slot' = [slot EXCEPT ![k].kept = TRUE]
       /\ UNCHANGED wait

\* A kept signal is kept for an hour.
Expire(k) ==
    /\ slot[k].kept
    /\ slot' = [slot EXCEPT ![k].kept = FALSE]
    /\ UNCHANGED wait

\* Mutant: a signal kept from before is left for a later wait.
ParkAnyway(t, k) ==
    /\ wait[t].at = "idle"
    /\ slot' = [slot EXCEPT ![k].parked = t]
    /\ wait' = [u \in Task |->
           CASE u = t -> [NoWait EXCEPT !.at = "parked"]
             [] u # t /\ u = slot[k].parked -> [wait[u] EXCEPT !.shot = "closed"]
             [] OTHER -> wait[u]]

\* A wait begins: a kept signal answers it at once; otherwise it is parked,
\* in place of an older one, whose oneshot closes.
Park(t, k) ==
    /\ wait[t].at = "idle"
    /\ \/ /\ slot[k].kept
          /\ slot' = [slot EXCEPT ![k].kept = FALSE]
          /\ wait' = [wait EXCEPT ![t] = [NoWait EXCEPT !.woke = TRUE]]
       \/ /\ ~slot[k].kept
          /\ slot' = [slot EXCEPT ![k].parked = t]
          /\ wait' = [u \in Task |->
                 CASE u = t -> [NoWait EXCEPT !.at = "parked"]
                   [] u # t /\ u = slot[k].parked -> [wait[u] EXCEPT !.shot = "closed"]
                   [] OTHER -> wait[u]]

\* The oneshot of a wait fired, or closed because another took its place.
Woken(t) ==
    /\ wait[t].at = "parked"
    /\ wait[t].shot # "empty"
    /\ wait' = [wait EXCEPT ![t] = [NoWait EXCEPT !.woke = wait[t].shot = "sent"]]
    /\ UNCHANGED slot

\* The time of a wait is up.  The table is not locked yet.
Elapse(t) ==
    /\ wait[t].at = "parked"
    /\ wait[t].shot = "empty"
    /\ wait' = [wait EXCEPT ![t].at = "elapsed"]
    /\ UNCHANGED slot

\* Mutant: a wait that was no longer parked is taken for one that timed out.
TimeOutForgetful(t, k) ==
    /\ wait[t].at = "elapsed"
    /\ slot' = [slot EXCEPT ![k].parked = IF @ = t THEN NoTask ELSE @]
    /\ wait' = [wait EXCEPT ![t] = NoWait]

\* The wait is taken out of the table.  When it is no longer there, a signal
\* that took it in the meantime has reached its oneshot.
TimeOut(t, k) ==
    /\ wait[t].at = "elapsed"
    /\ IF slot[k].parked = t
       THEN /\ slot' = [slot EXCEPT ![k].parked = NoTask]
            /\ wait' = [wait EXCEPT ![t] = NoWait]
       ELSE /\ wait' = [wait EXCEPT ![t] = [NoWait EXCEPT !.woke = wait[t].shot = "sent"]]
            /\ UNCHANGED slot

\* Nothing of this outlives the process.
ForgetJobs ==
    /\ runs' = [k \in Key |-> "none"]
    /\ slot' = [k \in Key |-> EmptySlot]
    /\ wait' = [t \in Task |-> NoWait]

=============================================================================
