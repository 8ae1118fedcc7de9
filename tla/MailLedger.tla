------------------------------ MODULE MailLedger ------------------------------
(***************************************************************************)
(* The limits on outgoing mail (packages/domains/mail/src/outbound).  Every *)
(* send first reserves its recipients with the workspace's ledger, a       *)
(* Durable Object; the ledger admits it when the recipients counted so far *)
(* and those reserved leave room.  After the transmission the send is      *)
(* committed, and counted, or released (guard.ts).  Reservations are kept  *)
(* in memory and for two minutes; the counts, by clock hour, are stored.   *)
(* From its alarm the ledger adds what it counted today to the budget of   *)
(* the whole platform, another object (ledger.ts).                         *)
(*                                                                         *)
(* The policy is enforced and its limits do not change.  The other reasons *)
(* to refuse a send (a hold, first contacts, templates, the month, the     *)
(* platform's budget) are one nondeterministic refusal: they only make     *)
(* fewer sends.  Left out: risk scores, reviews and cases.                 *)
(***************************************************************************)
EXTENDS Naturals, FiniteSets, Functions

CONSTANTS
    Message,          \* what is sent, each once
    Sender,           \* From addresses
    System,           \* WeldSuite's own address: no limit for the sender
    RecipientsOf,     \* how many each is for
    SenderPerHour, SenderPerDay, RepliesPerDay, WorkspacePerDay,  \* the policy's limits
    DayHours,         \* the hours of a day
    Hours,            \* the hours the clock runs for
    CountedBefore,    \* the most that one sender's earlier mail was counted as
    MaxFaults         \* calls that get lost, restarts of the ledger

ASSUME SystemIsSender == System \in Sender
ASSUME FiniteMail == IsFiniteSet(Message) /\ IsFiniteSet(Sender)
ASSUME LedgerBounds ==
    /\ RecipientsOf \in [Message -> Nat \ {0}] /\ SenderPerHour \in Nat /\ SenderPerDay \in Nat
    /\ RepliesPerDay \in Nat /\ WorkspacePerDay \in Nat
    /\ DayHours \in Nat \ {0} /\ Hours \in Nat /\ MaxFaults \in Nat
    /\ CountedBefore \in 0 .. WorkspacePerDay
    /\ CountedBefore <= SenderPerHour /\ CountedBefore <= SenderPerDay

VARIABLES
    hour,             \* the clock
    counts,           \* the ledger's counts, by hour and sender: stored
    reserved,         \* the reservations: in memory
    due,              \* those whose two minutes are up, not looked at yet
    message,          \* the sends: where the guard is with each, whom it was told to be reached,
                      \* and whether a fault or the two minutes took it from the ledger (slipped)
    push,             \* the call that adds to the platform's budget
    pushed,           \* what the ledger has stored of that
    platform,         \* the platform's budget
    faults,
    again             \* recipients added to the platform's budget a second time

ledger == <<counts, reserved, due>>
budget == <<push, pushed, platform, again>>
vars == <<hour, ledger, message, budget, faults>>

Hour == 0 .. Hours
Day(h) == h \div DayHours

TypeOK ==
    /\ hour \in Hour
    /\ counts \in [Hour -> [Sender -> [all : Nat, replies : Nat]]]
    /\ due \subseteq reserved
    /\ reserved \subseteq [of : Message, sender : Sender, reply : BOOLEAN, n : Nat]
    /\ message \in [Message ->
           [at : {"new", "sending", "sent", "done"}, held : BOOLEAN, slipped : BOOLEAN,
            sender : Sender, reply : BOOLEAN, n : Nat, reached : Nat, sentAt : Hour]]
    /\ \A m \in Message :
           message[m].n <= RecipientsOf[m] /\ message[m].reached <= RecipientsOf[m]
    /\ push \in [at : {"idle", "called", "added"}, day : Nat, recipients : Nat, delta : Nat]
    /\ pushed \in [day : Nat, recipients : Nat]
    /\ platform \in [day : Nat, recipients : Nat]
    /\ faults \in 0 .. MaxFaults
    /\ again \in Nat

Idle == [at |-> "idle", day |-> 0, recipients |-> 0, delta |-> 0]

Unsent == [at |-> "new", held |-> FALSE, slipped |-> FALSE, sender |-> System,
           reply |-> FALSE, n |-> 0, reached |-> 0, sentAt |-> 0]

Over == [Unsent EXCEPT !.at = "done"]

Init ==
    /\ hour = 0
    /\ \E t \in Sender, k \in 0 .. CountedBefore :
           counts = [h \in Hour |-> [s \in Sender |->
               [all |-> IF h = 0 /\ s = t THEN k ELSE 0, replies |-> 0]]]
    /\ reserved = {}
    /\ due = {}
    /\ message = [m \in Message |-> Unsent]
    /\ push = Idle
    /\ pushed = [day |-> 0, recipients |-> 0]
    /\ platform = [day |-> 0, recipients |-> 0]
    /\ faults = 0
    /\ again = 0

-----------------------------------------------------------------------------
(* The ledger's windows.                                                   *)

\* The last day is the last hours, the current one included, not the date.
LastDay == {h \in Hour : h <= hour /\ hour < h + DayHours}

All(s, hs) == SumFunction([h \in hs |-> counts[h][s].all])
Replies(s, hs) == SumFunction([h \in hs |-> counts[h][s].replies])
Workspace(hs) == SumFunction([s \in Sender |-> All(s, hs)])
Recipients(reservations) == SumFunction([r \in reservations |-> r.n])
By(s) == {r \in reserved : r.sender = s}
Answers == {r \in reserved : r.reply}

\* Reservations count against every window, until their two minutes are up.
Live == reserved \ due

WithinReplies(s, n) ==
    Replies(s, LastDay) + Recipients(Live \cap By(s) \cap Answers) + n <= RepliesPerDay

SenderHasRoom(s, n) ==
    LET pending == Recipients(Live \cap By(s)) IN
    /\ All(s, {hour}) + pending + n <= SenderPerHour
    /\ All(s, LastDay) + pending + n <= SenderPerDay

WorkspaceHasRoom(n) == Workspace(LastDay) + Recipients(Live) + n <= WorkspacePerDay

\* Answers go out up to their own limit, whatever else was sent; WeldSuite's
\* own mail is limited for the workspace only.
Allowed(s, reply, n) ==
    IF s = System THEN WorkspaceHasRoom(n)
    ELSE \/ reply /\ WithinReplies(s, n)
         \/ SenderHasRoom(s, n) /\ WorkspaceHasRoom(n)

-----------------------------------------------------------------------------
(* The guard around a send: check, transmit, commit or release.            *)

\* WeldSuite's own mail is no reply.
Asked(m, s, reply) ==
    /\ message[m].at = "new"
    /\ s = System => ~reply

Reservation(m, s, reply) == [of |-> m, sender |-> s, reply |-> reply, n |-> RecipientsOf[m]]
Held(m) == {r \in reserved : r.of = m}

\* Mutant: reservations whose time is up are passed over and not dropped.
ReserveUnswept(m, s, reply) ==
    /\ Allowed(s, reply, RecipientsOf[m])
    /\ reserved' = reserved \cup {Reservation(m, s, reply)}
    /\ UNCHANGED due

\* Whoever asks, the reservations whose time is up are dropped.
Reserve(m, s, reply) ==
    /\ Allowed(s, reply, RecipientsOf[m])
    /\ reserved' = Live \cup {Reservation(m, s, reply)}
    /\ due' = {}

\* Of a send that is over only what it reached in the last day is told apart.
Settle(m, slipped) ==
    message' = [message EXCEPT ![m] =
        IF slipped \/ @.reached = 0 \/ @.sentAt \notin LastDay THEN Over
        ELSE [@ EXCEPT !.at = "done", !.held = FALSE, !.n = 0]]

Sending(m, s, reply, held) ==
    message' = [message EXCEPT ![m] = [@ EXCEPT !.at = "sending", !.held = held, !.sender = s,
                                                !.slipped = ~held, !.reply = reply,
                                                !.n = RecipientsOf[m]]]

Check(m, s, reply) ==
    /\ Asked(m, s, reply)
    /\ Reserve(m, s, reply)
    /\ Sending(m, s, reply, TRUE)
    /\ UNCHANGED <<hour, counts, budget, faults>>

\* For a limit above, or for another reason, before or after the windows were
\* looked at.
Refuse(m) ==
    /\ message[m].at = "new"
    /\ reserved' \in {reserved, Live}
    /\ due' = due \cap reserved'
    /\ Settle(m, message[m].slipped)
    /\ UNCHANGED <<hour, counts, budget, faults>>

\* The ledger cannot be reached, or its answer gets lost: the mail goes out.
FailOpen(m, s, reply) ==
    /\ Asked(m, s, reply)
    /\ faults < MaxFaults
    /\ faults' = faults + 1
    /\ Reserve(m, s, reply) \/ UNCHANGED <<reserved, due>>
    /\ Sending(m, s, reply, FALSE)
    /\ UNCHANGED <<hour, counts, budget>>

\* All recipients are reached, some, or none; and the transport says so, or it
\* throws when some were reached of whom it does not tell.
Transmit(m) ==
    /\ message[m].at = "sending"
    /\ \E k \in 0 .. message[m].n, slips \in BOOLEAN :
           /\ message' = [message EXCEPT ![m].at = "sent", ![m].reached = k, ![m].sentAt = hour,
                                          ![m].slipped = @ \/ slips]
           /\ slips => k < message[m].n /\ faults < MaxFaults
           /\ faults' = IF slips THEN faults + 1 ELSE faults
    /\ UNCHANGED <<hour, ledger, budget>>

\* Recipients reached are counted in the hour of the commit.
CountSend(m) ==
    LET k == message[m].reached IN
    counts' = [counts EXCEPT ![hour][message[m].sender] =
                  [all |-> @.all + k, replies |-> @.replies + IF message[m].reply THEN k ELSE 0]]

\* Mutant: a commit leaves the end of the two minutes behind.
CommitLeavesDue(m) ==
    /\ message[m].at = "sent" /\ message[m].held /\ message[m].reached > 0
    /\ IF Held(m) # {} THEN CountSend(m) ELSE UNCHANGED counts
    /\ reserved' = reserved \ Held(m)
    /\ Settle(m, message[m].slipped)
    /\ UNCHANGED <<hour, due, budget, faults>>

\* A reservation that is gone is not counted any more.
Commit(m) ==
    /\ message[m].at = "sent" /\ message[m].held /\ message[m].reached > 0
    /\ IF Held(m) # {} THEN CountSend(m) ELSE UNCHANGED counts
    /\ reserved' = reserved \ Held(m)
    /\ due' = due \ Held(m)
    /\ Settle(m, message[m].slipped)
    /\ UNCHANGED <<hour, budget, faults>>

\* Mutant: a send that failed for some recipients is released.
ReleasePartial(m) ==
    /\ message[m].at = "sent" /\ message[m].held /\ message[m].reached < message[m].n
    /\ reserved' = reserved \ Held(m)
    /\ due' = due \ Held(m)
    /\ Settle(m, message[m].slipped)
    /\ UNCHANGED <<hour, counts, budget, faults>>

Release(m) ==
    /\ message[m].at = "sent" /\ message[m].held /\ message[m].reached = 0
    /\ reserved' = reserved \ Held(m)
    /\ due' = due \ Held(m)
    /\ Settle(m, message[m].slipped)
    /\ UNCHANGED <<hour, counts, budget, faults>>

\* Sent without the ledger, which hears nothing of it.
SettleOpen(m) ==
    /\ message[m].at = "sent" /\ ~message[m].held
    /\ Settle(m, message[m].slipped)
    /\ UNCHANGED <<hour, ledger, budget, faults>>

\* The call fails, which the guard only logs, or the worker ends before it.
SettleLost(m) ==
    /\ message[m].at = "sent" /\ message[m].held
    /\ faults < MaxFaults
    /\ faults' = faults + 1
    /\ Settle(m, TRUE)
    /\ UNCHANGED <<hour, ledger, budget>>

-----------------------------------------------------------------------------
(* Time, and the ledger's restart.                                         *)

Slipped(ms) ==
    [m \in Message |-> [message[m] EXCEPT !.slipped = @ \/ (m \in ms /\ message[m].at # "done")]]

\* The two minutes of a reservation are up.
Lapse(m) ==
    /\ Held(m) \cap Live # {}
    /\ due' = due \cup Held(m)
    /\ message' = Slipped({m})
    /\ UNCHANGED <<hour, counts, reserved, budget, faults>>

Tick ==
    /\ hour < Hours
    /\ hour' = hour + 1
    /\ message' = [m \in Message |->
           IF message[m].at = "done" /\ message[m].sentAt \notin LastDay' THEN Over ELSE message[m]]
    /\ UNCHANGED <<ledger, budget, faults>>

\* The ledger starts again with what it stored.
Restart ==
    /\ faults < MaxFaults
    /\ faults' = faults + 1
    /\ message' = Slipped({r.of : r \in reserved})
    /\ reserved' = {}
    /\ due' = {}
    /\ push' = Idle
    /\ again' = again + IF push.at = "added" /\ push.day = platform.day THEN push.delta ELSE 0
    /\ UNCHANGED <<hour, counts, pushed, platform>>

-----------------------------------------------------------------------------
(* The platform's budget.                                                  *)

Today == Workspace({h \in Hour : h <= hour /\ Day(h) = Day(hour)})

\* Mutant: what is pushed is stored before the budget has it.
PushStoredFirst ==
    /\ push.at = "idle"
    /\ LET delta == Today - IF pushed.day = Day(hour) THEN pushed.recipients ELSE 0 IN
       /\ delta > 0
       /\ push' = [at |-> "called", day |-> Day(hour), recipients |-> Today, delta |-> delta]
    /\ pushed' = [day |-> Day(hour), recipients |-> Today]
    /\ UNCHANGED <<hour, ledger, message, platform, again, faults>>

\* The alarm pushes what was counted today beyond what it pushed before.
Push ==
    /\ push.at = "idle"
    /\ LET delta == Today - IF pushed.day = Day(hour) THEN pushed.recipients ELSE 0 IN
       /\ delta > 0
       /\ push' = [at |-> "called", day |-> Day(hour), recipients |-> Today, delta |-> delta]
    /\ UNCHANGED <<hour, ledger, message, pushed, platform, again, faults>>

\* The budget is that of the day; an addition for another day is ignored.
Add ==
    /\ push.at = "called"
    /\ LET old == IF platform.day = Day(hour) THEN platform.recipients ELSE 0 IN
       platform' = [day |-> Day(hour),
                    recipients |-> old + IF push.day = Day(hour) THEN push.delta ELSE 0]
    /\ again' = IF platform.day = Day(hour) THEN again ELSE 0
    /\ push' = [push EXCEPT !.at = "added"]
    /\ UNCHANGED <<hour, ledger, message, pushed, faults>>

Pushed ==
    /\ push.at = "added"
    /\ pushed' = [day |-> push.day, recipients |-> push.recipients]
    /\ push' = Idle
    /\ UNCHANGED <<hour, ledger, message, platform, again, faults>>

\* The call fails, or only its answer does: the next alarm pushes again.
PushFails ==
    /\ push.at # "idle"
    /\ faults < MaxFaults
    /\ faults' = faults + 1
    /\ again' = again + IF push.at = "added" /\ push.day = platform.day THEN push.delta ELSE 0
    /\ push' = Idle
    /\ UNCHANGED <<hour, ledger, message, pushed, platform>>

-----------------------------------------------------------------------------

Next ==
    \/ \E m \in Message :
           \/ \E s \in Sender, reply \in BOOLEAN :
                  Check(m, s, reply) \/ FailOpen(m, s, reply)
           \/ Refuse(m) \/ Transmit(m) \/ Commit(m) \/ Release(m)
           \/ SettleOpen(m) \/ SettleLost(m) \/ Lapse(m)
    \/ Tick \/ Restart
    \/ Push \/ Add \/ Pushed \/ PushFails

Spec == Init /\ [][Next]_vars

-----------------------------------------------------------------------------

\* The larger of two limits.
Larger(a, b) == IF a > b THEN a ELSE b

\* What was counted for conversations a sender began, and what may still be.
Begun(s, hs) == (All(s, hs) - Replies(s, hs)) + Recipients(By(s) \ Answers)

\* What the ledger counted and may still have to count stays within the
\* limits, whoever reserves while others send, commit late, or reach only
\* some: conversations begun within those of the sender and of the
\* workspace, answers within their own limit or the sender's.
WithinLimits ==
    /\ SumFunction([s \in Sender |-> Begun(s, LastDay)]) <= WorkspacePerDay
    /\ \A s \in Sender \ {System} :
           /\ Begun(s, {hour}) <= SenderPerHour
           /\ Begun(s, LastDay) <= SenderPerDay
           /\ Replies(s, LastDay) + Recipients(By(s) \cap Answers)
                  <= Larger(RepliesPerDay, SenderPerDay)

\* The conversations that neither a fault nor the two minutes took from the
\* ledger, and whom they reached in some hours or are on their way to.
Kept == {m \in Message : ~message[m].reply /\ ~message[m].slipped}
KeptBy(s) == {m \in Kept : message[m].sender = s}
To(m, hs) == IF message[m].at = "sending" THEN message[m].n
             ELSE IF message[m].sentAt \in hs THEN message[m].reached ELSE 0
Went(ms, hs) == SumFunction([m \in ms |-> To(m, hs)])

\* The mail that really went out in the last day, or is on its way, began no
\* more conversations than the workspace may: none slips through but those
\* that took more than two minutes, or met a fault, while they were sent.
SentWithinLimits ==
    /\ Went(Kept, LastDay) <= WorkspacePerDay
    /\ \A s \in Sender \ {System} :
           /\ Went(KeptBy(s), LastDay) <= SenderPerDay
           /\ Went(KeptBy(s), {hour}) <= SenderPerHour

\* The platform's budget has all that the ledger stored as pushed today, and
\* nothing the ledger did not count but what was added twice.
BudgetAgrees ==
    platform.day = Day(hour) =>
        /\ pushed.day = platform.day => platform.recipients >= pushed.recipients
        /\ platform.recipients <= Today + again

=============================================================================
