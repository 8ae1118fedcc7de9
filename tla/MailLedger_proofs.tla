--------------------------- MODULE MailLedger_proofs ---------------------------
(***************************************************************************)
(* That the limits hold, for any number of senders, messages and hours.    *)
(*                                                                         *)
(* The inductive invariant is BookState (a type, Counted and Booked) with  *)
(* InLimits.  Counted: no hour to come has anything, and of what was       *)
(* counted the answers are a part.  Booked: a reservation belongs to one   *)
(* send under way that nothing took from the ledger, and has its count.    *)
(* InLimits are the limits over sums of counts and reservations, the form  *)
(* in which a commit trades one for the other and a tick only shortens     *)
(* what is summed.                                                         *)
(*                                                                         *)
(* For the mail itself, Traced adds the hour each send was counted in: what *)
(* was reached in some hours is at most what was counted in them.  For the *)
(* platform's budget, Accounts adds what of today was pushed, added and    *)
(* stored.                                                                 *)
(***************************************************************************)
EXTENDS MailLedger, InductionFacts

LEMMA HoursFinite == IsFiniteSet(Hour) /\ \A h \in Hour : h \in Nat
<1>1. Hours \in Nat
    BY LedgerBounds
<1>2. QED
    BY <1>1, FS_Interval DEF Hour

-----------------------------------------------------------------------------
(* The reservations there can be, and what they are for.                   *)

Reservations ==
    {Reservation(m, s, reply) : m \in Message, s \in Sender, reply \in BOOLEAN}

LEMMA ReservationFields ==
    ASSUME NEW r \in Reservations
    PROVE  /\ r.of \in Message /\ r.sender \in Sender /\ r.reply \in BOOLEAN
           /\ r.n = RecipientsOf[r.of] /\ r.n \in Nat
           /\ r = Reservation(r.of, r.sender, r.reply)
BY LedgerBounds DEF Reservations, Reservation

LEMMA NewReservation ==
    ASSUME NEW m \in Message, NEW s \in Sender, NEW reply \in BOOLEAN
    PROVE  /\ Reservation(m, s, reply) \in Reservations
           /\ Reservation(m, s, reply).of = m
           /\ Reservation(m, s, reply).sender = s
           /\ Reservation(m, s, reply).reply = reply
           /\ Reservation(m, s, reply).n = RecipientsOf[m]
           /\ RecipientsOf[m] \in Nat
BY LedgerBounds DEF Reservations, Reservation

LEMMA ReservationsFinite == IsFiniteSet(Reservations)
<1> DEFINE U == (Message \X Sender) \X BOOLEAN
           f == [x \in U |-> Reservation(x[1][1], x[1][2], x[2])]
<1>1. IsFiniteSet(BOOLEAN)
    <2>1. BOOLEAN = {TRUE} \cup {FALSE}
        OBVIOUS
    <2>2. IsFiniteSet({TRUE}) /\ IsFiniteSet({FALSE})
        BY FS_Singleton
    <2>3. IsFiniteSet({TRUE} \cup {FALSE})
        BY <2>2, FS_Union
    <2>4. QED
        BY <2>1, <2>3, Zenon
<1>2. IsFiniteSet(U)
    BY <1>1, FiniteMail, FS_Product
<1>3. f \in Surjection(U, Reservations)
    <2>1. f \in [U -> Reservations]
        BY DEF Reservations
    <2>2. ASSUME NEW r \in Reservations PROVE \E x \in U : f[x] = r
        <3>1. PICK m \in Message, s \in Sender, reply \in BOOLEAN :
                  r = Reservation(m, s, reply)
            BY DEF Reservations
        <3>2. <<<<m, s>>, reply>> \in U /\ f[<<<<m, s>>, reply>>] = r
            BY <3>1
        <3>3. QED
            BY <3>2
    <2>3. QED
        BY <2>1, <2>2 DEF Surjection
<1>4. QED
    BY <1>2, <1>3, FS_Surjection

Sizes == [r \in Reservations |-> r.n]

LEMMA SizesAreNumbers == Addends(Sizes, Reservations)
BY ReservationFields DEF Addends, Sizes

LEMMA RecipientsIs ==
    ASSUME NEW R \in SUBSET Reservations
    PROVE  /\ Recipients(R) = SumFunctionOnSet(Sizes, R)
           /\ Recipients(R) \in Nat
<1> DEFINE g == [r \in R |-> r.n]
<1>1. DOMAIN g = R /\ \A r \in R : g[r] = Sizes[r]
    BY DEF Sizes
<1> HIDE DEF g
<1>2. SumFunction(g) = SumFunctionOnSet(Sizes, R) /\ SumFunctionOnSet(Sizes, R) \in Nat
    BY <1>1, SumOf, ReservationsFinite, SizesAreNumbers
<1>3. QED
    BY <1>2 DEF Recipients, g

LEMMA RecipientsLeq ==
    ASSUME NEW R \in SUBSET Reservations, NEW Q \in SUBSET R
    PROVE  Recipients(Q) <= Recipients(R)
<1>1. /\ IsFiniteSet(R) /\ Addends(Sizes, R) /\ Addends(Sizes, Q)
      /\ \A r \in Q : Sizes[r] <= Sizes[r]
    BY ReservationsFinite, SizesAreNumbers, FS_Subset DEF Addends
<1>2. SumFunctionOnSet(Sizes, Q) <= SumFunctionOnSet(Sizes, R)
    BY <1>1, SumLeq
<1>3. QED
    BY <1>2, RecipientsIs

LEMMA RecipientsAdd ==
    ASSUME NEW R \in SUBSET Reservations, NEW r \in Reservations \ R
    PROVE  Recipients(R \cup {r}) = Recipients(R) + r.n
<1>1. /\ SumFunctionOnSet(Sizes, R) \in Nat
      /\ SumFunctionOnSet(Sizes, R \cup {r})
            = Sizes[r] + SumFunctionOnSet(Sizes, R)
    BY ReservationsFinite, SizesAreNumbers, SumAdd
<1>2. Sizes[r] = r.n /\ r.n \in Nat
    BY ReservationFields DEF Sizes
<1>3. R \cup {r} \in SUBSET Reservations
    OBVIOUS
<1>4. QED
    BY <1>1, <1>2, <1>3, RecipientsIs

-----------------------------------------------------------------------------
(* The counts, and sums over some hours.                                   *)

Counts == [Hour -> [Sender -> [all : Nat, replies : Nat]]]

AllIn(c, s) == [h \in Hour |-> c[h][s].all]
RepliesIn(c, s) == [h \in Hour |-> c[h][s].replies]

LEMMA CountFields ==
    ASSUME NEW c \in Counts, NEW s \in Sender, NEW h \in Hour
    PROVE  /\ c[h][s].all \in Nat /\ c[h][s].replies \in Nat
           /\ AllIn(c, s)[h] = c[h][s].all
           /\ RepliesIn(c, s)[h] = c[h][s].replies
BY DEF Counts, AllIn, RepliesIn

LEMMA AllIs ==
    ASSUME NEW c \in Counts, NEW s \in Sender, NEW hs \in SUBSET Hour
    PROVE  /\ SumFunction([h \in hs |-> c[h][s].all])
                 = SumFunctionOnSet(AllIn(c, s), hs)
           /\ SumFunctionOnSet(AllIn(c, s), hs) \in Nat
<1> DEFINE g == [h \in hs |-> c[h][s].all]
<1>1. /\ DOMAIN g = hs /\ \A h \in hs : g[h] = AllIn(c, s)[h]
      /\ Addends(AllIn(c, s), Hour)
    BY CountFields DEF Addends
<1> HIDE DEF g
<1>2. /\ SumFunction(g) = SumFunctionOnSet(AllIn(c, s), hs)
      /\ SumFunctionOnSet(AllIn(c, s), hs) \in Nat
    BY <1>1, HoursFinite, SumOf
<1>3. QED
    BY <1>2 DEF g

LEMMA RepliesIs ==
    ASSUME NEW c \in Counts, NEW s \in Sender, NEW hs \in SUBSET Hour
    PROVE  /\ SumFunction([h \in hs |-> c[h][s].replies])
                 = SumFunctionOnSet(RepliesIn(c, s), hs)
           /\ SumFunctionOnSet(RepliesIn(c, s), hs) \in Nat
<1> DEFINE g == [h \in hs |-> c[h][s].replies]
<1>1. /\ DOMAIN g = hs /\ \A h \in hs : g[h] = RepliesIn(c, s)[h]
      /\ Addends(RepliesIn(c, s), Hour)
    BY CountFields DEF Addends
<1> HIDE DEF g
<1>2. /\ SumFunction(g) = SumFunctionOnSet(RepliesIn(c, s), hs)
      /\ SumFunctionOnSet(RepliesIn(c, s), hs) \in Nat
    BY <1>1, HoursFinite, SumOf
<1>3. QED
    BY <1>2 DEF g

(* What the workspace sent in some hours.                                  *)
Sent(c, hs) == [s \in Sender |-> SumFunctionOnSet(AllIn(c, s), hs)]

LEMMA WorkspaceIs ==
    ASSUME NEW c \in Counts, NEW hs \in SUBSET Hour
    PROVE  /\ SumFunction([s \in Sender |-> SumFunction([h \in hs |-> c[h][s].all])])
                 = SumFunctionOnSet(Sent(c, hs), Sender)
           /\ SumFunctionOnSet(Sent(c, hs), Sender) \in Nat
           /\ Addends(Sent(c, hs), Sender)
<1> DEFINE g == [s \in Sender |-> SumFunction([h \in hs |-> c[h][s].all])]
<1>1. /\ DOMAIN g = Sender /\ \A s \in Sender : g[s] = Sent(c, hs)[s]
      /\ Addends(Sent(c, hs), Sender)
    BY AllIs DEF Addends, Sent
<1> HIDE DEF g
<1>2. /\ SumFunction(g) = SumFunctionOnSet(Sent(c, hs), Sender)
      /\ SumFunctionOnSet(Sent(c, hs), Sender) \in Nat
    BY <1>1, FiniteMail, SumOf
<1>3. QED
    BY <1>1, <1>2 DEF g

-----------------------------------------------------------------------------
(* Type correctness.                                                       *)

MessageRecord ==
    [at : {"new", "sending", "sent", "done"}, held : BOOLEAN, slipped : BOOLEAN,
     sender : Sender, reply : BOOLEAN, n : Nat, reached : Nat, sentAt : Hour]

Proper(m, msg) ==
    msg \in MessageRecord /\ msg.n <= RecipientsOf[m] /\ msg.reached <= RecipientsOf[m]

Messages == [Message -> MessageRecord]

AllProper == message \in Messages /\ \A m \in Message : Proper(m, message[m])

LedgerTypes ==
    /\ hour \in Hour
    /\ counts \in Counts
    /\ due \subseteq reserved
    /\ reserved \subseteq [of : Message, sender : Sender, reply : BOOLEAN, n : Nat]

BudgetTypes ==
    /\ push \in [at : {"idle", "called", "added"}, day : Nat, recipients : Nat, delta : Nat]
    /\ pushed \in [day : Nat, recipients : Nat]
    /\ platform \in [day : Nat, recipients : Nat]
    /\ again \in Nat

LEMMA TypeParts ==
    TypeOK <=> LedgerTypes /\ AllProper /\ BudgetTypes /\ faults \in 0 .. MaxFaults
BY DEF TypeOK, LedgerTypes, AllProper, BudgetTypes, Counts, Messages, MessageRecord,
       Proper

LEMMA TypeParts2 ==
    TypeOK' <=> /\ LedgerTypes' /\ AllProper' /\ BudgetTypes'
                /\ faults' \in 0 .. MaxFaults
BY DEF TypeOK, LedgerTypes, AllProper, BudgetTypes, Counts, Messages, MessageRecord,
       Proper

LEMMA Numbers ==
    /\ 0 \in Hour /\ Hour \subseteq Nat /\ DayHours \in Nat \ {0}
    /\ \A h \in Hour : Day(h) \in Nat
    /\ \A m \in Message : RecipientsOf[m] \in Nat
    /\ System \in Sender
<1>1. Hours \in Nat /\ DayHours \in Nat \ {0}
    BY LedgerBounds
<1>2. QED
    BY <1>1, LedgerBounds, SystemIsSender DEF Hour, Day

LEMMA TodayIsNumber == TypeOK => Today \in Nat
<1>1. SUFFICES ASSUME TypeOK PROVE Today \in Nat
    OBVIOUS
<1> DEFINE hs == {h \in Hour : h <= hour /\ Day(h) = Day(hour)}
<1>2. hs \in SUBSET Hour /\ counts \in Counts
    BY <1>1 DEF TypeOK, Counts
<1> HIDE DEF hs
<1>3. Workspace(hs) \in Nat
    BY <1>2, WorkspaceIs DEF Workspace, All
<1>4. QED
    BY <1>3 DEF Today, hs

LEMMA OverIsProper ==
    ASSUME NEW m \in Message PROVE Proper(m, Over) /\ Proper(m, Unsent)
<1>1. Unsent \in MessageRecord
    BY Numbers DEF Unsent, MessageRecord
<1>2. Over \in MessageRecord /\ Over.n = 0 /\ Over.reached = 0
    BY <1>1 DEF Over, Unsent, MessageRecord
<1>3. Unsent.n = 0 /\ Unsent.reached = 0
    BY DEF Unsent
<1>4. 0 <= RecipientsOf[m]
    BY Numbers
<1>5. QED
    BY <1>1, <1>2, <1>3, <1>4 DEF Proper

LEMMA OneProper ==
    ASSUME AllProper, NEW m \in Message, NEW msg, Proper(m, msg),
           message' = [message EXCEPT ![m] = msg]
    PROVE  AllProper'
<1>1. message' \in [Message -> MessageRecord]
    BY DEF AllProper, Messages, Proper
<1>2. ASSUME NEW o \in Message PROVE Proper(o, message'[o])
    BY DEF AllProper, Messages
<1>3. QED
    BY <1>1, <1>2 DEF AllProper, Messages

LEMMA SettleProper ==
    ASSUME AllProper, NEW m \in Message, NEW slipped, Settle(m, slipped)
    PROVE  AllProper'
<1> DEFINE done == [message[m] EXCEPT !.at = "done", !.held = FALSE, !.n = 0]
<1>1. Proper(m, message[m]) /\ 0 <= RecipientsOf[m]
    BY Numbers DEF AllProper
<1>2. Proper(m, done)
    <2>1. done \in MessageRecord
        BY <1>1 DEF Proper, MessageRecord
    <2>2. done.n = 0 /\ done.reached = message[m].reached
        BY <1>1 DEF Proper, MessageRecord
    <2> HIDE DEF done
    <2>3. QED
        BY <1>1, <2>1, <2>2 DEF Proper
<1>3. Proper(m, Over)
    BY OverIsProper
<1> HIDE DEF done
<1>4. PICK msg \in {Over, done} : message' = [message EXCEPT ![m] = msg]
    <2>1. message' = [message EXCEPT ![m] =
              IF slipped \/ message[m].reached = 0 \/ message[m].sentAt \notin LastDay
              THEN Over ELSE done]
        BY DEF Settle, done, AllProper, Messages
    <2>2. QED
        BY <2>1
<1>5. QED
    BY <1>2, <1>3, <1>4, OneProper

LEMMA SendingProper ==
    ASSUME AllProper, NEW m \in Message, NEW s \in Sender, NEW reply \in BOOLEAN,
           NEW held \in BOOLEAN, Sending(m, s, reply, held)
    PROVE  AllProper'
<1> DEFINE msg == [message[m] EXCEPT !.at = "sending", !.held = held, !.sender = s,
                       !.slipped = ~held, !.reply = reply, !.n = RecipientsOf[m]]
<1>1. Proper(m, message[m]) /\ RecipientsOf[m] \in Nat
    BY Numbers DEF AllProper
<1>2. Proper(m, msg)
    <2>1. msg \in MessageRecord
        BY <1>1 DEF Proper, MessageRecord
    <2>2. msg.n = RecipientsOf[m] /\ msg.reached = message[m].reached
        BY <1>1 DEF Proper, MessageRecord
    <2> HIDE DEF msg
    <2>3. QED
        BY <1>1, <2>1, <2>2 DEF Proper
<1>3. message' = [message EXCEPT ![m] = msg]
    BY DEF Sending, AllProper, Messages
<1> HIDE DEF msg
<1>4. QED
    BY <1>2, <1>3, OneProper

LEMMA TransmitProper ==
    ASSUME AllProper, hour \in Hour, NEW m \in Message, Transmit(m)
    PROVE  AllProper'
<1>1. PICK k \in 0 .. message[m].n, slips \in BOOLEAN :
          message' = [message EXCEPT ![m].at = "sent", ![m].reached = k, ![m].sentAt = hour,
                                     ![m].slipped = @ \/ slips]
    BY DEF Transmit
<1> DEFINE msg == [message[m] EXCEPT !.at = "sent", !.reached = k, !.sentAt = hour,
                                     !.slipped = @ \/ slips]
<1>2. Proper(m, message[m]) /\ RecipientsOf[m] \in Nat
    BY Numbers DEF AllProper
<1>3. k \in Nat /\ k <= RecipientsOf[m]
    BY <1>2 DEF Proper, MessageRecord
<1>4. Proper(m, msg)
    BY <1>2, <1>3 DEF Proper, MessageRecord
<1>5. message' = [message EXCEPT ![m] = msg]
    BY <1>1 DEF AllProper, Messages
<1> HIDE DEF msg
<1>6. QED
    BY <1>4, <1>5, OneProper

LEMMA SlippedProper ==
    ASSUME AllProper, NEW ms, message' = Slipped(ms)
    PROVE  AllProper'
<1>1. ASSUME NEW o \in Message PROVE Proper(o, message'[o])
    <2>1. Proper(o, message[o])
        BY DEF AllProper
    <2>2. message'[o] = [message[o] EXCEPT !.slipped = @ \/ (o \in ms /\ message[o].at # "done")]
        BY DEF Slipped
    <2>3. QED
        BY <2>1, <2>2 DEF Proper, MessageRecord
<1>2. message' \in [Message -> MessageRecord]
    <2>1. \A o \in Message : message'[o] \in MessageRecord
        BY <1>1 DEF Proper
    <2>2. message' = [o \in Message |-> message'[o]]
        BY DEF Slipped
    <2>3. QED
        BY <2>1, <2>2
<1>3. QED
    BY <1>1, <1>2 DEF AllProper, Messages

LEMMA TickProper == ASSUME AllProper, Tick PROVE AllProper'
<1>1. ASSUME NEW o \in Message PROVE Proper(o, message'[o])
    <2>1. Proper(o, message[o]) /\ Proper(o, Over)
        BY OverIsProper DEF AllProper
    <2>2. message'[o] \in {Over, message[o]}
        BY DEF Tick
    <2>3. QED
        BY <2>1, <2>2
<1>2. message' \in [Message -> MessageRecord]
    <2>1. \A o \in Message : message'[o] \in MessageRecord
        BY <1>1 DEF Proper
    <2>2. message' = [o \in Message |-> message'[o]]
        BY DEF Tick
    <2>3. QED
        BY <2>1, <2>2
<1>3. QED
    BY <1>1, <1>2 DEF AllProper, Messages

LEMMA CountSendTypes ==
    ASSUME LedgerTypes, AllProper, NEW m \in Message, CountSend(m)
    PROVE  counts' \in Counts
<1> DEFINE k == message[m].reached
           s == message[m].sender
           old == counts[hour][s]
           more == [all |-> old.all + k,
                    replies |-> old.replies + IF message[m].reply THEN k ELSE 0]
<1>1. k \in Nat /\ s \in Sender /\ hour \in Hour
    BY DEF AllProper, Proper, MessageRecord, LedgerTypes
<1>2. old.all \in Nat /\ old.replies \in Nat
    BY <1>1 DEF LedgerTypes, Counts
<1>3. counts' = [counts EXCEPT ![hour] = [counts[hour] EXCEPT ![s] = more]]
    <2>1. counts' = [counts EXCEPT ![hour][s] = more]
        BY <1>1 DEF CountSend, LedgerTypes, Counts
    <2>2. QED
        BY <2>1
<1>4. more \in [all : Nat, replies : Nat]
    BY <1>1, <1>2
<1>5. [counts[hour] EXCEPT ![s] = more] \in [Sender -> [all : Nat, replies : Nat]]
    BY <1>1, <1>4 DEF LedgerTypes, Counts
<1> HIDE DEF more, k, s, old
<1>6. QED
    BY <1>1, <1>3, <1>5 DEF LedgerTypes, Counts

LEMMA ReservationType ==
    ASSUME NEW m \in Message, NEW s \in Sender, NEW reply \in BOOLEAN
    PROVE  Reservation(m, s, reply)
              \in [of : Message, sender : Sender, reply : BOOLEAN, n : Nat]
BY Numbers DEF Reservation

LEMMA ReserveTypes ==
    ASSUME LedgerTypes, NEW m \in Message, NEW s \in Sender, NEW reply \in BOOLEAN,
           Reserve(m, s, reply), UNCHANGED <<hour, counts>>
    PROVE  LedgerTypes'
BY ReservationType DEF LedgerTypes, Reserve, Live

LEMMA FewerTypes ==
    ASSUME LedgerTypes, reserved' \subseteq reserved, due' \subseteq reserved',
           hour' = hour, counts' \in Counts
    PROVE  LedgerTypes'
BY DEF LedgerTypes

LEMMA TypeInit == Init => TypeOK
<1>1. SUFFICES ASSUME Init PROVE LedgerTypes /\ AllProper /\ BudgetTypes /\ faults \in 0 .. MaxFaults
    BY TypeParts
<1>2. LedgerTypes
    <2>1. PICK t \in Sender, k \in 0 .. CountedBefore :
              counts = [h \in Hour |-> [s \in Sender |->
                  [all |-> IF h = 0 /\ s = t THEN k ELSE 0, replies |-> 0]]]
        BY <1>1 DEF Init
    <2>2. k \in Nat
        BY LedgerBounds
    <2>3. counts \in Counts
        BY <2>1, <2>2 DEF Counts
    <2>4. QED
        BY <1>1, <2>3, Numbers DEF Init, LedgerTypes
<1>3. AllProper
    BY <1>1, OverIsProper DEF Init, AllProper, Messages, Proper
<1>4. BudgetTypes
    BY <1>1 DEF Init, BudgetTypes, Idle
<1>5. faults \in 0 .. MaxFaults
    BY <1>1, LedgerBounds DEF Init
<1>6. QED
    BY <1>2, <1>3, <1>4, <1>5

LEMMA TypeStep == TypeOK /\ [Next]_vars => TypeOK'
<1>1. SUFFICES ASSUME TypeOK, [Next]_vars
               PROVE  LedgerTypes' /\ AllProper' /\ BudgetTypes' /\ faults' \in 0 .. MaxFaults
    BY TypeParts2
<1> USE DEF ledger, budget
<1>2. LedgerTypes /\ AllProper /\ BudgetTypes /\ faults \in 0 .. MaxFaults
    BY <1>1, TypeParts
<1>3. MaxFaults \in Nat
    BY LedgerBounds
<1>4. UNCHANGED budget => BudgetTypes'
    BY <1>2 DEF BudgetTypes
<1>5. UNCHANGED message => AllProper'
    BY <1>2 DEF AllProper
<1>6. UNCHANGED <<hour, ledger>> => LedgerTypes'
    BY <1>2 DEF LedgerTypes
<1>7. /\ faults < MaxFaults /\ faults' = faults + 1 => faults' \in 0 .. MaxFaults
      /\ faults' = faults => faults' \in 0 .. MaxFaults
    BY <1>2, <1>3
<1>8. due \subseteq reserved /\ counts \in Counts /\ hour \in Hour
    BY <1>2 DEF LedgerTypes
<1>9. ASSUME NEW m \in Message, NEW s \in Sender, NEW reply \in BOOLEAN, Check(m, s, reply)
      PROVE  LedgerTypes' /\ AllProper' /\ BudgetTypes' /\ faults' \in 0 .. MaxFaults
    BY <1>2, <1>4, <1>7, <1>9, ReserveTypes, SendingProper DEF Check
<1>10. ASSUME NEW m \in Message, NEW s \in Sender, NEW reply \in BOOLEAN, FailOpen(m, s, reply)
       PROVE  LedgerTypes' /\ AllProper' /\ BudgetTypes' /\ faults' \in 0 .. MaxFaults
    <2>1. LedgerTypes'
        <3>1. CASE Reserve(m, s, reply)
            BY <1>2, <1>10, <3>1, ReserveTypes DEF FailOpen
        <3>2. CASE UNCHANGED <<reserved, due>>
            BY <1>6, <1>10, <3>2 DEF FailOpen
        <3>3. QED
            BY <1>10, <3>1, <3>2 DEF FailOpen
    <2>2. QED
        BY <1>2, <1>4, <1>7, <1>10, <2>1, SendingProper DEF FailOpen
<1>11. ASSUME NEW m \in Message, Refuse(m)
       PROVE  LedgerTypes' /\ AllProper' /\ BudgetTypes' /\ faults' \in 0 .. MaxFaults
    <2>1. LedgerTypes'
        BY <1>2, <1>8, <1>11, FewerTypes DEF Refuse, Live
    <2>2. QED
        BY <1>2, <1>4, <1>7, <1>11, <2>1, SettleProper DEF Refuse
<1>12. ASSUME NEW m \in Message, Transmit(m)
       PROVE  LedgerTypes' /\ AllProper' /\ BudgetTypes' /\ faults' \in 0 .. MaxFaults
    BY <1>2, <1>4, <1>6, <1>7, <1>8, <1>12, TransmitProper DEF Transmit
<1>13. ASSUME NEW m \in Message, Commit(m)
       PROVE  LedgerTypes' /\ AllProper' /\ BudgetTypes' /\ faults' \in 0 .. MaxFaults
    <2>1. counts' \in Counts
        BY <1>2, <1>8, <1>13, CountSendTypes DEF Commit
    <2>2. LedgerTypes'
        BY <1>2, <1>8, <1>13, <2>1, FewerTypes DEF Commit
    <2>3. QED
        BY <1>2, <1>4, <1>7, <1>13, <2>2, SettleProper DEF Commit
<1>14. ASSUME NEW m \in Message, Release(m)
       PROVE  LedgerTypes' /\ AllProper' /\ BudgetTypes' /\ faults' \in 0 .. MaxFaults
    <2>1. LedgerTypes'
        BY <1>2, <1>8, <1>14, FewerTypes DEF Release
    <2>2. QED
        BY <1>2, <1>4, <1>7, <1>14, <2>1, SettleProper DEF Release
<1>15. ASSUME NEW m \in Message, SettleOpen(m)
       PROVE  LedgerTypes' /\ AllProper' /\ BudgetTypes' /\ faults' \in 0 .. MaxFaults
    BY <1>2, <1>4, <1>6, <1>7, <1>15, SettleProper DEF SettleOpen
<1>16. ASSUME NEW m \in Message, SettleLost(m)
       PROVE  LedgerTypes' /\ AllProper' /\ BudgetTypes' /\ faults' \in 0 .. MaxFaults
    BY <1>2, <1>4, <1>6, <1>7, <1>16, SettleProper DEF SettleLost
<1>17. ASSUME NEW m \in Message, Lapse(m)
       PROVE  LedgerTypes' /\ AllProper' /\ BudgetTypes' /\ faults' \in 0 .. MaxFaults
    <2>1. LedgerTypes'
        BY <1>2, <1>8, <1>17, FewerTypes DEF Lapse, Held
    <2>2. QED
        BY <1>2, <1>4, <1>7, <1>17, <2>1, SlippedProper DEF Lapse
<1>18. CASE Tick
    <2>1. hour' \in Hour
        BY <1>8, <1>18, LedgerBounds DEF Tick, Hour
    <2>2. LedgerTypes'
        BY <1>2, <1>18, <2>1 DEF Tick, LedgerTypes
    <2>3. QED
        BY <1>2, <1>4, <1>7, <1>18, <2>2, TickProper DEF Tick
<1>19. CASE Restart
    <2>1. LedgerTypes'
        BY <1>2, <1>8, <1>19, FewerTypes DEF Restart
    <2>2. BudgetTypes'
        BY <1>2, <1>19 DEF Restart, BudgetTypes, Idle
    <2>3. QED
        BY <1>2, <1>7, <1>19, <2>1, <2>2, SlippedProper DEF Restart
<1>20. CASE Push
    <2>1. Today \in Nat /\ Day(hour) \in Nat
        BY <1>1, <1>8, TodayIsNumber, Numbers
    <2> DEFINE delta == Today - IF pushed.day = Day(hour) THEN pushed.recipients ELSE 0
    <2>2. delta > 0
          /\ push' = [at |-> "called", day |-> Day(hour), recipients |-> Today, delta |-> delta]
        BY <1>20 DEF Push
    <2>3. delta \in Nat
        BY <1>2, <2>1, <2>2 DEF BudgetTypes
    <2>4. push' \in [at : {"idle", "called", "added"}, day : Nat, recipients : Nat, delta : Nat]
        <3> HIDE DEF delta
        <3>1. QED
            BY <2>1, <2>2, <2>3
    <2>5. BudgetTypes'
        BY <1>2, <1>20, <2>4 DEF Push, BudgetTypes
    <2>6. QED
        BY <1>5, <1>6, <1>7, <1>20, <2>5 DEF Push
<1>21. CASE Add
    <2>1. Day(hour) \in Nat
        BY <1>8, Numbers
    <2>2. BudgetTypes'
        BY <1>2, <1>21, <2>1 DEF Add, BudgetTypes
    <2>3. QED
        BY <1>5, <1>6, <1>7, <1>21, <2>2 DEF Add
<1>22. CASE Pushed
    <2>1. BudgetTypes'
        BY <1>2, <1>22 DEF Pushed, BudgetTypes, Idle
    <2>2. QED
        BY <1>5, <1>6, <1>7, <1>22, <2>1 DEF Pushed
<1>23. CASE PushFails
    <2>1. BudgetTypes'
        BY <1>2, <1>23 DEF PushFails, BudgetTypes, Idle
    <2>2. QED
        BY <1>5, <1>6, <1>7, <1>23, <2>1 DEF PushFails
<1>24. CASE UNCHANGED vars
    BY <1>4, <1>5, <1>6, <1>7, <1>24 DEF vars
<1>25. QED
    BY <1>1, <1>9, <1>10, <1>11, <1>12, <1>13, <1>14, <1>15, <1>16, <1>17, <1>18,
       <1>19, <1>20, <1>21, <1>22, <1>23, <1>24 DEF Next

(* The type invariant: a reservation, a count or a push is never of        *)
(* anything but the messages, senders and hours there are, and no send is  *)
(* for more recipients than its message has.                               *)
THEOREM TypeCorrect == Spec => []TypeOK
BY TypeInit, TypeStep, PTL DEF Spec

-----------------------------------------------------------------------------
(* What was counted, and the reservations of the sends under way.          *)

(* Nothing is counted in hours to come.                                    *)
CountedAt(c, now) ==
    \A h \in Hour, s \in Sender :
        /\ c[h][s].replies <= c[h][s].all
        /\ h > now => c[h][s].all = 0

Counted == CountedAt(counts, hour)

Under(msg) == msg.at \in {"sending", "sent"}

(* A send in hand with its reservations: one that neither a fault nor the  *)
(* two minutes took from the ledger has a live one, for all its            *)
(* recipients.                                                             *)
InHand(m, msg, all, live) ==
    /\ msg.at = "new" => msg = Unsent /\ \A r \in all : r.of # m
    /\ Under(msg) =>
          /\ msg.n = RecipientsOf[m]
          /\ \A r \in all : r.of = m => r.sender = msg.sender /\ r.reply = msg.reply
          /\ ~msg.slipped => msg.held /\ \E r \in live : r.of = m

OneEach(all) == \A r1, r2 \in all : r1.of = r2.of => r1 = r2

Booked ==
    /\ reserved \subseteq Reservations
    /\ OneEach(reserved)
    /\ \A m \in Message : InHand(m, message[m], reserved, Live)

BookTypes == LedgerTypes /\ AllProper

LEMMA CountedStep ==
    ASSUME LedgerTypes, AllProper, Counted, [Next]_vars
    PROVE  Counted'
<1> USE DEF ledger, budget
<1>1. \A h \in Hour : h \in Nat
    BY Numbers
<1>2. CASE UNCHANGED <<hour, counts>>
    BY <1>2 DEF Counted, CountedAt
<1>3. CASE Tick
    <2>1. counts' = counts /\ hour' = hour + 1 /\ hour \in Nat
        BY <1>1, <1>3 DEF Tick, LedgerTypes
    <2>2. \A h \in Hour : h > hour + 1 => h > hour
        BY <1>1, <2>1
    <2>3. QED
        BY <2>1, <2>2 DEF Counted, CountedAt
<1>4. ASSUME NEW m \in Message, CountSend(m), hour' = hour PROVE Counted'
    <2> DEFINE k == message[m].reached
               s == message[m].sender
               old == counts[hour][s]
               more == [all |-> old.all + k,
                        replies |-> old.replies + IF message[m].reply THEN k ELSE 0]
    <2>1. /\ k \in Nat /\ s \in Sender /\ hour \in Hour
          /\ old.all \in Nat /\ old.replies \in Nat /\ old.replies <= old.all
        BY DEF AllProper, Proper, MessageRecord, LedgerTypes, Counts, Counted, CountedAt
    <2>2. counts' = [counts EXCEPT ![hour] = [counts[hour] EXCEPT ![s] = more]]
        <3>1. counts' = [counts EXCEPT ![hour][s] = more]
            BY <1>4, <2>1 DEF CountSend, LedgerTypes, Counts
        <3>2. QED
            BY <3>1
    <2>3. more.replies <= more.all
        BY <2>1
    <2> HIDE DEF more, k, s, old
    <2>4. ASSUME NEW h \in Hour, NEW t \in Sender
          PROVE  counts'[h][t] = IF h = hour /\ t = s THEN more ELSE counts[h][t]
        BY <2>1, <2>2 DEF LedgerTypes, Counts
    <2>5. ~(hour > hour)
        BY <1>1, <2>1
    <2>6. ASSUME NEW h \in Hour, NEW t \in Sender
          PROVE  /\ counts'[h][t].replies <= counts'[h][t].all
                 /\ h > hour => counts'[h][t].all = 0
        BY <2>3, <2>4, <2>5 DEF Counted, CountedAt
    <2>7. QED
        BY <1>4, <2>6 DEF Counted, CountedAt
<1>5. ASSUME NEW m \in Message, Commit(m) PROVE Counted'
    BY <1>2, <1>4, <1>5 DEF Commit
<1>6. ASSUME NEW m \in Message, NEW s \in Sender, NEW reply \in BOOLEAN,
             Check(m, s, reply) \/ FailOpen(m, s, reply)
      PROVE  UNCHANGED <<hour, counts>>
    BY <1>6 DEF Check, FailOpen
<1>7. ASSUME NEW m \in Message,
             \/ Refuse(m) \/ Transmit(m) \/ Release(m)
             \/ SettleOpen(m) \/ SettleLost(m) \/ Lapse(m)
      PROVE  UNCHANGED <<hour, counts>>
    BY <1>7 DEF Refuse, Transmit, Release, SettleOpen, SettleLost, Lapse
<1>8. ASSUME Restart \/ Push \/ Add \/ Pushed \/ PushFails \/ UNCHANGED vars
      PROVE  UNCHANGED <<hour, counts>>
    BY <1>8 DEF Restart, Push, Add, Pushed, PushFails, vars
<1>9. QED
    BY <1>2, <1>3, <1>5, <1>6, <1>7, <1>8 DEF Next

(* What the others of a send do to it.                                     *)
LEMMA InHandStays ==
    ASSUME NEW m, NEW msg, NEW all, NEW live, NEW all2, NEW live2,
           InHand(m, msg, all, live),
           \A r \in all2 : r.of = m => r \in all,
           \A r \in live : r.of = m => r \in live2
    PROVE  InHand(m, msg, all2, live2)
BY DEF InHand

LEMMA InHandOver ==
    ASSUME NEW m, NEW msg, NEW all, NEW live, msg.at = "done"
    PROVE  InHand(m, msg, all, live)
BY DEF InHand, Under

LEMMA SettleAt ==
    ASSUME AllProper, NEW m \in Message, NEW slipped, Settle(m, slipped)
    PROVE  /\ message'[m].at = "done"
           /\ \A o \in Message : o # m => message'[o] = message[o]
           /\ \/ message'[m] = Over
              \/ /\ ~slipped /\ message[m].reached # 0 /\ message[m].sentAt \in LastDay
                 /\ message'[m] = [message[m] EXCEPT !.at = "done", !.held = FALSE, !.n = 0]
<1> DEFINE done == [message[m] EXCEPT !.at = "done", !.held = FALSE, !.n = 0]
           keep == ~slipped /\ message[m].reached # 0 /\ message[m].sentAt \in LastDay
<1>1. message' = [message EXCEPT ![m] = IF keep THEN done ELSE Over]
    BY DEF Settle, AllProper, Messages
<1>2. Over.at = "done"
    BY DEF Over, Unsent
<1>3. done.at = "done"
    BY DEF AllProper, Messages, MessageRecord
<1>4. message'[m] = (IF keep THEN done ELSE Over)
    BY <1>1 DEF AllProper, Messages
<1>5. \A o \in Message : o # m => message'[o] = message[o]
    BY <1>1 DEF AllProper, Messages
<1> HIDE DEF done, keep
<1>6. message'[m].at = "done"
    BY <1>2, <1>3, <1>4
<1>7. message'[m] = Over \/ (keep /\ message'[m] = done)
    BY <1>4
<1>8. QED
    BY <1>5, <1>6, <1>7 DEF keep, done

LEMMA SendingAt ==
    ASSUME AllProper, NEW m \in Message, NEW s \in Sender, NEW reply \in BOOLEAN,
           NEW held \in BOOLEAN, Sending(m, s, reply, held)
    PROVE  /\ message'[m].at = "sending" /\ message'[m].sender = s
           /\ message'[m].reply = reply /\ message'[m].n = RecipientsOf[m]
           /\ message'[m].held = held /\ message'[m].slipped = ~held
           /\ message'[m].reached = message[m].reached
           /\ message'[m].sentAt = message[m].sentAt
           /\ \A o \in Message : o # m => message'[o] = message[o]
<1>1. message'[m] = [message[m] EXCEPT !.at = "sending", !.held = held, !.sender = s,
                         !.slipped = ~held, !.reply = reply, !.n = RecipientsOf[m]]
    BY DEF Sending, AllProper, Messages
<1>2. message[m] \in MessageRecord
    BY DEF AllProper, Messages
<1>3. \A o \in Message : o # m => message'[o] = message[o]
    BY DEF Sending, AllProper, Messages
<1>4. QED
    BY <1>1, <1>2, <1>3 DEF MessageRecord

LEMMA TransmitAt ==
    ASSUME AllProper, NEW m \in Message, Transmit(m)
    PROVE  /\ message[m].at = "sending"
           /\ message'[m].at = "sent" /\ message'[m].sentAt = hour
           /\ message'[m].reached \in 0 .. message[m].n
           /\ message'[m].sender = message[m].sender
           /\ message'[m].reply = message[m].reply /\ message'[m].n = message[m].n
           /\ message'[m].held = message[m].held
           /\ message[m].slipped => message'[m].slipped
           /\ \A o \in Message : o # m => message'[o] = message[o]
<1>1. PICK k \in 0 .. message[m].n, slips \in BOOLEAN :
          message' = [message EXCEPT ![m].at = "sent", ![m].reached = k, ![m].sentAt = hour,
                                     ![m].slipped = @ \/ slips]
    BY DEF Transmit
<1>2. message'[m] = [message[m] EXCEPT !.at = "sent", !.reached = k, !.sentAt = hour,
                                       !.slipped = @ \/ slips]
    BY <1>1 DEF AllProper, Messages
<1>3. message[m] \in MessageRecord
    BY DEF AllProper, Messages
<1>4. \A o \in Message : o # m => message'[o] = message[o]
    BY <1>1 DEF AllProper, Messages
<1>5. message'[m].reached = k
    BY <1>2, <1>3 DEF MessageRecord
<1>6. QED
    BY <1>2, <1>3, <1>4, <1>5 DEF MessageRecord, Transmit

LEMMA SlippedAt ==
    ASSUME AllProper, NEW ms, message' = Slipped(ms), NEW o \in Message
    PROVE  /\ message'[o].at = message[o].at /\ message'[o].n = message[o].n
           /\ message'[o].held = message[o].held
           /\ message'[o].sender = message[o].sender
           /\ message'[o].reply = message[o].reply
           /\ message'[o].reached = message[o].reached
           /\ message'[o].sentAt = message[o].sentAt
           /\ message'[o].slipped = (message[o].slipped \/ (o \in ms /\ message[o].at # "done"))
           /\ o \notin ms => message'[o] = message[o]
           /\ message[o].at = "done" => message'[o] = message[o]
<1>1. message'[o] = [message[o] EXCEPT !.slipped = @ \/ (o \in ms /\ message[o].at # "done")]
    BY DEF Slipped
<1>2. message[o] \in MessageRecord
    BY DEF AllProper, Messages
<1>3. (o \notin ms \/ message[o].at = "done") => message'[o] = message[o]
    BY <1>1, <1>2 DEF MessageRecord
<1>4. QED
    BY <1>1, <1>2, <1>3 DEF MessageRecord

LEMMA UnsentIs == Unsent.at = "new" /\ ~Unsent.slipped /\ Unsent.reached = 0
                  /\ Unsent.sentAt = 0 /\ Unsent.sender = System /\ ~Unsent.reply
BY DEF Unsent

LEMMA OverIs == Over.at = "done" /\ Over.reached = 0
BY DEF Over, Unsent

LEMMA BookedInit == Init => Booked
<1>1. SUFFICES ASSUME Init PROVE Booked
    OBVIOUS
<1>2. reserved = {} /\ message = [m \in Message |-> Unsent]
    BY <1>1 DEF Init
<1>3. \A m \in Message : InHand(m, message[m], reserved, Live)
    BY <1>2, UnsentIs DEF InHand, Under
<1>4. QED
    BY <1>2, <1>3 DEF Booked, OneEach

(* A reservation more, for a message that had none.                        *)
LEMMA ReserveBooks ==
    ASSUME BookTypes, Booked, NEW m \in Message, NEW s \in Sender,
           NEW reply \in BOOLEAN, Asked(m, s, reply), Reserve(m, s, reply)
    PROVE  /\ reserved' \subseteq Reservations /\ OneEach(reserved')
           /\ Reservation(m, s, reply) \in Live'
           /\ Live' = reserved'
           /\ \A r \in reserved' : r.of = m => r = Reservation(m, s, reply)
           /\ \A r \in reserved' : r.of # m => r \in reserved
           /\ \A r \in Live : r.of # m => r \in Live'
<1> DEFINE it == Reservation(m, s, reply)
<1>1. it \in Reservations /\ it.of = m
    BY NewReservation
<1>2. reserved' = Live \cup {it} /\ due' = {}
    BY DEF Reserve
<1>3. \A r \in reserved : r.of # m
    BY DEF Booked, InHand, Asked
<1> HIDE DEF it
<1>4. Live \subseteq reserved /\ Live' = reserved'
    BY <1>2 DEF Live
<1>5. reserved' \subseteq Reservations /\ OneEach(reserved')
    BY <1>1, <1>2, <1>3, <1>4 DEF Booked, OneEach
<1>6. QED
    BY <1>1, <1>2, <1>3, <1>4, <1>5 DEF it

LEMMA SendingInHand ==
    ASSUME BookTypes, NEW m \in Message, NEW s \in Sender, NEW reply \in BOOLEAN,
           NEW held \in BOOLEAN, Sending(m, s, reply, held),
           \A r \in reserved' : r.of = m => r.sender = s /\ r.reply = reply,
           held => \E r \in Live' : r.of = m
    PROVE  InHand(m, message'[m], reserved', Live')
<1>1. /\ message'[m].at = "sending" /\ message'[m].sender = s
      /\ message'[m].reply = reply /\ message'[m].n = RecipientsOf[m]
      /\ message'[m].held = held /\ message'[m].slipped = ~held
    BY SendingAt DEF BookTypes
<1>2. QED
    BY <1>1 DEF InHand, Under

LEMMA CheckBooked ==
    ASSUME BookTypes, Booked, NEW m \in Message, NEW s \in Sender,
           NEW reply \in BOOLEAN, Check(m, s, reply)
    PROVE  Booked'
<1>1. Asked(m, s, reply) /\ Reserve(m, s, reply) /\ Sending(m, s, reply, TRUE)
    BY DEF Check
<1>2. /\ reserved' \subseteq Reservations /\ OneEach(reserved')
      /\ Reservation(m, s, reply) \in Live'
      /\ \A r \in reserved' : r.of = m => r = Reservation(m, s, reply)
      /\ \A r \in reserved' : r.of # m => r \in reserved
      /\ \A r \in Live : r.of # m => r \in Live'
    BY <1>1, ReserveBooks
<1>3. Reservation(m, s, reply).of = m /\ Reservation(m, s, reply).sender = s
      /\ Reservation(m, s, reply).reply = reply
    BY NewReservation
<1>4. InHand(m, message'[m], reserved', Live')
    BY <1>1, <1>2, <1>3, SendingInHand, ZenonT(60)
<1>5. ASSUME NEW o \in Message, o # m PROVE InHand(o, message'[o], reserved', Live')
    <2>1. message'[o] = message[o]
        BY <1>1, <1>5, SendingAt, ZenonT(60) DEF BookTypes
    <2>2. InHand(o, message[o], reserved, Live)
        BY DEF Booked
    <2>3. QED
        BY <1>2, <1>5, <2>1, <2>2, InHandStays
<1>6. QED
    BY <1>2, <1>4, <1>5 DEF Booked

LEMMA FailOpenBooked ==
    ASSUME BookTypes, Booked, NEW m \in Message, NEW s \in Sender,
           NEW reply \in BOOLEAN, FailOpen(m, s, reply)
    PROVE  Booked'
<1>1. Asked(m, s, reply) /\ Sending(m, s, reply, FALSE)
    BY DEF FailOpen
<1>2. /\ reserved' \subseteq Reservations /\ OneEach(reserved')
      /\ \A r \in reserved' : r.of = m => r.sender = s /\ r.reply = reply
      /\ \A r \in reserved' : r.of # m => r \in reserved
      /\ \A r \in Live : r.of # m => r \in Live'
    <2>1. CASE Reserve(m, s, reply)
        BY <1>1, <2>1, ReserveBooks, NewReservation
    <2>2. CASE UNCHANGED <<reserved, due>>
        <3>1. \A r \in reserved : r.of # m
            BY <1>1 DEF Booked, InHand, Asked
        <3>2. QED
            BY <2>2, <3>1 DEF Booked, Live
    <2>3. QED
        BY <2>1, <2>2 DEF FailOpen
<1>4. InHand(m, message'[m], reserved', Live')
    BY <1>1, <1>2, SendingInHand
<1>5. ASSUME NEW o \in Message, o # m PROVE InHand(o, message'[o], reserved', Live')
    <2>1. message'[o] = message[o]
        BY <1>1, <1>5, SendingAt DEF BookTypes
    <2>2. InHand(o, message[o], reserved, Live)
        BY DEF Booked
    <2>3. QED
        BY <1>2, <1>5, <2>1, <2>2, InHandStays
<1>6. QED
    BY <1>2, <1>4, <1>5 DEF Booked

(* A send that is over, with or without its reservation.                   *)
LEMMA SettleBooked ==
    ASSUME BookTypes, Booked, NEW m \in Message, NEW slipped, Settle(m, slipped),
           reserved' \subseteq reserved,
           \A r \in Live : r.of # m => r \in Live'
    PROVE  Booked'
<1>1. message'[m].at = "done" /\ \A o \in Message : o # m => message'[o] = message[o]
    BY SettleAt DEF BookTypes
<1>2. InHand(m, message'[m], reserved', Live')
    BY <1>1, InHandOver
<1>3. ASSUME NEW o \in Message, o # m PROVE InHand(o, message'[o], reserved', Live')
    <2>1. InHand(o, message[o], reserved, Live) /\ message'[o] = message[o]
        BY <1>1, <1>3 DEF Booked
    <2>2. QED
        BY <1>3, <2>1, InHandStays
<1>4. QED
    BY <1>2, <1>3 DEF Booked, OneEach

LEMMA TransmitBooked ==
    ASSUME BookTypes, Booked, NEW m \in Message, Transmit(m)
    PROVE  Booked'
<1>1. reserved' = reserved /\ Live' = Live
    BY DEF Transmit, ledger, Live
<1>2. InHand(m, message'[m], reserved, Live)
    <2>1. InHand(m, message[m], reserved, Live)
        BY DEF Booked
    <2>2. /\ message[m].at = "sending" /\ message'[m].at = "sent"
          /\ message'[m].sender = message[m].sender
          /\ message'[m].reply = message[m].reply /\ message'[m].n = message[m].n
          /\ message'[m].held = message[m].held
          /\ message[m].slipped => message'[m].slipped
        BY TransmitAt DEF BookTypes
    <2>3. QED
        BY <2>1, <2>2 DEF InHand, Under
<1>3. ASSUME NEW o \in Message, o # m PROVE InHand(o, message'[o], reserved, Live)
    BY <1>3, TransmitAt DEF BookTypes, Booked
<1>4. QED
    BY <1>1, <1>2, <1>3 DEF Booked

(* A send slips, and what it has reserved with it.                         *)
LEMMA SlippedBooked ==
    ASSUME BookTypes, Booked, NEW ms, message' = Slipped(ms),
           \A o \in ms : \E r \in reserved : r.of = o,
           reserved' \subseteq reserved,
           \A r \in Live : r.of \in ms \/ r \in Live'
    PROVE  Booked'
<1>1. ASSUME NEW o \in Message PROVE InHand(o, message'[o], reserved', Live')
    <2>1. InHand(o, message[o], reserved, Live)
        BY DEF Booked
    <2>2. CASE o \notin ms
        <3>1. message'[o] = message[o]
            BY <2>2, SlippedAt DEF BookTypes
        <3>2. QED
            BY <2>1, <2>2, <3>1, InHandStays
    <2>3. CASE o \in ms
        <3>1. message[o].at # "new"
            BY <2>1, <2>3 DEF InHand
        <3>2. /\ message'[o].at = message[o].at /\ message'[o].n = message[o].n
              /\ message'[o].sender = message[o].sender
              /\ message'[o].reply = message[o].reply
              /\ message'[o].slipped = (message[o].slipped \/ (o \in ms /\ message[o].at # "done"))
            BY SlippedAt DEF BookTypes
        <3>3. QED
            BY <2>1, <2>3, <3>1, <3>2 DEF InHand, Under
    <2>4. QED
        BY <2>2, <2>3
<1>2. QED
    BY <1>1 DEF Booked, OneEach

LEMMA BookedStep ==
    ASSUME BookTypes, Booked, [Next]_vars
    PROVE  Booked'
<1> USE DEF ledger, budget
<1>1. due \subseteq reserved
    BY DEF BookTypes, LedgerTypes
<1>2. CASE UNCHANGED <<message, reserved, due>>
    BY <1>2 DEF Booked, Live
<1>3. ASSUME NEW m \in Message, Refuse(m) PROVE Booked'
    <2>1. reserved' \subseteq reserved /\ Live' = Live
        BY <1>1, <1>3 DEF Refuse, Live
    <2>2. QED
        BY <1>3, <2>1, SettleBooked DEF Refuse
<1>4. ASSUME NEW m \in Message, reserved' = reserved \ Held(m), due' = due \ Held(m),
             Settle(m, message[m].slipped)
      PROVE  Booked'
    <2>1. \A r \in Live : r.of # m => r \in Live'
        BY <1>4 DEF Live, Held
    <2>2. reserved' \subseteq reserved
        BY <1>4
    <2>3. QED
        BY <1>4, <2>1, <2>2, SettleBooked
<1>5. ASSUME NEW m \in Message, Commit(m) \/ Release(m) PROVE Booked'
    BY <1>4, <1>5 DEF Commit, Release
<1>6. ASSUME NEW m \in Message, SettleOpen(m) \/ SettleLost(m) PROVE Booked'
    <2>1. reserved' = reserved /\ Live' = Live
        BY <1>6 DEF SettleOpen, SettleLost, Live
    <2>2. PICK slipped : Settle(m, slipped)
        BY <1>6 DEF SettleOpen, SettleLost
    <2>3. QED
        BY <2>1, <2>2, SettleBooked
<1>7. ASSUME NEW m \in Message, Lapse(m) PROVE Booked'
    <2>1. \A o \in {m} : \E r \in reserved : r.of = o
        BY <1>7 DEF Lapse, Held
    <2>2. \A r \in Live : r.of \in {m} \/ r \in Live'
        BY <1>7 DEF Lapse, Held, Live
    <2>3. message' = Slipped({m}) /\ reserved' = reserved
        BY <1>7 DEF Lapse
    <2>4. QED
        BY <2>1, <2>2, <2>3, SlippedBooked
<1>8. CASE Tick
    <2>1. ASSUME NEW o \in Message PROVE InHand(o, message'[o], reserved, Live)
        <3>1. InHand(o, message[o], reserved, Live)
            BY DEF Booked
        <3>2. message'[o] \in {message[o], Over}
            BY <1>8 DEF Tick
        <3>3. InHand(o, Over, reserved, Live)
            BY OverIs, InHandOver
        <3>4. QED
            BY <3>1, <3>2, <3>3
    <2>2. reserved' = reserved /\ Live' = Live
        BY <1>8 DEF Tick, Live
    <2>3. QED
        BY <2>1, <2>2 DEF Booked
<1>9. CASE Restart
    <2> DEFINE ms == {r.of : r \in reserved}
    <2>1. message' = Slipped(ms) /\ reserved' = {}
        BY <1>9 DEF Restart
    <2>2. \A r \in Live : r.of \in ms
        BY DEF Live
    <2>3. \A o \in ms : \E r \in reserved : r.of = o
        OBVIOUS
    <2> HIDE DEF ms
    <2>4. QED
        BY <2>1, <2>2, <2>3, SlippedBooked
<1>10. CASE Push \/ Add \/ Pushed \/ PushFails \/ UNCHANGED vars
    BY <1>2, <1>10 DEF Push, Add, Pushed, PushFails, vars
<1>11. QED
    BY <1>3, <1>5, <1>6, <1>7, <1>8, <1>9, <1>10, CheckBooked, FailOpenBooked,
       TransmitBooked DEF Next

-----------------------------------------------------------------------------
(* The limits, over the counts, the reservations and the clock.            *)

Window(now) == {h \in Hour : h <= now /\ now < h + DayHours}

Net(c, s) == [h \in Hour |-> c[h][s].all - c[h][s].replies]
Starting(R, s) == {r \in R : r.sender = s /\ ~r.reply}
Answering(R, s) == {r \in R : r.sender = s /\ r.reply}

BegunOf(c, R, s, hs) == SumFunctionOnSet(Net(c, s), hs) + Recipients(Starting(R, s))
AnsweredOf(c, R, s, hs) ==
    SumFunctionOnSet(RepliesIn(c, s), hs) + Recipients(Answering(R, s))
BegunByAll(c, R, hs) == [s \in Sender |-> BegunOf(c, R, s, hs)]

SenderFits(c, R, s, now) ==
    /\ BegunOf(c, R, s, {now}) <= SenderPerHour
    /\ BegunOf(c, R, s, Window(now)) <= SenderPerDay
    /\ AnsweredOf(c, R, s, Window(now)) <= Larger(RepliesPerDay, SenderPerDay)

Fits(c, R, now) ==
    /\ SumFunctionOnSet(BegunByAll(c, R, Window(now)), Sender) <= WorkspacePerDay
    /\ \A s \in Sender \ {System} : SenderFits(c, R, s, now)

(* The counts the ledger can have.                                         *)
Sound(c) ==
    /\ c \in Counts
    /\ \A h \in Hour, s \in Sender : c[h][s].replies <= c[h][s].all

LEMMA NetIs ==
    ASSUME NEW c, Sound(c), NEW s \in Sender
    PROVE  /\ Addends(Net(c, s), Hour) /\ Addends(RepliesIn(c, s), Hour)
           /\ Addends(AllIn(c, s), Hour)
           /\ \A h \in Hour :
                  /\ Net(c, s)[h] = c[h][s].all - c[h][s].replies
                  /\ AllIn(c, s)[h] = Net(c, s)[h] + RepliesIn(c, s)[h]
<1>1. ASSUME NEW h \in Hour
      PROVE  /\ Net(c, s)[h] = c[h][s].all - c[h][s].replies
             /\ Net(c, s)[h] \in Nat
             /\ AllIn(c, s)[h] \in Nat /\ RepliesIn(c, s)[h] \in Nat
             /\ AllIn(c, s)[h] = Net(c, s)[h] + RepliesIn(c, s)[h]
    <2>1. /\ c[h][s].all \in Nat /\ c[h][s].replies \in Nat
          /\ AllIn(c, s)[h] = c[h][s].all /\ RepliesIn(c, s)[h] = c[h][s].replies
          /\ c[h][s].replies <= c[h][s].all
        BY CountFields DEF Sound
    <2>2. Net(c, s)[h] = c[h][s].all - c[h][s].replies
        BY DEF Net
    <2>3. QED
        BY <2>1, <2>2
<1>2. QED
    BY <1>1 DEF Addends

LEMMA NetSums ==
    ASSUME NEW c, Sound(c), NEW s \in Sender, NEW hs \in SUBSET Hour
    PROVE  /\ SumFunctionOnSet(AllIn(c, s), hs)
                 = SumFunctionOnSet(Net(c, s), hs) + SumFunctionOnSet(RepliesIn(c, s), hs)
           /\ SumFunctionOnSet(AllIn(c, s), hs) \in Nat
           /\ SumFunctionOnSet(Net(c, s), hs) \in Nat
           /\ SumFunctionOnSet(RepliesIn(c, s), hs) \in Nat
<1>1. /\ IsFiniteSet(hs)
      /\ Addends(Net(c, s), hs) /\ Addends(RepliesIn(c, s), hs) /\ Addends(AllIn(c, s), hs)
      /\ \A h \in hs : AllIn(c, s)[h] = Net(c, s)[h] + RepliesIn(c, s)[h]
    BY NetIs, HoursFinite, FS_Subset DEF Addends
<1>2. /\ SumFunctionOnSet(AllIn(c, s), hs) \in Nat
      /\ SumFunctionOnSet(Net(c, s), hs) \in Nat
      /\ SumFunctionOnSet(RepliesIn(c, s), hs) \in Nat
    BY <1>1, SumTakes
<1>3. SumFunctionOnSet(AllIn(c, s), hs)
          = SumFunctionOnSet(Net(c, s), hs) + SumFunctionOnSet(RepliesIn(c, s), hs)
    BY <1>1, SumPlus
<1>4. QED
    BY <1>2, <1>3

LEMMA BegunIsNumber ==
    ASSUME NEW c, Sound(c), NEW R \in SUBSET Reservations, NEW s \in Sender,
           NEW hs \in SUBSET Hour
    PROVE  BegunOf(c, R, s, hs) \in Nat /\ AnsweredOf(c, R, s, hs) \in Nat
<1>1. Starting(R, s) \in SUBSET Reservations /\ Answering(R, s) \in SUBSET Reservations
    BY DEF Starting, Answering
<1>2. Recipients(Starting(R, s)) \in Nat /\ Recipients(Answering(R, s)) \in Nat
    BY <1>1, RecipientsIs
<1>3. QED
    BY <1>2, NetSums DEF BegunOf, AnsweredOf

LEMMA WindowIs ==
    /\ LastDay = Window(hour)
    /\ \A now \in Hour : Window(now) \in SUBSET Hour /\ {now} \in SUBSET Hour /\ now \in Window(now)
<1>1. \A now \in Hour : now <= now /\ now < now + DayHours
    BY Numbers
<1>2. QED
    BY <1>1 DEF LastDay, Window

BookState == LedgerTypes /\ AllProper /\ Counted /\ Booked

LEMMA SoundCounts == BookState => Sound(counts) /\ reserved \in SUBSET Reservations /\ hour \in Hour
BY DEF BookState, LedgerTypes, Counted, CountedAt, Booked, Sound

LEMMA BegunIs ==
    ASSUME BookState, NEW s \in Sender, NEW hs \in SUBSET Hour
    PROVE  /\ Begun(s, hs) = BegunOf(counts, reserved, s, hs)
           /\ Replies(s, hs) + Recipients(By(s) \cap Answers)
                 = AnsweredOf(counts, reserved, s, hs)
<1>1. Sound(counts) /\ counts \in Counts
    BY SoundCounts DEF Sound
<1>2. /\ All(s, hs) = SumFunctionOnSet(AllIn(counts, s), hs)
      /\ Replies(s, hs) = SumFunctionOnSet(RepliesIn(counts, s), hs)
    BY <1>1, AllIs, RepliesIs DEF All, Replies
<1>3. By(s) \ Answers = Starting(reserved, s) /\ By(s) \cap Answers = Answering(reserved, s)
    BY DEF By, Answers, Starting, Answering
<1>4. All(s, hs) - Replies(s, hs) = SumFunctionOnSet(Net(counts, s), hs)
    BY <1>1, <1>2, NetSums
<1>5. QED
    BY <1>2, <1>3, <1>4 DEF Begun, BegunOf, AnsweredOf

InLimits == Fits(counts, reserved, hour)

LEMMA WithinIs == BookState => (WithinLimits <=> InLimits)
<1>1. SUFFICES ASSUME BookState PROVE WithinLimits <=> Fits(counts, reserved, hour)
    BY DEF InLimits
<1>2. /\ Sound(counts) /\ reserved \in SUBSET Reservations
      /\ LastDay \in SUBSET Hour /\ {hour} \in SUBSET Hour
      /\ LastDay = Window(hour)
    BY <1>1, SoundCounts, WindowIs
<1>3. \A s \in Sender, hs \in {LastDay, {hour}} :
          /\ Begun(s, hs) = BegunOf(counts, reserved, s, hs)
          /\ Replies(s, hs) + Recipients(By(s) \cap Answers)
                = AnsweredOf(counts, reserved, s, hs)
    BY <1>1, <1>2, BegunIs
<1>4. SumFunction([s \in Sender |-> Begun(s, LastDay)])
          = SumFunctionOnSet(BegunByAll(counts, reserved, LastDay), Sender)
    <2> DEFINE g == [s \in Sender |-> Begun(s, LastDay)]
               f == BegunByAll(counts, reserved, LastDay)
    <2>1. DOMAIN g = Sender /\ \A s \in Sender : g[s] = f[s] /\ f[s] \in Nat
        BY <1>2, <1>3, BegunIsNumber DEF BegunByAll
    <2> HIDE DEF g, f
    <2>2. SumFunction(g) = SumFunctionOnSet(f, Sender)
        BY <2>1, SumOf, FiniteMail DEF Addends
    <2>3. QED
        BY <2>2 DEF g, f
<1>5. QED
    BY <1>2, <1>3, <1>4 DEF WithinLimits, Fits, SenderFits

LEMMA WithinIsNext == BookState' => (WithinLimits' <=> InLimits')
BY WithinIs, PTL

LEMMA BegunSumLeq ==
    ASSUME NEW c, Sound(c), NEW d, Sound(d), NEW R \in SUBSET Reservations,
           NEW Q \in SUBSET Reservations, NEW hs \in SUBSET Hour, NEW gs \in SUBSET Hour,
           \A s \in Sender : BegunOf(d, Q, s, gs) <= BegunOf(c, R, s, hs)
    PROVE  /\ SumFunctionOnSet(BegunByAll(d, Q, gs), Sender)
                 <= SumFunctionOnSet(BegunByAll(c, R, hs), Sender)
           /\ SumFunctionOnSet(BegunByAll(d, Q, gs), Sender) \in Nat
           /\ SumFunctionOnSet(BegunByAll(c, R, hs), Sender) \in Nat
<1> DEFINE f == BegunByAll(d, Q, gs)
           g == BegunByAll(c, R, hs)
<1>1. \A s \in Sender : f[s] <= g[s] /\ f[s] \in Nat /\ g[s] \in Nat
    BY BegunIsNumber DEF BegunByAll
<1> HIDE DEF f, g
<1>2. Addends(f, Sender) /\ Addends(g, Sender) /\ IsFiniteSet(Sender)
      /\ Sender \in SUBSET Sender
    BY <1>1, FiniteMail DEF Addends
<1>3. SumFunctionOnSet(f, Sender) <= SumFunctionOnSet(g, Sender)
    BY <1>1, <1>2, SumLeq
<1>4. SumFunctionOnSet(f, Sender) \in Nat /\ SumFunctionOnSet(g, Sender) \in Nat
    BY <1>2, SumTakes
<1>5. QED
    BY <1>3, <1>4 DEF f, g

LEMMA LimitsAreNumbers ==
    /\ SenderPerHour \in Nat /\ SenderPerDay \in Nat /\ RepliesPerDay \in Nat
    /\ WorkspacePerDay \in Nat /\ Larger(RepliesPerDay, SenderPerDay) \in Nat
    /\ RepliesPerDay <= Larger(RepliesPerDay, SenderPerDay)
    /\ SenderPerDay <= Larger(RepliesPerDay, SenderPerDay)
<1>1. SenderPerDay \in Nat /\ RepliesPerDay \in Nat
    BY LedgerBounds
<1>2. QED
    BY <1>1, LedgerBounds DEF Larger

(* When nobody began more than before, the limits still hold.              *)
LEMMA StillFits ==
    ASSUME NEW c, Sound(c), NEW d, Sound(d), NEW R \in SUBSET Reservations,
           NEW Q \in SUBSET Reservations, NEW now \in Hour, NEW new \in Hour,
           Fits(c, R, now),
           \A s \in Sender :
               /\ BegunOf(d, Q, s, Window(new)) <= BegunOf(c, R, s, Window(now))
               /\ BegunOf(d, Q, s, {new}) <= BegunOf(c, R, s, {now})
               /\ AnsweredOf(d, Q, s, Window(new)) <= AnsweredOf(c, R, s, Window(now))
    PROVE  Fits(d, Q, new)
<1>1. /\ Window(now) \in SUBSET Hour /\ {now} \in SUBSET Hour
      /\ Window(new) \in SUBSET Hour /\ {new} \in SUBSET Hour
    BY WindowIs
<1>2. SumFunctionOnSet(BegunByAll(d, Q, Window(new)), Sender) <= WorkspacePerDay
    <2>1. /\ SumFunctionOnSet(BegunByAll(d, Q, Window(new)), Sender)
                <= SumFunctionOnSet(BegunByAll(c, R, Window(now)), Sender)
          /\ SumFunctionOnSet(BegunByAll(d, Q, Window(new)), Sender) \in Nat
          /\ SumFunctionOnSet(BegunByAll(c, R, Window(now)), Sender) \in Nat
        BY <1>1, BegunSumLeq
    <2>2. SumFunctionOnSet(BegunByAll(c, R, Window(now)), Sender) <= WorkspacePerDay
        BY DEF Fits
    <2>3. QED
        BY <2>1, <2>2, LimitsAreNumbers
<1>3. ASSUME NEW s \in Sender \ {System} PROVE SenderFits(d, Q, s, new)
    <2>1. /\ BegunOf(c, R, s, Window(now)) \in Nat /\ BegunOf(c, R, s, {now}) \in Nat
          /\ AnsweredOf(c, R, s, Window(now)) \in Nat
          /\ BegunOf(d, Q, s, Window(new)) \in Nat /\ BegunOf(d, Q, s, {new}) \in Nat
          /\ AnsweredOf(d, Q, s, Window(new)) \in Nat
        BY <1>1, BegunIsNumber
    <2>2. SenderFits(c, R, s, now)
        BY DEF Fits
    <2>3. QED
        BY <2>1, <2>2, LimitsAreNumbers DEF SenderFits
<1>4. QED
    BY <1>2, <1>3 DEF Fits

LEMMA FewerFits ==
    ASSUME NEW c, Sound(c), NEW R \in SUBSET Reservations, NEW Q \in SUBSET R,
           NEW now \in Hour, Fits(c, R, now)
    PROVE  Fits(c, Q, now)
<1>1. ASSUME NEW s \in Sender
      PROVE  /\ Recipients(Starting(Q, s)) <= Recipients(Starting(R, s))
             /\ Recipients(Answering(Q, s)) <= Recipients(Answering(R, s))
             /\ Recipients(Starting(Q, s)) \in Nat /\ Recipients(Starting(R, s)) \in Nat
             /\ Recipients(Answering(Q, s)) \in Nat /\ Recipients(Answering(R, s)) \in Nat
    <2>1. /\ Starting(Q, s) \in SUBSET Starting(R, s)
          /\ Starting(R, s) \in SUBSET Reservations
          /\ Starting(Q, s) \in SUBSET Reservations
          /\ Answering(Q, s) \in SUBSET Answering(R, s)
          /\ Answering(R, s) \in SUBSET Reservations
          /\ Answering(Q, s) \in SUBSET Reservations
        BY DEF Starting, Answering
    <2>2. QED
        BY <2>1, RecipientsLeq, RecipientsIs
<1>2. ASSUME NEW s \in Sender, NEW hs \in {Window(now), {now}}
      PROVE  /\ BegunOf(c, Q, s, hs) <= BegunOf(c, R, s, hs)
             /\ AnsweredOf(c, Q, s, hs) <= AnsweredOf(c, R, s, hs)
    <2>1. hs \in SUBSET Hour
        BY WindowIs
    <2>2. /\ SumFunctionOnSet(Net(c, s), hs) \in Nat
          /\ SumFunctionOnSet(RepliesIn(c, s), hs) \in Nat
        BY <2>1, NetSums
    <2>3. QED
        BY <1>1, <2>2 DEF BegunOf, AnsweredOf
<1>3. Q \in SUBSET Reservations
    OBVIOUS
<1>4. QED
    BY <1>2, <1>3, StillFits

(* Over the next hour: nothing is counted in it yet.                       *)
LEMMA NextHourSum ==
    ASSUME NEW now \in Hour, now + 1 \in Hour, NEW f, Addends(f, Hour), f[now + 1] = 0
    PROVE  /\ SumFunctionOnSet(f, Window(now + 1)) <= SumFunctionOnSet(f, Window(now))
           /\ SumFunctionOnSet(f, {now + 1}) <= SumFunctionOnSet(f, {now})
           /\ \A hs \in {Window(now), {now}, Window(now + 1), {now + 1}} :
                  SumFunctionOnSet(f, hs) \in Nat
<1> DEFINE W == Window(now)
           V == Window(now + 1)
           T == V \ {now + 1}
<1>1. now \in Nat /\ Hour \subseteq Nat /\ DayHours \in Nat
    BY Numbers
<1>2. /\ V \in SUBSET Hour /\ W \in SUBSET Hour /\ now + 1 \in V
      /\ {now} \in SUBSET Hour /\ {now + 1} \in SUBSET Hour
    BY WindowIs
<1>3. T \in SUBSET W
    <2>1. ASSUME NEW h \in T PROVE h \in W
        <3>1. h \in Hour /\ h <= now + 1 /\ now + 1 < h + DayHours /\ h # now + 1
            BY DEF Window
        <3>2. h \in Nat
            BY <1>1, <3>1
        <3>3. h <= now /\ now < h + DayHours
            BY <1>1, <3>1, <3>2
        <3>4. QED
            BY <3>1, <3>3 DEF Window
    <2>2. QED
        BY <2>1
<1>4. \A hs \in SUBSET Hour : IsFiniteSet(hs) /\ Addends(f, hs)
    BY HoursFinite, FS_Subset DEF Addends
<1> HIDE DEF W, V
<1>5. ASSUME NEW hs \in SUBSET Hour PROVE SumFunctionOnSet(f, hs) \in Nat
    BY <1>4, SumTakes
<1>6. SumFunctionOnSet(f, V) = f[now + 1] + SumFunctionOnSet(f, T)
    BY <1>2, <1>4, SumTakes
<1>7. T \in SUBSET Hour
    BY <1>2
<1>8. \A h \in T : f[h] <= f[h]
    BY <1>4, <1>7 DEF Addends
<1> HIDE DEF T
<1>9. SumFunctionOnSet(f, T) <= SumFunctionOnSet(f, W)
    BY <1>2, <1>3, <1>4, <1>7, <1>8, SumLeq
<1>10. SumFunctionOnSet(f, V) <= SumFunctionOnSet(f, W)
    BY <1>2, <1>5, <1>6, <1>7, <1>9
<1>11. SumFunctionOnSet(f, {now + 1}) = 0
    <2>1. SumFunctionOnSet(f, {now + 1})
              = f[now + 1] + SumFunctionOnSet(f, {now + 1} \ {now + 1})
        BY <1>2, <1>4, SumTakes
    <2>2. {now + 1} \ {now + 1} = {}
        OBVIOUS
    <2>3. SumFunctionOnSet(f, {}) = 0
        BY <1>4, SumTakes
    <2>4. QED
        BY <2>1, <2>2, <2>3
<1>12. SumFunctionOnSet(f, {now}) \in Nat
    BY <1>2, <1>5
<1>13. QED
    BY <1>2, <1>5, <1>10, <1>11, <1>12 DEF V, W

LEMMA TickFits ==
    ASSUME NEW c, Sound(c), NEW R \in SUBSET Reservations, NEW now \in Hour,
           CountedAt(c, now), now + 1 \in Hour, Fits(c, R, now)
    PROVE  Fits(c, R, now + 1)
<1>1. ASSUME NEW s \in Sender
      PROVE  /\ BegunOf(c, R, s, Window(now + 1)) <= BegunOf(c, R, s, Window(now))
             /\ BegunOf(c, R, s, {now + 1}) <= BegunOf(c, R, s, {now})
             /\ AnsweredOf(c, R, s, Window(now + 1)) <= AnsweredOf(c, R, s, Window(now))
    <2>1. Addends(Net(c, s), Hour) /\ Addends(RepliesIn(c, s), Hour)
        BY NetIs
    <2>2. Net(c, s)[now + 1] = 0 /\ RepliesIn(c, s)[now + 1] = 0
        <3>1. now \in Nat /\ now + 1 > now
            BY Numbers
        <3>2. c[now + 1][s].all = 0 /\ c[now + 1][s].replies <= 0
            BY <3>1 DEF CountedAt
        <3>3. c[now + 1][s].replies \in Nat /\ RepliesIn(c, s)[now + 1] = c[now + 1][s].replies
            BY CountFields DEF Sound
        <3>4. Net(c, s)[now + 1] = c[now + 1][s].all - c[now + 1][s].replies
            BY NetIs
        <3>5. QED
            BY <3>2, <3>3, <3>4
    <2>3. Recipients(Starting(R, s)) \in Nat /\ Recipients(Answering(R, s)) \in Nat
        <3>1. Starting(R, s) \in SUBSET Reservations /\ Answering(R, s) \in SUBSET Reservations
            BY DEF Starting, Answering
        <3>2. QED
            BY <3>1, RecipientsIs
    <2>4. /\ SumFunctionOnSet(Net(c, s), Window(now + 1))
                 <= SumFunctionOnSet(Net(c, s), Window(now))
          /\ SumFunctionOnSet(Net(c, s), {now + 1}) <= SumFunctionOnSet(Net(c, s), {now})
          /\ \A hs \in {Window(now), {now}, Window(now + 1), {now + 1}} :
                  SumFunctionOnSet(Net(c, s), hs) \in Nat
        BY <2>1, <2>2, NextHourSum
    <2>5. /\ SumFunctionOnSet(RepliesIn(c, s), Window(now + 1))
                 <= SumFunctionOnSet(RepliesIn(c, s), Window(now))
          /\ \A hs \in {Window(now), {now}, Window(now + 1), {now + 1}} :
                  SumFunctionOnSet(RepliesIn(c, s), hs) \in Nat
        BY <2>1, <2>2, NextHourSum
    <2>6. QED
        BY <2>3, <2>4, <2>5 DEF BegunOf, AnsweredOf
<1>2. QED
    BY <1>1, StillFits

(* A commit trades a reservation for at most as many recipients counted.   *)
LEMMA CommitFits ==
    ASSUME NEW c, Sound(c), NEW d, Sound(d), NEW R \in SUBSET Reservations,
           NEW r \in R, NEW now \in Hour, Fits(c, R, now),
           NEW k \in Nat, k <= r.n,
           d[now][r.sender].all = c[now][r.sender].all + k,
           d[now][r.sender].replies
               = c[now][r.sender].replies + IF r.reply THEN k ELSE 0,
           \A h \in Hour, s \in Sender :
               h # now \/ s # r.sender => d[h][s] = c[h][s]
    PROVE  Fits(d, R \ {r}, now)
<1> DEFINE Q == R \ {r}
           a == r.sender
<1>1. r \in Reservations /\ r.sender \in Sender /\ r.n \in Nat /\ r.reply \in BOOLEAN
    BY ReservationFields
<1>2. Q \in SUBSET Reservations /\ Q \in SUBSET R
    OBVIOUS
<1>3. ASSUME NEW s \in Sender
      PROVE  /\ Starting(Q, s) \in SUBSET Reservations /\ Starting(R, s) \in SUBSET Reservations
             /\ Answering(Q, s) \in SUBSET Reservations /\ Answering(R, s) \in SUBSET Reservations
             /\ Recipients(Starting(Q, s)) \in Nat /\ Recipients(Starting(R, s)) \in Nat
             /\ Recipients(Answering(Q, s)) \in Nat /\ Recipients(Answering(R, s)) \in Nat
             /\ Recipients(Starting(Q, s)) <= Recipients(Starting(R, s))
             /\ Recipients(Answering(Q, s)) <= Recipients(Answering(R, s))
    <2>1. /\ Starting(Q, s) \in SUBSET Starting(R, s)
          /\ Starting(R, s) \in SUBSET Reservations
          /\ Starting(Q, s) \in SUBSET Reservations
          /\ Answering(Q, s) \in SUBSET Answering(R, s)
          /\ Answering(R, s) \in SUBSET Reservations
          /\ Answering(Q, s) \in SUBSET Reservations
        BY DEF Starting, Answering
    <2>2. QED
        BY <2>1, RecipientsLeq, RecipientsIs
<1>4. ~r.reply => Recipients(Starting(R, a)) = Recipients(Starting(Q, a)) + r.n
    <2>1. SUFFICES ASSUME ~r.reply
                   PROVE  Recipients(Starting(R, a)) = Recipients(Starting(Q, a)) + r.n
        OBVIOUS
    <2>2. Starting(R, a) = Starting(Q, a) \cup {r} /\ r \in Reservations \ Starting(Q, a)
        BY <1>1, <2>1 DEF Starting
    <2>3. QED
        BY <1>1, <1>3, <2>2, RecipientsAdd
<1>5. r.reply => Recipients(Answering(R, a)) = Recipients(Answering(Q, a)) + r.n
    <2>1. SUFFICES ASSUME r.reply
                   PROVE  Recipients(Answering(R, a)) = Recipients(Answering(Q, a)) + r.n
        OBVIOUS
    <2>2. Answering(R, a) = Answering(Q, a) \cup {r} /\ r \in Reservations \ Answering(Q, a)
        BY <1>1, <2>1 DEF Answering
    <2>3. QED
        BY <1>1, <1>3, <2>2, RecipientsAdd
<1>6. ASSUME NEW s \in Sender, NEW hs \in SUBSET Hour
      PROVE  /\ IsFiniteSet(hs)
             /\ Addends(Net(c, s), hs) /\ Addends(RepliesIn(c, s), hs)
             /\ SumFunctionOnSet(Net(c, s), hs) \in Nat
             /\ SumFunctionOnSet(RepliesIn(c, s), hs) \in Nat
    BY NetIs, NetSums, HoursFinite, FS_Subset DEF Addends
<1>7. ASSUME NEW s \in Sender, NEW h \in Hour, h # now \/ s # a
      PROVE  Net(d, s)[h] = Net(c, s)[h] /\ RepliesIn(d, s)[h] = RepliesIn(c, s)[h]
    BY <1>7 DEF Net, RepliesIn
<1>8. /\ Net(d, a)[now] = Net(c, a)[now] + (IF r.reply THEN 0 ELSE k)
      /\ RepliesIn(d, a)[now] = RepliesIn(c, a)[now] + (IF r.reply THEN k ELSE 0)
    <2>1. c[now][a].all \in Nat /\ c[now][a].replies \in Nat
        BY <1>1, CountFields DEF Sound
    <2>2. QED
        BY <1>1, <2>1 DEF Net, RepliesIn
<1>9. ASSUME NEW s \in Sender, NEW hs \in {Window(now), {now}}
      PROVE  /\ BegunOf(d, Q, s, hs) <= BegunOf(c, R, s, hs)
             /\ AnsweredOf(d, Q, s, hs) <= AnsweredOf(c, R, s, hs)
    <2>1. hs \in SUBSET Hour /\ now \in hs
        BY WindowIs
    <2>2. CASE s = a
        <3> DEFINE i == IF r.reply THEN 0 ELSE k
                   j == IF r.reply THEN k ELSE 0
        <3>1. i \in Nat /\ j \in Nat
            OBVIOUS
        <3>2. \A h \in hs \ {now} :
                  Net(d, a)[h] = Net(c, a)[h] /\ RepliesIn(d, a)[h] = RepliesIn(c, a)[h]
            BY <1>1, <1>7, <2>1
        <3>3. Net(d, a)[now] = Net(c, a)[now] + i /\ RepliesIn(d, a)[now] = RepliesIn(c, a)[now] + j
            BY <1>8
        <3> HIDE DEF i, j, a, Q
        <3>4. SumFunctionOnSet(Net(d, a), hs) = SumFunctionOnSet(Net(c, a), hs) + i
            BY <1>6, <2>1, <2>2, <3>1, <3>2, <3>3, SumBump
        <3>5. SumFunctionOnSet(RepliesIn(d, a), hs)
                  = SumFunctionOnSet(RepliesIn(c, a), hs) + j
            BY <1>6, <2>1, <2>2, <3>1, <3>2, <3>3, SumBump
        <3>6. /\ SumFunctionOnSet(Net(c, a), hs) \in Nat
              /\ SumFunctionOnSet(RepliesIn(c, a), hs) \in Nat
              /\ Recipients(Starting(Q, a)) \in Nat /\ Recipients(Starting(R, a)) \in Nat
              /\ Recipients(Answering(Q, a)) \in Nat /\ Recipients(Answering(R, a)) \in Nat
              /\ Recipients(Starting(Q, a)) <= Recipients(Starting(R, a))
              /\ Recipients(Answering(Q, a)) <= Recipients(Answering(R, a))
            BY <1>3, <1>6, <2>1, <2>2
        <3>7. /\ BegunOf(d, Q, a, hs) <= BegunOf(c, R, a, hs)
              /\ AnsweredOf(d, Q, a, hs) <= AnsweredOf(c, R, a, hs)
            <4>1. CASE r.reply
                <5>1. i = 0 /\ j = k
                    BY <4>1 DEF i, j
                <5>2. QED
                    BY <1>1, <1>5, <3>4, <3>5, <3>6, <4>1, <5>1 DEF BegunOf, AnsweredOf
            <4>2. CASE ~r.reply
                <5>1. i = k /\ j = 0
                    BY <4>2 DEF i, j
                <5>2. QED
                    BY <1>1, <1>4, <3>4, <3>5, <3>6, <4>2, <5>1 DEF BegunOf, AnsweredOf
            <4>3. QED
                BY <4>1, <4>2
        <3>8. QED
            BY <2>2, <3>7
    <2>3. CASE s # a
        <3>1. /\ SumFunctionOnSet(Net(c, s), hs) = SumFunctionOnSet(Net(d, s), hs)
              /\ SumFunctionOnSet(RepliesIn(c, s), hs) = SumFunctionOnSet(RepliesIn(d, s), hs)
            <4>1. \A h \in hs : /\ Net(c, s)[h] = Net(d, s)[h]
                                /\ RepliesIn(c, s)[h] = RepliesIn(d, s)[h]
                BY <1>7, <2>1, <2>3
            <4>2. SumFunctionOnSet(Net(c, s), hs) = SumFunctionOnSet(Net(d, s), hs)
                BY <1>6, <2>1, <4>1, SumSame
            <4>3. SumFunctionOnSet(RepliesIn(c, s), hs)
                      = SumFunctionOnSet(RepliesIn(d, s), hs)
                BY <1>6, <2>1, <4>1, SumSame
            <4>4. QED
                BY <4>2, <4>3
        <3>2. /\ SumFunctionOnSet(Net(c, s), hs) \in Nat
              /\ SumFunctionOnSet(RepliesIn(c, s), hs) \in Nat
              /\ Recipients(Starting(Q, s)) \in Nat /\ Recipients(Starting(R, s)) \in Nat
              /\ Recipients(Answering(Q, s)) \in Nat /\ Recipients(Answering(R, s)) \in Nat
              /\ Recipients(Starting(Q, s)) <= Recipients(Starting(R, s))
              /\ Recipients(Answering(Q, s)) <= Recipients(Answering(R, s))
            BY <1>3, <1>6, <2>1
        <3> HIDE DEF Q, a
        <3>3. QED
            BY <3>1, <3>2 DEF BegunOf, AnsweredOf
    <2>4. QED
        BY <2>2, <2>3
<1> HIDE DEF Q, a
<1>10. Fits(d, Q, now)
    BY <1>2, <1>9, StillFits
<1>11. QED
    BY <1>10 DEF Q

(* The reservations, by sender.                                            *)
BySender(R) == [s \in Sender |-> Recipients({r \in R : r.sender = s})]

LEMMA RecipientsBySender ==
    ASSUME NEW R \in SUBSET Reservations
    PROVE  /\ Recipients(R) = SumFunctionOnSet(BySender(R), Sender)
           /\ Addends(BySender(R), Sender)
<1> DEFINE key == [r \in Reservations |-> r.sender]
           f == [s \in Sender |-> Part(Sizes, R, key, s)]
<1>1. \A r \in R : key[r] \in Sender
    BY ReservationFields
<1>2. ASSUME NEW s \in Sender
      PROVE  /\ Part(Sizes, R, key, s) = BySender(R)[s]
             /\ BySender(R)[s] \in Nat
    <2> DEFINE Q == {r \in R : r.sender = s}
    <2>1. {r \in R : key[r] = s} = Q /\ Q \in SUBSET Reservations
        OBVIOUS
    <2> HIDE DEF Q, key
    <2>2. Recipients(Q) = SumFunctionOnSet(Sizes, Q) /\ Recipients(Q) \in Nat
        BY <2>1, RecipientsIs
    <2>3. BySender(R)[s] = Recipients(Q)
        BY DEF BySender, Q
    <2>4. QED
        BY <2>1, <2>2, <2>3 DEF Part
<1>3. IsFiniteSet(R) /\ Addends(Sizes, R)
    BY ReservationsFinite, SizesAreNumbers, FS_Subset DEF Addends
<1> HIDE DEF key
<1>4. SumFunctionOnSet(Sizes, R) = SumFunctionOnSet(f, Sender)
    BY <1>1, <1>3, FiniteMail, SumPart
<1>5. f = BySender(R)
    BY <1>2 DEF BySender
<1>6. QED
    BY <1>2, <1>4, <1>5, RecipientsIs DEF Addends

(* What the ledger asks before it reserves, over the same parameters.      *)
WorkspaceRoom(c, L, n, now) ==
    SumFunctionOnSet(Sent(c, Window(now)), Sender) + Recipients(L) + n <= WorkspacePerDay

SenderRoom(c, L, s, n, now) ==
    LET pending == Recipients({r \in L : r.sender = s}) IN
    /\ SumFunctionOnSet(AllIn(c, s), {now}) + pending + n <= SenderPerHour
    /\ SumFunctionOnSet(AllIn(c, s), Window(now)) + pending + n <= SenderPerDay

RepliesRoom(c, L, s, n, now) ==
    SumFunctionOnSet(RepliesIn(c, s), Window(now)) + Recipients(Answering(L, s)) + n
        <= RepliesPerDay

Room(c, L, s, reply, n, now) ==
    IF s = System THEN WorkspaceRoom(c, L, n, now)
    ELSE \/ reply /\ RepliesRoom(c, L, s, n, now)
         \/ SenderRoom(c, L, s, n, now) /\ WorkspaceRoom(c, L, n, now)

LEMMA RoomIs ==
    ASSUME BookState, NEW s \in Sender, NEW reply \in BOOLEAN, NEW n, Allowed(s, reply, n)
    PROVE  Room(counts, Live, s, reply, n, hour)
<1>1. /\ counts \in Counts /\ hour \in Hour /\ LastDay = Window(hour)
      /\ Window(hour) \in SUBSET Hour /\ {hour} \in SUBSET Hour
    BY SoundCounts, WindowIs DEF Sound
<1>2. /\ All(s, {hour}) = SumFunctionOnSet(AllIn(counts, s), {hour})
      /\ All(s, LastDay) = SumFunctionOnSet(AllIn(counts, s), Window(hour))
      /\ Replies(s, LastDay) = SumFunctionOnSet(RepliesIn(counts, s), Window(hour))
    BY <1>1, AllIs, RepliesIs DEF All, Replies
<1>3. Workspace(LastDay) = SumFunctionOnSet(Sent(counts, Window(hour)), Sender)
    BY <1>1, WorkspaceIs DEF Workspace, All
<1>4. /\ Live \cap By(s) = {r \in Live : r.sender = s}
      /\ Live \cap By(s) \cap Answers = Answering(Live, s)
    BY DEF Live, By, Answers, Answering
<1>5. WorkspaceHasRoom(n) => WorkspaceRoom(counts, Live, n, hour)
    BY <1>3 DEF WorkspaceHasRoom, WorkspaceRoom
<1>6. SenderHasRoom(s, n) => SenderRoom(counts, Live, s, n, hour)
    BY <1>2, <1>4 DEF SenderHasRoom, SenderRoom
<1>7. WithinReplies(s, n) => RepliesRoom(counts, Live, s, n, hour)
    BY <1>2, <1>4 DEF WithinReplies, RepliesRoom
<1>8. QED
    BY <1>5, <1>6, <1>7 DEF Allowed, Room

(* With room for all in the workspace it has room for what was begun.      *)
LEMMA WorkspaceFits ==
    ASSUME NEW c, Sound(c), NEW L \in SUBSET Reservations, NEW r \in Reservations \ L,
           NEW now \in Hour, WorkspaceRoom(c, L, r.n, now)
    PROVE  SumFunctionOnSet(BegunByAll(c, L \cup {r}, Window(now)), Sender)
               <= WorkspacePerDay
<1> DEFINE R == L \cup {r}
           W == Window(now)
           f == BegunByAll(c, R, W)
           g == Sent(c, W)
           b == BySender(R)
           h == [s \in Sender |-> g[s] + b[s]]
<1>1. R \in SUBSET Reservations /\ W \in SUBSET Hour
    BY WindowIs
<1>2. Addends(g, Sender) /\ SumFunctionOnSet(g, Sender) \in Nat
    BY <1>1, WorkspaceIs DEF Sound
<1>3. Recipients(R) = SumFunctionOnSet(b, Sender) /\ Addends(b, Sender)
    BY <1>1, RecipientsBySender
<1>4. ASSUME NEW s \in Sender PROVE f[s] <= h[s] /\ f[s] \in Nat /\ h[s] \in Nat
    <2>1. /\ SumFunctionOnSet(AllIn(c, s), W)
               = SumFunctionOnSet(Net(c, s), W) + SumFunctionOnSet(RepliesIn(c, s), W)
          /\ SumFunctionOnSet(Net(c, s), W) \in Nat
          /\ SumFunctionOnSet(RepliesIn(c, s), W) \in Nat
        BY <1>1, NetSums
    <2>2. /\ Recipients(Starting(R, s)) <= Recipients({q \in R : q.sender = s})
          /\ Recipients(Starting(R, s)) \in Nat
          /\ Recipients({q \in R : q.sender = s}) \in Nat
        <3> DEFINE Q == {q \in R : q.sender = s}
        <3>1. Q \in SUBSET Reservations /\ Starting(R, s) \in SUBSET Q
              /\ Starting(R, s) \in SUBSET Reservations
            BY <1>1 DEF Starting
        <3> HIDE DEF Q
        <3>2. Recipients(Starting(R, s)) <= Recipients(Q)
              /\ Recipients(Starting(R, s)) \in Nat /\ Recipients(Q) \in Nat
            BY <3>1, RecipientsLeq, RecipientsIs
        <3>3. QED
            BY <3>2 DEF Q
    <2>3. /\ f[s] = SumFunctionOnSet(Net(c, s), W) + Recipients(Starting(R, s))
          /\ g[s] = SumFunctionOnSet(AllIn(c, s), W)
          /\ b[s] = Recipients({q \in R : q.sender = s})
          /\ h[s] = g[s] + b[s]
        BY DEF BegunByAll, BegunOf, Sent, BySender
    <2> HIDE DEF f, g, b, h, R, W
    <2>4. QED
        BY <2>1, <2>2, <2>3
<1>5. \A s \in Sender : h[s] = g[s] + b[s]
    OBVIOUS
<1>6. r.n \in Nat /\ Recipients(L) \in Nat /\ Recipients(R) = Recipients(L) + r.n
    BY RecipientsAdd, RecipientsIs, ReservationFields
<1>7. SumFunctionOnSet(g, Sender) + Recipients(L) + r.n <= WorkspacePerDay
    BY DEF WorkspaceRoom
<1> HIDE DEF f, g, b, h, R, W
<1>8. SumFunctionOnSet(h, Sender)
          = SumFunctionOnSet(g, Sender) + SumFunctionOnSet(b, Sender)
    BY <1>2, <1>3, <1>5, FiniteMail, SumPlus
<1>9. Addends(f, Sender) /\ Addends(h, Sender) /\ Sender \in SUBSET Sender
    BY <1>4 DEF Addends
<1>10. SumFunctionOnSet(f, Sender) <= SumFunctionOnSet(h, Sender)
    BY <1>4, <1>9, FiniteMail, SumLeq
<1>11. SumFunctionOnSet(f, Sender) \in Nat /\ SumFunctionOnSet(h, Sender) \in Nat
    BY <1>9, FiniteMail, SumTakes
<1>12. SumFunctionOnSet(h, Sender)
           = SumFunctionOnSet(g, Sender) + (Recipients(L) + r.n)
    BY <1>3, <1>6, <1>8
<1>13. SumFunctionOnSet(f, Sender) <= WorkspacePerDay
    BY <1>2, <1>6, <1>7, <1>10, <1>11, <1>12, LimitsAreNumbers
<1>14. QED
    BY <1>13 DEF f, R, W

LEMMA ReserveFits ==
    ASSUME NEW c, Sound(c), NEW L \in SUBSET Reservations, NEW r \in Reservations \ L,
           NEW now \in Hour, Fits(c, L, now),
           r.sender = System => ~r.reply,
           Room(c, L, r.sender, r.reply, r.n, now)
    PROVE  Fits(c, L \cup {r}, now)
<1> DEFINE R == L \cup {r}
           a == r.sender
<1>1. /\ R \in SUBSET Reservations /\ a \in Sender /\ r.n \in Nat /\ r.reply \in BOOLEAN
      /\ Window(now) \in SUBSET Hour /\ {now} \in SUBSET Hour
    BY ReservationFields, WindowIs
<1>2. ASSUME NEW s \in Sender
      PROVE  /\ s # a \/ r.reply => Starting(R, s) = Starting(L, s)
             /\ s # a \/ ~r.reply => Answering(R, s) = Answering(L, s)
    BY <1>1 DEF Starting, Answering
<1>3. SumFunctionOnSet(BegunByAll(c, R, Window(now)), Sender) <= WorkspacePerDay
    <2>1. CASE r.reply
        <3>1. \A s \in Sender : BegunOf(c, R, s, Window(now)) = BegunOf(c, L, s, Window(now))
            BY <1>2, <2>1 DEF BegunOf
        <3>2. BegunByAll(c, R, Window(now)) = BegunByAll(c, L, Window(now))
            BY <3>1 DEF BegunByAll
        <3>3. QED
            BY <3>2 DEF Fits
    <2>2. CASE ~r.reply
        <3>1. WorkspaceRoom(c, L, r.n, now)
            BY <2>2 DEF Room
        <3>2. QED
            BY <3>1, WorkspaceFits
    <2>3. QED
        BY <1>1, <2>1, <2>2
<1>4. ASSUME NEW s \in Sender \ {System}, s # a PROVE SenderFits(c, R, s, now)
    <2>1. SenderFits(c, L, s, now)
        BY DEF Fits
    <2>2. Starting(R, s) = Starting(L, s) /\ Answering(R, s) = Answering(L, s)
        BY <1>2, <1>4
    <2>3. QED
        BY <2>1, <2>2 DEF SenderFits, BegunOf, AnsweredOf
<1>5. ASSUME a # System PROVE SenderFits(c, R, a, now)
    <2> DEFINE P == {q \in L : q.sender = a}
    <2>1. SenderFits(c, L, a, now)
        BY <1>1, <1>5 DEF Fits
    <2>2. ASSUME NEW hs \in {Window(now), {now}}
          PROVE  /\ SumFunctionOnSet(AllIn(c, a), hs)
                      = SumFunctionOnSet(Net(c, a), hs) + SumFunctionOnSet(RepliesIn(c, a), hs)
                 /\ SumFunctionOnSet(Net(c, a), hs) \in Nat
                 /\ SumFunctionOnSet(RepliesIn(c, a), hs) \in Nat
        BY <1>1, NetSums
    <2>3. /\ Recipients(Starting(L, a)) \in Nat /\ Recipients(Answering(L, a)) \in Nat
          /\ Recipients(P) \in Nat
          /\ Recipients(Starting(L, a)) <= Recipients(P)
          /\ Recipients(Answering(L, a)) <= Recipients(P)
        <3>1. /\ P \in SUBSET Reservations
              /\ Starting(L, a) \in SUBSET P /\ Answering(L, a) \in SUBSET P
              /\ Starting(L, a) \in SUBSET Reservations /\ Answering(L, a) \in SUBSET Reservations
            BY DEF Starting, Answering
        <3> HIDE DEF P, a
        <3>2. QED
            BY <3>1, RecipientsLeq, RecipientsIs
    <2>4. r.reply => Recipients(Answering(R, a)) = Recipients(Answering(L, a)) + r.n
        <3>1. SUFFICES ASSUME r.reply
                       PROVE  Recipients(Answering(R, a)) = Recipients(Answering(L, a)) + r.n
            OBVIOUS
        <3>2. /\ Answering(R, a) = Answering(L, a) \cup {r}
              /\ r \in Reservations \ Answering(L, a)
              /\ Answering(L, a) \in SUBSET Reservations
            BY <3>1 DEF Answering
        <3>3. QED
            BY <3>2, RecipientsAdd
    <2>5. ~r.reply => Recipients(Starting(R, a)) = Recipients(Starting(L, a)) + r.n
        <3>1. SUFFICES ASSUME ~r.reply
                       PROVE  Recipients(Starting(R, a)) = Recipients(Starting(L, a)) + r.n
            OBVIOUS
        <3>2. /\ Starting(R, a) = Starting(L, a) \cup {r}
              /\ r \in Reservations \ Starting(L, a)
              /\ Starting(L, a) \in SUBSET Reservations
            BY <3>1 DEF Starting
        <3>3. QED
            BY <3>2, RecipientsAdd
    <2>6. /\ SenderRoom(c, L, a, r.n, now) =>
                /\ SumFunctionOnSet(AllIn(c, a), {now}) + Recipients(P) + r.n <= SenderPerHour
                /\ SumFunctionOnSet(AllIn(c, a), Window(now)) + Recipients(P) + r.n
                      <= SenderPerDay
          /\ RepliesRoom(c, L, a, r.n, now) =>
                SumFunctionOnSet(RepliesIn(c, a), Window(now)) + Recipients(Answering(L, a))
                    + r.n <= RepliesPerDay
        BY DEF SenderRoom, RepliesRoom
    <2>7. (r.reply /\ RepliesRoom(c, L, a, r.n, now)) \/ SenderRoom(c, L, a, r.n, now)
        BY <1>5 DEF Room
    <2> HIDE DEF P
    <2>8. CASE r.reply
        <3>1. Starting(R, a) = Starting(L, a)
            BY <1>1, <1>2, <2>8
        <3>2. AnsweredOf(c, R, a, Window(now)) <= Larger(RepliesPerDay, SenderPerDay)
            <4> DEFINE x == SumFunctionOnSet(RepliesIn(c, a), Window(now))
                       y == SumFunctionOnSet(AllIn(c, a), Window(now))
                       z == SumFunctionOnSet(Net(c, a), Window(now))
            <4>1. x \in Nat /\ z \in Nat /\ y = z + x
                BY <2>2
            <4>2. AnsweredOf(c, R, a, Window(now)) = x + (Recipients(Answering(L, a)) + r.n)
                BY <2>4, <2>8 DEF AnsweredOf
            <4>3. CASE x + Recipients(Answering(L, a)) + r.n <= RepliesPerDay
                BY <1>1, <2>3, <4>1, <4>2, <4>3, LimitsAreNumbers
            <4>4. CASE y + Recipients(P) + r.n <= SenderPerDay
                <5> HIDE DEF x, y, z
                <5>1. QED
                    BY <1>1, <2>3, <4>1, <4>2, <4>4, LimitsAreNumbers
            <4>5. QED
                BY <2>6, <2>7, <4>3, <4>4
        <3>3. QED
            BY <2>1, <3>1, <3>2 DEF SenderFits, BegunOf
    <2>9. CASE ~r.reply
        <3>1. Answering(R, a) = Answering(L, a)
            BY <1>1, <1>2, <2>9
        <3>2. SenderRoom(c, L, a, r.n, now)
            BY <2>7, <2>9
        <3>3. ASSUME NEW hs \in {Window(now), {now}}, NEW limit \in Nat,
                     SumFunctionOnSet(AllIn(c, a), hs) + Recipients(P) + r.n <= limit
              PROVE  BegunOf(c, R, a, hs) <= limit
            <4> DEFINE x == SumFunctionOnSet(RepliesIn(c, a), hs)
                       y == SumFunctionOnSet(AllIn(c, a), hs)
                       z == SumFunctionOnSet(Net(c, a), hs)
            <4>1. x \in Nat /\ z \in Nat /\ y = z + x /\ y + Recipients(P) + r.n <= limit
                BY <2>2, <3>3
            <4>2. BegunOf(c, R, a, hs) = z + (Recipients(Starting(L, a)) + r.n)
                BY <2>5, <2>9 DEF BegunOf
            <4> HIDE DEF x, y, z
            <4>3. QED
                BY <1>1, <2>3, <3>3, <4>1, <4>2
        <3>4. /\ BegunOf(c, R, a, {now}) <= SenderPerHour
              /\ BegunOf(c, R, a, Window(now)) <= SenderPerDay
            BY <2>6, <3>2, <3>3, LimitsAreNumbers
        <3>5. QED
            BY <2>1, <3>1, <3>4 DEF SenderFits, AnsweredOf
    <2>10. QED
        BY <1>1, <2>8, <2>9
<1> HIDE DEF R, a
<1>6. \A s \in Sender \ {System} : SenderFits(c, R, s, now)
    BY <1>4, <1>5
<1>7. Fits(c, R, now)
    BY <1>3, <1>6 DEF Fits
<1>8. QED
    BY <1>7 DEF R

(* One sender's earlier mail, and no reservations.                         *)
LEMMA StartFits ==
    ASSUME NEW t \in Sender, NEW k \in 0 .. CountedBefore, NEW c,
           c = [h \in Hour |-> [s \in Sender |->
                   [all |-> IF h = 0 /\ s = t THEN k ELSE 0, replies |-> 0]]]
    PROVE  Sound(c) /\ CountedAt(c, 0) /\ Fits(c, {}, 0)
<1>1. /\ k \in Nat /\ k <= SenderPerHour /\ k <= SenderPerDay /\ k <= WorkspacePerDay
      /\ 0 \in Hour /\ \A h \in Hour : h \in Nat
    BY LedgerBounds, Numbers
<1>2. ASSUME NEW h \in Hour, NEW s \in Sender
      PROVE  /\ c[h][s].all = IF h = 0 /\ s = t THEN k ELSE 0
             /\ c[h][s].replies = 0
    OBVIOUS
<1>3. c \in Counts
    BY <1>1 DEF Counts
<1>4. Sound(c)
    BY <1>1, <1>2, <1>3 DEF Sound
<1>5. CountedAt(c, 0)
    <2>1. \A h \in Hour : h > 0 => h # 0
        BY <1>1
    <2>2. \A h \in Hour, s \in Sender : c[h][s].replies <= c[h][s].all
        BY <1>4 DEF Sound
    <2>3. \A h \in Hour, s \in Sender : h > 0 => c[h][s].all = 0
        BY <1>2, <2>1
    <2>4. QED
        BY <2>2, <2>3 DEF CountedAt
<1>6. Recipients({}) = 0
    <2>1. /\ {} \in SUBSET Reservations /\ IsFiniteSet({}) /\ Addends(Sizes, {})
        BY FS_EmptySet DEF Addends
    <2>2. SumFunctionOnSet(Sizes, {}) = 0
        BY <2>1, SumTakes
    <2>3. QED
        BY <2>1, <2>2, RecipientsIs
<1>7. ASSUME NEW s \in Sender PROVE Starting({}, s) = {} /\ Answering({}, s) = {}
    BY DEF Starting, Answering
<1> HIDE DEF Sound
<1>8. ASSUME NEW s \in Sender, NEW hs \in SUBSET Hour, 0 \in hs
      PROVE  /\ BegunOf(c, {}, s, hs) = IF s = t THEN k ELSE 0
             /\ AnsweredOf(c, {}, s, hs) = 0
    <2>1. IsFiniteSet(hs)
        BY HoursFinite, FS_Subset
    <2>2. \A h \in hs : /\ Net(c, s)[h] = IF h = 0 /\ s = t THEN k ELSE 0
                        /\ RepliesIn(c, s)[h] = 0
        BY <1>1, <1>2 DEF Net, RepliesIn
    <2>3. SumFunctionOnSet(RepliesIn(c, s), hs) = 0
        BY <2>1, <2>2, SumZero
    <2>4. SumFunctionOnSet(Net(c, s), hs) = Net(c, s)[0]
        <3>1. Net(c, s)[0] \in Nat /\ \A h \in hs \ {0} : Net(c, s)[h] = 0
            BY <1>1, <1>8, <2>2
        <3>2. QED
            BY <1>8, <2>1, <3>1, SumSpot
    <2>5. Net(c, s)[0] = IF s = t THEN k ELSE 0
        BY <1>8, <2>2
    <2>6. BegunOf(c, {}, s, hs) = Net(c, s)[0] /\ AnsweredOf(c, {}, s, hs) = 0
        <3>1. Net(c, s)[0] \in Nat
            BY <1>1, <2>5
        <3>2. Recipients(Starting({}, s)) = 0 /\ Recipients(Answering({}, s)) = 0
            BY <1>6, <1>7
        <3>3. QED
            BY <2>3, <2>4, <3>1, <3>2 DEF BegunOf, AnsweredOf
    <2>7. QED
        BY <2>5, <2>6
<1>9. /\ Window(0) \in SUBSET Hour /\ 0 \in Window(0)
      /\ {0} \in SUBSET Hour /\ 0 \in {0}
    BY <1>1, WindowIs
<1>10. SumFunctionOnSet(BegunByAll(c, {}, Window(0)), Sender) <= WorkspacePerDay
    <2> DEFINE f == BegunByAll(c, {}, Window(0))
    <2>1. \A s \in Sender : f[s] = IF s = t THEN k ELSE 0
        BY <1>8, <1>9 DEF BegunByAll
    <2> HIDE DEF f
    <2>2. f[t] = k /\ \A s \in Sender \ {t} : f[s] = 0
        BY <2>1
    <2>3. SumFunctionOnSet(f, Sender) = f[t]
        BY <1>1, <2>2, FiniteMail, SumSpot
    <2>4. QED
        BY <1>1, <2>2, <2>3 DEF f
<1>11. ASSUME NEW s \in Sender PROVE SenderFits(c, {}, s, 0)
    <2>1. /\ BegunOf(c, {}, s, Window(0)) \in {0, k}
          /\ BegunOf(c, {}, s, {0}) \in {0, k}
          /\ AnsweredOf(c, {}, s, Window(0)) = 0
        BY <1>8, <1>9
    <2>2. QED
        BY <1>1, <2>1, LimitsAreNumbers DEF SenderFits
<1>12. Fits(c, {}, 0)
    BY <1>10, <1>11 DEF Fits
<1>13. QED
    BY <1>4, <1>5, <1>12

LEMMA LimitsInit == Init => Counted /\ InLimits
<1>1. SUFFICES ASSUME Init PROVE CountedAt(counts, hour) /\ Fits(counts, reserved, hour)
    BY DEF Counted, InLimits
<1>2. PICK t \in Sender, k \in 0 .. CountedBefore :
          counts = [h \in Hour |-> [s \in Sender |->
              [all |-> IF h = 0 /\ s = t THEN k ELSE 0, replies |-> 0]]]
    BY <1>1 DEF Init
<1>3. hour = 0 /\ reserved = {}
    BY <1>1 DEF Init
<1>4. CountedAt(counts, 0) /\ Fits(counts, {}, 0)
    BY <1>2, StartFits
<1>5. QED
    BY <1>3, <1>4

LEMMA BookInit == Init => BookState
BY TypeInit, TypeParts, LimitsInit, BookedInit DEF BookState

LEMMA BookStep ==
    ASSUME TypeOK, BookState, [Next]_vars PROVE BookState'
<1>1. LedgerTypes' /\ AllProper'
    BY TypeStep, TypeParts2
<1>2. Counted'
    BY CountedStep DEF BookState
<1>3. Booked'
    BY BookedStep DEF BookState, BookTypes
<1>4. QED
    BY <1>1, <1>2, <1>3 DEF BookState

LEMMA ReserveLimits ==
    ASSUME BookState, InLimits, NEW m \in Message, NEW s \in Sender,
           NEW reply \in BOOLEAN, Asked(m, s, reply), Reserve(m, s, reply),
           UNCHANGED <<counts, hour>>
    PROVE  InLimits'
<1> DEFINE r == Reservation(m, s, reply)
<1>1. /\ r \in Reservations /\ r.of = m /\ r.sender = s /\ r.reply = reply
      /\ r.n = RecipientsOf[m]
    BY NewReservation
<1>2. Sound(counts) /\ reserved \in SUBSET Reservations /\ hour \in Hour
    BY SoundCounts
<1>3. /\ Room(counts, Live, s, reply, RecipientsOf[m], hour)
      /\ reserved' = Live \cup {r}
    BY RoomIs DEF Reserve
<1>4. Live \in SUBSET reserved /\ Live \in SUBSET Reservations
    BY <1>2 DEF Live
<1>5. \A q \in reserved : q.of # m
    BY DEF BookState, Booked, InHand, Asked
<1> HIDE DEF r
<1>6. r \in Reservations \ Live
    BY <1>1, <1>4, <1>5
<1>7. Fits(counts, Live, hour)
    BY <1>2, <1>4, FewerFits DEF InLimits
<1>8. r.sender = System => ~r.reply
    BY <1>1 DEF Asked
<1>9. Fits(counts, Live \cup {r}, hour)
    BY <1>1, <1>2, <1>3, <1>4, <1>6, <1>7, <1>8, ReserveFits
<1>10. QED
    BY <1>3, <1>9 DEF InLimits

LEMMA FewerLimits ==
    ASSUME BookState, InLimits, reserved' \subseteq reserved, UNCHANGED <<counts, hour>>
    PROVE  InLimits'
<1>1. Fits(counts, reserved', hour)
    BY SoundCounts, FewerFits DEF InLimits
<1>2. QED
    BY <1>1 DEF InLimits

LEMMA CountSendAt ==
    ASSUME LedgerTypes, AllProper, NEW m \in Message, CountSend(m)
    PROVE  LET s == message[m].sender
               k == message[m].reached
           IN  /\ counts'[hour][s].all = counts[hour][s].all + k
               /\ counts'[hour][s].replies
                     = counts[hour][s].replies + IF message[m].reply THEN k ELSE 0
               /\ \A h \in Hour, t \in Sender :
                     h # hour \/ t # s => counts'[h][t] = counts[h][t]
               /\ s \in Sender /\ k \in Nat /\ k <= RecipientsOf[m]
<1> DEFINE s == message[m].sender
           k == message[m].reached
           old == counts[hour][s]
           more == [all |-> old.all + k,
                    replies |-> old.replies + IF message[m].reply THEN k ELSE 0]
<1>1. k \in Nat /\ s \in Sender /\ hour \in Hour /\ k <= RecipientsOf[m]
    BY DEF AllProper, Proper, MessageRecord, LedgerTypes
<1>2. counts' = [counts EXCEPT ![hour] = [counts[hour] EXCEPT ![s] = more]]
    <2>1. counts' = [counts EXCEPT ![hour][s] = more]
        BY <1>1 DEF CountSend, LedgerTypes, Counts
    <2>2. QED
        BY <2>1
<1>3. /\ more.all = old.all + k
      /\ more.replies = old.replies + IF message[m].reply THEN k ELSE 0
    OBVIOUS
<1> HIDE DEF more, k, s
<1>4. counts'[hour][s] = more
    BY <1>1, <1>2 DEF LedgerTypes, Counts
<1>5. ASSUME NEW h \in Hour, NEW t \in Sender, h # hour \/ t # s
      PROVE  counts'[h][t] = counts[h][t]
    BY <1>1, <1>2, <1>5 DEF LedgerTypes, Counts
<1>6. QED
    BY <1>1, <1>3, <1>4, <1>5 DEF k, s

LEMMA CommitLimits ==
    ASSUME BookState, BookState', InLimits, NEW m \in Message, Commit(m)
    PROVE  InLimits'
<1>1. CASE Held(m) = {}
    <2>1. UNCHANGED <<counts, hour>> /\ reserved' \subseteq reserved
        BY <1>1 DEF Commit
    <2>2. QED
        BY <2>1, FewerLimits
<1>2. CASE Held(m) # {}
    <2>1. PICK r \in reserved : r.of = m
        BY <1>2 DEF Held
    <2>2. Held(m) = {r}
        BY <2>1 DEF Held, BookState, Booked, OneEach
    <2>3. CountSend(m) /\ reserved' = reserved \ {r} /\ hour' = hour
        BY <1>2, <2>2 DEF Commit
    <2>4. r.sender = message[m].sender /\ r.reply = message[m].reply
        BY <2>1 DEF Commit, BookState, Booked, InHand, Under
    <2>5. r.n = RecipientsOf[m]
        BY <2>1, ReservationFields DEF BookState, Booked
    <2>6. Sound(counts) /\ reserved \in SUBSET Reservations /\ hour \in Hour
        BY SoundCounts
    <2>7. Sound(counts')
        BY DEF BookState, LedgerTypes, Counted, CountedAt, Sound
    <2> DEFINE k == message[m].reached
    <2>8. /\ counts'[hour][r.sender].all = counts[hour][r.sender].all + k
          /\ counts'[hour][r.sender].replies
                = counts[hour][r.sender].replies + IF r.reply THEN k ELSE 0
          /\ \A h \in Hour, t \in Sender :
                h # hour \/ t # r.sender => counts'[h][t] = counts[h][t]
          /\ k \in Nat /\ k <= r.n
        BY <2>3, <2>4, <2>5, CountSendAt DEF BookState
    <2> HIDE DEF k
    <2>9. Fits(counts', reserved \ {r}, hour)
        BY <2>6, <2>7, <2>8, CommitFits DEF InLimits
    <2>10. QED
        BY <2>3, <2>9 DEF InLimits
<1>3. QED
    BY <1>1, <1>2

LEMMA LimitsStep ==
    ASSUME BookState, BookState', InLimits, [Next]_vars
    PROVE  InLimits'
<1> USE DEF ledger, budget
<1>1. CASE UNCHANGED <<counts, hour, reserved>>
    BY <1>1 DEF InLimits
<1>2. ASSUME NEW m \in Message, NEW s \in Sender, NEW reply \in BOOLEAN,
             Check(m, s, reply) \/ FailOpen(m, s, reply)
      PROVE  InLimits'
    BY <1>1, <1>2, ReserveLimits DEF Check, FailOpen
<1>3. ASSUME NEW m \in Message,
             Refuse(m) \/ Transmit(m) \/ Release(m) \/ SettleOpen(m) \/ SettleLost(m) \/ Lapse(m)
      PROVE  InLimits'
    <2>1. UNCHANGED <<counts, hour>> /\ reserved' \subseteq reserved
        BY <1>3 DEF Refuse, Transmit, Release, SettleOpen, SettleLost, Lapse, Live
    <2>2. QED
        BY <2>1, FewerLimits
<1>4. CASE Restart
    BY <1>4, FewerLimits DEF Restart
<1>5. CASE Tick
    <2>1. hour' = hour + 1 /\ counts' = counts /\ reserved' = reserved
        BY <1>5 DEF Tick
    <2>2. Sound(counts) /\ reserved \in SUBSET Reservations /\ hour \in Hour
          /\ CountedAt(counts, hour)
        BY SoundCounts DEF BookState, Counted
    <2>3. hour + 1 \in Hour
        BY <2>1 DEF BookState, LedgerTypes
    <2>4. Fits(counts, reserved, hour + 1)
        BY <2>2, <2>3, TickFits DEF InLimits
    <2>5. QED
        BY <2>1, <2>4 DEF InLimits
<1>6. CASE Push \/ Add \/ Pushed \/ PushFails \/ UNCHANGED vars
    BY <1>1, <1>6 DEF Push, Add, Pushed, PushFails, vars
<1>7. QED
    BY <1>2, <1>3, <1>4, <1>5, <1>6, CommitLimits DEF Next

(* What was counted together with what is reserved never exceeds a limit   *)
(* of the policy: neither the workspace's day, nor a sender's hour or day, *)
(* nor the answers of a day (ledger.ts reserve and commit), whatever       *)
(* reservations lapse, calls get lost or restarts come between.            *)
THEOREM LimitsHold == Spec => []WithinLimits
<1> DEFINE Inv == TypeOK /\ BookState /\ InLimits
<1>1. Init => Inv
    BY TypeInit, BookInit, LimitsInit
<1>2. Inv /\ [Next]_vars => Inv'
    BY TypeStep, BookStep, LimitsStep
<1>3. Inv => WithinLimits
    BY WithinIs
<1>4. QED
    BY <1>1, <1>2, <1>3, PTL DEF Spec

-----------------------------------------------------------------------------
(* The mail that went out, and when it was counted.                        *)

(* A conversation that is over, and that neither a fault nor the two       *)
(* minutes took from the ledger.                                           *)
Lasting(msg) == msg.at = "done" /\ ~msg.reply /\ ~msg.slipped

(* What a sender's conversations add to what was counted in an hour.       *)
Stake(msgs, at, s, h) ==
    [m \in Message |-> IF Lasting(msgs[m]) /\ msgs[m].sender = s /\ at[m] = h
                       THEN msgs[m].reached ELSE 0]

(* `at` has the hour each was counted in, not before it was sent, and the  *)
(* counts have what was counted then.                                      *)
Trace(msgs, at, c, now) ==
    /\ \A m \in Message :
          /\ msgs[m].sentAt <= now
          /\ Lasting(msgs[m]) /\ msgs[m].reached > 0 =>
                msgs[m].sentAt <= at[m] /\ at[m] <= now
    /\ \A h \in Hour, s \in Sender :
          SumFunctionOnSet(Stake(msgs, at, s, h), Message) <= Net(c, s)[h]

Traced == \E at \in [Message -> Hour] : Trace(message, at, counts, hour)

LEMMA StakeAddends ==
    ASSUME NEW msgs \in Messages, NEW at, NEW s, NEW h
    PROVE  /\ Addends(Stake(msgs, at, s, h), Message)
           /\ SumFunctionOnSet(Stake(msgs, at, s, h), Message) \in Nat
<1>1. \A m \in Message : msgs[m].reached \in Nat
    BY DEF Messages, MessageRecord
<1>2. Addends(Stake(msgs, at, s, h), Message)
    BY <1>1 DEF Addends, Stake
<1>3. QED
    BY <1>2, FiniteMail, SumTakes

(* Nothing new is over that reached anybody.                               *)
LEMMA TraceStays ==
    ASSUME NEW msgs \in Messages, NEW at \in [Message -> Hour], NEW c, Sound(c),
           NEW now \in Hour, Trace(msgs, at, c, now),
           NEW new \in Messages, NEW then \in Hour, now <= then,
           NEW d, Sound(d),
           \A h \in Hour, s \in Sender : Net(c, s)[h] <= Net(d, s)[h],
           \A m \in Message :
              /\ new[m].sentAt <= then
              /\ \/ new[m] = msgs[m]
                 \/ ~Lasting(new[m])
                 \/ new[m].reached = 0
    PROVE  Trace(new, at, d, then)
<1>1. now \in Nat /\ then \in Nat /\ Hour \subseteq Nat
    BY Numbers
<1>2. ASSUME NEW m \in Message, Lasting(new[m]), new[m].reached > 0
      PROVE  new[m].sentAt <= at[m] /\ at[m] <= then
    <2>1. new[m] = msgs[m]
        BY <1>2
    <2>2. new[m].sentAt <= at[m] /\ at[m] <= now /\ at[m] \in Nat
        BY <1>1, <1>2, <2>1 DEF Trace
    <2>3. QED
        BY <1>1, <2>2
<1>3. ASSUME NEW h \in Hour, NEW s \in Sender
      PROVE  SumFunctionOnSet(Stake(new, at, s, h), Message) <= Net(d, s)[h]
    <2> DEFINE f == Stake(new, at, s, h)
               g == Stake(msgs, at, s, h)
    <2>1. Addends(f, Message) /\ Addends(g, Message) /\ Message \in SUBSET Message
        BY StakeAddends
    <2>2. \A m \in Message : f[m] <= g[m]
        <3>1. ASSUME NEW m \in Message PROVE f[m] <= g[m]
            <4>1. f[m] \in Nat /\ g[m] \in Nat
                BY <2>1 DEF Addends
            <4>2. f[m] = 0 \/ f[m] = g[m]
                BY DEF Stake
            <4> HIDE DEF f, g
            <4>3. QED
                BY <4>1, <4>2
        <3>2. QED
            BY <3>1
    <2>3. /\ SumFunctionOnSet(f, Message) \in Nat /\ SumFunctionOnSet(g, Message) \in Nat
          /\ SumFunctionOnSet(g, Message) <= Net(c, s)[h]
        BY StakeAddends DEF Trace
    <2>4. Net(c, s)[h] \in Nat /\ Net(d, s)[h] \in Nat /\ Net(c, s)[h] <= Net(d, s)[h]
        BY NetIs DEF Addends
    <2> HIDE DEF f, g
    <2>5. SumFunctionOnSet(f, Message) <= SumFunctionOnSet(g, Message)
        BY <2>1, <2>2, FiniteMail, SumLeq
    <2>6. SumFunctionOnSet(f, Message) <= Net(d, s)[h]
        BY <2>3, <2>4, <2>5
    <2>7. QED
        BY <2>6 DEF f
<1>4. QED
    BY <1>2, <1>3 DEF Trace

(* A commit counts what the send reached in the hour it is.                *)
LEMMA TraceCommit ==
    ASSUME message \in Messages, NEW at \in [Message -> Hour], Sound(counts),
           hour \in Hour, Trace(message, at, counts, hour),
           message' \in Messages, Sound(counts'), NEW m \in Message,
           message[m].at # "done", Lasting(message'[m]), message'[m].sentAt <= hour,
           \A o \in Message : o # m => message'[o] = message[o],
           \A h \in Hour, s \in Sender :
               Net(counts', s)[h] = Net(counts, s)[h] + IF h = hour /\ s = message'[m].sender
                                             THEN message'[m].reached ELSE 0
    PROVE  Trace(message', [at EXCEPT ![m] = hour], counts', hour)
<1> DEFINE at2 == [at EXCEPT ![m] = hour]
           k == message'[m].reached
           a == message'[m].sender
<1>1. k \in Nat /\ a \in Sender /\ hour \in Nat /\ hour <= hour
    BY Numbers DEF Messages, MessageRecord
<1>2. at2[m] = hour /\ \A o \in Message : o # m => at2[o] = at[o]
    OBVIOUS
<1>3. \A o \in Message :
          /\ message'[o].sentAt <= hour
          /\ Lasting(message'[o]) /\ message'[o].reached > 0 =>
                message'[o].sentAt <= at2[o] /\ at2[o] <= hour
    BY <1>1, <1>2 DEF Trace
<1>4. ASSUME NEW h \in Hour, NEW s \in Sender
      PROVE  SumFunctionOnSet(Stake(message', at2, s, h), Message) <= Net(counts', s)[h]
    <2> DEFINE f == Stake(message, at, s, h)
               g == Stake(message', at2, s, h)
               i == IF h = hour /\ s = a THEN k ELSE 0
    <2>1. /\ SumFunctionOnSet(f, Message) \in Nat /\ Addends(f, Message)
          /\ SumFunctionOnSet(f, Message) <= Net(counts, s)[h]
        BY StakeAddends DEF Trace
    <2>2. f[m] = 0
        BY DEF Stake, Lasting
    <2>3. i \in Nat
        BY <1>1
    <2>4. g[m] = i
        BY <1>2 DEF Stake
    <2>5. \A o \in Message \ {m} : g[o] = f[o]
        BY <1>2 DEF Stake
    <2>6. Net(counts', s)[h] = Net(counts, s)[h] + i /\ Net(counts, s)[h] \in Nat
        BY NetIs DEF Addends
    <2> HIDE DEF f, g, i
    <2>7. g[m] = f[m] + i
        BY <2>2, <2>3, <2>4
    <2>8. SumFunctionOnSet(g, Message) = SumFunctionOnSet(f, Message) + i
        BY <2>1, <2>3, <2>5, <2>7, FiniteMail, SumBump
    <2>9. SumFunctionOnSet(g, Message) <= Net(counts', s)[h]
        BY <2>1, <2>3, <2>6, <2>8
    <2>10. QED
        BY <2>9 DEF g
<1> HIDE DEF at2
<1>5. Trace(message', at2, counts', hour)
    BY <1>3, <1>4 DEF Trace
<1>6. QED
    BY <1>5 DEF at2

LEMMA TracedInit == Init => Traced
<1>1. SUFFICES ASSUME Init PROVE Traced
    OBVIOUS
<1>2. message = [m \in Message |-> Unsent] /\ hour = 0
    BY <1>1 DEF Init
<1> DEFINE at == [m \in Message |-> 0]
<1>3. at \in [Message -> Hour]
    BY Numbers
<1>4. \A m \in Message : message[m].sentAt = 0 /\ ~Lasting(message[m])
    BY <1>2, UnsentIs DEF Lasting
<1>5. Sound(counts)
    BY <1>1, BookInit, SoundCounts
<1>6. ASSUME NEW h \in Hour, NEW s \in Sender
      PROVE  SumFunctionOnSet(Stake(message, at, s, h), Message) <= Net(counts, s)[h]
    <2>1. \A m \in Message : Stake(message, at, s, h)[m] = 0
        BY <1>4 DEF Stake
    <2>2. SumFunctionOnSet(Stake(message, at, s, h), Message) = 0
        BY <2>1, FiniteMail, SumZero
    <2>3. Net(counts, s)[h] \in Nat
        BY <1>5, NetIs DEF Addends
    <2>4. QED
        BY <2>2, <2>3
<1>7. \A m \in Message :
          /\ message[m].sentAt <= hour
          /\ Lasting(message[m]) /\ message[m].reached > 0 =>
                message[m].sentAt <= at[m] /\ at[m] <= hour
    BY <1>2, <1>4
<1> HIDE DEF at
<1>8. Trace(message, at, counts, hour)
    BY <1>6, <1>7 DEF Trace
<1>9. QED
    BY <1>3, <1>8 DEF Traced

(* A step after which nothing else is over that reached anybody.           *)
LEMMA TracedStays ==
    ASSUME BookState, BookState', Traced, hour <= hour',
           \A h \in Hour, s \in Sender : Net(counts, s)[h] <= Net(counts', s)[h],
           \A m \in Message :
              /\ message'[m].sentAt <= hour'
              /\ \/ message'[m] = message[m]
                 \/ ~Lasting(message'[m])
                 \/ message'[m].reached = 0
    PROVE  Traced'
<1>1. PICK at \in [Message -> Hour] : Trace(message, at, counts, hour)
    BY DEF Traced
<1>2. /\ message \in Messages /\ message' \in Messages
      /\ Sound(counts) /\ Sound(counts') /\ hour \in Hour /\ hour' \in Hour
    BY SoundCounts DEF BookState, AllProper, LedgerTypes, Counted, CountedAt, Sound
<1>3. Trace(message', at, counts', hour')
    BY <1>1, <1>2, TraceStays
<1>4. QED
    BY <1>3 DEF Traced

LEMMA SameNet ==
    ASSUME BookState, counts' = counts
    PROVE  \A h \in Hour, s \in Sender : Net(counts, s)[h] <= Net(counts', s)[h]
<1>1. ASSUME NEW h \in Hour, NEW s \in Sender PROVE Net(counts, s)[h] \in Nat
    BY SoundCounts, NetIs DEF Addends
<1>2. QED
    BY <1>1

LEMMA SentBefore ==
    ASSUME BookState, Traced, NEW m \in Message
    PROVE  message[m].sentAt <= hour /\ message[m] \in MessageRecord /\ hour \in Nat
BY SoundCounts, Numbers DEF Traced, Trace, BookState, AllProper, Messages

LEMMA HourIsNumber == BookState => hour \in Nat
<1>1. BookState => hour \in Hour
    BY SoundCounts
<1>2. QED
    BY <1>1, Numbers

LEMMA NoCommitTraced ==
    ASSUME BookState, BookState', Traced, UNCHANGED <<counts, hour>>,
           \A m \in Message :
              /\ message'[m].sentAt \in {message[m].sentAt, 0, hour}
              /\ \/ message'[m] = message[m]
                 \/ ~Lasting(message'[m])
                 \/ message'[m].reached = 0
    PROVE  Traced'
<1>1. hour \in Nat /\ hour <= hour'
    BY HourIsNumber
<1>2. ASSUME NEW m \in Message PROVE message'[m].sentAt <= hour'
    <2>1. message[m].sentAt <= hour /\ 0 <= hour /\ hour <= hour
        BY <1>1, SentBefore
    <2>2. QED
        BY <2>1
<1>3. QED
    BY <1>1, <1>2, SameNet, TracedStays

LEMMA OverSent == Over.reached = 0 /\ Over.sentAt = 0
BY DEF Over, Unsent

(* Over without a commit: nobody was reached, or the ledger lost it.       *)
LEMMA SettleTraced ==
    ASSUME BookState, BookState', Traced, UNCHANGED <<counts, hour>>,
           NEW m \in Message, NEW slipped, Settle(m, slipped),
           slipped \/ message[m].slipped \/ message[m].reached = 0
    PROVE  Traced'
<1>1. /\ message'[m].at = "done"
      /\ \A o \in Message : o # m => message'[o] = message[o]
      /\ \/ message'[m] = Over
         \/ /\ ~slipped /\ message[m].reached # 0 /\ message[m].sentAt \in LastDay
            /\ message'[m] = [message[m] EXCEPT !.at = "done", !.held = FALSE, !.n = 0]
    BY SettleAt DEF BookState
<1>2. message[m] \in MessageRecord
    BY DEF BookState, AllProper, Messages
<1>3. /\ message'[m].sentAt \in {message[m].sentAt, 0}
      /\ ~Lasting(message'[m]) \/ message'[m].reached = 0
    <2>1. CASE message'[m] = Over
        BY <2>1, OverSent
    <2>2. CASE message'[m] # Over
        <3>1. /\ message'[m] = [message[m] EXCEPT !.at = "done", !.held = FALSE, !.n = 0]
              /\ message[m].slipped
            BY <1>1, <2>2
        <3>2. message'[m].slipped = message[m].slipped /\ message'[m].sentAt = message[m].sentAt
            BY <1>2, <3>1, ZenonT(60) DEF MessageRecord
        <3>3. QED
            BY <3>1, <3>2 DEF Lasting
    <2>3. QED
        BY <2>1, <2>2
<1>4. QED
    BY <1>1, <1>3, NoCommitTraced

LEMMA SendingTraced ==
    ASSUME BookState, BookState', Traced, UNCHANGED <<counts, hour>>,
           NEW m \in Message, NEW s \in Sender, NEW reply \in BOOLEAN,
           NEW held \in BOOLEAN, Sending(m, s, reply, held)
    PROVE  Traced'
<1>1. /\ message'[m].at = "sending" /\ message'[m].sentAt = message[m].sentAt
      /\ \A o \in Message : o # m => message'[o] = message[o]
    BY SendingAt DEF BookState
<1>2. ~Lasting(message'[m])
    BY <1>1 DEF Lasting
<1>3. QED
    BY <1>1, <1>2, NoCommitTraced

LEMMA TransmitTraced ==
    ASSUME BookState, BookState', Traced, NEW m \in Message, Transmit(m)
    PROVE  Traced'
<1>1. /\ message'[m].at = "sent" /\ message'[m].sentAt = hour
      /\ \A o \in Message : o # m => message'[o] = message[o]
    BY TransmitAt DEF BookState
<1>2. ~Lasting(message'[m])
    BY <1>1 DEF Lasting
<1>3. UNCHANGED <<counts, hour>>
    BY DEF Transmit, ledger
<1>4. QED
    BY <1>1, <1>2, <1>3, NoCommitTraced

LEMMA SlippedTraced ==
    ASSUME BookState, BookState', Traced, UNCHANGED <<counts, hour>>, NEW ms,
           message' = Slipped(ms)
    PROVE  Traced'
<1>1. ASSUME NEW m \in Message
      PROVE  /\ message'[m].sentAt = message[m].sentAt
             /\ message'[m] = message[m] \/ ~Lasting(message'[m])
    <2>1. /\ message'[m].at = message[m].at /\ message'[m].sentAt = message[m].sentAt
          /\ message[m].at = "done" => message'[m] = message[m]
        BY SlippedAt DEF BookState
    <2>2. QED
        BY <2>1 DEF Lasting
<1>2. QED
    BY <1>1, NoCommitTraced

LEMMA TickTraced ==
    ASSUME BookState, BookState', Traced, Tick
    PROVE  Traced'
<1>1. hour' = hour + 1 /\ counts' = counts /\ hour \in Nat
    BY HourIsNumber DEF Tick, ledger
<1>2. ASSUME NEW m \in Message
      PROVE  /\ message'[m].sentAt <= hour'
             /\ message'[m] = message[m] \/ message'[m].reached = 0
    <2>1. message'[m] \in {message[m], Over}
        BY DEF Tick
    <2>2. /\ message[m].sentAt <= hour /\ message[m].sentAt \in Nat
        BY SentBefore, Numbers DEF MessageRecord
    <2>3. CASE message'[m] = message[m]
        BY <1>1, <2>2, <2>3
    <2>4. CASE message'[m] = Over
        BY <1>1, <2>4, OverSent
    <2>5. QED
        BY <2>1, <2>3, <2>4
<1>3. hour <= hour'
    BY <1>1
<1>4. QED
    BY <1>1, <1>2, <1>3, SameNet, TracedStays

LEMMA CommitTraced ==
    ASSUME BookState, BookState', Traced, NEW m \in Message, Commit(m)
    PROVE  Traced'
<1> DEFINE k == message[m].reached
           a == message[m].sender
<1>1. /\ message[m].at = "sent" /\ k > 0 /\ hour' = hour
      /\ Settle(m, message[m].slipped)
    BY DEF Commit
<1>2. /\ message'[m].at = "done"
      /\ \A o \in Message : o # m => message'[o] = message[o]
      /\ \/ message'[m] = Over
         \/ /\ ~message[m].slipped /\ message[m].reached # 0
            /\ message[m].sentAt \in LastDay
            /\ message'[m] = [message[m] EXCEPT !.at = "done", !.held = FALSE, !.n = 0]
    BY <1>1, SettleAt DEF BookState
<1>3. message[m] \in MessageRecord
    BY DEF BookState, AllProper, Messages
<1>4. PICK at \in [Message -> Hour] : Trace(message, at, counts, hour)
    BY DEF Traced
<1>5. /\ message \in Messages /\ message' \in Messages
      /\ Sound(counts) /\ Sound(counts') /\ hour \in Hour
    BY SoundCounts DEF BookState, AllProper, LedgerTypes, Counted, CountedAt, Sound
<1>6. Held(m) # {} =>
        \A h \in Hour, s \in Sender :
            Net(counts', s)[h] = Net(counts, s)[h]
                + IF h = hour /\ s = a /\ ~message[m].reply THEN k ELSE 0
    <2>1. SUFFICES ASSUME Held(m) # {}, NEW h \in Hour, NEW s \in Sender
                   PROVE  Net(counts', s)[h] = Net(counts, s)[h]
                             + IF h = hour /\ s = a /\ ~message[m].reply THEN k ELSE 0
        OBVIOUS
    <2>2. CountSend(m)
        BY <2>1 DEF Commit
    <2>3. /\ counts'[hour][a].all = counts[hour][a].all + k
          /\ counts'[hour][a].replies
                = counts[hour][a].replies + IF message[m].reply THEN k ELSE 0
          /\ \A g \in Hour, t \in Sender :
                g # hour \/ t # a => counts'[g][t] = counts[g][t]
          /\ k \in Nat
        BY <2>2, CountSendAt DEF BookState
    <2>4. /\ Net(counts, s)[h] = counts[h][s].all - counts[h][s].replies
          /\ Net(counts', s)[h] = counts'[h][s].all - counts'[h][s].replies
        BY DEF Net
    <2>5. counts[h][s].all \in Nat /\ counts[h][s].replies \in Nat
        BY <1>5, CountFields DEF Sound
    <2>6. message[m].reply \in BOOLEAN
        BY <1>3 DEF MessageRecord
    <2> HIDE DEF k, a
    <2>7. CASE h = hour /\ s = a
        <3>1. CASE message[m].reply
            BY <2>3, <2>4, <2>5, <2>7, <3>1
        <3>2. CASE ~message[m].reply
            BY <2>3, <2>4, <2>5, <2>7, <3>2
        <3>3. QED
            BY <3>1, <3>2
    <2>8. CASE ~(h = hour /\ s = a)
        BY <2>3, <2>4, <2>5, <2>8
    <2>9. QED
        BY <2>7, <2>8
<1>7. \A h \in Hour, s \in Sender :
          Net(counts, s)[h] \in Nat /\ Net(counts, s)[h] <= Net(counts', s)[h]
    <2>1. CASE Held(m) = {}
        <3>1. counts' = counts
            BY <2>1 DEF Commit
        <3>2. QED
            BY <1>5, <3>1, NetIs DEF Addends
    <2>2. CASE Held(m) # {}
        <3>1. k \in Nat
            BY <1>3 DEF MessageRecord
        <3>2. \A h \in Hour, s \in Sender : Net(counts, s)[h] \in Nat
            BY <1>5, NetIs DEF Addends
        <3> HIDE DEF k, a
        <3>3. QED
            BY <1>6, <2>2, <3>1, <3>2
    <2>3. QED
        BY <2>1, <2>2
<1>8. \A o \in Message : o # m => message'[o].sentAt <= hour'
    BY <1>1, <1>2, SentBefore
<1>9. hour \in Nat /\ hour' = hour /\ hour <= hour'
    <2>1. hour \in Nat
        BY HourIsNumber
    <2>2. hour' = hour
        BY <1>1
    <2>3. QED
        BY <2>1, <2>2
<1>10. CASE ~Lasting(message'[m]) \/ message'[m].reached = 0
    <2>1. message'[m].sentAt <= hour'
        <3>1. CASE message'[m] = Over
            BY <1>9, <3>1, OverSent
        <3>2. CASE message'[m] # Over
            <4>1. message'[m].sentAt = message[m].sentAt
                BY <1>2, <1>3, <3>2 DEF MessageRecord
            <4>2. QED
                BY <1>1, <4>1, SentBefore
        <3>3. QED
            BY <3>1, <3>2
    <2>2. \A o \in Message : message'[o].sentAt <= hour'
        BY <1>8, <2>1
    <2>3. \A o \in Message :
              \/ message'[o] = message[o]
              \/ ~Lasting(message'[o])
              \/ message'[o].reached = 0
        BY <1>2, <1>10
    <2> HIDE DEF k, a
    <2>4. QED
        BY <1>7, <1>9, <2>2, <2>3, TracedStays
<1>11. CASE Lasting(message'[m]) /\ message'[m].reached # 0
    <2>1. /\ ~message[m].slipped
          /\ message'[m] = [message[m] EXCEPT !.at = "done", !.held = FALSE, !.n = 0]
        BY <1>2, <1>11, OverSent
    <2>2. /\ message'[m].sender = a /\ message'[m].reached = k
          /\ message'[m].reply = message[m].reply
          /\ message'[m].sentAt = message[m].sentAt
        BY <1>3, <2>1 DEF MessageRecord
    <2>3. Held(m) # {}
        BY <1>1, <2>1 DEF BookState, Booked, InHand, Under, Live, Held
    <2>4. ~message[m].reply
        BY <1>11, <2>2 DEF Lasting
    <2>5. \A h \in Hour, s \in Sender :
              Net(counts', s)[h] = Net(counts, s)[h]
                  + IF h = hour /\ s = message'[m].sender THEN message'[m].reached ELSE 0
        BY <1>6, <2>2, <2>3, <2>4
    <2>6. message'[m].sentAt <= hour
        BY <2>2, SentBefore
    <2>7. message[m].at # "done"
        BY <1>1
    <2> HIDE DEF k, a
    <2>8. Trace(message', [at EXCEPT ![m] = hour], counts', hour)
        <3>1. Lasting(message'[m]) /\ \A o \in Message : o # m => message'[o] = message[o]
            BY <1>2, <1>11
        <3>2. Trace(message, at, counts, hour) /\ at \in [Message -> Hour]
            BY <1>4
        <3>3. QED
            BY <1>5, <2>5, <2>6, <2>7, <3>1, <3>2, TraceCommit
    <2>9. [at EXCEPT ![m] = hour] \in [Message -> Hour]
        BY <1>5
    <2>10. QED
        BY <1>1, <2>8, <2>9 DEF Traced
<1>12. QED
    BY <1>10, <1>11

LEMMA TracedStep ==
    ASSUME BookState, BookState', Traced, [Next]_vars
    PROVE  Traced'
<1> USE DEF ledger, budget
<1>1. CASE UNCHANGED <<message, counts, hour>>
    BY <1>1 DEF Traced
<1>2. ASSUME NEW m \in Message, NEW s \in Sender, NEW reply \in BOOLEAN,
             Check(m, s, reply) \/ FailOpen(m, s, reply)
      PROVE  Traced'
    BY <1>2, SendingTraced DEF Check, FailOpen
<1>3. ASSUME NEW m \in Message, Refuse(m) PROVE Traced'
    <2>1. message[m].reached = 0
        BY <1>3, UnsentIs DEF Refuse, BookState, Booked, InHand
    <2>2. QED
        BY <1>3, <2>1, SettleTraced DEF Refuse
<1>4. ASSUME NEW m \in Message, Release(m) PROVE Traced'
    BY <1>4, SettleTraced DEF Release
<1>5. ASSUME NEW m \in Message, SettleOpen(m) PROVE Traced'
    <2>1. message[m].slipped
        BY <1>5 DEF SettleOpen, BookState, Booked, InHand, Under
    <2>2. QED
        BY <1>5, <2>1, SettleTraced DEF SettleOpen
<1>6. ASSUME NEW m \in Message, SettleLost(m) PROVE Traced'
    BY <1>6, SettleTraced DEF SettleLost
<1>7. ASSUME NEW m \in Message, Lapse(m) PROVE Traced'
    BY <1>7, SlippedTraced DEF Lapse
<1>8. CASE Restart
    BY <1>8, SlippedTraced DEF Restart
<1>9. CASE Push \/ Add \/ Pushed \/ PushFails \/ UNCHANGED vars
    BY <1>1, <1>9 DEF Push, Add, Pushed, PushFails, vars
<1>10. QED
    BY <1>2, <1>3, <1>4, <1>5, <1>6, <1>7, <1>8, <1>9, TransmitTraced, TickTraced,
       CommitTraced DEF Next

-----------------------------------------------------------------------------
(* What went out was counted, or is reserved.                              *)

(* A send under way, with the reservation it still has.                    *)
OnItsWay == [m \in Message |-> IF Under(message[m]) THEN RecipientsOf[m] ELSE 0]

(* What was reached by then, of those counted in these hours.              *)
Reached(at, hs) ==
    [m \in Message |-> IF Lasting(message[m]) /\ at[m] \in hs THEN message[m].reached ELSE 0]

Going(hs) == [m \in Message |-> To(m, hs)]

LEMMA MessageIs ==
    ASSUME BookState, NEW m \in Message
    PROVE  /\ message[m] \in MessageRecord /\ InHand(m, message[m], reserved, Live)
           /\ message[m].n <= RecipientsOf[m] /\ message[m].reached <= RecipientsOf[m]
           /\ message[m].n \in Nat /\ message[m].reached \in Nat
           /\ RecipientsOf[m] \in Nat /\ message[m].sender \in Sender
           /\ message[m].at \in {"new", "sending", "sent", "done"}
BY Numbers DEF BookState, AllProper, Messages, Proper, MessageRecord, Booked

LEMMA GoingIs ==
    ASSUME BookState, NEW at \in [Message -> Hour], Trace(message, at, counts, hour),
           NEW hs \in {Window(hour), {hour}}, NEW m \in Kept
    PROVE  /\ Going(hs)[m] <= OnItsWay[m] + Reached(at, hs)[m]
           /\ Going(hs)[m] \in Nat /\ OnItsWay[m] \in Nat /\ Reached(at, hs)[m] \in Nat
<1>1. m \in Message /\ ~message[m].reply /\ ~message[m].slipped
    BY DEF Kept
<1>2. /\ message[m] \in MessageRecord /\ InHand(m, message[m], reserved, Live)
      /\ message[m].n <= RecipientsOf[m] /\ message[m].reached <= RecipientsOf[m]
      /\ message[m].n \in Nat /\ message[m].reached \in Nat
      /\ RecipientsOf[m] \in Nat
      /\ message[m].at \in {"new", "sending", "sent", "done"}
    BY <1>1, MessageIs
<1>3. /\ Going(hs)[m] = To(m, hs)
      /\ OnItsWay[m] = IF Under(message[m]) THEN RecipientsOf[m] ELSE 0
      /\ Reached(at, hs)[m] = IF Lasting(message[m]) /\ at[m] \in hs
                              THEN message[m].reached ELSE 0
    BY <1>1 DEF Going, OnItsWay, Reached
<1>4. OnItsWay[m] \in Nat /\ Reached(at, hs)[m] \in Nat
    BY <1>2, <1>3
<1>5. CASE Under(message[m])
    <2>1. OnItsWay[m] = RecipientsOf[m]
        BY <1>3, <1>5
    <2>2. To(m, hs) \in {message[m].n, message[m].reached, 0}
        BY DEF To
    <2>3. To(m, hs) \in Nat /\ To(m, hs) <= RecipientsOf[m]
        BY <1>2, <2>2
    <2>4. QED
        BY <1>2, <1>3, <1>4, <2>1, <2>3
<1>6. CASE message[m].at = "new"
    <2>1. message[m].reached = 0
        BY <1>2, <1>6, UnsentIs DEF InHand
    <2>2. To(m, hs) = 0
        BY <1>6, <2>1 DEF To
    <2>3. QED
        BY <1>3, <1>4, <2>2
<1>7. CASE message[m].at = "done"
    <2>1. Lasting(message[m])
        BY <1>1, <1>7 DEF Lasting
    <2>2. message[m].reached > 0 /\ message[m].sentAt \in hs => at[m] \in hs
        <3>1. SUFFICES ASSUME message[m].reached > 0, message[m].sentAt \in hs
                       PROVE  at[m] \in hs
            OBVIOUS
        <3>2. message[m].sentAt <= at[m] /\ at[m] <= hour /\ at[m] \in Hour
            BY <1>1, <2>1, <3>1 DEF Trace
        <3>3. /\ message[m].sentAt \in Nat /\ at[m] \in Nat /\ hour \in Nat
              /\ DayHours \in Nat
            BY <1>2, <3>2, HourIsNumber, Numbers DEF MessageRecord
        <3>4. CASE hs = {hour}
            BY <3>1, <3>2, <3>3, <3>4
        <3>5. CASE hs = Window(hour)
            <4>1. hour < message[m].sentAt + DayHours
                BY <3>1, <3>5 DEF Window
            <4>2. hour < at[m] + DayHours
                BY <3>2, <3>3, <4>1
            <4>3. QED
                BY <3>2, <3>5, <4>2 DEF Window
        <3>6. QED
            BY <3>4, <3>5
    <2>3. To(m, hs) = IF message[m].sentAt \in hs THEN message[m].reached ELSE 0
        BY <1>7 DEF To
    <2>4. To(m, hs) \in Nat /\ To(m, hs) <= Reached(at, hs)[m]
        <3>1. CASE message[m].sentAt \in hs /\ message[m].reached > 0
            BY <1>2, <1>3, <2>1, <2>2, <2>3, <3>1
        <3>2. CASE ~(message[m].sentAt \in hs /\ message[m].reached > 0)
            <4>1. To(m, hs) = 0
                BY <1>2, <2>3, <3>2
            <4>2. QED
                BY <1>4, <4>1
        <3>3. QED
            BY <3>1, <3>2
    <2>5. QED
        BY <1>3, <1>4, <2>4
<1>8. QED
    BY <1>2, <1>5, <1>6, <1>7 DEF Under

(* The sends under way, in the reservations.                               *)
LEMMA OnItsWayIsReserved ==
    ASSUME BookState, NEW s \in Sender
    PROVE  /\ SumFunctionOnSet(OnItsWay, KeptBy(s)) <= Recipients(Starting(reserved, s))
           /\ SumFunctionOnSet(OnItsWay, KeptBy(s)) \in Nat
           /\ Recipients(Starting(reserved, s)) \in Nat
<1> DEFINE S == Starting(reserved, s)
           key == [r \in Reservations |-> r.of]
           g == [m \in Message |-> Part(Sizes, S, key, m)]
           U == KeptBy(s)
<1>1. S \in SUBSET Reservations /\ U \in SUBSET Message
    BY DEF Starting, BookState, Booked, KeptBy, Kept
<1>2. IsFiniteSet(S) /\ Addends(Sizes, S) /\ IsFiniteSet(U)
    BY <1>1, ReservationsFinite, SizesAreNumbers, FiniteMail, FS_Subset DEF Addends
<1>3. \A r \in S : key[r] \in Message
    BY <1>1, ReservationFields
<1> HIDE DEF key, S, U
<1>4. SumFunctionOnSet(Sizes, S) = SumFunctionOnSet(g, Message)
    BY <1>2, <1>3, FiniteMail, SumPart
<1>5. ASSUME NEW m \in Message PROVE g[m] \in Nat
    <2> DEFINE Q == {r \in S : key[r] = m}
    <2>1. Q \in SUBSET S
        OBVIOUS
    <2> HIDE DEF Q
    <2>2. IsFiniteSet(Q) /\ Addends(Sizes, Q)
        BY <1>2, <2>1, FS_Subset DEF Addends
    <2>3. SumFunctionOnSet(Sizes, Q) \in Nat
        BY <2>2, SumTakes
    <2>4. QED
        BY <2>3 DEF Part, Q
<1>6. ASSUME NEW m \in U PROVE OnItsWay[m] \in Nat /\ OnItsWay[m] <= g[m]
    <2>1. /\ m \in Message /\ ~message[m].reply /\ ~message[m].slipped
          /\ message[m].sender = s
        BY DEF U, KeptBy, Kept
    <2>2. InHand(m, message[m], reserved, Live) /\ RecipientsOf[m] \in Nat
        BY <2>1, MessageIs
    <2>3. OnItsWay[m] = IF Under(message[m]) THEN RecipientsOf[m] ELSE 0
        BY <2>1 DEF OnItsWay
    <2>4. CASE ~Under(message[m])
        BY <1>5, <2>1, <2>3, <2>4
    <2>5. CASE Under(message[m])
        <3>1. PICK r \in Live : r.of = m
            BY <2>1, <2>2, <2>5 DEF InHand
        <3>2. r \in reserved /\ r.sender = s /\ ~r.reply
            BY <2>1, <2>2, <2>5, <3>1 DEF InHand, Live
        <3>3. r \in S /\ r \in Reservations
            BY <1>1, <3>2 DEF S, Starting
        <3>4. r.n = RecipientsOf[m] /\ Sizes[r] = r.n /\ key[r] = m
            BY <3>1, <3>3, ReservationFields DEF Sizes, key
        <3> DEFINE Q == {q \in S : key[q] = m}
        <3>5. Q \in SUBSET S /\ r \in Q
            BY <3>3, <3>4
        <3>6. g[m] = SumFunctionOnSet(Sizes, Q)
            BY <2>1 DEF Part
        <3> HIDE DEF Q, g
        <3>7. IsFiniteSet(Q) /\ Addends(Sizes, Q)
            BY <1>2, <3>5, FS_Subset DEF Addends
        <3>8. SumFunctionOnSet(Sizes, Q) = Sizes[r] + SumFunctionOnSet(Sizes, Q \ {r})
            BY <3>5, <3>7, SumTakes
        <3>9. SumFunctionOnSet(Sizes, Q \ {r}) \in Nat
            <4>1. IsFiniteSet(Q \ {r}) /\ Addends(Sizes, Q \ {r})
                BY <3>7, FS_Subset DEF Addends
            <4>2. QED
                BY <4>1, SumTakes
        <3>10. QED
            BY <2>2, <2>3, <2>5, <3>4, <3>6, <3>8, <3>9
    <2>6. QED
        BY <2>4, <2>5
<1> HIDE DEF g
<1>7. U \in SUBSET Message /\ Addends(OnItsWay, U) /\ Addends(g, Message)
    BY <1>1, <1>5, <1>6 DEF Addends, U
<1>8. SumFunctionOnSet(OnItsWay, U) <= SumFunctionOnSet(g, Message)
    BY <1>6, <1>7, FiniteMail, SumLeq
<1>9. SumFunctionOnSet(OnItsWay, U) \in Nat
    BY <1>2, <1>7, SumTakes
<1>10. Recipients(S) = SumFunctionOnSet(Sizes, S) /\ Recipients(S) \in Nat
    BY <1>1, RecipientsIs DEF S
<1>11. QED
    BY <1>4, <1>8, <1>9, <1>10 DEF S, U

(* What was reached, in the counts.                                        *)
LEMMA ReachedIsCounted ==
    ASSUME BookState, NEW at \in [Message -> Hour], Trace(message, at, counts, hour),
           NEW hs \in SUBSET Hour, NEW s \in Sender
    PROVE  /\ SumFunctionOnSet(Reached(at, hs), KeptBy(s))
                 <= SumFunctionOnSet(Net(counts, s), hs)
           /\ SumFunctionOnSet(Reached(at, hs), KeptBy(s)) \in Nat
           /\ SumFunctionOnSet(Net(counts, s), hs) \in Nat
<1> DEFINE U == KeptBy(s)
           f == Reached(at, hs)
           g == [m \in Message |-> IF m \in U THEN f[m] ELSE 0]
           p == [h \in Hour |-> Part(g, Message, at, h)]
           q == [h \in Hour |-> IF h \in hs THEN Net(counts, s)[h] ELSE 0]
<1>1. U \in SUBSET Message /\ IsFiniteSet(U)
    BY FiniteMail, FS_Subset DEF KeptBy, Kept
<1>2. \A m \in Message : f[m] \in Nat /\ g[m] \in Nat
    BY MessageIs DEF Reached
<1>3. Addends(f, U) /\ Addends(g, Message)
    BY <1>1, <1>2 DEF Addends
<1>4. Addends(Net(counts, s), Hour) /\ Addends(Net(counts, s), hs) /\ IsFiniteSet(hs)
    BY SoundCounts, NetIs, HoursFinite, FS_Subset DEF Addends
<1>5. ASSUME NEW h \in Hour PROVE p[h] \in Nat /\ q[h] \in Nat /\ p[h] <= q[h]
    <2> DEFINE Q == {m \in Message : at[m] = h}
               k == Stake(message, at, s, h)
    <2>1. Q \in SUBSET Message /\ p[h] = SumFunctionOnSet(g, Q)
        BY DEF Part
    <2>2. IsFiniteSet(Q) /\ Addends(g, Q)
        BY <1>3, <2>1, FiniteMail, FS_Subset DEF Addends
    <2>3. q[h] = (IF h \in hs THEN Net(counts, s)[h] ELSE 0) /\ Net(counts, s)[h] \in Nat
        BY <1>4 DEF Addends
    <2>4. Addends(k, Message) /\ SumFunctionOnSet(k, Message) \in Nat
          /\ SumFunctionOnSet(k, Message) <= Net(counts, s)[h]
        BY StakeAddends DEF Trace, BookState, AllProper
    <2>5. ASSUME h \in hs, NEW m \in Q PROVE g[m] <= k[m]
        <3>1. CASE m \in U /\ Lasting(message[m])
            <4>1. k[m] = message[m].reached
                BY <3>1 DEF Stake, U, KeptBy
            <4>2. g[m] = message[m].reached
                BY <2>5, <3>1 DEF Reached
            <4>3. message[m].reached \in Nat
                BY MessageIs
            <4>4. QED
                BY <4>1, <4>2, <4>3
        <3>2. CASE ~(m \in U /\ Lasting(message[m]))
            <4>1. g[m] = 0
                BY <3>2 DEF Reached
            <4>2. k[m] \in Nat
                BY <2>4 DEF Addends
            <4>3. QED
                BY <4>1, <4>2
        <3>3. QED
            BY <3>1, <3>2
    <2>6. ASSUME h \notin hs, NEW m \in Q PROVE g[m] = 0
        BY <2>6 DEF Reached
    <2> HIDE DEF p, q, g, k, Q
    <2>7. SumFunctionOnSet(g, Q) \in Nat
        BY <2>2, SumTakes
    <2>8. CASE h \in hs
        <3>1. SumFunctionOnSet(g, Q) <= SumFunctionOnSet(k, Message)
            BY <2>1, <2>2, <2>4, <2>5, <2>8, FiniteMail, SumLeq
        <3>2. QED
            BY <2>1, <2>3, <2>4, <2>7, <2>8, <3>1
    <2>9. CASE h \notin hs
        <3>1. SumFunctionOnSet(g, Q) = 0
            BY <2>2, <2>6, <2>9, SumZero
        <3>2. QED
            BY <2>1, <2>3, <2>9, <3>1
    <2>10. QED
        BY <2>8, <2>9
<1>6. \A m \in Message : g[m] = IF m \in U THEN f[m] ELSE 0
    OBVIOUS
<1>7. \A h \in Hour : q[h] = IF h \in hs THEN Net(counts, s)[h] ELSE 0
    OBVIOUS
<1>8. \A m \in Message : at[m] \in Hour
    OBVIOUS
<1>9. SumFunctionOnSet(g, Message) = SumFunctionOnSet(p, Hour)
    <2> HIDE DEF g
    <2>1. QED
        BY <1>3, <1>8, FiniteMail, HoursFinite, SumPart
<1> HIDE DEF U, f, g, p, q
<1>10. SumFunctionOnSet(f, U) = SumFunctionOnSet(g, Message)
    BY <1>1, <1>3, <1>6, FiniteMail, SumExtend
<1>11. Addends(p, Hour) /\ Addends(q, Hour) /\ Hour \in SUBSET Hour
    BY <1>5 DEF Addends
<1>12. SumFunctionOnSet(p, Hour) <= SumFunctionOnSet(q, Hour)
    BY <1>5, <1>11, HoursFinite, SumLeq
<1>13. SumFunctionOnSet(Net(counts, s), hs) = SumFunctionOnSet(q, Hour)
    BY <1>4, <1>7, HoursFinite, SumExtend
<1>14. SumFunctionOnSet(f, U) \in Nat /\ SumFunctionOnSet(Net(counts, s), hs) \in Nat
    BY <1>1, <1>3, <1>4, SumTakes
<1>15. QED
    BY <1>9, <1>10, <1>12, <1>13, <1>14 DEF f, U

LEMMA WentIs ==
    ASSUME BookState, NEW ms \in SUBSET Kept, NEW hs
    PROVE  /\ Went(ms, hs) = SumFunctionOnSet(Going(hs), ms)
           /\ SumFunctionOnSet(Going(hs), ms) \in Nat
<1> DEFINE g == [m \in ms |-> To(m, hs)]
<1>1. ms \in SUBSET Message
    BY DEF Kept
<1>2. Addends(Going(hs), Message)
    <2>1. ASSUME NEW m \in Message PROVE To(m, hs) \in Nat
        BY MessageIs DEF To
    <2>2. QED
        BY <2>1 DEF Addends, Going
<1>3. DOMAIN g = ms /\ \A m \in ms : g[m] = Going(hs)[m]
    BY <1>1 DEF Going
<1> HIDE DEF g
<1>4. SumFunction(g) = SumFunctionOnSet(Going(hs), ms)
      /\ SumFunctionOnSet(Going(hs), ms) \in Nat
    BY <1>1, <1>2, <1>3, FiniteMail, SumOf
<1>5. QED
    BY <1>4 DEF Went, g

LEMMA WentByOne ==
    ASSUME BookState, Traced, NEW hs \in {Window(hour), {hour}}, NEW s \in Sender
    PROVE  SumFunctionOnSet(Going(hs), KeptBy(s)) <= BegunOf(counts, reserved, s, hs)
<1>1. PICK at \in [Message -> Hour] : Trace(message, at, counts, hour)
    BY DEF Traced
<1> DEFINE U == KeptBy(s)
           f == Going(hs)
           x == OnItsWay
           y == Reached(at, hs)
           z == [m \in U |-> x[m] + y[m]]
<1>2. hs \in SUBSET Hour
    BY SoundCounts, WindowIs
<1>3. U \in SUBSET Message /\ U \subseteq Kept /\ IsFiniteSet(U)
    BY FiniteMail, FS_Subset DEF KeptBy, Kept
<1>4. ASSUME NEW m \in U
      PROVE  f[m] <= z[m] /\ f[m] \in Nat /\ x[m] \in Nat /\ y[m] \in Nat
             /\ z[m] = x[m] + y[m] /\ z[m] \in Nat
    <2>1. m \in Kept /\ z[m] = x[m] + y[m]
        BY <1>3
    <2> HIDE DEF U, f, x, y, z
    <2>2. /\ f[m] <= x[m] + y[m]
          /\ f[m] \in Nat /\ x[m] \in Nat /\ y[m] \in Nat
        BY <1>1, <2>1, GoingIs DEF f, x, y
    <2>3. QED
        BY <2>1, <2>2
<1>5. /\ SumFunctionOnSet(x, U) <= Recipients(Starting(reserved, s))
      /\ SumFunctionOnSet(x, U) \in Nat
      /\ Recipients(Starting(reserved, s)) \in Nat
    BY OnItsWayIsReserved
<1>6. /\ SumFunctionOnSet(y, U) <= SumFunctionOnSet(Net(counts, s), hs)
      /\ SumFunctionOnSet(y, U) \in Nat
      /\ SumFunctionOnSet(Net(counts, s), hs) \in Nat
    BY <1>1, <1>2, ReachedIsCounted
<1> HIDE DEF U, f, x, y, z
<1>7. /\ Addends(f, U) /\ Addends(x, U) /\ Addends(y, U) /\ Addends(z, U)
      /\ U \in SUBSET U
    BY <1>4 DEF Addends
<1>8. SumFunctionOnSet(z, U) = SumFunctionOnSet(x, U) + SumFunctionOnSet(y, U)
    BY <1>3, <1>4, <1>7, SumPlus
<1>9. SumFunctionOnSet(f, U) <= SumFunctionOnSet(z, U)
    BY <1>3, <1>4, <1>7, SumLeq
<1>10. SumFunctionOnSet(f, U) \in Nat
    BY <1>3, <1>7, SumTakes
<1>11. SumFunctionOnSet(f, U) <= BegunOf(counts, reserved, s, hs)
    BY <1>5, <1>6, <1>8, <1>9, <1>10 DEF BegunOf
<1>12. QED
    BY <1>11 DEF U, f

LEMMA WentByAll ==
    ASSUME BookState, Traced
    PROVE  SumFunctionOnSet(Going(Window(hour)), Kept)
               <= SumFunctionOnSet(BegunByAll(counts, reserved, Window(hour)), Sender)
<1> DEFINE hs == Window(hour)
           f == Going(hs)
           key == [m \in Message |-> message[m].sender]
           p == [s \in Sender |-> Part(f, Kept, key, s)]
           b == BegunByAll(counts, reserved, hs)
<1>1. Kept \in SUBSET Message /\ IsFiniteSet(Kept)
    BY FiniteMail, FS_Subset DEF Kept
<1>2. Addends(f, Kept)
    <2>1. PICK at \in [Message -> Hour] : Trace(message, at, counts, hour)
        BY DEF Traced
    <2>2. QED
        BY <2>1, GoingIs DEF Addends
<1>3. \A m \in Kept : key[m] \in Sender
    BY <1>1, MessageIs
<1>4. ASSUME NEW s \in Sender PROVE p[s] \in Nat /\ b[s] \in Nat /\ p[s] <= b[s]
    <2>1. {m \in Kept : key[m] = s} = KeptBy(s) /\ KeptBy(s) \in SUBSET Kept
        BY <1>1 DEF KeptBy
    <2>2. p[s] = SumFunctionOnSet(f, KeptBy(s))
        BY <2>1 DEF Part
    <2>3. IsFiniteSet(KeptBy(s)) /\ Addends(f, KeptBy(s))
        BY <1>1, <1>2, <2>1, FS_Subset DEF Addends
    <2>4. b[s] = BegunOf(counts, reserved, s, hs) /\ b[s] \in Nat
        BY SoundCounts, WindowIs, BegunIsNumber DEF BegunByAll
    <2>5. SumFunctionOnSet(f, KeptBy(s)) <= BegunOf(counts, reserved, s, hs)
        BY WentByOne
    <2> HIDE DEF f, p, b
    <2>6. SumFunctionOnSet(f, KeptBy(s)) \in Nat
        BY <2>3, SumTakes
    <2>7. QED
        BY <2>2, <2>4, <2>5, <2>6
<1>5. SumFunctionOnSet(f, Kept) = SumFunctionOnSet(p, Sender)
    <2> HIDE DEF f, key
    <2>1. QED
        BY <1>1, <1>2, <1>3, FiniteMail, SumPart
<1> HIDE DEF f, key, p, b
<1>6. Addends(p, Sender) /\ Addends(b, Sender) /\ Sender \in SUBSET Sender
    BY <1>4 DEF Addends
<1>7. SumFunctionOnSet(p, Sender) <= SumFunctionOnSet(b, Sender)
    BY <1>4, <1>6, FiniteMail, SumLeq
<1>8. QED
    BY <1>5, <1>7 DEF f, b

LEMMA SentIs ==
    ASSUME BookState, InLimits, Traced
    PROVE  SentWithinLimits
<1>1. /\ Sound(counts) /\ reserved \in SUBSET Reservations /\ hour \in Hour
      /\ Window(hour) \in SUBSET Hour /\ {hour} \in SUBSET Hour /\ LastDay = Window(hour)
    BY SoundCounts, WindowIs
<1>2. Went(Kept, LastDay) <= WorkspacePerDay
    <2>1. /\ Went(Kept, LastDay) = SumFunctionOnSet(Going(Window(hour)), Kept)
          /\ SumFunctionOnSet(Going(Window(hour)), Kept) \in Nat
        BY <1>1, WentIs
    <2>2. SumFunctionOnSet(Going(Window(hour)), Kept)
              <= SumFunctionOnSet(BegunByAll(counts, reserved, Window(hour)), Sender)
        BY WentByAll
    <2>3. /\ SumFunctionOnSet(BegunByAll(counts, reserved, Window(hour)), Sender)
                <= WorkspacePerDay
          /\ SumFunctionOnSet(BegunByAll(counts, reserved, Window(hour)), Sender) \in Nat
        <3>1. \A s \in Sender : BegunOf(counts, reserved, s, Window(hour)) \in Nat
            BY <1>1, BegunIsNumber
        <3>2. Addends(BegunByAll(counts, reserved, Window(hour)), Sender)
            BY <3>1 DEF Addends, BegunByAll
        <3>3. SumFunctionOnSet(BegunByAll(counts, reserved, Window(hour)), Sender) \in Nat
            BY <3>2, FiniteMail, SumTakes
        <3>4. QED
            BY <3>3 DEF InLimits, Fits
    <2>4. QED
        BY <2>1, <2>2, <2>3, LimitsAreNumbers
<1>3. ASSUME NEW s \in Sender \ {System}, NEW hs \in {Window(hour), {hour}},
             NEW limit \in Nat, BegunOf(counts, reserved, s, hs) <= limit
      PROVE  Went(KeptBy(s), hs) <= limit
    <2>1. /\ Went(KeptBy(s), hs) = SumFunctionOnSet(Going(hs), KeptBy(s))
          /\ SumFunctionOnSet(Going(hs), KeptBy(s)) \in Nat
        BY WentIs DEF KeptBy
    <2>2. SumFunctionOnSet(Going(hs), KeptBy(s)) <= BegunOf(counts, reserved, s, hs)
        BY WentByOne
    <2>3. BegunOf(counts, reserved, s, hs) \in Nat
        BY <1>1, BegunIsNumber
    <2>4. QED
        BY <1>3, <2>1, <2>2, <2>3
<1>4. ASSUME NEW s \in Sender \ {System}
      PROVE  /\ Went(KeptBy(s), LastDay) <= SenderPerDay
             /\ Went(KeptBy(s), {hour}) <= SenderPerHour
    <2>1. SenderFits(counts, reserved, s, hour)
        BY DEF InLimits, Fits
    <2>2. /\ BegunOf(counts, reserved, s, {hour}) <= SenderPerHour
          /\ BegunOf(counts, reserved, s, Window(hour)) <= SenderPerDay
        BY <2>1 DEF SenderFits
    <2>3. QED
        BY <1>1, <1>3, <2>2, LimitsAreNumbers
<1>5. QED
    BY <1>2, <1>4 DEF SentWithinLimits

(* The conversations the workspace began, by its own account of what was   *)
(* transmitted, stay within the limits of the policy too, apart from the   *)
(* sends a fault or the two minutes took from the ledger (guard.ts).       *)
THEOREM SentMailIsWithinLimits == Spec => []SentWithinLimits
<1> DEFINE Inv == TypeOK /\ BookState /\ InLimits /\ Traced
<1>1. Init => Inv
    BY TypeInit, BookInit, LimitsInit, TracedInit
<1>2. Inv /\ [Next]_vars => Inv'
    BY TypeStep, BookStep, LimitsStep, TracedStep
<1>3. Inv => SentWithinLimits
    BY SentIs
<1>4. QED
    BY <1>1, <1>2, <1>3, PTL DEF Spec

-----------------------------------------------------------------------------
(* The platform's budget.                                                  *)

(* What was pushed, what the budget has and what it has twice, of a day.   *)
Of(d, day) == IF d.day = day THEN d.recipients ELSE 0
Twice(b, a, day) == IF b.day = day THEN a ELSE 0

(* A push for the day it is.                                               *)
Current(p, day) == p.at # "idle" /\ p.day = day

(* What the budget should have: what was pushed, and what is added but not *)
(* stored as pushed yet.                                                   *)
Had(p, d, day) == IF p.at = "added" /\ Current(p, day) THEN p.recipients ELSE Of(d, day)

Balanced(day, total, p, d, b, a) ==
    /\ d.day <= day /\ b.day <= day
    /\ p.at # "idle" => d.day <= p.day /\ p.day <= day
    /\ Of(d, day) <= total
    /\ Current(p, day) => /\ p.recipients <= total
                          /\ p.recipients = Of(d, day) + p.delta
    /\ p.at = "added" /\ Current(p, day) => b.day = day
    /\ Had(p, d, day) <= Of(b, day)
    /\ Of(b, day) <= Had(p, d, day) + Twice(b, a, day)

Accounts == Balanced(Day(hour), Today, push, pushed, platform, again)

PushRecord == [at : {"idle", "called", "added"}, day : Nat, recipients : Nat, delta : Nat]
DayRecord == [day : Nat, recipients : Nat]

LEMMA BudgetRecords ==
    BudgetTypes <=> /\ push \in PushRecord /\ pushed \in DayRecord
                    /\ platform \in DayRecord /\ again \in Nat
BY DEF BudgetTypes, PushRecord, DayRecord

LEMMA IdleIs == Idle \in PushRecord /\ Idle.at = "idle"
BY DEF Idle, PushRecord

LEMMA OfIsNumber ==
    ASSUME NEW d \in DayRecord, NEW day PROVE Of(d, day) \in Nat
BY DEF Of, DayRecord

(* The day's total grows.                                                  *)
LEMMA BalancedGrows ==
    ASSUME NEW day \in Nat, NEW total \in Nat, NEW more \in Nat, total <= more,
           NEW p \in PushRecord, NEW d \in DayRecord, NEW b \in DayRecord, NEW a \in Nat,
           Balanced(day, total, p, d, b, a)
    PROVE  Balanced(day, more, p, d, b, a)
<1>1. Of(d, day) \in Nat /\ p.recipients \in Nat
    BY OfIsNumber DEF PushRecord
<1>2. /\ Of(d, day) <= more
      /\ Current(p, day) => p.recipients <= more
    BY <1>1 DEF Balanced
<1>3. QED
    BY <1>2 DEF Balanced

(* A new day begins with nothing.                                          *)
LEMMA BalancedNewDay ==
    ASSUME NEW day \in Nat, NEW total \in Nat, NEW next \in Nat, day < next,
           NEW more \in Nat,
           NEW p \in PushRecord, NEW d \in DayRecord, NEW b \in DayRecord, NEW a \in Nat,
           Balanced(day, total, p, d, b, a)
    PROVE  Balanced(next, more, p, d, b, a)
<1>1. d.day \in Nat /\ b.day \in Nat /\ p.day \in Nat
    BY DEF DayRecord, PushRecord
<1>2. d.day <= day /\ b.day <= day /\ (p.at # "idle" => d.day <= p.day /\ p.day <= day)
    BY DEF Balanced
<1>3. d.day # next /\ b.day # next /\ ~Current(p, next)
    BY <1>1, <1>2 DEF Current
<1>4. Of(d, next) = 0 /\ Of(b, next) = 0 /\ Had(p, d, next) = 0 /\ Twice(b, a, next) = 0
    BY <1>3 DEF Of, Had, Twice
<1>5. d.day <= next /\ b.day <= next /\ (p.at # "idle" => d.day <= p.day /\ p.day <= next)
    BY <1>1, <1>2
<1>6. QED
    BY <1>3, <1>4, <1>5 DEF Balanced

LEMMA BalancedPush ==
    ASSUME NEW day \in Nat, NEW total \in Nat,
           NEW p \in PushRecord, NEW d \in DayRecord, NEW b \in DayRecord, NEW a \in Nat,
           Balanced(day, total, p, d, b, a), p.at = "idle",
           NEW q \in PushRecord, q.at = "called", q.day = day, q.recipients = total,
           q.delta = total - Of(d, day)
    PROVE  Balanced(day, total, q, d, b, a)
<1>1. Of(d, day) \in Nat /\ d.day \in Nat
    BY OfIsNumber DEF DayRecord
<1>2. Current(q, day) /\ Had(q, d, day) = Of(d, day) /\ Had(p, d, day) = Of(d, day)
    BY DEF Current, Had
<1>3. q.recipients <= total /\ q.recipients = Of(d, day) + q.delta
    BY <1>1
<1>4. d.day <= q.day /\ q.day <= day
    BY DEF Balanced
<1>5. QED
    BY <1>2, <1>3, <1>4 DEF Balanced

LEMMA BalancedAdd ==
    ASSUME NEW day \in Nat, NEW total \in Nat,
           NEW p \in PushRecord, NEW d \in DayRecord, NEW b \in DayRecord, NEW a \in Nat,
           Balanced(day, total, p, d, b, a), p.at = "called",
           NEW q \in PushRecord, q.at = "added", q.day = p.day, q.delta = p.delta,
           q.recipients = p.recipients,
           NEW b2 \in DayRecord, b2.day = day,
           b2.recipients = Of(b, day) + IF p.day = day THEN p.delta ELSE 0,
           NEW a2 \in Nat, a2 = Twice(b, a, day)
    PROVE  Balanced(day, total, q, d, b2, a2)
<1>1. /\ Of(d, day) \in Nat /\ Of(b, day) \in Nat /\ p.delta \in Nat /\ p.recipients \in Nat
    BY OfIsNumber DEF PushRecord
<1>2. /\ Current(q, day) <=> Current(p, day)
      /\ Current(p, day) <=> p.day = day
      /\ Had(p, d, day) = Of(d, day)
      /\ Had(q, d, day) = IF p.day = day THEN p.recipients ELSE Of(d, day)
      /\ Of(b2, day) = b2.recipients /\ Twice(b2, a2, day) = a2
    BY DEF Current, Had, Of, Twice
<1>3. Of(d, day) <= Of(b, day) /\ Of(b, day) <= Of(d, day) + a2
    BY <1>2 DEF Balanced
<1>4. /\ Had(q, d, day) <= Of(b2, day)
      /\ Of(b2, day) <= Had(q, d, day) + a2
    <2>1. CASE p.day = day
        <3>1. p.recipients = Of(d, day) + p.delta
            BY <1>2, <2>1 DEF Balanced
        <3>2. b2.recipients = Of(b, day) + p.delta /\ Had(q, d, day) = p.recipients
            BY <1>2, <2>1
        <3>3. QED
            BY <1>1, <1>2, <1>3, <3>1, <3>2
    <2>2. CASE p.day # day
        <3>1. b2.recipients = Of(b, day) /\ Had(q, d, day) = Of(d, day)
            BY <1>1, <1>2, <2>2
        <3>2. QED
            BY <1>2, <1>3, <3>1
    <2>3. QED
        BY <2>1, <2>2
<1>5. /\ d.day <= day /\ b2.day <= day
      /\ d.day <= q.day /\ q.day <= day
      /\ Of(d, day) <= total
      /\ Current(q, day) => /\ q.recipients <= total
                            /\ q.recipients = Of(d, day) + q.delta
    BY <1>2 DEF Balanced
<1>6. QED
    BY <1>2, <1>4, <1>5 DEF Balanced

LEMMA BalancedPushed ==
    ASSUME NEW day \in Nat, NEW total \in Nat,
           NEW p \in PushRecord, NEW d \in DayRecord, NEW b \in DayRecord, NEW a \in Nat,
           Balanced(day, total, p, d, b, a), p.at = "added",
           NEW d2 \in DayRecord, d2.day = p.day, d2.recipients = p.recipients,
           NEW q \in PushRecord, q.at = "idle"
    PROVE  Balanced(day, total, q, d2, b, a)
<1>1. d.day \in Nat /\ p.day \in Nat /\ p.recipients \in Nat
    BY DEF DayRecord, PushRecord
<1>2. d.day <= p.day /\ p.day <= day
    BY DEF Balanced
<1>3. ~Current(q, day) /\ Had(q, d2, day) = Of(d2, day)
    BY DEF Current, Had
<1>4. Of(d2, day) = Had(p, d, day) /\ Of(d2, day) <= total
    <2>1. CASE p.day = day
        BY <2>1 DEF Of, Had, Current, Balanced
    <2>2. CASE p.day # day
        <3>1. d.day # day
            BY <1>1, <1>2, <2>2
        <3>2. QED
            BY <2>2, <3>1 DEF Of, Had, Current, Balanced
    <2>3. QED
        BY <2>1, <2>2
<1>5. QED
    BY <1>2, <1>3, <1>4 DEF Balanced

LEMMA BalancedFails ==
    ASSUME NEW day \in Nat, NEW total \in Nat,
           NEW p \in PushRecord, NEW d \in DayRecord, NEW b \in DayRecord, NEW a \in Nat,
           Balanced(day, total, p, d, b, a),
           NEW q \in PushRecord, q.at = "idle",
           NEW a2, a2 = a + IF p.at = "added" /\ p.day = b.day THEN p.delta ELSE 0
    PROVE  Balanced(day, total, q, d, b, a2)
<1>1. Of(d, day) \in Nat /\ Of(b, day) \in Nat /\ p.delta \in Nat /\ p.recipients \in Nat
      /\ a2 \in Nat
    BY OfIsNumber DEF PushRecord
<1>2. ~Current(q, day) /\ Had(q, d, day) = Of(d, day)
    BY DEF Current, Had
<1>3. Of(d, day) <= Of(b, day) /\ Of(b, day) <= Of(d, day) + Twice(b, a2, day)
    <2>1. CASE p.at = "added" /\ Current(p, day)
        <3>1. b.day = day /\ p.day = day
            BY <2>1 DEF Balanced, Current
        <3>2. a2 = a + p.delta /\ Twice(b, a2, day) = a2 /\ Twice(b, a, day) = a
            BY <2>1, <3>1 DEF Twice
        <3>3. Had(p, d, day) = p.recipients /\ p.recipients = Of(d, day) + p.delta
            BY <2>1 DEF Had, Balanced
        <3>4. p.recipients <= Of(b, day) /\ Of(b, day) <= p.recipients + a
            BY <3>2, <3>3 DEF Balanced
        <3>5. QED
            BY <1>1, <3>2, <3>3, <3>4
    <2>2. CASE ~(p.at = "added" /\ Current(p, day))
        <3>1. Had(p, d, day) = Of(d, day)
            BY <2>2 DEF Had
        <3>2. Of(d, day) <= Of(b, day) /\ Of(b, day) <= Of(d, day) + Twice(b, a, day)
            BY <3>1 DEF Balanced
        <3>3. /\ Twice(b, a, day) <= Twice(b, a2, day)
              /\ Twice(b, a, day) \in Nat /\ Twice(b, a2, day) \in Nat
            BY <1>1 DEF Twice
        <3>4. QED
            BY <1>1, <3>2, <3>3
    <2>3. QED
        BY <2>1, <2>2
<1>4. QED
    BY <1>2, <1>3 DEF Balanced

HoursOfDay(now) == {h \in Hour : h <= now /\ Day(h) = Day(now)}

LEMMA TodayIs ==
    ASSUME LedgerTypes
    PROVE  /\ Today = SumFunctionOnSet(Sent(counts, HoursOfDay(hour)), Sender)
           /\ Today \in Nat
<1>1. counts \in Counts /\ HoursOfDay(hour) \in SUBSET Hour
    BY DEF LedgerTypes, HoursOfDay
<1>2. Workspace(HoursOfDay(hour)) = SumFunctionOnSet(Sent(counts, HoursOfDay(hour)), Sender)
      /\ SumFunctionOnSet(Sent(counts, HoursOfDay(hour)), Sender) \in Nat
    BY <1>1, WorkspaceIs DEF Workspace, All
<1>3. Today = Workspace(HoursOfDay(hour))
    BY DEF Today, HoursOfDay
<1>4. QED
    BY <1>2, <1>3

TodayCounted ==
    /\ Today = SumFunctionOnSet(Sent(counts, HoursOfDay(hour)), Sender)
    /\ Today \in Nat

LEMMA TodayCounts == LedgerTypes => TodayCounted
BY TodayIs DEF TodayCounted

LEMMA TodayCountsNext == LedgerTypes' => TodayCounted'
BY TodayCounts, PTL

LEMMA TodayIsNext ==
    ASSUME LedgerTypes'
    PROVE  /\ Today' = SumFunctionOnSet(Sent(counts', HoursOfDay(hour')), Sender)
           /\ Today' \in Nat
BY TodayCountsNext DEF TodayCounted

(* More hours, and more counted in each.                                   *)
LEMMA SentGrows ==
    ASSUME NEW c \in Counts, NEW d \in Counts, NEW hs \in SUBSET Hour,
           NEW gs \in SUBSET Hour, hs \subseteq gs,
           \A h \in Hour, s \in Sender : c[h][s].all <= d[h][s].all
    PROVE  SumFunctionOnSet(Sent(c, hs), Sender) <= SumFunctionOnSet(Sent(d, gs), Sender)
<1> DEFINE f == Sent(c, hs)
           g == Sent(d, gs)
<1>1. ASSUME NEW s \in Sender PROVE f[s] <= g[s]
    <2> DEFINE a == AllIn(c, s)
               b == AllIn(d, s)
    <2>1. /\ Addends(a, Hour) /\ Addends(b, Hour) /\ \A h \in Hour : a[h] <= b[h]
        BY CountFields DEF Addends
    <2>2. IsFiniteSet(gs) /\ Addends(a, hs) /\ Addends(b, gs) /\ \A h \in hs : a[h] <= b[h]
        BY <2>1, HoursFinite, FS_Subset DEF Addends
    <2>3. f[s] = SumFunctionOnSet(a, hs) /\ g[s] = SumFunctionOnSet(b, gs)
        BY DEF Sent
    <2> HIDE DEF a, b, f, g
    <2>4. hs \in SUBSET gs
        OBVIOUS
    <2>5. SumFunctionOnSet(a, hs) <= SumFunctionOnSet(b, gs)
        BY <2>2, <2>4, SumLeq
    <2>6. QED
        BY <2>3, <2>5
<1>2. Addends(f, Sender) /\ Addends(g, Sender) /\ Sender \in SUBSET Sender
    BY WorkspaceIs
<1> HIDE DEF f, g
<1>3. SumFunctionOnSet(f, Sender) <= SumFunctionOnSet(g, Sender)
    BY <1>1, <1>2, FiniteMail, SumLeq
<1>4. QED
    BY <1>3 DEF f, g

LEMMA TodayGrows ==
    ASSUME LedgerTypes, LedgerTypes', hour <= hour', Day(hour) = Day(hour'),
           \A h \in Hour, s \in Sender : counts[h][s].all <= counts'[h][s].all
    PROVE  Today <= Today'
<1>1. /\ counts \in Counts /\ counts' \in Counts /\ hour \in Hour /\ hour' \in Hour
    BY DEF LedgerTypes
<1>2. /\ HoursOfDay(hour) \in SUBSET Hour /\ HoursOfDay(hour') \in SUBSET Hour
      /\ HoursOfDay(hour) \subseteq HoursOfDay(hour')
    <2>1. \A h \in Hour : h \in Nat
        BY Numbers
    <2>2. \A h \in Hour : h <= hour => h <= hour'
        BY <1>1, <2>1
    <2>3. QED
        BY <2>2 DEF HoursOfDay
<1>3. SumFunctionOnSet(Sent(counts, HoursOfDay(hour)), Sender)
          <= SumFunctionOnSet(Sent(counts', HoursOfDay(hour')), Sender)
    BY <1>1, <1>2, SentGrows
<1>4. QED
    BY <1>3, TodayIs, TodayIsNext

LEMMA DayGrows ==
    ASSUME NEW h \in Hour, NEW g \in Hour, h <= g
    PROVE  Day(h) \in Nat /\ Day(g) \in Nat /\ Day(h) <= Day(g)
<1>1. h \in Nat /\ g \in Nat /\ DayHours \in Nat \ {0}
    BY Numbers
<1>2. h \div DayHours \in Nat /\ g \div DayHours \in Nat /\ h \div DayHours <= g \div DayHours
    BY <1>1
<1>3. QED
    BY <1>2 DEF Day

LEMMA AccountsInit == Init => Accounts
<1>1. SUFFICES ASSUME Init PROVE Accounts
    OBVIOUS
<1>2. LedgerTypes
    BY <1>1, TypeInit, TypeParts
<1>3. Today \in Nat /\ Day(hour) \in Nat
    BY <1>2, TodayIs, Numbers DEF LedgerTypes
<1>4. push.at = "idle" /\ pushed = [day |-> 0, recipients |-> 0]
      /\ platform = [day |-> 0, recipients |-> 0] /\ again = 0
    BY <1>1, IdleIs DEF Init
<1>5. /\ Of(pushed, Day(hour)) = 0 /\ Of(platform, Day(hour)) = 0
      /\ ~Current(push, Day(hour)) /\ Had(push, pushed, Day(hour)) = 0
      /\ Twice(platform, again, Day(hour)) = 0
    BY <1>4 DEF Of, Current, Had, Twice
<1>6. QED
    BY <1>3, <1>4, <1>5 DEF Accounts, Balanced

(* Time passes, or mail is counted, and the budget is left alone.          *)
LEMMA AccountsGrow ==
    ASSUME TypeOK, TypeOK', Accounts, UNCHANGED budget, hour <= hour',
           \A h \in Hour, s \in Sender : counts[h][s].all <= counts'[h][s].all
    PROVE  Accounts'
<1>1. LedgerTypes /\ LedgerTypes' /\ BudgetTypes
    BY TypeParts, TypeParts2
<1>2. /\ Today \in Nat /\ Today' \in Nat
      /\ push \in PushRecord /\ pushed \in DayRecord /\ platform \in DayRecord /\ again \in Nat
    BY <1>1, TodayIs, TodayIsNext, BudgetRecords
<1>3. hour \in Hour /\ hour' \in Hour
    BY <1>1 DEF LedgerTypes
<1>4. Day(hour) \in Nat /\ Day(hour') \in Nat /\ Day(hour) <= Day(hour')
    BY <1>3, DayGrows
<1>5. Balanced(Day(hour'), Today', push, pushed, platform, again)
    <2>1. CASE Day(hour) = Day(hour')
        <3>1. Today <= Today'
            BY <1>1, <2>1, TodayGrows
        <3>2. Balanced(Day(hour), Today', push, pushed, platform, again)
            BY <1>2, <1>4, <3>1, BalancedGrows DEF Accounts
        <3>3. QED
            BY <2>1, <3>2
    <2>2. CASE Day(hour) # Day(hour')
        <3>1. Day(hour) < Day(hour')
            BY <1>4, <2>2
        <3>2. QED
            BY <1>2, <1>4, <3>1, BalancedNewDay DEF Accounts
    <2>3. QED
        BY <2>1, <2>2
<1>6. QED
    BY <1>5 DEF Accounts, budget

LEMMA AccountsStep ==
    ASSUME TypeOK, TypeOK', Accounts, [Next]_vars
    PROVE  Accounts'
<1> USE DEF ledger
<1>1. LedgerTypes /\ LedgerTypes' /\ BudgetTypes /\ BudgetTypes' /\ AllProper
    BY TypeParts, TypeParts2
<1>2. /\ Today \in Nat /\ Today' \in Nat
      /\ push \in PushRecord /\ pushed \in DayRecord /\ platform \in DayRecord /\ again \in Nat
      /\ push' \in PushRecord /\ pushed' \in DayRecord /\ platform' \in DayRecord
      /\ again' \in Nat
    BY <1>1, TodayIs, TodayIsNext, BudgetRecords DEF BudgetTypes, PushRecord, DayRecord
<1>3. hour \in Hour /\ hour \in Nat /\ Day(hour) \in Nat /\ hour <= hour
    BY <1>1, Numbers DEF LedgerTypes
<1>4. \A h \in Hour, s \in Sender : counts[h][s].all \in Nat /\ counts[h][s].all <= counts[h][s].all
    <2>1. \A h \in Hour, s \in Sender : counts[h][s].all \in Nat
        BY <1>1, CountFields DEF LedgerTypes
    <2>2. QED
        BY <2>1
<1>5. UNCHANGED <<hour, counts, budget>> => Accounts'
    BY <1>3, <1>4, AccountsGrow
<1>6. UNCHANGED <<hour, counts>> => Day(hour') = Day(hour) /\ Today' = Today
    BY <1>1, TodayIs, TodayIsNext
<1>7. CASE Tick
    <2>1. hour' = hour + 1 /\ counts' = counts /\ UNCHANGED budget
        BY <1>7 DEF Tick
    <2>2. hour <= hour'
        BY <1>3, <2>1
    <2>3. QED
        BY <1>4, <2>1, <2>2, AccountsGrow
<1>8. ASSUME NEW m \in Message, Commit(m) PROVE Accounts'
    <2>1. hour' = hour /\ UNCHANGED budget
        BY <1>8 DEF Commit
    <2>2. ASSUME NEW h \in Hour, NEW s \in Sender
          PROVE  counts[h][s].all <= counts'[h][s].all
        <3>1. CASE Held(m) = {}
            BY <1>4, <1>8, <3>1 DEF Commit
        <3>2. CASE Held(m) # {}
            <4> DEFINE k == message[m].reached
                       a == message[m].sender
            <4>1. CountSend(m)
                BY <1>8, <3>2 DEF Commit
            <4>2. /\ counts'[hour][a].all = counts[hour][a].all + k
                  /\ \A g \in Hour, t \in Sender :
                        g # hour \/ t # a => counts'[g][t] = counts[g][t]
                  /\ k \in Nat
                BY <1>1, <4>1, CountSendAt
            <4> HIDE DEF k, a
            <4>3. CASE h = hour /\ s = a
                BY <1>4, <4>2, <4>3
            <4>4. CASE ~(h = hour /\ s = a)
                BY <1>4, <4>2, <4>4
            <4>5. QED
                BY <4>3, <4>4
        <3>3. QED
            BY <3>1, <3>2
    <2>3. hour <= hour'
        BY <1>3, <2>1
    <2>4. QED
        BY <2>1, <2>2, <2>3, AccountsGrow
<1>9. CASE Push
    <2> DEFINE delta == Today - IF pushed.day = Day(hour) THEN pushed.recipients ELSE 0
    <2>1. /\ push.at = "idle"
          /\ push' = [at |-> "called", day |-> Day(hour), recipients |-> Today, delta |-> delta]
          /\ UNCHANGED <<hour, counts, pushed, platform, again>>
        BY <1>9 DEF Push
    <2>2. delta = Today - Of(pushed, Day(hour))
        BY DEF Of
    <2>3. /\ push'.at = "called" /\ push'.day = Day(hour) /\ push'.recipients = Today
          /\ push'.delta = Today - Of(pushed, Day(hour))
        BY <2>1, <2>2
    <2> HIDE DEF delta
    <2>4. Balanced(Day(hour), Today, push', pushed, platform, again)
        BY <1>2, <1>3, <2>1, <2>3, BalancedPush DEF Accounts
    <2>5. QED
        BY <1>6, <2>1, <2>4 DEF Accounts
<1>10. CASE Add
    <2>1. /\ push.at = "called" /\ push' = [push EXCEPT !.at = "added"]
          /\ platform'.day = Day(hour)
          /\ platform'.recipients = Of(platform, Day(hour))
                 + IF push.day = Day(hour) THEN push.delta ELSE 0
          /\ again' = Twice(platform, again, Day(hour))
          /\ UNCHANGED <<hour, counts, pushed>>
        BY <1>10 DEF Add, Of, Twice
    <2>2. /\ push'.at = "added" /\ push'.day = push.day /\ push'.delta = push.delta
          /\ push'.recipients = push.recipients
        BY <1>2, <2>1 DEF PushRecord
    <2>3. Balanced(Day(hour), Today, push', pushed, platform', again')
        BY <1>2, <1>3, <2>1, <2>2, BalancedAdd DEF Accounts
    <2>4. QED
        BY <1>6, <2>1, <2>3 DEF Accounts
<1>11. CASE Pushed
    <2>1. /\ push.at = "added" /\ pushed' = [day |-> push.day, recipients |-> push.recipients]
          /\ push' = Idle /\ UNCHANGED <<hour, counts, platform, again>>
        BY <1>11 DEF Pushed
    <2>2. push'.at = "idle" /\ pushed'.day = push.day /\ pushed'.recipients = push.recipients
        BY <2>1, IdleIs
    <2>3. Balanced(Day(hour), Today, push', pushed', platform, again)
        BY <1>2, <1>3, <2>1, <2>2, BalancedPushed DEF Accounts
    <2>4. QED
        BY <1>6, <2>1, <2>3 DEF Accounts
<1>12. ASSUME push' = Idle, UNCHANGED <<hour, counts, pushed, platform>>,
              again' = again + IF push.at = "added" /\ push.day = platform.day
                               THEN push.delta ELSE 0
       PROVE  Accounts'
    <2>1. push'.at = "idle"
        BY <1>12, IdleIs
    <2>2. Balanced(Day(hour), Today, push', pushed, platform, again')
        BY <1>2, <1>3, <1>12, <2>1, BalancedFails DEF Accounts
    <2>3. QED
        BY <1>6, <1>12, <2>2 DEF Accounts
<1>13. CASE Restart \/ PushFails
    BY <1>12, <1>13 DEF Restart, PushFails
<1>14. ASSUME NEW m \in Message, NEW s \in Sender, NEW reply \in BOOLEAN,
              Check(m, s, reply) \/ FailOpen(m, s, reply)
       PROVE  Accounts'
    BY <1>5, <1>14 DEF Check, FailOpen
<1>15. ASSUME NEW m \in Message,
              Refuse(m) \/ Transmit(m) \/ Release(m) \/ SettleOpen(m) \/ SettleLost(m) \/ Lapse(m)
       PROVE  Accounts'
    BY <1>5, <1>15 DEF Refuse, Transmit, Release, SettleOpen, SettleLost, Lapse
<1>16. CASE UNCHANGED vars
    BY <1>5, <1>16 DEF vars
<1>17. QED
    BY <1>7, <1>8, <1>9, <1>10, <1>11, <1>13, <1>14, <1>15, <1>16 DEF Next

LEMMA AccountsAgree ==
    ASSUME TypeOK, Accounts
    PROVE  BudgetAgrees
<1>1. LedgerTypes /\ BudgetTypes
    BY TypeParts
<1>2. /\ Today \in Nat
      /\ push \in PushRecord /\ pushed \in DayRecord /\ platform \in DayRecord /\ again \in Nat
    BY <1>1, TodayIs, BudgetRecords
<1> DEFINE day == Day(hour)
           had == Had(push, pushed, day)
<1>3. SUFFICES ASSUME platform.day = day
               PROVE  /\ pushed.day = platform.day => platform.recipients >= pushed.recipients
                      /\ platform.recipients <= Today + again
    BY DEF BudgetAgrees
<1>4. /\ Of(platform, day) = platform.recipients
      /\ Twice(platform, again, day) = again
      /\ pushed.day = platform.day => Of(pushed, day) = pushed.recipients
    BY <1>3 DEF Of, Twice
<1>5. /\ Of(pushed, day) \in Nat /\ platform.recipients \in Nat /\ push.recipients \in Nat
      /\ push.delta \in Nat /\ pushed.recipients \in Nat
    BY <1>2, OfIsNumber DEF DayRecord, PushRecord
<1>6. had \in Nat /\ Of(pushed, day) <= had /\ had <= Today
    <2>1. CASE push.at = "added" /\ Current(push, day)
        <3>1. had = push.recipients
            BY <2>1 DEF Had
        <3>2. push.recipients <= Today /\ push.recipients = Of(pushed, day) + push.delta
            BY <2>1 DEF Accounts, Balanced
        <3>3. QED
            BY <1>5, <3>1, <3>2
    <2>2. CASE ~(push.at = "added" /\ Current(push, day))
        <3>1. had = Of(pushed, day)
            BY <2>2 DEF Had
        <3>2. Of(pushed, day) <= Today
            BY DEF Accounts, Balanced
        <3>3. QED
            BY <1>5, <3>1, <3>2
    <2>3. QED
        BY <2>1, <2>2
<1>7. had <= platform.recipients /\ platform.recipients <= had + again
    BY <1>4 DEF Accounts, Balanced
<1> HIDE DEF had, day
<1>8. QED
    BY <1>2, <1>4, <1>5, <1>6, <1>7

(* Of the day it is at, the platform's budget has all that the ledger      *)
(* stored as pushed, and nothing the ledger did not count today but what   *)
(* was added a second time after an answer was lost (ledger.ts alarm).     *)
THEOREM BudgetHasWhatWasPushed == Spec => []BudgetAgrees
<1> DEFINE Inv == TypeOK /\ Accounts
<1>1. Init => Inv
    BY TypeInit, AccountsInit
<1>2. Inv /\ [Next]_vars => Inv'
    BY TypeStep, AccountsStep
<1>3. Inv => BudgetAgrees
    BY AccountsAgree
<1>4. QED
    BY <1>1, <1>2, <1>3, PTL DEF Spec
==============================================================================
