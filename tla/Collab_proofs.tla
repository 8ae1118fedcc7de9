----------------------------- MODULE Collab_proofs -----------------------------
(***************************************************************************)
(* What holds of co-editing for any number of sessions, any document, any  *)
(* transform and any bounds.                                               *)
(*                                                                         *)
(* The two recursive functions of the model (an op transformed past the    *)
(* log, a client working through a catch-up) are first shown to exist: a   *)
(* function on 0 .. n + 1 is built from the one on 0 .. n.                 *)
(***************************************************************************)
EXTENDS Collab, InductionFacts

-----------------------------------------------------------------------------
(* The welcome of a reconnect, unfolded: the client it starts from, one    *)
(* step per op of the catch-up, then the batch in flight sent again.       *)
LEMMA CatchUpUnfolds ==
    ASSUME NEW s, NEW cl, NEW missed, Len(missed) \in Nat
    PROVE  \E upTo :
               /\ upTo[0] = cl
               /\ \A i \in 1 .. Len(missed) :
                     upTo[i] = CaughtUp(s, upTo[i - 1], missed[i])
               /\ Welcomed(s, cl, missed)
                    = IF upTo[Len(missed)].inflight # <<>>
                      THEN SendInflight(s, upTo[Len(missed)])
                      ELSE Flush(s, upTo[Len(missed)])
<1> DEFINE Def(f, i) == IF i = 0 THEN cl
                        ELSE CaughtUp(s, f[i - 1], missed[i])
           Exists(n) == \E f : f = [i \in 0 .. n |-> Def(f, i)]
           Has == {n \in Nat : Exists(n)}
<1>a. 0 \in Has
    <2>1. [i \in 0 .. 0 |-> cl]
            = [i \in 0 .. 0 |-> Def([j \in 0 .. 0 |-> cl], i)]
        OBVIOUS
    <2>2. Exists(0)
        BY <2>1
    <2>3. QED
        BY <2>2
<1>b. ASSUME NEW n \in Has PROVE n + 1 \in Has
    <2>1. PICK f : f = [i \in 0 .. n |-> Def(f, i)]
        OBVIOUS
    <2> DEFINE g == [i \in 0 .. (n + 1) |->
                        IF i = n + 1
                        THEN CaughtUp(s, f[n], missed[n + 1])
                        ELSE f[i]]
    <2>2. ASSUME NEW i \in 0 .. (n + 1) PROVE g[i] = Def(g, i)
        <3>0. n \in Nat /\ n \in 0 .. (n + 1) /\ n + 1 # 0 /\ n # n + 1
            OBVIOUS
        <3>1. CASE i = n + 1
            <4>1. g[n + 1] = CaughtUp(s, f[n], missed[n + 1])
                BY <3>0
            <4>2. g[n] = f[n]
                BY <3>0
            <4>3. (n + 1) - 1 = n
                BY <3>0
            <4>4. QED
                BY <3>0, <3>1, <4>1, <4>2, <4>3
        <3>2. CASE i \in 0 .. n
            <4>0. i \in Nat /\ i # n + 1
                BY <3>0, <3>2
            <4>1. g[i] = f[i]
                BY <4>0
            <4>2. f[i] = Def(f, i)
                BY <2>1, <3>2, Zenon
            <4>3. i # 0 => g[i - 1] = f[i - 1]
                <5>1. ASSUME i # 0
                      PROVE  i - 1 \in 0 .. (n + 1) /\ i - 1 # n + 1
                    BY <3>0, <3>2, <5>1
                <5>2. QED
                    BY <5>1
            <4>4. QED
                BY <4>1, <4>2, <4>3
        <3>3. QED
            BY <3>1, <3>2
    <2>3. g = [i \in 0 .. (n + 1) |-> Def(g, i)]
        BY <2>2, Zenon
    <2>4. Exists(n + 1)
        BY <2>3, Zenon
    <2>5. n + 1 \in Nat
        OBVIOUS
    <2>6. QED
        BY <2>4, <2>5
<1>c. Has = Nat
    BY <1>a, <1>b, SetInduction, Zenon
<1>d. Exists(Len(missed))
    BY <1>c, Zenon
<1> DEFINE upTo[i \in 0 .. Len(missed)] ==
               IF i = 0 THEN cl ELSE CaughtUp(s, upTo[i - 1], missed[i])
<1>1. upTo = [i \in 0 .. Len(missed) |->
                 IF i = 0 THEN cl ELSE CaughtUp(s, upTo[i - 1], missed[i])]
    BY <1>d, Zenon
<1>2. Welcomed(s, cl, missed)
        = IF upTo[Len(missed)].inflight # <<>>
          THEN SendInflight(s, upTo[Len(missed)])
          ELSE Flush(s, upTo[Len(missed)])
    BY Zenon DEF Welcomed
<1> HIDE DEF upTo
<1>3. upTo[0] = cl
    BY <1>1
<1>4. \A i \in 1 .. Len(missed) :
          upTo[i] = CaughtUp(s, upTo[i - 1], missed[i])
    BY <1>1
<1>5. QED
    BY <1>2, <1>3, <1>4, Zenon

(* Whatever each op of the catch-up preserves holds after the last one.    *)
LEMMA CatchUpPreserves ==
    ASSUME NEW s, NEW Good, NEW cl \in Good, NEW missed, Len(missed) \in Nat,
           \A x \in Good : \A i \in 1 .. Len(missed) :
               CaughtUp(s, x, missed[i]) \in Good
    PROVE  \E now \in Good :
               Welcomed(s, cl, missed)
                 = IF now.inflight # <<>> THEN SendInflight(s, now)
                   ELSE Flush(s, now)
<1>1. PICK upTo :
          /\ upTo[0] = cl
          /\ \A i \in 1 .. Len(missed) :
                upTo[i] = CaughtUp(s, upTo[i - 1], missed[i])
          /\ Welcomed(s, cl, missed)
               = IF upTo[Len(missed)].inflight # <<>>
                 THEN SendInflight(s, upTo[Len(missed)])
                 ELSE Flush(s, upTo[Len(missed)])
    BY CatchUpUnfolds
<1> DEFINE T == {n \in Nat : n <= Len(missed) => upTo[n] \in Good}
<1>2. 0 \in T
    BY <1>1
<1>3. ASSUME NEW n \in T PROVE n + 1 \in T
    <2>1. n \in Nat
        OBVIOUS
    <2>2. SUFFICES ASSUME n + 1 <= Len(missed) PROVE upTo[n + 1] \in Good
        BY <2>1
    <2>3. upTo[n] \in Good /\ n + 1 \in 1 .. Len(missed)
        BY <2>1, <2>2
    <2>4. upTo[n + 1] = CaughtUp(s, upTo[n], missed[n + 1])
        BY <1>1, <2>1, <2>3
    <2>5. QED
        BY <2>3, <2>4
<1>4. T = Nat
    BY <1>2, <1>3, SetInduction, Zenon
<1>5. upTo[Len(missed)] \in Good
    BY <1>4
<1>6. QED
    BY <1>1, <1>5, Zenon

-----------------------------------------------------------------------------
(* Types of what the room computes. *)
LEMMA LogAfterType ==
    ASSUME RoomTypeOK, NEW since \in 0 .. Revision
    PROVE  /\ LogAfter(since) \in Seq(NumberedOp)
           /\ \A i \in 1 .. Len(LogAfter(since)) :
                 /\ LogAfter(since)[i].revision \in 1 .. Revision
                 /\ LogAfter(since)[i] = Numbered(LogAfter(since)[i].revision)
<1> DEFINE from == IF since < trimmed THEN trimmed ELSE since
           n == Revision - from
<1>1. /\ from \in trimmed .. Revision /\ n \in Nat
      /\ Revision \in Nat /\ trimmed \in Nat
    BY DEF RoomTypeOK, Revision
<1>2. LogAfter(since) = [i \in 1 .. n |-> Numbered(from + i)]
    BY DEF LogAfter
<1>3. ASSUME NEW i \in 1 .. n
      PROVE  /\ from + i \in 1 .. Revision
             /\ Numbered(from + i) \in NumberedOp
             /\ Numbered(from + i).revision = from + i
    <2>1. from + i \in (trimmed + 1) .. Revision
        BY <1>1
    <2>2. committed[from + i] \in CommittedOp /\ committed[from + i].op \in Op
        BY <1>1, <2>1 DEF RoomTypeOK, Revision
    <2>3. from + i \in Nat
        BY <1>1
    <2>4. QED
        BY <1>1, <2>1, <2>2, <2>3 DEF Numbered, NumberedOp, CommittedOp
<1>4. LogAfter(since) \in Seq(NumberedOp) /\ Len(LogAfter(since)) = n
    <2> HIDE DEF from, n
    <2>1. QED
        BY <1>1, <1>2, <1>3
<1>5. QED
    <2> HIDE DEF from, n
    <2>1. QED
        BY <1>2, <1>3, <1>4

(* Transforming a batch past logged ops, unfolded: one transform per op,   *)
(* each giving an op of the adapter (submit).                              *)
LEMMA PastUnfolds ==
    ASSUME NEW op \in Op, NEW since \in Seq(NumberedOp)
    PROVE  \E now \in [0 .. Len(since) -> Op] :
               /\ now[0] = op
               /\ \A i \in 1 .. Len(since) :
                     now[i] = Transform(now[i - 1], since[i].op, TRUE)
               /\ LET past[i \in 0 .. Len(since)] ==
                          IF i = 0 THEN op
                          ELSE Transform(past[i - 1], since[i].op, TRUE)
                  IN  past[Len(since)] = now[Len(since)]
<1> DEFINE Def(f, i) == IF i = 0 THEN op
                        ELSE Transform(f[i - 1], since[i].op, TRUE)
           Exists(n) == \E f : f = [i \in 0 .. n |-> Def(f, i)]
           Has == {n \in Nat : Exists(n)}
<1>a. 0 \in Has
    <2>1. [i \in 0 .. 0 |-> op]
            = [i \in 0 .. 0 |-> Def([j \in 0 .. 0 |-> op], i)]
        OBVIOUS
    <2>2. Exists(0)
        BY <2>1
    <2>3. QED
        BY <2>2
<1>b. ASSUME NEW n \in Has PROVE n + 1 \in Has
    <2>1. PICK f : f = [i \in 0 .. n |-> Def(f, i)]
        OBVIOUS
    <2> DEFINE g == [i \in 0 .. (n + 1) |->
                        IF i = n + 1
                        THEN Transform(f[n], since[n + 1].op, TRUE)
                        ELSE f[i]]
    <2>2. ASSUME NEW i \in 0 .. (n + 1) PROVE g[i] = Def(g, i)
        <3>0. n \in Nat /\ n \in 0 .. (n + 1) /\ n + 1 # 0 /\ n # n + 1
            OBVIOUS
        <3>1. CASE i = n + 1
            <4>1. g[n + 1] = Transform(f[n], since[n + 1].op, TRUE)
                BY <3>0
            <4>2. g[n] = f[n]
                BY <3>0
            <4>3. (n + 1) - 1 = n
                BY <3>0
            <4>4. QED
                BY <3>0, <3>1, <4>1, <4>2, <4>3
        <3>2. CASE i \in 0 .. n
            <4>0. i \in Nat /\ i # n + 1
                BY <3>0, <3>2
            <4>1. g[i] = f[i]
                BY <4>0
            <4>2. f[i] = Def(f, i)
                BY <2>1, <3>2, Zenon
            <4>3. i # 0 => g[i - 1] = f[i - 1]
                <5>1. ASSUME i # 0
                      PROVE  i - 1 \in 0 .. (n + 1) /\ i - 1 # n + 1
                    BY <3>0, <3>2, <5>1
                <5>2. QED
                    BY <5>1
            <4>4. QED
                BY <4>1, <4>2, <4>3
        <3>3. QED
            BY <3>1, <3>2
    <2>3. g = [i \in 0 .. (n + 1) |-> Def(g, i)]
        BY <2>2, Zenon
    <2>4. Exists(n + 1)
        BY <2>3, Zenon
    <2>5. n + 1 \in Nat
        OBVIOUS
    <2>6. QED
        BY <2>4, <2>5
<1>c. Has = Nat
    BY <1>a, <1>b, SetInduction, Zenon
<1>d. Exists(Len(since))
    <2>1. Len(since) \in Nat
        OBVIOUS
    <2>2. QED
        BY <1>c, <2>1, Zenon
<1> DEFINE past[i \in 0 .. Len(since)] ==
               IF i = 0 THEN op ELSE Transform(past[i - 1], since[i].op, TRUE)
           T == {n \in Nat : n <= Len(since) => past[n] \in Op}
<1>1. since \in Seq(NumberedOp) /\ Len(since) \in Nat
    OBVIOUS
<1>2. past = [i \in 0 .. Len(since) |->
                 IF i = 0 THEN op
                 ELSE Transform(past[i - 1], since[i].op, TRUE)]
    BY <1>d, Zenon
<1> HIDE DEF past
<1>3. 0 \in T
    BY <1>1, <1>2
<1>4. ASSUME NEW n \in T PROVE n + 1 \in T
    <2>1. n \in Nat
        OBVIOUS
    <2>2. SUFFICES ASSUME n + 1 <= Len(since) PROVE past[n + 1] \in Op
        BY <2>1
    <2>3. past[n] \in Op /\ n + 1 \in 1 .. Len(since)
        BY <1>1, <2>1, <2>2
    <2>4. since[n + 1].op \in Op
        <3>1. since[n + 1] \in NumberedOp
            BY <1>1, <2>3
        <3>2. QED
            BY <3>1 DEF NumberedOp
    <2>5. past[n + 1] = Transform(past[n], since[n + 1].op, TRUE)
        BY <1>1, <1>2, <2>1, <2>2
    <2>6. QED
        BY <2>3, <2>4, <2>5, AdapterAssumption
<1>5. T = Nat
    BY <1>3, <1>4, SetInduction, Zenon
<1>6. past \in [0 .. Len(since) -> Op]
    <2>1. \A i \in 0 .. Len(since) : past[i] \in Op
        BY <1>1, <1>5
    <2>2. QED
        BY <1>2, <2>1
<1>7. past[0] = op
    BY <1>1, <1>2
<1>8. \A i \in 1 .. Len(since) :
          past[i] = Transform(past[i - 1], since[i].op, TRUE)
    BY <1>1, <1>2
<1>9. QED
    BY <1>6, <1>7, <1>8, Zenon DEF past

(* So it gives an op of the adapter.                                       *)
LEMMA PastType ==
    ASSUME NEW op \in Op, NEW since \in Seq(NumberedOp)
    PROVE  LET past[i \in 0 .. Len(since)] ==
                   IF i = 0 THEN op
                   ELSE Transform(past[i - 1], since[i].op, TRUE)
           IN  past[Len(since)] \in Op
<1>1. PICK now \in [0 .. Len(since) -> Op] :
          LET past[i \in 0 .. Len(since)] ==
                  IF i = 0 THEN op
                  ELSE Transform(past[i - 1], since[i].op, TRUE)
          IN  past[Len(since)] = now[Len(since)]
    BY PastUnfolds, Zenon
<1>2. Len(since) \in 0 .. Len(since)
    <2>1. Len(since) \in Nat
        OBVIOUS
    <2>2. QED
        BY <2>1
<1>3. now[Len(since)] \in Op
    BY <1>2
<1>4. QED
    BY <1>1, <1>3, Zenon

(* So does transforming it past the whole log after its base.              *)
LEMMA PastLogType ==
    ASSUME RoomTypeOK, NEW op \in Op, NEW base \in 0 .. Revision
    PROVE  PastLog(op, base) \in Op
<1>1. LogAfter(base) \in Seq(NumberedOp)
    BY LogAfterType
<1>2. QED
    BY <1>1, PastType, Zenon DEF PastLog

(* The document at any revision in the history is a document.              *)
LEMMA DocumentAtType ==
    ASSUME RoomTypeOK, NEW rev \in 0 .. Revision
    PROVE  DocumentAt(rev) \in Document
<1>1. rev \in Nat
    BY DEF RoomTypeOK, Revision
<1>2. ASSUME NEW i \in 1 .. rev PROVE committed[i].op \in Op \cup {Restored}
    <2>1. committed[i] \in CommittedOp
        BY <1>1 DEF RoomTypeOK, Revision
    <2>2. QED
        BY <2>1 DEF CommittedOp
<1>3. QED
    BY <1>1, <1>2 DEF DocumentAt, Document

-----------------------------------------------------------------------------
(* Types of what a client computes. *)
LEMMA NoneOrOneFacts ==
    ASSUME NEW edits \in NoneOrOne(Op)
    PROVE  /\ edits \in Document
           /\ edits # <<>> => edits[1] \in Op /\ edits = <<edits[1]>>
<1>1. CASE edits = <<>>
    BY <1>1 DEF Document
<1>2. CASE edits # <<>>
    <2>1. PICK op \in Op : edits = <<op>>
        BY <1>2 DEF NoneOrOne
    <2>2. op \in Op \cup {Restored}
        OBVIOUS
    <2>3. <<op>> \in Seq(Op \cup {Restored}) /\ <<op>>[1] = op
        BY <2>2
    <2>4. QED
        BY <2>1, <2>3 DEF Document
<1>3. QED
    BY <1>1, <1>2

(* Taking off the unacked edits leaves a document (remote, rollBack).      *)
LEMMA UndoneType ==
    ASSUME NEW cl \in Client
    PROVE  /\ Undone(cl) \in Document
           /\ cl.inflight \in Document /\ cl.buffer \in Document
           /\ Pending(cl) \in Document
<1>1. /\ cl.doc \in Document
      /\ cl.inflight \in NoneOrOne(Op) /\ cl.buffer \in NoneOrOne(Op)
    BY DEF Client
<1>2. cl.inflight \in Document /\ cl.buffer \in Document
    BY <1>1, NoneOrOneFacts
<1>3. Pending(cl) \in Document
    BY <1>2 DEF Pending, Document
<1>4. Undone(cl) \in Document
    BY <1>1, <1>3 DEF Undone, Document
<1>5. QED
    BY <1>2, <1>3, <1>4

(* Sending the batch in flight leaves a client well typed (send).          *)
LEMMA SendInflightType ==
    ASSUME NEW s \in Session, NEW cl \in Client, cl.inflight # <<>>
    PROVE  SendInflight(s, cl) \in Client
<1>1. cl.inflight[1] \in Op
    BY DEF Client, NoneOrOne
<1>2. Submit(InflightId(s, cl), cl.revision, cl.inflight[1]) \in ClientMessage
    BY <1>1 DEF Submit, InflightId, ClientMessage, BatchId, Client
<1>3. QED
    BY <1>2 DEF SendInflight, Send, Client

(* So does moving the buffer into flight (flush).                          *)
LEMMA FlushType ==
    ASSUME NEW s \in Session, NEW cl \in Client
    PROVE  Flush(s, cl) \in Client
<1> DEFINE next == [cl EXCEPT !.batches = @ + 1, !.inflight = cl.buffer,
                              !.buffer = <<>>]
<1>1. CASE cl.inflight # <<>> \/ cl.buffer = <<>>
    BY <1>1 DEF Flush
<1>2. CASE ~(cl.inflight # <<>> \/ cl.buffer = <<>>)
    <2>1. next \in Client /\ next.inflight # <<>>
        <3>1. /\ cl.buffer \in NoneOrOne(Op) /\ cl.buffer # <<>>
              /\ cl.batches + 1 \in Nat /\ <<>> \in NoneOrOne(Op)
            BY <1>2 DEF Client, NoneOrOne
        <3>2. QED
            BY <3>1 DEF Client
    <2>2. SendInflight(s, next) \in Client
        <3> HIDE DEF next
        <3>1. QED
            BY <2>1, SendInflightType
    <2>3. QED
        BY <1>2, <2>2 DEF Flush
<1>3. QED
    BY <1>1, <1>2

(* So does an edit of the client's own (apply).                            *)
LEMMA AppliedType ==
    ASSUME NEW s \in Session, NEW cl \in Client, NEW op \in Op
    PROVE  Applied(s, cl, op) \in Client
<1> DEFINE buffer == IF cl.buffer = <<>> THEN <<op>>
                     ELSE <<Then(cl.buffer[1], op)>>
           next == [cl EXCEPT !.doc = Undone(cl) \o cl.inflight \o buffer,
                              !.buffer = buffer]
<1>1. buffer \in NoneOrOne(Op)
    BY AdapterAssumption DEF Client, NoneOrOne
<1>2. buffer \in Document
    <2> HIDE DEF buffer
    <2>1. QED
        BY <1>1, NoneOrOneFacts
<1>3. Undone(cl) \o cl.inflight \o buffer \in Document
    <2> HIDE DEF buffer
    <2>1. QED
        BY <1>2, UndoneType DEF Document
<1>4. next \in Client
    <2> HIDE DEF buffer
    <2>1. QED
        BY <1>1, <1>3 DEF Client
<1>5. Applied(s, cl, op) = Flush(s, next)
    BY DEF Applied
<1>6. QED
    <2> HIDE DEF next
    <2>1. QED
        BY <1>4, <1>5, FlushType

(* So does replacing the document by a snapshot (reset).                   *)
LEMMA ResetType ==
    ASSUME NEW cl \in Client, NEW rev \in Nat, NEW snapshot \in Document
    PROVE  Reset(cl, rev, snapshot) \in Client
BY DEF Reset, Client, NoneOrOne

(* So does a refusal of the batch in flight (rollBack).                    *)
LEMMA RolledBackType ==
    ASSUME NEW s, NEW id, NEW cl \in Client
    PROVE  RolledBack(s, cl, id) \in Client
BY UndoneType DEF RolledBack, Client, NoneOrOne

(* So does an ack (ack).                                                   *)
LEMMA AckedType ==
    ASSUME NEW s \in Session, NEW cl \in Client, NEW id, NEW rev \in Nat
    PROVE  Acked(s, cl, id, rev) \in Client
<1> DEFINE next == [cl EXCEPT !.revision = rev, !.inflight = <<>>]
<1>1. next \in Client
    BY DEF Client, NoneOrOne
<1>2. Flush(s, next) \in Client
    <2> HIDE DEF next
    <2>1. QED
        BY <1>1, FlushType
<1>3. QED
    BY <1>2 DEF Acked

(* So does an op of someone else, past which edits are rebased (remote).   *)
LEMMA RebasedType ==
    ASSUME NEW cl \in Client, NEW c \in NumberedOp
    PROVE  Rebased(cl, c) \in Client
<1> DEFINE inflight == After(cl.inflight, c.op)
           buffer == After(cl.buffer, Against(c.op, cl.inflight))
<1>1. c.op \in Op /\ c.revision \in Nat
    BY DEF NumberedOp
<1>2. ASSUME NEW edits \in NoneOrOne(Op), NEW op \in Op
      PROVE  After(edits, op) \in NoneOrOne(Op) /\ Against(op, edits) \in Op
    <2>1. CASE edits = <<>>
        BY <2>1 DEF After, Against, NoneOrOne
    <2>2. CASE edits # <<>>
        <3>1. edits[1] \in Op
            BY <2>2, NoneOrOneFacts
        <3>2. Transform(edits[1], op, TRUE) \in Op
            BY <3>1, AdapterAssumption
        <3>3. Transform(op, edits[1], FALSE) \in Op
            BY <3>1, AdapterAssumption
        <3>4. QED
            BY <2>2, <3>2, <3>3 DEF After, Against, NoneOrOne
    <2>3. QED
        BY <2>1, <2>2
<1>3. cl.inflight \in NoneOrOne(Op) /\ cl.buffer \in NoneOrOne(Op)
    BY DEF Client
<1>4. inflight \in NoneOrOne(Op) /\ buffer \in NoneOrOne(Op)
    BY <1>1, <1>2, <1>3
<1>5. inflight \in Document /\ buffer \in Document
    <2> HIDE DEF inflight, buffer
    <2>1. QED
        BY <1>4, NoneOrOneFacts
<1>6. Append(Undone(cl), c.op) \o inflight \o buffer \in Document
    <2> HIDE DEF inflight, buffer
    <2>1. QED
        BY <1>1, <1>5, UndoneType DEF Document
<1>7. [cl EXCEPT !.doc = Append(Undone(cl), c.op) \o inflight \o buffer,
                 !.revision = c.revision,
                 !.inflight = inflight, !.buffer = buffer] \in Client
    <2> HIDE DEF inflight, buffer
    <2>1. QED
        BY <1>1, <1>4, <1>6 DEF Client
<1>8. QED
    BY <1>7 DEF Rebased

(* So does one op of a catch-up (welcome).                                 *)
LEMMA CaughtUpType ==
    ASSUME NEW s \in Session, NEW cl \in Client, NEW c \in NumberedOp
    PROVE  CaughtUp(s, cl, c) \in Client
BY AckedType, RebasedType DEF CaughtUp, NumberedOp

(* So does the welcome as a whole (welcome).                               *)
LEMMA WelcomedType ==
    ASSUME NEW s \in Session, NEW cl \in Client, NEW missed \in Seq(NumberedOp)
    PROVE  Welcomed(s, cl, missed) \in Client
<1>1. PICK now \in Client :
          Welcomed(s, cl, missed)
              = IF now.inflight # <<>> THEN SendInflight(s, now)
                ELSE Flush(s, now)
    <2>1. \A x \in Client : \A i \in 1 .. Len(missed) :
              CaughtUp(s, x, missed[i]) \in Client
        BY CaughtUpType
    <2>2. Len(missed) \in Nat
        OBVIOUS
    <2>3. QED
        BY <2>1, <2>2, CatchUpPreserves
<1>2. QED
    BY <1>1, SendInflightType, FlushType

(* What a message of each type carries (protocol.ts).                      *)
LEMMA ServerMessageFields ==
    ASSUME NEW m \in ServerMessage
    PROVE  /\ m.type \in {"welcome", "resync", "restored", "catchUp", "ack",
                          "op", "reject"}
           /\ m.type \in {"welcome", "resync", "restored"} =>
                 m.revision \in Nat /\ m.snapshot \in Document
           /\ m.type = "catchUp" => m.missed \in Seq(NumberedOp)
           /\ m.type = "ack" => m.batchId \in BatchId /\ m.revision \in Nat
           /\ m.type = "op" => m.committed \in NumberedOp
           /\ m.type = "reject" => m.batchId \in BatchId
BY DEF ServerMessage

(* A message is handled by the one case of its type (receive).             *)
LEMMA ReceivedCases ==
    ASSUME NEW s, NEW cl, NEW m \in ServerMessage
    PROVE  \/ /\ m.type \in {"welcome", "resync", "restored"}
              /\ Received(s, cl, m) = Reset(cl, m.revision, m.snapshot)
           \/ /\ m.type = "catchUp"
              /\ Received(s, cl, m) = Welcomed(s, cl, m.missed)
           \/ /\ m.type = "ack"
              /\ Received(s, cl, m) = Acked(s, cl, m.batchId, m.revision)
           \/ /\ m.type = "op"
              /\ Received(s, cl, m) = Rebased(cl, m.committed)
           \/ /\ m.type = "reject"
              /\ Received(s, cl, m) = RolledBack(s, cl, m.batchId)
BY ServerMessageFields DEF Received

(* A client that handles a message of the room stays well typed (receive). *)
LEMMA ReceivedType ==
    ASSUME NEW s \in Session, NEW cl \in Client, NEW m \in ServerMessage
    PROVE  Received(s, cl, m) \in Client
BY ServerMessageFields, ReceivedCases, ResetType, WelcomedType, AckedType,
   RebasedType, RolledBackType

-----------------------------------------------------------------------------
(* Type correctness of each step. *)
LEMMA PostType ==
    ASSUME RoomTypeOK, NEW c, NEW reply \in Seq(ServerMessage),
           NEW news \in Seq(ServerMessage), Post(c, reply, news)
    PROVE  down' \in [Session -> Seq(ServerMessage)]
<1>1. ASSUME NEW s \in Session
      PROVE  down[s] \o (IF s = c THEN reply
                         ELSE IF member[s] = "ready" THEN news ELSE <<>>)
               \in Seq(ServerMessage)
    <2>1. down[s] \in Seq(ServerMessage) /\ <<>> \in Seq(ServerMessage)
        BY DEF RoomTypeOK
    <2>2. QED
        BY <2>1
<1>2. QED
    BY <1>1 DEF Post

(* What the room's handlers send are server messages.                      *)
LEMMA MessageTypes ==
    /\ \A rev \in Nat : \A snapshot \in Document :
          /\ Welcome(rev, snapshot) \in ServerMessage
          /\ Resync(rev, snapshot) \in ServerMessage
          /\ RestoredTo(rev, snapshot) \in ServerMessage
    /\ \A missed \in Seq(NumberedOp) : CatchUp(missed) \in ServerMessage
    /\ \A id \in BatchId : \A rev \in Nat : Ack(id, rev) \in ServerMessage
    /\ \A id \in BatchId : Reject(id) \in ServerMessage
    /\ \A c \in NumberedOp : Remote(c) \in ServerMessage
BY DEF ServerMessage, Welcome, Resync, RestoredTo, CatchUp, Ack, Reject, Remote

(* Logging a commit leaves the room well typed (remember).                 *)
LEMMA RememberType ==
    ASSUME RoomTypeOK, NEW entry, entry \in CommittedOp, entry.op \in Op,
           Remember(entry)
    PROVE  /\ committed' \in Seq(CommittedOp)
           /\ trimmed' \in 0 .. Len(committed')
           /\ \A i \in (trimmed' + 1) .. Len(committed') : committed'[i].op \in Op
<1>1. /\ committed' = Append(committed, entry)
      /\ committed' \in Seq(CommittedOp)
      /\ Len(committed) \in Nat /\ Len(committed') = Len(committed) + 1
    BY DEF RoomTypeOK, Remember
<1>2. trimmed \in Nat /\ trimmed <= Len(committed) /\ MaxLog \in Nat /\ MaxLog > 0
    BY RoomAssumption DEF RoomTypeOK
<1>3. trimmed' \in Nat /\ trimmed <= trimmed' /\ trimmed' <= Len(committed')
    <2>1. trimmed' = IF Len(committed) + 1 - trimmed > MaxLog
                     THEN Len(committed) + 1 - MaxLog ELSE trimmed
        BY DEF Remember, Revision
    <2>2. QED
        BY <1>1, <1>2, <2>1
<1>4. trimmed' \in 0 .. Len(committed')
    BY <1>1, <1>2, <1>3
<1>5. (trimmed' + 1) .. Len(committed')
            \subseteq (trimmed + 1) .. (Len(committed) + 1)
    BY <1>1, <1>2, <1>3
<1>6. ASSUME NEW i \in (trimmed + 1) .. (Len(committed) + 1)
      PROVE  committed'[i].op \in Op
    <2>0. i \in Nat /\ i >= trimmed + 1 /\ i <= Len(committed) + 1
        BY <1>1, <1>2
    <2>1. CASE i = Len(committed) + 1
        <3>1. committed'[i] = entry
            BY <1>1, <2>1
        <3>2. QED
            BY <3>1
    <2>2. CASE i # Len(committed) + 1
        <3>1. i \in (trimmed + 1) .. Len(committed) /\ i \in 1 .. Len(committed)
            BY <1>2, <2>0, <2>2
        <3>2. committed'[i] = committed[i]
            BY <1>1, <3>1 DEF RoomTypeOK
        <3>3. QED
            BY <3>1, <3>2 DEF RoomTypeOK
    <2>3. QED
        BY <2>1, <2>2
<1>7. QED
    BY <1>1, <1>4, <1>5, <1>6

(* So does rebuilding the room from checkpoint and log (restore).          *)
LEMMA RebuiltType ==
    ASSUME RoomTypeOK, Rebuilt
    PROVE  /\ committed' \in Seq(CommittedOp)
           /\ trimmed' \in 0 .. Len(committed')
           /\ \A i \in (trimmed' + 1) .. Len(committed') : committed'[i].op \in Op
<1>1. committed' = committed /\ trimmed' \in trimmed .. Len(committed)
    BY DEF Rebuilt, Revision
<1>2. trimmed \in Nat /\ Len(committed) \in Nat
    BY DEF RoomTypeOK
<1>3. trimmed' \in Nat /\ trimmed' >= trimmed /\ trimmed' <= Len(committed)
    BY <1>1, <1>2
<1>4. (trimmed' + 1) .. Len(committed) \subseteq (trimmed + 1) .. Len(committed)
    BY <1>2, <1>3
<1>5. trimmed' \in 0 .. Len(committed)
    BY <1>2, <1>3
<1>6. QED
    BY <1>1, <1>4, <1>5 DEF RoomTypeOK

(* So does handling a batch, whichever way it goes (submit).               *)
LEMMA RoomSubmitType ==
    ASSUME RoomTypeOK, NEW c, NEW m \in ClientMessage, m.type = "submit",
           NEW ready, RoomSubmit(c, m, ready)
    PROVE  RoomTypeOK'
<1>0. /\ m.batchId \in BatchId /\ m.base \in Nat /\ m.op \in Op
      /\ Revision \in Nat /\ Revision = Len(committed)
    BY DEF ClientMessage, RoomTypeOK, Revision
<1>1. CASE UNCHANGED roomVars
    BY <1>1 DEF RoomTypeOK, roomVars
<1>2. CASE AckAgain(c, m)
    <2>1. PICK i \in Logged : Post(c, <<Ack(m.batchId, i)>>, <<>>)
        BY <1>2 DEF AckAgain
    <2>2. i \in Nat
        BY <2>1 DEF Logged, RoomTypeOK, Revision
    <2>3. /\ <<Ack(m.batchId, i)>> \in Seq(ServerMessage)
          /\ <<>> \in Seq(ServerMessage)
        BY <1>0, <2>2, MessageTypes
    <2>4. down' \in [Session -> Seq(ServerMessage)]
        BY <2>1, <2>3, PostType
    <2>5. QED
        BY <1>2, <2>4 DEF AckAgain, RoomTypeOK
<1>3. CASE Refuse(c, m)
    <2> DEFINE reply == <<Reject(m.batchId),
                          Resync(Revision, DocumentAt(Revision))>>
    <2>1. DocumentAt(Revision) \in Document
        BY <1>0, DocumentAtType
    <2>2. reply \in Seq(ServerMessage) /\ <<>> \in Seq(ServerMessage)
        <3>1. /\ Reject(m.batchId) \in ServerMessage
              /\ Resync(Revision, DocumentAt(Revision)) \in ServerMessage
            BY <1>0, <2>1, MessageTypes
        <3>2. QED
            BY <3>1
    <2>3. Post(c, reply, <<>>)
        BY <1>3 DEF Refuse
    <2>4. down' \in [Session -> Seq(ServerMessage)]
        <3> HIDE DEF reply
        <3>1. QED
            BY <2>2, <2>3, PostType
    <2>5. QED
        BY <1>3, <2>4 DEF Refuse, RoomTypeOK
<1>4. CASE Commit(c, m)
    <2> DEFINE entry == [op |-> PastLog(m.op, m.base), batchId |-> m.batchId]
               news == [revision |-> Revision + 1, op |-> entry.op,
                        batchId |-> entry.batchId]
    <2>1. m.base \in 0 .. Revision
        BY <1>0, <1>4 DEF Commit, Stale, OldestBase, RoomTypeOK
    <2>2. PastLog(m.op, m.base) \in Op
        BY <1>0, <2>1, PastLogType
    <2>3. entry \in CommittedOp /\ entry.op \in Op /\ news \in NumberedOp
        BY <1>0, <2>2 DEF CommittedOp, NumberedOp
    <2>4. /\ <<Ack(m.batchId, Revision + 1)>> \in Seq(ServerMessage)
          /\ <<Remote(news)>> \in Seq(ServerMessage)
        <3>1. Revision + 1 \in Nat
            BY <1>0
        <3>2. /\ Ack(m.batchId, Revision + 1) \in ServerMessage
              /\ Remote(news) \in ServerMessage
            BY <1>0, <2>3, <3>1, MessageTypes
        <3>3. QED
            BY <3>2
    <2>5. /\ Remember(entry)
          /\ Post(c, <<Ack(m.batchId, Revision + 1)>>, <<Remote(news)>>)
          /\ UNCHANGED <<member, previous>>
        BY <1>4 DEF Commit
    <2>6. down' \in [Session -> Seq(ServerMessage)]
        <3> HIDE DEF entry, news
        <3>1. QED
            BY <2>4, <2>5, PostType
    <2>7. QED
        <3> HIDE DEF entry, news
        <3>1. QED
            BY <2>3, <2>5, <2>6, RememberType DEF RoomTypeOK
<1>5. CASE FailToApply(c, m)
    <2>1. <<Reject(m.batchId)>> \in Seq(ServerMessage)
        <3>1. Reject(m.batchId) \in ServerMessage
            BY <1>0, MessageTypes
        <3>2. QED
            BY <3>1
    <2>2. down' \in [Session -> Seq(ServerMessage)]
        <3>1. Post(c, <<Reject(m.batchId)>>, <<>>)
            BY <1>5 DEF FailToApply
        <3>2. <<>> \in Seq(ServerMessage)
            OBVIOUS
        <3>3. QED
            BY <2>1, <3>1, <3>2, PostType
    <2>3. /\ member' \in [Session -> Members]
          /\ previous' \in [Session -> Members]
        BY <1>5 DEF FailToApply, AllLeave, Members
    <2>4. Rebuilt
        BY <1>5 DEF FailToApply
    <2>5. QED
        BY <2>2, <2>3, <2>4, RebuiltType DEF RoomTypeOK
<1>6. QED
    BY <1>1, <1>2, <1>3, <1>4, <1>5 DEF RoomSubmit

(* Counting a bounded event keeps the counters in their bounds.            *)
LEMMA SpendType ==
    ASSUME used \in [DOMAIN Bound -> Nat], NEW event, Spend(event)
    PROVE  used' \in [DOMAIN Bound -> Nat]
<1> DEFINE D == DOMAIN Bound
<1>1. used \in [D -> Nat] /\ used' = [used EXCEPT ![event] = @ + 1]
    BY DEF Spend
<1> HIDE DEF D
<1>2. CASE event \in D
    <2>1. used[event] + 1 \in Nat
        BY <1>1, <1>2
    <2>2. used' \in [D -> Nat]
        BY <1>1, <2>1
    <2>3. QED
        BY <2>2 DEF D
<1>3. CASE event \notin D
    <2>1. used' = used
        BY <1>1, <1>3
    <2>2. QED
        BY <1>1, <2>1 DEF D
<1>4. QED
    BY <1>2, <1>3

(* Replacing one client by a well-typed one keeps all well typed.          *)
LEMMA UpdateType ==
    ASSUME ClientTypeOK, NEW s \in Session, NEW cl \in Client, Update(s, cl)
    PROVE  ClientTypeOK'
BY DEF ClientTypeOK, Update

(* A new connection leaves the clients well typed (start).                 *)
LEMMA OpenType ==
    ASSUME ClientTypeOK, NEW s \in Session, Open(s)
    PROVE  ClientTypeOK'
<1> DEFINE cl == client[s]
           since == IF cl.loaded THEN cl.revision ELSE Fresh
           next == [cl EXCEPT !.open = TRUE, !.up = <<Hello(since)>>]
<1>1. cl \in Client
    BY DEF ClientTypeOK
<1>2. Hello(since) \in ClientMessage
    BY <1>1 DEF Hello, ClientMessage, Client
<1>3. <<Hello(since)>> \in Seq(ClientMessage)
    BY <1>2
<1>4. next \in Client
    <2> HIDE DEF since
    <2>1. QED
        BY <1>1, <1>3 DEF Client
<1>5. Update(s, next)
    BY DEF Open
<1>6. QED
    <2> HIDE DEF next
    <2>1. QED
        BY <1>4, <1>5, UpdateType

(* A socket that is gone leaves everything well typed (onclose).           *)
LEMMA SocketGoneType ==
    ASSUME TypeOK, NEW s \in Session, SocketGone(s)
    PROVE  /\ RoomTypeOK' /\ ClientTypeOK'
           /\ late' \in [Session -> Seq(ClientMessage)]
<1>1. client[s] \in Client
    BY DEF TypeOK, ClientTypeOK
<1>2. RoomTypeOK'
    <2>1. member' \in [Session -> Members] /\ previous' \in [Session -> Members]
        BY DEF TypeOK, RoomTypeOK, SocketGone, Leave, Members
    <2>2. <<>> \in Seq(ServerMessage)
        OBVIOUS
    <2>3. down' \in [Session -> Seq(ServerMessage)]
        BY <2>2 DEF TypeOK, RoomTypeOK, SocketGone, Leave
    <2>4. QED
        BY <2>1, <2>3 DEF TypeOK, RoomTypeOK, SocketGone, Leave
<1>3. ClientTypeOK'
    <2>1. <<>> \in Seq(ClientMessage)
        OBVIOUS
    <2>2. [client[s] EXCEPT !.open = FALSE, !.up = <<>>] \in Client
        BY <1>1, <2>1 DEF Client
    <2>3. QED
        BY <2>2, UpdateType DEF SocketGone, Close, TypeOK
<1>4. late' \in [Session -> Seq(ClientMessage)]
    <2>1. client[s].up \in Seq(ClientMessage) /\ <<>> \in Seq(ClientMessage)
        BY <1>1 DEF Client
    <2>2. QED
        BY <2>1 DEF SocketGone, TypeOK
<1>5. QED
    BY <1>2, <1>3, <1>4

(* The state of every component has its type in every reachable state: in  *)
(* particular the log holds no op a restore has put out of reach, and the  *)
(* transform of a late batch never leaves the ops of the adapter.          *)
LEMMA TypeStep == TypeOK /\ [Next]_vars => TypeOK'
<1> SUFFICES ASSUME TypeOK, [Next]_vars PROVE TypeOK'
    OBVIOUS
<1>0. RoomTypeOK /\ ClientTypeOK /\ used \in [DOMAIN Bound -> Nat]
      /\ late \in [Session -> Seq(ClientMessage)]
    BY DEF TypeOK
<1>1. ASSUME NEW s \in Session, Connect(s) PROVE TypeOK'
    <2>1. ClientTypeOK'
        BY <1>0, <1>1, OpenType DEF Connect
    <2>2. <<>> \in Seq(ServerMessage)
        OBVIOUS
    <2>3. RoomTypeOK'
        BY <1>0, <1>1, <2>2 DEF Connect, Join, RoomTypeOK, Members
    <2>4. QED
        BY <1>0, <1>1, <2>1, <2>3 DEF Connect, TypeOK
<1>2. ASSUME NEW s \in Session, Disconnect(s) PROVE TypeOK'
    BY <1>0, <1>2, SocketGoneType, SpendType DEF Disconnect, TypeOK
<1>3. ASSUME NEW s \in Session, HungUp(s) PROVE TypeOK'
    BY <1>0, <1>3, SocketGoneType DEF HungUp, TypeOK
<1>4. ASSUME NEW s \in Session, Edit(s) PROVE TypeOK'
    <2>1. PICK op \in EditsOf(s) : Apply(s, op)
        BY <1>4 DEF Edit
    <2>2. op \in Op /\ client[s] \in Client
        BY <1>0, EnvironmentAssumption DEF ClientTypeOK
    <2>3. ClientTypeOK'
        BY <1>0, <2>1, <2>2, AppliedType, UpdateType DEF Apply
    <2>4. RoomTypeOK'
        BY <1>0, <1>4 DEF Edit, roomVars, RoomTypeOK
    <2>5. QED
        BY <1>0, <1>4, <2>3, <2>4, SpendType DEF Edit, TypeOK
<1>5. ASSUME NEW s \in Session, ToRoom(s) PROVE TypeOK'
    <2> DEFINE m == Head(client[s].up)
    <2>1. client[s] \in Client /\ client[s].up \in Seq(ClientMessage)
        BY <1>0 DEF ClientTypeOK, Client
    <2>2. m \in ClientMessage /\ Tail(client[s].up) \in Seq(ClientMessage)
        BY <1>5, <2>1 DEF ToRoom
    <2>3. ClientTypeOK'
        <3>1. [client[s] EXCEPT !.up = Tail(@)] \in Client
            BY <2>1, <2>2 DEF Client
        <3>2. QED
            BY <1>0, <1>5, <3>1, UpdateType DEF ToRoom
    <2>4. RoomTypeOK'
        <3>1. CASE UNCHANGED roomVars
            BY <1>0, <3>1 DEF roomVars, RoomTypeOK
        <3>2. CASE RoomHello(s, m.since) /\ m.type = "hello"
            <4> DEFINE reply == IF m.since # Fresh /\ OldestBase <= m.since
                                     /\ m.since <= Revision
                                THEN CatchUp(LogAfter(m.since))
                                ELSE Welcome(Revision, DocumentAt(Revision))
            <4>1. Revision \in Nat /\ trimmed \in Nat
                BY <1>0 DEF RoomTypeOK, Revision
            <4>2. Welcome(Revision, DocumentAt(Revision)) \in ServerMessage
                BY <1>0, <4>1, DocumentAtType, MessageTypes
            <4>3. ASSUME m.since # Fresh, m.since <= Revision
                  PROVE  CatchUp(LogAfter(m.since)) \in ServerMessage
                <5>1. m.since \in 0 .. Revision
                    BY <2>2, <3>2, <4>1, <4>3 DEF ClientMessage
                <5>2. QED
                    BY <1>0, <5>1, LogAfterType, MessageTypes
            <4>4. reply \in ServerMessage
                BY <4>2, <4>3
            <4>5. Append(down[s], reply) \in Seq(ServerMessage)
                <5> HIDE DEF reply
                <5>1. down[s] \in Seq(ServerMessage)
                    BY <1>0 DEF RoomTypeOK
                <5>2. QED
                    BY <4>4, <5>1
            <4>6. down' = [down EXCEPT ![s] = Append(@, reply)]
                BY <3>2 DEF RoomHello
            <4>7. down' \in [Session -> Seq(ServerMessage)]
                <5> HIDE DEF reply
                <5>1. QED
                    BY <1>0, <4>5, <4>6 DEF RoomTypeOK
            <4>8. QED
                <5>1. member' \in [Session -> Members]
                    BY <1>0, <3>2 DEF RoomHello, RoomTypeOK, Members
                <5>2. QED
                    BY <1>0, <3>2, <4>7, <5>1 DEF RoomHello, RoomTypeOK
        <3>3. CASE RoomSubmit(s, m, member[s] = "ready") /\ m.type = "submit"
            <4> HIDE DEF m
            <4>1. QED
                BY <1>0, <2>2, <3>3, RoomSubmitType
        <3>4. QED
            <4>1. m.type \in {"hello", "submit"}
                BY <2>2 DEF ClientMessage
            <4>2. QED
                BY <1>5, <3>1, <3>2, <3>3, <4>1 DEF ToRoom
    <2>5. QED
        BY <1>0, <1>5, <2>3, <2>4 DEF ToRoom, TypeOK
<1>6. ASSUME NEW s \in Session, LateToRoom(s) PROVE TypeOK'
    <2> DEFINE m == Head(late[s])
    <2>1. m \in ClientMessage /\ Tail(late[s]) \in Seq(ClientMessage)
        BY <1>0, <1>6 DEF LateToRoom
    <2>2. late' \in [Session -> Seq(ClientMessage)]
        BY <1>0, <1>6, <2>1 DEF LateToRoom
    <2>3. RoomTypeOK'
        <3>1. CASE UNCHANGED roomVars
            BY <1>0, <3>1 DEF roomVars, RoomTypeOK
        <3>2. CASE LateHello(s)
            BY <1>0, <3>2 DEF LateHello, RoomTypeOK, Members
        <3>3. CASE RoomSubmit(Nobody, m, previous[s] = "ready") /\ m.type = "submit"
            <4> HIDE DEF m
            <4>1. QED
                BY <1>0, <2>1, <3>3, RoomSubmitType
        <3>4. QED
            <4>1. m.type \in {"hello", "submit"}
                BY <2>1 DEF ClientMessage
            <4>2. QED
                BY <1>6, <3>1, <3>2, <3>3, <4>1 DEF LateToRoom
    <2>4. QED
        BY <1>0, <1>6, <2>2, <2>3 DEF LateToRoom, TypeOK, ClientTypeOK
<1>7. ASSUME NEW s \in Session, ToClient(s) PROVE TypeOK'
    <2>1. client[s] \in Client /\ down[s] \in Seq(ServerMessage)
        BY <1>0 DEF ClientTypeOK, RoomTypeOK
    <2>2. Head(down[s]) \in ServerMessage /\ Tail(down[s]) \in Seq(ServerMessage)
        BY <1>7, <2>1 DEF ToClient
    <2>3. ClientTypeOK'
        BY <1>0, <1>7, <2>1, <2>2, ReceivedType, UpdateType DEF ToClient
    <2>4. RoomTypeOK'
        BY <1>0, <1>7, <2>2 DEF ToClient, RoomTypeOK
    <2>5. QED
        BY <1>0, <1>7, <2>3, <2>4 DEF ToClient, TypeOK
<1>8. CASE ServerOp
    <2>1. PICK op \in ServerOps : CommitServer(op)
        BY <1>8 DEF ServerOp
    <2> DEFINE rev == Revision + 1
               entry == [op |-> op, batchId |-> <<Nobody, rev>>]
               news == [revision |-> rev, op |-> op, batchId |-> <<Nobody, rev>>]
    <2>2. op \in Op /\ rev \in Nat
        BY <1>0, EnvironmentAssumption DEF RoomTypeOK, Revision
    <2>3. entry \in CommittedOp /\ entry.op \in Op /\ news \in NumberedOp
        BY <2>2 DEF CommittedOp, NumberedOp, BatchId
    <2>4. /\ Remember(entry) /\ Post(Nobody, <<>>, <<Remote(news)>>)
          /\ UNCHANGED <<member, previous>>
        BY <2>1 DEF CommitServer
    <2>5. down' \in [Session -> Seq(ServerMessage)]
        <3> HIDE DEF news
        <3>1. <<Remote(news)>> \in Seq(ServerMessage) /\ <<>> \in Seq(ServerMessage)
            <4>1. Remote(news) \in ServerMessage
                BY <2>3, MessageTypes
            <4>2. QED
                BY <4>1
        <3>2. QED
            BY <1>0, <2>4, <3>1, PostType
    <2>6. RoomTypeOK'
        <3> HIDE DEF entry, news
        <3>1. QED
            BY <1>0, <2>3, <2>4, <2>5, RememberType DEF RoomTypeOK
    <2>7. QED
        BY <1>0, <1>8, <2>6, SpendType DEF ServerOp, TypeOK, ClientTypeOK
<1>9. CASE Restore
    <2> DEFINE rev == Revision + 1
               entry == [op |-> Restored, batchId |-> <<Nobody, rev>>]
               snapshot == Append(DocumentAt(Revision), Restored)
    <2>1. /\ committed' = Append(committed, entry) /\ trimmed' = rev
          /\ Post(Nobody, <<>>, <<RestoredTo(rev, snapshot)>>)
          /\ UNCHANGED <<member, previous>>
        BY <1>9 DEF Restore, RestoreVersion
    <2>2. Revision = Len(committed) /\ Revision \in Nat /\ rev \in Nat
        BY <1>0 DEF RoomTypeOK, Revision
    <2>3. entry \in CommittedOp
        BY <2>2 DEF CommittedOp, BatchId
    <2>4. /\ committed' \in Seq(CommittedOp)
          /\ Len(committed') = rev /\ trimmed' \in 0 .. Len(committed')
        <3> HIDE DEF entry
        <3>1. QED
            BY <1>0, <2>1, <2>2, <2>3 DEF RoomTypeOK
    <2>5. (trimmed' + 1) .. Len(committed') = {}
        BY <2>1, <2>2, <2>4
    <2>6. snapshot \in Document
        <3>1. DocumentAt(Revision) \in Document
            BY <1>0, <2>2, DocumentAtType
        <3>2. QED
            BY <3>1 DEF Document
    <2>7. <<RestoredTo(rev, snapshot)>> \in Seq(ServerMessage)
        <3> HIDE DEF snapshot
        <3>1. RestoredTo(rev, snapshot) \in ServerMessage
            BY <2>2, <2>6, MessageTypes
        <3>2. QED
            BY <3>1
    <2>8. down' \in [Session -> Seq(ServerMessage)]
        <3> HIDE DEF snapshot
        <3>1. <<>> \in Seq(ServerMessage)
            OBVIOUS
        <3>2. QED
            BY <1>0, <2>1, <2>7, <3>1, PostType
    <2>9. RoomTypeOK'
        BY <1>0, <2>1, <2>4, <2>5, <2>8 DEF RoomTypeOK
    <2>10. QED
        BY <1>0, <1>9, <2>9, SpendType DEF Restore, TypeOK, ClientTypeOK
<1>10. CASE Stop
    <2>1. RoomTypeOK'
        BY <1>0, <1>10, RebuiltType
            DEF Stop, RoomStops, AllLeave, RoomTypeOK, Members
    <2>2. QED
        BY <1>0, <1>10, <2>1, SpendType DEF Stop, TypeOK, ClientTypeOK
<1>11. CASE Sleep
    <2>1. RoomTypeOK'
        BY <1>0, <1>11, RebuiltType DEF Sleep, Hibernate, RoomTypeOK
    <2>2. QED
        BY <1>0, <1>11, <2>1, SpendType DEF Sleep, TypeOK, ClientTypeOK
<1>12. CASE UNCHANGED vars
    BY <1>0, <1>12 DEF vars, TypeOK, RoomTypeOK, ClientTypeOK
<1>13. QED
    BY <1>1, <1>2, <1>3, <1>4, <1>5, <1>6, <1>7, <1>8, <1>9, <1>10, <1>11,
       <1>12 DEF Next

(* The initial state is well typed.                                        *)
LEMMA TypeInit == Init => TypeOK
<1> SUFFICES ASSUME Init PROVE TypeOK
    OBVIOUS
<1>1. /\ <<>> \in Seq(CommittedOp) /\ <<>> \in Seq(ServerMessage)
      /\ <<>> \in Seq(ClientMessage) /\ Len(<<>>) = 0
      /\ <<>> \in Seq(Op \cup {Restored})
    OBVIOUS
<1>2. RoomTypeOK
    BY <1>1 DEF Init, RoomInit, RoomTypeOK, Members
<1>3. NewClient \in Client
    BY <1>1 DEF NewClient, Client, NoneOrOne, Document
<1>4. QED
    BY <1>1, <1>2, <1>3 DEF Init, ClientInit, ClientTypeOK, TypeOK

(* Every reachable state is well typed: rooms, clients and messages of any *)
(* number of sessions, through every event.                                *)
THEOREM TypeCorrect == Spec => []TypeOK
<1>1. QED
    BY TypeInit, TypeStep, PTL DEF Spec

-----------------------------------------------------------------------------
(* No batch is committed twice, provided a dead socket delivers nothing    *)
(* after its session has connected again.                                  *)
(*                                                                         *)
(* The room alone cannot tell: a batch it has trimmed from its log looks   *)
(* like a new one.  What saves it is the revision a batch is made on.  As  *)
(* soon as a client knows of a revision, it also knows of its own batches  *)
(* up to it, so a batch that is sent again is always sent with a base      *)
(* before its commit: the log still reaches the commit, or the base is     *)
(* behind the log and the batch is refused as stale.                       *)

(* A history one longer: what was true of the shorter one. *)
LEMMA AppendFacts ==
    ASSUME NEW hist \in Seq(CommittedOp), NEW entry \in CommittedOp
    PROVE  /\ Append(hist, entry) \in Seq(CommittedOp)
           /\ Len(hist) \in Nat /\ DOMAIN hist = 1 .. Len(hist)
           /\ Len(Append(hist, entry)) = Len(hist) + 1
           /\ DOMAIN Append(hist, entry) = 1 .. (Len(hist) + 1)
           /\ \A k \in DOMAIN hist : Append(hist, entry)[k] = hist[k]
           /\ Append(hist, entry)[Len(hist) + 1] = entry
OBVIOUS

(* What is in the history stays in it, at the same revision.               *)
LEMMA InHistoryGrows ==
    ASSUME NEW hist \in Seq(CommittedOp), NEW entry \in CommittedOp,
           NEW c, InHistory(hist, c)
    PROVE  InHistory(Append(hist, entry), c)
BY AppendFacts DEF InHistory

(* A message that was true of the room stays true as it commits more.      *)
LEMMA MessageTrueGrows ==
    ASSUME NEW hist \in Seq(CommittedOp), NEW entry \in CommittedOp,
           NEW s, NEW m \in ServerMessage, MessageTrue(hist, s, m)
    PROVE  MessageTrue(Append(hist, entry), s, m)
<1>1. Len(hist) \in Nat /\ Len(Append(hist, entry)) = Len(hist) + 1
    BY AppendFacts
<1>2. m.type \in {"welcome", "resync", "restored", "ack"} =>
          m.revision \in Nat /\ m.revision <= Len(hist)
    BY ServerMessageFields DEF MessageTrue
<1>3. QED
    BY <1>1, <1>2, InHistoryGrows DEF MessageTrue

(* A new commit comes after everything any client has seen or sent, so all *)
(* it has to be is no batch the client has not made yet.                   *)
LEMMA ClientAheadGrows ==
    ASSUME NEW hist \in Seq(CommittedOp), NEW entry \in CommittedOp,
           NEW s, NEW cl \in Client, ClientAhead(hist, s, cl),
           entry.batchId[1] = s => entry.batchId[2] <= cl.batches
    PROVE  ClientAhead(Append(hist, entry), s, cl)
<1> DEFINE h == Append(hist, entry)
           n == Len(hist)
<1>1. /\ n \in Nat /\ DOMAIN hist = 1 .. n /\ DOMAIN h = 1 .. (n + 1)
      /\ Len(h) = n + 1 /\ h[n + 1] = entry
      /\ \A k \in 1 .. n : h[k] = hist[k]
    BY AppendFacts
<1>2. cl.revision \in Nat /\ cl.revision <= n
    BY DEF ClientAhead, Client
<1>3. \A k \in 1 .. (n + 1) : k \in 1 .. n \/ k = n + 1
    BY <1>1
<1> HIDE DEF h, n
<1>4. ASSUME NEW k \in DOMAIN h
      PROVE  /\ h[k].batchId[1] = s => h[k].batchId[2] <= cl.batches
             /\ cl.inflight # <<>> /\ h[k].batchId = InflightId(s, cl)
                   => cl.revision < k
    <2>1. CASE k \in 1 .. n
        BY <1>1, <2>1 DEF ClientAhead
    <2>2. CASE k = n + 1
        BY <1>1, <1>2, <2>2
    <2>3. QED
        BY <1>1, <1>3, <2>1, <2>2
<1>5. ASSUME NEW i \in DOMAIN cl.up
      PROVE  SubmitAhead(h, s, cl, cl.up[i])
    <2> DEFINE m == cl.up[i]
    <2>1. SubmitAhead(hist, s, cl, m)
        BY DEF ClientAhead
    <2>2. m.type = "submit" => m.base \in Nat
        <3>1. m \in ClientMessage
            BY DEF Client
        <3>2. QED
            BY <3>1 DEF ClientMessage
    <2> HIDE DEF m
    <2>3. ASSUME m.type = "submit", NEW k \in DOMAIN h,
                 h[k].batchId = m.batchId
          PROVE  m.base < k
        <3>1. m.base \in Nat /\ m.base <= n
            BY <2>1, <2>2, <2>3 DEF SubmitAhead, n
        <3>2. CASE k \in 1 .. n
            BY <1>1, <2>1, <2>3, <3>2 DEF SubmitAhead
        <3>3. CASE k = n + 1
            BY <1>1, <3>1, <3>3
        <3>4. QED
            BY <1>1, <1>3, <3>2, <3>3
    <2>4. m.type = "submit" => m.base <= Len(h)
        BY <1>1, <2>1, <2>2 DEF SubmitAhead, n
    <2>5. SubmitAhead(h, s, cl, m)
        BY <2>1, <2>3, <2>4 DEF SubmitAhead
    <2>6. QED
        BY <2>5 DEF m
<1>6. cl.revision <= Len(h)
    BY <1>1, <1>2
<1>7. ClientAhead(h, s, cl)
    BY <1>4, <1>5, <1>6 DEF ClientAhead
<1>8. QED
    BY <1>7 DEF h

-----------------------------------------------------------------------------
(* Every handler of the client keeps it ahead of the history. *)

(* What ClientAhead says depends on four fields only. *)
LEMMA AheadAgain ==
    ASSUME NEW hist, NEW s, NEW cl, NEW next, ClientAhead(hist, s, cl),
           next.revision <= Len(hist), next.batches = cl.batches,
           next.up = cl.up,
           \A k \in DOMAIN hist :
               next.inflight # <<>> /\ hist[k].batchId = <<s, cl.batches>>
                   => next.revision < k
    PROVE  ClientAhead(hist, s, next)
BY DEF ClientAhead, SubmitAhead, InflightId

(* Sending the batch in flight again keeps its base before its commit.     *)
LEMMA SendInflightAhead ==
    ASSUME NEW hist, NEW s, NEW cl \in Client, ClientAhead(hist, s, cl),
           cl.inflight # <<>>
    PROVE  ClientAhead(hist, s, SendInflight(s, cl))
<1> DEFINE m == Submit(InflightId(s, cl), cl.revision, cl.inflight[1])
<1>1. SubmitAhead(hist, s, cl, m)
    BY DEF SubmitAhead, ClientAhead, Submit, InflightId, Client
<1> HIDE DEF m
<1>2. CASE ~cl.open
    BY <1>2 DEF SendInflight, Send
<1>3. CASE cl.open
    <2> DEFINE next == [cl EXCEPT !.up = Append(@, m)]
    <2>1. /\ next.revision = cl.revision /\ next.batches = cl.batches
          /\ next.inflight = cl.inflight /\ next.up = Append(cl.up, m)
        BY DEF Client
    <2>2. cl.up \in Seq(ClientMessage)
        BY DEF Client
    <2>3. \A i \in DOMAIN Append(cl.up, m) :
              \/ i \in DOMAIN cl.up /\ Append(cl.up, m)[i] = cl.up[i]
              \/ Append(cl.up, m)[i] = m
        BY <2>2
    <2>4. SendInflight(s, cl) = next
        BY <1>3 DEF SendInflight, Send, m
    <2> HIDE DEF next
    <2>5. ASSUME NEW i \in DOMAIN next.up
          PROVE  SubmitAhead(hist, s, next, next.up[i])
        <3>1. SubmitAhead(hist, s, cl, next.up[i])
            BY <1>1, <2>1, <2>3 DEF ClientAhead
        <3>2. QED
            BY <2>1, <3>1 DEF SubmitAhead
    <2>6. QED
        BY <2>1, <2>4, <2>5 DEF ClientAhead, InflightId
<1>4. QED
    BY <1>2, <1>3 DEF Client

(* A new batch gets a number no batch of the session had. *)
LEMMA FlushAhead ==
    ASSUME NEW hist \in Seq(CommittedOp), NEW s, NEW cl \in Client,
           ClientAhead(hist, s, cl)
    PROVE  ClientAhead(hist, s, Flush(s, cl))
<1> DEFINE next == [cl EXCEPT !.batches = @ + 1, !.inflight = cl.buffer,
                              !.buffer = <<>>]
<1>1. CASE cl.inflight # <<>> \/ cl.buffer = <<>>
    BY <1>1 DEF Flush
<1>2. CASE ~(cl.inflight # <<>> \/ cl.buffer = <<>>)
    <2>1. /\ next \in Client /\ next.inflight = cl.buffer
          /\ next.revision = cl.revision /\ next.up = cl.up
          /\ next.batches = cl.batches + 1
        <3>1. cl.batches + 1 \in Nat /\ <<>> \in NoneOrOne(Op)
            BY DEF Client, NoneOrOne
        <3>2. QED
            BY <3>1 DEF Client
    <2>2. cl.batches \in Nat /\ cl.up \in Seq(ClientMessage)
        BY DEF Client
    <2>3. Flush(s, cl) = SendInflight(s, next)
        BY <1>2 DEF Flush
    <2> HIDE DEF next
    <2>4. ASSUME NEW k \in DOMAIN hist
          PROVE  /\ hist[k].batchId[1] = s =>
                       hist[k].batchId[2] <= next.batches
                 /\ hist[k].batchId # InflightId(s, next)
        <3>1. hist[k].batchId \in BatchId
            <4>1. hist[k] \in CommittedOp
                OBVIOUS
            <4>2. QED
                BY <4>1 DEF CommittedOp
        <3>2. hist[k].batchId[1] = s => hist[k].batchId[2] <= cl.batches
            BY DEF ClientAhead
        <3>3. hist[k].batchId[2] \in Nat
            BY <3>1 DEF BatchId
        <3>4. QED
            BY <2>1, <2>2, <3>2, <3>3 DEF InflightId
    <2>5. ASSUME NEW i \in DOMAIN next.up
          PROVE  SubmitAhead(hist, s, next, next.up[i])
        <3>1. SubmitAhead(hist, s, cl, cl.up[i]) /\ cl.up[i] \in ClientMessage
            BY <2>1, <2>2 DEF ClientAhead
        <3>2. cl.up[i].type = "submit" => cl.up[i].batchId[2] \in Nat
            BY <3>1 DEF ClientMessage, BatchId
        <3>3. QED
            BY <2>1, <2>2, <3>1, <3>2 DEF SubmitAhead
    <2>6. ClientAhead(hist, s, next)
        BY <2>1, <2>4, <2>5 DEF ClientAhead
    <2>7. QED
        BY <1>2, <2>1, <2>3, <2>6, SendInflightAhead
<1>3. QED
    BY <1>1, <1>2

(* An edit of the client's own keeps its batches ahead (apply).            *)
LEMMA AppliedAhead ==
    ASSUME NEW hist \in Seq(CommittedOp), NEW s, NEW cl \in Client,
           NEW op \in Op, ClientAhead(hist, s, cl)
    PROVE  ClientAhead(hist, s, Applied(s, cl, op))
<1> DEFINE buffer == IF cl.buffer = <<>> THEN <<op>>
                     ELSE <<Then(cl.buffer[1], op)>>
           doc == Undone(cl) \o cl.inflight \o buffer
           next == [cl EXCEPT !.doc = doc, !.buffer = buffer]
<1>1. buffer \in NoneOrOne(Op)
    BY AdapterAssumption DEF Client, NoneOrOne
<1>2. doc \in Document
    <2> HIDE DEF buffer
    <2>1. buffer \in Document
        BY <1>1, NoneOrOneFacts
    <2>2. QED
        BY <2>1, UndoneType DEF Document
<1>3. Applied(s, cl, op) = Flush(s, next)
    BY DEF Applied
<1> HIDE DEF doc, buffer
<1>4. next \in Client
    BY <1>1, <1>2 DEF Client
<1>5. ClientAhead(hist, s, next)
    <2>1. /\ next.revision = cl.revision /\ next.batches = cl.batches
          /\ next.up = cl.up /\ next.inflight = cl.inflight
        BY DEF Client
    <2> HIDE DEF next
    <2>2. next.revision <= Len(hist)
        BY <2>1 DEF ClientAhead
    <2>3. \A k \in DOMAIN hist :
              next.inflight # <<>> /\ hist[k].batchId = <<s, cl.batches>>
                  => next.revision < k
        BY <2>1 DEF ClientAhead, InflightId
    <2>4. QED
        BY <2>1, <2>2, <2>3, AheadAgain
<1>6. QED
    <2> HIDE DEF next
    <2>1. QED
        BY <1>3, <1>4, <1>5, FlushAhead

(* So does a snapshot of a revision the room has reached (reset).          *)
LEMMA ResetAhead ==
    ASSUME NEW hist, NEW s, NEW cl \in Client, NEW rev \in Nat, NEW snapshot,
           ClientAhead(hist, s, cl), rev <= Len(hist)
    PROVE  ClientAhead(hist, s, Reset(cl, rev, snapshot))
<1> DEFINE next == Reset(cl, rev, snapshot)
<1>1. /\ next.revision = rev /\ next.batches = cl.batches
      /\ next.up = cl.up /\ next.inflight = <<>>
    BY DEF Reset, Client
<1> HIDE DEF next
<1>2. ClientAhead(hist, s, next)
    BY <1>1, AheadAgain
<1>3. QED
    BY <1>2 DEF next

(* So does a refusal (rollBack).                                           *)
LEMMA RolledBackAhead ==
    ASSUME NEW hist, NEW s, NEW cl \in Client, NEW id,
           ClientAhead(hist, s, cl)
    PROVE  ClientAhead(hist, s, RolledBack(s, cl, id))
<1> DEFINE next == [cl EXCEPT !.doc = Undone(cl), !.inflight = <<>>,
                              !.buffer = <<>>]
<1>1. /\ next.revision = cl.revision /\ next.batches = cl.batches
      /\ next.up = cl.up /\ next.inflight = <<>>
    BY DEF Client
<1>2. RolledBack(s, cl, id) \in {cl, next}
    BY DEF RolledBack
<1> HIDE DEF next
<1>3. ClientAhead(hist, s, next)
    BY <1>1, AheadAgain DEF ClientAhead
<1>4. QED
    BY <1>2, <1>3

(* So does an ack: nothing is in flight after it but a new batch (ack).    *)
LEMMA AckedAhead ==
    ASSUME NEW hist \in Seq(CommittedOp), NEW s, NEW cl \in Client, NEW id,
           NEW rev \in Nat, rev <= Len(hist), ClientAhead(hist, s, cl)
    PROVE  ClientAhead(hist, s, Acked(s, cl, id, rev))
<1> DEFINE next == [cl EXCEPT !.revision = rev, !.inflight = <<>>]
<1>1. /\ next.revision = rev /\ next.batches = cl.batches
      /\ next.up = cl.up /\ next.inflight = <<>> /\ next \in Client
    BY DEF Client, NoneOrOne
<1>2. Acked(s, cl, id, rev) \in {cl, Flush(s, next)}
    BY DEF Acked
<1> HIDE DEF next
<1>3. ClientAhead(hist, s, next)
    BY <1>1, AheadAgain
<1>4. ClientAhead(hist, s, Flush(s, next))
    BY <1>1, <1>3, FlushAhead
<1>5. QED
    BY <1>2, <1>4

(* The one step that takes the base of a batch in flight further: past an  *)
(* op that is not the batch itself.                                        *)
LEMMA RebasedAhead ==
    ASSUME NEW hist \in Seq(CommittedOp), NEW s, NEW cl \in Client,
           NEW c \in NumberedOp, InHistory(hist, c), ClientAhead(hist, s, cl),
           cl.inflight # <<>> => c.batchId # InflightId(s, cl)
    PROVE  ClientAhead(hist, s, Rebased(cl, c))
<1>1. CASE ~cl.loaded \/ c.revision # cl.revision + 1
    BY <1>1 DEF Rebased
<1>2. CASE ~(~cl.loaded \/ c.revision # cl.revision + 1)
    <2> DEFINE next == Rebased(cl, c)
    <2>1. /\ next.revision = c.revision /\ next.batches = cl.batches
          /\ next.up = cl.up /\ next.inflight = After(cl.inflight, c.op)
        BY <1>2 DEF Rebased, Client
    <2>2. next.inflight # <<>> => cl.inflight # <<>>
        BY <2>1 DEF After
    <2>3. cl.revision \in Nat /\ c.revision = cl.revision + 1
        BY <1>2 DEF Client
    <2> HIDE DEF next
    <2>4. ASSUME NEW k \in DOMAIN hist, next.inflight # <<>>,
                 hist[k].batchId = <<s, cl.batches>>
          PROVE  next.revision < k
        <3>1. cl.revision < k /\ k \in Nat
            BY <2>2, <2>4 DEF ClientAhead, InflightId
        <3>2. k # c.revision
            BY <2>2, <2>4 DEF InHistory, InflightId
        <3>3. QED
            BY <2>1, <2>3, <3>1, <3>2
    <2>5. next.revision <= Len(hist)
        BY <2>1 DEF InHistory
    <2>6. ClientAhead(hist, s, next)
        BY <2>1, <2>4, <2>5, AheadAgain
    <2>7. QED
        BY <2>6 DEF next
<1>3. QED
    BY <1>1, <1>2

(* So does one op of a catch-up, one's own recognised by its id (welcome). *)
LEMMA CaughtUpAhead ==
    ASSUME NEW hist \in Seq(CommittedOp), NEW s, NEW cl \in Client,
           NEW c \in NumberedOp, InHistory(hist, c), ClientAhead(hist, s, cl)
    PROVE  ClientAhead(hist, s, CaughtUp(s, cl, c))
<1>1. c.revision \in Nat /\ c.revision <= Len(hist)
    BY DEF InHistory, NumberedOp
<1>2. QED
    BY <1>1, AckedAhead, RebasedAhead DEF CaughtUp

(* So does the welcome as a whole, which sends again what is in flight.    *)
LEMMA WelcomedAhead ==
    ASSUME NEW hist \in Seq(CommittedOp), NEW s \in Session,
           NEW cl \in Client, NEW missed \in Seq(NumberedOp),
           \A i \in DOMAIN missed : InHistory(hist, missed[i]),
           ClientAhead(hist, s, cl)
    PROVE  ClientAhead(hist, s, Welcomed(s, cl, missed))
<1> DEFINE Good == {x \in Client : ClientAhead(hist, s, x)}
<1>1. \A x \in Good : \A i \in 1 .. Len(missed) :
          CaughtUp(s, x, missed[i]) \in Good
    <2>1. ASSUME NEW x \in Good, NEW i \in 1 .. Len(missed)
          PROVE  CaughtUp(s, x, missed[i]) \in Good
        <3>1. /\ missed[i] \in NumberedOp /\ InHistory(hist, missed[i])
              /\ x \in Client /\ ClientAhead(hist, s, x)
            OBVIOUS
        <3>2. QED
            BY <3>1, CaughtUpType, CaughtUpAhead
    <2>2. QED
        BY <2>1
<1>2. cl \in Good /\ Len(missed) \in Nat
    OBVIOUS
<1>3. PICK now \in Good :
          Welcomed(s, cl, missed)
              = IF now.inflight # <<>> THEN SendInflight(s, now)
                ELSE Flush(s, now)
    <2> HIDE DEF Good
    <2>1. QED
        BY <1>1, <1>2, CatchUpPreserves
<1>4. now \in Client /\ ClientAhead(hist, s, now)
    OBVIOUS
<1>5. QED
    BY <1>3, <1>4, SendInflightAhead, FlushAhead

(* So does any true message of the room (receive).                         *)
LEMMA ReceivedAhead ==
    ASSUME NEW hist \in Seq(CommittedOp), NEW s \in Session,
           NEW cl \in Client, NEW m \in ServerMessage,
           MessageTrue(hist, s, m), ClientAhead(hist, s, cl)
    PROVE  ClientAhead(hist, s, Received(s, cl, m))
<1>1. CASE /\ m.type \in {"welcome", "resync", "restored"}
           /\ Received(s, cl, m) = Reset(cl, m.revision, m.snapshot)
    BY <1>1, ServerMessageFields, ResetAhead DEF MessageTrue
<1>2. CASE /\ m.type = "catchUp"
           /\ Received(s, cl, m) = Welcomed(s, cl, m.missed)
    BY <1>2, ServerMessageFields, WelcomedAhead DEF MessageTrue
<1>3. CASE /\ m.type = "ack"
           /\ Received(s, cl, m) = Acked(s, cl, m.batchId, m.revision)
    BY <1>3, ServerMessageFields, AckedAhead DEF MessageTrue
<1>4. CASE /\ m.type = "op"
           /\ Received(s, cl, m) = Rebased(cl, m.committed)
    <2>1. /\ m.committed \in NumberedOp /\ InHistory(hist, m.committed)
          /\ m.committed.batchId[1] # s
        BY <1>4, ServerMessageFields DEF MessageTrue
    <2>2. m.committed.batchId # InflightId(s, cl)
        BY <2>1 DEF InflightId
    <2>3. QED
        BY <1>4, <2>1, <2>2, RebasedAhead
<1>5. CASE /\ m.type = "reject"
           /\ Received(s, cl, m) = RolledBack(s, cl, m.batchId)
    BY <1>5, RolledBackAhead
<1>6. QED
    BY <1>1, <1>2, <1>3, <1>4, <1>5, ReceivedCases

(* Handling a message of its own socket takes it off the queue. *)
LEMMA TailAhead ==
    ASSUME NEW hist, NEW s, NEW cl \in Client, cl.up # <<>>,
           ClientAhead(hist, s, cl)
    PROVE  ClientAhead(hist, s, [cl EXCEPT !.up = Tail(@)])
<1> DEFINE next == [cl EXCEPT !.up = Tail(@)]
<1>1. /\ next.revision = cl.revision /\ next.batches = cl.batches
      /\ next.inflight = cl.inflight /\ next.up = Tail(cl.up)
    BY DEF Client
<1>2. cl.up \in Seq(ClientMessage)
    BY DEF Client
<1>3. \A i \in DOMAIN Tail(cl.up) :
          i + 1 \in DOMAIN cl.up /\ Tail(cl.up)[i] = cl.up[i + 1]
    BY <1>2
<1> HIDE DEF next
<1>4. \A i \in DOMAIN next.up : SubmitAhead(hist, s, next, next.up[i])
    BY <1>1, <1>3 DEF ClientAhead, SubmitAhead
<1>5. ClientAhead(hist, s, next)
    BY <1>1, <1>4 DEF ClientAhead, InflightId
<1>6. QED
    BY <1>5 DEF next

(* Opening or closing a socket with no batch on it disturbs nothing.       *)
LEMMA EmptyUpAhead ==
    ASSUME NEW hist, NEW s, NEW cl \in Client, NEW open, NEW up,
           \A i \in DOMAIN up : up[i].type # "submit",
           ClientAhead(hist, s, cl)
    PROVE  ClientAhead(hist, s, [cl EXCEPT !.open = open, !.up = up])
<1> DEFINE next == [cl EXCEPT !.open = open, !.up = up]
<1>1. /\ next.revision = cl.revision /\ next.batches = cl.batches
      /\ next.inflight = cl.inflight /\ next.up = up
    BY DEF Client
<1> HIDE DEF next
<1>2. ClientAhead(hist, s, next)
    BY <1>1 DEF ClientAhead, SubmitAhead, InflightId
<1>3. QED
    BY <1>2 DEF next

-----------------------------------------------------------------------------
(* What the room does. *)
Told(hist) ==
    \A t \in Session : \A i \in DOMAIN down[t] :
        MessageTrue(hist, t, down[t][i])

AllAhead(hist) == \A t \in Session : ClientAhead(hist, t, client[t])

ServerIds ==
    \A i \in DOMAIN committed :
        committed[i].batchId[1] = Nobody => committed[i].batchId[2] = i

(* A broadcast of true messages leaves only true messages under way. *)
LEMMA PostTold ==
    ASSUME RoomTypeOK, NEW hist, NEW c, NEW reply \in Seq(ServerMessage),
           NEW news \in Seq(ServerMessage), Post(c, reply, news),
           Told(hist),
           c \in Session =>
               \A i \in DOMAIN reply : MessageTrue(hist, c, reply[i]),
           \A t \in Session \ {c} :
               \A i \in DOMAIN news : MessageTrue(hist, t, news[i])
    PROVE  \A t \in Session : \A i \in DOMAIN down'[t] :
               MessageTrue(hist, t, down'[t][i])
<1>1. ASSUME NEW t \in Session, NEW i \in DOMAIN down'[t]
      PROVE  MessageTrue(hist, t, down'[t][i])
    <2> DEFINE new == IF t = c THEN reply
                      ELSE IF member[t] = "ready" THEN news ELSE <<>>
    <2>1. down'[t] = down[t] \o new
        BY DEF Post
    <2>2. down[t] \in Seq(ServerMessage) /\ new \in Seq(ServerMessage)
        <3>1. <<>> \in Seq(ServerMessage)
            OBVIOUS
        <3>2. QED
            BY <3>1 DEF RoomTypeOK
    <2>3. \A j \in DOMAIN new : MessageTrue(hist, t, new[j])
        OBVIOUS
    <2> HIDE DEF new
    <2>4. \/ i \in DOMAIN down[t] /\ down'[t][i] = down[t][i]
          \/ /\ i - Len(down[t]) \in DOMAIN new
             /\ down'[t][i] = new[i - Len(down[t])]
        BY <2>1, <2>2
    <2>5. QED
        BY <2>3, <2>4 DEF Told
<1>2. QED
    BY <1>1

(* The history grows by a batch that is not in it. *)
LEMMA NewBatchOnce ==
    ASSUME RoomTypeOK, CommittedOnce, ServerIds, NEW entry \in CommittedOp,
           committed' = Append(committed, entry),
           \A k \in DOMAIN committed : committed[k].batchId # entry.batchId,
           entry.batchId[1] = Nobody => entry.batchId[2] = Len(committed) + 1
    PROVE  CommittedOnce' /\ ServerIds'
<1> DEFINE n == Len(committed)
<1>1. /\ n \in Nat /\ DOMAIN committed = 1 .. n
      /\ DOMAIN committed' = 1 .. (n + 1) /\ committed'[n + 1] = entry
      /\ \A k \in 1 .. n : committed'[k] = committed[k]
    BY AppendFacts DEF RoomTypeOK
<1> HIDE DEF n
<1>2. \A k \in 1 .. (n + 1) : k \in 1 .. n \/ k = n + 1
    BY <1>1
<1>3. ASSUME NEW i \in 1 .. (n + 1), NEW j \in 1 .. (n + 1),
             committed'[i].batchId = committed'[j].batchId
      PROVE  i = j
    <2>1. CASE i \in 1 .. n /\ j \in 1 .. n
        BY <1>1, <1>3, <2>1 DEF CommittedOnce
    <2>2. CASE i = n + 1 /\ j \in 1 .. n
        BY <1>1, <1>3, <2>2
    <2>3. CASE j = n + 1 /\ i \in 1 .. n
        BY <1>1, <1>3, <2>3
    <2>4. QED
        BY <1>2, <2>1, <2>2, <2>3
<1>4. CommittedOnce'
    BY <1>1, <1>3 DEF CommittedOnce
<1>5. ServerIds'
    BY <1>1, <1>2 DEF ServerIds, n
<1>6. QED
    BY <1>4, <1>5

(* A commit of a new batch keeps every client ahead and every message      *)
(* true.                                                                   *)
LEMMA HistoryGrows ==
    ASSUME TypeOK, NEW entry \in CommittedOp,
           committed' = Append(committed, entry),
           Told(committed), AllAhead(committed),
           \A t \in Session : entry.batchId[1] = t =>
               entry.batchId[2] <= client[t].batches
    PROVE  Told(committed') /\ AllAhead(committed')
<1>1. committed \in Seq(CommittedOp)
    BY DEF TypeOK, RoomTypeOK
<1>2. ASSUME NEW t \in Session PROVE ClientAhead(committed', t, client[t])
    <2>1. client[t] \in Client
        BY DEF TypeOK, ClientTypeOK
    <2>2. QED
        BY <1>1, <2>1, ClientAheadGrows DEF AllAhead
<1>3. ASSUME NEW t \in Session, NEW i \in DOMAIN down[t]
      PROVE  MessageTrue(committed', t, down[t][i])
    <2>1. down[t][i] \in ServerMessage
        <3>1. down[t] \in Seq(ServerMessage)
            BY DEF TypeOK, RoomTypeOK
        <3>2. QED
            BY <3>1
    <2>2. QED
        BY <1>1, <2>1, MessageTrueGrows DEF Told
<1>4. QED
    BY <1>2, <1>3 DEF Told, AllAhead

(* The room's reply changes nothing but what is under way. *)
LEMMA ReplyKeeps ==
    ASSUME TypeOK, Bookkeeping, NEW c, NEW reply \in Seq(ServerMessage),
           Post(c, reply, <<>>), committed' = committed,
           c \in Session =>
               \A i \in DOMAIN reply : MessageTrue(committed, c, reply[i])
    PROVE  /\ CommittedOnce' /\ ServerIds' /\ AllAhead(committed')
           /\ \A t \in Session : \A i \in DOMAIN down'[t] :
                 MessageTrue(committed', t, down'[t][i])
<1>1. /\ RoomTypeOK /\ <<>> \in Seq(ServerMessage) /\ DOMAIN <<>> = {}
      /\ Told(committed)
    BY DEF TypeOK, Bookkeeping, Told
<1>2. \A t \in Session : \A i \in DOMAIN down'[t] :
          MessageTrue(committed, t, down'[t][i])
    BY <1>1, PostTold
<1>3. QED
    BY <1>2 DEF Bookkeeping, CommittedOnce, ServerIds, AllAhead

(* Handling a batch keeps the books, whichever way it goes (submit).       *)
LEMMA RoomSubmitKeeps ==
    ASSUME TypeOK, Bookkeeping, NEW s \in Session, NEW m \in ClientMessage,
           m.type = "submit", SubmitAhead(committed, s, client[s], m),
           NEW ready, RoomSubmit(s, m, ready)
    PROVE  /\ CommittedOnce' /\ ServerIds' /\ AllAhead(committed')
           /\ \A t \in Session : \A i \in DOMAIN down'[t] :
                 MessageTrue(committed', t, down'[t][i])
<1>0. /\ RoomTypeOK /\ committed \in Seq(CommittedOp)
      /\ Revision = Len(committed) /\ Revision \in Nat
      /\ trimmed \in 0 .. Revision
      /\ m.batchId \in BatchId /\ m.base \in Nat /\ m.op \in Op
      /\ Told(committed) /\ AllAhead(committed) /\ CommittedOnce /\ ServerIds
    BY DEF TypeOK, RoomTypeOK, ClientMessage, Revision, Bookkeeping, Told,
           AllAhead, ServerIds
<1>1. CASE UNCHANGED roomVars
    BY <1>0, <1>1 DEF roomVars, CommittedOnce, ServerIds, AllAhead, Told
<1>2. CASE AckAgain(s, m)
    <2>1. PICK i \in Logged : Post(s, <<Ack(m.batchId, i)>>, <<>>)
        BY <1>2 DEF AckAgain
    <2>2. i \in Nat /\ i <= Len(committed)
        BY <1>0, <2>1 DEF Logged
    <2> DEFINE reply == <<Ack(m.batchId, i)>>
    <2>3. Ack(m.batchId, i) \in ServerMessage
        BY <1>0, <2>2, MessageTypes
    <2>4. MessageTrue(committed, s, Ack(m.batchId, i))
        BY <2>2 DEF MessageTrue, Ack
    <2>5. /\ reply \in Seq(ServerMessage)
          /\ \A j \in DOMAIN reply : MessageTrue(committed, s, reply[j])
        BY <2>3, <2>4
    <2>6. committed' = committed
        BY <1>2 DEF AckAgain
    <2> HIDE DEF reply
    <2>7. Post(s, reply, <<>>)
        BY <2>1 DEF reply
    <2>8. QED
        BY <2>5, <2>6, <2>7, ReplyKeeps
<1>3. CASE Refuse(s, m)
    <2> DEFINE resync == Resync(Revision, DocumentAt(Revision))
               reply == <<Reject(m.batchId), resync>>
    <2>1. Reject(m.batchId) \in ServerMessage /\ resync \in ServerMessage
        BY <1>0, DocumentAtType, MessageTypes
    <2>2. /\ MessageTrue(committed, s, Reject(m.batchId))
          /\ MessageTrue(committed, s, resync)
        BY <1>0 DEF MessageTrue, Reject, Resync
    <2> HIDE DEF resync
    <2>3. /\ reply \in Seq(ServerMessage)
          /\ \A j \in DOMAIN reply : MessageTrue(committed, s, reply[j])
        BY <2>1, <2>2
    <2>4. Post(s, reply, <<>>) /\ committed' = committed
        BY <1>3 DEF Refuse, resync
    <2> HIDE DEF reply
    <2>5. QED
        BY <2>3, <2>4, ReplyKeeps
<1>4. CASE FailToApply(s, m)
    <2> DEFINE reply == <<Reject(m.batchId)>>
    <2>1. /\ Reject(m.batchId) \in ServerMessage
          /\ MessageTrue(committed, s, Reject(m.batchId))
        BY <1>0, MessageTypes DEF MessageTrue, Reject
    <2>2. /\ reply \in Seq(ServerMessage)
          /\ \A j \in DOMAIN reply : MessageTrue(committed, s, reply[j])
        BY <2>1
    <2>3. Post(s, reply, <<>>) /\ committed' = committed
        BY <1>4 DEF FailToApply, Rebuilt
    <2> HIDE DEF reply
    <2>4. QED
        BY <2>2, <2>3, ReplyKeeps
<1>5. CASE Commit(s, m)
    <2> DEFINE rev == Revision + 1
               entry == [op |-> PastLog(m.op, m.base), batchId |-> m.batchId]
               news == [revision |-> rev, op |-> entry.op,
                        batchId |-> entry.batchId]
               told == <<Remote(news)>>
               reply == <<Ack(m.batchId, rev)>>
    <2>1. /\ committed' = Append(committed, entry)
          /\ Post(s, reply, told)
        BY <1>5 DEF Commit, Remember
    <2>2. /\ entry \in CommittedOp /\ entry.batchId = m.batchId
          /\ news \in NumberedOp
        <3>1. m.base \in 0 .. Revision
            BY <1>0, <1>5 DEF Commit, Stale, OldestBase
        <3>2. PastLog(m.op, m.base) \in Op
            BY <1>0, <3>1, PastLogType
        <3>3. rev \in Nat
            BY <1>0
        <3>4. QED
            BY <1>0, <3>2, <3>3 DEF CommittedOp, NumberedOp
    <2>3. m.batchId[1] = s /\ m.batchId[2] <= client[s].batches /\ s # Nobody
        BY NobodyAssumption DEF SubmitAhead
    (* The batch is in the log, or behind it with its base, or new. *)
    <2>4. ASSUME NEW k \in DOMAIN committed
          PROVE  committed[k].batchId # m.batchId
        <3>1. SUFFICES ASSUME committed[k].batchId = m.batchId PROVE FALSE
            OBVIOUS
        <3>2. m.base < k
            BY <3>1 DEF SubmitAhead
        <3>3. trimmed <= m.base
            BY <1>0, <1>5 DEF Commit, Stale, OldestBase
        <3>4. k \in Logged
            BY <1>0, <3>2, <3>3 DEF Logged
        <3>5. QED
            BY <1>5, <3>1, <3>4 DEF Commit, InLog
    <2> HIDE DEF entry
    <2>5. CommittedOnce' /\ ServerIds'
        BY <1>0, <2>1, <2>2, <2>3, <2>4, NewBatchOnce
    <2>6. Told(committed') /\ AllAhead(committed')
        BY <1>0, <2>1, <2>2, <2>3, HistoryGrows
    <2>7. /\ Len(committed') = rev /\ rev \in DOMAIN committed'
          /\ committed'[rev] = entry /\ rev \in Nat
        BY <1>0, <2>1, <2>2, AppendFacts
    <2>8. /\ Ack(m.batchId, rev) \in ServerMessage
          /\ MessageTrue(committed', s, Ack(m.batchId, rev))
        BY <1>0, <2>7, MessageTypes DEF MessageTrue, Ack
    <2>9. /\ Remote(news) \in ServerMessage
          /\ \A t \in Session \ {s} :
                 MessageTrue(committed', t, Remote(news))
        <3>1. InHistory(committed', news)
            BY <2>7 DEF InHistory
        <3>2. news.batchId[1] = s
            BY <2>2, <2>3
        <3> HIDE DEF news
        <3>3. QED
            BY <2>2, <3>1, <3>2, MessageTypes DEF MessageTrue, Remote
    <2>10. /\ reply \in Seq(ServerMessage) /\ told \in Seq(ServerMessage)
           /\ \A i \in DOMAIN reply : MessageTrue(committed', s, reply[i])
           /\ \A t \in Session \ {s} :
                 \A i \in DOMAIN told : MessageTrue(committed', t, told[i])
        <3> HIDE DEF news, rev
        <3>1. QED
            BY <2>8, <2>9
    <2> HIDE DEF reply, told
    <2>11. \A t \in Session : \A i \in DOMAIN down'[t] :
               MessageTrue(committed', t, down'[t][i])
        BY <1>0, <2>1, <2>6, <2>10, PostTold
    <2>12. QED
        BY <2>5, <2>6, <2>11
<1>6. QED
    BY <1>1, <1>2, <1>3, <1>4, <1>5 DEF RoomSubmit

(* A socket that is gone takes its messages with it (onclose).             *)
LEMMA SocketGoneKeeps ==
    ASSUME TypeOK, Bookkeeping, ~LateDelivery,
           NEW s \in Session, SocketGone(s)
    PROVE  Bookkeeping'
<1>1. /\ committed' = committed
      /\ down' = [down EXCEPT ![s] = <<>>]
      /\ late' = [late EXCEPT ![s] = <<>>]
      /\ client' = [client EXCEPT
                       ![s] = [client[s] EXCEPT !.open = FALSE, !.up = <<>>]]
    BY DEF SocketGone, Leave, Close, Update
<1>2. /\ client \in [Session -> Client] /\ down \in [Session -> Seq(ServerMessage)]
      /\ DOMAIN late = Session /\ DOMAIN <<>> = {}
    BY DEF TypeOK, RoomTypeOK, ClientTypeOK
<1>3. ASSUME NEW t \in Session
      PROVE  /\ ClientAhead(committed, t, client'[t])
             /\ \A i \in DOMAIN down'[t] :
                   MessageTrue(committed, t, down'[t][i])
             /\ late'[t] = <<>>
    <2>1. CASE t = s
        <3>1. ClientAhead(committed, s, client[s]) /\ client[s] \in Client
            BY <1>2 DEF Bookkeeping
        <3>2. \A i \in DOMAIN <<>> : <<>>[i].type # "submit"
            BY <1>2
        <3>3. ClientAhead(committed, s,
                          [client[s] EXCEPT !.open = FALSE, !.up = <<>>])
            BY <3>1, <3>2, EmptyUpAhead
        <3>4. QED
            BY <1>1, <1>2, <2>1, <3>3
    <2>2. CASE t # s
        BY <1>1, <1>2, <2>2 DEF Bookkeeping
    <2>3. QED
        BY <2>1, <2>2
<1>4. QED
    BY <1>1, <1>3 DEF Bookkeeping, CommittedOnce

(* The strengthened invariant is inductive. *)
LEMMA BookkeepingStep ==
    ~LateDelivery /\ TypeOK /\ Bookkeeping /\ [Next]_vars => Bookkeeping'
<1> SUFFICES ASSUME ~LateDelivery, TypeOK, Bookkeeping, [Next]_vars
             PROVE  Bookkeeping'
    OBVIOUS
<1>0. /\ RoomTypeOK /\ client \in [Session -> Client]
      /\ down \in [Session -> Seq(ServerMessage)]
      /\ committed \in Seq(CommittedOp)
      /\ Revision = Len(committed) /\ Revision \in Nat
      /\ Told(committed) /\ AllAhead(committed) /\ CommittedOnce /\ ServerIds
      /\ \A t \in Session : late[t] = <<>>
    BY DEF TypeOK, RoomTypeOK, ClientTypeOK, Bookkeeping, Told, AllAhead,
           ServerIds, Revision
<1>1. ASSUME NEW s \in Session, Connect(s) PROVE Bookkeeping'
    <2> DEFINE since == IF client[s].loaded THEN client[s].revision ELSE Fresh
               up == <<Hello(since)>>
    <2>1. /\ committed' = committed /\ late' = late
          /\ down' = [down EXCEPT ![s] = <<>>]
          /\ client' = [client EXCEPT
                           ![s] = [client[s] EXCEPT !.open = TRUE, !.up = up]]
        BY <1>1 DEF Connect, Join, Open, Update
    <2>2. \A i \in DOMAIN up : up[i].type # "submit"
        BY DEF Hello
    <2> HIDE DEF up
    <2>3. ASSUME NEW t \in Session
          PROVE  /\ ClientAhead(committed, t, client'[t])
                 /\ \A i \in DOMAIN down'[t] :
                       MessageTrue(committed, t, down'[t][i])
        <3>1. CASE t = s
            <4>1. ClientAhead(committed, s,
                              [client[s] EXCEPT !.open = TRUE, !.up = up])
                BY <1>0, <2>2, EmptyUpAhead DEF AllAhead
            <4>2. DOMAIN <<>> = {}
                OBVIOUS
            <4>3. QED
                BY <1>0, <2>1, <3>1, <4>1, <4>2
        <3>2. CASE t # s
            BY <1>0, <2>1, <3>2 DEF Told, AllAhead
        <3>3. QED
            BY <3>1, <3>2
    <2>4. QED
        BY <1>0, <2>1, <2>3 DEF Bookkeeping, CommittedOnce
<1>2. ASSUME NEW s \in Session, Disconnect(s) PROVE Bookkeeping'
    BY <1>2, SocketGoneKeeps DEF Disconnect
<1>3. ASSUME NEW s \in Session, HungUp(s) PROVE Bookkeeping'
    BY <1>3, SocketGoneKeeps DEF HungUp
<1>4. ASSUME NEW s \in Session, Edit(s) PROVE Bookkeeping'
    <2>1. PICK op \in EditsOf(s) : Apply(s, op)
        BY <1>4 DEF Edit
    <2>2. /\ client' = [client EXCEPT ![s] = Applied(s, client[s], op)]
          /\ committed' = committed /\ down' = down /\ late' = late
        BY <1>4, <2>1 DEF Edit, Apply, Update, roomVars
    <2>3. ClientAhead(committed, s, Applied(s, client[s], op))
        BY <1>0, EnvironmentAssumption, AppliedAhead DEF AllAhead
    <2>4. \A t \in Session : ClientAhead(committed, t, client'[t])
        BY <1>0, <2>2, <2>3 DEF AllAhead
    <2>5. QED
        BY <1>0, <2>2, <2>4 DEF Bookkeeping, CommittedOnce
<1>5. ASSUME NEW s \in Session, ToRoom(s) PROVE Bookkeeping'
    <2> DEFINE m == Head(client[s].up)
               next == [client[s] EXCEPT !.up = Tail(@)]
    <2>1. /\ client[s].up # <<>> /\ late' = late
          /\ client' = [client EXCEPT ![s] = next]
        BY <1>5 DEF ToRoom, Update
    <2>2. client[s] \in Client /\ client[s].up \in Seq(ClientMessage)
        BY <1>0 DEF Client
    <2>3. m \in ClientMessage /\ m = client[s].up[1] /\ 1 \in DOMAIN client[s].up
        BY <2>1, <2>2
    <2>4. /\ CommittedOnce' /\ ServerIds' /\ AllAhead(committed')
          /\ \A t \in Session : \A i \in DOMAIN down'[t] :
                MessageTrue(committed', t, down'[t][i])
        <3>1. CASE UNCHANGED roomVars
            BY <1>0, <3>1 DEF roomVars, CommittedOnce, ServerIds, AllAhead, Told
        <3>2. CASE RoomHello(s, m.since) /\ m.type = "hello"
            <4> DEFINE reply == IF m.since # Fresh /\ OldestBase <= m.since
                                     /\ m.since <= Revision
                                THEN CatchUp(LogAfter(m.since))
                                ELSE Welcome(Revision, DocumentAt(Revision))
            <4>1. /\ committed' = committed
                  /\ down' = [down EXCEPT ![s] = Append(@, reply)]
                BY <3>2 DEF RoomHello
            <4>2. MessageTrue(committed, s,
                              Welcome(Revision, DocumentAt(Revision)))
                BY <1>0 DEF MessageTrue, Welcome
            <4>3. ASSUME m.since # Fresh, m.since <= Revision
                  PROVE  MessageTrue(committed, s, CatchUp(LogAfter(m.since)))
                <5> DEFINE missed == LogAfter(m.since)
                <5>1. m.since \in 0 .. Revision
                    BY <1>0, <2>3, <3>2, <4>3 DEF ClientMessage
                <5>2. /\ missed \in Seq(NumberedOp)
                      /\ \A i \in 1 .. Len(missed) :
                            /\ missed[i].revision \in 1 .. Revision
                            /\ missed[i] = Numbered(missed[i].revision)
                    BY <1>0, <5>1, LogAfterType
                <5> HIDE DEF missed
                <5>3. \A i \in DOMAIN missed : InHistory(committed, missed[i])
                    <6>1. ASSUME NEW i \in DOMAIN missed
                          PROVE  InHistory(committed, missed[i])
                        <7> DEFINE rev == missed[i].revision
                        <7>1. i \in 1 .. Len(missed)
                            BY <5>2
                        <7>2. rev \in 1 .. Revision /\ missed[i] = Numbered(rev)
                            BY <5>2, <7>1
                        <7>3. DOMAIN committed = 1 .. Revision
                            BY <1>0
                        <7> HIDE DEF rev
                        <7>4. /\ missed[i].op = committed[rev].op
                              /\ missed[i].batchId = committed[rev].batchId
                            BY <7>2 DEF Numbered
                        <7>5. QED
                            BY <7>2, <7>3, <7>4 DEF InHistory, rev
                    <6>2. QED
                        BY <6>1
                <5>4. MessageTrue(committed, s, CatchUp(missed))
                    BY <5>3 DEF MessageTrue, CatchUp
                <5>5. QED
                    BY <5>4 DEF missed
            <4>4. MessageTrue(committed, s, reply)
                BY <4>2, <4>3
            <4> HIDE DEF reply
            <4>5. \A t \in Session : \A i \in DOMAIN down'[t] :
                      MessageTrue(committed, t, down'[t][i])
                <5>1. ASSUME NEW t \in Session, NEW i \in DOMAIN down'[t]
                      PROVE  MessageTrue(committed, t, down'[t][i])
                    <6>1. CASE t = s
                        <7>1. down'[s] = Append(down[s], reply)
                            BY <1>0, <4>1
                        <7>2. down[s] \in Seq(ServerMessage)
                            BY <1>0
                        <7>3. \/ /\ i \in DOMAIN down[s]
                                 /\ down'[s][i] = down[s][i]
                              \/ down'[s][i] = reply
                            BY <6>1, <7>1, <7>2
                        <7>4. QED
                            BY <1>0, <4>4, <6>1, <7>3 DEF Told
                    <6>2. CASE t # s
                        BY <1>0, <4>1, <6>2 DEF Told
                    <6>3. QED
                        BY <6>1, <6>2
                <5>2. QED
                    BY <5>1
            <4>6. QED
                BY <1>0, <4>1, <4>5 DEF CommittedOnce, ServerIds, AllAhead
        <3>3. CASE RoomSubmit(s, m, member[s] = "ready") /\ m.type = "submit"
            <4>1. SubmitAhead(committed, s, client[s], m)
                BY <1>0, <2>3 DEF AllAhead, ClientAhead
            <4> HIDE DEF m
            <4>2. QED
                BY <2>3, <3>3, <4>1, RoomSubmitKeeps
        <3>4. QED
            <4>1. m.type \in {"hello", "submit"}
                BY <2>3 DEF ClientMessage
            <4>2. QED
                BY <1>5, <3>1, <3>2, <3>3, <4>1 DEF ToRoom
    <2>5. \A t \in Session : ClientAhead(committed', t, client'[t])
        <3>1. ClientAhead(committed', s, next)
            BY <2>1, <2>2, <2>4, TailAhead DEF AllAhead
        <3> HIDE DEF next
        <3>2. QED
            BY <1>0, <2>1, <2>4, <3>1 DEF AllAhead
    <2>6. QED
        BY <1>0, <2>1, <2>4, <2>5 DEF Bookkeeping, ServerIds
<1>6. ASSUME NEW s \in Session, LateToRoom(s) PROVE Bookkeeping'
    BY <1>0, <1>6 DEF LateToRoom
<1>7. ASSUME NEW s \in Session, ToClient(s) PROVE Bookkeeping'
    <2> DEFINE m == Head(down[s])
    <2>1. /\ client' = [client EXCEPT ![s] = Received(s, client[s], m)]
          /\ down' = [down EXCEPT ![s] = Tail(@)]
          /\ committed' = committed /\ late' = late /\ down[s] # <<>>
        BY <1>7 DEF ToClient, Update
    <2>2. down[s] \in Seq(ServerMessage) /\ client[s] \in Client
        BY <1>0
    <2>3. /\ m \in ServerMessage /\ m = down[s][1] /\ 1 \in DOMAIN down[s]
          /\ \A i \in DOMAIN Tail(down[s]) :
                i + 1 \in DOMAIN down[s] /\ Tail(down[s])[i] = down[s][i + 1]
        BY <2>1, <2>2
    <2> HIDE DEF m
    <2>4. MessageTrue(committed, s, m)
        BY <1>0, <2>3 DEF Told
    <2>5. ClientAhead(committed, s, Received(s, client[s], m))
        BY <1>0, <2>2, <2>3, <2>4, ReceivedAhead DEF AllAhead
    <2>6. \A t \in Session : ClientAhead(committed, t, client'[t])
        BY <1>0, <2>1, <2>5 DEF AllAhead
    <2>7. \A t \in Session : \A i \in DOMAIN down'[t] :
              MessageTrue(committed, t, down'[t][i])
        BY <1>0, <2>1, <2>3 DEF Told
    <2>8. QED
        BY <1>0, <2>1, <2>6, <2>7 DEF Bookkeeping, CommittedOnce
<1>8. CASE ServerOp
    <2>1. PICK op \in ServerOps : CommitServer(op)
        BY <1>8 DEF ServerOp
    <2> DEFINE rev == Revision + 1
               entry == [op |-> op, batchId |-> <<Nobody, rev>>]
               news == [revision |-> rev, op |-> op, batchId |-> <<Nobody, rev>>]
               told == <<Remote(news)>>
    <2>2. /\ committed' = Append(committed, entry)
          /\ Post(Nobody, <<>>, told)
        BY <2>1 DEF CommitServer, Remember
    <2>3. op \in Op /\ rev \in Nat
        BY <1>0, EnvironmentAssumption
    <2>4. entry \in CommittedOp /\ news \in NumberedOp
        BY <2>3 DEF CommittedOp, NumberedOp, BatchId
    <2>5. /\ entry.batchId = <<Nobody, rev>> /\ entry.op = op
          /\ entry.batchId[2] = Len(committed) + 1
        BY <1>0
    <2> HIDE DEF entry
    <2>6. \A k \in DOMAIN committed : committed[k].batchId # entry.batchId
        BY <1>0, <2>5 DEF ServerIds
    <2>7. CommittedOnce' /\ ServerIds'
        BY <1>0, <2>2, <2>4, <2>5, <2>6, NewBatchOnce
    <2>8. Told(committed') /\ AllAhead(committed')
        BY <1>0, <2>2, <2>4, <2>5, HistoryGrows, NobodyAssumption
    <2>9. Remote(news) \in ServerMessage
        BY <2>4, MessageTypes
    <2>10. \A t \in Session : MessageTrue(committed', t, Remote(news))
        <3>1. rev \in DOMAIN committed' /\ committed'[rev] = entry
            BY <1>0, <2>2, <2>4, AppendFacts
        <3>2. InHistory(committed', news) /\ news.batchId[1] = Nobody
            BY <2>5, <3>1 DEF InHistory
        <3> HIDE DEF news
        <3>3. QED
            BY <3>2, NobodyAssumption DEF MessageTrue, Remote
    <2>11. /\ told \in Seq(ServerMessage) /\ <<>> \in Seq(ServerMessage)
           /\ \A t \in Session : \A i \in DOMAIN told :
                 MessageTrue(committed', t, told[i])
        <3> HIDE DEF news
        <3>1. QED
            BY <2>9, <2>10
    <2> HIDE DEF told
    <2>12. \A t \in Session : \A i \in DOMAIN down'[t] :
               MessageTrue(committed', t, down'[t][i])
        BY <1>0, <2>2, <2>8, <2>11, NobodyAssumption, PostTold
    <2>13. client' = client /\ late' = late
        BY <1>8 DEF ServerOp
    <2>14. QED
        BY <1>0, <2>7, <2>8, <2>12, <2>13 DEF Bookkeeping, AllAhead, ServerIds
<1>9. CASE Restore
    <2> DEFINE rev == Revision + 1
               entry == [op |-> Restored, batchId |-> <<Nobody, rev>>]
               snapshot == Append(DocumentAt(Revision), Restored)
               told == <<RestoredTo(rev, snapshot)>>
    <2>1. /\ committed' = Append(committed, entry)
          /\ Post(Nobody, <<>>, told)
        BY <1>9 DEF Restore, RestoreVersion
    <2>2. rev \in Nat
        BY <1>0
    <2>3. entry \in CommittedOp
        BY <2>2 DEF CommittedOp, BatchId
    <2>4. /\ entry.batchId = <<Nobody, rev>>
          /\ entry.batchId[2] = Len(committed) + 1
        BY <1>0
    <2> HIDE DEF entry
    <2>5. \A k \in DOMAIN committed : committed[k].batchId # entry.batchId
        BY <1>0, <2>4 DEF ServerIds
    <2>6. CommittedOnce' /\ ServerIds'
        BY <1>0, <2>1, <2>3, <2>4, <2>5, NewBatchOnce
    <2>7. Told(committed') /\ AllAhead(committed')
        BY <1>0, <2>1, <2>3, <2>4, HistoryGrows, NobodyAssumption
    <2>8. snapshot \in Document
        <3>1. DocumentAt(Revision) \in Document
            BY <1>0, DocumentAtType
        <3>2. QED
            BY <3>1 DEF Document
    <2> HIDE DEF snapshot
    <2>9. RestoredTo(rev, snapshot) \in ServerMessage
        BY <2>2, <2>8, MessageTypes
    <2>10. \A t \in Session :
               MessageTrue(committed', t, RestoredTo(rev, snapshot))
        <3>1. Len(committed') = rev
            BY <1>0, <2>1, <2>3, AppendFacts
        <3>2. QED
            BY <2>2, <3>1 DEF MessageTrue, RestoredTo
    <2>11. /\ told \in Seq(ServerMessage) /\ <<>> \in Seq(ServerMessage)
           /\ \A t \in Session : \A i \in DOMAIN told :
                 MessageTrue(committed', t, told[i])
        BY <2>9, <2>10
    <2> HIDE DEF told
    <2>12. \A t \in Session : \A i \in DOMAIN down'[t] :
               MessageTrue(committed', t, down'[t][i])
        BY <1>0, <2>1, <2>7, <2>11, NobodyAssumption, PostTold
    <2>13. client' = client /\ late' = late
        BY <1>9 DEF Restore
    <2>14. QED
        BY <1>0, <2>6, <2>7, <2>12, <2>13 DEF Bookkeeping, AllAhead, ServerIds
<1>10. CASE Stop
    BY <1>10 DEF Stop, RoomStops, Rebuilt, Bookkeeping, CommittedOnce
<1>11. CASE Sleep
    BY <1>11 DEF Sleep, Hibernate, Rebuilt, Bookkeeping, CommittedOnce
<1>12. CASE UNCHANGED vars
    BY <1>12 DEF vars, Bookkeeping, CommittedOnce
<1>13. QED
    BY <1>1, <1>2, <1>3, <1>4, <1>5, <1>6, <1>7, <1>8, <1>9, <1>10, <1>11,
       <1>12 DEF Next

(* With nothing committed and nothing sent, the books balance.             *)
LEMMA BookkeepingInit == Init => Bookkeeping
<1> SUFFICES ASSUME Init PROVE Bookkeeping
    OBVIOUS
<1>1. DOMAIN <<>> = {} /\ Len(<<>>) = 0
    OBVIOUS
<1>2. /\ committed = <<>>
      /\ \A s \in Session : /\ client[s] = NewClient
                             /\ down[s] = <<>> /\ late[s] = <<>>
    BY DEF Init, RoomInit, ClientInit
<1>3. \A s \in Session : ClientAhead(committed, s, client[s])
    BY <1>1, <1>2 DEF ClientAhead, NewClient
<1>4. QED
    BY <1>1, <1>2, <1>3 DEF Bookkeeping, CommittedOnce

(* The books balance in every reachable state (the run collab_refused      *)
(* checks the same on a small instance).                                   *)
THEOREM BooksBalance == ~LateDelivery => (Spec => []Bookkeeping)
<1>1. SUFFICES ASSUME ~LateDelivery PROVE Spec => []Bookkeeping
    OBVIOUS
<1>2. TypeOK /\ Bookkeeping /\ [Next]_vars => Bookkeeping'
    BY <1>1, BookkeepingStep
<1>3. QED
    BY <1>2, BookkeepingInit, TypeCorrect, PTL DEF Spec

(* No batch is committed twice: however often a client sends it again, the *)
(* room's log and the revision it was made on are enough to tell (submit   *)
(* in room.ts).                                                            *)
THEOREM NothingCommittedTwice == ~LateDelivery => (Spec => []CommittedOnce)
<1>1. SUFFICES ASSUME ~LateDelivery PROVE Spec => []CommittedOnce
    OBVIOUS
<1>2. Spec => []Bookkeeping
    BY <1>1, BooksBalance
<1>3. Bookkeeping => CommittedOnce
    BY DEF Bookkeeping
<1>4. QED
    BY <1>2, <1>3, PTL
=============================================================================
