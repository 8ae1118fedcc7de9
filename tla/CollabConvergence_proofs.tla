----------------------- MODULE CollabConvergence_proofs -----------------------
(***************************************************************************)
(* Co-editing converges, for any number of sessions, any transform, any    *)
(* length of the log and any bounds: through lost sockets, catch-ups,      *)
(* batches sent again, logs that were cut, refusals, restored versions and *)
(* rooms that are rebuilt.                                                 *)
(*                                                                         *)
(* What a client shows is not inductive: whether the next message takes it *)
(* to the room's document depends on all the messages under way.  The      *)
(* invariant (Agreement) is that they form a path.  There is an increasing *)
(* row of revisions, `rev`, from the client's own to the room's, and the   *)
(* i-th message leads from rev[i - 1] to rev[i] (Path).  Along it the      *)
(* client's batch in flight becomes, op by op, what the room made of the   *)
(* batch it was sent (Carries): client.ts and room.ts transform the same   *)
(* pair, in the same order, with the same winner.  A message that throws   *)
(* the client's edits away (Fenced) must find none of them committed       *)
(* after it.                                                               *)
(*                                                                         *)
(* Two hypotheses, both needed (counterexamples in the README).  A dead    *)
(* socket delivers nothing (~LateDelivery).  And either every user waits   *)
(* for the answer to an edit (Patient), or no batch is refused: a client   *)
(* forgets what it sent behind a refused batch, and the room commits it.   *)
(***************************************************************************)
EXTENDS Collab_proofs, SequenceTheorems

-----------------------------------------------------------------------------
(* `x`, made on revision a, has become `y` at revision b, transformed past *)
(* every commit between.                                                   *)
Carries(hist, x, a, y, b) ==
    /\ a \in Nat /\ b \in Nat /\ a <= b
    /\ \E now \in [a .. b -> Op] :
          /\ now[a] = x /\ now[b] = y
          /\ \A i \in (a + 1) .. b :
                now[i] = Transform(now[i - 1], hist[i].op, TRUE)

(* The room's document at a revision, read off a history.                  *)
DocumentOf(hist, rev) == [i \in 1 .. rev |-> hist[i].op]

(* The commits of session s after a revision.                              *)
Own(hist, s, rev) ==
    {k \in DOMAIN hist : rev < k /\ hist[k].batchId[1] = s}

InHist(hist, id) == \E k \in DOMAIN hist : hist[k].batchId = id

(* The only batch of its own a client can be behind on is the one in       *)
(* flight, and the room committed what the client is going to make of it.  *)
OwnAhead(hist, s, cl) ==
    \A k \in Own(hist, s, cl.revision) :
        /\ cl.inflight # <<>> /\ hist[k].batchId = InflightId(s, cl)
        /\ Carries(hist, cl.inflight[1], cl.revision, hist[k].op, k - 1)

(* A batch on its way to the room is the one in flight as it was, or is    *)
(* behind the log, or has been committed.                                  *)
Sent(hist, tr, s, cl, m) ==
    m.type = "submit" =>
        /\ m.base <= cl.revision
        /\ \/ /\ cl.inflight # <<>> /\ m.batchId = InflightId(s, cl)
              /\ Carries(hist, m.op, m.base, cl.inflight[1], cl.revision)
           \/ m.base < tr
           \/ InHist(hist, m.batchId)

(* What a client shows and what it has sent agree with the history.        *)
Synced(hist, tr, s, cl) ==
    /\ cl.revision <= Len(hist)
    /\ cl.loaded => cl.doc = DocumentOf(hist, cl.revision) \o Pending(cl)
    /\ ~cl.loaded => /\ cl.inflight = <<>> /\ cl.buffer = <<>>
                     /\ \A i \in DOMAIN cl.up : cl.up[i].type # "submit"
    /\ OwnAhead(hist, s, cl)
    /\ \A i \in DOMAIN cl.up : Sent(hist, tr, s, cl, cl.up[i])

(* A socket that is closed carries nothing; hello comes first on it and is *)
(* answered first; a client without a document waits for that answer.      *)
Connected(cl, q, mem) ==
    /\ ~cl.open => q = <<>> /\ cl.up = <<>> /\ mem = "none"
    /\ \A i \in DOMAIN cl.up : cl.up[i].type = "hello" =>
          /\ i = 1 /\ q = <<>> /\ mem # "ready"
          /\ cl.up[i].since = IF cl.loaded THEN cl.revision ELSE Fresh
    /\ \A i \in DOMAIN q : q[i].type \in {"welcome", "catchUp"} => i = 1
    /\ \A i \in DOMAIN q : q[i].type = "catchUp" => cl.loaded
    /\ ~cl.loaded /\ (q # <<>> \/ mem = "ready") =>
          q # <<>> /\ q[1].type = "welcome"

Calm(cl, q) == cl.up = <<>> /\ \A i \in DOMAIN q : q[i].type # "catchUp"

(* When users wait for the answer to an edit, at most one batch is under   *)
(* way, the room has not committed it yet, and none follows a refusal.     *)
Waiting(hist, s, cl, q) ==
    /\ cl.buffer = <<>> /\ Len(cl.up) <= 1
    /\ \A i \in DOMAIN cl.up : cl.up[i].type = "submit" =>
          ~InHist(hist, cl.up[i].batchId)
    /\ \A i \in DOMAIN q :
          /\ q[i].type = "catchUp" => cl.up = <<>>
          /\ q[i].type = "reject" =>
                /\ Calm(cl, q) /\ ~InHist(hist, q[i].batchId)
                /\ q[i].batchId[1] = s

Resets == {"welcome", "resync", "restored"}

(* Message m takes a client of session s from revision a to revision b.    *)
Leads(hist, s, m, a, b) ==
    /\ m.type \in Resets => b = m.revision /\ m.snapshot = DocumentOf(hist, b)
    /\ m.type = "catchUp" =>
          /\ b = a + Len(m.missed)
          /\ \A j \in DOMAIN m.missed : m.missed[j].revision = a + j
    /\ m.type = "ack" =>
          /\ m.batchId[1] = s /\ m.revision \in DOMAIN hist
          /\ hist[m.revision].batchId = m.batchId
          /\ \/ m.revision = a + 1 /\ b = a + 1
             \/ m.revision <= a /\ b = a
    /\ m.type = "op" => m.committed.revision = a + 1 /\ b = a + 1
    /\ m.type = "reject" => b = a

(* The messages under way take the client from its revision through those  *)
(* of `rev`, which only grow.                                              *)
Path(hist, s, cl, q, rev) ==
    /\ rev[0] = cl.revision /\ rev[Len(q)] <= Len(hist)
    /\ \A i, j \in 0 .. Len(q) : i <= j => rev[i] <= rev[j]
    /\ \A i \in 1 .. Len(q) : Leads(hist, s, q[i], rev[i - 1], rev[i])

(* When a snapshot is under way, whatever the client sends until it comes  *)
(* is behind the log, or it sends nothing: so no batch it has forgotten is *)
(* committed afterwards.                                                   *)
Fenced(hist, tr, s, cl, q, rev) ==
    \A i \in DOMAIN q :
       /\ q[i].type \in Resets =>
             /\ Own(hist, s, rev[i]) = {}
             /\ \/ rev[i - 1] < tr
                \/ i = 1 /\ ~cl.loaded
                \/ Patient /\ Calm(cl, q)
       /\ Patient /\ q[i].type = "catchUp" => Own(hist, s, rev[i]) = {}

OnCourse(hist, tr, s, cl, q, mem, rev) ==
    /\ Synced(hist, tr, s, cl)
    /\ Connected(cl, q, mem)
    /\ Patient => Waiting(hist, s, cl, q)
    /\ Path(hist, s, cl, q, rev)
    /\ Fenced(hist, tr, s, cl, q, rev)

(* A connection the room answers ends at the room's revision.              *)
InSync(hist, tr, s, cl, q, mem) ==
    \E rev \in [0 .. Len(q) -> Nat] :
        /\ OnCourse(hist, tr, s, cl, q, mem, rev)
        /\ mem = "ready" => rev[Len(q)] = Len(hist)

Agreement ==
    \A s \in Session :
        InSync(committed, trimmed, s, client[s], down[s], member[s])

(* No refusal is on its way to a browser.                                  *)
Unrefused ==
    \A s \in Session : \A i \in DOMAIN down[s] : down[s][i].type # "reject"

-----------------------------------------------------------------------------
(* Carrying an op along the history. *)
LEMMA CarriesNowhere ==
    ASSUME NEW hist, NEW x \in Op, NEW a \in Nat
    PROVE  Carries(hist, x, a, x, a)
<1> DEFINE now == [i \in a .. a |-> x]
<1>1. now \in [a .. a -> Op] /\ now[a] = x
    OBVIOUS
<1> HIDE DEF now
<1>2. \A i \in (a + 1) .. a :
          now[i] = Transform(now[i - 1], hist[i].op, TRUE)
    OBVIOUS
<1>3. a <= a
    OBVIOUS
<1>4. QED
    BY <1>1, <1>2, <1>3, Zenon DEF Carries

(* One commit further. *)
LEMMA CarriesOn ==
    ASSUME NEW hist, NEW x, NEW a, NEW y, NEW b, Carries(hist, x, a, y, b),
           hist[b + 1].op \in Op
    PROVE  /\ y \in Op
           /\ Carries(hist, x, a, Transform(y, hist[b + 1].op, TRUE), b + 1)
<1>0. a \in Nat /\ b \in Nat /\ a <= b
    BY DEF Carries
<1>1. PICK now \in [a .. b -> Op] :
          /\ now[a] = x /\ now[b] = y
          /\ \A i \in (a + 1) .. b :
                now[i] = Transform(now[i - 1], hist[i].op, TRUE)
    BY DEF Carries
<1> DEFINE z == Transform(y, hist[b + 1].op, TRUE)
           more == [i \in a .. (b + 1) |-> IF i = b + 1 THEN z ELSE now[i]]
<1>2. y \in Op
    BY <1>0, <1>1
<1>3. z \in Op
    BY <1>2, AdapterAssumption
<1> HIDE DEF z
<1>4. \A i \in a .. (b + 1) : i \in a .. b \/ i = b + 1
    BY <1>0
<1>5. more \in [a .. (b + 1) -> Op]
    BY <1>1, <1>3, <1>4
<1>6. more[a] = x /\ more[b + 1] = z /\ \A i \in a .. b : more[i] = now[i]
    BY <1>0, <1>1
<1> HIDE DEF more
<1>7. ASSUME NEW i \in (a + 1) .. (b + 1)
      PROVE  more[i] = Transform(more[i - 1], hist[i].op, TRUE)
    <2>1. i - 1 \in a .. b
        BY <1>0
    <2>2. CASE i = b + 1
        <3>1. i - 1 = b
            BY <1>0, <2>2
        <3>2. more[i - 1] = y
            BY <1>1, <1>6, <2>1, <3>1
        <3>3. QED
            BY <1>6, <2>2, <3>2 DEF z
    <2>3. CASE i # b + 1
        <3>1. i \in (a + 1) .. b /\ i \in a .. b
            BY <1>0, <2>3
        <3>2. QED
            BY <1>1, <1>6, <2>1, <3>1
    <2>4. QED
        BY <2>2, <2>3
<1>8. Carries(hist, x, a, z, b + 1)
    <2>1. b + 1 \in Nat /\ a <= b + 1
        BY <1>0
    <2>2. QED
        BY <1>0, <1>5, <1>6, <1>7, <2>1, Zenon DEF Carries
<1>9. QED
    BY <1>2, <1>8 DEF z

(* Started one commit later. *)
LEMMA CarriesFrom ==
    ASSUME NEW hist, NEW x, NEW a, NEW y, NEW b, Carries(hist, x, a, y, b),
           a < b
    PROVE  Carries(hist, Transform(x, hist[a + 1].op, TRUE), a + 1, y, b)
<1>0. a \in Nat /\ b \in Nat /\ a + 1 <= b
    BY DEF Carries
<1>1. PICK now \in [a .. b -> Op] :
          /\ now[a] = x /\ now[b] = y
          /\ \A i \in (a + 1) .. b :
                now[i] = Transform(now[i - 1], hist[i].op, TRUE)
    BY DEF Carries
<1> DEFINE rest == [i \in (a + 1) .. b |-> now[i]]
<1>2. \A i \in (a + 1) .. b : i \in a .. b
    BY <1>0
<1>3. rest \in [(a + 1) .. b -> Op]
    BY <1>1, <1>2
<1>4. \A i \in (a + 1) .. b : rest[i] = now[i]
    OBVIOUS
<1> HIDE DEF rest
<1>5. /\ a + 1 \in (a + 1) .. b /\ b \in (a + 1) .. b
      /\ \A i \in ((a + 1) + 1) .. b :
            i \in (a + 1) .. b /\ i - 1 \in (a + 1) .. b
    BY <1>0
<1>6. now[a + 1] = Transform(x, hist[a + 1].op, TRUE)
    <2>1. (a + 1) - 1 = a
        BY <1>0
    <2>2. QED
        BY <1>1, <1>5, <2>1
<1>7. /\ rest[a + 1] = Transform(x, hist[a + 1].op, TRUE) /\ rest[b] = y
      /\ \A i \in ((a + 1) + 1) .. b :
            rest[i] = Transform(rest[i - 1], hist[i].op, TRUE)
    BY <1>1, <1>4, <1>5, <1>6
<1>8. a + 1 \in Nat
    BY <1>0
<1>9. QED
    BY <1>0, <1>3, <1>7, <1>8, Zenon DEF Carries

(* What an op becomes is determined by the history. *)
LEMMA CarriesOnePath ==
    ASSUME NEW hist, NEW x, NEW a, NEW y, NEW b, NEW z, NEW c,
           Carries(hist, x, a, y, b), Carries(hist, x, a, z, c), b <= c
    PROVE  Carries(hist, y, b, z, c)
<1>0. a \in Nat /\ b \in Nat /\ c \in Nat /\ a <= b
    BY DEF Carries
<1>1. PICK one \in [a .. b -> Op] :
          /\ one[a] = x /\ one[b] = y
          /\ \A i \in (a + 1) .. b :
                one[i] = Transform(one[i - 1], hist[i].op, TRUE)
    BY DEF Carries
<1>2. PICK two \in [a .. c -> Op] :
          /\ two[a] = x /\ two[c] = z
          /\ \A i \in (a + 1) .. c :
                two[i] = Transform(two[i - 1], hist[i].op, TRUE)
    BY DEF Carries
<1> DEFINE T == {n \in Nat : a + n <= b => one[a + n] = two[a + n]}
<1>3. 0 \in T
    BY <1>0, <1>1, <1>2
<1>4. ASSUME NEW n \in T PROVE n + 1 \in T
    <2>0. n \in Nat
        OBVIOUS
    <2>1. SUFFICES ASSUME a + (n + 1) <= b
                   PROVE  one[a + (n + 1)] = two[a + (n + 1)]
        BY <2>0
    <2> DEFINE i == a + (n + 1)
    <2>2. /\ i \in (a + 1) .. b /\ i \in (a + 1) .. c /\ i - 1 = a + n
          /\ a + n <= b
        BY <1>0, <2>0, <2>1
    <2>3. one[i - 1] = two[i - 1]
        BY <2>2
    <2> HIDE DEF i
    <2>4. one[i] = two[i]
        BY <1>1, <1>2, <2>2, <2>3
    <2>5. QED
        BY <2>4 DEF i
<1>5. T = Nat
    BY <1>3, <1>4, SetInduction, Zenon
<1>6. two[b] = y
    <2>1. b - a \in Nat /\ a + (b - a) = b
        BY <1>0
    <2>2. b - a \in T
        BY <1>5, <2>1
    <2>3. QED
        BY <1>0, <1>1, <2>1, <2>2
<1> DEFINE rest == [i \in b .. c |-> two[i]]
<1>7. \A i \in b .. c : i \in a .. c
    BY <1>0
<1>8. rest \in [b .. c -> Op] /\ \A i \in b .. c : rest[i] = two[i]
    BY <1>2, <1>7
<1> HIDE DEF rest, T
<1>9. /\ b \in b .. c /\ c \in b .. c
      /\ \A i \in (b + 1) .. c :
            i \in b .. c /\ i - 1 \in b .. c /\ i \in (a + 1) .. c
    BY <1>0
<1>10. /\ rest[b] = y /\ rest[c] = z
       /\ \A i \in (b + 1) .. c :
             rest[i] = Transform(rest[i - 1], hist[i].op, TRUE)
    BY <1>2, <1>6, <1>8, <1>9
<1>11. QED
    BY <1>0, <1>8, <1>10 DEF Carries

(* An op carried nowhere is itself. *)
LEMMA CarriedNowhere ==
    ASSUME NEW hist, NEW x, NEW a, NEW y, Carries(hist, x, a, y, a)
    PROVE  x = y
BY DEF Carries

(* Later commits change nothing about it. *)
LEMMA CarriesGrows ==
    ASSUME NEW hist \in Seq(CommittedOp), NEW entry \in CommittedOp,
           NEW x, NEW a, NEW y, NEW b, Carries(hist, x, a, y, b),
           b <= Len(hist)
    PROVE  Carries(Append(hist, entry), x, a, y, b)
<1> DEFINE more == Append(hist, entry)
<1>0. a \in Nat /\ b \in Nat /\ a <= b
    BY DEF Carries
<1>1. \A i \in 1 .. Len(hist) : more[i] = hist[i]
    BY AppendFacts
<1> HIDE DEF more
<1>2. \A i \in (a + 1) .. b : more[i] = hist[i]
    <2>1. Len(hist) \in Nat
        OBVIOUS
    <2>2. \A i \in (a + 1) .. b : i \in 1 .. Len(hist)
        BY <1>0, <2>1
    <2>3. QED
        BY <1>1, <2>2
<1>3. Carries(more, x, a, y, b)
    BY <1>2 DEF Carries
<1>4. QED
    BY <1>3 DEF more

(* What the room commits is the op carried to the end of the history       *)
(* (submit in room.ts).                                                    *)
LEMMA PastLogCarries ==
    ASSUME RoomTypeOK, NEW op \in Op, NEW base \in trimmed .. Revision
    PROVE  Carries(committed, op, base, PastLog(op, base), Revision)
<1> DEFINE since == LogAfter(base)
           n == Revision - base
<1>0. /\ Revision \in Nat /\ trimmed \in Nat /\ base \in Nat
      /\ base >= trimmed /\ base <= Revision /\ base \in 0 .. Revision
      /\ n \in Nat
    BY DEF RoomTypeOK, Revision
<1>1. /\ since \in Seq(NumberedOp) /\ Len(since) = n
      /\ \A i \in 1 .. n : since[i] = Numbered(base + i)
    <2>1. since \in Seq(NumberedOp)
        BY <1>0, LogAfterType
    <2>2. since = [i \in 1 .. n |-> Numbered(base + i)]
        BY <1>0 DEF LogAfter
    <2> HIDE DEF since, n
    <2>3. QED
        BY <1>0, <2>1, <2>2
<1> HIDE DEF since
<1>2. PICK past \in [0 .. Len(since) -> Op] :
          /\ past[0] = op
          /\ \A i \in 1 .. Len(since) :
                past[i] = Transform(past[i - 1], since[i].op, TRUE)
          /\ PastLog(op, base) = past[Len(since)]
    <2>1. \E past \in [0 .. Len(since) -> Op] :
             /\ past[0] = op
             /\ \A i \in 1 .. Len(since) :
                   past[i] = Transform(past[i - 1], since[i].op, TRUE)
             /\ PastLog(op, base) = past[Len(since)]
        BY <1>1, PastUnfolds, Zenon DEF PastLog, since
    <2>2. QED
        BY <2>1
<1> DEFINE now == [i \in base .. Revision |-> past[i - base]]
<1>3. \A i \in base .. Revision : i - base \in 0 .. n
    BY <1>0
<1>4. now \in [base .. Revision -> Op]
    BY <1>1, <1>2, <1>3
<1>5. \A i \in base .. Revision : now[i] = past[i - base]
    OBVIOUS
<1> HIDE DEF now
<1>6. now[base] = op /\ now[Revision] = PastLog(op, base)
    BY <1>0, <1>1, <1>2, <1>5
<1>7. ASSUME NEW i \in (base + 1) .. Revision
      PROVE  now[i] = Transform(now[i - 1], committed[i].op, TRUE)
    <2>1. /\ i \in base .. Revision /\ i - 1 \in base .. Revision
          /\ i - base \in 1 .. n /\ (i - 1) - base = (i - base) - 1
          /\ base + (i - base) = i
        BY <1>0
    <2>2. since[i - base].op = committed[i].op
        BY <1>1, <2>1 DEF Numbered
    <2>3. past[i - base] = Transform(past[(i - base) - 1], committed[i].op, TRUE)
        BY <1>1, <1>2, <2>1, <2>2
    <2>4. QED
        BY <1>5, <2>1, <2>3
<1>8. QED
    BY <1>0, <1>4, <1>6, <1>7 DEF Carries
-----------------------------------------------------------------------------
(* Documents, and the unacked edits on top of them. *)
LEMMA DocumentOfType ==
    ASSUME NEW hist \in Seq(CommittedOp), NEW rev \in 0 .. Len(hist)
    PROVE  DocumentOf(hist, rev) \in Document /\ Len(DocumentOf(hist, rev)) = rev
<1>1. rev \in Nat
    OBVIOUS
<1>2. ASSUME NEW i \in 1 .. rev PROVE hist[i].op \in Op \cup {Restored}
    <2>1. hist[i] \in CommittedOp
        BY <1>1
    <2>2. QED
        BY <2>1 DEF CommittedOp
<1>3. QED
    BY <1>1, <1>2 DEF DocumentOf, Document

(* One revision more is one op more. *)
LEMMA DocumentOfNext ==
    ASSUME NEW hist \in Seq(CommittedOp), NEW rev \in Nat, rev + 1 <= Len(hist)
    PROVE  DocumentOf(hist, rev + 1)
               = Append(DocumentOf(hist, rev), hist[rev + 1].op)
<1> DEFINE one == DocumentOf(hist, rev + 1)
           two == Append(DocumentOf(hist, rev), hist[rev + 1].op)
           S == Op \cup {Restored}
<1>1. rev \in 0 .. Len(hist) /\ rev + 1 \in 0 .. Len(hist)
    OBVIOUS
<1>2. /\ one \in Seq(S) /\ Len(one) = rev + 1
      /\ DocumentOf(hist, rev) \in Seq(S) /\ Len(DocumentOf(hist, rev)) = rev
    BY <1>1, DocumentOfType DEF Document
<1>3. hist[rev + 1].op \in S
    <2>1. hist[rev + 1] \in CommittedOp
        BY <1>1
    <2>2. QED
        BY <2>1 DEF CommittedOp
<1>4. \A i \in 1 .. (rev + 1) : one[i] = hist[i].op
    BY DEF DocumentOf
<1>5. /\ two \in Seq(S) /\ Len(two) = rev + 1
      /\ \A i \in 1 .. rev : two[i] = DocumentOf(hist, rev)[i]
      /\ two[rev + 1] = hist[rev + 1].op
    <2> HIDE DEF S
    <2>1. QED
        BY <1>2, <1>3
<1>6. \A i \in 1 .. rev : two[i] = hist[i].op
    BY <1>5 DEF DocumentOf
<1> HIDE DEF one, two, S
<1>7. \A i \in 1 .. Len(one) : one[i] = two[i]
    <2>1. \A i \in 1 .. (rev + 1) : i \in 1 .. rev \/ i = rev + 1
        OBVIOUS
    <2>2. QED
        BY <1>2, <1>4, <1>5, <1>6, <2>1
<1>8. one = two
    BY <1>2, <1>5, <1>7, SeqEqual, Zenon
<1>9. QED
    BY <1>8 DEF one, two

(* The document at a revision never changes. *)
LEMMA DocumentOfGrows ==
    ASSUME NEW hist \in Seq(CommittedOp), NEW entry \in CommittedOp,
           NEW rev \in Nat, rev <= Len(hist)
    PROVE  DocumentOf(Append(hist, entry), rev) = DocumentOf(hist, rev)
<1> DEFINE more == Append(hist, entry)
<1>1. \A i \in 1 .. Len(hist) : more[i] = hist[i]
    BY AppendFacts
<1> HIDE DEF more
<1>2. \A i \in 1 .. rev : more[i].op = hist[i].op
    <2>1. \A i \in 1 .. rev : i \in 1 .. Len(hist)
        OBVIOUS
    <2>2. QED
        BY <1>1, <2>1
<1>3. DocumentOf(more, rev) = DocumentOf(hist, rev)
    BY <1>2 DEF DocumentOf
<1>4. QED
    BY <1>3 DEF more

LEMMA ConcatThree ==
    ASSUME NEW a \in Document, NEW b \in Document, NEW c \in Document
    PROVE  (a \o b) \o c = a \o (b \o c)
BY ConcatAssociative, SMTT(60) DEF Document

LEMMA AppendOne ==
    ASSUME NEW a \in Document, NEW x \in Op
    PROVE  Append(a, x) = a \o <<x>>
BY AppendIsConcat, ZenonT(60) DEF Document

(* Taking the unacked edits off leaves the room's document (undo in        *)
(* remote and rollBack).                                                   *)
LEMMA UndoneIs ==
    ASSUME NEW cl \in Client, NEW base \in Document,
           cl.doc = base \o Pending(cl)
    PROVE  Undone(cl) = base
<1> DEFINE S == Op \cup {Restored}
           top == Pending(cl)
<1>1. base \in Seq(S) /\ top \in Seq(S)
    BY UndoneType DEF Document
<1>2. Undone(cl) = SubSeq(base \o top, 1, Len(base \o top) - Len(top))
    BY DEF Undone
<1> HIDE DEF S, top
<1>3. Len(base \o top) - Len(top) = Len(base)
    BY <1>1
<1>4. SubSeq(base \o top, 1, Len(base)) = base
    <2>1. CASE Len(base) = 0
        <3>1. base = <<>>
            BY <1>1, <2>1
        <3>2. SubSeq(base \o top, 1, 0) = <<>>
            OBVIOUS
        <3>3. QED
            BY <2>1, <3>1, <3>2
    <2>2. CASE Len(base) # 0
        <3>1. 1 \in 1 .. Len(base) /\ Len(base) \in 1 .. Len(base)
            BY <1>1, <2>2
        <3>2. SubSeq(base \o top, 1, Len(base)) = SubSeq(base, 1, Len(base))
            BY <1>1, <3>1, SubSeqOfConcat1, Zenon
        <3>3. SubSeq(base, 1, Len(base)) = base
            BY <1>1, SubSeqFull, Zenon
        <3>4. QED
            BY <3>2, <3>3
    <2>3. QED
        BY <2>1, <2>2
<1>5. QED
    BY <1>2, <1>3, <1>4
-----------------------------------------------------------------------------
(* What sending changes: the queue to the room, nothing else. *)
LEMMA SendInflightFields ==
    ASSUME NEW s \in Session, NEW cl \in Client, NEW next,
           next = SendInflight(s, cl)
    PROVE  /\ next.open = cl.open /\ next.loaded = cl.loaded
           /\ next.doc = cl.doc /\ next.revision = cl.revision
           /\ next.inflight = cl.inflight /\ next.buffer = cl.buffer
           /\ next.batches = cl.batches
           /\ \/ next.up = cl.up
              \/ next.up = Append(cl.up, Submit(InflightId(s, cl), cl.revision,
                                                cl.inflight[1]))
BY DEF SendInflight, Send, Client

(* What moving the buffer into flight changes (flush).                     *)
LEMMA FlushFields ==
    ASSUME NEW s \in Session, NEW cl \in Client, NEW next,
           next = Flush(s, cl)
    PROVE  /\ next.open = cl.open /\ next.loaded = cl.loaded
           /\ next.doc = cl.doc /\ next.revision = cl.revision
           /\ cl.inflight # <<>> \/ cl.buffer = <<>> => next = cl
           /\ \/ next.up = cl.up
              \/ \E id, op :
                    next.up = Append(cl.up, Submit(id, cl.revision, op))
<1> DEFINE mid == [cl EXCEPT !.batches = @ + 1, !.inflight = cl.buffer,
                             !.buffer = <<>>]
<1>1. CASE cl.inflight # <<>> \/ cl.buffer = <<>>
    BY <1>1 DEF Flush
<1>2. CASE ~(cl.inflight # <<>> \/ cl.buffer = <<>>)
    <2>1. /\ mid \in Client /\ mid.open = cl.open /\ mid.loaded = cl.loaded
          /\ mid.doc = cl.doc /\ mid.revision = cl.revision /\ mid.up = cl.up
        <3>1. cl.batches + 1 \in Nat /\ <<>> \in NoneOrOne(Op)
            BY DEF Client, NoneOrOne
        <3>2. QED
            BY <3>1 DEF Client
    <2>2. next = SendInflight(s, mid)
        BY <1>2 DEF Flush
    <2> HIDE DEF mid
    <2>3. /\ next.open = mid.open /\ next.loaded = mid.loaded
          /\ next.doc = mid.doc /\ next.revision = mid.revision
          /\ \/ next.up = mid.up
             \/ next.up = Append(mid.up, Submit(InflightId(s, mid),
                                                mid.revision, mid.inflight[1]))
        BY <2>1, <2>2, SendInflightFields
    <2>4. \/ next.up = cl.up
          \/ \E id, op : next.up = Append(cl.up, Submit(id, cl.revision, op))
        BY <2>1, <2>3, Zenon
    <2>5. QED
        BY <1>2, <2>1, <2>3, <2>4, Zenon
<1>3. QED
    BY <1>1, <1>2

(* Whatever is in flight may be sent again.                                *)
LEMMA SyncedSendInflight ==
    ASSUME NEW hist \in Seq(CommittedOp), NEW tr, NEW s \in Session,
           NEW cl \in Client, Synced(hist, tr, s, cl), cl.inflight # <<>>
    PROVE  Synced(hist, tr, s, SendInflight(s, cl))
<1> DEFINE next == SendInflight(s, cl)
           m == Submit(InflightId(s, cl), cl.revision, cl.inflight[1])
<1>1. /\ next.loaded = cl.loaded
      /\ next.doc = cl.doc /\ next.revision = cl.revision
      /\ next.inflight = cl.inflight /\ next.buffer = cl.buffer
      /\ next.batches = cl.batches
      /\ next.up = cl.up \/ next.up = Append(cl.up, m)
    BY SendInflightFields
<1>2. /\ cl.up \in Seq(ClientMessage) /\ cl.inflight[1] \in Op
      /\ cl.revision \in Nat
    BY NoneOrOneFacts DEF Client
<1>3. /\ m.type = "submit" /\ m.base = cl.revision
      /\ m.batchId = InflightId(s, cl) /\ m.op = cl.inflight[1]
    BY DEF Submit
<1>4. Sent(hist, tr, s, cl, m)
    BY <1>2, <1>3, CarriesNowhere DEF Sent
<1> HIDE DEF next, m
<1>5. \A i \in DOMAIN next.up :
          \/ i \in DOMAIN cl.up /\ next.up[i] = cl.up[i]
          \/ next.up[i] = m
    BY <1>1, <1>2
<1>6. cl.loaded
    BY DEF Synced
<1>7. \A i \in DOMAIN next.up : Sent(hist, tr, s, cl, next.up[i])
    BY <1>4, <1>5 DEF Synced
<1>8. Synced(hist, tr, s, next)
    <2>1. Pending(next) = Pending(cl) /\ InflightId(s, next) = InflightId(s, cl)
        BY <1>1 DEF Pending, InflightId
    <2>2. OwnAhead(hist, s, next)
        BY <1>1, <2>1 DEF Synced, OwnAhead
    <2>3. \A i \in DOMAIN next.up : Sent(hist, tr, s, next, next.up[i])
        BY <1>1, <1>7, <2>1 DEF Sent
    <2>4. QED
        BY <1>1, <1>6, <2>1, <2>2, <2>3 DEF Synced
<1>9. QED
    BY <1>8 DEF next

(* A new batch is made of the buffer when nothing is in flight (flush).    *)
LEMMA SyncedFlush ==
    ASSUME NEW hist \in Seq(CommittedOp), NEW tr, NEW s \in Session,
           NEW cl \in Client, Synced(hist, tr, s, cl)
    PROVE  Synced(hist, tr, s, Flush(s, cl))
<1> DEFINE mid == [cl EXCEPT !.batches = @ + 1, !.inflight = cl.buffer,
                             !.buffer = <<>>]
<1>1. CASE cl.inflight # <<>> \/ cl.buffer = <<>>
    BY <1>1 DEF Flush
<1>2. CASE ~(cl.inflight # <<>> \/ cl.buffer = <<>>)
    <2>1. /\ mid \in Client /\ mid.loaded = cl.loaded
          /\ mid.doc = cl.doc /\ mid.revision = cl.revision /\ mid.up = cl.up
          /\ mid.inflight = cl.buffer /\ mid.buffer = <<>>
        <3>1. cl.batches + 1 \in Nat /\ <<>> \in NoneOrOne(Op)
            BY DEF Client, NoneOrOne
        <3>2. QED
            BY <3>1 DEF Client
    <2>2. Flush(s, cl) = SendInflight(s, mid)
        BY <1>2 DEF Flush
    <2> HIDE DEF mid
    <2>3. Pending(mid) = Pending(cl)
        <3>1. cl.buffer \in Document
            BY UndoneType
        <3>2. cl.buffer \o <<>> = cl.buffer /\ <<>> \o cl.buffer = cl.buffer
            BY <3>1 DEF Document
        <3>3. QED
            BY <1>2, <2>1, <3>2 DEF Pending
    <2>4. OwnAhead(hist, s, mid)
        BY <1>2, <2>1 DEF Synced, OwnAhead
    <2>5. \A i \in DOMAIN mid.up : Sent(hist, tr, s, mid, mid.up[i])
        BY <1>2, <2>1 DEF Synced, Sent
    <2>6. Synced(hist, tr, s, mid)
        BY <1>2, <2>1, <2>3, <2>4, <2>5 DEF Synced
    <2>7. QED
        BY <1>2, <2>1, <2>2, <2>6, SyncedSendInflight
<1>3. QED
    BY <1>1, <1>2

(* An edit of the client's own goes on top (apply).                        *)
LEMMA SyncedApplied ==
    ASSUME NEW hist \in Seq(CommittedOp), NEW tr, NEW s \in Session,
           NEW cl \in Client, NEW op \in Op, cl.loaded,
           Synced(hist, tr, s, cl)
    PROVE  Synced(hist, tr, s, Applied(s, cl, op))
<1> DEFINE buffer == IF cl.buffer = <<>> THEN <<op>>
                     ELSE <<Then(cl.buffer[1], op)>>
           doc == Undone(cl) \o cl.inflight \o buffer
           mid == [cl EXCEPT !.doc = doc, !.buffer = buffer]
           base == DocumentOf(hist, cl.revision)
<1>1. buffer \in NoneOrOne(Op)
    BY AdapterAssumption DEF Client, NoneOrOne
<1>2. Applied(s, cl, op) = Flush(s, mid)
    BY DEF Applied
<1> HIDE DEF buffer
<1>3. /\ buffer \in Document /\ cl.inflight \in Document
      /\ Undone(cl) \in Document
    BY <1>1, NoneOrOneFacts, UndoneType
<1>4. doc \in Document
    BY <1>3 DEF Document
<1>5. base \in Document
    <2>1. cl.revision \in 0 .. Len(hist)
        BY DEF Synced, Client
    <2>2. QED
        BY <2>1, DocumentOfType
<1>6. Undone(cl) = base
    BY <1>5, UndoneIs DEF Synced
<1>7. doc = base \o (cl.inflight \o buffer)
    <2>1. (Undone(cl) \o cl.inflight) \o buffer
              = Undone(cl) \o (cl.inflight \o buffer)
        BY <1>3, ConcatThree
    <2>2. QED
        BY <1>6, <2>1, Zenon
<1> HIDE DEF doc, base
<1>8. /\ mid \in Client /\ mid.loaded = cl.loaded /\ mid.doc = doc
      /\ mid.revision = cl.revision /\ mid.up = cl.up
      /\ mid.inflight = cl.inflight /\ mid.buffer = buffer
      /\ mid.batches = cl.batches
    BY <1>1, <1>4 DEF Client
<1> HIDE DEF mid
<1>9. Synced(hist, tr, s, mid)
    <2>1. /\ Pending(mid) = cl.inflight \o buffer
          /\ InflightId(s, mid) = InflightId(s, cl)
        BY <1>8 DEF Pending, InflightId
    <2>2. OwnAhead(hist, s, mid)
        BY <1>8, <2>1 DEF Synced, OwnAhead
    <2>3. \A i \in DOMAIN mid.up : Sent(hist, tr, s, mid, mid.up[i])
        BY <1>8, <2>1 DEF Synced, Sent
    <2>4. mid.doc = DocumentOf(hist, mid.revision) \o Pending(mid)
        BY <1>7, <1>8, <2>1 DEF base
    <2>5. QED
        BY <1>8, <2>2, <2>3, <2>4 DEF Synced
<1>10. QED
    BY <1>2, <1>8, <1>9, SyncedFlush
-----------------------------------------------------------------------------
(* No batch is in a history twice. *)
Once(hist) ==
    \A i, j \in DOMAIN hist : hist[i].batchId = hist[j].batchId => i = j

(* A snapshot the room sent replaces everything, provided nothing the      *)
(* client has sent can still be committed (reset).                         *)
LEMMA SyncedReset ==
    ASSUME NEW hist \in Seq(CommittedOp), NEW tr, NEW s \in Session,
           NEW cl \in Client, NEW rev \in Nat, Synced(hist, tr, s, cl),
           cl.revision <= rev, rev <= Len(hist), Own(hist, s, rev) = {},
           \A i \in DOMAIN cl.up :
               cl.up[i].type = "submit" => cl.up[i].base < tr
    PROVE  Synced(hist, tr, s, Reset(cl, rev, DocumentOf(hist, rev)))
<1> DEFINE doc == DocumentOf(hist, rev)
           next == Reset(cl, rev, doc)
<1>1. doc \in Document
    BY DocumentOfType
<1> HIDE DEF doc
<1>2. /\ next.loaded /\ next.doc = doc /\ next.revision = rev
      /\ next.inflight = <<>> /\ next.buffer = <<>> /\ next.up = cl.up
    BY DEF Reset, Client
<1> HIDE DEF next
<1>3. next.doc = doc \o Pending(next)
    <2>1. doc \o <<>> = doc /\ <<>> \o <<>> = <<>>
        BY <1>1 DEF Document
    <2>2. QED
        BY <1>2, <2>1 DEF Pending
<1>4. \A i \in DOMAIN next.up : Sent(hist, tr, s, next, next.up[i])
    <2>1. ASSUME NEW i \in DOMAIN cl.up, cl.up[i].type = "submit"
          PROVE  cl.up[i].base <= rev /\ cl.up[i].base < tr
        <3>1. cl.up[i] \in ClientMessage /\ cl.revision \in Nat
            BY DEF Client
        <3>2. cl.up[i].base \in Nat
            BY <2>1, <3>1 DEF ClientMessage
        <3>3. cl.up[i].base <= cl.revision
            BY <2>1 DEF Synced, Sent
        <3>4. QED
            BY <2>1, <3>1, <3>2, <3>3
    <2>2. QED
        BY <1>2, <2>1 DEF Sent
<1>5. OwnAhead(hist, s, next)
    BY <1>2 DEF OwnAhead
<1>6. Synced(hist, tr, s, next)
    BY <1>2, <1>3, <1>4, <1>5 DEF Synced, doc
<1>7. QED
    BY <1>6 DEF next, doc

(* A refusal takes back an edit that was never committed (rollBack).       *)
LEMMA SyncedRolledBack ==
    ASSUME NEW hist \in Seq(CommittedOp), NEW tr, NEW s \in Session,
           NEW cl \in Client, NEW id, Synced(hist, tr, s, cl),
           cl.up = <<>>, ~InHist(hist, id)
    PROVE  Synced(hist, tr, s, RolledBack(s, cl, id))
<1>1. CASE ~cl.loaded \/ cl.inflight = <<>> \/ id # InflightId(s, cl)
    BY <1>1 DEF RolledBack
<1>2. CASE ~(~cl.loaded \/ cl.inflight = <<>> \/ id # InflightId(s, cl))
    <2> DEFINE next == [cl EXCEPT !.doc = Undone(cl), !.inflight = <<>>,
                                  !.buffer = <<>>]
               base == DocumentOf(hist, cl.revision)
    <2>1. RolledBack(s, cl, id) = next
        BY <1>2 DEF RolledBack
    <2>2. base \in Document
        <3>1. cl.revision \in 0 .. Len(hist)
            BY DEF Synced, Client
        <3>2. QED
            BY <3>1, DocumentOfType
    <2>3. Undone(cl) = base
        BY <1>2, <2>2, UndoneIs DEF Synced
    <2>4. /\ next.loaded = cl.loaded /\ next.doc = base
          /\ next.revision = cl.revision /\ next.up = <<>>
          /\ next.inflight = <<>> /\ next.buffer = <<>>
        BY <2>3 DEF Client
    <2> HIDE DEF next, base
    <2>5. next.doc = base \o Pending(next)
        <3>1. base \o <<>> = base /\ <<>> \o <<>> = <<>>
            BY <2>2 DEF Document
        <3>2. QED
            BY <2>4, <3>1 DEF Pending
    <2>6. Own(hist, s, cl.revision) = {}
        <3>1. ASSUME NEW k \in Own(hist, s, cl.revision) PROVE FALSE
            <4>1. hist[k].batchId = id /\ k \in DOMAIN hist
                BY <1>2 DEF Synced, OwnAhead, Own
            <4>2. QED
                BY <4>1 DEF InHist
        <3>2. QED
            BY <3>1
    <2>7. OwnAhead(hist, s, next)
        BY <2>4, <2>6 DEF OwnAhead
    <2>8. DOMAIN next.up = {}
        BY <2>4
    <2>9. QED
        BY <2>1, <2>4, <2>5, <2>7, <2>8 DEF Synced, base
<1>3. QED
    BY <1>1, <1>2

(* An ack names the next revision, and then the room committed what the    *)
(* client shows; or a revision the client knows, and then it is ignored    *)
(* (ack).                                                                  *)
LEMMA SyncedAcked ==
    ASSUME NEW hist \in Seq(CommittedOp), NEW tr, NEW s \in Session,
           NEW cl \in Client, NEW id, NEW rev \in DOMAIN hist,
           Synced(hist, tr, s, cl), ClientAhead(hist, s, cl), Once(hist),
           hist[rev].batchId = id, id[1] = s, rev <= cl.revision + 1
    PROVE  /\ Synced(hist, tr, s, Acked(s, cl, id, rev))
           /\ Acked(s, cl, id, rev).revision
                = IF rev = cl.revision + 1 THEN rev ELSE cl.revision
<1>0. rev \in Nat /\ rev <= Len(hist) /\ cl.revision \in Nat
    BY DEF Client
<1>1. CASE cl.inflight = <<>> \/ id # InflightId(s, cl)
    <2>1. rev # cl.revision + 1
        <3>1. SUFFICES ASSUME rev = cl.revision + 1 PROVE FALSE
            OBVIOUS
        <3>2. rev \in Own(hist, s, cl.revision)
            BY <1>0, <3>1 DEF Own
        <3>3. QED
            BY <1>1, <3>2 DEF Synced, OwnAhead
    <2>2. QED
        BY <1>1, <2>1 DEF Acked
<1>2. CASE ~(cl.inflight = <<>> \/ id # InflightId(s, cl))
    <2> DEFINE mid == [cl EXCEPT !.revision = rev, !.inflight = <<>>]
               base == DocumentOf(hist, cl.revision)
    <2>1. Acked(s, cl, id, rev) = Flush(s, mid)
        BY <1>2 DEF Acked
    <2>2. mid \in Client
        BY <1>0 DEF Client, NoneOrOne
    <2>3. /\ mid.loaded = cl.loaded /\ mid.doc = cl.doc
          /\ mid.revision = rev /\ mid.up = cl.up
          /\ mid.inflight = <<>> /\ mid.buffer = cl.buffer
        BY DEF Client
    <2> HIDE DEF mid
    <2>4. rev = cl.revision + 1
        <3>1. cl.revision < rev
            BY <1>2 DEF ClientAhead
        <3>2. QED
            BY <1>0, <3>1
    <2>5. rev \in Own(hist, s, cl.revision)
        BY <1>0, <2>4 DEF Own
    <2>6. Own(hist, s, rev) = {}
        <3>1. ASSUME NEW k \in Own(hist, s, rev) PROVE FALSE
            <4>1. k \in DOMAIN hist /\ rev < k /\ k \in Nat
                BY DEF Own
            <4>2. k \in Own(hist, s, cl.revision)
                BY <1>0, <2>4, <4>1 DEF Own
            <4>3. hist[k].batchId = hist[rev].batchId
                BY <1>2, <4>2 DEF Synced, OwnAhead
            <4>4. QED
                BY <1>0, <4>1, <4>3 DEF Once
        <3>2. QED
            BY <3>1
    <2>7. cl.inflight[1] = hist[rev].op
        <3>1. Carries(hist, cl.inflight[1], cl.revision, hist[rev].op, rev - 1)
            BY <2>5 DEF Synced, OwnAhead
        <3>2. rev - 1 = cl.revision
            BY <1>0, <2>4
        <3>3. QED
            BY <3>1, <3>2, CarriedNowhere
    <2>8. /\ cl.inflight = <<hist[rev].op>> /\ hist[rev].op \in Op
          /\ cl.inflight \in Document /\ cl.buffer \in Document
        BY <1>2, <2>7, NoneOrOneFacts DEF Client
    <2>9. base \in Document
        BY <1>0, <2>4, DocumentOfType
    <2>10. DocumentOf(hist, rev) = base \o cl.inflight
        <3>1. DocumentOf(hist, rev) = Append(base, hist[rev].op)
            BY <1>0, <2>4, DocumentOfNext
        <3> HIDE DEF base
        <3>2. Append(base, hist[rev].op) = base \o <<hist[rev].op>>
            BY <2>8, <2>9, AppendOne
        <3>3. QED
            BY <2>8, <3>1, <3>2
    <2> HIDE DEF base
    <2>11. mid.loaded => mid.doc = DocumentOf(hist, rev) \o Pending(mid)
        <3>1. cl.loaded => cl.doc = base \o (cl.inflight \o cl.buffer)
            BY DEF Synced, Pending, base
        <3>2. base \o (cl.inflight \o cl.buffer)
                = (base \o cl.inflight) \o cl.buffer
            BY <2>8, <2>9, ConcatThree
        <3>3. <<>> \o cl.buffer = cl.buffer
            BY <2>8 DEF Document
        <3>4. QED
            BY <2>3, <2>10, <3>1, <3>2, <3>3 DEF Pending
    <2>12. ASSUME NEW i \in DOMAIN mid.up
           PROVE  Sent(hist, tr, s, mid, mid.up[i])
        <3> DEFINE m == cl.up[i]
        <3>1. m \in ClientMessage /\ Sent(hist, tr, s, cl, m) /\ mid.up[i] = m
            BY <2>3 DEF Synced, Client
        <3>2. m.type = "submit" => m.base \in Nat
            BY <3>1 DEF ClientMessage
        <3> HIDE DEF m
        <3>3. InHist(hist, id)
            BY DEF InHist
        <3>4. Sent(hist, tr, s, mid, m)
            BY <1>0, <1>2, <2>3, <2>4, <3>1, <3>2, <3>3 DEF Sent
        <3>5. QED
            BY <3>1, <3>4
    <2>13. OwnAhead(hist, s, mid)
        BY <2>3, <2>6 DEF OwnAhead
    <2>14. Synced(hist, tr, s, mid)
        <3>1. cl.loaded
            BY <1>2 DEF Synced
        <3>2. QED
            BY <1>0, <2>3, <2>11, <2>12, <2>13, <3>1 DEF Synced
    <2>15. Flush(s, mid).revision = mid.revision
        BY <2>2, FlushFields
    <2>16. QED
        BY <2>1, <2>2, <2>3, <2>4, <2>14, <2>15, SyncedFlush
<1>3. QED
    BY <1>1, <1>2

(* Someone else's op goes under the edits, which are transformed past it   *)
(* the way the room will transform them (remote).                          *)
LEMMA SyncedRebased ==
    ASSUME NEW hist \in Seq(CommittedOp), NEW tr, NEW s \in Session,
           NEW cl \in Client, NEW c \in NumberedOp, InHistory(hist, c),
           Synced(hist, tr, s, cl), cl.loaded,
           c.revision = cl.revision + 1,
           cl.inflight # <<>> => c.batchId # InflightId(s, cl)
    PROVE  /\ Synced(hist, tr, s, Rebased(cl, c))
           /\ Rebased(cl, c).revision = c.revision
<1> DEFINE inflight == After(cl.inflight, c.op)
           buffer == After(cl.buffer, Against(c.op, cl.inflight))
           doc == Append(Undone(cl), c.op) \o inflight \o buffer
           next == [cl EXCEPT !.doc = doc, !.revision = c.revision,
                              !.inflight = inflight, !.buffer = buffer]
           base == DocumentOf(hist, cl.revision)
           rev == c.revision
<1>0. /\ rev \in Nat /\ rev \in DOMAIN hist /\ rev <= Len(hist)
      /\ cl.revision \in Nat /\ rev = cl.revision + 1
      /\ c.op \in Op /\ c.op = hist[rev].op
      /\ c.batchId = hist[rev].batchId
    BY DEF Client, NumberedOp, InHistory
<1>1. Rebased(cl, c) = next
    BY DEF Rebased
<1>2. inflight \in NoneOrOne(Op) /\ buffer \in NoneOrOne(Op)
    <2>1. ASSUME NEW edits \in NoneOrOne(Op), NEW op \in Op
          PROVE  After(edits, op) \in NoneOrOne(Op) /\ Against(op, edits) \in Op
        <3>1. CASE edits = <<>>
            BY <3>1 DEF After, Against, NoneOrOne
        <3>2. CASE edits # <<>>
            <4>1. edits[1] \in Op
                BY <3>2, NoneOrOneFacts
            <4>2. Transform(edits[1], op, TRUE) \in Op
                BY <4>1, AdapterAssumption
            <4>3. Transform(op, edits[1], FALSE) \in Op
                BY <4>1, AdapterAssumption
            <4>4. QED
                BY <3>2, <4>2, <4>3 DEF After, Against, NoneOrOne
        <3>3. QED
            BY <3>1, <3>2
    <2>2. cl.inflight \in NoneOrOne(Op) /\ cl.buffer \in NoneOrOne(Op)
        BY DEF Client
    <2>3. QED
        BY <1>0, <2>1, <2>2
<1>3. /\ inflight = <<>> <=> cl.inflight = <<>>
      /\ cl.inflight # <<>> =>
            inflight[1] = Transform(cl.inflight[1], hist[rev].op, TRUE)
    BY <1>0 DEF After
<1> HIDE DEF inflight, buffer
<1>4. inflight \in Document /\ buffer \in Document
    BY <1>2, NoneOrOneFacts
<1>5. base \in Document
    <2>1. cl.revision \in 0 .. Len(hist)
        BY <1>0
    <2>2. QED
        BY <2>1, DocumentOfType
<1>6. Undone(cl) = base
    BY <1>5, UndoneIs DEF Synced
<1>7. /\ DocumentOf(hist, rev) = Append(base, c.op)
      /\ DocumentOf(hist, rev) \in Document
    <2>1. DocumentOf(hist, rev) = Append(base, c.op)
        BY <1>0, DocumentOfNext
    <2>2. rev \in 0 .. Len(hist)
        BY <1>0
    <2>3. QED
        BY <2>1, <2>2, DocumentOfType
<1>8. doc = DocumentOf(hist, rev) \o (inflight \o buffer) /\ doc \in Document
    <2>1. doc = DocumentOf(hist, rev) \o inflight \o buffer
        BY <1>6, <1>7
    <2>2. (DocumentOf(hist, rev) \o inflight) \o buffer
            = DocumentOf(hist, rev) \o (inflight \o buffer)
        BY <1>4, <1>7, ConcatThree
    <2> DEFINE new == DocumentOf(hist, rev)
    <2>3. new \in Document
        BY <1>7
    <2> HIDE DEF doc, new
    <2>4. new \o (inflight \o buffer) \in Document
        BY <1>4, <2>3 DEF Document
    <2>5. QED
        BY <2>1, <2>2, <2>4 DEF new
<1> HIDE DEF doc, base
<1>9. /\ next.loaded = cl.loaded /\ next.doc = doc
      /\ next.revision = rev /\ next.up = cl.up
      /\ next.inflight = inflight /\ next.buffer = buffer
      /\ next.batches = cl.batches
    BY DEF Client
<1> HIDE DEF next
<1>10. OwnAhead(hist, s, next)
    <2>1. ASSUME NEW k \in Own(hist, s, rev)
          PROVE  /\ inflight # <<>> /\ hist[k].batchId = InflightId(s, next)
                 /\ Carries(hist, inflight[1], rev, hist[k].op, k - 1)
        <3>1. k \in DOMAIN hist /\ k \in Nat /\ rev < k
            BY DEF Own
        <3>2. k \in Own(hist, s, cl.revision)
            BY <1>0, <3>1 DEF Own
        <3>3. /\ cl.inflight # <<>> /\ hist[k].batchId = InflightId(s, cl)
              /\ Carries(hist, cl.inflight[1], cl.revision, hist[k].op, k - 1)
            BY <3>2 DEF Synced, OwnAhead
        <3>4. cl.revision < k - 1
            BY <1>0, <3>1
        <3>5. Carries(hist, Transform(cl.inflight[1],
                                      hist[cl.revision + 1].op, TRUE),
                      cl.revision + 1, hist[k].op, k - 1)
            BY <3>3, <3>4, CarriesFrom
        <3>6. QED
            BY <1>0, <1>3, <1>9, <3>3, <3>5 DEF InflightId
    <2>2. QED
        BY <1>9, <2>1 DEF OwnAhead
<1>11. ASSUME NEW i \in DOMAIN next.up
       PROVE  Sent(hist, tr, s, next, next.up[i])
    <2> DEFINE m == cl.up[i]
    <2>1. m \in ClientMessage /\ Sent(hist, tr, s, cl, m) /\ next.up[i] = m
        BY <1>9 DEF Synced, Client
    <2>2. m.type = "submit" => m.base \in Nat
        BY <2>1 DEF ClientMessage
    <2> HIDE DEF m
    <2>3. ASSUME cl.inflight # <<>>,
                 Carries(hist, m.op, m.base, cl.inflight[1], cl.revision)
          PROVE  Carries(hist, m.op, m.base, inflight[1], rev)
        BY <1>0, <1>3, <2>3, CarriesOn, ZenonT(60)
    <2>4. InflightId(s, next) = InflightId(s, cl)
        BY <1>9 DEF InflightId
    <2>5. Sent(hist, tr, s, next, m)
        BY <1>0, <1>3, <1>9, <2>1, <2>2, <2>3, <2>4 DEF Sent
    <2>6. QED
        BY <2>1, <2>5
<1>12. next.doc = DocumentOf(hist, next.revision) \o Pending(next)
    BY <1>8, <1>9 DEF Pending
<1>13. Synced(hist, tr, s, next)
    BY <1>0, <1>9, <1>10, <1>11, <1>12 DEF Synced
<1>14. QED
    BY <1>1, <1>9, <1>13
-----------------------------------------------------------------------------
(* A handler leaves the connection as it is and only adds batches to what  *)
(* it carries.                                                             *)
Onward(cl, next) ==
    /\ next.open = cl.open /\ next.loaded = cl.loaded
    /\ \A i \in DOMAIN next.up :
          \/ i \in DOMAIN cl.up /\ next.up[i] = cl.up[i]
          \/ next.up[i].type = "submit"

(* With nothing in the buffer it adds nothing.                             *)
Silently(cl, next) ==
    cl.buffer = <<>> => next.buffer = <<>> /\ next.up = cl.up

LEMMA OnwardAgain ==
    ASSUME NEW cl, NEW mid, NEW next, Onward(cl, mid), Onward(mid, next)
    PROVE  Onward(cl, next)
BY DEF Onward

LEMMA SendInflightOnward ==
    ASSUME NEW s \in Session, NEW cl \in Client
    PROVE  Onward(cl, SendInflight(s, cl))
<1> DEFINE next == SendInflight(s, cl)
           m == Submit(InflightId(s, cl), cl.revision, cl.inflight[1])
<1>1. /\ next.open = cl.open /\ next.loaded = cl.loaded
      /\ next.up = cl.up \/ next.up = Append(cl.up, m)
    BY SendInflightFields
<1>2. cl.up \in Seq(ClientMessage) /\ m.type = "submit"
    BY DEF Client, Submit
<1> HIDE DEF next, m
<1>3. \A i \in DOMAIN next.up :
          \/ i \in DOMAIN cl.up /\ next.up[i] = cl.up[i]
          \/ next.up[i] = m
    BY <1>1, <1>2
<1>4. Onward(cl, next)
    BY <1>1, <1>2, <1>3 DEF Onward
<1>5. QED
    BY <1>4 DEF next

LEMMA FlushOnward ==
    ASSUME NEW s \in Session, NEW cl \in Client
    PROVE  Onward(cl, Flush(s, cl)) /\ Silently(cl, Flush(s, cl))
<1> DEFINE next == Flush(s, cl)
<1>1. /\ next.open = cl.open /\ next.loaded = cl.loaded
      /\ cl.buffer = <<>> => next = cl
      /\ \/ next.up = cl.up
         \/ \E id, op : next.up = Append(cl.up, Submit(id, cl.revision, op))
    BY FlushFields
<1> HIDE DEF next
<1>2. cl.up \in Seq(ClientMessage)
    BY DEF Client
<1>3. ASSUME NEW i \in DOMAIN next.up
      PROVE  \/ i \in DOMAIN cl.up /\ next.up[i] = cl.up[i]
             \/ next.up[i].type = "submit"
    <2>1. CASE next.up = cl.up
        BY <2>1
    <2>2. CASE next.up # cl.up
        <3>1. PICK id, op :
                  next.up = Append(cl.up, Submit(id, cl.revision, op))
            BY <1>1, <2>2
        <3> DEFINE m == Submit(id, cl.revision, op)
        <3>2. m.type = "submit"
            BY DEF Submit
        <3> HIDE DEF m
        <3>3. next.up = Append(cl.up, m)
            BY <3>1 DEF m
        <3>4. \/ i \in DOMAIN cl.up /\ next.up[i] = cl.up[i]
              \/ next.up[i] = m
            BY <1>2, <3>3
        <3>5. QED
            BY <3>2, <3>4
    <2>3. QED
        BY <2>1, <2>2
<1>4. Onward(cl, next) /\ Silently(cl, next)
    BY <1>1, <1>3 DEF Onward, Silently
<1>5. QED
    BY <1>4 DEF next

LEMMA AckedOnward ==
    ASSUME NEW s \in Session, NEW cl \in Client, NEW id, NEW rev \in Nat
    PROVE  /\ Onward(cl, Acked(s, cl, id, rev))
           /\ Silently(cl, Acked(s, cl, id, rev))
<1> DEFINE mid == [cl EXCEPT !.revision = rev, !.inflight = <<>>]
<1>1. /\ mid \in Client /\ mid.open = cl.open /\ mid.loaded = cl.loaded
      /\ mid.up = cl.up /\ mid.buffer = cl.buffer
    BY DEF Client, NoneOrOne
<1>2. Acked(s, cl, id, rev) \in {cl, Flush(s, mid)}
    BY DEF Acked
<1> HIDE DEF mid
<1>3. Onward(mid, Flush(s, mid)) /\ Silently(mid, Flush(s, mid))
    BY <1>1, FlushOnward
<1>4. QED
    BY <1>1, <1>2, <1>3 DEF Onward, Silently

LEMMA RebasedOnward ==
    ASSUME NEW cl \in Client, NEW c
    PROVE  Onward(cl, Rebased(cl, c)) /\ Silently(cl, Rebased(cl, c))
BY DEF Onward, Silently, Rebased, After, Client

LEMMA CaughtUpOnward ==
    ASSUME NEW s \in Session, NEW cl \in Client, NEW c \in NumberedOp
    PROVE  Onward(cl, CaughtUp(s, cl, c)) /\ Silently(cl, CaughtUp(s, cl, c))
BY AckedOnward, RebasedOnward DEF CaughtUp, NumberedOp

LEMMA RolledBackOnward ==
    ASSUME NEW s, NEW cl \in Client, NEW id
    PROVE  Onward(cl, RolledBack(s, cl, id)) /\ Silently(cl, RolledBack(s, cl, id))
           /\ RolledBack(s, cl, id).revision = cl.revision
BY DEF Onward, Silently, RolledBack, Client

-----------------------------------------------------------------------------
(* One op of a catch-up: one's own, whose ack was lost, or someone else's. *)
LEMMA SyncedCaughtUp ==
    ASSUME NEW hist \in Seq(CommittedOp), NEW tr, NEW s \in Session,
           NEW cl \in Client, NEW c \in NumberedOp, InHistory(hist, c),
           Synced(hist, tr, s, cl), ClientAhead(hist, s, cl), Once(hist),
           cl.loaded, c.revision = cl.revision + 1
    PROVE  /\ Synced(hist, tr, s, CaughtUp(s, cl, c))
           /\ CaughtUp(s, cl, c).revision = c.revision
<1>1. CASE cl.inflight # <<>> /\ c.batchId = InflightId(s, cl)
    <2>1. /\ c.revision \in DOMAIN hist /\ hist[c.revision].batchId = c.batchId
          /\ c.batchId[1] = s /\ c.revision <= cl.revision + 1
        BY <1>1 DEF InHistory, InflightId, NumberedOp, Client
    <2> DEFINE id == c.batchId
               rev == c.revision
    <2>2. /\ rev \in DOMAIN hist /\ hist[rev].batchId = id
          /\ id[1] = s /\ rev <= cl.revision + 1 /\ rev = cl.revision + 1
        BY <2>1
    <2> HIDE DEF id, rev
    <2>3. /\ Synced(hist, tr, s, Acked(s, cl, id, rev))
          /\ Acked(s, cl, id, rev).revision
               = IF rev = cl.revision + 1 THEN rev ELSE cl.revision
        BY <2>2, SyncedAcked, SMTT(60)
    <2>4. QED
        BY <1>1, <2>2, <2>3 DEF CaughtUp, id, rev
<1>2. CASE ~(cl.inflight # <<>> /\ c.batchId = InflightId(s, cl))
    BY <1>2, SyncedRebased DEF CaughtUp
<1>3. QED
    BY <1>1, <1>2

(* The client is at the revision of the last op it missed; at most it has  *)
(* sent its batch in flight again, when it has nothing in the buffer.      *)
CameUp(s, cl, missed, next) ==
    /\ next.revision = cl.revision + Len(missed)
    /\ Onward(cl, next)
    /\ cl.buffer = <<>> =>
          /\ next.buffer = <<>>
          /\ \/ next.up = cl.up
             \/ \E m : /\ next.up = Append(cl.up, m)
                       /\ m.type = "submit" /\ next.inflight # <<>>
                       /\ m.batchId = InflightId(s, next)

(* The whole catch-up (welcome).                                           *)
LEMMA SyncedWelcomed ==
    ASSUME NEW hist \in Seq(CommittedOp), NEW tr, NEW s \in Session,
           NEW cl \in Client, NEW missed \in Seq(NumberedOp),
           \A i \in DOMAIN missed :
               /\ InHistory(hist, missed[i])
               /\ missed[i].revision = cl.revision + i,
           Synced(hist, tr, s, cl), ClientAhead(hist, s, cl), Once(hist),
           cl.loaded, NEW next, next = Welcomed(s, cl, missed)
    PROVE  Synced(hist, tr, s, next) /\ CameUp(s, cl, missed, next)
<1>0. Len(missed) \in Nat /\ DOMAIN missed = 1 .. Len(missed)
    OBVIOUS
<1>1. PICK upTo :
          /\ upTo[0] = cl
          /\ \A i \in 1 .. Len(missed) :
                upTo[i] = CaughtUp(s, upTo[i - 1], missed[i])
          /\ Welcomed(s, cl, missed)
               = IF upTo[Len(missed)].inflight # <<>>
                 THEN SendInflight(s, upTo[Len(missed)])
                 ELSE Flush(s, upTo[Len(missed)])
    BY <1>0, CatchUpUnfolds
<1> DEFINE Fine(x, n) ==
               /\ x \in Client /\ Synced(hist, tr, s, x)
               /\ ClientAhead(hist, s, x) /\ x.loaded
               /\ x.revision = cl.revision + n
               /\ Onward(cl, x) /\ Silently(cl, x)
           T == {n \in Nat : n <= Len(missed) => Fine(upTo[n], n)}
<1>2. 0 \in T
    <2>1. cl.revision \in Nat
        BY DEF Client
    <2>2. Fine(cl, 0)
        BY <2>1 DEF Onward, Silently
    <2>3. QED
        BY <1>1, <2>2
<1>3. ASSUME NEW n \in T PROVE n + 1 \in T
    <2>0. n \in Nat
        OBVIOUS
    <2>1. SUFFICES ASSUME n + 1 <= Len(missed)
                   PROVE  Fine(upTo[n + 1], n + 1)
        BY <2>0
    <2> DEFINE x == upTo[n]
               c == missed[n + 1]
    <2>2. Fine(x, n)
        BY <2>0, <2>1
    <2>3. n + 1 \in 1 .. Len(missed) /\ (n + 1) - 1 = n
        BY <1>0, <2>0, <2>1
    <2>4. upTo[n + 1] = CaughtUp(s, x, c)
        BY <1>1, <2>3
    <2>5. /\ c \in NumberedOp /\ InHistory(hist, c)
          /\ c.revision = cl.revision + (n + 1)
        BY <1>0, <2>3
    <2> HIDE DEF x, c
    <2>6. c.revision = x.revision + 1 /\ cl.revision \in Nat
        BY <2>0, <2>2, <2>5 DEF Client
    <2>7. /\ Synced(hist, tr, s, CaughtUp(s, x, c))
          /\ CaughtUp(s, x, c).revision = c.revision
        BY <2>2, <2>5, <2>6, SyncedCaughtUp
    <2>8. CaughtUp(s, x, c) \in Client
        BY <2>2, <2>5, CaughtUpType
    <2>9. ClientAhead(hist, s, CaughtUp(s, x, c))
        BY <2>2, <2>5, CaughtUpAhead
    <2>10. Onward(x, CaughtUp(s, x, c)) /\ Silently(x, CaughtUp(s, x, c))
        BY <2>2, <2>5, CaughtUpOnward
    <2>11. /\ Onward(cl, CaughtUp(s, x, c)) /\ CaughtUp(s, x, c).loaded
           /\ Silently(cl, CaughtUp(s, x, c))
        BY <2>2, <2>10, OnwardAgain DEF Silently, Onward
    <2>12. QED
        BY <2>4, <2>5, <2>7, <2>8, <2>9, <2>11
<1>4. T = Nat
    BY <1>2, <1>3, SetInduction, Zenon
<1> DEFINE now == upTo[Len(missed)]
<1>5. Fine(now, Len(missed))
    BY <1>0, <1>4
<1>6. next = IF now.inflight # <<>> THEN SendInflight(s, now)
             ELSE Flush(s, now)
    BY <1>1
<1> HIDE DEF now, T
<1>7. CASE now.inflight # <<>>
    <2> DEFINE m == Submit(InflightId(s, now), now.revision, now.inflight[1])
    <2>1. next = SendInflight(s, now)
        BY <1>6, <1>7
    <2>2. Synced(hist, tr, s, next) /\ Onward(now, next)
        BY <1>5, <1>7, <2>1, SyncedSendInflight, SendInflightOnward
    <2>3. /\ next.revision = now.revision /\ next.inflight = now.inflight
          /\ next.buffer = now.buffer /\ next.batches = now.batches
          /\ next.up = now.up \/ next.up = Append(now.up, m)
        BY <1>5, <2>1, SendInflightFields
    <2>4. /\ m.type = "submit" /\ m.batchId = InflightId(s, now)
          /\ InflightId(s, next) = InflightId(s, now)
        BY <2>3 DEF Submit, InflightId
    <2> HIDE DEF m
    <2>5. Onward(cl, next)
        BY <1>5, <2>2, OnwardAgain
    <2>6. cl.buffer = <<>> =>
             /\ next.buffer = <<>>
             /\ \/ next.up = cl.up
                \/ /\ next.up = Append(cl.up, m)
                   /\ m.type = "submit" /\ next.inflight # <<>>
                   /\ m.batchId = InflightId(s, next)
        BY <1>5, <1>7, <2>3, <2>4 DEF Silently
    <2>7. QED
        BY <1>5, <2>2, <2>3, <2>5, <2>6 DEF CameUp
<1>8. CASE now.inflight = <<>>
    <2>1. next = Flush(s, now)
        BY <1>6, <1>8
    <2>2. /\ Synced(hist, tr, s, next) /\ next.revision = now.revision
          /\ Onward(now, next) /\ Silently(now, next)
        BY <1>5, <2>1, SyncedFlush, FlushFields, FlushOnward
    <2>3. Onward(cl, next)
        BY <1>5, <2>2, OnwardAgain
    <2>4. QED
        BY <1>5, <2>2, <2>3 DEF Silently, CameUp
<1>9. QED
    BY <1>7, <1>8
-----------------------------------------------------------------------------
(* What the room does to a session that is on course. *)

(* The log is cut shorter.                                                 *)
LEMMA OnCourseTrim ==
    ASSUME NEW hist, NEW tr \in Nat, NEW tr2 \in Nat, tr <= tr2,
           NEW s \in Session, NEW cl \in Client, NEW q, NEW mem,
           Len(q) \in Nat, DOMAIN q = 1 .. Len(q),
           NEW rev \in [0 .. Len(q) -> Nat],
           OnCourse(hist, tr, s, cl, q, mem, rev)
    PROVE  OnCourse(hist, tr2, s, cl, q, mem, rev)
<1>1. ASSUME NEW i \in DOMAIN cl.up
      PROVE  Sent(hist, tr2, s, cl, cl.up[i])
    <2> DEFINE m == cl.up[i]
    <2>1. m \in ClientMessage
        BY DEF Client
    <2>2. m.type = "submit" => m.base \in Nat
        BY <2>1 DEF ClientMessage
    <2>3. Sent(hist, tr, s, cl, m)
        BY DEF OnCourse, Synced
    <2> HIDE DEF m
    <2>4. Sent(hist, tr2, s, cl, m)
        BY <2>2, <2>3 DEF Sent
    <2>5. QED
        BY <2>4 DEF m
<1>2. Synced(hist, tr2, s, cl)
    BY <1>1 DEF OnCourse, Synced
<1>3. Fenced(hist, tr2, s, cl, q, rev)
    <2>1. ASSUME NEW i \in DOMAIN q, rev[i - 1] < tr PROVE rev[i - 1] < tr2
        <3>1. i - 1 \in 0 .. Len(q)
            OBVIOUS
        <3>2. rev[i - 1] \in Nat
            BY <3>1
        <3>3. QED
            BY <2>1, <3>2
    <2>2. QED
        BY <2>1 DEF OnCourse, Fenced
<1>4. QED
    BY <1>2, <1>3 DEF OnCourse

(* The room no longer hears the connection.                                *)
LEMMA OnCourseUnheard ==
    ASSUME NEW hist, NEW tr, NEW s, NEW cl, NEW q, NEW mem, NEW rev,
           OnCourse(hist, tr, s, cl, q, mem, rev)
    PROVE  OnCourse(hist, tr, s, cl, q, "none", rev)
<1>1. Connected(cl, q, "none")
    BY DEF OnCourse, Connected
<1>2. QED
    BY <1>1 DEF OnCourse

(* It takes the next message off the connection.                           *)
LEMMA OnCourseTail ==
    ASSUME NEW hist, NEW tr, NEW s, NEW cl \in Client, NEW q, NEW mem,
           NEW rev, cl.up # <<>>,
           OnCourse(hist, tr, s, cl, q, mem, rev)
    PROVE  OnCourse(hist, tr, s, [cl EXCEPT !.up = Tail(@)], q, mem, rev)
<1> DEFINE next == [cl EXCEPT !.up = Tail(@)]
<1>1. /\ next.open = cl.open /\ next.loaded = cl.loaded
      /\ next.doc = cl.doc /\ next.revision = cl.revision
      /\ next.inflight = cl.inflight /\ next.buffer = cl.buffer
      /\ next.batches = cl.batches /\ next.up = Tail(cl.up)
    BY DEF Client
<1>2. /\ cl.up \in Seq(ClientMessage) /\ Len(cl.up) \in Nat
      /\ Len(Tail(cl.up)) = Len(cl.up) - 1
      /\ \A i \in DOMAIN Tail(cl.up) :
            /\ i \in Nat /\ i >= 1
            /\ i + 1 \in DOMAIN cl.up /\ Tail(cl.up)[i] = cl.up[i + 1]
    <2>1. cl.up \in Seq(ClientMessage)
        BY DEF Client
    <2>2. QED
        BY <2>1
<1> HIDE DEF next
<1>3. Synced(hist, tr, s, next)
    <2>1. Pending(next) = Pending(cl) /\ InflightId(s, next) = InflightId(s, cl)
        BY <1>1 DEF Pending, InflightId
    <2>2. OwnAhead(hist, s, next)
        BY <1>1, <2>1 DEF OnCourse, Synced, OwnAhead
    <2>3. \A i \in DOMAIN next.up : Sent(hist, tr, s, next, next.up[i])
        BY <1>1, <1>2, <2>1 DEF OnCourse, Synced, Sent
    <2>4. ~next.loaded => \A i \in DOMAIN next.up : next.up[i].type # "submit"
        BY <1>1, <1>2 DEF OnCourse, Synced
    <2>5. QED
        BY <1>1, <2>1, <2>2, <2>3, <2>4 DEF OnCourse, Synced
<1>4. Connected(next, q, mem)
    <2>1. \A i \in DOMAIN next.up : next.up[i].type # "hello"
        <3>1. ASSUME NEW i \in DOMAIN next.up, next.up[i].type = "hello"
              PROVE  FALSE
            <4>1. i + 1 \in DOMAIN cl.up /\ cl.up[i + 1].type = "hello"
                BY <1>1, <1>2, <3>1
            <4>2. i + 1 = 1 /\ i \in Nat /\ i >= 1
                BY <1>1, <1>2, <4>1 DEF OnCourse, Connected
            <4>3. QED
                BY <4>2
        <3>2. QED
            BY <3>1
    <2>2. ~next.open => FALSE
        BY <1>1 DEF OnCourse, Connected
    <2>3. QED
        BY <1>1, <2>1, <2>2 DEF OnCourse, Connected
<1>5. Patient => Waiting(hist, s, next, q)
    <2>1. ASSUME Patient PROVE Waiting(hist, s, next, q)
        <3>1. Waiting(hist, s, cl, q)
            BY <2>1 DEF OnCourse
        <3>2. Len(next.up) <= 1
            BY <1>1, <1>2, <3>1 DEF Waiting
        <3>3. \A i \in DOMAIN q : q[i].type # "catchUp" /\ q[i].type # "reject"
            BY <3>1 DEF Waiting, Calm
        <3>4. \A i \in DOMAIN next.up : next.up[i].type = "submit" =>
                  ~InHist(hist, next.up[i].batchId)
            BY <1>1, <1>2, <3>1 DEF Waiting
        <3>5. QED
            BY <1>1, <3>1, <3>2, <3>3, <3>4 DEF Waiting
    <2>2. QED
        BY <2>1
<1>6. Path(hist, s, next, q, rev)
    BY <1>1 DEF OnCourse, Path
<1>7. Fenced(hist, tr, s, next, q, rev)
    BY <1>1 DEF OnCourse, Fenced, Calm
<1>8. OnCourse(hist, tr, s, next, q, mem, rev)
    BY <1>3, <1>4, <1>5, <1>6, <1>7 DEF OnCourse
<1>9. QED
    BY <1>8 DEF next
(* Own commits of a history one longer. *)
LEMMA OwnGrows ==
    ASSUME NEW hist \in Seq(CommittedOp), NEW entry \in CommittedOp, NEW s,
           NEW rev, NEW k \in Own(Append(hist, entry), s, rev)
    PROVE  \/ k \in Own(hist, s, rev) /\ Append(hist, entry)[k] = hist[k]
           \/ k = Len(hist) + 1 /\ entry.batchId[1] = s
<1> DEFINE more == Append(hist, entry)
<1>1. /\ DOMAIN hist = 1 .. Len(hist) /\ DOMAIN more = 1 .. (Len(hist) + 1)
      /\ \A i \in DOMAIN hist : more[i] = hist[i]
      /\ more[Len(hist) + 1] = entry /\ Len(hist) \in Nat
    BY AppendFacts
<1> HIDE DEF more
<1>2. k \in DOMAIN more /\ rev < k /\ more[k].batchId[1] = s
    BY DEF Own, more
<1>3. k \in DOMAIN hist \/ k = Len(hist) + 1
    BY <1>1, <1>2
<1>4. \/ k \in Own(hist, s, rev) /\ more[k] = hist[k]
      \/ k = Len(hist) + 1 /\ entry.batchId[1] = s
    BY <1>1, <1>2, <1>3 DEF Own
<1>5. QED
    BY <1>4 DEF more

LEMMA InHistAppend ==
    ASSUME NEW hist \in Seq(CommittedOp), NEW entry \in CommittedOp, NEW id
    PROVE  InHist(Append(hist, entry), id)
               <=> InHist(hist, id) \/ id = entry.batchId
<1> DEFINE more == Append(hist, entry)
<1>1. /\ DOMAIN hist = 1 .. Len(hist) /\ DOMAIN more = 1 .. (Len(hist) + 1)
      /\ \A i \in DOMAIN hist : more[i] = hist[i]
      /\ more[Len(hist) + 1] = entry /\ Len(hist) \in Nat
    BY AppendFacts
<1> HIDE DEF more
<1>2. \A k : k \in DOMAIN more <=> k \in DOMAIN hist \/ k = Len(hist) + 1
    BY <1>1
<1>3. InHist(more, id) <=> InHist(hist, id) \/ id = entry.batchId
    BY <1>1, <1>2 DEF InHist
<1>4. QED
    BY <1>3 DEF more

(* What a message says of the history stays so.                            *)
LEMMA LeadsGrows ==
    ASSUME NEW hist \in Seq(CommittedOp), NEW entry \in CommittedOp,
           NEW s, NEW m, NEW a, NEW b \in Nat, b <= Len(hist),
           Leads(hist, s, m, a, b)
    PROVE  Leads(Append(hist, entry), s, m, a, b)
<1> DEFINE more == Append(hist, entry)
<1>1. /\ DOMAIN hist = 1 .. Len(hist) /\ DOMAIN more = 1 .. (Len(hist) + 1)
      /\ \A i \in DOMAIN hist : more[i] = hist[i]
      /\ Len(hist) \in Nat
    BY AppendFacts
<1>2. DocumentOf(more, b) = DocumentOf(hist, b)
    BY DocumentOfGrows
<1> HIDE DEF more
<1>3. \A i : i \in DOMAIN hist => i \in DOMAIN more
    BY <1>1
<1>4. Leads(more, s, m, a, b)
    BY <1>1, <1>2, <1>3 DEF Leads
<1>5. QED
    BY <1>4 DEF more

(* The room commits a batch: of another session, or the one in flight here *)
(* as the client has it by then.                                           *)
LEMMA OnCourseGrow ==
    ASSUME NEW hist \in Seq(CommittedOp), NEW entry \in CommittedOp,
           NEW tr, NEW s \in Session, NEW cl \in Client,
           NEW q \in Seq(ServerMessage), NEW mem,
           NEW rev \in [0 .. Len(q) -> Nat],
           OnCourse(hist, tr, s, cl, q, mem, rev),
           entry.batchId[1] = s =>
               /\ cl.inflight # <<>> /\ entry.batchId = InflightId(s, cl)
               /\ Carries(hist, cl.inflight[1], cl.revision, entry.op,
                          Len(hist))
               /\ \A i \in DOMAIN q :
                     /\ q[i].type \notin Resets
                     /\ Patient => q[i].type \notin {"catchUp", "reject"},
           Patient => \A i \in DOMAIN cl.up :
               cl.up[i].type = "submit" => cl.up[i].batchId # entry.batchId
    PROVE  OnCourse(Append(hist, entry), tr, s, cl, q, mem, rev)
<1> DEFINE more == Append(hist, entry)
           n == Len(hist)
<1>1. /\ n \in Nat /\ Len(more) = n + 1 /\ more \in Seq(CommittedOp)
      /\ more[n + 1] = entry /\ DOMAIN more = 1 .. (n + 1)
    BY AppendFacts
<1>2. /\ cl.revision \in Nat /\ cl.revision <= n
      /\ Len(q) \in Nat /\ DOMAIN q = 1 .. Len(q)
      /\ \A i \in 0 .. Len(q) : rev[i] \in Nat /\ rev[i] <= n
    <2>1. /\ cl.revision \in Nat /\ cl.revision <= n
          /\ Len(q) \in Nat /\ DOMAIN q = 1 .. Len(q)
        BY DEF OnCourse, Synced, Client
    <2>2. ASSUME NEW i \in 0 .. Len(q) PROVE rev[i] \in Nat /\ rev[i] <= n
        <3>1. Len(q) \in 0 .. Len(q)
            BY <2>1
        <3>2. i <= Len(q)
            BY <2>1
        <3>3. rev[i] <= rev[Len(q)] /\ rev[Len(q)] <= n
            BY <3>1, <3>2 DEF OnCourse, Path
        <3>4. rev[i] \in Nat /\ rev[Len(q)] \in Nat
            BY <3>1
        <3>5. QED
            BY <1>1, <3>3, <3>4
    <2>3. QED
        BY <2>1, <2>2
<1>3. \A x, a, y, b : Carries(hist, x, a, y, b) /\ b <= n
                         => Carries(more, x, a, y, b)
    BY CarriesGrows
<1>4. \A id : InHist(more, id) <=> InHist(hist, id) \/ id = entry.batchId
    BY InHistAppend
<1>5. \A k, r : k \in Own(more, s, r) =>
          \/ k \in Own(hist, s, r) /\ more[k] = hist[k]
          \/ k = n + 1 /\ entry.batchId[1] = s
    BY OwnGrows
<1>6. DocumentOf(more, cl.revision) = DocumentOf(hist, cl.revision)
    BY <1>2, DocumentOfGrows
<1> HIDE DEF more, n
<1>7. Synced(more, tr, s, cl)
    <2>1. ASSUME NEW k \in Own(more, s, cl.revision)
          PROVE  /\ cl.inflight # <<>> /\ more[k].batchId = InflightId(s, cl)
                 /\ Carries(more, cl.inflight[1], cl.revision, more[k].op,
                            k - 1)
        <3>1. CASE k \in Own(hist, s, cl.revision) /\ more[k] = hist[k]
            <4>1. /\ cl.inflight # <<>> /\ hist[k].batchId = InflightId(s, cl)
                  /\ Carries(hist, cl.inflight[1], cl.revision, hist[k].op,
                             k - 1)
                BY <3>1 DEF OnCourse, Synced, OwnAhead
            <4>2. k \in DOMAIN hist
                BY <3>1 DEF Own
            <4>3. k - 1 <= n
                BY <4>2 DEF n
            <4>4. QED
                BY <1>3, <3>1, <4>1, <4>3
        <3>2. CASE k = n + 1 /\ entry.batchId[1] = s
            <4>1. k - 1 = n
                BY <1>1, <3>2
            <4>2. Carries(hist, cl.inflight[1], cl.revision, entry.op, n)
                BY <3>2 DEF n
            <4>3. Carries(more, cl.inflight[1], cl.revision, entry.op, n)
                <5>1. n <= n
                    BY <1>1
                <5>2. QED
                    BY <1>3, <4>2, <5>1, Zenon
            <4>4. QED
                BY <1>1, <3>2, <4>1, <4>3
        <3>3. QED
            BY <1>5, <3>1, <3>2
    <2>2. OwnAhead(more, s, cl)
        BY <2>1 DEF OwnAhead
    <2>3. ASSUME NEW i \in DOMAIN cl.up
          PROVE  Sent(more, tr, s, cl, cl.up[i])
        <3> DEFINE m == cl.up[i]
        <3>1. Sent(hist, tr, s, cl, m)
            BY DEF OnCourse, Synced
        <3> HIDE DEF m
        <3>2. Sent(more, tr, s, cl, m)
            BY <1>2, <1>3, <1>4, <3>1 DEF Sent
        <3>3. QED
            BY <3>2 DEF m
    <2>4. cl.revision <= Len(more)
        BY <1>1, <1>2
    <2>5. QED
        BY <1>6, <2>2, <2>3, <2>4 DEF OnCourse, Synced
<1>8. Patient => Waiting(more, s, cl, q)
    <2>1. ASSUME Patient PROVE Waiting(more, s, cl, q)
        <3>1. Waiting(hist, s, cl, q)
            BY <2>1 DEF OnCourse
        <3>2. \A i \in DOMAIN cl.up : cl.up[i].type = "submit" =>
                  ~InHist(more, cl.up[i].batchId)
            BY <1>4, <2>1, <3>1 DEF Waiting
        <3>3. ASSUME NEW i \in DOMAIN q, q[i].type = "reject"
              PROVE  ~InHist(more, q[i].batchId)
            <4>1. ~InHist(hist, q[i].batchId) /\ q[i].batchId[1] = s
                BY <3>1, <3>3 DEF Waiting
            <4>2. q[i].batchId # entry.batchId
                BY <2>1, <3>3, <4>1
            <4>3. QED
                BY <1>4, <4>1, <4>2
        <3>4. QED
            BY <3>1, <3>2, <3>3 DEF Waiting
    <2>2. QED
        BY <2>1
<1>9. Path(more, s, cl, q, rev)
    <2>1. ASSUME NEW i \in 1 .. Len(q)
          PROVE  Leads(more, s, q[i], rev[i - 1], rev[i])
        <3>1. Leads(hist, s, q[i], rev[i - 1], rev[i])
            BY DEF OnCourse, Path
        <3>2. i \in 0 .. Len(q)
            BY <1>2
        <3>3. rev[i] \in Nat /\ rev[i] <= Len(hist)
            BY <1>2, <3>2 DEF n
        <3>4. QED
            BY <3>1, <3>3, LeadsGrows DEF more
    <2>2. rev[Len(q)] <= Len(more)
        <3>1. Len(q) \in 0 .. Len(q)
            BY <1>2
        <3>2. QED
            BY <1>1, <1>2, <3>1, SMTT(60)
    <2>3. QED
        BY <2>1, <2>2 DEF OnCourse, Path
<1>10. Fenced(more, tr, s, cl, q, rev)
    <2>1. ASSUME NEW i \in DOMAIN q, Own(hist, s, rev[i]) = {},
                 q[i].type \in Resets \/ (Patient /\ q[i].type = "catchUp")
          PROVE  Own(more, s, rev[i]) = {}
        <3>1. entry.batchId[1] # s
            BY <2>1
        <3>2. QED
            BY <1>5, <2>1, <3>1
    <2>2. QED
        BY <2>1 DEF OnCourse, Fenced
<1>11. OnCourse(more, tr, s, cl, q, mem, rev)
    BY <1>7, <1>8, <1>9, <1>10 DEF OnCourse
<1>12. QED
    BY <1>11 DEF more
(* On course, and brought to revision b by what is under way.              *)
EndsAt(hist, tr, s, cl, q, mem, b) ==
    \E rev \in [0 .. Len(q) -> Nat] :
        OnCourse(hist, tr, s, cl, q, mem, rev) /\ rev[Len(q)] = b

(* The room may send the session message m after all of q, which take the  *)
(* client to revision a, when m goes on from there.                        *)
MayTell(hist, tr, s, cl, q, m, a, b) ==
    /\ cl.open /\ \A i \in DOMAIN cl.up : cl.up[i].type # "hello"
    /\ a <= b /\ b <= Len(hist) /\ Leads(hist, s, m, a, b)
    /\ m.type \in Resets =>
          /\ Own(hist, s, b) = {}
          /\ \/ a < tr
             \/ q = <<>> /\ ~cl.loaded
             \/ Patient /\ Calm(cl, q)
    /\ m.type \in {"welcome", "catchUp"} => q = <<>>
    /\ m.type = "catchUp" =>
          /\ cl.loaded
          /\ Patient => Own(hist, s, b) = {} /\ cl.up = <<>>
    /\ Patient /\ m.type = "reject" =>
          /\ Calm(cl, q) /\ ~InHist(hist, m.batchId)
          /\ m.batchId[1] = s
    /\ ~cl.loaded /\ q = <<>> => m.type = "welcome"

LEMMA OnCourseTell ==
    ASSUME NEW hist, NEW tr, NEW s \in Session, NEW cl \in Client,
           NEW q \in Seq(ServerMessage), NEW mem,
           NEW rev \in [0 .. Len(q) -> Nat],
           OnCourse(hist, tr, s, cl, q, mem, rev),
           NEW m \in ServerMessage, NEW b \in Nat,
           MayTell(hist, tr, s, cl, q, m, rev[Len(q)], b)
    PROVE  EndsAt(hist, tr, s, cl, Append(q, m), "ready", b)
<1> DEFINE n == Len(q)
           more == Append(q, m)
           rev2 == [i \in 0 .. (n + 1) |-> IF i = n + 1 THEN b ELSE rev[i]]
<1>1. /\ n \in Nat /\ Len(more) = n + 1 /\ DOMAIN more = 1 .. (n + 1)
      /\ DOMAIN q = 1 .. n /\ more[n + 1] = m
      /\ \A i \in 1 .. n : more[i] = q[i]
      /\ q = <<>> <=> n = 0
      /\ more # <<>>
    OBVIOUS
<1>2. /\ \A i \in 0 .. n : rev2[i] = rev[i] /\ rev[i] \in Nat
      /\ rev2[n + 1] = b
    BY <1>1
<1>3. /\ \A i \in 1 .. (n + 1) : i \in 1 .. n \/ i = n + 1
      /\ \A i \in 0 .. (n + 1) : i \in 0 .. n \/ i = n + 1
      /\ \A i \in 1 .. n : i \in 0 .. n /\ i - 1 \in 0 .. n
      /\ (n + 1) - 1 = n /\ n \in 0 .. n /\ 0 \in 0 .. n
    BY <1>1
<1>4. rev2 \in [0 .. (n + 1) -> Nat]
    BY <1>1, <1>2, <1>3
<1> HIDE DEF more, rev2, n
<1> USE DEF MayTell
<1>5. Path(hist, s, cl, more, rev2)
    <2>1. /\ rev[0] = cl.revision /\ rev[n] <= b
          /\ \A i, j \in 0 .. n : i <= j => rev[i] <= rev[j]
          /\ \A i \in 1 .. n : Leads(hist, s, q[i], rev[i - 1], rev[i])
        BY DEF OnCourse, Path, n
    <2>2. \A i \in 0 .. n : rev[i] <= b
        <3>1. ASSUME NEW i \in 0 .. n PROVE rev[i] <= b
            <4>1. i <= n
                BY <1>1
            <4>2. rev[i] <= rev[n] /\ rev[i] \in Nat /\ rev[n] \in Nat
                BY <1>2, <1>3, <2>1, <4>1
            <4>3. QED
                BY <2>1, <4>2
        <3>2. QED
            BY <3>1
    <2>3. ASSUME NEW i \in 0 .. (n + 1), NEW j \in 0 .. (n + 1), i <= j
          PROVE  rev2[i] <= rev2[j]
        <3>1. CASE j = n + 1 /\ i \in 0 .. n
            BY <1>2, <2>2, <3>1
        <3>2. CASE j = n + 1 /\ i = n + 1
            BY <1>2, <3>2
        <3>3. CASE j \in 0 .. n
            <4>1. i \in 0 .. n
                BY <1>1, <2>3, <3>3
            <4>2. QED
                BY <1>2, <2>1, <2>3, <3>3, <4>1
        <3>4. QED
            BY <1>3, <3>1, <3>2, <3>3
    <2>4. ASSUME NEW i \in 1 .. (n + 1)
          PROVE  Leads(hist, s, more[i], rev2[i - 1], rev2[i])
        <3>1. CASE i \in 1 .. n
            BY <1>1, <1>2, <1>3, <2>1, <3>1
        <3>2. CASE i = n + 1
            BY <1>1, <1>2, <1>3, <3>2 DEF n
        <3>3. QED
            BY <1>3, <3>1, <3>2
    <2>5. rev2[0] = cl.revision /\ rev2[n + 1] <= Len(hist)
        BY <1>2, <1>3, <2>1
    <2>6. QED
        BY <1>1, <2>3, <2>4, <2>5 DEF Path
<1>6. m.type = "catchUp" => n = 0
    BY <1>1
<1>7. Fenced(hist, tr, s, cl, more, rev2)
    <2>1. ASSUME NEW i \in DOMAIN more
          PROVE  /\ more[i].type \in Resets =>
                       /\ Own(hist, s, rev2[i]) = {}
                       /\ \/ rev2[i - 1] < tr
                          \/ i = 1 /\ ~cl.loaded
                          \/ Patient /\ Calm(cl, more)
                 /\ Patient /\ more[i].type = "catchUp" =>
                       Own(hist, s, rev2[i]) = {}
        <3>1. CASE i \in 1 .. n
            <4>1. /\ more[i] = q[i] /\ rev2[i] = rev[i]
                  /\ rev2[i - 1] = rev[i - 1] /\ i \in DOMAIN q
                BY <1>1, <1>2, <1>3, <3>1
            <4>2. Calm(cl, q) => Calm(cl, more)
                <5>1. n # 0
                    BY <1>1, <3>1
                <5>2. QED
                    BY <1>1, <1>3, <1>6, <5>1 DEF Calm
            <4>3. QED
                BY <4>1, <4>2 DEF OnCourse, Fenced
        <3>2. CASE i = n + 1
            <4>1. more[i] = m /\ rev2[i] = b /\ rev2[i - 1] = rev[n]
                BY <1>1, <1>2, <1>3, <3>2
            <4>2. m.type \in Resets /\ Calm(cl, q) => Calm(cl, more)
                <5>1. m.type \in Resets => m.type # "catchUp"
                    BY DEF Resets
                <5>2. QED
                    BY <1>1, <1>3, <5>1 DEF Calm
            <4>3. q = <<>> => i = 1
                BY <1>1, <3>2
            <4>4. QED
                BY <4>1, <4>2, <4>3 DEF n
        <3>3. QED
            BY <1>1, <1>3, <3>1, <3>2
    <2>2. QED
        BY <2>1 DEF Fenced
<1>8. Connected(cl, more, "ready")
    <2>1. \A i \in DOMAIN more :
              /\ more[i].type \in {"welcome", "catchUp"} => i = 1
              /\ more[i].type = "catchUp" => cl.loaded
        <3>1. ASSUME NEW i \in DOMAIN more
              PROVE  /\ more[i].type \in {"welcome", "catchUp"} => i = 1
                     /\ more[i].type = "catchUp" => cl.loaded
            <4>1. CASE i \in 1 .. n
                BY <1>1, <4>1 DEF OnCourse, Connected
            <4>2. CASE i = n + 1
                <5>1. more[i] = m
                    BY <1>1, <4>2
                <5>2. m.type \in {"welcome", "catchUp"} => i = 1
                    BY <1>1, <4>2
                <5>3. QED
                    BY <5>1, <5>2
            <4>3. QED
                BY <1>1, <1>3, <4>1, <4>2
        <3>2. QED
            BY <3>1
    <2>2. ~cl.loaded => more[1].type = "welcome"
        <3>1. CASE n = 0
            BY <1>1, <3>1
        <3>2. CASE n # 0
            <4>1. 1 \in 1 .. n /\ q # <<>>
                BY <1>1, <3>2
            <4>2. QED
                BY <1>1, <4>1 DEF OnCourse, Connected
        <3>3. QED
            BY <3>1, <3>2
    <2>3. QED
        BY <1>1, <2>1, <2>2 DEF Connected
<1>9. Patient => Waiting(hist, s, cl, more)
    <2>1. ASSUME Patient PROVE Waiting(hist, s, cl, more)
        <3>1. Waiting(hist, s, cl, q)
            BY <2>1 DEF OnCourse
        <3>2. ASSUME NEW i \in DOMAIN more
              PROVE  /\ more[i].type = "catchUp" => cl.up = <<>>
                     /\ more[i].type = "reject" =>
                           /\ Calm(cl, more) /\ ~InHist(hist, more[i].batchId)
                           /\ more[i].batchId[1] = s
            <4>1. CASE i \in 1 .. n
                <5>1. n # 0 /\ more[i] = q[i] /\ i \in DOMAIN q
                    BY <1>1, <4>1
                <5>2. Calm(cl, q) => Calm(cl, more)
                    BY <1>1, <1>3, <1>6, <5>1 DEF Calm
                <5>3. QED
                    BY <3>1, <5>1, <5>2 DEF Waiting
            <4>2. CASE i = n + 1
                <5>1. more[i] = m
                    BY <1>1, <4>2
                <5>2. m.type = "reject" /\ Calm(cl, q) => Calm(cl, more)
                    BY <1>1, <1>3 DEF Calm
                <5>3. QED
                    BY <2>1, <5>1, <5>2
            <4>3. QED
                BY <1>1, <1>3, <4>1, <4>2
        <3>3. QED
            BY <3>1, <3>2 DEF Waiting
    <2>2. QED
        BY <2>1
<1>10. OnCourse(hist, tr, s, cl, more, "ready", rev2)
    BY <1>5, <1>7, <1>8, <1>9 DEF OnCourse
<1>11. rev2 \in [0 .. Len(more) -> Nat] /\ rev2[Len(more)] = b
    BY <1>1, <1>2, <1>4
<1>12. QED
    BY <1>10, <1>11, Zenon DEF more, EndsAt
-----------------------------------------------------------------------------
(* What a session on course does with the first message from the room      *)
(* (receive in client.ts).                                                 *)
LEMMA SyncedReceived ==
    ASSUME NEW hist \in Seq(CommittedOp), NEW tr \in Nat, NEW s \in Session,
           NEW cl \in Client, NEW q \in Seq(ServerMessage), NEW mem,
           NEW rev \in [0 .. Len(q) -> Nat],
           OnCourse(hist, tr, s, cl, q, mem, rev), q # <<>>,
           MessageTrue(hist, s, q[1]), ClientAhead(hist, s, cl), Once(hist),
           Patient \/ q[1].type # "reject",
           NEW next, next = Received(s, cl, q[1])
    PROVE  /\ Synced(hist, tr, s, next) /\ next.revision = rev[1]
           /\ next.open = cl.open /\ next.loaded
           /\ \A i \in DOMAIN next.up :
                 \/ i \in DOMAIN cl.up /\ next.up[i] = cl.up[i]
                 \/ next.up[i].type = "submit"
           /\ Patient => /\ next.buffer = <<>>
                         /\ q[1].type # "catchUp" => next.up = cl.up
<1> DEFINE m == q[1]
           a == rev[0]
           b == rev[1]
<1>0. /\ 1 \in DOMAIN q /\ 1 \in 1 .. Len(q) /\ m \in ServerMessage
      /\ Len(q) \in Nat /\ 0 \in 0 .. Len(q) /\ 1 \in 0 .. Len(q)
      /\ Len(q) \in 0 .. Len(q)
    OBVIOUS
<1>1. /\ a \in Nat /\ b \in Nat /\ a = cl.revision /\ a <= b
      /\ b <= Len(hist) /\ Leads(hist, s, m, a, b)
    <2>1. /\ rev[0] = cl.revision /\ rev[Len(q)] <= Len(hist)
          /\ rev[0] <= rev[1] /\ rev[1] <= rev[Len(q)]
          /\ Leads(hist, s, q[1], rev[1 - 1], rev[1])
        <3>1. 0 <= 1 /\ 1 <= Len(q)
            BY <1>0
        <3>2. QED
            BY <1>0, <3>1, Zenon DEF OnCourse, Path
    <2>2. rev[0] \in Nat /\ rev[1] \in Nat /\ rev[Len(q)] \in Nat /\ 1 - 1 = 0
        BY <1>0
    <2>3. Len(hist) \in Nat
        OBVIOUS
    <2>4. QED
        BY <2>1, <2>2, <2>3
<1>2. /\ Synced(hist, tr, s, cl) /\ Connected(cl, q, mem)
      /\ Patient => Waiting(hist, s, cl, q)
      /\ Fenced(hist, tr, s, cl, q, rev)
    BY DEF OnCourse
<1>3. m.type # "welcome" => cl.loaded
    BY <1>2 DEF Connected
<1>4. m.type \in Resets =>
          /\ Own(hist, s, b) = {}
          /\ \/ a < tr
             \/ ~cl.loaded
             \/ Patient /\ cl.up = <<>>
    <2>1. 1 - 1 = 0
        OBVIOUS
    <2>2. QED
        BY <1>0, <1>2, <2>1 DEF Fenced, Calm
<1>5. Patient /\ m.type = "reject" =>
          cl.up = <<>> /\ ~InHist(hist, m.batchId)
    BY <1>0, <1>2 DEF Waiting, Calm
<1>6. MessageTrue(hist, s, m) /\ next = Received(s, cl, m)
      /\ (Patient \/ m.type # "reject")
    OBVIOUS
<1> HIDE DEF m, a, b
<1>7. SUFFICES
          /\ Synced(hist, tr, s, next) /\ next.revision = b
          /\ next.open = cl.open /\ next.loaded
          /\ \A i \in DOMAIN next.up :
                \/ i \in DOMAIN cl.up /\ next.up[i] = cl.up[i]
                \/ next.up[i].type = "submit"
          /\ Patient => /\ next.buffer = <<>>
                        /\ m.type # "catchUp" => next.up = cl.up
    BY DEF m, b
<1>8. Patient => cl.buffer = <<>>
    BY <1>2 DEF Waiting
<1>9. CASE m.type \in Resets
    <2>1. /\ m.revision = b /\ m.snapshot = DocumentOf(hist, b)
          /\ next = Reset(cl, b, DocumentOf(hist, b))
        <3>1. m.revision = b /\ m.snapshot = DocumentOf(hist, b)
            BY <1>1, <1>9 DEF Leads
        <3>2. next = Reset(cl, m.revision, m.snapshot)
            BY <1>0, <1>6, <1>9, ReceivedCases DEF Resets
        <3>3. QED
            BY <3>1, <3>2
    <2>2. ASSUME NEW i \in DOMAIN cl.up, cl.up[i].type = "submit"
          PROVE  cl.up[i].base < tr
        <3>1. cl.up[i].base <= a
            BY <1>1, <1>2, <2>2 DEF Synced, Sent
        <3>2. cl.up[i] \in ClientMessage
            BY DEF Client
        <3>3. cl.up[i].base \in Nat
            BY <2>2, <3>2 DEF ClientMessage
        <3>4. cl.loaded
            BY <1>2, <2>2 DEF Synced
        <3>5. cl.up # <<>>
            BY <2>2
        <3>6. a < tr
            BY <1>4, <1>9, <3>4, <3>5
        <3>7. QED
            BY <1>1, <3>1, <3>3, <3>6
    <2>3. Synced(hist, tr, s, next)
        BY <1>1, <1>2, <1>4, <1>9, <2>1, <2>2, SyncedReset
    <2>4. /\ next.revision = b /\ next.open = cl.open /\ next.loaded
          /\ next.up = cl.up /\ next.buffer = <<>>
        BY <2>1 DEF Reset, Client
    <2>5. QED
        BY <2>3, <2>4
<1>10. CASE m.type = "catchUp"
    <2>1. /\ m.missed \in Seq(NumberedOp) /\ next = Welcomed(s, cl, m.missed)
          /\ cl.loaded
        BY <1>0, <1>3, <1>6, <1>10, ReceivedCases, ServerMessageFields
    <2> DEFINE missed == m.missed
    <2>2. \A i \in DOMAIN missed :
              InHistory(hist, missed[i]) /\ missed[i].revision = cl.revision + i
        BY <1>1, <1>6, <1>10 DEF MessageTrue, Leads
    <2>3. b = a + Len(missed)
        BY <1>1, <1>10 DEF Leads
    <2>4. missed \in Seq(NumberedOp) /\ next = Welcomed(s, cl, missed)
        BY <2>1
    <2> HIDE DEF missed
    <2>5. Synced(hist, tr, s, cl)
        BY <1>2
    <2>6. Synced(hist, tr, s, next) /\ CameUp(s, cl, missed, next)
        BY <2>1, <2>2, <2>4, <2>5, SyncedWelcomed, ZenonT(60)
    <2>7. QED
        BY <1>1, <1>8, <1>10, <2>1, <2>3, <2>6 DEF Onward, CameUp
<1>11. CASE m.type = "ack"
    <2> DEFINE id == m.batchId
               k == m.revision
    <2>1. /\ next = Acked(s, cl, id, k) /\ cl.loaded
        BY <1>0, <1>3, <1>6, <1>11, ReceivedCases
    <2>2. /\ id[1] = s /\ k \in DOMAIN hist /\ hist[k].batchId = id
          /\ (k = a + 1 /\ b = a + 1) \/ (k <= a /\ b = a)
        BY <1>1, <1>11 DEF Leads
    <2> HIDE DEF id, k
    <2>3. k \in Nat /\ k <= cl.revision + 1
        BY <1>1, <2>2
    <2>4. /\ Synced(hist, tr, s, next)
          /\ next.revision = IF k = cl.revision + 1 THEN k ELSE cl.revision
        BY <1>2, <2>1, <2>2, <2>3, SyncedAcked, SMTT(60)
    <2>5. next.revision = b
        BY <1>1, <2>2, <2>3, <2>4
    <2>6. Onward(cl, next) /\ Silently(cl, next)
        BY <2>1, <2>3, AckedOnward
    <2>7. QED
        BY <1>8, <2>1, <2>4, <2>5, <2>6 DEF Onward, Silently
<1>12. CASE m.type = "op"
    <2> DEFINE c == m.committed
    <2>1. next = Rebased(cl, c) /\ c \in NumberedOp /\ cl.loaded
        BY <1>0, <1>3, <1>6, <1>12, ReceivedCases, ServerMessageFields
    <2>2. /\ InHistory(hist, c) /\ c.batchId[1] # s
          /\ c.revision = cl.revision + 1 /\ b = c.revision
        BY <1>1, <1>6, <1>12 DEF MessageTrue, Leads
    <2> HIDE DEF c
    <2>3. c.batchId # InflightId(s, cl)
        <3>1. InflightId(s, cl)[1] = s /\ c.batchId[1] # s
            BY <2>2, SMTT(60) DEF InflightId
        <3>2. QED
            BY <3>1, ZenonT(60)
    <2>4. Synced(hist, tr, s, next) /\ next.revision = c.revision
        BY <1>2, <2>1, <2>2, <2>3, SyncedRebased
    <2>5. Onward(cl, next) /\ Silently(cl, next)
        BY <2>1, RebasedOnward
    <2>6. QED
        BY <1>8, <2>1, <2>2, <2>4, <2>5 DEF Onward, Silently
<1>13. CASE m.type = "reject"
    <2>1. /\ next = RolledBack(s, cl, m.batchId) /\ cl.loaded
        BY <1>0, <1>3, <1>6, <1>13, ReceivedCases
    <2>2. cl.up = <<>> /\ ~InHist(hist, m.batchId)
        BY <1>5, <1>6, <1>13
    <2>3. Synced(hist, tr, s, next)
        BY <1>2, <2>1, <2>2, SyncedRolledBack
    <2>4. /\ Onward(cl, next) /\ Silently(cl, next)
          /\ next.revision = cl.revision
        BY <2>1, RolledBackOnward
    <2>5. b = a
        BY <1>1, <1>13 DEF Leads
    <2>6. QED
        BY <1>1, <1>8, <2>1, <2>3, <2>4, <2>5 DEF Onward, Silently
<1>14. QED
    BY <1>0, <1>9, <1>10, <1>11, <1>12, <1>13, ServerMessageFields DEF Resets
(* Afterwards it is on course with one message less under way.             *)
LEMMA OnCourseReceive ==
    ASSUME NEW hist \in Seq(CommittedOp), NEW tr \in Nat, NEW s \in Session,
           NEW cl \in Client, NEW q \in Seq(ServerMessage), NEW mem,
           NEW rev \in [0 .. Len(q) -> Nat],
           OnCourse(hist, tr, s, cl, q, mem, rev), q # <<>>,
           MessageTrue(hist, s, q[1]), ClientAhead(hist, s, cl), Once(hist),
           Patient \/ q[1].type # "reject",
           NEW next, next = Received(s, cl, q[1])
    PROVE  /\ cl.revision <= next.revision
           /\ EndsAt(hist, tr, s, next, Tail(q), mem, rev[Len(q)])
<1> DEFINE n == Len(q)
           rest == Tail(q)
           rev2 == [i \in 0 .. (n - 1) |-> rev[i + 1]]
<1>1. /\ n \in Nat /\ n >= 1 /\ rest \in Seq(ServerMessage)
      /\ Len(rest) = n - 1 /\ DOMAIN rest = 1 .. (n - 1)
      /\ DOMAIN q = 1 .. n
      /\ \A i \in 1 .. (n - 1) : rest[i] = q[i + 1]
    OBVIOUS
<1>2. /\ \A i \in 0 .. (n - 1) : rev2[i] = rev[i + 1] /\ i + 1 \in 0 .. n
      /\ \A i \in 0 .. n : rev[i] \in Nat
    BY <1>1
<1>3. rev2 \in [0 .. (n - 1) -> Nat]
    BY <1>1, <1>2
<1>4. /\ \A i \in 1 .. (n - 1) :
            /\ i + 1 \in 1 .. n /\ i + 1 # 1 /\ i \in 0 .. (n - 1)
            /\ i - 1 \in 0 .. (n - 1) /\ (i - 1) + 1 = i
            /\ (i + 1) - 1 = i
      /\ 0 \in 0 .. (n - 1) /\ 0 + 1 = 1
      /\ n - 1 \in 0 .. (n - 1) /\ (n - 1) + 1 = n
    BY <1>1
<1>5. /\ Synced(hist, tr, s, next) /\ next.revision = rev[1]
      /\ next.open = cl.open /\ next.loaded
      /\ \A i \in DOMAIN next.up :
            \/ i \in DOMAIN cl.up /\ next.up[i] = cl.up[i]
            \/ next.up[i].type = "submit"
      /\ Patient => /\ next.buffer = <<>>
                    /\ q[1].type # "catchUp" => next.up = cl.up
    BY SyncedReceived
<1>6. /\ Connected(cl, q, mem) /\ Path(hist, s, cl, q, rev)
      /\ Patient => Waiting(hist, s, cl, q)
      /\ Fenced(hist, tr, s, cl, q, rev)
    BY DEF OnCourse
<1>7. ClientAhead(hist, s, next)
    <2>1. q[1] \in ServerMessage
        BY <1>1
    <2>2. QED
        BY <2>1, ReceivedAhead
<1> HIDE DEF n, rest, rev2
<1>8. \A i \in 1 .. (n - 1) :
          /\ rest[i] = q[i + 1] /\ i + 1 \in DOMAIN q
          /\ rest[i].type \notin {"welcome", "catchUp"}
    BY <1>1, <1>4, <1>6 DEF Connected
<1>9. Connected(next, rest, mem)
    <2>1. next.open
        BY <1>5, <1>6 DEF Connected
    <2>2. \A i \in DOMAIN next.up : next.up[i].type # "hello"
        BY <1>5, <1>6 DEF Connected
    <2>3. QED
        BY <1>1, <1>5, <1>8, <2>1, <2>2 DEF Connected
<1>10. Path(hist, s, next, rest, rev2)
    <2>1. rev2[0] = next.revision /\ rev2[n - 1] <= Len(hist)
        BY <1>2, <1>4, <1>5, <1>6 DEF Path, n
    <2>2. ASSUME NEW i \in 0 .. (n - 1), NEW j \in 0 .. (n - 1), i <= j
          PROVE  rev2[i] <= rev2[j]
        <3>1. i + 1 \in 0 .. n /\ j + 1 \in 0 .. n /\ i + 1 <= j + 1
            BY <1>2, <2>2
        <3>2. rev[i + 1] <= rev[j + 1]
            BY <1>6, <3>1, Zenon DEF Path, n
        <3>3. QED
            BY <1>2, <3>2
    <2>3. ASSUME NEW i \in 1 .. (n - 1)
          PROVE  Leads(hist, s, rest[i], rev2[i - 1], rev2[i])
        <3>1. Leads(hist, s, q[i + 1], rev[(i + 1) - 1], rev[i + 1])
            BY <1>4, <1>6, Zenon DEF Path, n
        <3>2. /\ rest[i] = q[i + 1] /\ rev2[i] = rev[i + 1]
              /\ rev2[i - 1] = rev[(i - 1) + 1]
            BY <1>1, <1>2, <1>4, Zenon
        <3>3. QED
            BY <1>4, <3>1, <3>2, Zenon
    <2>4. QED
        BY <1>1, <2>1, <2>2, <2>3 DEF Path
<1>11. /\ Patient /\ Calm(cl, q) => Calm(next, rest)
    <2>1. ASSUME Patient, Calm(cl, q) PROVE Calm(next, rest)
        <3>1. 1 \in DOMAIN q
            BY <1>1
        <3>2. cl.up = <<>> /\ q[1].type # "catchUp"
            BY <2>1, <3>1 DEF Calm
        <3>3. next.up = <<>>
            BY <1>5, <2>1, <3>2
        <3>4. QED
            BY <1>1, <1>8, <3>3 DEF Calm
    <2>2. QED
        BY <2>1
<1>12. Fenced(hist, tr, s, next, rest, rev2)
    <2>1. ASSUME NEW i \in 1 .. (n - 1), rest[i].type \in Resets
          PROVE  /\ Own(hist, s, rev2[i]) = {}
                 /\ \/ rev2[i - 1] < tr
                    \/ Patient /\ Calm(next, rest)
        <3>1. /\ Own(hist, s, rev[i + 1]) = {}
              /\ \/ rev[(i + 1) - 1] < tr
                 \/ i + 1 = 1 /\ ~cl.loaded
                 \/ Patient /\ Calm(cl, q)
            BY <1>6, <1>8, <2>1 DEF Fenced
        <3>2. rev2[i] = rev[i + 1] /\ rev2[i - 1] = rev[(i - 1) + 1]
            BY <1>2, <1>4, Zenon
        <3>3. (i - 1) + 1 = i /\ (i + 1) - 1 = i /\ i + 1 # 1
            BY <1>4
        <3>4. QED
            BY <1>11, <3>1, <3>2, <3>3
    <2>2. QED
        BY <1>1, <1>8, <2>1 DEF Fenced
<1>13. Patient => Waiting(hist, s, next, rest)
    <2>1. SUFFICES ASSUME Patient PROVE Waiting(hist, s, next, rest)
        OBVIOUS
    <2>2. Waiting(hist, s, cl, q)
        BY <1>6, <2>1
    <2>3. ASSUME NEW i \in 1 .. (n - 1), rest[i].type = "reject"
          PROVE  /\ Calm(next, rest) /\ ~InHist(hist, rest[i].batchId)
                 /\ rest[i].batchId[1] = s
        BY <1>8, <1>11, <2>1, <2>2, <2>3 DEF Waiting
    <2>4. /\ Len(next.up) <= 1
          /\ \A i \in DOMAIN next.up : next.up[i].type = "submit" =>
                ~InHist(hist, next.up[i].batchId)
        <3>1. CASE q[1].type # "catchUp"
            BY <1>5, <2>1, <2>2, <3>1 DEF Waiting
        <3>2. CASE q[1].type = "catchUp"
            <4>0. 1 \in DOMAIN q /\ q[1] \in ServerMessage
                BY <1>1
            <4> DEFINE missed == q[1].missed
            <4>1. cl.up = <<>> /\ Own(hist, s, rev[1]) = {} /\ cl.loaded
                BY <1>6, <2>1, <2>2, <3>2, <4>0 DEF Waiting, Fenced, Connected
            <4>2. missed \in Seq(NumberedOp) /\ next = Welcomed(s, cl, missed)
                BY <3>2, <4>0, ReceivedCases, ServerMessageFields
            <4>3. \A i \in DOMAIN missed :
                      /\ InHistory(hist, missed[i])
                      /\ missed[i].revision = cl.revision + i
                <5>1. Leads(hist, s, q[1], rev[1 - 1], rev[1])
                    BY <1>1, <1>6 DEF Path, n
                <5>2. rev[1 - 1] = cl.revision
                    BY <1>6 DEF Path
                <5>3. QED
                    BY <3>2, <5>1, <5>2 DEF Leads, MessageTrue
            <4> HIDE DEF missed
            <4>4. Synced(hist, tr, s, cl)
                BY DEF OnCourse
            <4>5. CameUp(s, cl, missed, next)
                BY <4>1, <4>2, <4>3, <4>4, SyncedWelcomed, ZenonT(60)
            <4>6. CASE next.up = <<>>
                BY <4>6
            <4>7. CASE next.up # <<>>
                <5>1. PICK m : /\ next.up = Append(cl.up, m)
                               /\ m.type = "submit" /\ next.inflight # <<>>
                               /\ m.batchId = InflightId(s, next)
                    BY <2>2, <4>1, <4>5, <4>7 DEF CameUp, Waiting
                <5>2. /\ Len(next.up) = 1 /\ DOMAIN next.up = {1}
                      /\ next.up[1] = m
                    BY <4>1, <5>1
                <5>3. ~InHist(hist, m.batchId)
                    <6>1. ASSUME NEW k \in DOMAIN hist,
                                 hist[k].batchId = m.batchId
                          PROVE  FALSE
                        <7>1. next.revision < k
                            BY <1>7, <5>1, <6>1 DEF ClientAhead
                        <7>2. hist[k].batchId[1] = s
                            BY <5>1, <6>1 DEF InflightId
                        <7>3. k \in Own(hist, s, rev[1])
                            BY <1>5, <7>1, <7>2 DEF Own
                        <7>4. QED
                            BY <4>1, <7>3
                    <6>2. QED
                        BY <6>1 DEF InHist
                <5>4. QED
                    BY <5>2, <5>3
            <4>8. QED
                BY <4>6, <4>7
        <3>3. QED
            BY <3>1, <3>2
    <2>5. QED
        BY <1>1, <1>5, <1>8, <2>1, <2>3, <2>4 DEF Waiting
<1>14. OnCourse(hist, tr, s, next, rest, mem, rev2)
    BY <1>5, <1>9, <1>10, <1>12, <1>13 DEF OnCourse
<1>15. rev2 \in [0 .. Len(rest) -> Nat] /\ rev2[Len(rest)] = rev[n]
    BY <1>1, <1>2, <1>3, <1>4
<1>16. cl.revision <= next.revision
    <2>1. 0 \in 0 .. n /\ 1 \in 0 .. n /\ 0 <= 1
        BY <1>1
    <2>2. rev[0] <= rev[1] /\ rev[0] = cl.revision
        BY <1>6, <2>1, Zenon DEF Path, n
    <2>3. QED
        BY <1>5, <2>2
<1>17. QED
    BY <1>14, <1>15, <1>16, Zenon DEF rest, n, EndsAt
-----------------------------------------------------------------------------
(* What a session does by itself. *)

(* Its socket opens or is gone (open, close).                              *)
Dialled(cl, next, mem2) ==
    \/ mem2 = "none" /\ next = [cl EXCEPT !.open = FALSE, !.up = <<>>]
    \/ /\ mem2 = "joined"
       /\ next = [cl EXCEPT !.open = TRUE,
                     !.up = <<Hello(IF cl.loaded THEN cl.revision ELSE Fresh)>>]

LEMMA OnCourseAlone ==
    ASSUME NEW hist, NEW tr, NEW s \in Session, NEW cl \in Client,
           NEW q, NEW mem, NEW mem2, NEW next,
           InSync(hist, tr, s, cl, q, mem), Dialled(cl, next, mem2)
    PROVE  InSync(hist, tr, s, next, <<>>, mem2)
<1> DEFINE since == IF cl.loaded THEN cl.revision ELSE Fresh
           rev == [i \in 0 .. 0 |-> cl.revision]
<1>0. PICK open, up :
          /\ next = [cl EXCEPT !.open = open, !.up = up]
          /\ \/ open = FALSE /\ up = <<>> /\ mem2 = "none"
             \/ open = TRUE /\ mem2 = "joined" /\ up = <<Hello(since)>>
    BY DEF Dialled
<1>1. /\ Synced(hist, tr, s, cl)
      /\ Patient => Waiting(hist, s, cl, q)
    BY DEF InSync, OnCourse
<1>2. /\ next.open = open /\ next.loaded = cl.loaded
      /\ next.doc = cl.doc /\ next.revision = cl.revision
      /\ next.inflight = cl.inflight /\ next.buffer = cl.buffer
      /\ next.batches = cl.batches /\ next.up = up
    BY <1>0 DEF Client
<1>3. /\ up = <<>> \/ up = <<Hello(since)>>
      /\ Hello(since).type = "hello" /\ Hello(since).since = since
    BY <1>0 DEF Hello
<1> DEFINE m == Hello(since)
<1> HIDE DEF m
<1>4. \A i \in DOMAIN up : /\ i = 1 /\ up[i].type = "hello"
                           /\ up[i].since = since
    <2>1. CASE up = <<>>
        BY <2>1
    <2>2. CASE up = <<m>>
        BY <1>3, <2>2 DEF m
    <2>3. QED
        BY <1>3, <2>1, <2>2 DEF m
<1>5. Len(up) <= 1
    <2>1. CASE up = <<>>
        BY <2>1
    <2>2. CASE up = <<m>>
        BY <2>2
    <2>3. QED
        BY <1>3, <2>1, <2>2 DEF m
<1>6. Synced(hist, tr, s, next)
    <2>1. Pending(next) = Pending(cl) /\ InflightId(s, next) = InflightId(s, cl)
        BY <1>2 DEF Pending, InflightId
    <2>2. OwnAhead(hist, s, next)
        BY <1>1, <1>2, <2>1 DEF Synced, OwnAhead
    <2>3. \A i \in DOMAIN next.up : Sent(hist, tr, s, next, next.up[i])
        BY <1>2, <1>4 DEF Sent
    <2>4. QED
        BY <1>1, <1>2, <1>4, <2>1, <2>2, <2>3 DEF Synced
<1>7. Connected(next, <<>>, mem2)
    <2>1. mem2 # "ready" /\ (~open => mem2 = "none" /\ up = <<>>)
        BY <1>0
    <2>2. DOMAIN <<>> = {}
        OBVIOUS
    <2>3. QED
        BY <1>2, <1>4, <2>1, <2>2 DEF Connected
<1>8. Patient => Waiting(hist, s, next, <<>>)
    <2>1. DOMAIN <<>> = {}
        OBVIOUS
    <2>2. QED
        BY <1>1, <1>2, <1>4, <1>5, <2>1 DEF Waiting
<1>9. /\ Len(<<>>) = 0 /\ DOMAIN <<>> = {} /\ cl.revision \in Nat
      /\ rev[0] = cl.revision
    BY DEF Client
<1>10. rev \in [0 .. Len(<<>>) -> Nat]
    BY <1>9
<1> HIDE DEF rev
<1>11. Path(hist, s, next, <<>>, rev)
    <2>1. \A i, j \in 0 .. 0 : i <= j => rev[i] <= rev[j]
        BY <1>9
    <2>2. cl.revision <= Len(hist)
        BY <1>1 DEF Synced
    <2>3. 1 .. 0 = {}
        OBVIOUS
    <2>4. QED
        BY <1>2, <1>9, <2>1, <2>2, <2>3 DEF Path
<1>12. Fenced(hist, tr, s, next, <<>>, rev)
    BY <1>9 DEF Fenced
<1>13. OnCourse(hist, tr, s, next, <<>>, mem2, rev)
    BY <1>6, <1>7, <1>8, <1>11, <1>12 DEF OnCourse
<1>14. mem2 # "ready"
    BY <1>0
<1>15. QED
    BY <1>10, <1>13, <1>14 DEF InSync

(* Its user makes an edit: the batch made of it is sent when the client    *)
(* is connected and nothing is in flight (apply).                          *)
Edited(s, cl, next) ==
    /\ next.open = cl.open /\ next.loaded = cl.loaded
    /\ next.revision = cl.revision
    /\ \/ next.up = cl.up
       \/ cl.open /\ \E id, x :
             next.up = Append(cl.up, Submit(id, cl.revision, x))
    /\ Pending(cl) = <<>> =>
          /\ next.buffer = <<>>
          /\ \/ next.up = cl.up
             \/ \E x : next.up = Append(cl.up,
                   Submit(<<s, cl.batches + 1>>, cl.revision, x))

LEMMA AppliedFields ==
    ASSUME NEW s \in Session, NEW cl \in Client, NEW op \in Op, NEW next,
           next = Applied(s, cl, op)
    PROVE  Edited(s, cl, next)
<1> DEFINE buffer == IF cl.buffer = <<>> THEN <<op>>
                     ELSE <<Then(cl.buffer[1], op)>>
           doc == Undone(cl) \o cl.inflight \o buffer
           mid == [cl EXCEPT !.doc = doc, !.buffer = buffer]
           new == [mid EXCEPT !.batches = @ + 1, !.inflight = mid.buffer,
                              !.buffer = <<>>]
           m == Submit(InflightId(s, new), new.revision, new.inflight[1])
<1>1. next = Flush(s, mid) /\ buffer # <<>>
    BY DEF Applied
<1> HIDE DEF buffer, doc
<1>2. /\ mid.open = cl.open /\ mid.loaded = cl.loaded
      /\ mid.revision = cl.revision /\ mid.up = cl.up
      /\ mid.inflight = cl.inflight /\ mid.buffer = buffer
    BY DEF Client
<1>3. /\ new.open = cl.open /\ new.loaded = cl.loaded
      /\ new.revision = cl.revision /\ new.up = cl.up
      /\ new.buffer = <<>> /\ new.batches = cl.batches + 1
    BY DEF Client
<1>4. \/ cl.inflight # <<>> /\ next = mid
      \/ /\ cl.inflight = <<>>
         /\ next = Send(new, m)
    BY <1>1, <1>2 DEF Flush, SendInflight
<1>5. m = Submit(<<s, cl.batches + 1>>, cl.revision, new.inflight[1])
    BY <1>3 DEF InflightId
<1>6. Send(new, m) = IF cl.open THEN [new EXCEPT !.up = Append(@, m)] ELSE new
    BY <1>3 DEF Send
<1>7. LET sent == [new EXCEPT !.up = Append(@, m)]
      IN  /\ sent.open = cl.open /\ sent.loaded = cl.loaded
          /\ sent.revision = cl.revision /\ sent.buffer = <<>>
          /\ sent.up = Append(cl.up, m)
    BY <1>3 DEF Client
<1>8. Pending(cl) = <<>> => cl.inflight = <<>>
    <2>1. cl.inflight \in NoneOrOne(Op) /\ cl.buffer \in NoneOrOne(Op)
        BY DEF Client
    <2>2. QED
        BY <2>1, NoneOrOneFacts DEF Pending, Document
<1> HIDE DEF mid, new
<1>9. CASE cl.inflight # <<>> /\ next = mid
    BY <1>2, <1>8, <1>9 DEF Edited
<1>10. CASE cl.inflight = <<>> /\ next = Send(new, m)
    <2>1. CASE ~cl.open
        <3>1. next = new
            BY <1>6, <1>10, <2>1
        <3>2. QED
            BY <1>3, <3>1 DEF Edited
    <2>2. CASE cl.open
        <3> DEFINE x == new.inflight[1]
        <3>1. m = Submit(<<s, cl.batches + 1>>, cl.revision, x)
            BY <1>5
        <3> HIDE DEF m, x
        <3>2. /\ next.open = cl.open /\ next.loaded = cl.loaded
              /\ next.revision = cl.revision /\ next.buffer = <<>>
              /\ next.up = Append(cl.up, m)
            BY <1>6, <1>7, <1>10, <2>2
        <3>3. next.up = Append(cl.up,
                          Submit(<<s, cl.batches + 1>>, cl.revision, x))
            BY <3>1, <3>2
        <3>4. QED
            BY <2>2, <3>2, <3>3, Zenon DEF Edited
    <2>3. QED
        BY <2>1, <2>2
<1>11. QED
    BY <1>4, <1>9, <1>10
LEMMA OnCourseApplied ==
    ASSUME NEW hist \in Seq(CommittedOp), NEW tr, NEW s \in Session,
           NEW cl \in Client, NEW q \in Seq(ServerMessage), NEW mem,
           NEW rev, OnCourse(hist, tr, s, cl, q, mem, rev),
           cl.loaded, NEW op \in Op, ClientAhead(hist, s, cl),
           Patient => /\ Pending(cl) = <<>> /\ cl.up = <<>>
                      /\ \A i \in DOMAIN q : q[i].type = "op",
           NEW next, next = Applied(s, cl, op)
    PROVE  OnCourse(hist, tr, s, next, q, mem, rev)
<1>1. /\ Synced(hist, tr, s, cl) /\ Connected(cl, q, mem)
      /\ Path(hist, s, cl, q, rev) /\ Fenced(hist, tr, s, cl, q, rev)
    BY DEF OnCourse
<1>2. Synced(hist, tr, s, next)
    BY <1>1, SyncedApplied
<1>3. /\ next.open = cl.open /\ next.loaded = cl.loaded
      /\ next.revision = cl.revision
      /\ \/ next.up = cl.up
         \/ cl.open /\ \E id, x :
               next.up = Append(cl.up, Submit(id, cl.revision, x))
      /\ Pending(cl) = <<>> =>
            /\ next.buffer = <<>>
            /\ \/ next.up = cl.up
               \/ \E x : next.up = Append(cl.up,
                     Submit(<<s, cl.batches + 1>>, cl.revision, x))
    <2>1. Edited(s, cl, next)
        BY AppliedFields
    <2>2. QED
        BY <2>1 DEF Edited
<1>4. cl.up \in Seq(ClientMessage) /\ cl.batches \in Nat
    BY DEF Client
<1>5. ASSUME NEW i \in DOMAIN next.up, next.up[i].type = "hello"
      PROVE  i \in DOMAIN cl.up /\ next.up[i] = cl.up[i]
    <2>1. CASE next.up = cl.up
        BY <2>1
    <2>2. CASE next.up # cl.up
        <3>1. PICK id, x : next.up = Append(cl.up, Submit(id, cl.revision, x))
            BY <1>3, <2>2
        <3> DEFINE m == Submit(id, cl.revision, x)
        <3>2. m.type # "hello"
            BY DEF Submit
        <3> HIDE DEF m
        <3>3. next.up = Append(cl.up, m)
            BY <3>1 DEF m
        <3>4. QED
            BY <1>4, <1>5, <3>2, <3>3
    <2>3. QED
        BY <2>1, <2>2
<1>6. Connected(next, q, mem)
    <2>1. ~next.open => q = <<>> /\ next.up = <<>> /\ mem = "none"
        BY <1>1, <1>3 DEF Connected
    <2>2. \A i \in DOMAIN next.up : next.up[i].type = "hello" =>
              /\ i = 1 /\ q = <<>> /\ mem # "ready"
              /\ next.up[i].since
                    = IF next.loaded THEN next.revision ELSE Fresh
        BY <1>1, <1>3, <1>5 DEF Connected
    <2>3. QED
        BY <1>1, <1>3, <2>1, <2>2 DEF Connected
<1>7. Path(hist, s, next, q, rev)
    BY <1>1, <1>3 DEF Path
<1>8. Fenced(hist, tr, s, next, q, rev)
    <2>1. CASE Patient
        BY <2>1 DEF Fenced, Resets
    <2>2. CASE ~Patient
        BY <1>1, <1>3, <2>2 DEF Fenced
    <2>3. QED
        BY <2>1, <2>2
<1>9. Patient => Waiting(hist, s, next, q)
    <2>1. SUFFICES ASSUME Patient PROVE Waiting(hist, s, next, q)
        OBVIOUS
    <2>2. /\ Len(next.up) <= 1
          /\ \A i \in DOMAIN next.up : next.up[i].type = "submit" =>
                ~InHist(hist, next.up[i].batchId)
        <3>1. CASE next.up = cl.up
            <4>1. next.up = <<>>
                BY <2>1, <3>1
            <4>2. QED
                BY <4>1
        <3>2. CASE next.up # cl.up
            <4> DEFINE id == <<s, cl.batches + 1>>
            <4>1. PICK x : next.up = Append(cl.up, Submit(id, cl.revision, x))
                BY <1>3, <2>1, <3>2
            <4> DEFINE m == Submit(id, cl.revision, x)
            <4>2. m.batchId = id /\ id[1] = s /\ id[2] = cl.batches + 1
                BY DEF Submit
            <4>3. next.up = Append(<<>>, m)
                BY <2>1, <4>1
            <4> HIDE DEF m, id
            <4>4. ~InHist(hist, id)
                BY <1>4, <4>2 DEF InHist, ClientAhead, CommittedOp, BatchId
            <4>5. Len(next.up) = 1 /\ DOMAIN next.up = {1} /\ next.up[1] = m
                BY <4>3
            <4>6. QED
                BY <4>2, <4>4, <4>5
        <3>3. QED
            BY <3>1, <3>2
    <2>3. next.buffer = <<>>
        BY <1>3, <2>1
    <2>4. QED
        BY <2>1, <2>2, <2>3 DEF Waiting
<1>10. QED
    BY <1>2, <1>6, <1>7, <1>8, <1>9 DEF OnCourse

-----------------------------------------------------------------------------
(* What happens to the session of someone else. *)

(* The log is cut, or the room stops hearing the connection.               *)
LEMMA InSyncTrimmed ==
    ASSUME NEW hist, NEW tr \in Nat, NEW tr2 \in Nat, tr <= tr2,
           NEW s \in Session, NEW cl \in Client,
           NEW q \in Seq(ServerMessage), NEW mem, NEW mem2,
           mem2 \in {mem, "none"},
           InSync(hist, tr, s, cl, q, mem)
    PROVE  InSync(hist, tr2, s, cl, q, mem2)
<1>1. PICK rev \in [0 .. Len(q) -> Nat] :
          /\ OnCourse(hist, tr, s, cl, q, mem, rev)
          /\ mem = "ready" => rev[Len(q)] = Len(hist)
    BY DEF InSync
<1>2. OnCourse(hist, tr2, s, cl, q, mem, rev)
    <2>1. Len(q) \in Nat /\ DOMAIN q = 1 .. Len(q)
        OBVIOUS
    <2>2. QED
        BY <1>1, <2>1, OnCourseTrim
<1>3. OnCourse(hist, tr2, s, cl, q, mem2, rev)
    BY <1>2, OnCourseUnheard
<1>4. mem2 = "ready" => rev[Len(q)] = Len(hist)
    BY <1>1
<1>5. QED
    BY <1>3, <1>4 DEF InSync

(* The room commits something and tells those it hears.                    *)
LEMMA InSyncNews ==
    ASSUME NEW hist \in Seq(CommittedOp), NEW entry \in CommittedOp,
           NEW tr \in Nat, NEW tr2 \in Nat, tr <= tr2,
           NEW s \in Session, NEW cl \in Client,
           NEW q \in Seq(ServerMessage), NEW mem,
           InSync(hist, tr, s, cl, q, mem), ClientAhead(hist, s, cl),
           entry.batchId[1] # s, NEW m \in ServerMessage,
           \/ m.type = "op" /\ m.committed.revision = Len(hist) + 1
           \/ /\ m.type = "restored" /\ m.revision = Len(hist) + 1
              /\ m.snapshot = DocumentOf(Append(hist, entry), Len(hist) + 1)
              /\ tr2 = Len(hist) + 1,
           NEW q2, q2 = IF mem = "ready" THEN Append(q, m) ELSE q
    PROVE  InSync(Append(hist, entry), tr2, s, cl, q2, mem)
<1> DEFINE more == Append(hist, entry)
           b == Len(hist) + 1
<1>1. PICK rev \in [0 .. Len(q) -> Nat] :
          /\ OnCourse(hist, tr, s, cl, q, mem, rev)
          /\ mem = "ready" => rev[Len(q)] = Len(hist)
    BY DEF InSync
<1>2. /\ Len(q) \in Nat /\ DOMAIN q = 1 .. Len(q) /\ Len(hist) \in Nat
      /\ b \in Nat /\ Len(more) = b /\ DOMAIN more = 1 .. b
    BY AppendFacts
<1>3. Patient => \A i \in DOMAIN cl.up :
          cl.up[i].type = "submit" => cl.up[i].batchId # entry.batchId
    BY DEF ClientAhead, SubmitAhead
<1>4. OnCourse(more, tr, s, cl, q, mem, rev)
    BY <1>1, <1>3, OnCourseGrow
<1> HIDE DEF more, b
<1>5. OnCourse(more, tr2, s, cl, q, mem, rev)
    BY <1>2, <1>4, OnCourseTrim
<1>6. CASE mem # "ready"
    BY <1>5, <1>6 DEF InSync, more
<1>7. CASE mem = "ready"
    <2>1. rev[Len(q)] = Len(hist) /\ q2 = Append(q, m)
        BY <1>1, <1>7
    <2>2. /\ cl.open /\ \A i \in DOMAIN cl.up : cl.up[i].type # "hello"
          /\ ~(~cl.loaded /\ q = <<>>)
        BY <1>5, <1>7 DEF OnCourse, Connected
    <2>3. /\ rev[Len(q)] <= b /\ b <= Len(more)
          /\ m.type \notin {"welcome", "catchUp", "reject"}
        BY <1>2, <2>1 DEF b
    <2>4. m.type \in Resets => Own(more, s, b) = {} /\ rev[Len(q)] < tr2
        <3>1. \A k \in DOMAIN more : ~(b < k)
            BY <1>2
        <3>2. Own(more, s, b) = {}
            BY <3>1 DEF Own
        <3>3. m.type \in Resets => tr2 = Len(hist) + 1
            BY DEF Resets
        <3>4. QED
            BY <1>2, <2>1, <3>2, <3>3
    <2>5. Leads(more, s, m, rev[Len(q)], b)
        BY <1>2, <2>1 DEF Leads, Resets, b, more
    <2>6. EndsAt(more, tr2, s, cl, Append(q, m), "ready", b)
        <3>1. MayTell(more, tr2, s, cl, q, m, rev[Len(q)], b)
            BY <2>2, <2>3, <2>4, <2>5 DEF MayTell
        <3>2. QED
            BY <1>2, <1>5, <3>1, OnCourseTell
    <2>7. InSync(more, tr2, s, cl, Append(q, m), "ready")
        BY <1>2, <2>6 DEF InSync, EndsAt
    <2>8. QED
        BY <1>7, <2>1, <2>7 DEF more
<1>8. QED
    BY <1>6, <1>7
-----------------------------------------------------------------------------
(* What the room does with the next message of a session. *)

LEMMA TailOfOne ==
    ASSUME NEW up \in Seq(ClientMessage), up # <<>>, Len(up) <= 1
    PROVE  Tail(up) = <<>>
<1> DEFINE rest == Tail(up)
           n == Len(up)
           k == Len(rest)
<1>1. n \in Nat /\ n >= 1 /\ n <= 1 /\ k = n - 1 /\ rest \in Seq(ClientMessage)
    OBVIOUS
<1> HIDE DEF n, k
<1>2. k = 0
    BY <1>1
<1> HIDE DEF rest
<1>3. QED
    BY <1>1, <1>2 DEF k, rest

(* The room takes batch m of a session it hears, which leaves its client   *)
(* `next` with the rest.                                                   *)
Taken(hist, tr, s, cl, q, rev, m, next) ==
    /\ OnCourse(hist, tr, s, next, q, "ready", rev)
    /\ next \in Client /\ next.open /\ next.loaded
    /\ next.inflight = cl.inflight /\ next.revision = cl.revision
    /\ InflightId(s, next) = InflightId(s, cl)
    /\ \A i \in DOMAIN next.up : next.up[i].type # "hello"
    /\ m \in ClientMessage /\ m.batchId \in BatchId
    /\ m.base \in Nat /\ m.op \in Op
    /\ Sent(hist, tr, s, cl, m) /\ SubmitAhead(hist, s, cl, m)
    /\ Patient => /\ next.up = <<>> /\ Calm(next, q)
                  /\ ~InHist(hist, m.batchId)
                  /\ \A i \in DOMAIN q : q[i].type # "reject"

LEMMA SubmitTaken ==
    ASSUME NEW hist \in Seq(CommittedOp), NEW tr \in Nat, NEW s \in Session,
           NEW cl \in Client, NEW q \in Seq(ServerMessage),
           NEW rev \in [0 .. Len(q) -> Nat],
           OnCourse(hist, tr, s, cl, q, "ready", rev),
           ClientAhead(hist, s, cl), cl.up # <<>>,
           NEW m, m = Head(cl.up), m.type = "submit",
           NEW next, next = [cl EXCEPT !.up = Tail(@)]
    PROVE  Taken(hist, tr, s, cl, q, rev, m, next)
<1>1. /\ cl.up \in Seq(ClientMessage) /\ 1 \in DOMAIN cl.up /\ m = cl.up[1]
      /\ Tail(cl.up) \in Seq(ClientMessage)
      /\ Len(cl.up) \in Nat /\ Len(cl.up) >= 1
      /\ Len(Tail(cl.up)) = Len(cl.up) - 1
      /\ \A i \in DOMAIN Tail(cl.up) :
            i + 1 \in DOMAIN cl.up /\ Tail(cl.up)[i] = cl.up[i + 1]
    <2>1. cl.up \in Seq(ClientMessage)
        BY DEF Client
    <2>2. QED
        BY <2>1
<1>2. m \in ClientMessage
    BY <1>1
<1>3. m.batchId \in BatchId /\ m.base \in Nat /\ m.op \in Op
    BY <1>2 DEF ClientMessage
<1>4. /\ next \in Client /\ next.open = cl.open /\ next.loaded = cl.loaded
      /\ next.inflight = cl.inflight /\ next.revision = cl.revision
      /\ next.batches = cl.batches /\ next.up = Tail(cl.up)
    BY <1>1 DEF Client
<1>5. OnCourse(hist, tr, s, next, q, "ready", rev)
    BY OnCourseTail
<1>6. /\ Synced(hist, tr, s, cl) /\ Connected(cl, q, "ready")
      /\ Patient => Waiting(hist, s, cl, q)
    BY DEF OnCourse
<1>7. cl.loaded /\ Sent(hist, tr, s, cl, m)
    BY <1>1, <1>6 DEF Synced
<1>8. SubmitAhead(hist, s, cl, m)
    BY <1>1 DEF ClientAhead
<1>9. /\ cl.open /\ \A i \in DOMAIN cl.up : cl.up[i].type # "hello"
    BY <1>6 DEF Connected
<1>10. \A i \in DOMAIN next.up : next.up[i].type # "hello"
    BY <1>1, <1>4, <1>9
<1>11. InflightId(s, next) = InflightId(s, cl)
    BY <1>4 DEF InflightId
<1>12. ASSUME Patient
       PROVE  /\ next.up = <<>> /\ Calm(next, q)
              /\ ~InHist(hist, m.batchId)
              /\ \A i \in DOMAIN q : q[i].type # "reject"
    <2>1. Waiting(hist, s, cl, q)
        BY <1>6, <1>12
    <2>2. Len(cl.up) <= 1
        BY <2>1 DEF Waiting
    <2>3. next.up = <<>>
        BY <1>1, <1>4, <2>2, TailOfOne
    <2>4. \A i \in DOMAIN q : q[i].type # "catchUp" /\ q[i].type # "reject"
        BY <2>1 DEF Waiting, Calm
    <2>5. ~InHist(hist, m.batchId)
        BY <1>1, <2>1 DEF Waiting
    <2>6. QED
        BY <2>3, <2>4, <2>5 DEF Calm
<1>13. QED
    BY <1>2, <1>3, <1>4, <1>5, <1>7, <1>8, <1>9, <1>10, <1>11, <1>12
       DEF Taken

(* It has committed the batch before, and acks it again.                   *)
LEMMA InSyncAckAgain ==
    ASSUME NEW hist \in Seq(CommittedOp), NEW tr \in Nat, NEW s \in Session,
           NEW cl \in Client, NEW q \in Seq(ServerMessage),
           InSync(hist, tr, s, cl, q, "ready"),
           ClientAhead(hist, s, cl), cl.up # <<>>,
           NEW m, m = Head(cl.up), m.type = "submit",
           NEW k \in DOMAIN hist, hist[k].batchId = m.batchId,
           NEW next, next = [cl EXCEPT !.up = Tail(@)]
    PROVE  InSync(hist, tr, s, next, Append(q, Ack(m.batchId, k)), "ready")
<1> DEFINE ack == Ack(m.batchId, k)
           b == Len(hist)
<1>1. PICK rev \in [0 .. Len(q) -> Nat] :
          OnCourse(hist, tr, s, cl, q, "ready", rev) /\ rev[Len(q)] = b
    BY DEF InSync
<1>2. /\ OnCourse(hist, tr, s, next, q, "ready", rev)
      /\ next \in Client /\ next.open /\ next.loaded
      /\ \A i \in DOMAIN next.up : next.up[i].type # "hello"
      /\ m.batchId \in BatchId /\ SubmitAhead(hist, s, cl, m)
    <2>1. Taken(hist, tr, s, cl, q, rev, m, next)
        BY <1>1, SubmitTaken
    <2>2. QED
        BY <2>1 DEF Taken
<1>3. k \in Nat /\ k <= b /\ b \in Nat
    OBVIOUS
<1>4. /\ ack \in ServerMessage /\ ack.type = "ack"
      /\ ack.batchId = m.batchId /\ ack.revision = k
    BY <1>2, <1>3, MessageTypes DEF Ack
<1>5. m.batchId[1] = s
    BY <1>2 DEF SubmitAhead
<1> HIDE DEF ack, b
<1>6. Leads(hist, s, ack, rev[Len(q)], b)
    BY <1>1, <1>3, <1>4, <1>5 DEF Leads, Resets
<1>7. /\ rev[Len(q)] <= b /\ b <= Len(hist)
      /\ ack.type \notin Resets
      /\ ack.type \notin {"welcome", "catchUp", "reject"}
    BY <1>1, <1>3, <1>4 DEF Resets, b
<1>8. EndsAt(hist, tr, s, next, Append(q, ack), "ready", b)
    <2>1. MayTell(hist, tr, s, next, q, ack, rev[Len(q)], b)
        BY <1>2, <1>6, <1>7 DEF MayTell
    <2>2. QED
        BY <1>2, <1>3, <1>4, <2>1, OnCourseTell
<1>9. QED
    BY <1>8 DEF EndsAt, InSync, ack, b

(* It refuses the batch: the sender, who waits, is told so.                *)
LEMMA InSyncRejected ==
    ASSUME NEW hist \in Seq(CommittedOp), NEW tr \in Nat, NEW s \in Session,
           NEW cl \in Client, NEW q \in Seq(ServerMessage), Patient,
           InSync(hist, tr, s, cl, q, "ready"),
           ClientAhead(hist, s, cl), cl.up # <<>>,
           NEW m, m = Head(cl.up), m.type = "submit",
           NEW next, next = [cl EXCEPT !.up = Tail(@)]
    PROVE  /\ EndsAt(hist, tr, s, next, Append(q, Reject(m.batchId)),
                     "ready", Len(hist))
           /\ Calm(next, Append(q, Reject(m.batchId)))
<1> DEFINE reject == Reject(m.batchId)
           b == Len(hist)
<1>1. PICK rev \in [0 .. Len(q) -> Nat] :
          OnCourse(hist, tr, s, cl, q, "ready", rev) /\ rev[Len(q)] = b
    BY DEF InSync
<1>2. /\ OnCourse(hist, tr, s, next, q, "ready", rev)
      /\ next \in Client /\ next.open /\ next.loaded
      /\ \A i \in DOMAIN next.up : next.up[i].type # "hello"
      /\ m.batchId \in BatchId /\ SubmitAhead(hist, s, cl, m)
      /\ next.up = <<>> /\ Calm(next, q) /\ ~InHist(hist, m.batchId)
    <2>1. Taken(hist, tr, s, cl, q, rev, m, next)
        BY <1>1, SubmitTaken
    <2>2. QED
        BY <2>1 DEF Taken
<1>3. b \in Nat
    OBVIOUS
<1>4. /\ reject \in ServerMessage /\ reject.type = "reject"
      /\ reject.batchId = m.batchId
    BY <1>2, MessageTypes DEF Reject
<1>5. reject.batchId[1] = s
    BY <1>2, <1>4 DEF SubmitAhead
<1>6. Patient /\ reject.type = "reject" =>
          /\ Calm(next, q) /\ ~InHist(hist, reject.batchId)
          /\ reject.batchId[1] = s
    BY <1>2, <1>4, <1>5
<1> HIDE DEF reject, b
<1>7. Leads(hist, s, reject, rev[Len(q)], b)
    BY <1>1, <1>3, <1>4 DEF Leads, Resets
<1>8. /\ rev[Len(q)] <= b /\ b <= Len(hist)
      /\ reject.type \notin Resets
      /\ reject.type \notin {"welcome", "catchUp"}
    BY <1>1, <1>3, <1>4 DEF Resets, b
<1>9. EndsAt(hist, tr, s, next, Append(q, reject), "ready", b)
    <2>1. MayTell(hist, tr, s, next, q, reject, rev[Len(q)], b)
        BY <1>2, <1>6, <1>7, <1>8 DEF MayTell
    <2>2. QED
        BY <1>2, <1>3, <1>4, <2>1, OnCourseTell
<1>10. Calm(next, Append(q, reject))
    <2>1. \A i \in DOMAIN Append(q, reject) :
              \/ i \in DOMAIN q /\ Append(q, reject)[i] = q[i]
              \/ Append(q, reject)[i] = reject
        OBVIOUS
    <2>2. QED
        BY <1>2, <1>4, <2>1 DEF Calm
<1>11. QED
    BY <1>9, <1>10 DEF reject, b

(* And that it starts over with the document as it is.                     *)
LEMMA InSyncRefused ==
    ASSUME NEW hist \in Seq(CommittedOp), NEW tr \in Nat, NEW s \in Session,
           NEW cl \in Client, NEW q \in Seq(ServerMessage), Patient,
           EndsAt(hist, tr, s, cl, q, "ready", Len(hist)), Calm(cl, q),
           q # <<>>,
           NEW m, m = Resync(Len(hist), DocumentOf(hist, Len(hist)))
    PROVE  InSync(hist, tr, s, cl, Append(q, m), "ready")
<1> DEFINE b == Len(hist)
           doc == DocumentOf(hist, b)
<1>1. PICK rev \in [0 .. Len(q) -> Nat] :
          OnCourse(hist, tr, s, cl, q, "ready", rev) /\ rev[Len(q)] = b
    BY DEF EndsAt
<1>2. /\ cl.open /\ \A i \in DOMAIN cl.up : cl.up[i].type # "hello"
    BY <1>1 DEF OnCourse, Connected
<1>3. b \in Nat /\ doc \in Document
    BY DocumentOfType
<1> HIDE DEF doc
<1>4. /\ m \in ServerMessage /\ m.type = "resync" /\ m.revision = b
      /\ m.snapshot = doc
    BY <1>3, MessageTypes DEF Resync, doc
<1>5. Own(hist, s, b) = {}
    <2>1. \A k \in DOMAIN hist : ~(b < k)
        OBVIOUS
    <2>2. QED
        BY <2>1 DEF Own
<1> HIDE DEF b
<1>6. Leads(hist, s, m, rev[Len(q)], b)
    BY <1>1, <1>3, <1>4 DEF Leads, Resets, doc
<1>7. /\ rev[Len(q)] <= b /\ b <= Len(hist)
      /\ m.type \notin {"welcome", "catchUp", "reject"}
    BY <1>1, <1>3, <1>4 DEF b
<1>8. EndsAt(hist, tr, s, cl, Append(q, m), "ready", b)
    <2>1. MayTell(hist, tr, s, cl, q, m, rev[Len(q)], b)
        BY <1>2, <1>4, <1>5, <1>6, <1>7 DEF MayTell
    <2>2. QED
        BY <1>1, <1>3, <1>4, <2>1, OnCourseTell
<1>9. QED
    BY <1>8 DEF EndsAt, InSync, b
(* It commits the batch, as the client that sent it has it by then.        *)
LEMMA InSyncCommitted ==
    ASSUME NEW hist \in Seq(CommittedOp), NEW entry \in CommittedOp,
           NEW tr \in Nat, NEW tr2 \in Nat, tr <= tr2, NEW s \in Session,
           NEW cl \in Client, NEW q \in Seq(ServerMessage),
           InSync(hist, tr, s, cl, q, "ready"),
           ClientAhead(hist, s, cl), cl.up # <<>>,
           NEW m, m = Head(cl.up), m.type = "submit", tr <= m.base,
           \A k \in DOMAIN hist : hist[k].batchId = m.batchId => k <= tr,
           entry.batchId = m.batchId,
           Carries(hist, m.op, m.base, entry.op, Len(hist)),
           NEW next, next = [cl EXCEPT !.up = Tail(@)]
    PROVE  InSync(Append(hist, entry), tr2, s, next,
                  Append(q, Ack(m.batchId, Len(hist) + 1)), "ready")
<1> DEFINE more == Append(hist, entry)
           b == Len(hist) + 1
           ack == Ack(m.batchId, b)
<1>1. PICK rev \in [0 .. Len(q) -> Nat] :
          /\ OnCourse(hist, tr, s, cl, q, "ready", rev)
          /\ rev[Len(q)] = Len(hist)
    BY DEF InSync
<1>2. /\ OnCourse(hist, tr, s, next, q, "ready", rev)
      /\ next \in Client /\ next.open /\ next.loaded
      /\ next.inflight = cl.inflight /\ next.revision = cl.revision
      /\ InflightId(s, next) = InflightId(s, cl)
      /\ \A i \in DOMAIN next.up : next.up[i].type # "hello"
      /\ m.batchId \in BatchId /\ m.base \in Nat
      /\ Sent(hist, tr, s, cl, m) /\ SubmitAhead(hist, s, cl, m)
      /\ Patient => /\ next.up = <<>> /\ Calm(next, q)
                    /\ \A i \in DOMAIN q : q[i].type # "reject"
    <2>1. Taken(hist, tr, s, cl, q, rev, m, next)
        BY <1>1, SubmitTaken
    <2>2. QED
        BY <2>1 DEF Taken
<1>3. /\ Len(q) \in Nat /\ DOMAIN q = 1 .. Len(q) /\ Len(hist) \in Nat
      /\ b \in Nat /\ Len(more) = b /\ DOMAIN more = 1 .. b
      /\ more[b] = entry
    BY AppendFacts
<1>4. m.batchId[1] = s
    BY <1>2 DEF SubmitAhead
<1>5. ~InHist(hist, m.batchId)
    <2>1. ASSUME NEW k \in DOMAIN hist, hist[k].batchId = m.batchId
          PROVE  FALSE
        <3>1. m.base < k
            BY <1>2, <2>1 DEF SubmitAhead
        <3>2. k <= tr /\ k \in Nat
            BY <2>1
        <3>3. QED
            BY <1>2, <3>1, <3>2
    <2>2. QED
        BY <2>1 DEF InHist
<1>6. /\ m.base <= cl.revision
      /\ cl.inflight # <<>> /\ m.batchId = InflightId(s, cl)
      /\ Carries(hist, m.op, m.base, cl.inflight[1], cl.revision)
    <2>1. ~(m.base < tr)
        BY <1>2
    <2>2. QED
        BY <1>2, <1>5, <2>1 DEF Sent
<1>7. Carries(hist, cl.inflight[1], cl.revision, entry.op, Len(hist))
    <2>1. cl.revision <= Len(hist)
        BY DEF ClientAhead
    <2>2. QED
        BY <1>6, <2>1, CarriesOnePath
<1>8. \A i \in DOMAIN q : q[i].type \notin Resets
    <2>1. ASSUME NEW i \in DOMAIN q, q[i].type \in Resets PROVE FALSE
        <3>1. \/ rev[i - 1] < tr
              \/ i = 1 /\ ~cl.loaded
              \/ Patient /\ Calm(cl, q)
            BY <1>1, <2>1 DEF OnCourse, Fenced
        <3>2. cl.loaded
            BY <1>2 DEF Client
        <3>3. ~Calm(cl, q)
            BY DEF Calm
        <3>4. ~(rev[i - 1] < tr)
            <4>1. 0 \in 0 .. Len(q) /\ i - 1 \in 0 .. Len(q) /\ 0 <= i - 1
                BY <1>3
            <4>2. rev[0] <= rev[i - 1] /\ rev[0] = cl.revision
                BY <1>1, <4>1, Zenon DEF OnCourse, Path
            <4>3. rev[i - 1] \in Nat /\ cl.revision \in Nat
                BY <4>1 DEF Client
            <4>4. QED
                BY <1>2, <1>6, <4>2, <4>3, SMTT(60)
        <3>5. QED
            BY <3>1, <3>2, <3>3, <3>4
    <2>2. QED
        BY <2>1
<1>9. Patient => \A i \in DOMAIN q : q[i].type \notin {"catchUp", "reject"}
    BY <1>2 DEF Calm
<1>10. OnCourse(more, tr, s, next, q, "ready", rev)
    <2>1. entry.batchId[1] = s =>
              /\ next.inflight # <<>> /\ entry.batchId = InflightId(s, next)
              /\ Carries(hist, next.inflight[1], next.revision, entry.op,
                         Len(hist))
              /\ \A i \in DOMAIN q :
                    /\ q[i].type \notin Resets
                    /\ Patient => q[i].type \notin {"catchUp", "reject"}
        BY <1>2, <1>6, <1>7, <1>8, <1>9
    <2>2. Patient => \A i \in DOMAIN next.up :
              next.up[i].type = "submit" =>
                  next.up[i].batchId # entry.batchId
        BY <1>2
    <2>3. OnCourse(hist, tr, s, next, q, "ready", rev) /\ next \in Client
        BY <1>2
    <2>4. QED
        BY <2>1, <2>2, <2>3, OnCourseGrow, ZenonT(60)
<1>11. /\ ack \in ServerMessage /\ ack.type = "ack"
       /\ ack.batchId = m.batchId /\ ack.revision = b
    BY <1>2, <1>3, MessageTypes DEF Ack
<1> HIDE DEF more, b, ack
<1>12. OnCourse(more, tr2, s, next, q, "ready", rev)
    BY <1>2, <1>3, <1>10, OnCourseTrim
<1>13. Leads(more, s, ack, rev[Len(q)], b)
    <2>1. b \in DOMAIN more /\ rev[Len(q)] + 1 = b
        BY <1>1, <1>3 DEF b
    <2>2. QED
        BY <1>3, <1>4, <1>11, <2>1 DEF Leads, Resets
<1>14. MayTell(more, tr2, s, next, q, ack, rev[Len(q)], b)
    <2>1. rev[Len(q)] <= b /\ b <= Len(more)
        BY <1>1, <1>3 DEF b
    <2>2. QED
        BY <1>2, <1>11, <1>13, <2>1 DEF MayTell, Resets
<1>15. EndsAt(more, tr2, s, next, Append(q, ack), "ready", b)
    BY <1>2, <1>3, <1>11, <1>12, <1>14, OnCourseTell
<1>16. QED
    BY <1>3, <1>15 DEF EndsAt, InSync, more, ack, b

(* What is left of the log after a revision it reaches.                    *)
LEMMA LogAfterIs ==
    ASSUME RoomTypeOK, NEW since \in Nat, trimmed <= since,
           since <= Revision
    PROVE  /\ LogAfter(since) \in Seq(NumberedOp)
           /\ Len(LogAfter(since)) = Revision - since
           /\ \A j \in DOMAIN LogAfter(since) :
                 LogAfter(since)[j].revision = since + j
<1>1. /\ committed \in Seq(CommittedOp) /\ trimmed \in Nat
      /\ Revision \in Nat
    BY DEF RoomTypeOK, Revision
<1>2. since \in 0 .. Revision
    BY <1>1
<1>3. LogAfter(since) \in Seq(NumberedOp)
    BY <1>2, LogAfterType
<1> DEFINE n == Revision - since
           ops == [i \in 1 .. n |-> Numbered(since + i)]
<1>4. LogAfter(since) = ops
    BY <1>1 DEF LogAfter
<1>5. n \in Nat /\ DOMAIN ops = 1 .. n
    BY <1>1
<1>6. Len(ops) = n
    BY <1>3, <1>4, <1>5
<1>7. \A j \in 1 .. n : ops[j].revision = since + j
    BY DEF Numbered
<1>8. QED
    BY <1>3, <1>4, <1>5, <1>6, <1>7

(* It takes a hello in, and answers with what the client missed or with    *)
(* the whole document (hello in room.ts).                                  *)
LEMMA InSyncHello ==
    ASSUME RoomTypeOK, NEW s \in Session,
           NEW cl \in Client, NEW q \in Seq(ServerMessage), NEW mem,
           InSync(committed, trimmed, s, cl, q, mem), cl.up # <<>>,
           NEW m, m = Head(cl.up), m.type = "hello",
           NEW next, next = [cl EXCEPT !.up = Tail(@)],
           NEW reply,
           reply = IF m.since # Fresh /\ OldestBase <= m.since
                      /\ m.since <= Revision
                   THEN CatchUp(LogAfter(m.since))
                   ELSE Welcome(Revision, DocumentAt(Revision))
    PROVE  InSync(committed, trimmed, s, next, Append(q, reply), "ready")
<1> DEFINE b == Len(committed)
           doc == DocumentOf(committed, b)
<1>1. PICK rev \in [0 .. Len(q) -> Nat] :
          OnCourse(committed, trimmed, s, cl, q, mem, rev)
    BY DEF InSync
<1>2. /\ committed \in Seq(CommittedOp) /\ trimmed \in Nat /\ b \in Nat
      /\ trimmed <= b /\ cl.revision \in Nat
      /\ cl.up \in Seq(ClientMessage)
    BY DEF RoomTypeOK, Client
<1>3. /\ 1 \in DOMAIN cl.up /\ m = cl.up[1]
      /\ Tail(cl.up) \in Seq(ClientMessage)
      /\ Len(cl.up) \in Nat /\ Len(cl.up) >= 1
      /\ Len(Tail(cl.up)) = Len(cl.up) - 1
      /\ \A i \in DOMAIN Tail(cl.up) :
            /\ i + 1 \in DOMAIN cl.up /\ Tail(cl.up)[i] = cl.up[i + 1]
            /\ i + 1 # 1
    BY <1>2
<1>4. /\ Synced(committed, trimmed, s, cl) /\ Connected(cl, q, mem)
      /\ Patient => Waiting(committed, s, cl, q)
      /\ Path(committed, s, cl, q, rev)
    BY <1>1 DEF OnCourse
<1>5. /\ q = <<>> /\ cl.open
      /\ m.since = IF cl.loaded THEN cl.revision ELSE Fresh
    BY <1>3, <1>4 DEF Connected
<1>6. /\ next \in Client /\ next.open = cl.open /\ next.loaded = cl.loaded
      /\ next.up = Tail(cl.up)
    BY <1>2, <1>3 DEF Client
<1>7. OnCourse(committed, trimmed, s, next, q, mem, rev)
    BY <1>1, OnCourseTail
<1>8. \A i \in DOMAIN next.up : next.up[i].type # "hello"
    BY <1>3, <1>4, <1>6 DEF Connected
<1>9. Len(q) = 0 /\ rev[Len(q)] = cl.revision /\ cl.revision <= b
    <2>1. Len(q) = 0
        BY <1>5
    <2>2. rev[0] = cl.revision /\ cl.revision <= b
        BY <1>4 DEF Path, Synced
    <2>3. QED
        BY <2>1, <2>2
<1>10. Own(committed, s, b) = {}
    <2>1. \A k \in DOMAIN committed : ~(b < k)
        BY <1>2
    <2>2. QED
        BY <2>1 DEF Own
<1>11. Patient => next.up = <<>>
    <2>1. SUFFICES ASSUME Patient PROVE next.up = <<>>
        OBVIOUS
    <2>2. Len(cl.up) <= 1
        BY <1>4, <2>1 DEF Waiting
    <2>3. QED
        BY <1>2, <1>6, <2>2, TailOfOne
<1>12. Revision = b /\ DocumentAt(Revision) = doc /\ doc \in Document
    <2>1. doc \in Document
        BY <1>2, DocumentOfType
    <2>2. QED
        BY <2>1 DEF Revision, DocumentAt, DocumentOf
<1> HIDE DEF b, doc
<1>13. CASE m.since # Fresh /\ OldestBase <= m.since /\ m.since <= Revision
    <2> DEFINE missed == LogAfter(m.since)
    <2>1. cl.loaded /\ m.since = cl.revision /\ reply = CatchUp(missed)
        BY <1>5, <1>13
    <2>2. /\ missed \in Seq(NumberedOp) /\ Len(missed) = b - cl.revision
          /\ \A j \in DOMAIN missed : missed[j].revision = cl.revision + j
        BY <1>2, <1>12, <1>13, <2>1, LogAfterIs DEF OldestBase
    <2> HIDE DEF missed
    <2>3. /\ reply \in ServerMessage /\ reply.type = "catchUp"
          /\ reply.missed = missed
        BY <2>1, <2>2, MessageTypes DEF CatchUp
    <2>4. Leads(committed, s, reply, cl.revision, b)
        <3>1. b = cl.revision + Len(missed)
            BY <1>2, <2>2
        <3>2. QED
            BY <2>2, <2>3, <3>1 DEF Leads, Resets
    <2>5. MayTell(committed, trimmed, s, next, q, reply, rev[Len(q)], b)
        <3>1. cl.revision <= b /\ b <= Len(committed)
            BY <1>2, <1>9 DEF b
        <3>2. QED
            BY <1>5, <1>6, <1>8, <1>9, <1>10, <1>11, <2>1, <2>3, <2>4, <3>1
               DEF MayTell, Resets
    <2>6. EndsAt(committed, trimmed, s, next, Append(q, reply), "ready", b)
        BY <1>2, <1>6, <1>7, <2>3, <2>5, OnCourseTell
    <2>7. QED
        BY <2>6 DEF EndsAt, InSync, b
<1>14. CASE ~(m.since # Fresh /\ OldestBase <= m.since /\ m.since <= Revision)
    <2>1. reply = Welcome(b, doc)
        BY <1>12, <1>14
    <2>2. /\ reply \in ServerMessage /\ reply.type = "welcome"
          /\ reply.revision = b /\ reply.snapshot = doc
        BY <1>2, <1>12, <2>1, MessageTypes DEF Welcome
    <2>3. ~cl.loaded \/ cl.revision < trimmed
        BY <1>2, <1>5, <1>9, <1>12, <1>14 DEF Fresh, OldestBase
    <2>4. Leads(committed, s, reply, cl.revision, b)
        BY <2>2 DEF Leads, Resets, doc
    <2>5. MayTell(committed, trimmed, s, next, q, reply, rev[Len(q)], b)
        <3>1. cl.revision <= b /\ b <= Len(committed)
            BY <1>2, <1>9 DEF b
        <3>2. QED
            BY <1>5, <1>6, <1>8, <1>9, <1>10, <2>2, <2>3, <2>4, <3>1
               DEF MayTell, Resets
    <2>6. EndsAt(committed, trimmed, s, next, Append(q, reply), "ready", b)
        BY <1>2, <1>6, <1>7, <2>2, <2>5, OnCourseTell
    <2>7. QED
        BY <2>6 DEF EndsAt, InSync, b
<1>15. QED
    BY <1>13, <1>14
-----------------------------------------------------------------------------
(* The steps of the system. *)
LEMMA AgreementTypes ==
    ASSUME TypeOK
    PROVE  /\ committed \in Seq(CommittedOp)
           /\ trimmed \in Nat /\ Len(committed) \in Nat
           /\ trimmed <= Len(committed)
           /\ client \in [Session -> Client]
           /\ down \in [Session -> Seq(ServerMessage)]
           /\ member \in [Session -> Members]
           /\ \A t \in Session : /\ client[t] \in Client
                                 /\ down[t] \in Seq(ServerMessage)
                                 /\ client[t].up \in Seq(ClientMessage)
BY DEF TypeOK, RoomTypeOK, ClientTypeOK, Client

(* A step that touches one session only.                                   *)
LEMMA OnlyOne ==
    ASSUME Agreement, NEW s \in Session,
           committed' = committed, trimmed' = trimmed,
           \A t \in Session \ {s} : /\ client'[t] = client[t]
                                    /\ down'[t] = down[t]
                                    /\ member'[t] = member[t],
           InSync(committed, trimmed, s, client'[s], down'[s], member'[s])
    PROVE  Agreement'
<1>1. ASSUME NEW t \in Session
      PROVE  InSync(committed', trimmed', t, client'[t], down'[t], member'[t])
    <2>1. CASE t = s
        BY <2>1
    <2>2. CASE t # s
        BY <2>2 DEF Agreement
    <2>3. QED
        BY <2>1, <2>2
<1>2. QED
    BY <1>1 DEF Agreement

LEMMA ConnectAgrees ==
    ASSUME TypeOK, Agreement, NEW s \in Session, Connect(s)
    PROVE  Agreement'
<1> DEFINE cl == client[s]
           up == <<Hello(IF cl.loaded THEN cl.revision ELSE Fresh)>>
           next == [cl EXCEPT !.open = TRUE, !.up = up]
<1>1. /\ client' = [client EXCEPT ![s] = next]
      /\ member' = [member EXCEPT ![s] = "joined"]
      /\ down' = [down EXCEPT ![s] = <<>>]
      /\ committed' = committed /\ trimmed' = trimmed
    BY DEF Connect, Open, Join, Update
<1>2. cl \in Client /\ InSync(committed, trimmed, s, cl, down[s], member[s])
    BY AgreementTypes DEF Agreement
<1>3. InSync(committed, trimmed, s, next, <<>>, "joined")
    <2>1. Dialled(cl, next, "joined")
        BY DEF Dialled
    <2> HIDE DEF cl, next
    <2>2. QED
        BY <1>2, <2>1, OnCourseAlone
<1> HIDE DEF cl, next
<1>4. client'[s] = next /\ down'[s] = <<>> /\ member'[s] = "joined"
    BY <1>1, AgreementTypes
<1>5. \A t \in Session \ {s} : /\ client'[t] = client[t]
                               /\ down'[t] = down[t]
                               /\ member'[t] = member[t]
    BY <1>1, AgreementTypes
<1>6. InSync(committed, trimmed, s, client'[s], down'[s], member'[s])
    BY <1>3, <1>4
<1>7. QED
    BY <1>1, <1>5, <1>6, OnlyOne

LEMMA SocketGoneAgrees ==
    ASSUME TypeOK, Agreement, NEW s \in Session, SocketGone(s)
    PROVE  Agreement'
<1> DEFINE cl == client[s]
           next == [cl EXCEPT !.open = FALSE, !.up = <<>>]
<1>1. /\ client' = [client EXCEPT ![s] = next]
      /\ member' = [member EXCEPT ![s] = "none"]
      /\ down' = [down EXCEPT ![s] = <<>>]
      /\ committed' = committed /\ trimmed' = trimmed
    BY DEF SocketGone, Close, Leave, Update
<1>2. cl \in Client /\ InSync(committed, trimmed, s, cl, down[s], member[s])
    BY AgreementTypes DEF Agreement
<1>3. InSync(committed, trimmed, s, next, <<>>, "none")
    <2>1. Dialled(cl, next, "none")
        BY DEF Dialled
    <2> HIDE DEF cl, next
    <2>2. QED
        BY <1>2, <2>1, OnCourseAlone
<1> HIDE DEF cl, next
<1>4. client'[s] = next /\ down'[s] = <<>> /\ member'[s] = "none"
    BY <1>1, AgreementTypes
<1>5. \A t \in Session \ {s} : /\ client'[t] = client[t]
                               /\ down'[t] = down[t]
                               /\ member'[t] = member[t]
    BY <1>1, AgreementTypes
<1>6. InSync(committed, trimmed, s, client'[s], down'[s], member'[s])
    BY <1>3, <1>4
<1>7. QED
    BY <1>1, <1>5, <1>6, OnlyOne

LEMMA EditAgrees ==
    ASSUME TypeOK, Bookkeeping, Agreement, NEW s \in Session, Edit(s)
    PROVE  Agreement'
<1> DEFINE cl == client[s]
           q == down[s]
<1>1. PICK op \in EditsOf(s) : Apply(s, op)
    BY DEF Edit
<1> DEFINE next == Applied(s, cl, op)
<1>2. /\ cl.loaded /\ client' = [client EXCEPT ![s] = next]
      /\ committed' = committed /\ trimmed' = trimmed
      /\ member' = member /\ down' = down
    BY <1>1 DEF Edit, Apply, Update, roomVars
<1>3. op \in Op
    BY EnvironmentAssumption
<1>4. /\ cl \in Client /\ q \in Seq(ServerMessage)
      /\ committed \in Seq(CommittedOp) /\ ClientAhead(committed, s, cl)
      /\ InSync(committed, trimmed, s, cl, q, member[s])
    BY AgreementTypes DEF Agreement, Bookkeeping
<1>5. Patient => /\ Pending(cl) = <<>> /\ cl.up = <<>>
                 /\ \A i \in DOMAIN q : q[i].type = "op"
    BY DEF Edit, Awaiting
<1>6. /\ client'[s] = next
      /\ \A t \in Session \ {s} : client'[t] = client[t]
    BY <1>2, AgreementTypes
<1> HIDE DEF cl, q
<1>7. InSync(committed, trimmed, s, next, q, member[s])
    <2>1. PICK rev \in [0 .. Len(q) -> Nat] :
              /\ OnCourse(committed, trimmed, s, cl, q, member[s], rev)
              /\ member[s] = "ready" => rev[Len(q)] = Len(committed)
        BY <1>4 DEF InSync
    <2>2. OnCourse(committed, trimmed, s, next, q, member[s], rev)
        BY <1>2, <1>3, <1>4, <1>5, <2>1, OnCourseApplied
    <2>3. QED
        BY <2>1, <2>2 DEF InSync
<1> HIDE DEF next
<1>8. InSync(committed, trimmed, s, client'[s], down'[s], member'[s])
    BY <1>2, <1>6, <1>7 DEF q
<1>9. QED
    BY <1>2, <1>6, <1>8, OnlyOne

LEMMA ToClientAgrees ==
    ASSUME TypeOK, Bookkeeping, Agreement, Patient \/ Unrefused,
           NEW s \in Session, ToClient(s)
    PROVE  Agreement' /\ client'[s].revision >= client[s].revision
<1> DEFINE cl == client[s]
           q == down[s]
           next == Received(s, cl, Head(q))
<1>1. /\ q # <<>> /\ client' = [client EXCEPT ![s] = next]
      /\ down' = [down EXCEPT ![s] = Tail(q)]
      /\ committed' = committed /\ trimmed' = trimmed /\ member' = member
    BY DEF ToClient, Update
<1>2. /\ cl \in Client /\ q \in Seq(ServerMessage) /\ trimmed \in Nat
      /\ committed \in Seq(CommittedOp) /\ ClientAhead(committed, s, cl)
      /\ InSync(committed, trimmed, s, cl, q, member[s])
      /\ Once(committed)
    BY AgreementTypes DEF Agreement, Bookkeeping, CommittedOnce, Once
<1>3. 1 \in DOMAIN q /\ Head(q) = q[1]
    BY <1>1, <1>2
<1>4. MessageTrue(committed, s, q[1]) /\ (Patient \/ q[1].type # "reject")
    BY <1>3 DEF Bookkeeping, Unrefused
<1>5. /\ client'[s] = next /\ down'[s] = Tail(q)
      /\ \A t \in Session \ {s} :
            client'[t] = client[t] /\ down'[t] = down[t]
    BY <1>1, AgreementTypes
<1>6. next = Received(s, cl, q[1])
    BY <1>3
<1> HIDE DEF cl, q, next
<1>7. PICK rev \in [0 .. Len(q) -> Nat] :
          /\ OnCourse(committed, trimmed, s, cl, q, member[s], rev)
          /\ member[s] = "ready" => rev[Len(q)] = Len(committed)
    BY <1>2 DEF InSync
<1>8. /\ cl.revision <= next.revision
      /\ EndsAt(committed, trimmed, s, next, Tail(q), member[s], rev[Len(q)])
    BY <1>1, <1>2, <1>4, <1>6, <1>7, OnCourseReceive
<1>9. InSync(committed, trimmed, s, next, Tail(q), member[s])
    BY <1>7, <1>8 DEF EndsAt, InSync
<1>10. InSync(committed, trimmed, s, client'[s], down'[s], member'[s])
    BY <1>1, <1>5, <1>9
<1>11. Agreement'
    BY <1>1, <1>5, <1>10, OnlyOne
<1>12. client'[s].revision >= client[s].revision
    BY <1>5, <1>8 DEF cl
<1>13. QED
    BY <1>11, <1>12
(* What posting adds to a queue.                                           *)
LEMMA PostedTo ==
    ASSUME NEW c, NEW reply, NEW news, Post(c, reply, news),
           NEW t \in Session
    PROVE  down'[t] = down[t] \o (IF t = c THEN reply
                                  ELSE IF member[t] = "ready" THEN news
                                  ELSE <<>>)
BY DEF Post

LEMMA PostedIs ==
    ASSUME NEW q \in Seq(ServerMessage)
    PROVE  /\ q \o <<>> = q
           /\ \A m \in ServerMessage : q \o <<m>> = Append(q, m)
           /\ \A m, n \in ServerMessage :
                 q \o <<m, n>> = Append(Append(q, m), n)
OBVIOUS

LEMMA OnlyReplied ==
    ASSUME TypeOK, NEW c, NEW reply, Post(c, reply, <<>>),
           NEW t \in Session, t # c
    PROVE  down'[t] = down[t]
<1> DEFINE q == down[t]
           q2 == down'[t]
<1>1. q2 = q \o (IF t = c THEN reply
                 ELSE IF member[t] = "ready" THEN <<>> ELSE <<>>)
    BY PostedTo
<1>2. q \in Seq(ServerMessage)
    BY AgreementTypes
<1> HIDE DEF q, q2
<1>3. q2 = q \o <<>>
    BY <1>1
<1>4. q2 = q
    BY <1>2, <1>3, PostedIs
<1>5. QED
    BY <1>4 DEF q, q2

(* A session the room does not answer hears the news of a commit.          *)
LEMMA NewsAgrees ==
    ASSUME TypeOK, Bookkeeping, Agreement, NEW c, NEW reply,
           NEW entry \in CommittedOp, committed' = Append(committed, entry),
           NEW m \in ServerMessage, Post(c, reply, <<m>>),
           member' = member, trimmed' \in Nat, trimmed <= trimmed',
           \/ m.type = "op" /\ m.committed.revision = Len(committed) + 1
           \/ /\ m.type = "restored" /\ m.revision = Len(committed) + 1
              /\ m.snapshot = DocumentOf(Append(committed, entry),
                                         Len(committed) + 1)
              /\ trimmed' = Len(committed) + 1,
           NEW t \in Session, t # c, entry.batchId[1] # t,
           client'[t] = client[t]
    PROVE  InSync(committed', trimmed', t, client'[t], down'[t], member'[t])
<1> DEFINE cl == client[t]
           q == down[t]
           mem == member[t]
           more == Append(committed, entry)
           tr2 == trimmed'
           q2 == down'[t]
<1>1. /\ cl \in Client /\ q \in Seq(ServerMessage) /\ trimmed \in Nat
      /\ committed \in Seq(CommittedOp) /\ ClientAhead(committed, t, cl)
      /\ InSync(committed, trimmed, t, cl, q, mem)
    BY AgreementTypes DEF Agreement, Bookkeeping
<1>2. q2 = IF mem = "ready" THEN Append(q, m) ELSE q
    <2>1. q2 = q \o (IF t = c THEN reply
                     ELSE IF mem = "ready" THEN <<m>> ELSE <<>>)
        BY PostedTo
    <2> HIDE DEF q2, q, mem
    <2>2. q2 = q \o IF mem = "ready" THEN <<m>> ELSE <<>>
        BY <2>1
    <2>3. q \o <<>> = q /\ q \o <<m>> = Append(q, m)
        BY <1>1, PostedIs
    <2>4. QED
        BY <2>2, <2>3, Zenon
<1>3. /\ tr2 \in Nat /\ trimmed <= tr2
      /\ \/ m.type = "op" /\ m.committed.revision = Len(committed) + 1
         \/ /\ m.type = "restored" /\ m.revision = Len(committed) + 1
            /\ m.snapshot = DocumentOf(Append(committed, entry),
                                       Len(committed) + 1)
            /\ tr2 = Len(committed) + 1
    OBVIOUS
<1> HIDE DEF cl, q, mem, q2, tr2
<1>4. InSync(more, tr2, t, cl, q2, mem)
    BY <1>1, <1>2, <1>3, InSyncNews
<1>5. /\ committed' = more /\ trimmed' = tr2 /\ client'[t] = cl
      /\ down'[t] = q2 /\ member'[t] = mem
    BY DEF cl, q2, mem, tr2
<1>6. QED
    BY <1>4, <1>5

(* What remembering a commit does to the log.                              *)
LEMMA RememberTrims ==
    ASSUME TypeOK, NEW entry \in CommittedOp, Remember(entry)
    PROVE  /\ committed' = Append(committed, entry)
           /\ trimmed' \in Nat /\ trimmed <= trimmed'
<1>1. trimmed \in Nat /\ Len(committed) \in Nat /\ MaxLog \in Nat
    BY AgreementTypes, RoomAssumption
<1>2. QED
    BY <1>1 DEF Remember, Revision

LEMMA ServerOpAgrees ==
    ASSUME TypeOK, Bookkeeping, Agreement, ServerOp
    PROVE  Agreement'
<1>1. PICK op \in ServerOps : CommitServer(op)
    BY DEF ServerOp
<1> DEFINE rev == Revision + 1
           id == <<Nobody, rev>>
           entry == [op |-> op, batchId |-> id]
           c == [revision |-> rev, op |-> op, batchId |-> id]
           m == Remote(c)
<1>2. op \in Op /\ rev \in Nat /\ rev = Len(committed) + 1
    BY EnvironmentAssumption, AgreementTypes DEF Revision
<1>3. /\ Remember(entry) /\ Post(Nobody, <<>>, <<m>>) /\ member' = member
      /\ client' = client
    BY <1>1 DEF CommitServer, ServerOp
<1>4. id \in BatchId /\ id[1] = Nobody
    BY <1>2 DEF BatchId
<1> HIDE DEF id, rev
<1>5. /\ entry \in CommittedOp /\ entry.batchId[1] = Nobody
      /\ c \in NumberedOp /\ c.revision = rev
    BY <1>2, <1>4 DEF CommittedOp, NumberedOp
<1> HIDE DEF c
<1>6. /\ m \in ServerMessage /\ m.type = "op"
      /\ m.committed.revision = Len(committed) + 1
    BY <1>2, <1>5, MessageTypes DEF Remote
<1> HIDE DEF m, entry
<1>7. /\ committed' = Append(committed, entry)
      /\ trimmed' \in Nat /\ trimmed <= trimmed'
    BY <1>3, <1>5, RememberTrims
<1>8. ASSUME NEW t \in Session
      PROVE  InSync(committed', trimmed', t, client'[t], down'[t], member'[t])
    <2>1. t # Nobody /\ entry.batchId[1] # t /\ client'[t] = client[t]
        BY <1>3, <1>5, NobodyAssumption
    <2>2. QED
        BY <1>3, <1>5, <1>6, <1>7, <2>1, NewsAgrees
<1>9. QED
    BY <1>8 DEF Agreement

LEMMA RestoreAgrees ==
    ASSUME TypeOK, Bookkeeping, Agreement, Restore
    PROVE  Agreement'
<1> DEFINE rev == Revision + 1
           id == <<Nobody, rev>>
           entry == [op |-> Restored, batchId |-> id]
           doc == Append(DocumentAt(Revision), Restored)
           m == RestoredTo(rev, doc)
           more == Append(committed, entry)
<1>1. /\ rev \in Nat /\ rev = Len(committed) + 1
      /\ committed \in Seq(CommittedOp) /\ Len(committed) \in Nat
      /\ trimmed <= Len(committed) /\ trimmed \in Nat
    BY AgreementTypes DEF Revision
<1>2. /\ committed' = more /\ trimmed' = rev
      /\ Post(Nobody, <<>>, <<m>>) /\ member' = member /\ client' = client
    BY DEF Restore, RestoreVersion
<1>3. id \in BatchId /\ id[1] = Nobody
    BY <1>1 DEF BatchId
<1> HIDE DEF id, rev
<1>4. /\ entry \in CommittedOp /\ entry.batchId[1] = Nobody
      /\ entry.op = Restored
    BY <1>3 DEF CommittedOp
<1> HIDE DEF entry
<1>5. /\ more \in Seq(CommittedOp) /\ Len(more) = rev
      /\ more[Len(committed) + 1] = entry
    BY <1>1, <1>4, AppendFacts
<1>6. doc = DocumentOf(more, rev)
    <2>1. DocumentAt(Revision) = DocumentOf(committed, Len(committed))
        BY DEF DocumentAt, DocumentOf, Revision
    <2>2. DocumentOf(more, Len(committed)) = DocumentOf(committed, Len(committed))
        BY <1>1, <1>4, DocumentOfGrows
    <2>3. DocumentOf(more, Len(committed) + 1)
              = Append(DocumentOf(more, Len(committed)),
                       more[Len(committed) + 1].op)
        <3>1. Len(committed) + 1 <= Len(more)
            BY <1>1, <1>5
        <3> HIDE DEF more
        <3>2. QED
            BY <1>1, <1>5, <3>1, DocumentOfNext
    <2>4. QED
        BY <1>1, <1>4, <1>5, <2>1, <2>2, <2>3
<1>7. doc \in Document
    <2>1. rev \in 0 .. Len(more)
        BY <1>1, <1>5
    <2> HIDE DEF more
    <2>2. QED
        BY <1>5, <1>6, <2>1, DocumentOfType
<1> HIDE DEF doc
<1>8. /\ m \in ServerMessage /\ m.type = "restored" /\ m.revision = rev
      /\ m.snapshot = doc
    BY <1>1, <1>7, MessageTypes DEF RestoredTo
<1> HIDE DEF m
<1>9. ASSUME NEW t \in Session
      PROVE  InSync(committed', trimmed', t, client'[t], down'[t], member'[t])
    <2>1. t # Nobody /\ entry.batchId[1] # t /\ client'[t] = client[t]
        BY <1>2, <1>4, NobodyAssumption
    <2>2. trimmed' \in Nat /\ trimmed <= trimmed'
        BY <1>1, <1>2
    <2>3. /\ m.type = "restored" /\ m.revision = Len(committed) + 1
          /\ m.snapshot = DocumentOf(Append(committed, entry),
                                     Len(committed) + 1)
          /\ trimmed' = Len(committed) + 1
        BY <1>1, <1>2, <1>6, <1>8
    <2>4. QED
        BY <1>2, <1>4, <1>8, <2>1, <2>2, <2>3, NewsAgrees
<1>10. QED
    BY <1>9 DEF Agreement

(* The room's object stops or sleeps.                                      *)
LEMMA RebuiltAgrees ==
    ASSUME TypeOK, Agreement, Rebuilt, client' = client, down' = down,
           \A t \in Session : member'[t] \in {member[t], "none"}
    PROVE  Agreement'
<1>1. /\ committed' = committed /\ trimmed' \in Nat /\ trimmed \in Nat
      /\ trimmed <= trimmed'
    BY AgreementTypes DEF Rebuilt, Revision
<1>2. ASSUME NEW t \in Session
      PROVE  InSync(committed', trimmed', t, client'[t], down'[t], member'[t])
    <2>1. /\ client[t] \in Client /\ down[t] \in Seq(ServerMessage)
          /\ InSync(committed, trimmed, t, client[t], down[t], member[t])
        BY AgreementTypes DEF Agreement
    <2> DEFINE tr2 == trimmed'
               mem2 == member'[t]
    <2>2. mem2 \in {member[t], "none"} /\ tr2 \in Nat /\ trimmed <= tr2
        BY <1>1
    <2> HIDE DEF tr2, mem2
    <2>3. InSync(committed, tr2, t, client[t], down[t], mem2)
        BY <1>1, <2>1, <2>2, InSyncTrimmed
    <2>4. QED
        BY <1>1, <2>3 DEF tr2, mem2
<1>3. QED
    BY <1>2 DEF Agreement

LEMMA StopAgrees ==
    ASSUME TypeOK, Agreement, Stop \/ Sleep
    PROVE  Agreement'
<1>1. CASE Stop
    BY <1>1, RebuiltAgrees DEF Stop, RoomStops, AllLeave
<1>2. CASE Sleep
    BY <1>2, RebuiltAgrees DEF Sleep, Hibernate
<1>3. QED
    BY <1>1, <1>2
(* The room takes the next message of session s.                           *)
TakesFrom(s, m) ==
    /\ client[s].up # <<>> /\ m = Head(client[s].up)
    /\ Update(s, [client[s] EXCEPT !.up = Tail(@)])

LEMMA TakenFrom ==
    ASSUME TypeOK, Bookkeeping, Agreement, NEW s \in Session,
           NEW m, TakesFrom(s, m)
    PROVE  /\ m \in ClientMessage /\ client[s] \in Client
           /\ down[s] \in Seq(ServerMessage)
           /\ ClientAhead(committed, s, client[s])
           /\ InSync(committed, trimmed, s, client[s], down[s], member[s])
           /\ client[s].up # <<>> /\ m = Head(client[s].up)
           /\ client'[s] = [client[s] EXCEPT !.up = Tail(@)]
           /\ \A t \in Session \ {s} : client'[t] = client[t]
<1>1. client[s].up \in Seq(ClientMessage)
    BY AgreementTypes
<1>2. m \in ClientMessage
    BY <1>1 DEF TakesFrom
<1>3. /\ client'[s] = [client[s] EXCEPT !.up = Tail(@)]
      /\ \A t \in Session \ {s} : client'[t] = client[t]
    BY AgreementTypes DEF TakesFrom, Update
<1>4. QED
    BY <1>2, <1>3, AgreementTypes DEF TakesFrom, Agreement, Bookkeeping

(* It does nothing with it.                                                *)
LEMMA IgnoreAgrees ==
    ASSUME TypeOK, Bookkeeping, Agreement, NEW s \in Session,
           NEW m, TakesFrom(s, m), UNCHANGED roomVars
    PROVE  Agreement'
<1> DEFINE cl == client[s]
           q == down[s]
           mem == member[s]
           next == client'[s]
<1>1. /\ cl \in Client /\ cl.up # <<>> /\ next = [cl EXCEPT !.up = Tail(@)]
      /\ InSync(committed, trimmed, s, cl, q, mem)
      /\ \A t \in Session \ {s} : client'[t] = client[t]
    BY TakenFrom
<1>2. /\ committed' = committed /\ trimmed' = trimmed /\ member' = member
      /\ down' = down
    BY DEF roomVars
<1> HIDE DEF cl, q, mem, next
<1>3. InSync(committed, trimmed, s, next, q, mem)
    BY <1>1, OnCourseTail DEF InSync
<1>4. QED
    BY <1>1, <1>2, <1>3, OnlyOne DEF next, q, mem

LEMMA HelloAgrees ==
    ASSUME TypeOK, Bookkeeping, Agreement, NEW s \in Session,
           NEW m, TakesFrom(s, m), m.type = "hello", RoomHello(s, m.since)
    PROVE  Agreement'
<1> DEFINE cl == client[s]
           q == down[s]
           mem == member[s]
           next == client'[s]
           reply == IF m.since # Fresh /\ OldestBase <= m.since
                       /\ m.since <= Revision
                    THEN CatchUp(LogAfter(m.since))
                    ELSE Welcome(Revision, DocumentAt(Revision))
<1>1. /\ cl \in Client /\ cl.up # <<>> /\ next = [cl EXCEPT !.up = Tail(@)]
      /\ InSync(committed, trimmed, s, cl, q, mem)
      /\ q \in Seq(ServerMessage) /\ m = Head(cl.up)
      /\ \A t \in Session \ {s} : client'[t] = client[t]
    BY TakenFrom
<1>2. /\ committed' = committed /\ trimmed' = trimmed
      /\ member' = [member EXCEPT ![s] = "ready"]
      /\ down' = [down EXCEPT ![s] = Append(@, reply)]
    BY DEF RoomHello
<1>3. /\ member'[s] = "ready" /\ down'[s] = Append(q, reply)
      /\ \A t \in Session \ {s} :
            member'[t] = member[t] /\ down'[t] = down[t]
    <2> HIDE DEF reply
    <2>1. QED
        BY <1>2, AgreementTypes
<1>4. RoomTypeOK
    BY DEF TypeOK
<1>5. reply = IF m.since # Fresh /\ OldestBase <= m.since
                 /\ m.since <= Revision
              THEN CatchUp(LogAfter(m.since))
              ELSE Welcome(Revision, DocumentAt(Revision))
    OBVIOUS
<1> HIDE DEF cl, q, mem, next, reply
<1>6. InSync(committed, trimmed, s, next, Append(q, reply), "ready")
    BY <1>1, <1>4, <1>5, InSyncHello, ZenonT(60)
<1>7. InSync(committed, trimmed, s, client'[s], down'[s], member'[s])
    BY <1>3, <1>6 DEF next
<1>8. QED
    BY <1>1, <1>2, <1>3, <1>7, OnlyOne

LEMMA AckAgainAgrees ==
    ASSUME TypeOK, Bookkeeping, Agreement, NEW s \in Session,
           NEW m, TakesFrom(s, m), m.type = "submit", member[s] = "ready",
           AckAgain(s, m)
    PROVE  Agreement'
<1> DEFINE cl == client[s]
           q == down[s]
           next == client'[s]
<1>1. PICK k \in Logged :
          /\ committed[k].batchId = m.batchId
          /\ Post(s, <<Ack(m.batchId, k)>>, <<>>)
    BY DEF AckAgain
<1> DEFINE ack == Ack(m.batchId, k)
<1>2. /\ cl \in Client /\ cl.up # <<>> /\ next = [cl EXCEPT !.up = Tail(@)]
      /\ InSync(committed, trimmed, s, cl, q, "ready")
      /\ q \in Seq(ServerMessage) /\ m = Head(cl.up) /\ m \in ClientMessage
      /\ ClientAhead(committed, s, cl)
      /\ \A t \in Session \ {s} : client'[t] = client[t]
    BY TakenFrom
<1>3. /\ committed' = committed /\ trimmed' = trimmed /\ member' = member
    BY DEF AckAgain
<1>4. k \in DOMAIN committed /\ k \in Nat /\ committed[k].batchId = m.batchId
    BY <1>1, AgreementTypes DEF Logged, Revision
<1>5. ack \in ServerMessage
    <2>1. m.batchId \in BatchId
        BY <1>2 DEF ClientMessage
    <2>2. QED
        BY <1>4, <2>1, MessageTypes
<1>6. down'[s] = Append(q, ack)
    <2>1. down'[s] = q \o <<ack>>
        BY <1>1, PostedTo
    <2> HIDE DEF q, ack
    <2>2. QED
        BY <1>2, <1>5, <2>1, PostedIs
<1>7. \A t \in Session \ {s} : down'[t] = down[t]
    BY <1>1, OnlyReplied
<1>8. committed \in Seq(CommittedOp) /\ trimmed \in Nat
    BY AgreementTypes
<1> HIDE DEF cl, q, next
<1>9. InSync(committed, trimmed, s, next, Append(q, ack), "ready")
    BY <1>2, <1>4, <1>8, InSyncAckAgain
<1>10. InSync(committed, trimmed, s, client'[s], down'[s], member'[s])
    BY <1>3, <1>6, <1>9 DEF next
<1>11. QED
    BY <1>2, <1>3, <1>7, <1>10, OnlyOne
LEMMA RefuseAgrees ==
    ASSUME TypeOK, Bookkeeping, Agreement, NEW s \in Session,
           NEW m, TakesFrom(s, m), m.type = "submit", member[s] = "ready",
           Refuse(s, m), Patient \/ Unrefused'
    PROVE  Agreement'
<1> DEFINE cl == client[s]
           q == down[s]
           next == client'[s]
           reject == Reject(m.batchId)
           resync == Resync(Revision, DocumentAt(Revision))
<1>1. /\ Post(s, <<reject, resync>>, <<>>)
      /\ committed' = committed /\ trimmed' = trimmed /\ member' = member
    BY DEF Refuse
<1>2. /\ cl \in Client /\ cl.up # <<>> /\ next = [cl EXCEPT !.up = Tail(@)]
      /\ InSync(committed, trimmed, s, cl, q, "ready")
      /\ q \in Seq(ServerMessage) /\ m = Head(cl.up) /\ m \in ClientMessage
      /\ ClientAhead(committed, s, cl)
      /\ \A t \in Session \ {s} : client'[t] = client[t]
    BY TakenFrom
<1>3. /\ committed \in Seq(CommittedOp) /\ trimmed \in Nat
      /\ Revision = Len(committed) /\ Len(committed) \in Nat
      /\ DocumentAt(Revision) = DocumentOf(committed, Len(committed))
    BY AgreementTypes DEF Revision, DocumentAt, DocumentOf
<1>4. reject \in ServerMessage /\ reject.type = "reject"
    <2>1. m.batchId \in BatchId
        BY <1>2 DEF ClientMessage
    <2>2. QED
        BY <2>1, MessageTypes DEF Reject
<1>5. resync \in ServerMessage
    <2>1. DocumentOf(committed, Len(committed)) \in Document
        BY <1>3, DocumentOfType
    <2>2. QED
        BY <1>3, <2>1, MessageTypes
<1>6. resync = Resync(Len(committed), DocumentOf(committed, Len(committed)))
    BY <1>3
<1>7. down'[s] = q \o <<reject, resync>>
    BY <1>1, PostedTo
<1>8. \A t \in Session \ {s} : down'[t] = down[t]
    BY <1>1, OnlyReplied
<1> HIDE DEF resync, cl, q, next
<1>9. down'[s] = Append(Append(q, reject), resync)
    <2> HIDE DEF reject
    <2>1. QED
        BY <1>2, <1>4, <1>5, <1>7, PostedIs
<1>10. Patient
    <2>1. Len(q) + 1 \in DOMAIN down'[s] /\ down'[s][Len(q) + 1] = reject
        <3> HIDE DEF reject
        <3>1. QED
            BY <1>2, <1>4, <1>5, <1>9
    <2>2. ~Unrefused'
        BY <1>4, <2>1 DEF Unrefused
    <2>3. QED
        BY <2>2
<1>11. /\ EndsAt(committed, trimmed, s, next, Append(q, reject), "ready",
                 Len(committed))
       /\ Calm(next, Append(q, reject))
    BY <1>2, <1>3, <1>10, InSyncRejected
<1> HIDE DEF reject
<1>12. /\ Append(q, reject) \in Seq(ServerMessage)
       /\ Append(q, reject) # <<>>
    BY <1>2, <1>4
<1>13. next \in Client
    <2>1. Tail(cl.up) \in Seq(ClientMessage)
        <3>1. cl.up \in Seq(ClientMessage)
            BY <1>2 DEF Client
        <3>2. QED
            BY <1>2, <3>1
    <2>2. QED
        BY <1>2, <2>1 DEF Client
<1>14. InSync(committed, trimmed, s, next, down'[s], "ready")
    BY <1>3, <1>6, <1>9, <1>10, <1>11, <1>12, <1>13, InSyncRefused
<1>15. InSync(committed, trimmed, s, client'[s], down'[s], member'[s])
    BY <1>1, <1>14 DEF next
<1>16. QED
    BY <1>1, <1>2, <1>8, <1>15, OnlyOne

LEMMA FailToApplyAgrees ==
    ASSUME TypeOK, Bookkeeping, Agreement, NEW s \in Session,
           NEW m, TakesFrom(s, m), m.type = "submit", member[s] = "ready",
           FailToApply(s, m), Patient \/ Unrefused'
    PROVE  Agreement'
<1> DEFINE cl == client[s]
           q == down[s]
           next == client'[s]
           tr2 == trimmed'
           reject == Reject(m.batchId)
<1>1. /\ Post(s, <<reject>>, <<>>) /\ Rebuilt
      /\ \A t \in Session : member'[t] = "none"
    BY DEF FailToApply, AllLeave
<1>2. /\ cl \in Client /\ cl.up # <<>> /\ next = [cl EXCEPT !.up = Tail(@)]
      /\ InSync(committed, trimmed, s, cl, q, "ready")
      /\ q \in Seq(ServerMessage) /\ m = Head(cl.up) /\ m \in ClientMessage
      /\ ClientAhead(committed, s, cl)
      /\ \A t \in Session \ {s} : client'[t] = client[t]
    BY TakenFrom
<1>3. /\ committed \in Seq(CommittedOp) /\ trimmed \in Nat
      /\ committed' = committed /\ tr2 \in Nat /\ trimmed <= tr2
    BY <1>1, AgreementTypes DEF Rebuilt, Revision
<1>4. reject \in ServerMessage /\ reject.type = "reject"
    <2>1. m.batchId \in BatchId
        BY <1>2 DEF ClientMessage
    <2>2. QED
        BY <2>1, MessageTypes DEF Reject
<1>5. down'[s] = q \o <<reject>>
    BY <1>1, PostedTo
<1>6. \A t \in Session \ {s} : down'[t] = down[t]
    BY <1>1, OnlyReplied
<1> HIDE DEF cl, q, next, tr2
<1>7. down'[s] = Append(q, reject)
    <2> HIDE DEF reject
    <2>1. QED
        BY <1>2, <1>4, <1>5, PostedIs
<1>8. Patient
    <2>1. Len(q) + 1 \in DOMAIN down'[s] /\ down'[s][Len(q) + 1] = reject
        <3> HIDE DEF reject
        <3>1. QED
            BY <1>2, <1>4, <1>7
    <2>2. ~Unrefused'
        BY <1>4, <2>1 DEF Unrefused
    <2>3. QED
        BY <2>2
<1>9. EndsAt(committed, trimmed, s, next, Append(q, reject), "ready",
             Len(committed))
    BY <1>2, <1>3, <1>8, InSyncRejected
<1> HIDE DEF reject
<1>10. InSync(committed, trimmed, s, next, Append(q, reject), "ready")
    BY <1>9 DEF EndsAt, InSync
<1>11. next \in Client /\ Append(q, reject) \in Seq(ServerMessage)
    <2>1. Tail(cl.up) \in Seq(ClientMessage)
        <3>1. cl.up \in Seq(ClientMessage)
            BY <1>2 DEF Client
        <3>2. QED
            BY <1>2, <3>1
    <2>2. next \in Client
        BY <1>2, <2>1 DEF Client
    <2>3. QED
        BY <1>2, <1>4, <2>2
<1>12. InSync(committed, tr2, s, next, Append(q, reject), "none")
    BY <1>3, <1>10, <1>11, InSyncTrimmed
<1>13. ASSUME NEW t \in Session
       PROVE  InSync(committed', trimmed', t, client'[t], down'[t], member'[t])
    <2>1. CASE t = s
        BY <1>1, <1>3, <1>7, <1>12, <2>1 DEF next, tr2
    <2>2. CASE t # s
        <3>1. /\ client[t] \in Client /\ down[t] \in Seq(ServerMessage)
              /\ InSync(committed, trimmed, t, client[t], down[t], member[t])
            BY AgreementTypes DEF Agreement
        <3>2. "none" \in {member[t], "none"}
            OBVIOUS
        <3>3. InSync(committed, tr2, t, client[t], down[t], "none")
            BY <1>3, <3>1, <3>2, InSyncTrimmed
        <3>4. QED
            BY <1>1, <1>2, <1>3, <1>6, <2>2, <3>3 DEF tr2
    <2>3. QED
        BY <2>1, <2>2
<1>14. QED
    BY <1>13 DEF Agreement

LEMMA CommitAgrees ==
    ASSUME TypeOK, Bookkeeping, Agreement, NEW s \in Session,
           NEW m, TakesFrom(s, m), m.type = "submit", member[s] = "ready",
           Commit(s, m)
    PROVE  Agreement'
<1> DEFINE cl == client[s]
           q == down[s]
           next == client'[s]
           tr2 == trimmed'
           b == Revision + 1
           entry == [op |-> PastLog(m.op, m.base), batchId |-> m.batchId]
           ack == Ack(m.batchId, b)
           c == [revision |-> b, op |-> entry.op, batchId |-> entry.batchId]
           news == Remote(c)
<1>1. /\ ~InLog(m.batchId) /\ ~Stale(m.base)
      /\ Remember(entry) /\ Post(s, <<ack>>, <<news>>) /\ member' = member
    BY DEF Commit
<1>2. /\ cl \in Client /\ cl.up # <<>> /\ next = [cl EXCEPT !.up = Tail(@)]
      /\ InSync(committed, trimmed, s, cl, q, "ready")
      /\ q \in Seq(ServerMessage) /\ m = Head(cl.up) /\ m \in ClientMessage
      /\ ClientAhead(committed, s, cl)
      /\ \A t \in Session \ {s} : client'[t] = client[t]
    BY TakenFrom
<1>3. /\ committed \in Seq(CommittedOp) /\ trimmed \in Nat
      /\ Revision = Len(committed) /\ Len(committed) \in Nat
      /\ trimmed <= Len(committed) /\ b \in Nat
    BY AgreementTypes DEF Revision
<1>4. m.batchId \in BatchId /\ m.base \in Nat /\ m.op \in Op
    BY <1>2 DEF ClientMessage
<1>5. trimmed <= m.base /\ m.base <= Len(committed)
    BY <1>1, <1>3, <1>4 DEF Stale, OldestBase
<1>6. /\ Carries(committed, m.op, m.base, PastLog(m.op, m.base), Revision)
      /\ PastLog(m.op, m.base) \in Op
    <2>1. m.base \in trimmed .. Revision /\ m.base \in 0 .. Revision
        BY <1>3, <1>4, <1>5
    <2>2. QED
        BY <1>4, <2>1, PastLogCarries, PastLogType DEF TypeOK
<1>7. /\ entry \in CommittedOp /\ entry.op = PastLog(m.op, m.base)
      /\ entry.batchId = m.batchId /\ entry.op \in Op
    BY <1>4, <1>6 DEF CommittedOp
<1> HIDE DEF entry
<1>8. c \in NumberedOp /\ c.revision = b
    BY <1>3, <1>4, <1>7 DEF NumberedOp
<1> HIDE DEF c
<1>9. /\ ack \in ServerMessage /\ news \in ServerMessage
      /\ news.type = "op" /\ news.committed.revision = Len(committed) + 1
    BY <1>3, <1>4, <1>8, MessageTypes DEF Remote
<1>10. /\ committed' = Append(committed, entry)
       /\ tr2 \in Nat /\ trimmed <= tr2
    BY <1>1, <1>7, RememberTrims
<1>11. down'[s] = q \o <<ack>>
    BY <1>1, PostedTo
<1>12. \A k \in DOMAIN committed :
           committed[k].batchId = m.batchId => k <= trimmed
    <2>1. \A k \in DOMAIN committed : ~(k <= trimmed) => k \in Logged
        BY <1>3 DEF Logged
    <2>2. QED
        BY <1>1, <2>1 DEF InLog
<1>13. ack = Ack(m.batchId, Len(committed) + 1)
    BY <1>3
<1>14. m.batchId[1] = s
    <2>1. 1 \in DOMAIN cl.up /\ m = cl.up[1]
        <3>1. cl.up \in Seq(ClientMessage)
            BY <1>2 DEF Client
        <3>2. QED
            BY <1>2, <3>1
    <2>2. QED
        BY <1>2, <2>1 DEF ClientAhead, SubmitAhead
<1> HIDE DEF cl, q, next, ack, news
<1>15. down'[s] = Append(q, ack)
    BY <1>2, <1>9, <1>11, PostedIs
<1>16. Carries(committed, m.op, m.base, entry.op, Len(committed))
    BY <1>3, <1>6, <1>7
<1>17. InSync(Append(committed, entry), tr2, s, next, Append(q, ack), "ready")
    <2> HIDE DEF tr2
    <2>1. InSync(Append(committed, entry), tr2, s, next,
                 Append(q, Ack(m.batchId, Len(committed) + 1)), "ready")
        BY <1>2, <1>3, <1>5, <1>7, <1>10, <1>12, <1>16, InSyncCommitted,
           ZenonT(60)
    <2>2. QED
        BY <1>13, <2>1
<1>18. ASSUME NEW t \in Session
       PROVE  InSync(committed', trimmed', t, client'[t], down'[t], member'[t])
    <2>1. CASE t = s
        BY <1>1, <1>10, <1>15, <1>17, <2>1 DEF next
    <2>2. CASE t # s
        <3>1. entry.batchId[1] # t /\ client'[t] = client[t]
            BY <1>2, <1>7, <1>14, <2>2
        <3>2. QED
            BY <1>1, <1>7, <1>9, <1>10, <2>2, <3>1, NewsAgrees
    <2>3. QED
        BY <2>1, <2>2
<1>19. QED
    BY <1>18 DEF Agreement
LEMMA ToRoomAgrees ==
    ASSUME TypeOK, Bookkeeping, Agreement, Patient \/ Unrefused',
           NEW s \in Session, ToRoom(s)
    PROVE  Agreement'
<1> DEFINE m == Head(client[s].up)
<1>1. TakesFrom(s, m)
    BY DEF ToRoom, TakesFrom
<1>2. m \in ClientMessage
    BY <1>1, TakenFrom
<1>3. m.type \in {"hello", "submit"}
    BY <1>2 DEF ClientMessage
<1>4. \/ UNCHANGED roomVars
      \/ m.type = "hello" /\ RoomHello(s, m.since)
      \/ m.type = "submit" /\ RoomSubmit(s, m, member[s] = "ready")
    BY <1>3 DEF ToRoom
<1> HIDE DEF m
<1>5. CASE UNCHANGED roomVars
    BY <1>1, <1>5, IgnoreAgrees
<1>6. CASE m.type = "hello" /\ RoomHello(s, m.since)
    BY <1>1, <1>6, HelloAgrees
<1>7. CASE m.type = "submit" /\ RoomSubmit(s, m, member[s] = "ready")
    <2>1. CASE member[s] # "ready"
        BY <1>5, <1>7, <2>1 DEF RoomSubmit
    <2>2. CASE member[s] = "ready"
        <3>1. AckAgain(s, m) \/ Refuse(s, m) \/ Commit(s, m)
                \/ FailToApply(s, m)
            BY <1>7, <2>2 DEF RoomSubmit
        <3>2. CASE AckAgain(s, m)
            BY <1>1, <1>7, <2>2, <3>2, AckAgainAgrees
        <3>3. CASE Refuse(s, m)
            BY <1>1, <1>7, <2>2, <3>3, RefuseAgrees
        <3>4. CASE Commit(s, m)
            BY <1>1, <1>7, <2>2, <3>4, CommitAgrees
        <3>5. CASE FailToApply(s, m)
            BY <1>1, <1>7, <2>2, <3>5, FailToApplyAgrees
        <3>6. QED
            BY <3>1, <3>2, <3>3, <3>4, <3>5
    <2>3. QED
        BY <2>1, <2>2
<1>8. QED
    BY <1>4, <1>5, <1>6, <1>7

(* Every step of the system keeps every session on course.                 *)
LEMMA AgreementStep ==
    /\ ~LateDelivery /\ TypeOK /\ Bookkeeping /\ Agreement
    /\ Patient \/ (Unrefused /\ Unrefused')
    /\ [Next]_vars
    => Agreement'
<1> SUFFICES ASSUME ~LateDelivery, TypeOK, Bookkeeping, Agreement,
                    Patient \/ (Unrefused /\ Unrefused'), [Next]_vars
             PROVE  Agreement'
    OBVIOUS
<1>1. CASE UNCHANGED vars
    BY <1>1 DEF vars, Agreement
<1>2. ASSUME NEW s \in Session, Connect(s) PROVE Agreement'
    BY <1>2, ConnectAgrees
<1>3. ASSUME NEW s \in Session, Disconnect(s) \/ HungUp(s) PROVE Agreement'
    BY <1>3, SocketGoneAgrees DEF Disconnect, HungUp
<1>4. ASSUME NEW s \in Session, Edit(s) PROVE Agreement'
    BY <1>4, EditAgrees
<1>5. ASSUME NEW s \in Session, ToRoom(s) PROVE Agreement'
    BY <1>5, ToRoomAgrees
<1>6. ASSUME NEW s \in Session, LateToRoom(s) PROVE Agreement'
    BY <1>6 DEF LateToRoom, Bookkeeping
<1>7. ASSUME NEW s \in Session, ToClient(s) PROVE Agreement'
    BY <1>7, ToClientAgrees
<1>8. CASE ServerOp
    BY <1>8, ServerOpAgrees
<1>9. CASE Restore
    BY <1>9, RestoreAgrees
<1>10. CASE Stop \/ Sleep
    BY <1>10, StopAgrees
<1>11. QED
    BY <1>1, <1>2, <1>3, <1>4, <1>5, <1>6, <1>7, <1>8, <1>9, <1>10 DEF Next

LEMMA AgreementInit == Init => Agreement
<1> SUFFICES ASSUME Init, NEW s \in Session
             PROVE  InSync(committed, trimmed, s, client[s], down[s],
                           member[s])
    BY DEF Agreement
<1> DEFINE cl == NewClient
           rev == [i \in 0 .. 0 |-> 0]
<1>1. /\ committed = <<>> /\ client[s] = cl /\ down[s] = <<>>
      /\ member[s] = "none"
    BY DEF Init, RoomInit, ClientInit
<1>2. /\ cl.open = FALSE /\ cl.loaded = FALSE /\ cl.doc = <<>>
      /\ cl.revision = 0 /\ cl.inflight = <<>> /\ cl.buffer = <<>>
      /\ cl.up = <<>>
    BY DEF NewClient
<1>3. Len(<<>>) = 0 /\ DOMAIN <<>> = {} /\ rev[0] = 0
    OBVIOUS
<1>4. rev \in [0 .. Len(<<>>) -> Nat]
    BY <1>3
<1> HIDE DEF cl, rev
<1>5. Synced(<<>>, trimmed, s, cl)
    BY <1>2, <1>3 DEF Synced, OwnAhead, Own
<1>6. Connected(cl, <<>>, "none")
    BY <1>2, <1>3 DEF Connected
<1>7. Waiting(<<>>, s, cl, <<>>)
    BY <1>2, <1>3 DEF Waiting
<1>8. Path(<<>>, s, cl, <<>>, rev)
    <2>1. \A i, j \in 0 .. 0 : i <= j => rev[i] <= rev[j]
        BY <1>3
    <2>2. 1 .. 0 = {}
        OBVIOUS
    <2>3. QED
        BY <1>2, <1>3, <2>1, <2>2 DEF Path
<1>9. Fenced(<<>>, trimmed, s, cl, <<>>, rev)
    BY <1>3 DEF Fenced
<1>10. OnCourse(<<>>, trimmed, s, cl, <<>>, "none", rev)
    BY <1>5, <1>6, <1>7, <1>8, <1>9 DEF OnCourse
<1>11. QED
    BY <1>1, <1>4, <1>10 DEF InSync
-----------------------------------------------------------------------------
(* What sessions on course have in common with the room.                   *)
LEMMA AgreementShowsDocument == Agreement => DocumentMatchesRoom
<1> SUFFICES ASSUME Agreement, NEW s \in Session, client[s].loaded
             PROVE  /\ client[s].revision <= Revision
                    /\ client[s].doc = DocumentAt(client[s].revision)
                                          \o Pending(client[s])
    BY DEF DocumentMatchesRoom
<1>1. Synced(committed, trimmed, s, client[s])
    BY DEF Agreement, InSync, OnCourse
<1>2. QED
    BY <1>1 DEF Synced, Revision, DocumentOf, DocumentAt

(* A quiet session has nothing to come, so the path it is on has no step   *)
(* left and ends at the room's revision.                                   *)
LEMMA AgreementConverges == TypeOK /\ Agreement => Convergence
<1> SUFFICES ASSUME TypeOK, Agreement, NEW s \in Session, Quiet(s)
             PROVE  client[s].doc = DocumentAt(Revision)
    BY DEF Convergence
<1> DEFINE cl == client[s]
<1>1. /\ member[s] = "ready" /\ down[s] = <<>> /\ Pending(cl) = <<>>
    BY DEF Quiet
<1>2. PICK rev \in [0 .. Len(down[s]) -> Nat] :
          /\ OnCourse(committed, trimmed, s, cl, down[s], member[s], rev)
          /\ rev[Len(down[s])] = Len(committed)
    BY <1>1 DEF Agreement, InSync
<1>3. Len(<<>>) = 0
    OBVIOUS
<1>4. cl.revision = Revision
    BY <1>1, <1>2, <1>3 DEF OnCourse, Path, Revision
<1>5. cl.loaded
    <2>1. Connected(cl, down[s], member[s]) /\ cl.loaded \in BOOLEAN
        BY <1>2 DEF OnCourse, TypeOK, ClientTypeOK, Client
    <2>2. QED
        BY <1>1, <2>1 DEF Connected
<1>6. cl.doc = DocumentAt(cl.revision) \o Pending(cl)
    BY <1>5, AgreementShowsDocument DEF DocumentMatchesRoom
<1>7. DocumentAt(Revision) \in Seq(Op \cup {Restored})
    <2>1. RoomTypeOK /\ Revision \in 0 .. Revision
        BY DEF TypeOK, RoomTypeOK, Revision
    <2>2. DocumentAt(Revision) \in Document
        BY <2>1, DocumentAtType
    <2>3. QED
        BY <2>2 DEF Document
<1>8. DocumentAt(Revision) \o <<>> = DocumentAt(Revision)
    BY <1>7
<1>9. QED
    BY <1>1, <1>4, <1>6, <1>8

(* The first message under way leads on from the revision the client has.  *)
LEMMA AgreementHasNoGap == TypeOK /\ Agreement => NoOpIgnored
<1> SUFFICES ASSUME TypeOK, Agreement, NEW s \in Session, down[s] # <<>>,
                    Head(down[s]).type = "op"
             PROVE  /\ client[s].loaded
                    /\ Head(down[s]).committed.revision
                          = client[s].revision + 1
    BY DEF NoOpIgnored
<1> DEFINE cl == client[s]
           q == down[s]
<1>1. q \in Seq(ServerMessage) /\ cl.loaded \in BOOLEAN
    BY DEF TypeOK, RoomTypeOK, ClientTypeOK, Client
<1>2. Len(q) \in Nat /\ Len(q) >= 1 /\ q[1] = Head(q)
    BY <1>1
<1>3. PICK rev \in [0 .. Len(q) -> Nat] :
          OnCourse(committed, trimmed, s, cl, q, member[s], rev)
    BY DEF Agreement, InSync
<1>4. cl.loaded
    <2>1. Connected(cl, q, member[s])
        BY <1>3 DEF OnCourse
    <2>2. QED
        BY <1>1, <1>2, <2>1 DEF Connected
<1>5. rev[0] = cl.revision /\ Leads(committed, s, q[1], rev[1 - 1], rev[1])
    BY <1>2, <1>3 DEF OnCourse, Path
<1>6. QED
    BY <1>2, <1>4, <1>5 DEF Leads

(* Only what the browser receives moves its revision.                      *)
LEMMA RevisionStep ==
    /\ ~LateDelivery /\ TypeOK /\ Bookkeeping /\ Agreement
    /\ Patient \/ Unrefused
    /\ [Next]_vars
    => \A s \in Session : client'[s].revision >= client[s].revision
<1> SUFFICES ASSUME ~LateDelivery, TypeOK, Bookkeeping, Agreement,
                    Patient \/ Unrefused, [Next]_vars, NEW t \in Session
             PROVE  client'[t].revision >= client[t].revision
    OBVIOUS
<1>0. /\ client \in [Session -> Client] /\ client[t] \in Client
      /\ client[t].revision \in Nat
    BY DEF TypeOK, ClientTypeOK, Client
<1> DEFINE Moves(s, next) ==
        /\ client' = [client EXCEPT ![s] = next]
        /\ next.revision = client[s].revision
<1>1. ASSUME NEW s \in Session, NEW next, Moves(s, next)
      PROVE  client'[t].revision >= client[t].revision
    BY <1>0, <1>1
<1>2. ASSUME client' = client PROVE client'[t].revision >= client[t].revision
    BY <1>0, <1>2
<1>3. ASSUME NEW s \in Session, Connect(s)
      PROVE  client'[t].revision >= client[t].revision
    <2>1. PICK up : client' = [client EXCEPT ![s] =
                        [client[s] EXCEPT !.open = TRUE, !.up = up]]
        BY <1>3 DEF Connect, Open, Update
    <2>2. Moves(s, [client[s] EXCEPT !.open = TRUE, !.up = up])
        BY <1>0, <2>1 DEF Client
    <2>3. QED
        BY <1>1, <2>2
<1>4. ASSUME NEW s \in Session, Disconnect(s) \/ HungUp(s)
      PROVE  client'[t].revision >= client[t].revision
    <2>1. Moves(s, [client[s] EXCEPT !.open = FALSE, !.up = <<>>])
        BY <1>0, <1>4 DEF Disconnect, HungUp, SocketGone, Close, Update, Client
    <2>2. QED
        BY <1>1, <2>1
<1>5. ASSUME NEW s \in Session, Edit(s)
      PROVE  client'[t].revision >= client[t].revision
    <2>1. PICK op \in EditsOf(s) : Apply(s, op)
        BY <1>5 DEF Edit
    <2> DEFINE next == Applied(s, client[s], op)
    <2>2. op \in Op /\ client[s] \in Client
        BY <1>0, EnvironmentAssumption
    <2>3. client' = [client EXCEPT ![s] = next]
        BY <2>1 DEF Apply, Update
    <2> HIDE DEF next
    <2>4. Edited(s, client[s], next)
        BY <2>2, AppliedFields DEF next
    <2>5. Moves(s, next)
        BY <2>3, <2>4 DEF Edited
    <2>6. QED
        BY <1>1, <2>5
<1>6. ASSUME NEW s \in Session, ToRoom(s)
      PROVE  client'[t].revision >= client[t].revision
    <2>1. Moves(s, [client[s] EXCEPT !.up = Tail(@)])
        BY <1>0, <1>6 DEF ToRoom, Update, Client
    <2>2. QED
        BY <1>1, <2>1
<1>7. ASSUME NEW s \in Session, ToClient(s)
      PROVE  client'[t].revision >= client[t].revision
    <2>1. client'[s].revision >= client[s].revision
        BY <1>7, ToClientAgrees
    <2>2. client' = [client EXCEPT ![s] =
                        Received(s, client[s], Head(down[s]))]
        BY <1>7 DEF ToClient, Update
    <2>3. t # s => client'[t] = client[t]
        BY <2>2
    <2>4. QED
        BY <1>0, <2>1, <2>3
<1>8. CASE \/ \E s \in Session : LateToRoom(s)
           \/ ServerOp \/ Restore \/ Stop \/ Sleep \/ UNCHANGED vars
    BY <1>2, <1>8 DEF LateToRoom, ServerOp, Restore, Stop, Sleep, vars
<1>9. QED
    BY <1>3, <1>4, <1>5, <1>6, <1>7, <1>8 DEF Next

-----------------------------------------------------------------------------
(* Everybody waits for the answer to an edit, or no refusal is under way:  *)
(* the client forgets a batch it is refused, but not what it sent after.   *)
Answered == Patient \/ Unrefused

(* Every session stays on course for the room's revision: the invariant    *)
(* the theorems below rest on.                                             *)
THEOREM SessionsStayOnCourse ==
    ~LateDelivery => (Spec /\ []Answered => []Agreement)
<1>1. SUFFICES ASSUME ~LateDelivery PROVE Spec /\ []Answered => []Agreement
    OBVIOUS
<1>2. /\ TypeOK /\ Bookkeeping /\ Agreement /\ Answered /\ Answered'
      /\ [Next]_vars
      => Agreement'
    BY <1>1, AgreementStep DEF Answered
<1>3. Spec => []Bookkeeping
    BY <1>1, BooksBalance
<1>4. QED
    BY <1>2, <1>3, AgreementInit, TypeCorrect, PTL DEF Spec

(* Every browser shows the room's document at its revision with its own    *)
(* unacked edits on top, whatever the transform is: the rebase of          *)
(* client.ts agrees with the transforms of room.ts through lost sockets,   *)
(* catch-ups, refusals, trimmed logs and restored versions.                *)
THEOREM BrowsersShowTheDocument ==
    ~LateDelivery => (Spec /\ []Answered => []DocumentMatchesRoom)
<1>1. SUFFICES ASSUME ~LateDelivery
               PROVE  Spec /\ []Answered => []DocumentMatchesRoom
    OBVIOUS
<1>2. Spec /\ []Answered => []Agreement
    BY <1>1, SessionsStayOnCourse
<1>3. QED
    BY <1>2, AgreementShowsDocument, PTL

(* "Every replica therefore runs the same ops in the same order, and the   *)
(* document converges" (client.ts): whoever has received all the room had  *)
(* for it and has no edit pending shows the room's document.               *)
THEOREM ReplicasConverge ==
    ~LateDelivery => (Spec /\ []Answered => []Convergence)
<1>1. SUFFICES ASSUME ~LateDelivery
               PROVE  Spec /\ []Answered => []Convergence
    OBVIOUS
<1>2. Spec /\ []Answered => []Agreement
    BY <1>1, SessionsStayOnCourse
<1>3. QED
    BY <1>2, AgreementConverges, TypeCorrect, PTL

(* No browser is ever sent an op that is not the next one for it, which    *)
(* remote() in client.ts would drop without asking for the gap.            *)
THEOREM NoGapReachesABrowser ==
    ~LateDelivery => (Spec /\ []Answered => []NoOpIgnored)
<1>1. SUFFICES ASSUME ~LateDelivery
               PROVE  Spec /\ []Answered => []NoOpIgnored
    OBVIOUS
<1>2. Spec /\ []Answered => []Agreement
    BY <1>1, SessionsStayOnCourse
<1>3. QED
    BY <1>2, AgreementHasNoGap, TypeCorrect, PTL

(* No message takes a browser back to an earlier revision: not a resync, a *)
(* restored version nor an ack that comes after the op was caught up with. *)
THEOREM RevisionsOnlyGrow ==
    ~LateDelivery => (Spec /\ []Answered => RevisionNeverRegresses)
<1>1. SUFFICES ASSUME ~LateDelivery
               PROVE  Spec /\ []Answered => RevisionNeverRegresses
    OBVIOUS
<1>2. Spec /\ []Answered => []Agreement
    BY <1>1, SessionsStayOnCourse
<1>3. Spec => []Bookkeeping
    BY <1>1, BooksBalance
<1>4. TypeOK /\ Bookkeeping /\ Agreement /\ Answered /\ [Next]_vars
      => [\A s \in Session : client'[s].revision >= client[s].revision]_vars
    BY <1>1, RevisionStep DEF Answered
<1>5. QED
    BY <1>2, <1>3, <1>4, TypeCorrect, PTL DEF Spec, RevisionNeverRegresses
=============================================================================
