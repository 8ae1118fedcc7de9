-------------------------- MODULE MailboxCopy_proofs --------------------------
(***************************************************************************)
(* What is proved of MailboxCopy for every number of messages, size of a   *)
(* page, number of attempts and bound: its types; that what is pending has *)
(* an alarm; that a backfill that is done has missed no message; and that  *)
(* it has left no content behind.                                          *)
(*                                                                         *)
(* The last two rest on what each state of the backfill owes: which of the *)
(* messages that are not in the object, or not as they are in Postgres,    *)
(* are still ahead of its cursor.                                          *)
(***************************************************************************)
EXTENDS MailboxCopy, FiniteSetTheorems, InductionFacts

-----------------------------------------------------------------------------
(* The order of the cursors.                                               *)

(* Cursors are pairs of numbers.                                           *)
LEMMA CursorParts ==
    ASSUME NEW k \in Cursor
    PROVE  k[1] \in Nat /\ k[2] \in Nat /\ k = <<k[1], k[2]>>
           /\ k[1] <= MaxWrites + 2 /\ k[2] <= Messages
  BY MailboxBounds DEF Cursor, Time

(* Cursors are ordered.                                                    *)
LEMMA BeforeOrders ==
    ASSUME NEW i \in Cursor, NEW j \in Cursor, NEW k \in Cursor
    PROVE  /\ ~Before(i, i)
           /\ Before(i, j) \/ Before(j, i) \/ i = j
           /\ Before(i, j) /\ Before(j, k) => Before(i, k)
           /\ ~Before(j, i) /\ Before(j, k) => Before(i, k)
  BY CursorParts DEF Before

(* Some cursors have a first.                                              *)
LEMMA FirstCursor ==
    ASSUME NEW K \in SUBSET Cursor, K # {}
    PROVE  \E k \in K : \A j \in K : ~Before(j, k)
<1> DEFINE A == {k[1] : k \in K}
<1>1. A \subseteq Nat /\ A # {}
  BY CursorParts
<1> HIDE DEF A
<1>2. PICK a \in A : \A x \in A : a <= x
  BY <1>1, LeastNatural, Zenon
<1> DEFINE B == {k[2] : k \in {k \in K : k[1] = a}}
<1>3. B \subseteq Nat /\ B # {}
  BY <1>2, CursorParts DEF A
<1> HIDE DEF B
<1>4. PICK b \in B : \A x \in B : b <= x
  BY <1>3, LeastNatural, Zenon
<1>5. PICK k \in K : k[1] = a /\ k[2] = b
  BY <1>4 DEF B
<1>6. ASSUME NEW j \in K PROVE ~Before(j, k)
  <2>1. a <= j[1] /\ (j[1] = a => b <= j[2])
    BY <1>2, <1>4 DEF A, B
  <2>2. QED
    BY <1>5, <2>1, CursorParts DEF Before
<1>7. QED
  BY <1>6

(* Some cursors have a last, as there are only so many.                    *)
LEMMA LastCursor ==
    ASSUME NEW K \in SUBSET Cursor, K # {}
    PROVE  \E k \in K : \A j \in K : ~Before(k, j)
<1> DEFINE A == {n \in Nat : \A k \in K : k[1] <= n}
<1>1. MaxWrites + 2 \in A
  BY CursorParts, MailboxBounds
<1>2. PICK a \in A : \A x \in A : a <= x
  <2>1. A \subseteq Nat /\ A # {}
    BY <1>1
  <2> HIDE DEF A
  <2>2. QED
    BY <2>1, LeastNatural, Zenon
<1>3. PICK k1 \in K : k1[1] = a
  <2>1. SUFFICES ASSUME \A k \in K : k[1] # a PROVE FALSE
    OBVIOUS
  <2>2. PICK k \in K : TRUE
    OBVIOUS
  <2>3. a - 1 \in A
    BY <2>1, <2>2, CursorParts
  <2>4. QED
    BY <1>2, <2>3
<1> DEFINE B == {n \in Nat : \A k \in K : k[1] = a => k[2] <= n}
<1>4. Messages \in B
  BY CursorParts, MailboxBounds
<1>5. PICK b \in B : \A x \in B : b <= x
  <2>1. B \subseteq Nat /\ B # {}
    BY <1>4
  <2> HIDE DEF B
  <2>2. QED
    BY <2>1, LeastNatural, Zenon
<1>6. PICK k \in K : k[1] = a /\ k[2] = b
  <2>1. SUFFICES ASSUME \A k \in K : k[1] = a => k[2] # b PROVE FALSE
    OBVIOUS
  <2>2. b - 1 \in B
    BY <1>3, <2>1, CursorParts
  <2>3. QED
    BY <1>5, <2>2
<1>7. ASSUME NEW j \in K PROVE ~Before(k, j)
  BY <1>2, <1>5, <1>6, CursorParts DEF Before
<1>8. QED
  BY <1>7

(* The first n of some messages exist.                                     *)
LEMMA FirstOnes ==
    ASSUME NEW S \in SUBSET Message, NEW key \in [S -> Cursor],
           \A m, x \in S : key[m] = key[x] => m = x,
           NEW n \in Nat, n <= Cardinality(S)
    PROVE  \E p \in kSubset(n, S) : \A m \in p, x \in S \ p : Before(key[m], key[x])
<1> DEFINE Has(k) == \E p \in SUBSET S :
                        /\ Cardinality(p) = k
                        /\ \A m \in p, x \in S \ p : Before(key[m], key[x])
           T == {k \in Nat : k <= Cardinality(S) => Has(k)}
<1>1. IsFiniteSet(S) /\ Cardinality(S) \in Nat
  <2>1. IsFiniteSet(Message)
    BY FS_Interval, MailboxBounds DEF Message
  <2>2. QED
    BY <2>1, FS_Subset, FS_CardinalityType
<1>2. 0 \in T
  BY FS_EmptySet
<1>3. ASSUME NEW k \in T PROVE k + 1 \in T
  <2>1. SUFFICES ASSUME k + 1 <= Cardinality(S) PROVE Has(k + 1)
    OBVIOUS
  <2>2. PICK p \in SUBSET S : /\ Cardinality(p) = k
                              /\ \A m \in p, x \in S \ p : Before(key[m], key[x])
    BY <1>1, <2>1
  <2>3. IsFiniteSet(p) /\ p # S
    BY <1>1, <2>1, <2>2, FS_Subset
  <2> DEFINE K == {key[x] : x \in S \ p}
  <2>4. PICK f \in S \ p : \A x \in S \ p : ~Before(key[x], key[f])
    <3>1. K \in SUBSET Cursor /\ K # {}
      BY <2>3
    <3>2. PICK c \in K : \A j \in K : ~Before(j, c)
      BY <3>1, FirstCursor, Zenon
    <3>3. QED
      BY <3>2
  <2>5. Cardinality(p \cup {f}) = k + 1
    BY <2>2, <2>3, <2>4, FS_AddElement
  <2>6. ASSUME NEW m \in p \cup {f}, NEW x \in S \ (p \cup {f})
        PROVE  Before(key[m], key[x])
    <3>1. CASE m \in p
      BY <2>2, <3>1
    <3>2. CASE m = f
      <4>1. ~Before(key[x], key[f]) /\ key[x] # key[f]
        BY <2>4
      <4>2. key[x] \in Cursor /\ key[f] \in Cursor
        BY <2>4
      <4>3. QED
        BY <3>2, <4>1, <4>2, BeforeOrders
    <3>3. QED
      BY <3>1, <3>2
  <2>7. QED
    BY <2>4, <2>5, <2>6
<1>4. n \in T
  <2>1. T \subseteq Nat
    OBVIOUS
  <2> HIDE DEF T
  <2>2. QED
    BY <1>2, <1>3, <2>1, SetInduction, Zenon
<1>5. QED
  BY <1>4 DEF kSubset

-----------------------------------------------------------------------------
(* The pages.                                                              *)

StoreTyped == DOMAIN pg \subseteq Message /\ \A m \in DOMAIN pg : pg[m] \in Row

(* The rows a page may still have.                                         *)
Due(b) == {m \in DOMAIN pg : /\ Before(b.cursor, Key(b, m, pg[m]))
                             /\ b.phase = "catchup" => pg[m].updated >= b.watermark}
RowOf(m) == [msg |-> m, row |-> pg[m]]

(* Each message has a place of its own.                                    *)
LEMMA KeysApart ==
    ASSUME NEW b, NEW m \in Message, NEW p \in Row
    PROVE  /\ Key(b, m, p) \in Cursor /\ Key(b, m, p)[2] = m
           /\ Key(b, m, p)[1] = IF b.phase = "messages" THEN 0 ELSE p.updated
  BY MailboxBounds DEF Key, Cursor, Message, Row, Time

(* A page has the first rows that are due, and all of them unless it is    *)
(* full.                                                                   *)
LEMMA PageIsFirst ==
    ASSUME StoreTyped, NEW b \in Backfill
    PROVE  \E page \in SUBSET Due(b) :
              /\ PageRows(b) = {RowOf(m) : m \in page}
              /\ Cardinality(PageRows(b)) # PageSize => page = Due(b)
              /\ \A m \in page, x \in Due(b) \ page :
                    Before(Key(b, m, pg[m]), Key(b, x, pg[x]))
<1> DEFINE due == Due(b)
           key == [m \in due |-> Key(b, m, pg[m])]
           page == IF Cardinality(due) <= PageSize THEN due
                   ELSE CHOOSE p \in kSubset(PageSize, due) :
                           \A m \in p, n \in due \ p :
                               Before(Key(b, m, pg[m]), Key(b, n, pg[n]))
<1>1. PageRows(b) = {RowOf(m) : m \in page}
  BY DEF PageRows, Due, RowOf
<1>2. due \in SUBSET Message /\ IsFiniteSet(due) /\ Cardinality(due) \in Nat
  <2>1. IsFiniteSet(Message)
    BY FS_Interval, MailboxBounds DEF Message
  <2>2. due \in SUBSET Message
    BY DEF StoreTyped, Due
  <2>3. QED
    BY <2>1, <2>2, FS_Subset, FS_CardinalityType
<1>3. \A m \in due : m \in Message /\ pg[m] \in Row
  BY <1>2 DEF Due, StoreTyped
<1>4. key \in [due -> Cursor] /\ \A m, x \in due : key[m] = key[x] => m = x
  <2>1. \A m \in due : Key(b, m, pg[m]) \in Cursor
    BY <1>3, KeysApart
  <2>2. \A m \in due : Key(b, m, pg[m])[2] = m
    BY <1>3, KeysApart
  <2> HIDE DEF due
  <2>3. QED
    BY <2>1, <2>2
<1>5. CASE Cardinality(due) <= PageSize
  BY <1>1, <1>5
<1>6. CASE ~(Cardinality(due) <= PageSize)
  <2>1. PageSize \in Nat /\ PageSize <= Cardinality(due)
    BY <1>2, <1>6, MailboxBounds
  <2>2. \E p \in kSubset(PageSize, due) : \A m \in p, x \in due \ p : Before(key[m], key[x])
    <3> HIDE DEF due, key
    <3>1. QED
      BY <1>2, <1>4, <2>1, FirstOnes
  <2>3. page \in kSubset(PageSize, due)
        /\ \A m \in page, x \in due \ page : Before(Key(b, m, pg[m]), Key(b, x, pg[x]))
    <3>1. \E p \in kSubset(PageSize, due) :
             \A m \in p, x \in due \ p : Before(Key(b, m, pg[m]), Key(b, x, pg[x]))
      <4>1. PICK p \in kSubset(PageSize, due) : \A m \in p, x \in due \ p : Before(key[m], key[x])
        BY <2>2
      <4>2. p \subseteq due
        BY <4>1 DEF kSubset
      <4>3. QED
        BY <4>1, <4>2
    <3>2. QED
      BY <3>1, <1>6
  <2>4. page \in SUBSET due /\ Cardinality(page) = PageSize
    BY <2>3 DEF kSubset
  <2>5. Cardinality({RowOf(m) : m \in page}) = Cardinality(page)
    <3> HIDE DEF page
    <3>1. IsFiniteSet(page)
      BY <1>2, <2>4, FS_Subset
    <3> DEFINE f == [m \in page |-> RowOf(m)]
    <3>2. f \in Bijection(page, {RowOf(m) : m \in page})
      BY DEF Bijection, Injection, Surjection, IsInjective, RowOf
    <3>3. QED
      BY <3>1, <3>2, FS_Bijection DEF ExistsBijection
  <2>6. QED
    BY <1>1, <2>3, <2>4, <2>5
<1>7. QED
  BY <1>5, <1>6

(* The state after a full page has its cursor at the last row of it.       *)
LEMMA CursorAtLast ==
    ASSUME StoreTyped, NEW b \in Backfill, NEW page \in SUBSET Due(b),
           NEW now, NEW rows, rows = {RowOf(m) : m \in page},
           Cardinality(rows) = PageSize
    PROVE  \E m \in page :
              /\ AfterPage(b, rows, now) = [b EXCEPT !.cursor = Key(b, m, pg[m])]
              /\ \A x \in page : ~Before(Key(b, m, pg[m]), Key(b, x, pg[x]))
<1> DEFINE keys == {Key(b, r.msg, r.row) : r \in rows}
           last == CHOOSE k \in keys : \A j \in keys : ~Before(k, j)
<1>1. keys = {Key(b, m, pg[m]) : m \in page}
  <2>1. \A m \in page : Key(b, RowOf(m).msg, RowOf(m).row) = Key(b, m, pg[m])
    BY DEF RowOf
  <2>2. keys = {Key(b, RowOf(m).msg, RowOf(m).row) : m \in page}
    OBVIOUS
  <2>3. QED
    BY <2>1, <2>2
<1>2. rows # {}
  BY FS_EmptySet, MailboxBounds
<1>3. keys \in SUBSET Cursor /\ keys # {}
  <2>1. \A m \in page : Key(b, m, pg[m]) \in Cursor
    <3>1. \A m \in page : m \in Message /\ pg[m] \in Row
      BY DEF Due, StoreTyped
    <3>2. QED
      BY <3>1, KeysApart
  <2>2. page # {}
    BY <1>2
  <2> HIDE DEF keys
  <2>3. QED
    BY <1>1, <2>1, <2>2
<1>4. last \in keys /\ \A j \in keys : ~Before(last, j)
  <2> HIDE DEF keys
  <2>1. \E k \in keys : \A j \in keys : ~Before(k, j)
    BY <1>3, LastCursor
  <2>2. QED
    BY <2>1
<1>5. AfterPage(b, rows, now) = [b EXCEPT !.cursor = last]
  BY DEF AfterPage
<1> HIDE DEF last
<1>6. QED
  BY <1>1, <1>4, <1>5, ZenonT(60)

-----------------------------------------------------------------------------
(* The object's rows.                                                      *)

Ingested(content, at) == [content |-> content, deleted |-> 0,
                          clk |-> [content |-> at, delete |-> at]]
Changed(c, at) == [content |-> at, deleted |-> c.deleted,
                   clk |-> [content |-> at, delete |-> c.clk.delete]]
Removed(c, at) == [content |-> c.content, deleted |-> at,
                   clk |-> [content |-> c.clk.content, delete |-> at]]
Taken(row) == [content |-> row.content, deleted |-> row.deleted,
               clk |-> [content |-> row.updated, delete |-> row.updated]]

Copies(o) == \A m \in DOMAIN o : o[m] \in Copy

(* What each of them is.                                                   *)
LEMMA CopyParts ==
    /\ \A c \in Copy : /\ c.content \in Time /\ c.deleted \in Time
                       /\ c.clk.content \in Time /\ c.clk.delete \in Time
                       /\ c = [content |-> c.content, deleted |-> c.deleted,
                               clk |-> [content |-> c.clk.content, delete |-> c.clk.delete]]
    /\ \A at \in Time :
          /\ \A content \in Time : Ingested(content, at) \in Copy
          /\ \A c \in Copy : Changed(c, at) \in Copy /\ Removed(c, at) \in Copy
    /\ \A row \in Row : Taken(row) \in Copy
<1>1. 0 \in Time
  BY MailboxBounds DEF Time
<1>2. QED
  BY <1>1 DEF Copy, Row, Ingested, Changed, Removed, Taken

(* The fields a change or a deletion writes.                               *)
LEMMA CopyWrites ==
    ASSUME NEW c \in Copy, NEW at \in Time
    PROVE  /\ [c EXCEPT !.content = at, !.clk.content = at] = Changed(c, at)
           /\ [c EXCEPT !.deleted = at, !.clk.delete = at] = Removed(c, at)
<1>1. c.clk \in [content : Time, delete : Time]
  BY DEF Copy
<1>2. /\ [c.clk EXCEPT !.content = at] = [content |-> at, delete |-> c.clk.delete]
      /\ [c.clk EXCEPT !.delete = at] = [content |-> c.clk.content, delete |-> at]
  BY <1>1
<1>3. DOMAIN c = {"content", "deleted", "clk"}
  BY DEF Copy
<1>4. [c EXCEPT !.content = at, !.clk.content = at]
        = [c EXCEPT !.content = at, !.clk = [c.clk EXCEPT !.content = at]]
  BY <1>3
<1>5. [c EXCEPT !.deleted = at, !.clk.delete = at]
        = [c EXCEPT !.deleted = at, !.clk = [c.clk EXCEPT !.delete = at]]
  BY <1>3
<1>6. ASSUME NEW k \in [content : Time, delete : Time]
      PROVE  /\ [c EXCEPT !.content = at, !.clk = k]
                   = [content |-> at, deleted |-> c.deleted, clk |-> k]
             /\ [c EXCEPT !.deleted = at, !.clk = k]
                   = [content |-> c.content, deleted |-> at, clk |-> k]
  <2>1. \A e \in Copy : e = [content |-> e.content, deleted |-> e.deleted, clk |-> e.clk]
    BY DEF Copy
  <2> DEFINE e == [c EXCEPT !.content = at, !.clk = k]
             f == [c EXCEPT !.deleted = at, !.clk = k]
  <2>2. e \in Copy /\ e.content = at /\ e.deleted = c.deleted /\ e.clk = k
    BY DEF Copy
  <2>3. f \in Copy /\ f.content = c.content /\ f.deleted = at /\ f.clk = k
    BY DEF Copy
  <2> HIDE DEF e, f
  <2>4. e = [content |-> at, deleted |-> c.deleted, clk |-> k]
    BY <2>1, <2>2
  <2>5. f = [content |-> c.content, deleted |-> at, clk |-> k]
    BY <2>1, <2>3
  <2>6. QED
    BY <2>4, <2>5 DEF e, f
<1>7. /\ [content |-> at, delete |-> c.clk.delete] \in [content : Time, delete : Time]
      /\ [content |-> c.clk.content, delete |-> at] \in [content : Time, delete : Time]
  BY <1>1
<1>8. QED
  BY <1>2, <1>4, <1>5, <1>6, <1>7 DEF Changed, Removed

(* A write touches the row of its message alone.  That is there after an   *)
(* ingest, and is changed or deleted unless it has been so since.          *)
LEMMA AppliedTo ==
    ASSUME NEW o, Copies(o), NEW w \in Write
    PROVE  /\ DOMAIN Applied(o, w)
                = IF w.kind = "ingest" THEN DOMAIN o \cup {w.msg} ELSE DOMAIN o
           /\ \A x \in DOMAIN o \ {w.msg} : Applied(o, w)[x] = o[x]
           /\ w.kind = "ingest" /\ w.msg \notin DOMAIN o =>
                 Applied(o, w)[w.msg] = Ingested(w.at, w.at)
           /\ w.kind = "ingest" /\ w.msg \in DOMAIN o => Applied(o, w)[w.msg] = o[w.msg]
           /\ w.kind = "change" /\ w.msg \in DOMAIN o =>
                 Applied(o, w)[w.msg] = IF w.at >= o[w.msg].clk.content
                                        THEN Changed(o[w.msg], w.at) ELSE o[w.msg]
           /\ w.kind = "delete" /\ w.msg \in DOMAIN o =>
                 Applied(o, w)[w.msg] \in {Removed(o[w.msg], w.at), o[w.msg]}
<1> DEFINE m == w.msg
<1>1. w.kind \in {"ingest", "change", "delete"}
  BY DEF Write
<1>2. CASE w.kind = "ingest"
  <2>1. CASE m \notin DOMAIN o
    <3>1. Applied(o, w) = With(o, m, Ingested(w.at, w.at))
      BY <1>2, <2>1 DEF Applied, Ingested
    <3>2. QED
      BY <1>2, <2>1, <3>1 DEF With
  <2>2. CASE m \in DOMAIN o
    <3>1. Applied(o, w) = o
      BY <1>2, <2>2 DEF Applied
    <3>2. QED
      BY <1>2, <2>2, <3>1
  <2>3. QED
    BY <2>1, <2>2
<1>3. CASE w.kind = "change"
  <2>1. CASE m \in DOMAIN o /\ w.at >= o[m].clk.content
    <3> DEFINE a == [o EXCEPT ![m].content = w.at, ![m].clk.content = w.at]
    <3>1. Applied(o, w) = a
      BY <1>3, <2>1 DEF Applied
    <3>2. DOMAIN a = DOMAIN o /\ \A x \in DOMAIN o \ {m} : a[x] = o[x]
      OBVIOUS
    <3>3. a[m] = Changed(o[m], w.at)
      <4>1. o[m] \in Copy
        BY <2>1 DEF Copies
      <4>2. a[m] = [o[m] EXCEPT !.content = w.at, !.clk.content = w.at]
        BY <2>1
      <4>3. QED
        BY <4>1, <4>2, CopyWrites DEF Write
    <3> HIDE DEF a
    <3>4. QED
      BY <1>3, <2>1, <3>1, <3>2, <3>3
  <2>2. CASE ~(m \in DOMAIN o /\ w.at >= o[m].clk.content)
    <3>1. Applied(o, w) = o
      BY <1>3, <2>2 DEF Applied
    <3>2. QED
      BY <1>3, <2>2, <3>1
  <2>3. QED
    BY <2>1, <2>2
<1>4. CASE w.kind = "delete"
  <2>1. CASE m \in DOMAIN o /\ w.at >= o[m].clk.delete /\ o[m].deleted = 0
    <3> DEFINE a == [o EXCEPT ![m].deleted = w.at, ![m].clk.delete = w.at]
    <3>1. Applied(o, w) = a
      BY <1>4, <2>1 DEF Applied
    <3>2. DOMAIN a = DOMAIN o /\ \A x \in DOMAIN o \ {m} : a[x] = o[x]
      OBVIOUS
    <3>3. a[m] = Removed(o[m], w.at)
      <4>1. o[m] \in Copy
        BY <2>1 DEF Copies
      <4>2. a[m] = [o[m] EXCEPT !.deleted = w.at, !.clk.delete = w.at]
        BY <2>1
      <4>3. QED
        BY <4>1, <4>2, CopyWrites DEF Write
    <3> HIDE DEF a
    <3>4. QED
      BY <1>4, <2>1, <3>1, <3>2, <3>3
  <2>2. CASE ~(m \in DOMAIN o /\ w.at >= o[m].clk.delete /\ o[m].deleted = 0)
    <3>1. Applied(o, w) = o
      BY <1>4, <2>2 DEF Applied
    <3>2. QED
      BY <1>4, <2>2, <3>1
  <2>3. QED
    BY <2>1, <2>2
<1>5. QED
  BY <1>1, <1>2, <1>3, <1>4

(* A write leaves copies.                                                  *)
LEMMA AppliedCopies ==
    ASSUME NEW o, Copies(o), NEW w \in Write
    PROVE  Copies(Applied(o, w))
<1>1. w.at \in Time /\ w.kind \in {"ingest", "change", "delete"}
  BY DEF Write
<1>2. ASSUME NEW x \in DOMAIN Applied(o, w) PROVE Applied(o, w)[x] \in Copy
  <2>1. CASE x # w.msg
    <3>1. x \in DOMAIN o /\ Applied(o, w)[x] = o[x]
      BY <1>2, <2>1, AppliedTo, ZenonT(60)
    <3>2. QED
      BY <3>1 DEF Copies
  <2>2. CASE x = w.msg /\ w.msg \notin DOMAIN o
    <3>1. Applied(o, w)[x] = Ingested(w.at, w.at)
      BY <1>2, <2>2, AppliedTo
    <3>2. QED
      BY <1>1, <3>1, CopyParts
  <2>3. CASE x = w.msg /\ w.msg \in DOMAIN o
    <3>1. Applied(o, w)[x] \in {o[x], Changed(o[x], w.at), Removed(o[x], w.at)}
      BY <1>1, <2>3, AppliedTo
    <3>2. o[x] \in Copy
      BY <2>3 DEF Copies
    <3>3. QED
      BY <1>1, <3>1, <3>2, CopyParts, ZenonT(60)
  <2>4. QED
    BY <2>1, <2>2, <2>3
<1>3. QED
  BY <1>2 DEF Copies

(* A copied row touches the row of its message alone.  A new one gets the  *)
(* time of the tick; an old one is overwritten, unless a group of it is    *)
(* newer.                                                                  *)
LEMMA MergedTo ==
    ASSUME NEW o, Copies(o), NEW r \in [msg : Message, row : Row], NEW now \in Time
    PROVE  /\ DOMAIN Merged(o, r, now) = DOMAIN o \cup {r.msg}
           /\ \A x \in DOMAIN o \ {r.msg} : Merged(o, r, now)[x] = o[x]
           /\ r.msg \notin DOMAIN o =>
                 Merged(o, r, now)[r.msg]
                    \in {Ingested(r.row.content, now),
                         Removed(Ingested(r.row.content, now), r.row.deleted)}
           /\ r.msg \notin DOMAIN o /\ r.row.deleted = 0 =>
                 Merged(o, r, now)[r.msg] = Ingested(r.row.content, now)
           /\ r.msg \in DOMAIN o =>
                 Merged(o, r, now)[r.msg]
                    = IF r.row.updated < o[r.msg].clk.content \/ r.row.updated < o[r.msg].clk.delete
                      THEN o[r.msg] ELSE Taken(r.row)
<1> DEFINE m == r.msg
<1>1. r.row \in Row /\ r.row.content \in Time /\ r.row.deleted \in Time
  BY DEF Row
<1>2. CASE m \notin DOMAIN o
  <2> DEFINE new == With(o, m, Ingested(r.row.content, now))
             w == [kind |-> "delete", msg |-> m, at |-> r.row.deleted]
  <2>1. Merged(o, r, now) = IF r.row.deleted = 0 THEN new ELSE Applied(new, w)
    BY <1>2 DEF Merged, Ingested
  <2>2. DOMAIN new = DOMAIN o \cup {m} /\ new[m] = Ingested(r.row.content, now)
        /\ \A x \in DOMAIN o \ {m} : new[x] = o[x]
    BY DEF With
  <2>3. Copies(new)
    <3>1. \A x \in DOMAIN o \cup {m} : new[x] \in Copy
      BY <1>1, <2>2, CopyParts, ZenonT(60) DEF Copies
    <3> HIDE DEF new
    <3>2. QED
      BY <2>2, <3>1 DEF Copies
  <2>4. w \in Write /\ w.kind = "delete" /\ w.msg = m /\ w.at = r.row.deleted
    BY <1>1 DEF Write
  <2> HIDE DEF new, w
  <2>5. DOMAIN Applied(new, w) = DOMAIN new
        /\ (\A x \in DOMAIN new \ {m} : Applied(new, w)[x] = new[x])
        /\ Applied(new, w)[m] \in {Removed(new[m], r.row.deleted), new[m]}
    BY <2>2, <2>3, <2>4, AppliedTo
  <2>6. QED
    BY <1>2, <2>1, <2>2, <2>5
<1>3. CASE m \in DOMAIN o
  <2>1. CASE r.row.updated < o[m].clk.content \/ r.row.updated < o[m].clk.delete
    <3>1. Merged(o, r, now) = o
      BY <1>3, <2>1 DEF Merged
    <3>2. QED
      BY <1>3, <2>1, <3>1
  <2>2. CASE ~(r.row.updated < o[m].clk.content \/ r.row.updated < o[m].clk.delete)
    <3>1. Merged(o, r, now) = With(o, m, Taken(r.row))
      BY <1>3, <2>2 DEF Merged, Taken
    <3>2. QED
      BY <1>3, <2>2, <3>1 DEF With
  <2>3. QED
    BY <2>1, <2>2
<1>4. QED
  BY <1>2, <1>3

(* A copied row leaves copies.                                             *)
LEMMA MergedCopies ==
    ASSUME NEW o, Copies(o), NEW r \in [msg : Message, row : Row], NEW now \in Time
    PROVE  Copies(Merged(o, r, now))
<1> DEFINE new == Merged(o, r, now)
           ingested == Ingested(r.row.content, now)
<1>1. /\ r.row \in Row /\ r.row.content \in Time /\ r.row.deleted \in Time
      /\ ingested \in Copy
  BY CopyParts DEF Row
<1>2. /\ DOMAIN new = DOMAIN o \cup {r.msg}
      /\ \A x \in DOMAIN o \ {r.msg} : new[x] = o[x]
      /\ r.msg \notin DOMAIN o =>
            new[r.msg] \in {ingested, Removed(ingested, r.row.deleted)}
      /\ r.msg \in DOMAIN o => new[r.msg] \in {o[r.msg], Taken(r.row)}
  BY MergedTo, ZenonT(60)
<1> HIDE DEF new, ingested
<1>3. ASSUME NEW x \in DOMAIN new PROVE new[x] \in Copy
  <2>1. CASE x # r.msg
    BY <1>2, <1>3, <2>1 DEF Copies
  <2>2. CASE x = r.msg /\ r.msg \notin DOMAIN o
    BY <1>1, <1>2, <2>2, CopyParts, ZenonT(60)
  <2>3. CASE x = r.msg /\ r.msg \in DOMAIN o
    BY <1>1, <1>2, <2>3, CopyParts DEF Copies
  <2>4. QED
    BY <2>1, <2>2, <2>3
<1>4. QED
  BY <1>3 DEF Copies, new

-----------------------------------------------------------------------------
(* The types, and with them what bounds the times: nothing is later than   *)
(* the clock, and the clock counts the writes.                             *)

ATick == [phase : {"off", "started", "reading", "copying"}, now : Time,
          seen : Backfill, next : Backfill, rows : SUBSET [msg : Message, row : Row]]
Use == [writes : 0 .. MaxWrites, calls : 0 .. MaxCalls, faults : 0 .. MaxFaults]
Working == tick.phase \in {"reading", "copying"}
Copying == tick.phase = "copying"

(* A row's last change is the one of its content while it is alive.        *)
Dated(p, c) ==
    /\ p \in Row
    /\ p.content <= p.updated /\ p.updated <= c
    /\ p.deleted = 0 => p.updated = p.content

(* A backfill's cursor has not moved before the messages, and its attempts *)
(* have not run out while it is under way.                                 *)
Sound(b, c) ==
    /\ b \in Backfill
    /\ b.phase = "drafts" => b.cursor = Start
    /\ b.state = "done" <=> b.phase = "done"
    /\ Running(b) => b.attempts < MaxAttempts
    /\ b.watermark <= c /\ b.cursor[1] <= c /\ b.finishedAt <= c

Counted == used \in Use /\ clock = used.writes + 2
Stored == /\ DOMAIN pg \subseteq Message /\ Old \subseteq DOMAIN pg
          /\ \A m \in DOMAIN pg : Dated(pg[m], clock)
Sent == /\ flying \subseteq Write /\ lost \subseteq Write
        /\ \A w \in flying \cup lost : w.msg \in DOMAIN pg /\ w.at <= clock
Held == /\ DOMAIN object \subseteq DOMAIN pg /\ Copies(object)
        /\ \A m \in DOMAIN object : object[m].clk.content <= clock
Slots == /\ slot \in {"none", "maintenance", "folder"} /\ left \in 0 .. FolderBatches
         /\ slot = "folder" => left > 0
         /\ alarm \in BOOLEAN
Ticks == /\ tick \in ATick /\ tick.now <= clock
         /\ Working => Sound(tick.seen, clock) /\ Running(tick.seen)
         /\ Copying => Sound(tick.next, clock)
         /\ \A r \in tick.rows : r.msg \in DOMAIN pg /\ Dated(r.row, clock)
Typing == Counted /\ Stored /\ Sent /\ Held /\ Sound(backfill, clock) /\ Slots /\ Ticks

(* The clock is a time, and so is the next write's.                        *)
LEMMA ClockIsTime ==
    ASSUME Counted
    PROVE  /\ clock \in Time /\ clock \in Nat /\ clock >= 2 /\ used.writes \in Nat
           /\ used.writes < MaxWrites => clock + 1 \in Time
           /\ Time \subseteq Nat
           /\ \A at \in Stamps : at \in {clock, clock + 1}
           /\ Delay = 0 => \A at \in Stamps : at = clock + 1
  BY MailboxBounds DEF Counted, Use, Time, Stamps

(* What follows of the types: TypeOK.                                      *)
LEMMA TypingGives == Typing => TypeOK
<1> SUFFICES ASSUME Typing PROVE TypeOK
  OBVIOUS
<1>1. clock \in Time /\ used \in Use
  BY ClockIsTime DEF Typing, Counted
<1>2. DOMAIN pg \subseteq Message /\ \A m \in DOMAIN pg : pg[m] \in Row
  BY DEF Typing, Stored, Dated
<1>3. DOMAIN object \subseteq DOMAIN pg /\ \A m \in DOMAIN object : object[m] \in Copy
  BY DEF Typing, Held, Copies
<1>4. tick.now \in 0 .. clock
  BY <1>1 DEF Typing, Ticks, ATick, Time
<1>5. tick.rows \subseteq [msg : DOMAIN pg, row : Row]
  <2>1. \A r \in tick.rows : r \in [msg : Message, row : Row] /\ r.msg \in DOMAIN pg
    BY DEF Typing, Ticks, ATick
  <2>2. QED
    BY <2>1
<1>6. /\ tick.phase \in {"off", "started", "reading", "copying"}
      /\ tick.seen \in Backfill /\ tick.next \in Backfill
  BY DEF Typing, Ticks, ATick
<1>7. QED
  BY <1>1, <1>2, <1>3, <1>4, <1>5, <1>6 DEF Typing, Sent, Sound, Slots, TypeOK, Use

(* A sound state stays one when time passes.                               *)
LEMMA SoundLater ==
    ASSUME NEW b, NEW c \in Nat, Sound(b, c)
    PROVE  Sound(b, c + 1)
<1>1. b \in Backfill /\ b.cursor \in Cursor /\ b.watermark \in Nat /\ b.finishedAt \in Nat
  BY MailboxBounds DEF Sound, Backfill, Time
<1>2. b.cursor[1] \in Nat
  BY <1>1, CursorParts
<1>3. QED
  BY <1>1, <1>2 DEF Sound

(* The states a backfill begins in.                                        *)
LEMMA IdleIsSound ==
    ASSUME NEW c \in Nat
    PROVE  /\ Sound(Idle, c) /\ Sound([Idle EXCEPT !.state = "running"], c)
           /\ [Idle EXCEPT !.state = "running"].phase = "drafts"
           /\ [Idle EXCEPT !.state = "running"].watermark = 0
           /\ NoTick \in ATick
<1>1. 0 \in Time /\ <<0, 0>> \in Cursor /\ 0 \in 0 .. MaxAttempts /\ 0 < MaxAttempts
  BY MailboxBounds DEF Time, Cursor
<1>2. Idle \in Backfill /\ [Idle EXCEPT !.state = "running"] \in Backfill
  BY <1>1 DEF Idle, Backfill, Start
<1>3. QED
  BY <1>1, <1>2 DEF Idle, Start, Sound, Running, NoTick, ATick

(* After a failure it is under way with one attempt less, or has failed.   *)
LEMMA FailedIsSound ==
    ASSUME NEW b, NEW c \in Nat, Sound(b, c), Running(b)
    PROVE  /\ Sound(Failed(b), c)
           /\ Failed(b).phase = b.phase /\ Failed(b).cursor = b.cursor
           /\ Failed(b).watermark = b.watermark /\ Failed(b).finishedAt = b.finishedAt
<1>1. b \in Backfill /\ b.attempts \in Nat /\ b.attempts + 1 \in 0 .. MaxAttempts
      /\ b.state \in {"running", "catchup"}
  BY MailboxBounds DEF Sound, Backfill, Running
<1>2. /\ Failed(b) \in Backfill
      /\ Failed(b).phase = b.phase /\ Failed(b).cursor = b.cursor
      /\ Failed(b).watermark = b.watermark /\ Failed(b).finishedAt = b.finishedAt
      /\ Failed(b).attempts = b.attempts + 1
      /\ Failed(b).state = IF b.attempts + 1 >= MaxAttempts THEN "failed" ELSE b.state
  BY <1>1 DEF Failed, Backfill
<1>3. Running(Failed(b)) => Failed(b).attempts < MaxAttempts
  BY <1>1, <1>2, MailboxBounds DEF Running
<1>4. QED
  BY <1>1, <1>2, <1>3 DEF Sound

(* The attempts begin anew after a page.                                   *)
LEMMA AttemptsAnew ==
    ASSUME NEW b, NEW c \in Nat, Sound(b, c)
    PROVE  LET n == [b EXCEPT !.attempts = 0]
           IN  /\ Sound(n, c)
               /\ n.phase = b.phase /\ n.cursor = b.cursor /\ n.state = b.state
               /\ n.watermark = b.watermark /\ n.finishedAt = b.finishedAt
<1> DEFINE n == [b EXCEPT !.attempts = 0]
<1>1. b \in Backfill /\ 0 \in 0 .. MaxAttempts /\ 0 < MaxAttempts
  BY MailboxBounds DEF Sound
<1>2. /\ n \in Backfill /\ n.attempts = 0
      /\ n.phase = b.phase /\ n.cursor = b.cursor /\ n.state = b.state
      /\ n.watermark = b.watermark /\ n.finishedAt = b.finishedAt
  BY <1>1 DEF Backfill
<1> HIDE DEF n
<1>3. Sound(n, c)
  BY <1>1, <1>2 DEF Sound, Running
<1>4. QED
  BY <1>2, <1>3 DEF n

(* What a page makes of a sound state: the same phase behind the page, or  *)
(* the next phase, and all that was due has been read.                     *)
Onward(b, n, now) ==
    /\ n.phase # "drafts"
    /\ n.phase = "messages" =>
          \/ b.phase = "drafts" /\ n.watermark = now /\ n.cursor = Start
          \/ b.phase = "messages" /\ n.watermark = b.watermark
    /\ n.phase = "catchup" =>
          /\ n.watermark = b.watermark
          /\ (b.phase = "messages" /\ n.cursor = Start) \/ b.phase = "catchup"
    /\ n.phase = "done" => b.phase = "catchup" /\ n.finishedAt = now

Rest(b, n) == b.phase = n.phase /\ b.phase # "drafts"

(* So does every page.                                                     *)
LEMMA PageLeadsOn ==
    ASSUME Typing, NEW b, Sound(b, clock), Running(b), NEW now \in Time, now <= clock,
           NEW rows, rows = IF b.phase = "drafts" THEN {} ELSE PageRows(b)
    PROVE  LET n == AfterPage(b, rows, now)
           IN  /\ Sound(n, clock) /\ Onward(b, n, now)
               /\ rows \subseteq [msg : Message, row : Row]
               /\ \A r \in rows : r = RowOf(r.msg) /\ r.msg \in DOMAIN pg
               /\ b.phase # "drafts" =>
                     \A m \in Due(b) : \/ \E r \in rows : r = RowOf(m)
                                       \/ Rest(b, n) /\ Before(n.cursor, Key(b, m, pg[m]))
<1> DEFINE n == AfterPage(b, rows, now)
<1>1. b \in Backfill /\ b.phase \in {"drafts", "messages", "catchup"} /\ clock \in Nat
  BY ClockIsTime DEF Typing, Sound, Running, Backfill
<1>2. StoreTyped
  BY DEF Typing, Stored, StoreTyped, Dated
<1>3. /\ b.watermark \in Nat /\ b.finishedAt \in Nat /\ b.cursor \in Cursor /\ b.cursor[1] \in Nat
      /\ now \in Nat /\ Start \in Cursor /\ Start[1] = 0
  BY <1>1, CursorParts, MailboxBounds DEF Backfill, Time, Start, Cursor
<1>4. ASSUME n = AfterLast(b, now) PROVE Sound(n, clock) /\ Onward(b, n, now)
  <2>1. CASE b.phase = "drafts"
    <3>1. n = [b EXCEPT !.phase = "messages", !.watermark = now]
      BY <1>4, <2>1 DEF AfterLast
    <3>2. /\ n \in Backfill /\ n.phase = "messages" /\ n.watermark = now
          /\ n.cursor = b.cursor /\ n.state = b.state /\ n.attempts = b.attempts
          /\ n.finishedAt = b.finishedAt
      BY <1>1, <3>1 DEF Backfill
    <3> HIDE DEF n
    <3>3. QED
      BY <1>1, <1>3, <2>1, <3>2 DEF Sound, Running, Onward
  <2>2. CASE b.phase = "messages"
    <3>1. n = [b EXCEPT !.state = "catchup", !.phase = "catchup", !.cursor = Start]
      BY <1>4, <2>2 DEF AfterLast
    <3>2. /\ n \in Backfill /\ n.phase = "catchup" /\ n.watermark = b.watermark
          /\ n.cursor = Start /\ n.state = "catchup" /\ n.attempts = b.attempts
          /\ n.finishedAt = b.finishedAt
      BY <1>1, <1>3, <3>1 DEF Backfill
    <3> HIDE DEF n
    <3>3. QED
      BY <1>1, <1>3, <2>2, <3>2 DEF Sound, Running, Onward
  <2>3. CASE b.phase = "catchup"
    <3>1. n = [b EXCEPT !.state = "done", !.phase = "done", !.cursor = Start, !.finishedAt = now]
      BY <1>4, <2>3 DEF AfterLast
    <3>2. /\ n \in Backfill /\ n.phase = "done" /\ n.watermark = b.watermark
          /\ n.cursor = Start /\ n.state = "done" /\ n.attempts = b.attempts
          /\ n.finishedAt = now
      BY <1>1, <1>3, <3>1 DEF Backfill
    <3> HIDE DEF n
    <3>3. QED
      BY <1>1, <1>3, <2>3, <3>2 DEF Sound, Running, Onward
  <2>4. QED
    BY <1>1, <2>1, <2>2, <2>3
<1>5. CASE b.phase = "drafts"
  <2>1. n = AfterLast(b, now) /\ rows = {}
    BY <1>5, FS_EmptySet, MailboxBounds DEF AfterPage
  <2> HIDE DEF n
  <2>2. QED
    BY <1>4, <1>5, <2>1 DEF n
<1>6. CASE b.phase # "drafts"
  <2>1. PICK page \in SUBSET Due(b) :
           /\ rows = {RowOf(m) : m \in page}
           /\ Cardinality(rows) # PageSize => page = Due(b)
           /\ \A m \in page, x \in Due(b) \ page : Before(Key(b, m, pg[m]), Key(b, x, pg[x]))
    BY <1>1, <1>2, <1>6, PageIsFirst
  <2>2. \A m \in Due(b) : /\ m \in DOMAIN pg /\ m \in Message /\ pg[m] \in Row
                          /\ RowOf(m) \in [msg : Message, row : Row] /\ RowOf(m).msg = m
    BY <1>2 DEF Due, StoreTyped, RowOf
  <2>3. /\ rows \subseteq [msg : Message, row : Row]
        /\ \A r \in rows : r = RowOf(r.msg) /\ r.msg \in DOMAIN pg
    BY <2>1, <2>2
  <2>4. CASE Cardinality(rows) = PageSize
    <3>1. PICK m \in page :
             /\ n = [b EXCEPT !.cursor = Key(b, m, pg[m])]
             /\ \A x \in page : ~Before(Key(b, m, pg[m]), Key(b, x, pg[x]))
      <4>1. page \in SUBSET Due(b) /\ rows = {RowOf(m) : m \in page}
        BY <2>1
      <4>2. \E m \in page :
               /\ AfterPage(b, rows, now) = [b EXCEPT !.cursor = Key(b, m, pg[m])]
               /\ \A x \in page : ~Before(Key(b, m, pg[m]), Key(b, x, pg[x]))
        BY <1>1, <1>2, <2>4, <4>1, CursorAtLast
      <4>3. QED
        BY <4>2
    <3>2. Key(b, m, pg[m]) \in Cursor /\ Key(b, m, pg[m])[1] <= clock
      <4>1. Key(b, m, pg[m]) \in Cursor
            /\ Key(b, m, pg[m])[1] = IF b.phase = "messages" THEN 0 ELSE pg[m].updated
        BY <2>2, KeysApart
      <4>2. pg[m].updated <= clock
        BY <2>2 DEF Typing, Stored, Dated
      <4>3. QED
        BY <1>1, <4>1, <4>2
    <3>3. /\ n \in Backfill /\ n.phase = b.phase /\ n.cursor = Key(b, m, pg[m])
          /\ n.watermark = b.watermark /\ n.finishedAt = b.finishedAt
          /\ n.state = b.state /\ n.attempts = b.attempts
      BY <1>1, <3>1, <3>2 DEF Backfill
    <3> HIDE DEF n
    <3>4. Sound(n, clock) /\ Onward(b, n, now) /\ Rest(b, n)
      BY <1>1, <1>6, <3>2, <3>3 DEF Sound, Running, Onward, Rest
    <3>5. \A x \in Due(b) : \/ \E r \in rows : r = RowOf(x)
                            \/ Rest(b, n) /\ Before(n.cursor, Key(b, x, pg[x]))
      BY <2>1, <3>3, <3>4
    <3>6. QED
      BY <1>6, <2>3, <3>4, <3>5 DEF n
  <2>5. CASE Cardinality(rows) # PageSize
    <3>1. n = AfterLast(b, now)
      BY <2>5 DEF AfterPage
    <3>2. Sound(n, clock) /\ Onward(b, n, now)
      BY <1>4, <3>1
    <3>3. \A m \in Due(b) : \E r \in rows : r = RowOf(m)
      BY <2>1, <2>5
    <3> HIDE DEF n
    <3>4. QED
      BY <1>6, <2>3, <3>2, <3>3 DEF n
  <2>6. QED
    BY <2>4, <2>5
<1>7. QED
  BY <1>5, <1>6

-----------------------------------------------------------------------------
(* The types are kept.                                                     *)

(* A row is dated later as well.                                           *)
LEMMA DatedLater ==
    ASSUME NEW p, NEW c \in Nat, Dated(p, c)
    PROVE  Dated(p, c + 1)
<1>1. p.updated \in Nat
  BY MailboxBounds DEF Dated, Row, Time
<1>2. QED
  BY <1>1 DEF Dated

(* A write to Postgres keeps the types.                                    *)
LEMMA DualTypes ==
    ASSUME Typing, NEW kind \in {"ingest", "change", "delete"}, NEW m \in Message,
           NEW at \in Stamps, NEW row, Dated(row, clock + 1), Dual(kind, m, at, row)
    PROVE  Typing'
<1>1. /\ used.writes < MaxWrites /\ used' = [used EXCEPT !.writes = @ + 1]
      /\ clock' = clock + 1 /\ pg' = With(pg, m, row)
      /\ flying' = flying \cup {[kind |-> kind, msg |-> m, at |-> at]}
      /\ UNCHANGED <<lost, object, backfill, slot, left, alarm, tick>>
  BY DEF Dual
<1>2. Counted /\ clock \in Nat /\ clock + 1 \in Time /\ at \in Time /\ at <= clock + 1
  BY <1>1, ClockIsTime DEF Typing
<1>3. Counted'
  <2>1. used \in Use /\ used.writes + 1 \in 0 .. MaxWrites /\ used.writes \in Nat
    BY <1>1, <1>2, MailboxBounds DEF Counted, Use
  <2>2. used' \in Use /\ used'.writes = used.writes + 1
    BY <1>1, <2>1 DEF Use
  <2>3. QED
    BY <1>1, <1>2, <2>1, <2>2 DEF Counted
<1>4. DOMAIN pg' = DOMAIN pg \cup {m} /\ pg'[m] = row
      /\ \A x \in DOMAIN pg \ {m} : pg'[x] = pg[x]
  BY <1>1 DEF With
<1>5. Stored'
  <2>1. \A x \in DOMAIN pg : Dated(pg[x], clock + 1)
    BY <1>2, DatedLater DEF Typing, Stored
  <2>2. \A x \in DOMAIN pg' : Dated(pg'[x], clock')
    BY <1>1, <1>4, <2>1
  <2>3. QED
    BY <1>4, <2>2 DEF Typing, Stored
<1>6. Sent'
  <2>1. [kind |-> kind, msg |-> m, at |-> at] \in Write
    BY <1>2 DEF Write
  <2>2. \A w \in flying \cup lost : w.at \in Nat /\ w.at <= clock /\ w.msg \in DOMAIN pg
    BY MailboxBounds DEF Typing, Sent, Write, Time
  <2>3. QED
    BY <1>1, <1>2, <1>4, <2>1, <2>2 DEF Typing, Sent
<1>7. Held'
  <2>1. \A x \in DOMAIN object : object[x].clk.content \in Nat
    BY CopyParts, MailboxBounds DEF Typing, Held, Copies, Time
  <2>2. QED
    BY <1>1, <1>2, <1>4, <2>1 DEF Typing, Held
<1>8. Sound(backfill', clock')
  BY <1>1, <1>2, SoundLater DEF Typing
<1>9. Slots'
  BY <1>1 DEF Typing, Slots
<1>10. Ticks'
  <2>1. tick.now \in Nat
    BY MailboxBounds DEF Typing, Ticks, ATick, Time
  <2>2. Working => Sound(tick.seen, clock + 1) /\ Running(tick.seen)
    BY <1>2, SoundLater DEF Typing, Ticks
  <2>3. Copying => Sound(tick.next, clock + 1)
    BY <1>2, SoundLater DEF Typing, Ticks
  <2>4. \A r \in tick.rows : r.msg \in DOMAIN pg' /\ Dated(r.row, clock + 1)
    BY <1>2, <1>4, DatedLater DEF Typing, Ticks
  <2>5. QED
    BY <1>1, <1>2, <2>1, <2>2, <2>3, <2>4 DEF Typing, Ticks, Working, Copying
<1>11. QED
  BY <1>3, <1>5, <1>6, <1>7, <1>8, <1>9, <1>10 DEF Typing

(* The three writes.                                                       *)
LEMMA WritesDated ==
    ASSUME Typing, used.writes < MaxWrites, NEW at \in Stamps
    PROVE  /\ Dated([content |-> at, deleted |-> 0, updated |-> at], clock + 1)
           /\ \A m \in DOMAIN pg : pg[m].deleted = 0 =>
                 /\ Dated([pg[m] EXCEPT !.content = at, !.updated = at], clock + 1)
                 /\ Dated([pg[m] EXCEPT !.deleted = at, !.updated = at], clock + 1)
<1>1. /\ clock \in Nat /\ clock >= 2 /\ Time \subseteq Nat /\ clock \in Time
      /\ at \in {clock, clock + 1}
      /\ clock + 1 \in Time
  BY ClockIsTime DEF Typing
<1>2. 0 \in Time
  BY MailboxBounds DEF Time
<1>4. at \in Time /\ at \in Nat /\ at <= clock + 1 /\ clock <= at /\ at # 0
  BY <1>1
<1>5. Dated([content |-> at, deleted |-> 0, updated |-> at], clock + 1)
  BY <1>2, <1>4 DEF Dated, Row
<1>6. ASSUME NEW m \in DOMAIN pg, pg[m].deleted = 0
      PROVE  /\ Dated([pg[m] EXCEPT !.content = at, !.updated = at], clock + 1)
             /\ Dated([pg[m] EXCEPT !.deleted = at, !.updated = at], clock + 1)
  <2>1. pg[m] \in Row /\ Dated(pg[m], clock)
    BY DEF Typing, Stored, Dated
  <2>2. pg[m].content \in Nat /\ pg[m].content <= at
    <3>1. pg[m].content \in Nat /\ pg[m].updated \in Nat
      BY <1>1, <2>1 DEF Row
    <3>2. QED
      BY <1>1, <1>4, <2>1, <3>1 DEF Dated
  <2> DEFINE q == [pg[m] EXCEPT !.content = at, !.updated = at]
             d == [pg[m] EXCEPT !.deleted = at, !.updated = at]
  <2>3. q \in Row /\ q.content = at /\ q.updated = at /\ q.deleted = 0
    BY <1>4, <1>6, <2>1 DEF Row
  <2>4. d \in Row /\ d.content = pg[m].content /\ d.updated = at /\ d.deleted = at
    BY <1>4, <2>1 DEF Row
  <2> HIDE DEF q, d
  <2>5. Dated(q, clock + 1) /\ Dated(d, clock + 1)
    BY <1>4, <2>2, <2>3, <2>4 DEF Dated
  <2>6. QED
    BY <2>5 DEF q, d
<1>7. QED
  BY <1>5, <1>6

(* A write to Postgres leaves the types.                                   *)
LEMMA WritesType ==
    ASSUME Typing, Ingest \/ Change \/ Delete
    PROVE  Typing'
<1>1. CASE Ingest
  <2>1. PICK m \in Message \ DOMAIN pg, at \in Stamps :
           Dual("ingest", m, at, [content |-> at, deleted |-> 0, updated |-> at])
    BY <1>1 DEF Ingest
  <2>2. used.writes < MaxWrites /\ used.writes \in Nat
    BY <2>1, ClockIsTime DEF Dual, Typing
  <2>3. Dated([content |-> at, deleted |-> 0, updated |-> at], clock + 1)
    BY <2>1, <2>2, WritesDated
  <2>4. QED
    BY <2>1, <2>3, DualTypes
<1>2. CASE Change
  <2>1. PICK m \in DOMAIN pg, at \in Stamps :
           /\ pg[m].deleted = 0
           /\ Dual("change", m, at, [pg[m] EXCEPT !.content = at, !.updated = at])
    BY <1>2 DEF Change
  <2>2. used.writes < MaxWrites /\ used.writes \in Nat /\ m \in Message
    BY <2>1, ClockIsTime DEF Dual, Typing, Stored
  <2>3. Dated([pg[m] EXCEPT !.content = at, !.updated = at], clock + 1)
    BY <2>1, <2>2, WritesDated
  <2> DEFINE row == [pg[m] EXCEPT !.content = at, !.updated = at]
  <2>4. Dual("change", m, at, row) /\ Dated(row, clock + 1)
    BY <2>1, <2>3
  <2> HIDE DEF row
  <2>5. QED
    BY <2>2, <2>4, DualTypes
<1>3. CASE Delete
  <2>1. PICK m \in DOMAIN pg, at \in Stamps :
           /\ pg[m].deleted = 0
           /\ Dual("delete", m, at, [pg[m] EXCEPT !.deleted = at, !.updated = at])
    BY <1>3 DEF Delete
  <2>2. used.writes < MaxWrites /\ used.writes \in Nat /\ m \in Message
    BY <2>1, ClockIsTime DEF Dual, Typing, Stored
  <2>3. Dated([pg[m] EXCEPT !.deleted = at, !.updated = at], clock + 1)
    BY <2>1, <2>2, WritesDated
  <2> DEFINE row == [pg[m] EXCEPT !.deleted = at, !.updated = at]
  <2>4. Dual("delete", m, at, row) /\ Dated(row, clock + 1)
    BY <2>1, <2>3
  <2> HIDE DEF row
  <2>5. QED
    BY <2>2, <2>4, DualTypes
<1>4. QED
  BY <1>1, <1>2, <1>3

(* Whatever else happens leaves the rows and the clock alone.              *)
LEMMA QuietTypes ==
    ASSUME Typing, UNCHANGED <<pg, clock>>, used' \in Use, used'.writes = used.writes,
           Sent', Held', Sound(backfill', clock), Slots', Ticks'
    PROVE  Typing'
<1>1. Counted'
  BY DEF Typing, Counted
<1>2. Stored'
  BY DEF Typing, Stored
<1>3. QED
  BY <1>1, <1>2 DEF Typing

(* One fault, and one call, more.                                          *)
LEMMA OneMore ==
    ASSUME Counted
    PROVE  /\ used.faults < MaxFaults /\ used' = [used EXCEPT !.faults = @ + 1]
                 => used' \in Use /\ used'.writes = used.writes
           /\ used.calls < MaxCalls /\ used' = [used EXCEPT !.calls = @ + 1]
                 => used' \in Use /\ used'.writes = used.writes
           /\ used' = used => used' \in Use /\ used'.writes = used.writes
  BY MailboxBounds DEF Counted, Use

(* So does one that reaches the object, or does not.                       *)
LEMMA DeliveriesType ==
    ASSUME Typing, Deliver \/ DeliveryFails
    PROVE  Typing'
<1>1. Counted /\ Copies(object)
  BY DEF Typing, Held
<1>2. CASE Deliver
  <2>1. PICK w \in flying :
           /\ object' = Applied(object, w)
           /\ \/ flying' = flying \ {w} /\ UNCHANGED used
              \/ /\ used.faults < MaxFaults
                 /\ used' = [used EXCEPT !.faults = @ + 1]
                 /\ UNCHANGED flying
           /\ UNCHANGED <<pg, lost, clock, backfill, slot, left, tick>>
           /\ RecomputeAlarm
    BY <1>2 DEF Deliver
  <2>2. w \in Write /\ w.msg \in DOMAIN pg /\ w.at <= clock
    BY DEF Typing, Sent
  <2>3. used' \in Use /\ used'.writes = used.writes
    BY <1>1, <2>1, OneMore
  <2>4. flying' \subseteq flying
    BY <2>1
  <2>5. Sent'
    BY <2>1, <2>4 DEF Typing, Sent
  <2>6. Held'
    <3>1. Copies(object')
      BY <1>1, <2>1, <2>2, AppliedCopies
    <3>2. DOMAIN object' \subseteq DOMAIN object \cup {w.msg}
      BY <1>1, <2>1, <2>2, AppliedTo
    <3>3. ASSUME NEW x \in DOMAIN object' PROVE object'[x].clk.content <= clock
      <4>1. CASE x # w.msg
        <5>1. x \in DOMAIN object \ {w.msg}
          BY <3>2, <3>3, <4>1
        <5>2. Applied(object, w)[x] = object[x]
          BY <1>1, <2>2, <5>1, AppliedTo
        <5>3. QED
          BY <2>1, <5>1, <5>2 DEF Typing, Held
      <4>2. CASE x = w.msg /\ w.msg \notin DOMAIN object
        <5>1. object'[x] = Ingested(w.at, w.at)
          BY <1>1, <2>1, <2>2, <3>3, <4>2, AppliedTo DEF Write
        <5>2. QED
          BY <2>2, <5>1 DEF Ingested
      <4>3. CASE x = w.msg /\ w.msg \in DOMAIN object
        <5>1. object'[x] \in {object[x], Changed(object[x], w.at), Removed(object[x], w.at)}
          BY <1>1, <2>1, <2>2, <4>3, AppliedTo DEF Write
        <5>2. object[x].clk.content <= clock
          BY <4>3 DEF Typing, Held
        <5>3. QED
          BY <2>2, <5>1, <5>2 DEF Changed, Removed
      <4>4. QED
        BY <4>1, <4>2, <4>3
    <3>4. QED
      BY <2>1, <2>2, <3>1, <3>2, <3>3 DEF Typing, Held
  <2>7. Slots'
    BY <2>1 DEF Typing, Slots, RecomputeAlarm, Pending
  <2>8. Ticks'
    BY <2>1 DEF Typing, Ticks, Working, Copying
  <2>9. QED
    BY <2>1, <2>3, <2>5, <2>6, <2>7, <2>8, QuietTypes DEF Typing
<1>3. CASE DeliveryFails
  <2>1. used' \in Use /\ used'.writes = used.writes
    BY <1>1, <1>3, OneMore DEF DeliveryFails
  <2>2. UNCHANGED <<pg, clock, object, backfill, slot, left, alarm, tick>>
        /\ flying' \cup lost' \subseteq flying \cup lost
    BY <1>3 DEF DeliveryFails
  <2>3. Sent'
    BY <2>2 DEF Typing, Sent
  <2>4. Held' /\ Slots' /\ Ticks'
    BY <2>2 DEF Typing, Held, Slots, Ticks, Working, Copying
  <2>5. QED
    BY <2>1, <2>2, <2>3, <2>4, QuietTypes DEF Typing
<1>4. QED
  BY <1>2, <1>3

(* The handler ends, or has not got to the page.                           *)
LEMMA TickIdle ==
    ASSUME Typing, UNCHANGED <<pg, clock>>,
           \/ tick' = NoTick
           \/ tick' = [NoTick EXCEPT !.phase = "started", !.now = clock]
           \/ tick' = tick
    PROVE  Ticks'
<1>1. clock \in Time /\ clock \in Nat /\ NoTick \in ATick /\ 0 \in Time
  BY ClockIsTime, IdleIsSound, MailboxBounds DEF Typing, Time
<1>2. CASE tick' = NoTick
  <2>1. tick'.phase = "off" /\ tick'.now = 0 /\ tick'.rows = {}
    BY <1>2 DEF NoTick
  <2>2. QED
    BY <1>1, <1>2, <2>1 DEF Ticks, Working, Copying
<1>3. CASE tick' = [NoTick EXCEPT !.phase = "started", !.now = clock]
  <2>1. tick' \in ATick
    BY <1>1, <1>3 DEF ATick
  <2>2. tick'.phase = "started" /\ tick'.now = clock /\ tick'.rows = {}
    BY <1>3 DEF NoTick
  <2>3. QED
    BY <1>1, <2>1, <2>2 DEF Ticks, Working, Copying
<1>4. CASE tick' = tick
  BY <1>4 DEF Typing, Ticks, Working, Copying
<1>5. QED
  BY <1>2, <1>3, <1>4

(* A call leaves the types.                                                *)
LEMMA CallsType ==
    ASSUME Typing, StartBackfill \/ RebuildMailbox \/ FolderRead
    PROVE  Typing'
<1>1. Counted /\ clock \in Nat
  BY ClockIsTime DEF Typing
<1>2. CASE StartBackfill \/ RebuildMailbox
  <2>1. Begin /\ (UNCHANGED object \/ object' = [m \in {} |-> 0])
    BY <1>2 DEF StartBackfill, RebuildMailbox
  <2>2. used' \in Use /\ used'.writes = used.writes
    BY <1>1, <2>1, OneMore DEF Begin
  <2>3. UNCHANGED <<pg, flying, lost, clock, left, tick>>
    BY <2>1 DEF Begin, store
  <2>4. Sound(backfill', clock)
    BY <1>1, <2>1, IdleIsSound DEF Begin
  <2>5. Sent' /\ Held'
    BY <2>1, <2>3 DEF Typing, Sent, Held, Copies
  <2>6. Slots'
    BY <2>1 DEF Begin, Typing, Slots, RecomputeAlarm, Pending
  <2>7. Ticks'
    BY <2>3, TickIdle
  <2>8. QED
    BY <2>2, <2>3, <2>4, <2>5, <2>6, <2>7, QuietTypes
<1>3. CASE FolderRead
  <2>1. used' \in Use /\ used'.writes = used.writes
    BY <1>1, <1>3, OneMore DEF FolderRead
  <2>2. UNCHANGED <<pg, flying, lost, clock, object, backfill, tick>>
    BY <1>3 DEF FolderRead, store
  <2>3. Sent' /\ Held'
    BY <2>2 DEF Typing, Sent, Held
  <2>4. Slots'
    BY <1>3, MailboxBounds DEF FolderRead, Typing, Slots, RecomputeAlarm, Pending
  <2>5. Ticks'
    BY <2>2, TickIdle
  <2>6. QED
    BY <2>1, <2>2, <2>3, <2>4, <2>5, QuietTypes DEF Typing
<1>4. QED
  BY <1>2, <1>3

(* The handler without a page.                                             *)
LEMMA AlarmTypes ==
    ASSUME Typing,
           \/ AlarmFires \/ ContinueFolder \/ Stop
           \/ StartTick /\ ~Running(backfill)
    PROVE  Typing'
<1>1. Counted /\ used \in Use
  BY DEF Typing, Counted
<1>2. UNCHANGED <<pg, flying, lost, clock, object, backfill>>
  BY DEF AlarmFires, ContinueFolder, Stop, StartTick, store
<1>3. used' \in Use /\ used'.writes = used.writes
  BY <1>1, OneMore DEF AlarmFires, ContinueFolder, Stop, StartTick
<1>4. Sent' /\ Held'
  BY <1>2 DEF Typing, Sent, Held
<1>5. Slots'
  <2>1. CASE ContinueFolder
    BY <2>1, MailboxBounds DEF ContinueFolder, Typing, Slots, RecomputeAlarm, Pending
  <2>2. CASE AlarmFires \/ Stop \/ (StartTick /\ ~Running(backfill))
    BY <2>2 DEF AlarmFires, Stop, StartTick, Typing, Slots, RecomputeAlarm, Pending
  <2>3. QED
    BY <2>1, <2>2
<1>6. tick' = NoTick \/ tick' = [NoTick EXCEPT !.phase = "started", !.now = clock]
  BY DEF AlarmFires, ContinueFolder, Stop, StartTick
<1>7. Ticks'
  BY <1>2, <1>6, TickIdle
<1>8. QED
  BY <1>2, <1>3, <1>4, <1>5, <1>7, QuietTypes DEF Typing

(* The handler's page.                                                     *)
LEMMA PageTypes ==
    ASSUME Typing, (StartTick /\ Running(backfill)) \/ ReadPage \/ CopyRow
    PROVE  Typing'
<1>1. Counted /\ used \in Use /\ tick \in ATick
  BY DEF Typing, Counted, Ticks
<1>2. UNCHANGED <<pg, flying, lost, clock, backfill, slot, left, alarm, used>>
  BY DEF StartTick, ReadPage, CopyRow, store
<1>3. Sent' /\ Slots' /\ Sound(backfill', clock)
  BY <1>2 DEF Typing, Sent, Slots
<1>4. CASE StartTick /\ Running(backfill)
  <2>1. Sound(backfill, clock) /\ Running(backfill) /\ backfill \in Backfill
    BY <1>4 DEF Typing, Sound
  <2>2. tick' = [tick EXCEPT !.phase = "reading", !.seen = backfill, !.next = backfill]
    BY <1>4 DEF StartTick
  <2>3. /\ tick' \in ATick /\ tick'.phase = "reading" /\ tick'.seen = backfill
        /\ tick'.now = tick.now /\ tick'.rows = tick.rows
    BY <1>1, <2>1, <2>2 DEF ATick
  <2>4. Ticks'
    BY <1>2, <2>1, <2>3 DEF Typing, Ticks, Working, Copying
  <2>5. Held'
    BY <1>2, <1>4 DEF Typing, Held, StartTick
  <2>6. QED
    BY <1>1, <1>2, <1>3, <2>4, <2>5, QuietTypes
<1>5. CASE ReadPage
  <2> DEFINE rows == IF tick.seen.phase = "drafts" THEN {} ELSE PageRows(tick.seen)
             next == AfterPage(tick.seen, rows, tick.now)
  <2>1. Sound(tick.seen, clock) /\ Running(tick.seen) /\ tick.now \in Time /\ tick.now <= clock
    BY <1>5 DEF ReadPage, Typing, Ticks, Working, ATick
  <2>2. /\ Sound(next, clock)
        /\ rows \subseteq [msg : Message, row : Row]
        /\ \A r \in rows : r = RowOf(r.msg) /\ r.msg \in DOMAIN pg
    BY <2>1, PageLeadsOn
  <2>3. tick' = [tick EXCEPT !.phase = "copying", !.rows = rows, !.next = next]
    BY <1>5 DEF ReadPage
  <2> HIDE DEF rows, next
  <2>4. /\ tick' \in ATick /\ tick'.phase = "copying" /\ tick'.seen = tick.seen
        /\ tick'.next = next /\ tick'.now = tick.now /\ tick'.rows = rows
    BY <1>1, <2>2, <2>3 DEF ATick, Sound
  <2>5. \A r \in rows : r.msg \in DOMAIN pg /\ Dated(r.row, clock)
    BY <2>2 DEF RowOf, Typing, Stored
  <2>6. Ticks'
    BY <1>2, <2>1, <2>2, <2>4, <2>5 DEF Typing, Ticks, Working, Copying
  <2>7. Held'
    BY <1>2, <1>5 DEF Typing, Held, ReadPage
  <2>8. QED
    BY <1>1, <1>2, <1>3, <2>6, <2>7, QuietTypes
<1>6. CASE CopyRow
  <2>1. PICK r \in tick.rows :
           /\ object' = Merged(object, r, tick.now)
           /\ tick' = [tick EXCEPT !.rows = @ \ {r}]
    BY <1>6 DEF CopyRow
  <2>2. /\ r \in [msg : Message, row : Row] /\ tick.now \in Time /\ r.msg \in DOMAIN pg
        /\ Dated(r.row, clock) /\ tick.now <= clock /\ Copies(object)
    BY <1>1 DEF Typing, Ticks, ATick, Held
  <2>3. /\ tick' \in ATick /\ tick'.phase = tick.phase /\ tick'.seen = tick.seen
        /\ tick'.next = tick.next /\ tick'.now = tick.now /\ tick'.rows = tick.rows \ {r}
    BY <1>1, <2>1 DEF ATick
  <2>4. Ticks'
    BY <1>2, <2>3 DEF Typing, Ticks, Working, Copying
  <2>5. Held'
    <3> DEFINE new == Merged(object, r, tick.now)
    <3>1. Copies(new) /\ DOMAIN new = DOMAIN object \cup {r.msg}
      BY <2>2, MergedCopies, MergedTo, ZenonT(60)
    <3>2. \A x \in DOMAIN object \ {r.msg} : new[x] = object[x]
      BY <2>2, MergedTo, ZenonT(60)
    <3>3. r.msg \notin DOMAIN object =>
             new[r.msg] \in {Ingested(r.row.content, tick.now),
                             Removed(Ingested(r.row.content, tick.now), r.row.deleted)}
      BY <2>2, MergedTo
    <3>4. r.msg \in DOMAIN object => new[r.msg] \in {object[r.msg], Taken(r.row)}
      BY <2>2, MergedTo
    <3> HIDE DEF new
    <3>5. ASSUME NEW x \in DOMAIN new PROVE new[x].clk.content <= clock
      <4>1. CASE x # r.msg
        BY <3>1, <3>2, <3>5, <4>1 DEF Typing, Held
      <4>2. CASE x = r.msg /\ r.msg \notin DOMAIN object
        BY <2>2, <3>3, <4>2 DEF Ingested, Removed
      <4>3. CASE x = r.msg /\ r.msg \in DOMAIN object
        BY <2>2, <3>4, <4>3 DEF Taken, Dated, Typing, Held
      <4>4. QED
        BY <4>1, <4>2, <4>3
    <3>6. object' = new
      BY <2>1 DEF new
    <3>7. QED
      BY <1>2, <2>2, <3>1, <3>5, <3>6 DEF Typing, Held
  <2>6. QED
    BY <1>1, <1>2, <1>3, <2>4, <2>5, QuietTypes
<1>7. QED
  BY <1>4, <1>5, <1>6

(* The end of the handler.                                                 *)
LEMMA EndsType ==
    ASSUME Typing, EndTick \/ TickFails
    PROVE  Typing'
<1>1. Counted /\ clock \in Nat /\ used \in Use
  BY ClockIsTime DEF Typing, Counted
<1>2. used' \in Use /\ used'.writes = used.writes
  BY <1>1, OneMore DEF EndTick, TickFails
<1>3. PICK b \in {[tick.next EXCEPT !.attempts = 0], Failed(tick.seen)} :
         Finish(b) /\ Sound(b, clock)
  <2>1. CASE EndTick
    <3>1. Sound(tick.next, clock)
      BY <2>1 DEF EndTick, Typing, Ticks, Copying
    <3>2. Sound([tick.next EXCEPT !.attempts = 0], clock)
      BY <1>1, <3>1, AttemptsAnew
    <3>3. QED
      BY <2>1, <3>2 DEF EndTick
  <2>2. CASE TickFails
    <3>1. Sound(tick.seen, clock) /\ Running(tick.seen)
      BY <2>2 DEF TickFails, Typing, Ticks, Working
    <3>2. Sound(Failed(tick.seen), clock)
      BY <1>1, <3>1, FailedIsSound
    <3>3. QED
      BY <2>2, <3>2 DEF TickFails
  <2>3. QED
    BY <2>1, <2>2
<1>4. UNCHANGED <<pg, flying, lost, clock, object, left>> /\ backfill' = b /\ tick' = NoTick
  BY <1>3 DEF Finish, store
<1>5. Sent' /\ Held'
  BY <1>4 DEF Typing, Sent, Held
<1>6. Slots'
  BY <1>3 DEF Finish, Typing, Slots, RecomputeAlarm, Pending
<1>7. Ticks'
  BY <1>4, TickIdle
<1>8. QED
  BY <1>2, <1>3, <1>4, <1>5, <1>6, <1>7, QuietTypes

(* At first there are the old messages alone.                              *)
LEMMA TypesAtFirst == Init => Typing
<1> SUFFICES ASSUME Init PROVE Typing
  OBVIOUS
<1>1. clock = 2 /\ 0 \in Time /\ 1 \in Time /\ 2 \in Nat
  BY MailboxBounds DEF Init, Time
<1>2. Counted
  BY MailboxBounds DEF Init, Counted, Use
<1>3. Stored
  <2>1. Dated([content |-> 1, deleted |-> 0, updated |-> 1], 2)
    BY <1>1 DEF Dated, Row
  <2>2. QED
    BY <1>1, <2>1, MailboxBounds DEF Init, Stored, Message
<1>4. Sent /\ Held
  BY DEF Init, Sent, Held, Copies
<1>5. Sound(backfill, clock) /\ NoTick \in ATick
  BY <1>1, IdleIsSound DEF Init
<1>6. Slots
  <2>1. slot = "none" /\ left = 0 /\ alarm = FALSE /\ 0 \in 0 .. FolderBatches
    BY MailboxBounds DEF Init
  <2>2. QED
    BY <2>1 DEF Slots
<1>7. Ticks
  BY <1>1, <1>5 DEF Init, Ticks, NoTick, Working, Copying
<1>8. QED
  BY <1>2, <1>3, <1>4, <1>5, <1>6, <1>7 DEF Typing

(* Every step keeps them.                                                  *)
LEMMA TypesKept ==
    ASSUME Typing, [Next]_vars
    PROVE  Typing'
<1>1. CASE UNCHANGED vars
  BY <1>1 DEF vars, store, Typing, Counted, Stored, Sent, Held, Slots, Ticks, Working, Copying
<1>2. CASE Next
  BY <1>2, WritesType, DeliveriesType, CallsType, AlarmTypes, PageTypes, EndsType
     DEF Next, Alarm
<1>3. QED
  BY <1>1, <1>2

(* The rows of both stores, the writes between them, the backfill and what *)
(* its tick carries over its awaits keep their types, through failures,    *)
(* rebuilds and stops at any point.                                        *)
THEOREM TypeCorrect == Spec => []TypeOK
<1>1. Init => Typing
  BY TypesAtFirst
<1>2. Typing /\ [Next]_vars => Typing'
  BY TypesKept
<1>3. Typing => TypeOK
  BY TypingGives
<1>4. QED
  BY <1>1, <1>2, <1>3, PTL DEF Spec

-----------------------------------------------------------------------------
(* What a tick carries over its awaits.  No rebuild comes meanwhile: what  *)
(* it has read is still the backfill's state.                              *)

Under == flying \cup lost

Pages ==
    /\ Working => tick.seen = backfill
    /\ tick.phase # "off" => backfill.watermark <= tick.now
    /\ ~Copying => tick.rows = {}
    /\ Copying => Onward(tick.seen, tick.next, tick.now)

(* The backfill begins anew beside no page.                                *)
LEMMA BeginsBetween ==
    ASSUME ~RebuildDuringTick, Typing, Pages, StartBackfill \/ RebuildMailbox
    PROVE  ~Working /\ tick' = tick /\ backfill' = [Idle EXCEPT !.state = "running"]
<1>1. tick.phase \in {"off", "started", "reading", "copying"}
  BY DEF Typing, Ticks, ATick
<1>2. ~Working
  BY <1>1 DEF StartBackfill, RebuildMailbox, Typing, Ticks, Pages, Working
<1>3. QED
  BY <1>2 DEF StartBackfill, RebuildMailbox, Begin

(* They stay so.                                                           *)
LEMMA PagesKept ==
    ASSUME ~RebuildDuringTick, Typing, Pages, [Next]_vars
    PROVE  Pages'
<1>1. /\ clock \in Nat /\ tick \in ATick /\ tick.phase \in {"off", "started", "reading", "copying"}
      /\ tick.now \in Nat /\ backfill.watermark \in Nat /\ backfill.watermark <= clock
  BY ClockIsTime, MailboxBounds DEF Typing, Ticks, ATick, Sound, Backfill, Time
<1>2. CASE UNCHANGED <<backfill, tick>>
  BY <1>2 DEF Pages, Working, Copying
<1>3. CASE StartBackfill \/ RebuildMailbox
  <2>1. ~Working /\ tick' = tick /\ backfill'.watermark = 0
    BY <1>3, BeginsBetween, IdleIsSound
  <2>2. QED
    BY <1>1, <2>1 DEF Pages, Working, Copying
<1>4. CASE AlarmFires
  <2>1. tick'.phase = "started" /\ tick'.now = clock /\ tick'.rows = {} /\ backfill' = backfill
    BY <1>4 DEF AlarmFires, NoTick
  <2>2. QED
    BY <1>1, <2>1 DEF Pages, Working, Copying
<1>5. CASE ContinueFolder \/ EndTick \/ TickFails \/ Stop \/ (StartTick /\ ~Running(backfill))
  <2>1. tick' = NoTick
    BY <1>5 DEF ContinueFolder, EndTick, TickFails, Stop, StartTick, Finish
  <2>2. tick'.phase = "off" /\ tick'.rows = {}
    BY <2>1 DEF NoTick
  <2>3. QED
    BY <2>2 DEF Pages, Working, Copying
<1>6. CASE StartTick /\ Running(backfill)
  <2>1. tick' = [tick EXCEPT !.phase = "reading", !.seen = backfill, !.next = backfill]
        /\ tick.phase = "started" /\ backfill' = backfill
    BY <1>6 DEF StartTick
  <2>2. /\ tick'.phase = "reading" /\ tick'.seen = backfill /\ tick'.now = tick.now
        /\ tick'.rows = tick.rows
    BY <1>1, <2>1 DEF ATick
  <2>3. QED
    BY <2>1, <2>2 DEF Pages, Working, Copying
<1>7. CASE ReadPage
  <2> DEFINE rows == IF tick.seen.phase = "drafts" THEN {} ELSE PageRows(tick.seen)
             next == AfterPage(tick.seen, rows, tick.now)
  <2>1. Sound(tick.seen, clock) /\ Running(tick.seen) /\ tick.now \in Time /\ tick.now <= clock
        /\ tick.seen = backfill /\ backfill' = backfill /\ backfill.watermark <= tick.now
    BY <1>7 DEF ReadPage, Typing, Ticks, Working, ATick, Pages
  <2>2. Onward(tick.seen, next, tick.now)
    BY <2>1, PageLeadsOn
  <2>3. tick' = [tick EXCEPT !.phase = "copying", !.rows = rows, !.next = next]
    BY <1>7 DEF ReadPage
  <2> HIDE DEF rows, next
  <2>4. /\ tick'.phase = "copying" /\ tick'.seen = tick.seen
        /\ tick'.next = next /\ tick'.now = tick.now
    BY <1>1, <2>3 DEF ATick
  <2>5. QED
    BY <2>1, <2>2, <2>4 DEF Pages, Working, Copying
<1>8. CASE CopyRow
  <2>1. PICK r \in tick.rows : tick' = [tick EXCEPT !.rows = @ \ {r}]
    BY <1>8 DEF CopyRow
  <2>2. /\ tick'.phase = tick.phase /\ tick'.seen = tick.seen
        /\ tick'.next = tick.next /\ tick'.now = tick.now /\ tick'.rows = tick.rows \ {r}
    BY <1>1, <2>1 DEF ATick
  <2>3. backfill' = backfill
    BY <1>8 DEF CopyRow
  <2>4. QED
    BY <2>2, <2>3 DEF Pages, Working, Copying
<1>9. CASE Ingest \/ Change \/ Delete \/ Deliver \/ DeliveryFails \/ FolderRead
  BY <1>2, <1>9 DEF Ingest, Change, Delete, Dual, Deliver, DeliveryFails, FolderRead
<1>10. CASE UNCHANGED vars
  BY <1>2, <1>10 DEF vars
<1>11. QED
  BY <1>3, <1>4, <1>5, <1>6, <1>7, <1>8, <1>9, <1>10 DEF Next, Alarm

-----------------------------------------------------------------------------
(* Nothing is missed: a message that the object lacks is still before the  *)
(* cursor, or its own ingest is under way or was lost since the backfill   *)
(* looked there.                                                           *)

Fresh(u, m, t) == \E w \in u : w.kind = "ingest" /\ w.msg = m /\ w.at > t

Owed(b, m, p, u) ==
    /\ b.phase = "messages" => Before(b.cursor, <<0, m>>) \/ Fresh(u, m, b.watermark)
    /\ b.phase = "catchup" =>
          Fresh(u, m, b.watermark) /\ Before(b.cursor, <<p[m].updated, m>>)
    /\ b.phase = "done" => Fresh(u, m, b.finishedAt)

Covers(b, R, p, o, u) == \A m \in DOMAIN p \ DOMAIN o : Owed(b, m, p, u) \/ m \in R

RowMessages(rows) == {r.msg : r \in rows}

Behind ==
    /\ Covers(backfill, {}, pg, object, Under)
    /\ Copying => Covers(tick.next, RowMessages(tick.rows), pg, object, Under)

(* A message's content is not older than its ingest.                       *)
Firsts == \A w \in Under : w.kind = "ingest" => pg[w.msg].content >= w.at

(* A write to Postgres has the time after the clock's, later than whatever *)
(* it or a cursor has.                                                     *)
LEMMA WritesGo ==
    ASSUME Typing, Delay = 0, Ingest \/ Change \/ Delete
    PROVE  \E m \in Message, kind \in {"ingest", "change", "delete"} :
              /\ clock' = clock + 1 /\ UNCHANGED <<lost, object, backfill, tick>>
              /\ flying' = flying \cup {[kind |-> kind, msg |-> m, at |-> clock + 1]}
              /\ DOMAIN pg' = DOMAIN pg \cup {m}
              /\ \A x \in DOMAIN pg \ {m} : pg'[x] = pg[x]
              /\ pg'[m].updated = clock + 1
              /\ kind = "ingest" => /\ m \notin DOMAIN pg
                                    /\ pg'[m].content = clock + 1 /\ pg'[m].deleted = 0
              /\ kind = "change" => /\ m \in DOMAIN pg /\ pg[m].deleted = 0
                                    /\ pg'[m].content = clock + 1 /\ pg'[m].deleted = 0
              /\ kind = "delete" => /\ m \in DOMAIN pg /\ pg[m].deleted = 0
                                    /\ pg'[m].content = pg[m].content
                                    /\ pg'[m].deleted # 0
<1>1. /\ \A at \in Stamps : at = clock + 1
      /\ clock \in Nat /\ \A m \in DOMAIN pg : m \in Message /\ pg[m] \in Row
  BY ClockIsTime DEF Typing, Stored, Dated
<1>2. CASE Ingest
  <2>1. PICK m \in Message \ DOMAIN pg :
           Dual("ingest", m, clock + 1,
                [content |-> clock + 1, deleted |-> 0, updated |-> clock + 1])
    BY <1>1, <1>2 DEF Ingest
  <2>2. QED
    BY <2>1 DEF Dual, With
<1>3. CASE Change
  <2>1. PICK m \in DOMAIN pg :
           /\ pg[m].deleted = 0
           /\ Dual("change", m, clock + 1,
                   [pg[m] EXCEPT !.content = clock + 1, !.updated = clock + 1])
    BY <1>1, <1>3 DEF Change
  <2> DEFINE q == [pg[m] EXCEPT !.content = clock + 1, !.updated = clock + 1]
  <2>2. q.content = clock + 1 /\ q.updated = clock + 1 /\ q.deleted = 0
    BY <1>1, <2>1 DEF Row
  <2>3. Dual("change", m, clock + 1, q) /\ pg[m].deleted = 0
    BY <2>1
  <2> HIDE DEF q
  <2>4. QED
    BY <1>1, <2>2, <2>3 DEF Dual, With
<1>4. CASE Delete
  <2>1. PICK m \in DOMAIN pg :
           /\ pg[m].deleted = 0
           /\ Dual("delete", m, clock + 1,
                   [pg[m] EXCEPT !.deleted = clock + 1, !.updated = clock + 1])
    BY <1>1, <1>4 DEF Delete
  <2> DEFINE q == [pg[m] EXCEPT !.deleted = clock + 1, !.updated = clock + 1]
  <2>2. q.content = pg[m].content /\ q.updated = clock + 1 /\ q.deleted # 0
    BY <1>1, <2>1 DEF Row
  <2>3. Dual("delete", m, clock + 1, q) /\ pg[m].deleted = 0
    BY <2>1
  <2> HIDE DEF q
  <2>4. QED
    BY <1>1, <2>2, <2>3 DEF Dual, With
<1>5. QED
  BY <1>2, <1>3, <1>4

(* A delivery takes one write at most, and the object has its message then *)
(* if it was an ingest.                                                    *)
LEMMA DeliveryGoes ==
    ASSUME Typing, Deliver
    PROVE  \E w \in flying :
              /\ w \in Write /\ Copies(object)
              /\ object' = Applied(object, w)
              /\ flying' \in {flying, flying \ {w}}
              /\ UNCHANGED <<pg, lost, clock, backfill, tick>>
              /\ DOMAIN object \subseteq DOMAIN object'
              /\ w.kind = "ingest" => w.msg \in DOMAIN object'
              /\ InOrder /\ w.kind # "ingest" =>
                    ~ \E v \in flying : v.kind = "ingest" /\ v.msg = w.msg
<1>1. PICK w \in flying :
         /\ (InOrder /\ w.kind # "ingest") =>
               ~ \E v \in flying : v.kind = "ingest" /\ v.msg = w.msg
         /\ object' = Applied(object, w)
         /\ flying' \in {flying, flying \ {w}}
         /\ UNCHANGED <<pg, lost, clock, backfill, tick>>
  BY DEF Deliver
<1>2. w \in Write /\ Copies(object)
  BY DEF Typing, Sent, Held
<1>3. DOMAIN object' = IF w.kind = "ingest" THEN DOMAIN object \cup {w.msg} ELSE DOMAIN object
  BY <1>1, <1>2, AppliedTo
<1>4. QED
  BY <1>1, <1>2, <1>3

(* What a state owes stays owed while writes come.                         *)
LEMMA OwedStays ==
    ASSUME NEW b, NEW c \in Nat, Sound(b, c), NEW m \in Message,
           NEW p, NEW q, NEW u, NEW v, Owed(b, m, p, u),
           p[m].updated \in Nat, q[m].updated \in Nat, p[m].updated <= q[m].updated,
           \A w \in u : w.kind = "ingest" /\ w.msg = m => w \in v
    PROVE  Owed(b, m, q, v)
<1>1. b.cursor[1] \in Nat /\ b.cursor[2] \in Nat /\ m \in Nat
  BY CursorParts, MailboxBounds DEF Sound, Backfill, Message
<1>2. Before(b.cursor, <<p[m].updated, m>>) => Before(b.cursor, <<q[m].updated, m>>)
  BY <1>1 DEF Before
<1>3. \A t : Fresh(u, m, t) => Fresh(v, m, t)
  BY DEF Fresh
<1>4. QED
  BY <1>2, <1>3 DEF Owed

(* What is missed stays owed when Postgres is written.                     *)
LEMMA CoversWrites ==
    ASSUME Typing, Delay = 0, Ingest \/ Change \/ Delete,
           NEW b, Sound(b, clock), NEW R, Covers(b, R, pg, object, Under)
    PROVE  Covers(b, R, pg', object', Under')
<1>1. PICK m \in Message, kind \in {"ingest", "change", "delete"} :
         /\ UNCHANGED <<lost, object>>
         /\ flying' = flying \cup {[kind |-> kind, msg |-> m, at |-> clock + 1]}
         /\ DOMAIN pg' = DOMAIN pg \cup {m}
         /\ \A x \in DOMAIN pg \ {m} : pg'[x] = pg[x]
         /\ pg'[m].updated = clock + 1
         /\ kind = "ingest" => m \notin DOMAIN pg
         /\ kind # "ingest" => m \in DOMAIN pg
  BY WritesGo
<1>2. clock \in Nat /\ \A x \in DOMAIN pg : /\ x \in Message /\ pg[x].updated \in Nat
                                            /\ pg[x].updated <= clock
  BY ClockIsTime, MailboxBounds DEF Typing, Stored, Dated, Row, Time
<1>3. ASSUME NEW x \in DOMAIN pg' \ DOMAIN object', x \notin R
      PROVE  Owed(b, x, pg', Under')
  <2>1. CASE x \in DOMAIN pg
    <3>1. Owed(b, x, pg, Under)
      BY <1>1, <1>3, <2>1 DEF Covers
    <3>2. pg'[x].updated \in Nat /\ pg[x].updated <= pg'[x].updated
      BY <1>1, <1>2, <2>1
    <3>3. Under \subseteq Under'
      BY <1>1 DEF Under
    <3>4. QED
      BY <1>2, <2>1, <3>1, <3>2, <3>3, OwedStays
  <2>2. CASE x \notin DOMAIN pg
    <3>1. x = m /\ kind = "ingest" /\ pg'[x].updated = clock + 1
      BY <1>1, <1>3, <2>2
    <3>2. b.cursor[1] \in Nat /\ b.cursor[2] \in Nat /\ b.cursor[1] <= clock
          /\ b.watermark \in Nat /\ b.watermark <= clock
          /\ b.finishedAt \in Nat /\ b.finishedAt <= clock
      BY CursorParts, MailboxBounds DEF Sound, Backfill, Time
    <3>3. Before(b.cursor, <<pg'[x].updated, x>>)
      BY <1>2, <3>1, <3>2 DEF Before
    <3>4. \A t \in Nat : t <= clock => Fresh(Under', x, t)
      <4> DEFINE w == [kind |-> "ingest", msg |-> x, at |-> clock + 1]
      <4>1. w \in Under' /\ w.kind = "ingest" /\ w.msg = x /\ w.at = clock + 1
        BY <1>1, <3>1 DEF Under
      <4> HIDE DEF w
      <4>2. QED
        BY <1>2, <4>1 DEF Fresh
    <3>5. QED
      BY <3>2, <3>3, <3>4 DEF Owed
  <2>3. QED
    BY <2>1, <2>2
<1>4. QED
  BY <1>3 DEF Covers

(* And when a write reaches the object, or does not.                       *)
LEMMA CoversDeliveries ==
    ASSUME Typing, Deliver \/ DeliveryFails,
           NEW b, Sound(b, clock), NEW R, Covers(b, R, pg, object, Under)
    PROVE  Covers(b, R, pg', object', Under')
<1>1. clock \in Nat /\ \A x \in DOMAIN pg : x \in Message /\ pg[x].updated \in Nat
  BY ClockIsTime, MailboxBounds DEF Typing, Stored, Dated, Row, Time
<1>2. UNCHANGED pg /\ DOMAIN object \subseteq DOMAIN object'
      /\ \A w \in Under \ Under' : w.kind = "ingest" => w.msg \in DOMAIN object'
  <2>1. CASE Deliver
    BY <2>1, DeliveryGoes DEF Under
  <2>2. CASE DeliveryFails
    BY <2>2 DEF DeliveryFails, Under
  <2>3. QED
    BY <2>1, <2>2
<1>3. ASSUME NEW x \in DOMAIN pg' \ DOMAIN object', x \notin R
      PROVE  Owed(b, x, pg', Under')
  <2>1. Owed(b, x, pg, Under)
    BY <1>2, <1>3 DEF Covers
  <2>2. \A w \in Under : w.kind = "ingest" /\ w.msg = x => w \in Under'
    BY <1>2, <1>3
  <2>3. QED
    BY <1>1, <1>2, <1>3, <2>1, <2>2, OwedStays
<1>4. QED
  BY <1>3 DEF Covers

(* A row is not older than the ingest that brought it.                     *)
LEMMA FirstsKept ==
    ASSUME Typing, Delay = 0, Firsts, [Next]_vars
    PROVE  Firsts'
<1>1. clock \in Nat /\ \A w \in Under : /\ w.msg \in DOMAIN pg /\ w.at \in Nat /\ w.at <= clock
  BY ClockIsTime DEF Typing, Sent, Under, Write
<1>2. CASE Ingest \/ Change \/ Delete
  <2>1. PICK m \in Message, kind \in {"ingest", "change", "delete"} :
           /\ UNCHANGED lost
           /\ flying' = flying \cup {[kind |-> kind, msg |-> m, at |-> clock + 1]}
           /\ \A x \in DOMAIN pg \ {m} : pg'[x] = pg[x]
           /\ kind = "ingest" => m \notin DOMAIN pg /\ pg'[m].content = clock + 1
           /\ kind = "change" => pg'[m].content = clock + 1
           /\ kind = "delete" => m \in DOMAIN pg /\ pg'[m].content = pg[m].content
    BY <1>2, WritesGo
  <2>2. ASSUME NEW w \in Under', w.kind = "ingest" PROVE pg'[w.msg].content >= w.at
    <3>1. CASE w \in Under
      BY <1>1, <2>1, <2>2, <3>1 DEF Firsts
    <3>2. CASE w \notin Under
      <4>1. w = [kind |-> kind, msg |-> m, at |-> clock + 1]
        BY <2>1, <2>2, <3>2 DEF Under
      <4>2. QED
        BY <1>1, <2>1, <2>2, <4>1
    <3>3. QED
      BY <3>1, <3>2
  <2>3. QED
    BY <2>2 DEF Firsts
<1>3. CASE ~(Ingest \/ Change \/ Delete)
  <2>1. pg' = pg /\ Under' \subseteq Under
    <3>1. CASE Deliver \/ DeliveryFails
      BY <3>1 DEF Deliver, DeliveryFails, Under
    <3>2. CASE StartBackfill \/ RebuildMailbox \/ FolderRead
      BY <3>2 DEF StartBackfill, RebuildMailbox, FolderRead, Begin, store, Under
    <3>3. CASE Alarm \/ TickFails \/ Stop
      BY <3>3 DEF Alarm, AlarmFires, ContinueFolder, StartTick, ReadPage, CopyRow, EndTick,
                  TickFails, Finish, Stop, store, Under
    <3>4. CASE UNCHANGED vars
      BY <3>4 DEF vars, store, Under
    <3>5. QED
      BY <1>3, <3>1, <3>2, <3>3, <3>4 DEF Next
  <2>2. QED
    BY <2>1 DEF Firsts
<1>4. QED
  BY <1>2, <1>3

(* A page has what is owed, or leaves it before the next cursor.           *)
LEMMA PageCovers ==
    ASSUME Typing, Firsts, NEW b, Sound(b, clock), Running(b), NEW now \in Time, now <= clock,
           NEW rows, rows = IF b.phase = "drafts" THEN {} ELSE PageRows(b),
           Covers(b, {}, pg, object, Under)
    PROVE  Covers(AfterPage(b, rows, now), RowMessages(rows), pg, object, Under)
<1> DEFINE n == AfterPage(b, rows, now)
<1>1. /\ Onward(b, n, now)
      /\ b.phase # "drafts" => \A m \in Due(b) : \/ \E r \in rows : r = RowOf(m)
                                                 \/ Rest(b, n) /\ Before(n.cursor, Key(b, m, pg[m]))
  BY PageLeadsOn
<1>2. /\ b.phase \in {"drafts", "messages", "catchup"} /\ b.watermark \in Nat
      /\ \A m \in DOMAIN pg : /\ m \in Nat /\ m > 0 /\ pg[m].content <= pg[m].updated
                              /\ pg[m].content \in Nat /\ pg[m].updated \in Nat
      /\ \A w \in Under : w.at \in Nat
  BY MailboxBounds DEF Typing, Stored, Dated, Row, Time, Message, Sound, Running, Backfill,
                       Sent, Under, Write
<1> HIDE DEF n
<1>3. ASSUME NEW m \in DOMAIN pg \ DOMAIN object, m \notin RowMessages(rows)
      PROVE  Owed(n, m, pg, Under)
  <2>1. Owed(b, m, pg, Under)
    BY DEF Covers
  <2>2. \A t \in Nat : Before(Start, <<t, m>>)
    BY <1>2 DEF Before, Start
  <2>3. b.phase # "drafts" /\ m \in Due(b) => Rest(b, n) /\ Before(n.cursor, Key(b, m, pg[m]))
    <3>1. \A r \in rows : r # RowOf(m)
      BY <1>3 DEF RowMessages, RowOf
    <3>2. QED
      BY <1>1, <3>1
  <2>4. Fresh(Under, m, b.watermark) => pg[m].updated >= b.watermark
    <3>1. ASSUME Fresh(Under, m, b.watermark) PROVE pg[m].updated >= b.watermark
      <4>1. PICK w \in Under : w.kind = "ingest" /\ w.msg = m /\ w.at > b.watermark
        BY <3>1 DEF Fresh
      <4>2. pg[m].content >= w.at
        BY <4>1 DEF Firsts
      <4>3. QED
        BY <1>2, <4>1, <4>2
    <3>2. QED
      BY <3>1
  <2>5. CASE b.phase = "drafts"
    BY <1>1, <2>2, <2>5 DEF Onward, Owed
  <2>6. CASE b.phase = "messages"
    <3>1. Key(b, m, pg[m]) = <<0, m>>
      BY <2>6 DEF Key
    <3>2. Before(b.cursor, <<0, m>>) => Rest(b, n) /\ Before(n.cursor, <<0, m>>)
      BY <2>3, <2>6, <3>1 DEF Due
    <3>3. QED
      BY <1>1, <1>2, <2>1, <2>2, <2>6, <3>2 DEF Onward, Owed, Rest
  <2>7. CASE b.phase = "catchup"
    <3>1. Key(b, m, pg[m]) = <<pg[m].updated, m>>
      BY <2>7 DEF Key
    <3>2. Fresh(Under, m, b.watermark) /\ Before(b.cursor, <<pg[m].updated, m>>)
      BY <2>1, <2>7 DEF Owed
    <3>3. Rest(b, n) /\ Before(n.cursor, <<pg[m].updated, m>>)
      BY <2>3, <2>4, <2>7, <3>1, <3>2 DEF Due
    <3>4. QED
      BY <1>1, <2>7, <3>2, <3>3 DEF Onward, Owed, Rest
  <2>8. QED
    BY <1>2, <2>5, <2>6, <2>7
<1>4. QED
  BY <1>3 DEF Covers, n

(* What matters of a state of the backfill is where it is.                 *)
LEMMA SamePlace ==
    ASSUME NEW b, NEW n, n.phase = b.phase, n.cursor = b.cursor,
           n.watermark = b.watermark, n.finishedAt = b.finishedAt,
           NEW R, NEW p, NEW o, NEW u, Covers(b, R, p, o, u)
    PROVE  Covers(n, R, p, o, u)
  BY DEF Covers, Owed

(* All that is missed stays owed.                                          *)
LEMMA BehindKept ==
    ASSUME ~RebuildDuringTick, Delay = 0, Typing, Pages, Firsts, Behind, [Next]_vars
    PROVE  Behind'
<1>1. /\ clock \in Nat /\ tick \in ATick /\ tick.phase \in {"off", "started", "reading", "copying"}
      /\ Sound(backfill, clock) /\ (Copying => Sound(tick.next, clock))
  BY ClockIsTime DEF Typing, Ticks, ATick
<1>2. Covers(backfill, {}, pg, object, Under)
      /\ (Copying => Covers(tick.next, RowMessages(tick.rows), pg, object, Under))
  BY DEF Behind
<1>3. CASE UNCHANGED <<pg, object, flying, lost, backfill>> /\ ~Copying'
  BY <1>2, <1>3 DEF Behind, Covers, Under
<1>4. CASE Ingest \/ Change \/ Delete
  <2>1. UNCHANGED <<backfill, tick>>
    BY <1>4 DEF Ingest, Change, Delete, Dual
  <2>2. Covers(backfill, {}, pg', object', Under')
    BY <1>1, <1>2, <1>4, CoversWrites
  <2>3. Copying => Covers(tick.next, RowMessages(tick.rows), pg', object', Under')
    BY <1>1, <1>2, <1>4, CoversWrites
  <2>4. QED
    BY <2>1, <2>2, <2>3 DEF Behind, Copying
<1>5. CASE Deliver \/ DeliveryFails
  <2>1. UNCHANGED <<backfill, tick>>
    BY <1>5 DEF Deliver, DeliveryFails
  <2>2. Covers(backfill, {}, pg', object', Under')
    BY <1>1, <1>2, <1>5, CoversDeliveries
  <2>3. Copying => Covers(tick.next, RowMessages(tick.rows), pg', object', Under')
    BY <1>1, <1>2, <1>5, CoversDeliveries
  <2>4. QED
    BY <2>1, <2>2, <2>3 DEF Behind, Copying
<1>6. CASE StartBackfill \/ RebuildMailbox
  <2>1. ~Working /\ tick' = tick /\ backfill'.phase = "drafts"
    BY <1>1, <1>6, BeginsBetween, IdleIsSound
  <2>2. QED
    BY <2>1 DEF Behind, Covers, Owed, Working, Copying
<1>7. CASE FolderRead
  BY <1>2, <1>7 DEF FolderRead, store, Behind, Covers, Under, Copying
<1>8. CASE AlarmFires \/ ContinueFolder \/ StartTick \/ Stop
  <2>1. ~Copying'
    <3>1. CASE AlarmFires
      BY <3>1 DEF AlarmFires, NoTick, Copying
    <3>2. CASE ContinueFolder \/ Stop
      BY <3>2 DEF ContinueFolder, Stop, NoTick, Copying
    <3>3. CASE StartTick
      <4>1. \/ tick' = NoTick
            \/ tick' = [tick EXCEPT !.phase = "reading", !.seen = backfill, !.next = backfill]
        BY <3>3 DEF StartTick
      <4>2. tick' = NoTick => tick'.phase = "off"
        BY DEF NoTick
      <4>3. tick' # NoTick => tick'.phase = "reading"
        BY <1>1, <4>1 DEF ATick
      <4>4. QED
        BY <4>2, <4>3 DEF Copying
    <3>4. QED
      BY <1>8, <3>1, <3>2, <3>3
  <2>2. UNCHANGED <<pg, object, flying, lost, backfill>>
    BY <1>8 DEF AlarmFires, ContinueFolder, StartTick, Stop, store
  <2>3. QED
    BY <1>3, <2>1, <2>2
<1>9. CASE ReadPage
  <2> DEFINE rows == IF tick.seen.phase = "drafts" THEN {} ELSE PageRows(tick.seen)
             next == AfterPage(tick.seen, rows, tick.now)
  <2>1. /\ Sound(tick.seen, clock) /\ Running(tick.seen) /\ tick.now \in Time /\ tick.now <= clock
        /\ tick.seen = backfill
    BY <1>9 DEF ReadPage, Typing, Ticks, Working, ATick, Pages
  <2>2. Covers(next, RowMessages(rows), pg, object, Under)
    BY <1>2, <2>1, PageCovers
  <2>3. tick' = [tick EXCEPT !.phase = "copying", !.rows = rows, !.next = next]
        /\ UNCHANGED <<pg, object, flying, lost, backfill>>
    BY <1>9 DEF ReadPage, store
  <2> HIDE DEF rows, next
  <2>4. tick'.rows = rows /\ tick'.next = next
    BY <1>1, <2>3 DEF ATick
  <2>5. QED
    BY <1>2, <2>2, <2>3, <2>4 DEF Behind, Under
<1>10. CASE CopyRow
  <2>1. PICK r \in tick.rows : /\ tick' = [tick EXCEPT !.rows = @ \ {r}]
                               /\ object' = Merged(object, r, tick.now)
    BY <1>10 DEF CopyRow
  <2>2. /\ tick'.next = tick.next /\ tick'.rows = tick.rows \ {r} /\ Copying
        /\ UNCHANGED <<pg, flying, lost, backfill>>
    BY <1>1, <1>10, <2>1 DEF ATick, CopyRow, store, Copying
  <2>3. DOMAIN object' = DOMAIN object \cup {r.msg}
    <3>1. r \in [msg : Message, row : Row] /\ Copies(object) /\ tick.now \in Time
      BY DEF Typing, Ticks, ATick, Held
    <3>2. DOMAIN Merged(object, r, tick.now) = DOMAIN object \cup {r.msg}
      BY <3>1, MergedTo
    <3>3. QED
      BY <2>1, <3>2
  <2>4. RowMessages(tick.rows) \subseteq RowMessages(tick'.rows) \cup {r.msg}
    BY <2>2 DEF RowMessages
  <2>5. QED
    BY <1>2, <2>2, <2>3, <2>4 DEF Behind, Covers, Under
<1>11. CASE EndTick
  <2>1. /\ Copying /\ tick.rows = {} /\ backfill' = [tick.next EXCEPT !.attempts = 0]
        /\ tick'.phase = "off" /\ UNCHANGED <<pg, object, flying, lost>>
    BY <1>11 DEF EndTick, Finish, Copying, NoTick, store
  <2>2. /\ backfill'.phase = tick.next.phase /\ backfill'.cursor = tick.next.cursor
        /\ backfill'.watermark = tick.next.watermark
        /\ backfill'.finishedAt = tick.next.finishedAt
    BY <1>1, <2>1, AttemptsAnew
  <2>3. RowMessages(tick.rows) = {}
    BY <2>1 DEF RowMessages
  <2>4. Covers(tick.next, {}, pg, object, Under)
    BY <1>2, <2>1, <2>3
  <2>5. Covers(backfill', {}, pg, object, Under)
    BY <2>2, <2>4, SamePlace
  <2>6. QED
    BY <2>1, <2>5 DEF Behind, Copying, Under
<1>12. CASE TickFails
  <2>1. /\ Working /\ backfill' = Failed(tick.seen)
        /\ tick'.phase = "off" /\ UNCHANGED <<pg, object, flying, lost>>
    BY <1>12 DEF TickFails, Finish, Working, NoTick, store
  <2>2. tick.seen = backfill /\ Sound(tick.seen, clock) /\ Running(tick.seen)
    BY <2>1 DEF Pages, Typing, Ticks
  <2>3. /\ backfill'.phase = backfill.phase /\ backfill'.cursor = backfill.cursor
        /\ backfill'.watermark = backfill.watermark
        /\ backfill'.finishedAt = backfill.finishedAt
    BY <1>1, <2>1, <2>2, FailedIsSound
  <2>4. Covers(backfill', {}, pg, object, Under)
    BY <1>2, <2>3, SamePlace
  <2>5. QED
    BY <2>1, <2>4 DEF Behind, Copying, Under
<1>13. CASE UNCHANGED vars
  BY <1>2, <1>13 DEF vars, store, Behind, Covers, Under, Copying
<1>14. QED
  BY <1>4, <1>5, <1>6, <1>7, <1>8, <1>9, <1>10, <1>11, <1>12, <1>13 DEF Next, Alarm

-----------------------------------------------------------------------------
(* A backfill that is done has missed no message, where no rebuild comes   *)
(* while a tick awaits and a write is committed at the time it has.        *)
THEOREM NothingMissed == ~RebuildDuringTick /\ Delay = 0 => (Spec => []CopiedWhenDone)
<1> SUFFICES ASSUME ~RebuildDuringTick, Delay = 0 PROVE Spec => []CopiedWhenDone
  OBVIOUS
<1> DEFINE Inv == Typing /\ Pages /\ Firsts /\ Behind
<1>1. Init => Inv
  <2> SUFFICES ASSUME Init PROVE Inv
    OBVIOUS
  <2>1. Typing
    BY TypesAtFirst
  <2>2. /\ backfill.phase = "drafts" /\ tick.phase = "off" /\ tick.rows = {}
        /\ flying = {} /\ lost = {}
    BY DEF Init, Idle, NoTick
  <2>3. QED
    BY <2>1, <2>2 DEF Pages, Firsts, Behind, Covers, Owed, Under, Working, Copying
<1>2. Inv /\ [Next]_vars => Inv'
  BY TypesKept, PagesKept, FirstsKept, BehindKept
<1>3. Inv => CopiedWhenDone
  <2> SUFFICES ASSUME Inv, Done, NEW m \in DOMAIN pg \ DOMAIN object
               PROVE  \E w \in flying \cup lost :
                         /\ w.kind = "ingest" /\ w.msg = m
                         /\ w \in lost => w.at > backfill.finishedAt
    BY DEF CopiedWhenDone
  <2>1. backfill.phase = "done"
    BY DEF Done, Typing, Sound
  <2>2. Fresh(Under, m, backfill.finishedAt)
    BY <2>1 DEF Behind, Covers, Owed
  <2>3. QED
    BY <2>2 DEF Fresh, Under
<1>4. QED
  BY <1>1, <1>2, <1>3, PTL DEF Spec

-----------------------------------------------------------------------------
(* What each step does to the rows, the writes and the backfill.           *)

(* The numbers of a state.                                                 *)
LEMMA RowNumbers ==
    ASSUME Typing, NEW m \in DOMAIN pg
    PROVE  /\ clock \in Nat /\ m \in Message /\ m \in Nat /\ m > 0 /\ pg[m] \in Row
           /\ pg[m].content \in Nat /\ pg[m].updated \in Nat /\ pg[m].deleted \in Nat
           /\ pg[m].content <= pg[m].updated /\ pg[m].updated <= clock
           /\ pg[m].deleted = 0 => pg[m].updated = pg[m].content
<1>1. Dated(pg[m], clock) /\ m \in Message /\ clock \in Nat
  BY ClockIsTime DEF Typing, Stored
<1>2. QED
  BY <1>1, MailboxBounds DEF Dated, Row, Time, Message

(* Those of a write.                                                       *)
LEMMA WriteNumbers ==
    ASSUME Typing, NEW w \in Under
    PROVE  /\ w \in Write /\ w.msg \in DOMAIN pg /\ w.at \in Nat /\ w.at <= clock
           /\ w.kind \in {"ingest", "change", "delete"}
  BY MailboxBounds DEF Typing, Sent, Under, Write, Time

(* Those of a row in the object.                                           *)
LEMMA CopyNumbers ==
    ASSUME Typing, NEW m \in DOMAIN object
    PROVE  /\ m \in DOMAIN pg /\ object[m].content \in Nat
           /\ object[m].clk.content \in Nat /\ object[m].clk.delete \in Nat
           /\ object[m].clk.content <= clock
<1>1. object[m] \in Copy /\ m \in DOMAIN pg /\ object[m].clk.content <= clock
  BY DEF Typing, Held, Copies
<1>2. QED
  BY <1>1, CopyParts, MailboxBounds DEF Time

(* Those of a page's row.                                                  *)
LEMMA PageNumbers ==
    ASSUME Typing, NEW r \in tick.rows
    PROVE  /\ r \in [msg : Message, row : Row] /\ r.msg \in DOMAIN pg
           /\ r.row.content \in Nat /\ r.row.updated \in Nat /\ r.row.deleted \in Nat
           /\ r.row.deleted = 0 => r.row.updated = r.row.content
           /\ tick.now \in Nat /\ tick.now \in Time /\ tick.now <= clock
<1>1. /\ r \in [msg : Message, row : Row] /\ r.msg \in DOMAIN pg /\ Dated(r.row, clock)
      /\ tick.now \in Time /\ tick.now <= clock
  BY DEF Typing, Ticks, ATick
<1>2. QED
  BY <1>1, MailboxBounds DEF Dated, Row, Time

(* Those of the place where a backfill is.                                 *)
LEMMA PlaceNumbers ==
    ASSUME NEW b, NEW c \in Nat, Sound(b, c)
    PROVE  /\ b.cursor[1] \in Nat /\ b.cursor[2] \in Nat /\ b.cursor[1] <= c
           /\ b.watermark \in Nat /\ b.watermark <= c
           /\ b.finishedAt \in Nat /\ b.finishedAt <= c
           /\ b.phase \in {"drafts", "messages", "catchup", "done"}
<1>1. b \in Backfill /\ b.cursor \in Cursor /\ b.watermark \in Time /\ b.finishedAt \in Time
  BY DEF Sound, Backfill
<1>2. QED
  BY <1>1, CursorParts, MailboxBounds DEF Sound, Backfill, Time

SamePlaces(n, b) == /\ n.phase = b.phase /\ n.cursor = b.cursor
                    /\ n.watermark = b.watermark /\ n.finishedAt = b.finishedAt

(* The steps but for writes, deliveries, pages and rows leave the rows     *)
(* alone, and at their end the backfill is where it was, or behind the     *)
(* page that is copied, or begins.                                         *)
LEMMA OtherSteps ==
    ASSUME ~RebuildDuringTick, Typing, Pages, [Next]_vars,
           ~(Ingest \/ Change \/ Delete \/ Deliver \/ DeliveryFails \/ ReadPage \/ CopyRow)
    PROVE  /\ UNCHANGED <<pg, flying, lost>>
           /\ object' = object \/ DOMAIN object' = {}
           /\ tick' = tick \/ tick'.rows = {}
           /\ Copying' => UNCHANGED <<object, backfill, tick>>
           /\ \/ backfill'.phase = "drafts"
              \/ UNCHANGED object /\ SamePlaces(backfill', backfill)
              \/ UNCHANGED object /\ Copying /\ tick.rows = {} /\ SamePlaces(backfill', tick.next)
<1>1. /\ clock \in Nat /\ tick \in ATick /\ tick.phase \in {"off", "started", "reading", "copying"}
      /\ Sound(backfill, clock) /\ (Copying => Sound(tick.next, clock))
      /\ (~Copying => tick.rows = {})
  BY ClockIsTime DEF Typing, Ticks, ATick, Pages
<1>2. CASE StartBackfill \/ RebuildMailbox
  <2>1. ~Working /\ tick' = tick /\ backfill'.phase = "drafts"
    BY <1>1, <1>2, BeginsBetween, IdleIsSound
  <2>2. UNCHANGED <<pg, flying, lost>> /\ (object' = object \/ DOMAIN object' = {})
    BY <1>2 DEF StartBackfill, RebuildMailbox, Begin, store
  <2>3. QED
    BY <2>1, <2>2 DEF Working, Copying
<1>3. CASE FolderRead \/ UNCHANGED vars
  <2>1. UNCHANGED <<pg, flying, lost, object, backfill, tick>>
    BY <1>3 DEF FolderRead, vars, store
  <2>2. QED
    BY <2>1 DEF SamePlaces
<1>4. CASE AlarmFires \/ ContinueFolder \/ Stop
  <2>1. UNCHANGED <<pg, flying, lost, object, backfill>>
    BY <1>4 DEF AlarmFires, ContinueFolder, Stop, store
  <2>2. tick'.phase # "copying" /\ tick'.rows = {}
    <3>1. CASE AlarmFires
      BY <3>1 DEF AlarmFires, NoTick
    <3>2. CASE ContinueFolder \/ Stop
      BY <3>2 DEF ContinueFolder, Stop, NoTick
    <3>3. QED
      BY <1>4, <3>1, <3>2
  <2>3. QED
    BY <2>1, <2>2 DEF SamePlaces, Copying
<1>5. CASE StartTick
  <2>1. UNCHANGED <<pg, flying, lost, object, backfill>> /\ tick.phase = "started"
        /\ \/ tick' = NoTick
           \/ tick' = [tick EXCEPT !.phase = "reading", !.seen = backfill, !.next = backfill]
    BY <1>5 DEF StartTick, store
  <2>2. tick' = NoTick => tick'.phase = "off" /\ tick'.rows = {}
    BY DEF NoTick
  <2>3. tick' # NoTick => tick'.phase = "reading" /\ tick'.rows = tick.rows
    BY <1>1, <2>1 DEF ATick
  <2>4. QED
    BY <1>1, <2>1, <2>2, <2>3 DEF SamePlaces, Copying
<1>6. CASE EndTick
  <2>1. /\ Copying /\ tick.rows = {} /\ backfill' = [tick.next EXCEPT !.attempts = 0]
        /\ tick'.phase = "off" /\ tick'.rows = {} /\ UNCHANGED <<pg, object, flying, lost>>
    BY <1>6 DEF EndTick, Finish, Copying, NoTick, store
  <2>2. SamePlaces(backfill', tick.next)
    BY <1>1, <2>1, AttemptsAnew DEF SamePlaces
  <2>3. QED
    BY <2>1, <2>2 DEF Copying
<1>7. CASE TickFails
  <2>1. /\ Working /\ backfill' = Failed(tick.seen)
        /\ tick'.phase = "off" /\ tick'.rows = {} /\ UNCHANGED <<pg, object, flying, lost>>
    BY <1>7 DEF TickFails, Finish, Working, NoTick, store
  <2>2. tick.seen = backfill /\ Sound(tick.seen, clock) /\ Running(tick.seen)
    BY <2>1 DEF Pages, Typing, Ticks
  <2>3. SamePlaces(backfill', backfill)
    BY <1>1, <2>1, <2>2, FailedIsSound DEF SamePlaces
  <2>4. QED
    BY <2>1, <2>3 DEF Copying
<1>8. QED
  BY <1>2, <1>3, <1>4, <1>5, <1>6, <1>7 DEF Next, Alarm

(* A page has rows as they are in Postgres.                                *)
LEMMA PageRead ==
    ASSUME Typing, Pages, ReadPage
    PROVE  /\ UNCHANGED <<pg, flying, lost, object, backfill>>
           /\ Sound(backfill, clock) /\ Running(backfill) /\ backfill.watermark <= tick.now
           /\ tick.now \in Time /\ tick.now <= clock /\ tick'.now = tick.now
           /\ tick'.rows = IF backfill.phase = "drafts" THEN {} ELSE PageRows(backfill)
           /\ tick'.next = AfterPage(backfill, tick'.rows, tick.now)
           /\ \A r \in tick'.rows : r = RowOf(r.msg) /\ r.msg \in DOMAIN pg
           /\ Copying'
<1> DEFINE rows == IF tick.seen.phase = "drafts" THEN {} ELSE PageRows(tick.seen)
           next == AfterPage(tick.seen, rows, tick.now)
<1>1. /\ Sound(tick.seen, clock) /\ Running(tick.seen) /\ tick.now \in Time /\ tick.now <= clock
      /\ tick.seen = backfill /\ tick \in ATick /\ backfill.watermark <= tick.now
  BY DEF ReadPage, Typing, Ticks, Working, ATick, Pages
<1>2. /\ tick' = [tick EXCEPT !.phase = "copying", !.rows = rows, !.next = next]
      /\ UNCHANGED <<pg, object, flying, lost, backfill>>
  BY DEF ReadPage, store
<1>3. \A r \in rows : r = RowOf(r.msg) /\ r.msg \in DOMAIN pg
  BY <1>1, PageLeadsOn
<1> HIDE DEF rows, next
<1>4. tick'.phase = "copying" /\ tick'.rows = rows /\ tick'.next = next /\ tick'.now = tick.now
  BY <1>1, <1>2 DEF ATick
<1>5. QED
  BY <1>1, <1>2, <1>3, <1>4 DEF rows, next, Copying

(* A row is new in the object, or overwrites what is there, or is dropped  *)
(* for it.                                                                 *)
LEMMA RowCopied ==
    ASSUME Typing, CopyRow
    PROVE  \E r \in tick.rows :
              /\ UNCHANGED <<pg, flying, lost, backfill>> /\ Copying
              /\ tick'.rows = tick.rows \ {r}
              /\ tick'.next = tick.next /\ tick'.now = tick.now
              /\ DOMAIN object' = DOMAIN object \cup {r.msg}
              /\ \A x \in DOMAIN object \ {r.msg} : object'[x] = object[x]
              /\ r.msg \notin DOMAIN object =>
                    /\ object'[r.msg].content = r.row.content
                    /\ object'[r.msg].clk.content = tick.now
                    /\ r.row.deleted = 0 => object'[r.msg].clk.delete = tick.now
              /\ r.msg \in DOMAIN object =>
                    \/ /\ \/ r.row.updated < object[r.msg].clk.content
                          \/ r.row.updated < object[r.msg].clk.delete
                       /\ object'[r.msg] = object[r.msg]
                    \/ /\ r.row.updated >= object[r.msg].clk.content
                       /\ object'[r.msg].content = r.row.content
                       /\ object'[r.msg].clk.content = r.row.updated
                       /\ object'[r.msg].clk.delete = r.row.updated
<1>1. PICK r \in tick.rows : /\ tick' = [tick EXCEPT !.rows = @ \ {r}]
                             /\ object' = Merged(object, r, tick.now)
  BY DEF CopyRow
<1>2. tick \in ATick /\ Copies(object)
  BY DEF Typing, Ticks, Held
<1>3. /\ tick'.next = tick.next /\ tick'.now = tick.now /\ tick'.rows = tick.rows \ {r} /\ Copying
      /\ UNCHANGED <<pg, flying, lost, backfill>>
  BY <1>1, <1>2 DEF ATick, CopyRow, store, Copying
<1>4. r \in [msg : Message, row : Row] /\ tick.now \in Time /\ r.row.updated \in Nat
  BY PageNumbers
<1> DEFINE new == Merged(object, r, tick.now)
           ingested == Ingested(r.row.content, tick.now)
<1>5. /\ DOMAIN new = DOMAIN object \cup {r.msg}
      /\ \A x \in DOMAIN object \ {r.msg} : new[x] = object[x]
      /\ r.msg \notin DOMAIN object => new[r.msg] \in {ingested, Removed(ingested, r.row.deleted)}
      /\ r.msg \notin DOMAIN object /\ r.row.deleted = 0 => new[r.msg] = ingested
      /\ r.msg \in DOMAIN object =>
            new[r.msg] = IF \/ r.row.updated < object[r.msg].clk.content
                            \/ r.row.updated < object[r.msg].clk.delete
                         THEN object[r.msg] ELSE Taken(r.row)
  BY <1>2, <1>4, MergedTo
<1> HIDE DEF new
<1>6. /\ ingested.content = r.row.content
      /\ ingested.clk.content = tick.now /\ ingested.clk.delete = tick.now
      /\ Removed(ingested, r.row.deleted).content = r.row.content
      /\ Removed(ingested, r.row.deleted).clk.content = tick.now
      /\ Taken(r.row).content = r.row.content
      /\ Taken(r.row).clk.content = r.row.updated /\ Taken(r.row).clk.delete = r.row.updated
  BY DEF Ingested, Removed, Taken
<1>7. r.msg \in DOMAIN object =>
         object[r.msg].clk.content \in Nat /\ object[r.msg].clk.delete \in Nat
  BY CopyNumbers
<1>8. object' = new
  BY <1>1 DEF new
<1> HIDE DEF ingested
<1>9. QED
  BY <1>3, <1>4, <1>5, <1>6, <1>7, <1>8

(* A write is new in the object, or changes what is there, or is dropped   *)
(* for it.                                                                 *)
LEMMA WriteDelivered ==
    ASSUME Typing, Deliver
    PROVE  \E w \in flying :
              /\ flying' \in {flying, flying \ {w}}
              /\ UNCHANGED <<pg, lost, clock, backfill, tick>>
              /\ InOrder /\ w.kind # "ingest" =>
                    ~ \E v \in flying : v.kind = "ingest" /\ v.msg = w.msg
              /\ \A x \in DOMAIN object : x # w.msg => object'[x] = object[x]
              /\ \/ /\ w.kind = "ingest" /\ w.msg \notin DOMAIN object
                    /\ DOMAIN object' = DOMAIN object \cup {w.msg}
                    /\ object'[w.msg].content = w.at
                    /\ object'[w.msg].clk.content = w.at /\ object'[w.msg].clk.delete = w.at
                 \/ /\ w.kind = "change" /\ w.msg \in DOMAIN object
                    /\ DOMAIN object' = DOMAIN object
                    /\ w.at >= object[w.msg].clk.content
                    /\ object'[w.msg].content = w.at
                    /\ object'[w.msg].clk.content = w.at
                    /\ object'[w.msg].clk.delete = object[w.msg].clk.delete
                 \/ /\ w.kind = "delete" /\ w.msg \in DOMAIN object
                    /\ DOMAIN object' = DOMAIN object
                    /\ object'[w.msg].content = object[w.msg].content
                    /\ object'[w.msg].clk.content = object[w.msg].clk.content
                 \/ /\ DOMAIN object' = DOMAIN object
                    /\ w.kind = "ingest" => w.msg \in DOMAIN object
                    /\ w.msg \in DOMAIN object =>
                          /\ object'[w.msg] = object[w.msg]
                          /\ w.kind = "change" => w.at < object[w.msg].clk.content
<1>1. PICK w \in flying :
         /\ w \in Write /\ Copies(object)
         /\ object' = Applied(object, w)
         /\ flying' \in {flying, flying \ {w}}
         /\ UNCHANGED <<pg, lost, clock, backfill, tick>>
         /\ InOrder /\ w.kind # "ingest" =>
               ~ \E v \in flying : v.kind = "ingest" /\ v.msg = w.msg
  BY DeliveryGoes
<1> DEFINE new == Applied(object, w)
<1>2. /\ DOMAIN new = IF w.kind = "ingest" THEN DOMAIN object \cup {w.msg} ELSE DOMAIN object
      /\ \A x \in DOMAIN object \ {w.msg} : new[x] = object[x]
  BY <1>1, AppliedTo
<1>3. /\ w.kind = "ingest" /\ w.msg \notin DOMAIN object => new[w.msg] = Ingested(w.at, w.at)
      /\ w.kind = "ingest" /\ w.msg \in DOMAIN object => new[w.msg] = object[w.msg]
      /\ w.kind = "change" /\ w.msg \in DOMAIN object =>
            new[w.msg] = IF w.at >= object[w.msg].clk.content
                         THEN Changed(object[w.msg], w.at) ELSE object[w.msg]
      /\ w.kind = "delete" /\ w.msg \in DOMAIN object =>
            new[w.msg] \in {Removed(object[w.msg], w.at), object[w.msg]}
  BY <1>1, AppliedTo
<1> HIDE DEF new
<1>4. object' = new
  BY <1>1 DEF new
<1>5. w.kind \in {"ingest", "change", "delete"} /\ w.at \in Nat
  BY <1>1, MailboxBounds DEF Write, Time
<1>6. CASE w.kind = "ingest"
  BY <1>1, <1>2, <1>3, <1>4, <1>6 DEF Ingested
<1>7. CASE w.kind = "change"
  <2>1. CASE w.msg \in DOMAIN object
    <3>1. object[w.msg].clk.content \in Nat
      BY <2>1, CopyNumbers
    <3>2. QED
      BY <1>1, <1>2, <1>3, <1>4, <1>5, <1>7, <2>1, <3>1 DEF Changed
  <2>2. CASE w.msg \notin DOMAIN object
    BY <1>1, <1>2, <1>4, <1>7, <2>2
  <2>3. QED
    BY <2>1, <2>2
<1>8. CASE w.kind = "delete"
  <2>1. CASE w.msg \in DOMAIN object
    BY <1>1, <1>2, <1>3, <1>4, <1>8, <2>1 DEF Removed
  <2>2. CASE w.msg \notin DOMAIN object
    BY <1>1, <1>2, <1>4, <1>8, <2>2
  <2>3. QED
    BY <2>1, <2>2
<1>9. QED
  BY <1>5, <1>6, <1>7, <1>8

-----------------------------------------------------------------------------
(* What is known of the rows that a page has read, of the writes that are  *)
(* under way or lost, and of the clocks.                                   *)

(* A page's row is the one in Postgres, or that has been written since.    *)
RowsRead ==
    /\ \A r \in tick.rows :
          /\ \/ r.row = pg[r.msg]
             \/ pg[r.msg].updated > tick.now /\ pg[r.msg].updated > tick.next.cursor[1]
          /\ r.row.content <= pg[r.msg].content
          /\ r.row.deleted # 0 => pg[r.msg].deleted # 0
    /\ \A r, q \in tick.rows : r.msg = q.msg => r = q

(* A write is in Postgres, where it may have been followed by others.      *)
Written ==
    \A w \in Under : /\ w.kind = "delete" => pg[w.msg].deleted # 0
                     /\ w.kind # "delete" => w.at <= pg[w.msg].content

(* Nothing of a message is older than its ingest.                          *)
FirstOfAll ==
    \A w \in Under : w.kind = "ingest" =>
        /\ w.msg \notin Old
        /\ w.msg \in DOMAIN object => object[w.msg].content >= w.at
        /\ \A r \in tick.rows : r.msg = w.msg => r.row.content >= w.at
        /\ \A v \in Under : v.msg = w.msg => v.at >= w.at

(* Nor is the last content delivered before it.                            *)
Waiting ==
    \A w \in flying : w.kind = "ingest" =>
        \E v \in Under : v.msg = w.msg /\ v.at = pg[w.msg].content

(* A row of the object is not ahead of Postgres, and unless it has the     *)
(* content of Postgres its clocks let that in.                             *)
Follows(o, p) ==
    /\ o.content <= p.content
    /\ p.deleted = 0 => /\ o.clk.delete <= o.clk.content
                        /\ o.content = p.content \/ p.content > o.clk.content

(* Nor does a page's row undo it: the clock keeps it out, or it is newer.  *)
Clocked ==
    \A m \in DOMAIN object :
        /\ Follows(object[m], pg[m])
        /\ \A r \in tick.rows : r.msg = m =>
              object[m].clk.content >= object[m].content \/ object[m].content <= r.row.content

(* They are kept.  Of a page's rows: a write is later than the tick.       *)
LEMMA RowsReadKept ==
    ASSUME ~RebuildDuringTick, Delay = 0, Typing, Pages, RowsRead, [Next]_vars
    PROVE  RowsRead'
<1>1. CASE Ingest \/ Change \/ Delete
  <2>1. PICK m \in Message, kind \in {"ingest", "change", "delete"} :
           /\ UNCHANGED tick
           /\ \A x \in DOMAIN pg \ {m} : pg'[x] = pg[x]
           /\ pg'[m].updated = clock + 1
           /\ m \in DOMAIN pg => /\ pg'[m].content \in {clock + 1, pg[m].content}
                                 /\ kind # "delete" => pg[m].deleted = 0
                                 /\ kind = "delete" => pg'[m].deleted # 0
    <3>1. PICK m \in Message, kind \in {"ingest", "change", "delete"} :
             /\ UNCHANGED tick
             /\ \A x \in DOMAIN pg \ {m} : pg'[x] = pg[x]
             /\ pg'[m].updated = clock + 1
             /\ kind = "ingest" => m \notin DOMAIN pg
             /\ kind = "change" => pg[m].deleted = 0 /\ pg'[m].content = clock + 1
             /\ kind = "delete" => pg'[m].content = pg[m].content /\ pg'[m].deleted # 0
      BY <1>1, WritesGo
    <3>2. QED
      BY <3>1
  <2>2. ASSUME NEW r \in tick.rows
        PROVE  /\ \/ r.row = pg'[r.msg]
                  \/ pg'[r.msg].updated > tick.now /\ pg'[r.msg].updated > tick.next.cursor[1]
               /\ r.row.content <= pg'[r.msg].content
               /\ r.row.deleted # 0 => pg'[r.msg].deleted # 0
    <3>1. r.msg \in DOMAIN pg /\ tick.now \in Nat /\ tick.now <= clock /\ r.row.content \in Nat
      BY PageNumbers
    <3>2. clock \in Nat /\ pg[r.msg].content \in Nat /\ pg[r.msg].content <= clock
      BY <3>1, RowNumbers
    <3>3. tick.next.cursor[1] \in Nat /\ tick.next.cursor[1] <= clock
      BY <3>2, PlaceNumbers DEF Typing, Ticks, Pages
    <3>4. /\ \/ r.row = pg[r.msg]
             \/ pg[r.msg].updated > tick.now /\ pg[r.msg].updated > tick.next.cursor[1]
          /\ r.row.content <= pg[r.msg].content
          /\ r.row.deleted # 0 => pg[r.msg].deleted # 0
      BY DEF RowsRead
    <3>5. QED
      BY <2>1, <3>1, <3>2, <3>3, <3>4
  <2>3. QED
    BY <2>1, <2>2 DEF RowsRead
<1>2. CASE Deliver \/ DeliveryFails
  BY <1>2 DEF Deliver, DeliveryFails, RowsRead
<1>3. CASE ReadPage
  <2>1. UNCHANGED pg /\ \A r \in tick'.rows : r = RowOf(r.msg) /\ r.msg \in DOMAIN pg
    BY <1>3, PageRead
  <2>2. \A r \in tick'.rows : r.row = pg[r.msg] /\ pg[r.msg].content \in Nat
    <3>1. \A r \in tick'.rows : r.row = pg[r.msg]
      BY <2>1 DEF RowOf
    <3>2. QED
      BY <2>1, <3>1, RowNumbers
  <2>3. QED
    BY <2>1, <2>2 DEF RowsRead
<1>4. CASE CopyRow
  <2>1. /\ UNCHANGED pg /\ tick'.rows \subseteq tick.rows
        /\ tick'.next = tick.next /\ tick'.now = tick.now
    BY <1>4, RowCopied
  <2>2. QED
    BY <2>1 DEF RowsRead
<1>5. CASE ~(Ingest \/ Change \/ Delete \/ Deliver \/ DeliveryFails \/ ReadPage \/ CopyRow)
  <2>1. UNCHANGED pg /\ (tick' = tick \/ tick'.rows = {})
    BY <1>5, OtherSteps
  <2>2. QED
    BY <2>1 DEF RowsRead
<1>6. QED
  BY <1>1, <1>2, <1>3, <1>4, <1>5

(* Of the writes: a content is followed by later ones, a deletion by none. *)
LEMMA WrittenKept ==
    ASSUME ~RebuildDuringTick, Delay = 0, Typing, Pages, Written, [Next]_vars
    PROVE  Written'
<1>1. CASE Ingest \/ Change \/ Delete
  <2>1. PICK m \in Message, kind \in {"ingest", "change", "delete"} :
           /\ UNCHANGED lost
           /\ flying' = flying \cup {[kind |-> kind, msg |-> m, at |-> clock + 1]}
           /\ \A x \in DOMAIN pg \ {m} : pg'[x] = pg[x]
           /\ kind = "ingest" => m \notin DOMAIN pg /\ pg'[m].content = clock + 1
           /\ kind = "change" => pg[m].deleted = 0 /\ pg'[m].content = clock + 1
           /\ kind = "delete" => pg'[m].content = pg[m].content /\ pg'[m].deleted # 0
    BY <1>1, WritesGo
  <2>2. ASSUME NEW w \in Under'
        PROVE  /\ w.kind = "delete" => pg'[w.msg].deleted # 0
               /\ w.kind # "delete" => w.at <= pg'[w.msg].content
    <3>1. CASE w \in Under
      <4>1. /\ w.kind = "delete" => pg[w.msg].deleted # 0
            /\ w.kind # "delete" => w.at <= pg[w.msg].content
        BY <3>1 DEF Written
      <4>2. w.msg \in DOMAIN pg /\ w.at \in Nat /\ w.at <= clock /\ clock \in Nat
        BY <3>1, WriteNumbers, ClockIsTime DEF Typing
      <4>3. QED
        BY <2>1, <4>1, <4>2
    <3>2. CASE w \notin Under
      <4>1. w = [kind |-> kind, msg |-> m, at |-> clock + 1]
        BY <2>1, <2>2, <3>2 DEF Under
      <4>2. w.kind = kind /\ w.msg = m /\ w.at = clock + 1 /\ clock \in Nat
        BY <4>1, ClockIsTime DEF Typing
      <4>3. QED
        BY <2>1, <4>2
    <3>3. QED
      BY <3>1, <3>2
  <2>3. QED
    BY <2>2 DEF Written
<1>2. CASE ~(Ingest \/ Change \/ Delete)
  <2>1. UNCHANGED pg /\ Under' \subseteq Under
    <3>1. CASE Deliver \/ DeliveryFails
      BY <3>1 DEF Deliver, DeliveryFails, Under
    <3>2. CASE ReadPage
      BY <3>2, PageRead DEF Under
    <3>3. CASE CopyRow
      BY <3>3, RowCopied DEF Under
    <3>4. CASE ~(Deliver \/ DeliveryFails \/ ReadPage \/ CopyRow)
      BY <1>2, <3>4, OtherSteps DEF Under
    <3>5. QED
      BY <3>1, <3>2, <3>3, <3>4
  <2>2. QED
    BY <2>1 DEF Written
<1>3. QED
  BY <1>1, <1>2

(* Of the ingests: a message that is new has nothing anywhere.             *)
LEMMA FirstOfAllKept ==
    ASSUME ~RebuildDuringTick, Delay = 0, Typing, Pages, Firsts, FirstOfAll, [Next]_vars
    PROVE  FirstOfAll'
<1>1. ASSUME NEW w \in Under, w.kind = "ingest"
      PROVE  /\ w.msg \notin Old /\ w.at \in Nat /\ w.at <= clock /\ w.msg \in DOMAIN pg
             /\ w.msg \in DOMAIN object => object[w.msg].content >= w.at
             /\ \A r \in tick.rows : r.msg = w.msg => r.row.content >= w.at
             /\ \A v \in Under : v.msg = w.msg => v.at >= w.at
             /\ pg[w.msg].content >= w.at
  BY <1>1, WriteNumbers DEF FirstOfAll, Firsts
<1>2. CASE Ingest \/ Change \/ Delete
  <2>1. PICK m \in Message, kind \in {"ingest", "change", "delete"} :
           /\ UNCHANGED <<lost, object, tick>>
           /\ flying' = flying \cup {[kind |-> kind, msg |-> m, at |-> clock + 1]}
           /\ kind = "ingest" <=> m \notin DOMAIN pg
    BY <1>2, WritesGo
  <2> DEFINE n == [kind |-> kind, msg |-> m, at |-> clock + 1]
  <2>2. n.kind = kind /\ n.msg = m /\ n.at = clock + 1 /\ Under' = Under \cup {n} /\ clock \in Nat
    BY <2>1, ClockIsTime DEF Under, Typing
  <2> HIDE DEF n
  <2>3. ASSUME NEW w \in Under', w.kind = "ingest"
        PROVE  /\ w.msg \notin Old
               /\ w.msg \in DOMAIN object => object[w.msg].content >= w.at
               /\ \A r \in tick.rows : r.msg = w.msg => r.row.content >= w.at
               /\ \A v \in Under' : v.msg = w.msg => v.at >= w.at
    <3>1. CASE w \in Under
      BY <1>1, <2>2, <2>3, <3>1
    <3>2. CASE w = n
      <4>1. m \notin DOMAIN pg
        BY <2>1, <2>2, <2>3, <3>2
      <4>2. m \notin Old /\ m \notin DOMAIN object
        BY <4>1 DEF Typing, Stored, Held
      <4>3. \A r \in tick.rows : r.msg # m
        BY <4>1, PageNumbers
      <4>4. \A v \in Under : v.msg # m
        BY <4>1, WriteNumbers
      <4>5. QED
        BY <2>2, <3>2, <4>2, <4>3, <4>4
    <3>3. QED
      BY <2>2, <3>1, <3>2
  <2>4. QED
    BY <2>1, <2>3 DEF FirstOfAll
<1>3. CASE Deliver
  <2>1. PICK w \in flying :
           /\ Under' \subseteq Under /\ UNCHANGED tick
           /\ \A x \in DOMAIN object : x # w.msg => object'[x] = object[x]
           /\ DOMAIN object' \subseteq DOMAIN object \cup {w.msg}
           /\ w.msg \in DOMAIN object' =>
                 \/ object'[w.msg].content = w.at
                 \/ w.msg \in DOMAIN object /\ object'[w.msg].content = object[w.msg].content
    <3>1. PICK w \in flying :
             /\ flying' \in {flying, flying \ {w}} /\ UNCHANGED <<lost, tick>>
             /\ \A x \in DOMAIN object : x # w.msg => object'[x] = object[x]
             /\ \/ /\ DOMAIN object' = DOMAIN object \cup {w.msg}
                   /\ object'[w.msg].content = w.at
                \/ /\ DOMAIN object' = DOMAIN object
                   /\ w.msg \in DOMAIN object =>
                         object'[w.msg].content \in {w.at, object[w.msg].content}
      BY <1>3, WriteDelivered
    <3>2. QED
      BY <3>1 DEF Under
  <2>2. \A u \in Under : u.msg = w.msg /\ u.kind = "ingest" => w.at >= u.at
    BY <1>1, <2>1 DEF Under
  <2>3. QED
    BY <1>1, <2>1, <2>2 DEF FirstOfAll
<1>4. CASE DeliveryFails
  <2>1. UNCHANGED <<object, tick>> /\ Under' \subseteq Under
    BY <1>4 DEF DeliveryFails, Under
  <2>2. QED
    BY <1>1, <2>1 DEF FirstOfAll
<1>5. CASE ReadPage
  <2>1. /\ UNCHANGED <<pg, flying, lost, object>>
        /\ \A r \in tick'.rows : r = RowOf(r.msg)
    BY <1>5, PageRead
  <2>2. \A r \in tick'.rows : r.row = pg[r.msg]
    BY <2>1 DEF RowOf
  <2>3. QED
    BY <1>1, <2>1, <2>2 DEF FirstOfAll, Under
<1>6. CASE CopyRow
  <2>1. PICK r \in tick.rows :
           /\ UNCHANGED <<flying, lost>> /\ tick'.rows \subseteq tick.rows
           /\ DOMAIN object' = DOMAIN object \cup {r.msg}
           /\ \A x \in DOMAIN object \ {r.msg} : object'[x] = object[x]
           /\ \/ object'[r.msg].content = r.row.content
              \/ r.msg \in DOMAIN object /\ object'[r.msg] = object[r.msg]
    BY <1>6, RowCopied
  <2>2. QED
    BY <1>1, <2>1 DEF FirstOfAll, Under
<1>7. CASE ~(Ingest \/ Change \/ Delete \/ Deliver \/ DeliveryFails \/ ReadPage \/ CopyRow)
  <2>1. /\ UNCHANGED <<flying, lost>> /\ (object' = object \/ DOMAIN object' = {})
        /\ tick' = tick \/ tick'.rows = {}
    BY <1>7, OtherSteps
  <2>2. QED
    BY <1>1, <2>1 DEF FirstOfAll, Under
<1>8. QED
  BY <1>2, <1>3, <1>4, <1>5, <1>6, <1>7

(* Of what is delivered: an ingest is before the rest of its message.      *)
LEMMA WaitingKept ==
    ASSUME ~RebuildDuringTick, Delay = 0, InOrder, Typing, Pages, FirstOfAll, Waiting, [Next]_vars
    PROVE  Waiting'
<1>1. ASSUME NEW w \in flying, w.kind = "ingest"
      PROVE  w.msg \in DOMAIN pg /\ \E v \in Under : v.msg = w.msg /\ v.at = pg[w.msg].content
  <2>1. w \in Under
    BY DEF Under
  <2>2. QED
    BY <1>1, <2>1, WriteNumbers DEF Waiting
<1>2. CASE Ingest \/ Change \/ Delete
  <2>1. PICK m \in Message, kind \in {"ingest", "change", "delete"} :
           /\ UNCHANGED lost
           /\ flying' = flying \cup {[kind |-> kind, msg |-> m, at |-> clock + 1]}
           /\ \A x \in DOMAIN pg \ {m} : pg'[x] = pg[x]
           /\ kind = "ingest" => m \notin DOMAIN pg /\ pg'[m].content = clock + 1
           /\ kind = "change" => pg'[m].content = clock + 1
           /\ kind = "delete" => pg'[m].content = pg[m].content
    BY <1>2, WritesGo
  <2> DEFINE n == [kind |-> kind, msg |-> m, at |-> clock + 1]
  <2>2. /\ n.kind = kind /\ n.msg = m /\ n.at = clock + 1
        /\ flying' = flying \cup {n} /\ Under' = Under \cup {n}
    BY <2>1 DEF Under
  <2> HIDE DEF n
  <2>3. ASSUME NEW w \in flying', w.kind = "ingest"
        PROVE  \E v \in Under' : v.msg = w.msg /\ v.at = pg'[w.msg].content
    <3>1. CASE w = n
      BY <2>1, <2>2, <2>3, <3>1
    <3>2. CASE w \in flying /\ w.msg # m
      BY <1>1, <2>1, <2>2, <2>3, <3>2
    <3>3. CASE w \in flying /\ w.msg = m /\ kind = "change"
      BY <2>1, <2>2, <3>3
    <3>4. CASE w \in flying /\ w.msg = m /\ kind # "change"
      BY <1>1, <2>1, <2>2, <2>3, <3>4
    <3>5. QED
      BY <2>2, <2>3, <3>1, <3>2, <3>3, <3>4
  <2>4. QED
    BY <2>3 DEF Waiting
<1>3. CASE Deliver
  <2>1. PICK u \in flying :
           /\ flying' \in {flying, flying \ {u}} /\ UNCHANGED <<pg, lost>>
           /\ u.kind # "ingest" => ~ \E v \in flying : v.kind = "ingest" /\ v.msg = u.msg
    BY <1>3, WriteDelivered
  <2>2. ASSUME NEW w \in flying', w.kind = "ingest"
        PROVE  \E v \in Under' : v.msg = w.msg /\ v.at = pg'[w.msg].content
    <3>1. PICK v \in Under : v.msg = w.msg /\ v.at = pg[w.msg].content
      BY <1>1, <2>1, <2>2
    <3>2. CASE v \in Under'
      BY <2>1, <3>1, <3>2
    <3>3. CASE v \notin Under'
      <4>1. v = u /\ flying' = flying \ {u} /\ u.msg = w.msg /\ w # u /\ w \in flying
        BY <2>1, <2>2, <3>1, <3>3 DEF Under
      <4>2. u.kind = "ingest"
        BY <2>1, <2>2, <4>1
      <4>3. u \in Under /\ w \in Under
        BY <2>1, <4>1 DEF Under
      <4>4. u.at >= w.at /\ w.at >= u.at
        BY <2>2, <4>1, <4>2, <4>3 DEF FirstOfAll
      <4>5. u \in Write /\ w \in Write /\ u.at \in Nat /\ w.at \in Nat
        BY <4>3, WriteNumbers
      <4>6. u.at = w.at
        BY <4>4, <4>5
      <4>7. u = w
        BY <2>2, <4>1, <4>2, <4>5, <4>6 DEF Write
      <4>8. QED
        BY <4>1, <4>7
    <3>4. QED
      BY <3>2, <3>3
  <2>3. QED
    BY <2>2 DEF Waiting
<1>4. CASE DeliveryFails
  <2>1. UNCHANGED pg /\ Under' = Under /\ flying' \subseteq flying
    BY <1>4 DEF DeliveryFails, Under
  <2>2. QED
    BY <1>1, <2>1 DEF Waiting
<1>5. CASE ~(Ingest \/ Change \/ Delete \/ Deliver \/ DeliveryFails)
  <2>1. UNCHANGED <<pg, flying, lost>>
    <3>1. CASE ReadPage
      BY <3>1, PageRead
    <3>2. CASE CopyRow
      BY <3>2, RowCopied
    <3>3. CASE ~(ReadPage \/ CopyRow)
      BY <1>5, <3>3, OtherSteps
    <3>4. QED
      BY <3>1, <3>2, <3>3
  <2>2. QED
    BY <1>1, <2>1 DEF Waiting, Under
<1>6. QED
  BY <1>2, <1>3, <1>4, <1>5

(* Of the clocks.                                                          *)
LEMMA ClockedKept ==
    ASSUME ~RebuildDuringTick, Delay = 0, Typing, Pages, RowsRead, Written, Clocked, [Next]_vars
    PROVE  Clocked'
<1>1. ASSUME NEW m \in DOMAIN object
      PROVE  /\ m \in DOMAIN pg /\ object[m].content \in Nat
             /\ object[m].clk.content \in Nat /\ object[m].clk.delete \in Nat
             /\ object[m].clk.content <= clock
             /\ pg[m].content \in Nat /\ pg[m].content <= clock /\ clock \in Nat
             /\ Follows(object[m], pg[m])
             /\ \A r \in tick.rows : r.msg = m =>
                   object[m].clk.content >= object[m].content \/ object[m].content <= r.row.content
  <2>1. m \in DOMAIN pg
    BY CopyNumbers
  <2>2. QED
    BY <2>1, CopyNumbers, RowNumbers DEF Clocked
<1>2. CASE Ingest \/ Change \/ Delete
  <2>1. PICK m \in Message, kind \in {"ingest", "change", "delete"} :
           /\ UNCHANGED <<object, tick>>
           /\ \A x \in DOMAIN pg \ {m} : pg'[x] = pg[x]
           /\ kind = "ingest" => m \notin DOMAIN pg
           /\ kind = "change" => pg[m].deleted = 0 /\ pg'[m].content = clock + 1
           /\ kind = "delete" => pg'[m].content = pg[m].content /\ pg'[m].deleted # 0
    BY <1>2, WritesGo
  <2>2. \A x \in DOMAIN object : Follows(object[x], pg'[x])
    BY <1>1, <2>1 DEF Follows
  <2>3. QED
    BY <1>1, <2>1, <2>2 DEF Clocked
<1>3. CASE Deliver
  <2>1. PICK w \in flying :
           /\ UNCHANGED <<pg, tick>>
           /\ \A x \in DOMAIN object : x # w.msg => object'[x] = object[x]
           /\ \/ /\ w.kind = "ingest" /\ w.msg \notin DOMAIN object
                 /\ DOMAIN object' = DOMAIN object \cup {w.msg}
                 /\ object'[w.msg].content = w.at
                 /\ object'[w.msg].clk.content = w.at /\ object'[w.msg].clk.delete = w.at
              \/ /\ w.kind = "change" /\ w.msg \in DOMAIN object
                 /\ DOMAIN object' = DOMAIN object
                 /\ w.at >= object[w.msg].clk.content
                 /\ object'[w.msg].content = w.at
                 /\ object'[w.msg].clk.content = w.at
                 /\ object'[w.msg].clk.delete = object[w.msg].clk.delete
              \/ /\ w.kind = "delete" /\ w.msg \in DOMAIN object
                 /\ DOMAIN object' = DOMAIN object
                 /\ object'[w.msg].content = object[w.msg].content
                 /\ object'[w.msg].clk.content = object[w.msg].clk.content
              \/ /\ DOMAIN object' = DOMAIN object
                 /\ w.msg \in DOMAIN object => object'[w.msg] = object[w.msg]
    BY <1>3, WriteDelivered
  <2> DEFINE m == w.msg
  <2>2. /\ w.at \in Nat /\ m \in DOMAIN pg
        /\ w.kind = "delete" => pg[m].deleted # 0
        /\ w.kind # "delete" => w.at <= pg[m].content
    BY <2>1, WriteNumbers DEF Under, Written
  <2>3. pg[m].content \in Nat
    BY <2>2, RowNumbers
  <2>4. ASSUME m \in DOMAIN object'
        PROVE  /\ Follows(object'[m], pg[m])
               /\ \A r \in tick.rows : r.msg = m =>
                     \/ object'[m].clk.content >= object'[m].content
                     \/ object'[m].content <= r.row.content
    <3>1. CASE m \notin DOMAIN object
      BY <2>1, <2>2, <2>3, <2>4, <3>1 DEF Follows
    <3>2. CASE m \in DOMAIN object
      BY <1>1, <2>1, <2>2, <2>3, <3>2 DEF Follows
    <3>3. QED
      BY <3>1, <3>2
  <2>5. QED
    BY <1>1, <2>1, <2>4 DEF Clocked
<1>4. CASE DeliveryFails
  BY <1>1, <1>4 DEF DeliveryFails, Clocked
<1>5. CASE ReadPage
  <2>1. /\ UNCHANGED <<pg, object>>
        /\ \A r \in tick'.rows : r = RowOf(r.msg)
    BY <1>5, PageRead
  <2>2. \A r \in tick'.rows : r.row = pg[r.msg]
    BY <2>1 DEF RowOf
  <2>3. QED
    BY <1>1, <2>1, <2>2 DEF Clocked, Follows
<1>6. CASE CopyRow
  <2>1. PICK r \in tick.rows :
           /\ UNCHANGED pg /\ tick'.rows = tick.rows \ {r}
           /\ DOMAIN object' = DOMAIN object \cup {r.msg}
           /\ \A x \in DOMAIN object \ {r.msg} : object'[x] = object[x]
           /\ r.msg \notin DOMAIN object =>
                 /\ object'[r.msg].content = r.row.content
                 /\ object'[r.msg].clk.content = tick.now
                 /\ r.row.deleted = 0 => object'[r.msg].clk.delete = tick.now
           /\ r.msg \in DOMAIN object =>
                 \/ object'[r.msg] = object[r.msg]
                 \/ /\ object'[r.msg].content = r.row.content
                    /\ object'[r.msg].clk.content = r.row.updated
                    /\ object'[r.msg].clk.delete = r.row.updated
    BY <1>6, RowCopied
  <2> DEFINE m == r.msg
  <2>2. /\ m \in DOMAIN pg /\ r.row.content \in Nat /\ r.row.updated \in Nat
        /\ r.row.deleted = 0 => r.row.updated = r.row.content
        /\ tick.now \in Nat
    BY PageNumbers
  <2>3. pg[m].content \in Nat /\ (pg[m].deleted = 0 => pg[m].updated = pg[m].content)
    BY <2>2, RowNumbers
  <2>4. /\ r.row = pg[m] \/ pg[m].updated > tick.now
        /\ r.row.content <= pg[m].content
        /\ r.row.deleted # 0 => pg[m].deleted # 0
        /\ \A q \in tick.rows \ {r} : q.msg # m
    BY DEF RowsRead
  <2>5. Follows(object'[m], pg[m])
    <3>1. CASE m \notin DOMAIN object
      BY <2>1, <2>2, <2>3, <2>4, <3>1 DEF Follows
    <3>2. CASE m \in DOMAIN object
      BY <1>1, <2>1, <2>2, <2>3, <2>4, <3>2 DEF Follows
    <3>3. QED
      BY <3>1, <3>2
  <2>6. QED
    BY <1>1, <2>1, <2>4, <2>5 DEF Clocked
<1>7. CASE ~(Ingest \/ Change \/ Delete \/ Deliver \/ DeliveryFails \/ ReadPage \/ CopyRow)
  <2>1. /\ UNCHANGED pg /\ (object' = object \/ DOMAIN object' = {})
        /\ tick' = tick \/ tick'.rows = {}
    BY <1>7, OtherSteps
  <2>2. QED
    BY <1>1, <2>1 DEF Clocked
<1>8. QED
  BY <1>2, <1>3, <1>4, <1>5, <1>6, <1>7

-----------------------------------------------------------------------------
(* No content is left behind: a message that is alive has the content of   *)
(* Postgres in the object, and no change under way that takes it back; or  *)
(* it is still before the cursor; or the write that makes it so is under   *)
(* way, or was lost since the backfill looked there.  Of a message whose   *)
(* ingest the object was to get, any loss may tell, as a change of it is   *)
(* dropped until it is there.                                              *)

Settled(m, p, o, F) ==
    /\ m \in DOMAIN o /\ o[m].content = p[m].content
    /\ \A v \in F : v.kind = "change" /\ v.msg = m /\ v.at >= o[m].clk.content
                       => v.at = p[m].content

Excused(m, p, F, L) ==
    /\ m \notin Old
    /\ \/ \E w \in L : w.msg = m
       \/ \E w \in F : w.msg = m /\ w.at = p[m].content

Ahead(b, m, p, F, L) ==
    /\ b.phase = "messages" => Before(b.cursor, <<0, m>>) \/ p[m].updated >= b.watermark
    /\ b.phase = "catchup" =>
          \/ Excused(m, p, F, L)
          \/ p[m].updated >= b.watermark /\ Before(b.cursor, <<p[m].updated, m>>)
    /\ b.phase = "done" =>
          \/ Excused(m, p, F, L)
          \/ \E w \in F \cup L : w.msg = m /\ w.at = p[m].content /\ w.at > b.finishedAt

ReadAgain(m, p, R) == \E r \in R : r.msg = m /\ r.row.content = p[m].content

Matches(b, R, p, o, F, L) ==
    \A m \in DOMAIN p : p[m].deleted = 0 =>
        Settled(m, p, o, F) \/ Ahead(b, m, p, F, L) \/ ReadAgain(m, p, R)

Matched ==
    /\ Matches(backfill, {}, pg, object, flying, lost)
    /\ Copying => Matches(tick.next, tick.rows, pg, object, flying, lost)

(* A write to Postgres is on its way, and later than where the backfill is. *)
LEMMA MatchesWrites ==
    ASSUME Typing, Delay = 0, Ingest \/ Change \/ Delete,
           NEW b, Sound(b, clock), NEW R, Matches(b, R, pg, object, flying, lost)
    PROVE  Matches(b, R, pg', object', flying', lost')
<1>1. PICK k \in Message, kind \in {"ingest", "change", "delete"} :
         /\ UNCHANGED <<lost, object>>
         /\ flying' = flying \cup {[kind |-> kind, msg |-> k, at |-> clock + 1]}
         /\ DOMAIN pg' = DOMAIN pg \cup {k}
         /\ \A x \in DOMAIN pg \ {k} : pg'[x] = pg[x]
         /\ pg'[k].updated = clock + 1
         /\ kind # "delete" => pg'[k].content = clock + 1
         /\ kind = "delete" => pg'[k].deleted # 0
  BY WritesGo
<1> DEFINE n == [kind |-> kind, msg |-> k, at |-> clock + 1]
<1>2. /\ n.msg = k /\ n.at = clock + 1 /\ flying' = flying \cup {n} /\ clock \in Nat
  BY <1>1, ClockIsTime DEF Typing
<1> HIDE DEF n
<1>3. /\ b.cursor[1] \in Nat /\ b.cursor[1] <= clock /\ b.watermark \in Nat
      /\ b.watermark <= clock /\ b.finishedAt \in Nat /\ b.finishedAt <= clock
  BY <1>2, PlaceNumbers
<1>4. ASSUME NEW x \in DOMAIN pg', pg'[x].deleted = 0
      PROVE  Settled(x, pg', object', flying') \/ Ahead(b, x, pg', flying', lost')
             \/ ReadAgain(x, pg', R)
  <2>1. CASE x = k
    <3>1. pg'[x].content = clock + 1 /\ pg'[x].updated = clock + 1
      BY <1>1, <1>4, <2>1
    <3>2. Before(b.cursor, <<pg'[x].updated, x>>) /\ pg'[x].updated >= b.watermark
      BY <1>2, <1>3, <3>1 DEF Before
    <3>3. n \in flying' \cup lost' /\ n.msg = x /\ n.at = pg'[x].content /\ n.at > b.finishedAt
      BY <1>2, <1>3, <2>1, <3>1
    <3>4. QED
      BY <3>2, <3>3 DEF Ahead
  <2>2. CASE x # k
    <3>1. x \in DOMAIN pg /\ pg'[x] = pg[x]
      BY <1>1, <1>4, <2>2
    <3>2. Settled(x, pg, object, flying) => Settled(x, pg', object', flying')
      BY <1>1, <1>2, <2>2, <3>1 DEF Settled
    <3>3. Excused(x, pg, flying, lost) => Excused(x, pg', flying', lost')
      BY <1>1, <1>2, <3>1 DEF Excused
    <3>4. Ahead(b, x, pg, flying, lost) => Ahead(b, x, pg', flying', lost')
      BY <1>1, <1>2, <3>1, <3>3 DEF Ahead
    <3>5. ReadAgain(x, pg, R) => ReadAgain(x, pg', R)
      BY <3>1 DEF ReadAgain
    <3>6. QED
      BY <1>4, <3>1, <3>2, <3>4, <3>5 DEF Matches
  <2>3. QED
    BY <2>1, <2>2
<1>5. QED
  BY <1>4 DEF Matches

(* What is owed is ahead, once its ingest is not under way any more.       *)
LEMMA OwedIsAhead ==
    ASSUME Typing, Firsts, FirstOfAll, NEW b, Sound(b, clock), NEW k \in DOMAIN pg,
           Owed(b, k, pg, Under), ~ \E v \in flying : v.kind = "ingest" /\ v.msg = k, NEW F
    PROVE  Ahead(b, k, pg, F, lost)
<1>1. pg[k].content \in Nat /\ pg[k].updated \in Nat /\ pg[k].content <= pg[k].updated
      /\ b.watermark \in Nat /\ clock \in Nat
  BY RowNumbers, PlaceNumbers
<1>2. ASSUME NEW t, Fresh(Under, k, t)
      PROVE  Excused(k, pg, F, lost) /\ (t \in Nat => pg[k].updated >= t)
  <2>1. PICK w \in Under : w.kind = "ingest" /\ w.msg = k /\ w.at > t
    BY <1>2 DEF Fresh
  <2>2. w \in lost /\ k \notin Old /\ pg[k].content >= w.at /\ w.at \in Nat
    BY <2>1, WriteNumbers DEF Under, Firsts, FirstOfAll
  <2>3. QED
    BY <1>1, <2>1, <2>2 DEF Excused
<1>3. QED
  BY <1>1, <1>2 DEF Owed, Ahead

(* A row that is not the one in Postgres any more is ahead of the next     *)
(* cursor, but at the end.                                                 *)
LEMMA StaleRowIsAhead ==
    ASSUME Typing, Pages, Copying, NEW k \in DOMAIN pg,
           pg[k].updated > tick.now, pg[k].updated > tick.next.cursor[1],
           tick.next.phase # "done", NEW F, NEW L
    PROVE  Ahead(tick.next, k, pg, F, L)
<1>1. /\ tick.next.watermark <= tick.now
         \/ tick.next.phase \notin {"messages", "catchup"}
      /\ tick.now \in Nat /\ tick.next.watermark \in Nat /\ tick.next.cursor[1] \in Nat
      /\ pg[k].updated \in Nat
  <2>1. clock \in Nat /\ pg[k].updated \in Nat
    BY RowNumbers
  <2>2. /\ tick.now \in Nat /\ Sound(tick.next, clock) /\ Onward(tick.seen, tick.next, tick.now)
        /\ tick.phase # "off" /\ tick.seen = backfill /\ backfill.watermark <= tick.now
    BY MailboxBounds DEF Typing, Ticks, ATick, Time, Pages, Copying, Working
  <2>3. QED
    BY <2>1, <2>2, PlaceNumbers DEF Onward
<1>2. Before(tick.next.cursor, <<pg[k].updated, k>>)
  BY <1>1 DEF Before
<1>3. QED
  BY <1>1, <1>2 DEF Ahead

(* A write that is delivered settles its message if it is the last, unless *)
(* the message is not there.                                               *)
LEMMA DeliverySettles ==
    ASSUME Typing, Written, FirstOfAll, Clocked, Deliver
    PROVE  \E w \in flying :
              /\ flying' \in {flying, flying \ {w}} /\ UNCHANGED <<pg, lost, backfill, tick>>
              /\ w.msg \in DOMAIN pg /\ DOMAIN object \subseteq DOMAIN object'
              /\ InOrder /\ w.kind # "ingest" =>
                    ~ \E v \in flying : v.kind = "ingest" /\ v.msg = w.msg
              /\ \A x \in DOMAIN pg :
                    /\ Settled(x, pg, object, flying) => Settled(x, pg', object', flying')
                    /\ (x = w.msg /\ pg[x].deleted = 0 /\ w.at = pg[x].content)
                          => \/ Settled(x, pg', object', flying')
                             \/ x \notin DOMAIN object /\ w.kind = "change"
<1>1. PICK w \in flying :
         /\ flying' \in {flying, flying \ {w}}
         /\ UNCHANGED <<pg, lost, clock, backfill, tick>>
         /\ InOrder /\ w.kind # "ingest" =>
               ~ \E v \in flying : v.kind = "ingest" /\ v.msg = w.msg
         /\ \A x \in DOMAIN object : x # w.msg => object'[x] = object[x]
         /\ \/ /\ w.kind = "ingest" /\ w.msg \notin DOMAIN object
               /\ DOMAIN object' = DOMAIN object \cup {w.msg}
               /\ object'[w.msg].content = w.at
               /\ object'[w.msg].clk.content = w.at /\ object'[w.msg].clk.delete = w.at
            \/ /\ w.kind = "change" /\ w.msg \in DOMAIN object
               /\ DOMAIN object' = DOMAIN object
               /\ w.at >= object[w.msg].clk.content
               /\ object'[w.msg].content = w.at
               /\ object'[w.msg].clk.content = w.at
               /\ object'[w.msg].clk.delete = object[w.msg].clk.delete
            \/ /\ w.kind = "delete" /\ w.msg \in DOMAIN object
               /\ DOMAIN object' = DOMAIN object
               /\ object'[w.msg].content = object[w.msg].content
               /\ object'[w.msg].clk.content = object[w.msg].clk.content
            \/ /\ DOMAIN object' = DOMAIN object
               /\ w.kind = "ingest" => w.msg \in DOMAIN object
               /\ w.msg \in DOMAIN object =>
                     /\ object'[w.msg] = object[w.msg]
                     /\ w.kind = "change" => w.at < object[w.msg].clk.content
  BY WriteDelivered
<1>2. /\ w \in Under /\ w.at \in Nat /\ w.msg \in DOMAIN pg
      /\ w.kind \in {"ingest", "change", "delete"}
      /\ w.kind = "delete" => pg[w.msg].deleted # 0
      /\ w.kind # "delete" => w.at <= pg[w.msg].content
  BY <1>1, WriteNumbers DEF Under, Written
<1>3. \A v \in flying : /\ v \in Under /\ v.at \in Nat
                        /\ v.kind = "change" => v.at <= pg[v.msg].content
  BY WriteNumbers DEF Under, Written
<1>4. \A x \in DOMAIN object : /\ object[x].content \in Nat /\ object[x].clk.content \in Nat
                               /\ pg[x].content \in Nat /\ Follows(object[x], pg[x])
  BY CopyNumbers, RowNumbers DEF Clocked
<1>5. ASSUME NEW x \in DOMAIN pg, Settled(x, pg, object, flying)
      PROVE  Settled(x, pg', object', flying')
  <2>1. /\ x \in DOMAIN object /\ object[x].content = pg[x].content
        /\ \A v \in flying : v.kind = "change" /\ v.msg = x /\ v.at >= object[x].clk.content
                                => v.at = pg[x].content
    BY <1>5 DEF Settled
  <2>2. /\ x \in DOMAIN object' /\ flying' \subseteq flying
        /\ object'[x].content = pg[x].content
        /\ object'[x].clk.content \in Nat /\ object'[x].clk.content >= object[x].clk.content
    <3>1. CASE x # w.msg
      BY <1>1, <1>4, <2>1, <3>1
    <3>2. CASE x = w.msg
      BY <1>1, <1>2, <1>4, <2>1, <3>2
    <3>3. QED
      BY <3>1, <3>2
  <2>3. \A v \in flying : v.kind = "change" /\ v.msg = x /\ v.at >= object'[x].clk.content
                             => v.at = pg[x].content
    BY <1>3, <1>4, <2>1, <2>2
  <2>4. QED
    BY <1>1, <2>2, <2>3 DEF Settled
<1>6. ASSUME NEW x \in DOMAIN pg, x = w.msg, pg[x].deleted = 0, w.at = pg[x].content,
             ~(x \notin DOMAIN object /\ w.kind = "change")
      PROVE  Settled(x, pg', object', flying')
  <2>1. x \in DOMAIN object' /\ object'[x].content = pg[x].content
        /\ \A v \in flying : v.kind = "change" /\ v.msg = x /\ v.at >= object'[x].clk.content
                                => v.at = pg[x].content
    <3>1. CASE w.kind = "ingest" /\ x \notin DOMAIN object
      BY <1>1, <1>2, <1>3, <1>6, <3>1
    <3>2. CASE w.kind = "ingest" /\ x \in DOMAIN object
      <4>1. /\ object[x].content >= w.at
            /\ \A v \in Under : v.msg = x => v.at >= w.at
        BY <1>2, <1>6, <3>2 DEF FirstOfAll
      <4>2. object'[x] = object[x] /\ x \in DOMAIN object'
        BY <1>1, <1>6, <3>2
      <4>3. object[x].content = pg[x].content
        BY <1>2, <1>4, <1>6, <3>2, <4>1 DEF Follows
      <4>4. QED
        BY <1>2, <1>3, <1>6, <4>1, <4>2, <4>3
    <3>3. CASE w.kind = "change" /\ x \in DOMAIN object
      <4>1. CASE w.at >= object[x].clk.content
        BY <1>1, <1>2, <1>3, <1>4, <1>6, <3>3, <4>1
      <4>2. CASE ~(w.at >= object[x].clk.content)
        <5>1. object'[x] = object[x] /\ x \in DOMAIN object'
          BY <1>1, <1>6, <3>3, <4>2
        <5>2. object[x].content = pg[x].content
          BY <1>2, <1>4, <1>6, <3>3, <4>2 DEF Follows
        <5>3. QED
          BY <1>2, <1>3, <1>4, <1>6, <3>3, <4>2, <5>1, <5>2
      <4>3. QED
        BY <4>1, <4>2
    <3>4. QED
      BY <1>2, <1>6, <3>1, <3>2, <3>3
  <2>2. QED
    BY <1>1, <2>1 DEF Settled
<1>7. QED
  BY <1>1, <1>2, <1>5, <1>6

(* What stays ahead while other messages' writes are delivered, or while   *)
(* one of it that is not the last is.                                      *)
LEMMA AheadStays ==
    ASSUME NEW b, NEW x, NEW p, NEW F, NEW G, NEW L, Ahead(b, x, p, F, L), G \subseteq F,
           \A w \in F \ G : w.msg = x => w.at # p[x].content
    PROVE  Ahead(b, x, p, G, L)
<1>1. Excused(x, p, F, L) => Excused(x, p, G, L)
  BY DEF Excused
<1>2. \A t : (\E w \in F \cup L : w.msg = x /\ w.at = p[x].content /\ w.at > t)
             => \E w \in G \cup L : w.msg = x /\ w.at = p[x].content /\ w.at > t
  OBVIOUS
<1>3. QED
  BY <1>1, <1>2 DEF Ahead

(* A delivery settles its message, or that is owed, or is about to be read *)
(* again.                                                                  *)
LEMMA MatchedDeliver ==
    ASSUME InOrder, Typing, Pages, Firsts, Behind, RowsRead, Written, FirstOfAll, Clocked,
           Matched, Deliver
    PROVE  Matched'
<1>1. PICK w \in flying :
         /\ flying' \in {flying, flying \ {w}} /\ UNCHANGED <<pg, lost, backfill, tick>>
         /\ w.msg \in DOMAIN pg /\ DOMAIN object \subseteq DOMAIN object'
         /\ w.kind # "ingest" => ~ \E v \in flying : v.kind = "ingest" /\ v.msg = w.msg
         /\ \A x \in DOMAIN pg :
               /\ Settled(x, pg, object, flying) => Settled(x, pg', object', flying')
               /\ (x = w.msg /\ pg[x].deleted = 0 /\ w.at = pg[x].content)
                     => \/ Settled(x, pg', object', flying')
                        \/ x \notin DOMAIN object /\ w.kind = "change"
  BY DeliverySettles
<1>2. ASSUME NEW b, NEW x \in DOMAIN pg, Ahead(b, x, pg, flying, lost),
             ~(x = w.msg /\ w.at = pg[x].content)
      PROVE  Ahead(b, x, pg', flying', lost')
  <2>1. flying' \subseteq flying /\ \A v \in flying \ flying' : v.msg = x => v.at # pg[x].content
    BY <1>1, <1>2
  <2>2. Ahead(b, x, pg, flying', lost)
    BY <1>2, <2>1, AheadStays
  <2>3. QED
    BY <1>1, <2>2
<1>3. clock \in Nat /\ Sound(backfill, clock) /\ (Copying => Sound(tick.next, clock))
  BY ClockIsTime DEF Typing, Ticks
<1>4. Matches(backfill, {}, pg', object', flying', lost')
  <2>1. ASSUME NEW x \in DOMAIN pg, pg[x].deleted = 0, ~Settled(x, pg', object', flying')
        PROVE  Ahead(backfill, x, pg', flying', lost')
    <3>1. Ahead(backfill, x, pg, flying, lost)
      BY <1>1, <2>1 DEF Matched, Matches, ReadAgain
    <3>2. CASE ~(x = w.msg /\ w.at = pg[x].content)
      BY <1>2, <3>1, <3>2
    <3>3. CASE x = w.msg /\ w.at = pg[x].content
      <4>1. x \notin DOMAIN object /\ ~ \E v \in flying : v.kind = "ingest" /\ v.msg = x
        BY <1>1, <2>1, <3>3
      <4>2. Owed(backfill, x, pg, Under)
        BY <4>1 DEF Behind, Covers
      <4>3. Ahead(backfill, x, pg, flying', lost)
        BY <1>3, <4>1, <4>2, OwedIsAhead
      <4>4. QED
        BY <1>1, <4>3
    <3>4. QED
      BY <3>2, <3>3
  <2>2. QED
    BY <1>1, <2>1 DEF Matches
<1>5. ASSUME Copying
      PROVE  Matches(tick.next, tick.rows, pg', object', flying', lost')
  <2>1. ASSUME NEW x \in DOMAIN pg, pg[x].deleted = 0, ~Settled(x, pg', object', flying'),
               ~ReadAgain(x, pg', tick.rows)
        PROVE  Ahead(tick.next, x, pg', flying', lost')
    <3>1. Ahead(tick.next, x, pg, flying, lost)
      BY <1>1, <1>5, <2>1 DEF Matched, Matches
    <3>2. CASE ~(x = w.msg /\ w.at = pg[x].content)
      BY <1>2, <3>1, <3>2
    <3>3. CASE x = w.msg /\ w.at = pg[x].content
      <4>1. x \notin DOMAIN object /\ ~ \E v \in flying : v.kind = "ingest" /\ v.msg = x
        BY <1>1, <2>1, <3>3
      <4>2. CASE Owed(tick.next, x, pg, Under)
        <5>1. Ahead(tick.next, x, pg, flying', lost)
          BY <1>3, <1>5, <4>1, <4>2, OwedIsAhead
        <5>2. QED
          BY <1>1, <5>1
      <4>3. CASE ~Owed(tick.next, x, pg, Under)
        <5>1. PICK r \in tick.rows : r.msg = x
          BY <1>5, <4>1, <4>3 DEF Behind, Covers, RowMessages
        <5>2. pg[x].updated > tick.now /\ pg[x].updated > tick.next.cursor[1]
          BY <1>1, <2>1, <5>1 DEF RowsRead, ReadAgain
        <5>3. CASE tick.next.phase # "done"
          <6>1. Ahead(tick.next, x, pg, flying', lost)
            BY <1>5, <5>2, <5>3, StaleRowIsAhead
          <6>2. QED
            BY <1>1, <6>1
        <5>4. CASE tick.next.phase = "done"
          <6>1. backfill.phase = "catchup"
            BY <1>5, <5>4 DEF Pages, Onward, Working, Copying
          <6>2. Owed(backfill, x, pg, Under)
            BY <4>1 DEF Behind, Covers
          <6>3. Ahead(backfill, x, pg, flying', lost) /\ Fresh(Under, x, backfill.watermark)
            BY <1>3, <4>1, <6>1, <6>2, OwedIsAhead DEF Owed
          <6>4. PICK u \in Under : u.kind = "ingest" /\ u.msg = x
            BY <6>3 DEF Fresh
          <6>5. Excused(x, pg, flying', lost)
            BY <4>1, <6>4 DEF Under, FirstOfAll, Excused
          <6>6. QED
            BY <1>1, <5>4, <6>5 DEF Ahead
        <5>5. QED
          BY <5>3, <5>4
      <4>4. QED
        BY <4>2, <4>3
    <3>4. QED
      BY <3>2, <3>3
  <2>2. QED
    BY <1>1, <2>1 DEF Matches
<1>6. QED
  BY <1>1, <1>4, <1>5 DEF Matched, Copying

(* A write that is lost says so.                                           *)
LEMMA MatchesLost ==
    ASSUME DeliveryFails, NEW b, NEW R, Matches(b, R, pg, object, flying, lost)
    PROVE  Matches(b, R, pg', object', flying', lost')
<1>1. PICK w \in flying : /\ flying' = flying \ {w} /\ lost' = lost \cup {w}
                          /\ UNCHANGED <<pg, object>>
  BY DEF DeliveryFails
<1>2. ASSUME NEW x \in DOMAIN pg
      PROVE  /\ Settled(x, pg, object, flying) => Settled(x, pg, object, flying')
             /\ Ahead(b, x, pg, flying, lost) => Ahead(b, x, pg, flying', lost')
  <2>1. Settled(x, pg, object, flying) => Settled(x, pg, object, flying')
    BY <1>1 DEF Settled
  <2>2. Excused(x, pg, flying, lost) => Excused(x, pg, flying', lost')
    BY <1>1 DEF Excused
  <2>3. flying \cup lost = flying' \cup lost'
    BY <1>1
  <2>4. QED
    BY <2>1, <2>2, <2>3 DEF Ahead
<1>3. QED
  BY <1>1, <1>2 DEF Matches

(* A page has what was ahead of it, or leaves it ahead of the next.        *)
LEMMA PageMatches ==
    ASSUME Typing, NEW b, Sound(b, clock), Running(b), NEW now \in Time, now <= clock,
           NEW rows, rows = IF b.phase = "drafts" THEN {} ELSE PageRows(b),
           Matches(b, {}, pg, object, flying, lost)
    PROVE  Matches(AfterPage(b, rows, now), rows, pg, object, flying, lost)
<1> DEFINE n == AfterPage(b, rows, now)
<1>1. /\ Onward(b, n, now)
      /\ b.phase # "drafts" => \A m \in Due(b) : \/ \E r \in rows : r = RowOf(m)
                                                 \/ Rest(b, n) /\ Before(n.cursor, Key(b, m, pg[m]))
  BY PageLeadsOn
<1>2. b.phase \in {"drafts", "messages", "catchup"}
  BY DEF Sound, Running, Backfill
<1> HIDE DEF n
<1>3. ASSUME NEW m \in DOMAIN pg, pg[m].deleted = 0, ~Settled(m, pg, object, flying),
             ~ReadAgain(m, pg, rows)
      PROVE  Ahead(n, m, pg, flying, lost)
  <2>1. Ahead(b, m, pg, flying, lost)
    BY <1>3 DEF Matches, ReadAgain
  <2>2. m \in Nat /\ m > 0 /\ pg[m].updated \in Nat
    BY RowNumbers
  <2>3. \A t \in Nat : Before(Start, <<t, m>>)
    BY <2>2 DEF Before, Start
  <2>4. b.phase # "drafts" /\ m \in Due(b) => Rest(b, n) /\ Before(n.cursor, Key(b, m, pg[m]))
    <3>1. \A r \in rows : r # RowOf(m)
      BY <1>3 DEF ReadAgain, RowOf
    <3>2. QED
      BY <1>1, <3>1
  <2>5. CASE b.phase = "drafts"
    BY <1>1, <2>3, <2>5 DEF Onward, Ahead
  <2>6. CASE b.phase = "messages"
    <3>1. Key(b, m, pg[m]) = <<0, m>>
      BY <2>6 DEF Key
    <3>2. Before(b.cursor, <<0, m>>) => Rest(b, n) /\ Before(n.cursor, <<0, m>>)
      BY <2>4, <2>6, <3>1 DEF Due
    <3>3. QED
      BY <1>1, <2>1, <2>2, <2>3, <2>6, <3>2 DEF Onward, Ahead, Rest
  <2>7. CASE b.phase = "catchup"
    <3>1. Key(b, m, pg[m]) = <<pg[m].updated, m>>
      BY <2>7 DEF Key
    <3>2. \/ Excused(m, pg, flying, lost)
          \/ pg[m].updated >= b.watermark /\ Before(b.cursor, <<pg[m].updated, m>>)
      BY <2>1, <2>7 DEF Ahead
    <3>3. \/ Excused(m, pg, flying, lost)
          \/ /\ pg[m].updated >= b.watermark
             /\ Rest(b, n) /\ Before(n.cursor, <<pg[m].updated, m>>)
      BY <2>4, <2>7, <3>1, <3>2 DEF Due
    <3>4. QED
      BY <1>1, <2>7, <3>3 DEF Onward, Ahead, Rest
  <2>8. QED
    BY <1>2, <2>5, <2>6, <2>7
<1>4. QED
  BY <1>3 DEF Matches, n

(* A row takes back nothing that is settled, and settles its message if it *)
(* has the content of Postgres, unless that is new in the object and later *)
(* than the tick.                                                          *)
LEMMA RowSettles ==
    ASSUME Typing, RowsRead, Written, Clocked, CopyRow
    PROVE  \E r \in tick.rows :
              /\ UNCHANGED <<pg, flying, lost, backfill>> /\ Copying
              /\ tick'.rows = tick.rows \ {r} /\ tick'.next = tick.next
              /\ \A x \in DOMAIN pg : pg[x].deleted = 0 =>
                    /\ Settled(x, pg, object, flying) => Settled(x, pg', object', flying')
                    /\ (x = r.msg /\ r.row.content = pg[x].content)
                          => \/ Settled(x, pg', object', flying')
                             \/ x \notin DOMAIN object /\ pg[x].content > tick.now
<1>1. PICK r \in tick.rows :
         /\ UNCHANGED <<pg, flying, lost, backfill>> /\ Copying
         /\ tick'.rows = tick.rows \ {r} /\ tick'.next = tick.next
         /\ DOMAIN object' = DOMAIN object \cup {r.msg}
         /\ \A x \in DOMAIN object \ {r.msg} : object'[x] = object[x]
         /\ r.msg \notin DOMAIN object =>
               /\ object'[r.msg].content = r.row.content
               /\ object'[r.msg].clk.content = tick.now
         /\ r.msg \in DOMAIN object =>
               \/ /\ \/ r.row.updated < object[r.msg].clk.content
                     \/ r.row.updated < object[r.msg].clk.delete
                  /\ object'[r.msg] = object[r.msg]
               \/ /\ r.row.updated >= object[r.msg].clk.content
                  /\ object'[r.msg].content = r.row.content
                  /\ object'[r.msg].clk.content = r.row.updated
  BY RowCopied
<1> DEFINE k == r.msg
<1>2. /\ k \in DOMAIN pg /\ r.row.content \in Nat /\ r.row.updated \in Nat /\ tick.now \in Nat
      /\ r.row.deleted = 0 => r.row.updated = r.row.content
      /\ r.row.content <= pg[k].content
      /\ r.row.deleted # 0 => pg[k].deleted # 0
  BY PageNumbers DEF RowsRead
<1>3. \A v \in flying : /\ v.at \in Nat
                        /\ v.kind = "change" => v.at <= pg[v.msg].content
  BY WriteNumbers DEF Under, Written
<1>4. k \in DOMAIN object =>
         /\ object[k].content \in Nat
         /\ object[k].clk.content \in Nat /\ object[k].clk.delete \in Nat
         /\ Follows(object[k], pg[k])
         /\ object[k].clk.content >= object[k].content \/ object[k].content <= r.row.content
  BY CopyNumbers DEF Clocked
<1>5. pg[k].content \in Nat
  BY <1>2, RowNumbers
<1>6. ASSUME NEW x \in DOMAIN pg, pg[x].deleted = 0, Settled(x, pg, object, flying)
      PROVE  Settled(x, pg', object', flying')
  <2>1. CASE x # k
    BY <1>1, <1>6, <2>1 DEF Settled
  <2>2. CASE x = k
    <3>1. /\ k \in DOMAIN object /\ object[k].content = pg[k].content
          /\ \A v \in flying : v.kind = "change" /\ v.msg = k /\ v.at >= object[k].clk.content
                                  => v.at = pg[k].content
      BY <1>6, <2>2 DEF Settled
    <3>2. CASE object'[k] = object[k]
      BY <1>1, <2>2, <3>1, <3>2 DEF Settled
    <3>3. CASE object'[k] # object[k]
      <4>1. /\ r.row.updated >= object[k].clk.content
            /\ object'[k].content = r.row.content /\ object'[k].clk.content = r.row.updated
            /\ r.row.updated = r.row.content
        BY <1>1, <1>2, <1>6, <2>2, <3>1, <3>3
      <4>2. r.row.content = pg[k].content
        BY <1>2, <1>4, <1>5, <3>1, <4>1
      <4>3. QED
        BY <1>1, <1>3, <1>5, <2>2, <3>1, <4>1, <4>2 DEF Settled
    <3>4. QED
      BY <3>2, <3>3
  <2>3. QED
    BY <2>1, <2>2
<1>7. ASSUME pg[k].deleted = 0, r.row.content = pg[k].content,
             ~(k \notin DOMAIN object /\ pg[k].content > tick.now)
      PROVE  Settled(k, pg', object', flying')
  <2>1. r.row.updated = pg[k].content /\ k \in DOMAIN object'
    BY <1>1, <1>2, <1>7
  <2>2. CASE k \notin DOMAIN object
    <3>1. object'[k].content = pg[k].content /\ object'[k].clk.content = tick.now
          /\ tick.now >= pg[k].content
      BY <1>1, <1>2, <1>5, <1>7, <2>2
    <3>2. QED
      BY <1>1, <1>2, <1>3, <1>5, <2>1, <3>1 DEF Settled
  <2>3. CASE k \in DOMAIN object
    <3>1. CASE /\ r.row.updated >= object[k].clk.content
               /\ object'[k].content = r.row.content /\ object'[k].clk.content = r.row.updated
      BY <1>1, <1>3, <1>5, <1>7, <2>1, <3>1 DEF Settled
    <3>2. CASE ~ /\ r.row.updated >= object[k].clk.content
                 /\ object'[k].content = r.row.content /\ object'[k].clk.content = r.row.updated
      <4>1. /\ object'[k] = object[k]
            /\ pg[k].content < object[k].clk.content
            /\ object[k].content = pg[k].content
        BY <1>1, <1>4, <1>5, <1>7, <2>1, <2>3, <3>2 DEF Follows
      <4>2. QED
        BY <1>1, <1>3, <1>4, <1>5, <2>1, <2>3, <4>1 DEF Settled
    <3>3. QED
      BY <3>1, <3>2
  <2>4. QED
    BY <2>2, <2>3
<1>8. QED
  BY <1>1, <1>6, <1>7

(* So a row that is copied leaves nothing behind.                          *)
LEMMA MatchedCopyRow ==
    ASSUME Typing, Pages, Behind, RowsRead, Written, FirstOfAll, Waiting, Clocked, Matched, CopyRow
    PROVE  Matched'
<1>1. PICK r \in tick.rows :
         /\ UNCHANGED <<pg, flying, lost, backfill>> /\ Copying
         /\ tick'.rows = tick.rows \ {r} /\ tick'.next = tick.next
         /\ \A x \in DOMAIN pg : pg[x].deleted = 0 =>
               /\ Settled(x, pg, object, flying) => Settled(x, pg', object', flying')
               /\ (x = r.msg /\ r.row.content = pg[x].content)
                     => \/ Settled(x, pg', object', flying')
                        \/ x \notin DOMAIN object /\ pg[x].content > tick.now
  BY RowSettles
<1>2. Matches(backfill', {}, pg', object', flying', lost')
  BY <1>1 DEF Matched, Matches
<1>3. ASSUME NEW x \in DOMAIN pg, pg[x].deleted = 0, ~Settled(x, pg', object', flying'),
             ~ReadAgain(x, pg, tick.rows \ {r})
      PROVE  Ahead(tick.next, x, pg, flying, lost)
  <2>1. Ahead(tick.next, x, pg, flying, lost) \/ ReadAgain(x, pg, tick.rows)
    BY <1>1, <1>3 DEF Matched, Matches
  <2>2. CASE ReadAgain(x, pg, tick.rows)
    <3>1. x = r.msg /\ r.row.content = pg[x].content
      BY <1>3, <2>2 DEF ReadAgain
    <3>2. x \notin DOMAIN object /\ pg[x].content > tick.now
      BY <1>1, <1>3, <3>1
    <3>3. /\ pg[x].content \in Nat /\ pg[x].updated \in Nat /\ pg[x].content <= pg[x].updated
          /\ x \in Nat /\ x > 0 /\ clock \in Nat
      BY RowNumbers
    <3>4. /\ tick.now \in Nat /\ Onward(backfill, tick.next, tick.now)
          /\ Sound(tick.next, clock) /\ Sound(backfill, clock) /\ backfill.watermark <= tick.now
      BY <1>1, MailboxBounds DEF Typing, Ticks, ATick, Time, Pages, Copying, Working
    <3>5. /\ tick.next.watermark \in Nat /\ backfill.watermark \in Nat
          /\ tick.next.phase \in {"drafts", "messages", "catchup", "done"}
      BY <3>3, <3>4, PlaceNumbers
    <3>6. CASE backfill.phase = "catchup"
      <4>1. Owed(backfill, x, pg, Under)
        BY <3>2 DEF Behind, Covers
      <4>2. PICK u \in Under : u.kind = "ingest" /\ u.msg = x
        BY <3>6, <4>1 DEF Owed, Fresh
      <4>3. x \notin Old
        BY <4>2 DEF FirstOfAll
      <4>4. CASE u \in lost
        BY <4>2, <4>3, <4>4, <3>4, <3>6 DEF Excused, Ahead, Onward
      <4>5. CASE u \in flying
        <5>1. PICK v \in Under : v.msg = x /\ v.at = pg[x].content
          BY <4>2, <4>5 DEF Waiting
        <5>2. Excused(x, pg, flying, lost)
          BY <4>3, <5>1 DEF Excused, Under
        <5>3. QED
          BY <3>4, <3>6, <5>2 DEF Ahead, Onward
      <4>6. QED
        BY <4>2, <4>4, <4>5 DEF Under
    <3>7. CASE backfill.phase # "catchup"
      <4>1. Before(Start, <<pg[x].updated, x>>)
        BY <3>3 DEF Before, Start
      <4>2. QED
        BY <3>2, <3>3, <3>4, <3>5, <3>7, <4>1 DEF Ahead, Onward
    <3>8. QED
      BY <3>6, <3>7
  <2>3. QED
    BY <2>1, <2>2
<1>4. Matches(tick'.next, tick'.rows, pg', object', flying', lost')
  BY <1>1, <1>3 DEF Matches
<1>5. QED
  BY <1>2, <1>4 DEF Matched

(* No step leaves a content behind.                                        *)
LEMMA MatchedKept ==
    ASSUME ~RebuildDuringTick, Delay = 0, InOrder, Typing, Pages, Firsts, Behind,
           RowsRead, Written, FirstOfAll, Waiting, Clocked, Matched, [Next]_vars
    PROVE  Matched'
<1>1. /\ clock \in Nat /\ Sound(backfill, clock) /\ (Copying => Sound(tick.next, clock))
      /\ Matches(backfill, {}, pg, object, flying, lost)
      /\ Copying => Matches(tick.next, tick.rows, pg, object, flying, lost)
  BY ClockIsTime DEF Typing, Ticks, Matched
<1>2. CASE Ingest \/ Change \/ Delete
  <2>1. UNCHANGED <<backfill, tick>>
    BY <1>2, WritesGo
  <2>2. Matches(backfill, {}, pg', object', flying', lost')
    BY <1>1, <1>2, MatchesWrites
  <2>3. Copying => Matches(tick.next, tick.rows, pg', object', flying', lost')
    BY <1>1, <1>2, MatchesWrites
  <2>4. QED
    BY <2>1, <2>2, <2>3 DEF Matched, Copying
<1>3. CASE Deliver
  BY <1>3, MatchedDeliver
<1>4. CASE DeliveryFails
  <2>1. UNCHANGED <<backfill, tick>>
    BY <1>4 DEF DeliveryFails
  <2>2. Matches(backfill, {}, pg', object', flying', lost')
    BY <1>1, <1>4, MatchesLost
  <2>3. Copying => Matches(tick.next, tick.rows, pg', object', flying', lost')
    BY <1>1, <1>4, MatchesLost
  <2>4. QED
    BY <2>1, <2>2, <2>3 DEF Matched, Copying
<1>5. CASE ReadPage
  <2>1. /\ UNCHANGED <<pg, flying, lost, object, backfill>>
        /\ Sound(backfill, clock) /\ Running(backfill)
        /\ tick.now \in Time /\ tick.now <= clock
        /\ tick'.rows = IF backfill.phase = "drafts" THEN {} ELSE PageRows(backfill)
        /\ tick'.next = AfterPage(backfill, tick'.rows, tick.now)
    BY <1>5, PageRead
  <2>2. Matches(AfterPage(backfill, tick'.rows, tick.now), tick'.rows, pg, object, flying, lost)
    BY <1>1, <2>1, PageMatches
  <2>3. QED
    BY <1>1, <2>1, <2>2 DEF Matched
<1>6. CASE CopyRow
  BY <1>6, MatchedCopyRow
<1>7. CASE ~(Ingest \/ Change \/ Delete \/ Deliver \/ DeliveryFails \/ ReadPage \/ CopyRow)
  <2>1. /\ UNCHANGED <<pg, flying, lost>>
        /\ Copying' => UNCHANGED <<object, backfill, tick>>
        /\ \/ backfill'.phase = "drafts"
           \/ UNCHANGED object /\ SamePlaces(backfill', backfill)
           \/ UNCHANGED object /\ Copying /\ tick.rows = {} /\ SamePlaces(backfill', tick.next)
    BY <1>7, OtherSteps
  <2>2. ASSUME NEW b, NEW n, SamePlaces(n, b), UNCHANGED object,
               Matches(b, {}, pg, object, flying, lost)
        PROVE  Matches(n, {}, pg', object', flying', lost')
    BY <2>1, <2>2 DEF Matches, Ahead, SamePlaces
  <2>3. backfill'.phase = "drafts" => Matches(backfill', {}, pg', object', flying', lost')
    BY DEF Matches, Ahead
  <2>4. Matches(backfill', {}, pg', object', flying', lost')
    BY <1>1, <2>1, <2>2, <2>3
  <2>5. Copying' => Matches(tick'.next, tick'.rows, pg', object', flying', lost')
    BY <1>1, <2>1 DEF Copying
  <2>6. QED
    BY <2>4, <2>5 DEF Matched
<1>8. QED
  BY <1>2, <1>3, <1>4, <1>5, <1>6, <1>7

-----------------------------------------------------------------------------
(* A backfill that is done has left no content behind, where in addition   *)
(* no write reaches the object before its message's ingest.                *)
THEOREM NothingLeftBehind ==
    ~RebuildDuringTick /\ Delay = 0 /\ InOrder => (Spec => []SameWhenDone)
<1> SUFFICES ASSUME ~RebuildDuringTick, Delay = 0, InOrder PROVE Spec => []SameWhenDone
  OBVIOUS
<1> DEFINE Inv == /\ Typing /\ Pages /\ Firsts /\ Behind
                  /\ RowsRead /\ Written /\ FirstOfAll /\ Waiting /\ Clocked /\ Matched
<1>1. Init => Inv
  <2> SUFFICES ASSUME Init PROVE Inv
    OBVIOUS
  <2>1. Typing
    BY TypesAtFirst
  <2>2. /\ backfill.phase = "drafts" /\ tick.phase = "off" /\ tick.rows = {}
        /\ flying = {} /\ lost = {} /\ DOMAIN object = {}
    BY DEF Init, Idle, NoTick
  <2>3. Pages /\ Firsts /\ Behind
    BY <2>2 DEF Pages, Firsts, Behind, Covers, Owed, Under, Working, Copying
  <2>4. RowsRead /\ Written /\ FirstOfAll /\ Waiting /\ Clocked
    BY <2>2 DEF RowsRead, Written, FirstOfAll, Waiting, Clocked, Under
  <2>5. Matched
    BY <2>2 DEF Matched, Matches, Ahead, Copying
  <2>6. QED
    BY <2>1, <2>3, <2>4, <2>5
<1>2. Inv /\ [Next]_vars => Inv'
  BY TypesKept, PagesKept, FirstsKept, BehindKept, RowsReadKept, WrittenKept, FirstOfAllKept,
     WaitingKept, ClockedKept, MatchedKept
<1>3. Inv => SameWhenDone
  <2> SUFFICES ASSUME Inv, Done, NEW m \in DOMAIN pg \cap DOMAIN object, pg[m].deleted = 0,
                      object[m].content # pg[m].content, ~ \E w \in flying : w.msg = m
               PROVE  \E w \in lost : w.msg = m /\ (m \notin Old \/ w.at > backfill.finishedAt)
    BY DEF SameWhenDone
  <2>1. backfill.phase = "done"
    BY DEF Done, Typing, Sound
  <2>2. Ahead(backfill, m, pg, flying, lost)
    BY DEF Matched, Matches, Settled, ReadAgain
  <2>3. QED
    BY <2>1, <2>2 DEF Ahead, Excused
<1>4. QED
  BY <1>1, <1>2, <1>3, PTL DEF Spec

-----------------------------------------------------------------------------
(* The alarm.  The invariant is inductive but for the handler having a     *)
(* phase at all: a step either computes the alarm anew, or leaves what it  *)
(* is computed from alone, or takes the alarm and starts its handler.      *)

TickHasPhase == "phase" \in DOMAIN tick

(* What waits at the object is not touched by the two stores' writes.      *)
LEMMA WritesKeepTheAlarm ==
    ASSUME Ingest \/ Change \/ Delete \/ DeliveryFails
    PROVE  UNCHANGED <<backfill, slot, alarm, tick>>
  BY DEF Ingest, Change, Delete, DeliveryFails, Dual

(* A recomputed alarm is set when something waits.                         *)
LEMMA RecomputedAlarm ==
    ASSUME RecomputeAlarm
    PROVE  NothingPendsWithoutAlarm'
  BY DEF RecomputeAlarm, NothingPendsWithoutAlarm

(* While a continuation waits at the object an alarm is set or its handler *)
(* runs, whichever calls, writes, failures and stops come: recomputeAlarm  *)
(* is where it has to be.                                                  *)
THEOREM PendingHasAnAlarm == Spec => []NothingPendsWithoutAlarm
<1> DEFINE IInv == NothingPendsWithoutAlarm /\ TickHasPhase
<1>1. Init => IInv
  BY DEF Init, NothingPendsWithoutAlarm, Pending, TickHasPhase, NoTick
<1>2. IInv /\ [Next]_vars => IInv'
  <2> SUFFICES ASSUME IInv, [Next]_vars
               PROVE  IInv'
    OBVIOUS
  <2>1. CASE Ingest \/ Change \/ Delete \/ DeliveryFails
    BY <2>1, WritesKeepTheAlarm DEF NothingPendsWithoutAlarm, Pending, TickHasPhase
  <2>2. CASE Deliver
    BY <2>2, RecomputedAlarm DEF Deliver, TickHasPhase
  <2>3. CASE StartBackfill \/ RebuildMailbox
    BY <2>3, RecomputedAlarm DEF StartBackfill, RebuildMailbox, Begin, TickHasPhase
  <2>4. CASE FolderRead
    BY <2>4, RecomputedAlarm DEF FolderRead, TickHasPhase
  <2>5. CASE AlarmFires
    BY <2>5 DEF AlarmFires, NoTick, NothingPendsWithoutAlarm, TickHasPhase
  <2>6. CASE ContinueFolder
    BY <2>6, RecomputedAlarm DEF ContinueFolder, NoTick, TickHasPhase
  <2>7. CASE StartTick
    <3>1. CASE Running(backfill)
      <4>1. tick'.phase = "reading" /\ TickHasPhase'
        BY <2>7, <3>1 DEF StartTick, TickHasPhase
      <4>2. QED
        BY <4>1 DEF NothingPendsWithoutAlarm
    <3>2. CASE ~Running(backfill)
      BY <2>7, <3>2, RecomputedAlarm DEF StartTick, NoTick, TickHasPhase
    <3>3. QED
      BY <3>1, <3>2
  <2>8. CASE ReadPage
    <3>1. tick'.phase = "copying" /\ TickHasPhase'
      BY <2>8 DEF ReadPage, TickHasPhase
    <3>2. QED
      BY <3>1 DEF NothingPendsWithoutAlarm
  <2>9. CASE CopyRow
    <3>1. tick'.phase = "copying" /\ TickHasPhase'
      BY <2>9 DEF CopyRow, TickHasPhase
    <3>2. QED
      BY <3>1 DEF NothingPendsWithoutAlarm
  <2>10. CASE EndTick \/ TickFails
    BY <2>10, RecomputedAlarm DEF EndTick, TickFails, Finish, NoTick, TickHasPhase
  <2>11. CASE Stop
    BY <2>11 DEF Stop, NoTick, NothingPendsWithoutAlarm, TickHasPhase
  <2>12. CASE UNCHANGED vars
    BY <2>12 DEF vars, NothingPendsWithoutAlarm, Pending, TickHasPhase
  <2>13. QED
    BY <2>1, <2>2, <2>3, <2>4, <2>5, <2>6, <2>7, <2>8, <2>9, <2>10, <2>11, <2>12 DEF Next, Alarm
<1>3. QED
  BY <1>1, <1>2, PTL DEF Spec

=============================================================================
