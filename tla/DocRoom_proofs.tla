---------------------------- MODULE DocRoom_proofs ----------------------------
(***************************************************************************)
(* That the document room keeps the document, for any number of edits,     *)
(* stops, checkpoints and failures, and any log length that is kept.       *)
(*                                                                         *)
(* The inductive invariant is about a ghost, the document `whole` as it    *)
(* will be loaded once every write on its way is durable.  Storage after   *)
(* the first i of these writes (Holds) continues the checkpoint in R2 with *)
(* the edits of `whole` up to revision top[i]: an op takes it one revision *)
(* further, a floor, a trim or an alarm takes nothing away that the        *)
(* checkpoint still needs.  `whole` is the current room (Shown), or what   *)
(* is in R2 while a restore has landed there and not switched rooms.       *)
(*                                                                         *)
(* Rules say what that rests on: a checkpoint on its way is of the current *)
(* room and later than the one in R2 (Checks), and once a restore has      *)
(* taken its version, neither edits nor checkpoints move the room on       *)
(* (InPlace).                                                              *)
(*                                                                         *)
(* The theorems are about behaviours that are Orderly, in which restores   *)
(* run one at a time and no checkpoint outlives its room, and in which a   *)
(* put that fails has not landed: without any one of the three, TLC has a  *)
(* behaviour that loses an edit.  With two restore requests and no room    *)
(* dropped, all behaviours are Orderly (RestoresTakeTurns).                *)
(***************************************************************************)
EXTENDS DocRoom, SequenceTheorems, InductionFacts

-----------------------------------------------------------------------------
(* What storage shows, write by write.                                     *)

LEMMA MaxIs ==
    ASSUME NEW n \in Nat, NEW S \in SUBSET (0 .. n), S # {}
    PROVE  Max(S) \in S /\ \A x \in S : x <= Max(S)
<1> DEFINE T == {k \in Nat : n - k \in S}
<1>1. T \subseteq Nat /\ T # {}
    <2>1. PICK x \in S : TRUE
        OBVIOUS
    <2>2. n - x \in Nat /\ n - (n - x) = x
        BY <2>1
    <2>3. QED
        BY <2>1, <2>2
<1> HIDE DEF T
<1>2. PICK k \in T : \A j \in T : k <= j
    BY <1>1, LeastNatural
<1>3. n - k \in S /\ k \in Nat
    BY <1>2 DEF T
<1>4. ASSUME NEW x \in S PROVE n - k >= x
    <2>1. x \in 0 .. n /\ n - x \in Nat /\ n - (n - x) = x
        OBVIOUS
    <2>2. n - x \in T
        BY <2>1 DEF T
    <2>3. k <= n - x
        BY <1>2, <2>2
    <2>4. QED
        BY <1>3, <2>1, <2>3
<1>5. \E m \in S : \A x \in S : m >= x
    BY <1>3, <1>4
<1>6. Max(S) \in S /\ \A x \in S : Max(S) >= x
    BY <1>5 DEF Max
<1>7. QED
    BY <1>6

(* `fold` gives, for every subset of the writes, what they make of st.     *)
Folds(st, ws, fold) ==
    fold = [S \in SUBSET (DOMAIN ws) |->
                IF S = {} THEN st ELSE Written(fold[S \ {Max(S)}], ws[Max(S)])]

LEMMA FoldsExist ==
    ASSUME NEW st, NEW ws, NEW n \in Nat, DOMAIN ws = 1 .. n
    PROVE  \E fold : Folds(st, ws, fold)
<1> DEFINE U == 1 .. n
           Small(k) == {S \in SUBSET U : Cardinality(S) <= k}
           Good(k, g) == \A S \in Small(k) :
               g[S] = IF S = {} THEN st ELSE Written(g[S \ {Max(S)}], ws[Max(S)])
           T == {k \in Nat : \E g : Good(k, g)}
<1>1. IsFiniteSet(U)
    BY FS_Interval
<1>2. \A S \in SUBSET U : IsFiniteSet(S) /\ Cardinality(S) \in Nat
    BY <1>1, FS_Subset, FS_CardinalityType
<1>3. \A S \in SUBSET U : Cardinality(S) = 0 <=> S = {}
    BY <1>2, FS_EmptySet
<1>4. ASSUME NEW S \in SUBSET U, S # {}
      PROVE  /\ S \ {Max(S)} \in SUBSET U
             /\ Cardinality(S \ {Max(S)}) = Cardinality(S) - 1
    <2>1. Max(S) \in S
        <3>1. S \in SUBSET (0 .. n)
            OBVIOUS
        <3>2. QED
            BY <1>4, <3>1, MaxIs
    <2>2. QED
        BY <1>2, <2>1, FS_RemoveElement
<1>5. 0 \in T
    <2> DEFINE g == [S \in Small(0) |-> st]
    <2>1. \A S \in Small(0) : S = {}
        BY <1>2, <1>3
    <2>2. Good(0, g)
        BY <2>1
    <2>3. QED
        BY <2>2
<1>6. ASSUME NEW k \in T PROVE k + 1 \in T
    <2>1. PICK g : Good(k, g)
        BY <1>6
    <2> DEFINE h == [S \in Small(k + 1) |->
                        IF S = {} THEN st ELSE Written(g[S \ {Max(S)}], ws[Max(S)])]
    <2>2. k \in Nat
        BY <1>6
    <2>3. ASSUME NEW S \in Small(k + 1), S # {}
          PROVE  S \ {Max(S)} \in Small(k)
        <3>1. S \in SUBSET U /\ Cardinality(S) \in Nat /\ Cardinality(S) <= k + 1
            BY <1>2
        <3>2. /\ S \ {Max(S)} \in SUBSET U
              /\ Cardinality(S \ {Max(S)}) = Cardinality(S) - 1
            BY <1>4, <2>3, <3>1
        <3>3. Cardinality(S) - 1 <= k
            BY <2>2, <3>1
        <3>4. QED
            BY <3>2, <3>3
    <2>4. \A S \in Small(k) : S \in Small(k + 1)
        BY <1>2, <2>2
    <2>5. \A S \in Small(k) : h[S] = g[S]
        BY <2>1, <2>4
    <2>6. Good(k + 1, h)
        <3>1. ASSUME NEW S \in Small(k + 1), S # {}
              PROVE  h[S] = Written(h[S \ {Max(S)}], ws[Max(S)])
            <4>1. h[S] = Written(g[S \ {Max(S)}], ws[Max(S)])
                BY <3>1
            <4>2. h[S \ {Max(S)}] = g[S \ {Max(S)}]
                BY <2>3, <2>5, <3>1
            <4> HIDE DEF h
            <4>3. QED
                BY <4>1, <4>2
        <3>2. \A S \in Small(k + 1) : S = {} => h[S] = st
            OBVIOUS
        <3> HIDE DEF h
        <3>3. QED
            BY <3>1, <3>2
    <2> HIDE DEF h, Good
    <2>7. QED
        BY <2>2, <2>6
<1>7. T = Nat
    <2>1. T \subseteq Nat
        OBVIOUS
    <2> HIDE DEF T
    <2>2. QED
        BY <1>5, <1>6, <2>1, SetInduction
<1>8. Cardinality(U) \in T
    BY <1>2, <1>7
<1>9. PICK g : Good(Cardinality(U), g)
    BY <1>8
<1>10. Small(Cardinality(U)) = SUBSET U
    BY <1>1, <1>2, FS_Subset
<1> DEFINE fold == [S \in SUBSET U |-> g[S]]
<1>11. ASSUME NEW S \in SUBSET U
       PROVE  fold[S] = IF S = {} THEN st ELSE Written(fold[S \ {Max(S)}], ws[Max(S)])
    <2>1. fold[S] = IF S = {} THEN st ELSE Written(g[S \ {Max(S)}], ws[Max(S)])
        BY <1>9, <1>10
    <2>2. S # {} => fold[S \ {Max(S)}] = g[S \ {Max(S)}]
        OBVIOUS
    <2> HIDE DEF fold
    <2>3. QED
        BY <2>1, <2>2
<1>12. fold = [S \in SUBSET U |->
                 IF S = {} THEN st ELSE Written(fold[S \ {Max(S)}], ws[Max(S)])]
    <2>1. fold = [S \in SUBSET U |-> fold[S]]
        OBVIOUS
    <2> HIDE DEF fold, U
    <2>2. QED
        BY <1>11, <2>1
<1> HIDE DEF fold
<1>13. Folds(st, ws, fold)
    BY <1>12 DEF Folds
<1>14. QED
    BY <1>13

LEMMA FoldUnfolds ==
    ASSUME NEW st, NEW ws, NEW g, Folds(st, ws, g)
    PROVE  \E fold : Folds(st, ws, fold) /\ FoldLeft(Written, st, ws) = fold[DOMAIN ws]
<1> DEFINE it == CHOOSE fold : Folds(st, ws, fold)
<1>1. Folds(st, ws, it)
    OBVIOUS
<1>2. FoldLeft(Written, st, ws) = it[DOMAIN ws]
    BY DEF FoldLeft, MapThenFoldSet, Folds
<1>3. QED
    BY <1>1, <1>2

(* What storage shows after each of the writes.                            *)
Unfolds(st, ws, shown) ==
    /\ shown[0] = st
    /\ \A i \in 1 .. Len(ws) : shown[i] = Written(shown[i - 1], ws[i])

LEMMA FoldIs ==
    ASSUME NEW st, NEW W, NEW ws \in Seq(W)
    PROVE  \E shown : Unfolds(st, ws, shown) /\ FoldLeft(Written, st, ws) = shown[Len(ws)]
<1> DEFINE n == Len(ws)
<1>1. n \in Nat /\ DOMAIN ws = 1 .. n
    OBVIOUS
<1> HIDE DEF n
<1>2. PICK fold : Folds(st, ws, fold) /\ FoldLeft(Written, st, ws) = fold[DOMAIN ws]
    BY <1>1, FoldsExist, FoldUnfolds
<1>3. ASSUME NEW S \in SUBSET (1 .. n)
      PROVE  fold[S] = IF S = {} THEN st ELSE Written(fold[S \ {Max(S)}], ws[Max(S)])
    BY <1>1, <1>2 DEF Folds
<1> DEFINE shown == [i \in 0 .. n |-> fold[1 .. i]]
<1>4. shown[0] = st
    <2>1. 1 .. 0 = {} /\ 0 \in 0 .. n
        BY <1>1
    <2>2. QED
        BY <1>3, <2>1
<1>5. ASSUME NEW i \in 1 .. n PROVE shown[i] = Written(shown[i - 1], ws[i])
    <2>1. /\ 1 .. i \in SUBSET (1 .. n) /\ 1 .. i # {} /\ (1 .. i) \ {i} = 1 .. (i - 1)
          /\ i \in 0 .. n /\ i - 1 \in 0 .. n
        <3>1. i \in Nat /\ 1 <= i /\ i <= n
            BY <1>1
        <3>2. i \in 1 .. i /\ i \in 0 .. n /\ i - 1 \in 0 .. n
            BY <1>1, <3>1
        <3>3. 1 .. i \in SUBSET (1 .. n)
            BY <1>1, <3>1
        <3>4. (1 .. i) \ {i} = 1 .. (i - 1)
            BY <3>1
        <3>5. QED
            BY <3>2, <3>3, <3>4
    <2>2. Max(1 .. i) = i
        <3>1. Max(1 .. i) \in 1 .. i /\ \A x \in 1 .. i : x <= Max(1 .. i)
            <4>1. 1 .. i \in SUBSET (0 .. i) /\ i \in Nat
                OBVIOUS
            <4>2. QED
                BY <2>1, <4>1, MaxIs
        <3>2. QED
            BY <3>1
    <2>3. fold[1 .. i] = Written(fold[1 .. (i - 1)], ws[i])
        BY <1>3, <2>1, <2>2
    <2>4. QED
        BY <2>1, <2>3
<1>6. shown[n] = fold[1 .. n]
    BY <1>1
<1> HIDE DEF shown
<1>7. Unfolds(st, ws, shown) /\ FoldLeft(Written, st, ws) = shown[Len(ws)]
    BY <1>1, <1>2, <1>4, <1>5, <1>6 DEF Unfolds, n
<1>8. QED
    BY <1>7

-----------------------------------------------------------------------------
(* Type correctness.                                                       *)

StoreOK(st) == st \in Storage /\ IsFiniteSet(st.log)

LEMMA WriteIs ==
    ASSUME NEW w \in Write
    PROVE  \/ w.type = "op" /\ w.entry \in LoggedOp
           \/ w.type = "floor" /\ w.floor \in Nat
           \/ w.type = "trim" /\ w.upTo \in Int
           \/ w.type = "alarm"
BY DEF Write

LEMMA WrittenIs ==
    ASSUME NEW st \in Storage, NEW w \in Write
    PROVE  /\ w.type = "op" => Written(st, w)
                = [st EXCEPT !.log = {e \in st.log : e.revision # w.entry.revision}
                                        \cup {w.entry}]
           /\ w.type = "floor" => Written(st, w) = [st EXCEPT !.floor = w.floor]
           /\ w.type = "trim" => Written(st, w)
                = [st EXCEPT !.log = {e \in st.log : e.revision > w.upTo}]
           /\ w.type = "alarm" => Written(st, w) = [st EXCEPT !.alarm = TRUE]
BY WriteIs DEF Written, Storage

LEMMA WrittenTypes ==
    ASSUME NEW st, StoreOK(st), NEW w \in Write
    PROVE  StoreOK(Written(st, w))
<1>1. st \in Storage /\ st.log \in SUBSET LoggedOp /\ IsFiniteSet(st.log)
    BY DEF StoreOK, Storage
<1>2. CASE w.type = "op"
    <2> DEFINE rest == {e \in st.log : e.revision # w.entry.revision}
               log == rest \cup {w.entry}
    <2>1. Written(st, w) = [st EXCEPT !.log = log]
        BY <1>1, <1>2, WrittenIs
    <2>2. rest \in SUBSET st.log /\ w.entry \in LoggedOp
        BY <1>2, WriteIs
    <2>3. IsFiniteSet(rest)
        BY <1>1, <2>2, FS_Subset
    <2>4. IsFiniteSet(log) /\ log \in SUBSET LoggedOp
        BY <1>1, <2>2, <2>3, FS_AddElement
    <2> HIDE DEF log
    <2>5. QED
        BY <1>1, <2>1, <2>4 DEF StoreOK, Storage
<1>3. CASE w.type = "trim"
    <2> DEFINE log == {e \in st.log : e.revision > w.upTo}
    <2>1. Written(st, w) = [st EXCEPT !.log = log]
        BY <1>1, <1>3, WrittenIs
    <2>2. log \in SUBSET st.log
        OBVIOUS
    <2>3. IsFiniteSet(log) /\ log \in SUBSET LoggedOp
        BY <1>1, <2>2, FS_Subset
    <2> HIDE DEF log
    <2>4. QED
        BY <1>1, <2>1, <2>3 DEF StoreOK, Storage
<1>4. CASE w.type = "floor"
    <2>1. Written(st, w) = [st EXCEPT !.floor = w.floor] /\ w.floor \in Nat
        BY <1>1, <1>4, WrittenIs, WriteIs
    <2>2. QED
        BY <1>1, <2>1 DEF StoreOK, Storage
<1>5. CASE w.type = "alarm"
    <2>1. Written(st, w) = [st EXCEPT !.alarm = TRUE]
        BY <1>1, <1>5, WrittenIs
    <2>2. QED
        BY <1>1, <2>1 DEF StoreOK, Storage
<1>6. QED
    BY <1>2, <1>3, <1>4, <1>5, WriteIs

LEMMA ViewIs ==
    ASSUME unflushed \in Seq(Write)
    PROVE  \E shown : Unfolds(storage, unflushed, shown) /\ View = shown[Len(unflushed)]
BY FoldIs DEF View

LEMMA ViewTypes ==
    ASSUME unflushed \in Seq(Write), StoreOK(storage)
    PROVE  StoreOK(View)
<1>1. PICK shown : Unfolds(storage, unflushed, shown) /\ View = shown[Len(unflushed)]
    BY ViewIs
<1> DEFINE n == Len(unflushed)
           T == {i \in Nat : i <= n => StoreOK(shown[i])}
<1>2. n \in Nat
    OBVIOUS
<1>3. 0 \in T
    BY <1>1 DEF Unfolds
<1>4. ASSUME NEW i \in T PROVE i + 1 \in T
    <2>1. SUFFICES ASSUME i + 1 <= n PROVE StoreOK(shown[i + 1])
        OBVIOUS
    <2>2. i + 1 \in 1 .. n /\ (i + 1) - 1 = i /\ StoreOK(shown[i])
        BY <1>2, <1>4, <2>1
    <2>3. shown[i + 1] = Written(shown[i], unflushed[i + 1])
        BY <1>1, <2>2 DEF Unfolds
    <2>4. unflushed[i + 1] \in Write
        BY <2>2
    <2>5. QED
        BY <2>2, <2>3, <2>4, WrittenTypes
<1>5. T = Nat
    <2>1. T \subseteq Nat
        OBVIOUS
    <2> HIDE DEF T
    <2>2. QED
        BY <1>3, <1>4, <2>1, SetInduction
<1>6. QED
    BY <1>1, <1>2, <1>5

(* What a load makes of a checkpoint and a log.                            *)
Ahead(from, st) ==
    {k \in 0 .. Cardinality(st.log) :
        \A i \in 1 .. k : \E e \in Replayed(from, st) : e.revision = from.revision + i}
OpAt(st, rev) == CHOOSE op \in Edit : [revision |-> rev, op |-> op] \in st.log

LEMMA LoadedIs ==
    ASSUME NEW from, NEW st
    PROVE  Loaded(from, st)
              = [revision |-> from.revision + Max(Ahead(from, st)),
                 doc |-> from.doc \o [i \in 1 .. Max(Ahead(from, st)) |->
                                        OpAt(st, from.revision + i)]]
BY DEF Loaded, Ahead, OpAt

LEMMA LoadedTypes ==
    ASSUME NEW from \in Snapshot, NEW st, StoreOK(st)
    PROVE  Loaded(from, st) \in Snapshot
<1> DEFINE n == Max(Ahead(from, st))
           ops == [i \in 1 .. n |-> OpAt(st, from.revision + i)]
<1>1. st.log \in SUBSET LoggedOp /\ Cardinality(st.log) \in Nat
    BY FS_CardinalityType DEF StoreOK, Storage
<1>2. n \in Ahead(from, st) /\ n \in Nat
    <2>1. 0 \in Ahead(from, st) /\ Ahead(from, st) \in SUBSET (0 .. Cardinality(st.log))
        BY <1>1 DEF Ahead
    <2>2. Max(Ahead(from, st)) \in Ahead(from, st)
        BY <1>1, <2>1, MaxIs
    <2>3. QED
        BY <1>1, <2>1, <2>2
<1> HIDE DEF n
<1>3. ASSUME NEW i \in 1 .. n PROVE OpAt(st, from.revision + i) \in Edit
    <2>1. PICK e \in Replayed(from, st) : e.revision = from.revision + i
        BY <1>2 DEF Ahead
    <2>2. e \in LoggedOp /\ e \in st.log
        BY <1>1, <2>1 DEF Replayed
    <2>3. e = [revision |-> from.revision + i, op |-> e.op] /\ e.op \in Edit
        BY <2>1, <2>2 DEF LoggedOp
    <2>4. \E op \in Edit : [revision |-> from.revision + i, op |-> op] \in st.log
        BY <2>2, <2>3
    <2>5. QED
        BY <2>4 DEF OpAt
<1>4. ops \in Seq(Edit \cup Restore)
    <2>1. ops \in [1 .. n -> Edit \cup Restore]
        BY <1>3
    <2> HIDE DEF ops
    <2>2. QED
        BY <1>2, <2>1, SeqDef
<1>5. from.revision \in Nat /\ from.doc \in Seq(Edit \cup Restore)
    BY DEF Snapshot, Doc
<1> HIDE DEF ops
<1>6. from.doc \o ops \in Seq(Edit \cup Restore)
    BY <1>4, <1>5, ConcatProperties
<1>7. Loaded(from, st) = [revision |-> from.revision + n, doc |-> from.doc \o ops]
    BY LoadedIs DEF n, ops
<1>8. QED
    BY <1>2, <1>5, <1>6, <1>7 DEF Snapshot, Doc

LEMMA Constants ==
    /\ NoRestore \notin Restore /\ KeepLog \in Nat /\ CheckpointEvery \in Nat
    /\ MaxEdits \in Nat /\ MaxStops \in Nat /\ MaxReloads \in Nat /\ MaxFailures \in Nat
BY DocRoomAssumption

RoomTypes == rooms \in Seq(Snapshot) /\ current \in 0 .. Len(rooms)
LoadTypes == loading \in Seq(Snapshot) /\ Len(loading) <= 1
CheckTypes == checkpointed \in Nat /\ checkpoint \in Checkpoint
AlarmTypes ==
    alarmPending \in BOOLEAN /\ alarmRunning \in {"no", "settling", "checkpointing"}

(* A restore that waits for a checkpoint has a room to look at.            *)
RoomThere(r) ==
    restore[r].phase \in {"saving", "awaiting"} => restore[r].room \in 1 .. Len(rooms)
RestoreTypes ==
    /\ restore \in [Restore -> Restoration]
    /\ \A r \in Restore : RoomThere(r)
RestoringTypes == restoring \in Restore \cup {NoRestore}

StoreTypes == unflushed \in Seq(Write) /\ StoreOK(storage)
KeptTypes == snapshot \in Snapshot /\ versions \subseteq Doc /\ acked \subseteq Edit
UsedTypes == used \in [DOMAIN Bound -> Nat]

Types ==
    /\ RoomTypes /\ LoadTypes /\ CheckTypes /\ AlarmTypes /\ RestoreTypes
    /\ RestoringTypes /\ StoreTypes /\ KeptTypes /\ UsedTypes

LEMMA TypesSuffice == Types => TypeOK
BY DEF Types, TypeOK, RoomTypes, LoadTypes, CheckTypes, AlarmTypes, RestoreTypes,
       RestoringTypes, StoreTypes, StoreOK, KeptTypes, UsedTypes

LEMMA NewDocumentIs == NewDocument \in Snapshot
BY EmptySeq DEF NewDocument, Snapshot, Doc

LEMMA NoCheckpointIs == NoCheckpoint \in Checkpoint /\ NoCheckpoint.phase = "idle"
BY NewDocumentIs DEF NoCheckpoint, Checkpoint

LEMMA NoRestorationIs ==
    /\ NoRestoration \in Restoration
    /\ NoRestoration.phase = "new"
    /\ [NoRestoration EXCEPT !.phase = "done"] \in Restoration
    /\ [NoRestoration EXCEPT !.phase = "done"].phase = "done"
BY NewDocumentIs DEF NoRestoration, Restoration, RestorePhase

LEMMA TheRoom ==
    ASSUME RoomTypes, current # 0
    PROVE  current \in 1 .. Len(rooms) /\ rooms[current] \in Snapshot
BY ElementOfSeq DEF RoomTypes

LEMMA StartedTypes ==
    ASSUME CheckTypes, NEW id \in Nat, NEW room \in Snapshot
    PROVE  Started(id, room) \in Checkpoint
BY DEF CheckTypes, Started, Checkpoint

LEMMA AlarmWrite == [type |-> "alarm"] \in Write
BY DEF Write

LEMMA ScheduledTypes == Scheduled \in Seq(Write)
BY AlarmWrite DEF Scheduled

LEMMA TrimWrite ==
    ASSUME NEW n \in Int PROVE [type |-> "trim", upTo |-> n] \in Write
BY DEF Write

LEMMA FloorWrite ==
    ASSUME NEW n \in Nat PROVE [type |-> "floor", floor |-> n] \in Write
BY DEF Write

LEMMA OpWrite ==
    ASSUME NEW n \in Nat, NEW op \in Edit
    PROVE  /\ [revision |-> n, op |-> op] \in LoggedOp
           /\ [type |-> "op", entry |-> [revision |-> n, op |-> op]] \in Write
BY DEF Write, LoggedOp

LEMMA RestorationFields ==
    ASSUME NEW x \in Restoration
    PROVE  /\ x.phase \in RestorePhase /\ x.room \in Nat /\ x.taken \in Snapshot
           /\ x.floorBefore \in Nat /\ x.taken.revision \in Nat
           /\ x.taken.doc \in Doc
           /\ \A p \in RestorePhase : /\ [x EXCEPT !.phase = p] \in Restoration
                                      /\ [x EXCEPT !.phase = p].phase = p
                                      /\ [x EXCEPT !.phase = p].room = x.room
BY DEF Restoration, Snapshot

LEMMA MovedTypes ==
    ASSUME restore \in [Restore -> Restoration], NEW r \in Restore, NEW p \in RestorePhase
    PROVE  /\ Moved(r, p) \in [Restore -> Restoration]
           /\ \A s \in Restore : Moved(r, p)[s] =
                 IF s = r THEN [restore[r] EXCEPT !.phase = p] ELSE restore[s]
BY RestorationFields DEF Moved

LEMMA BegunTypes ==
    ASSUME restore \in [Restore -> Restoration], NEW r \in Restore, NEW id \in Nat
    PROVE  /\ Begun(r, id) \in Restoration /\ Begun(r, id).room = id
           /\ Begun(r, id).phase = IF id = 0 THEN "loading" ELSE "saving"
BY DEF Begun, Restoration, RestorePhase

LEMMA EndTypes ==
    ASSUME RestoreTypes, NEW ended, NEW id \in 0 .. Len(rooms), End(ended, id),
           Len(rooms) \in Nat, Len(rooms') = Len(rooms)
    PROVE  RestoreTypes' /\ RestoringTypes'
<1> DEFINE waiting == {r \in Restore : restore[r].phase = "waiting"}
<1>1. restore \in [Restore -> Restoration] /\ id \in Nat
    BY DEF RestoreTypes
<1>2. restore' = [r \in Restore |->
                    IF r \in ended THEN [restore[r] EXCEPT !.phase = "done"]
                    ELSE IF r \in waiting THEN Begun(r, id) ELSE restore[r]]
    BY DEF End
<1>3. restoring' \in IF waiting = {} THEN {NoRestore} ELSE waiting
    BY DEF End
<1>4. ASSUME NEW r \in Restore
      PROVE  restore'[r] \in Restoration /\ RoomThere(r)'
    <2>1. restore'[r] = IF r \in ended THEN [restore[r] EXCEPT !.phase = "done"]
                        ELSE IF r \in waiting THEN Begun(r, id) ELSE restore[r]
        BY <1>2
    <2>2. RoomThere(r)
        BY DEF RestoreTypes
    <2>3. CASE r \in ended
        <3>1. "done" \in RestorePhase
            BY DEF RestorePhase
        <3>2. restore'[r] \in Restoration /\ restore'[r].phase = "done"
            BY <1>1, <2>1, <2>3, <3>1, RestorationFields
        <3>3. QED
            BY <3>2 DEF RoomThere
    <2>4. CASE r \notin ended /\ r \in waiting
        <3>1. restore'[r] = Begun(r, id)
            BY <2>1, <2>4
        <3>2. /\ restore'[r] \in Restoration /\ restore'[r].room = id
              /\ restore'[r].phase = IF id = 0 THEN "loading" ELSE "saving"
            BY <1>1, <3>1, BegunTypes
        <3>3. QED
            BY <3>2 DEF RoomThere
    <2>5. CASE r \notin ended /\ r \notin waiting
        BY <1>1, <2>1, <2>2, <2>5 DEF RoomThere
    <2>6. QED
        BY <2>3, <2>4, <2>5
<1>5. restore' \in [Restore -> Restoration]
    <2>1. restore' = [r \in Restore |-> restore'[r]]
        BY <1>2
    <2>2. QED
        BY <1>4, <2>1
<1>6. RestoreTypes'
    BY <1>4, <1>5 DEF RestoreTypes
<1>7. RestoringTypes'
    BY <1>3 DEF RestoringTypes
<1>8. QED
    BY <1>6, <1>7

LEMMA SpendTypes ==
    ASSUME UsedTypes, NEW event \in DOMAIN Bound, Spend(event)
    PROVE  UsedTypes'
BY DEF UsedTypes, Spend

LEMMA Events == {"edit", "stop", "reload", "failure"} = DOMAIN Bound
BY DEF Bound

LEMMA TypeInit == Init => Types
<1> SUFFICES ASSUME Init PROVE Types
    OBVIOUS
<1>0. RoomTypes /\ LoadTypes
    BY EmptySeq DEF Init, RoomTypes, LoadTypes
<1>1. CheckTypes /\ AlarmTypes
    BY NoCheckpointIs DEF Init, CheckTypes, AlarmTypes
<1>2. RestoreTypes /\ RestoringTypes
    BY NoRestorationIs DEF Init, RestoreTypes, RestoringTypes, RoomThere
<1>3. StoreTypes
    BY FS_EmptySet DEF Init, StoreTypes, StoreOK, Storage
<1>4. KeptTypes /\ UsedTypes
    BY NewDocumentIs DEF Init, KeptTypes, UsedTypes
<1>5. QED
    BY <1>0, <1>1, <1>2, <1>3, <1>4 DEF Types

-----------------------------------------------------------------------------
(* Types: the actions, but for edits and restores.                         *)

(* What the actions leave alone keeps its type.                            *)
LEMMA SameTypes ==
    ASSUME Types
    PROVE  /\ UNCHANGED <<rooms, current>> => RoomTypes'
           /\ UNCHANGED loading => LoadTypes'
           /\ UNCHANGED <<checkpointed, checkpoint>> => CheckTypes'
           /\ UNCHANGED <<alarmPending, alarmRunning>> => AlarmTypes'
           /\ UNCHANGED <<restore, rooms>> => RestoreTypes'
           /\ UNCHANGED restoring => RestoringTypes'
           /\ UNCHANGED <<unflushed, storage>> => StoreTypes'
           /\ UNCHANGED <<snapshot, versions, acked>> => KeptTypes'
           /\ UNCHANGED used => UsedTypes'
BY DEF Types, RoomTypes, LoadTypes, CheckTypes, AlarmTypes, RestoreTypes, RoomThere,
       RestoringTypes, StoreTypes, StoreOK, KeptTypes, UsedTypes

LEMMA PushTypes ==
    ASSUME Types, NEW w \in Write, unflushed' = Append(unflushed, w), storage' = storage
    PROVE  StoreTypes'
BY AppendProperties DEF Types, StoreTypes, StoreOK

LEMMA FlushTypes == ASSUME Types, Flush PROVE Types'
<1>1. unflushed \in Seq(Write) /\ unflushed # <<>> /\ StoreOK(storage)
    BY DEF Flush, Types, StoreTypes
<1>2. Head(unflushed) \in Write /\ Tail(unflushed) \in Seq(Write)
    BY <1>1, HeadTailProperties
<1>3. StoreTypes'
    BY <1>1, <1>2, WrittenTypes DEF Flush, StoreTypes, StoreOK
<1>4. KeptTypes'
    <2>1. Head(unflushed).type = "op" => Head(unflushed).entry.op \in Edit
        BY <1>2, WriteIs DEF LoggedOp
    <2>2. QED
        BY <2>1 DEF Flush, Types, KeptTypes
<1>5. QED
    BY <1>3, <1>4, SameTypes DEF Flush, Types, memory

LEMMA CheckpointSyncedTypes == ASSUME Types, CheckpointSynced PROVE Types'
<1>1. CheckTypes'
    BY DEF CheckpointSynced, Types, CheckTypes, Checkpoint
<1>2. QED
    BY <1>1, SameTypes DEF CheckpointSynced, Types

LEMMA CheckpointLandsTypes == ASSUME Types, CheckpointLands PROVE Types'
<1>1. CheckTypes'
    BY DEF CheckpointLands, Types, CheckTypes, Checkpoint
<1>2. KeptTypes'
    BY DEF CheckpointLands, Types, KeptTypes, CheckTypes, Checkpoint
<1>3. QED
    BY <1>1, <1>2, SameTypes DEF CheckpointLands, Types

LEMMA CheckpointWrittenTypes == ASSUME Types, CheckpointWritten PROVE Types'
<1>1. checkpoint.taken.revision \in Nat /\ checkpoint.taken.revision - KeepLog \in Int
    BY Constants DEF Types, CheckTypes, Checkpoint, Snapshot
<1>2. CheckTypes'
    BY <1>1 DEF CheckpointWritten, Types, CheckTypes, Checkpoint
<1>3. StoreTypes'
    BY <1>1, TrimWrite, PushTypes DEF CheckpointWritten
<1>4. QED
    BY <1>2, <1>3, SameTypes DEF CheckpointWritten, Types

LEMMA RecheckingTypes ==
    ASSUME RestoreTypes
    PROVE  /\ Rechecking \in [Restore -> Restoration]
           /\ \A r \in Restore : /\ Rechecking[r].room = restore[r].room
                                 /\ Rechecking[r].phase =
                                      IF restore[r].phase = "awaiting" THEN "saving"
                                      ELSE restore[r].phase
<1>1. "saving" \in RestorePhase /\ restore \in [Restore -> Restoration]
    BY DEF RestorePhase, RestoreTypes
<1>2. ASSUME NEW r \in Restore
      PROVE  /\ Rechecking[r] \in Restoration
             /\ Rechecking[r].room = restore[r].room
             /\ Rechecking[r].phase = IF restore[r].phase = "awaiting" THEN "saving"
                                      ELSE restore[r].phase
    <2>1. Rechecking[r] = IF restore[r].phase = "awaiting"
                          THEN [restore[r] EXCEPT !.phase = "saving"] ELSE restore[r]
        BY DEF Rechecking
    <2>2. restore[r] \in Restoration
        BY <1>1
    <2>3. QED
        BY <1>1, <2>1, <2>2, RestorationFields
<1>3. Rechecking = [r \in Restore |-> Rechecking[r]]
    BY DEF Rechecking
<1> QED
    BY <1>2, <1>3

LEMMA CheckpointReportedTypes == ASSUME Types, CheckpointReported PROVE Types'
<1>1. CheckTypes'
    BY NoCheckpointIs DEF CheckpointReported, Types, CheckTypes
<1>2. RestoreTypes'
    <2>1. RestoreTypes /\ restore' = Rechecking /\ rooms' = rooms
        BY DEF CheckpointReported, Types
    <2>2. QED
        BY <2>1, RecheckingTypes DEF RestoreTypes, RoomThere
<1>3. StoreTypes' /\ AlarmTypes'
    <2>1. unflushed \in Seq(Write) /\ unflushed \o Scheduled \in Seq(Write)
        BY ScheduledTypes, ConcatProperties DEF Types, StoreTypes
    <2>2. unflushed' \in {unflushed, unflushed \o Scheduled}
          /\ alarmPending' \in {alarmPending, TRUE} /\ storage' = storage
        BY DEF CheckpointReported
    <2>3. StoreTypes'
        BY <2>1, <2>2 DEF Types, StoreTypes, StoreOK
    <2>4. alarmRunning' \in {"no", alarmRunning}
        BY DEF CheckpointReported
    <2>5. AlarmTypes'
        BY <2>2, <2>4 DEF Types, AlarmTypes
    <2>6. QED
        BY <2>3, <2>5
<1>4. QED
    BY <1>1, <1>2, <1>3, SameTypes DEF CheckpointReported, Types

LEMMA StartsTypes ==
    ASSUME Types, current # 0, checkpoint' = Started(current, rooms[current]),
           checkpointed' = checkpointed
    PROVE  CheckTypes'
<1>1. current \in Nat /\ rooms[current] \in Snapshot
    BY TheRoom DEF Types, RoomTypes
<1>2. QED
    BY <1>1, StartedTypes DEF Types, CheckTypes

LEMMA LastSocketClosesTypes == ASSUME Types, LastSocketCloses PROVE Types'
<1>1. CheckTypes'
    BY StartsTypes DEF LastSocketCloses
<1>2. QED
    BY <1>1, SameTypes DEF LastSocketCloses, Types

LEMMA AlarmFiresTypes == ASSUME Types, AlarmFires PROVE Types'
<1>1. StoreTypes' /\ AlarmTypes'
    BY DEF AlarmFires, Types, StoreTypes, StoreOK, Storage, AlarmTypes
<1>2. QED
    BY <1>1, SameTypes DEF AlarmFires, Types

LEMMA AlarmCheckpointsTypes == ASSUME Types, AlarmCheckpoints PROVE Types'
<1>1. CheckTypes'
    BY StartsTypes DEF AlarmCheckpoints
<1>2. AlarmTypes'
    BY DEF AlarmCheckpoints, Types, AlarmTypes
<1>3. QED
    BY <1>1, <1>2, SameTypes DEF AlarmCheckpoints, Types

LEMMA LoadSnapshotTypes == ASSUME Types, LoadSnapshot PROVE Types'
<1>1. LoadTypes'
    BY DEF LoadSnapshot, Types, LoadTypes, KeptTypes
<1>2. QED
    BY <1>1, SameTypes DEF LoadSnapshot, Types

LEMMA LoadLogTypes == ASSUME Types, LoadLog PROVE Types'
<1> DEFINE loaders == {r \in Restore : restore[r].phase = "loading"}
           room == Loaded(loading[1], View)
<1>1. loading[1] \in Snapshot /\ Len(rooms) \in Nat
    BY DEF LoadLog, Types, LoadTypes, RoomTypes
<1>2. room \in Snapshot
    BY <1>1, ViewTypes, LoadedTypes DEF Types, StoreTypes
<1>3. LoadTypes'
    BY EmptySeq DEF LoadLog, LoadTypes
<1> HIDE DEF room
<1>4. CASE NoGap(loading[1], View)
    <2>1. /\ rooms' = Append(rooms, room) /\ current' = Len(rooms')
          /\ checkpointed' = loading[1].revision
          /\ restore' = [r \in Restore |->
                            IF r \in loaders THEN Begun(r, current') ELSE restore[r]]
          /\ restoring' = restoring /\ checkpoint' = checkpoint
        BY <1>4 DEF LoadLog, room
    <2>2. RoomTypes' /\ Len(rooms') = Len(rooms) + 1 /\ current' \in 1 .. Len(rooms')
        BY <1>1, <1>2, <2>1, AppendProperties DEF Types, RoomTypes
    <2>3. CheckTypes'
        BY <1>1, <2>1 DEF Types, CheckTypes, Snapshot
    <2>4. ASSUME NEW r \in Restore
          PROVE  restore'[r] \in Restoration /\ RoomThere(r)'
        <3>1. restore \in [Restore -> Restoration] /\ RoomThere(r) /\ current' \in Nat
            BY <2>2 DEF Types, RestoreTypes
        <3>2. restore'[r] = IF r \in loaders THEN Begun(r, current') ELSE restore[r]
            BY <2>1
        <3>3. CASE r \in loaders
            <4>1. restore'[r] = Begun(r, current')
                BY <3>2, <3>3
            <4>2. restore'[r] \in Restoration /\ restore'[r].room = current'
                BY <3>1, <4>1, BegunTypes
            <4>3. QED
                BY <2>2, <4>2 DEF RoomThere
        <3>4. CASE r \notin loaders
            BY <1>1, <2>2, <3>1, <3>2, <3>4 DEF RoomThere
        <3>5. QED
            BY <3>3, <3>4
    <2>5. RestoreTypes' /\ RestoringTypes'
        <3>1. restore' = [r \in Restore |-> restore'[r]]
            BY <2>1
        <3>2. restore' \in [Restore -> Restoration]
            BY <2>4, <3>1
        <3>3. QED
            BY <2>1, <2>4, <3>2 DEF Types, RestoreTypes, RestoringTypes
    <2>6. QED
        BY <1>3, <2>2, <2>3, <2>5, SameTypes DEF LoadLog, Types
<1>5. CASE ~NoGap(loading[1], View)
    <2>1. /\ IF loaders = {} THEN UNCHANGED <<restore, restoring>> ELSE End(loaders, 0)
          /\ UNCHANGED <<rooms, current, checkpointed>>
        BY <1>5 DEF LoadLog
    <2>2. RestoreTypes' /\ RestoringTypes'
        <3>1. CASE loaders = {}
            BY <2>1, <3>1, SameTypes
        <3>2. CASE loaders # {}
            BY <1>1, <2>1, <3>2, EndTypes DEF Types
        <3>3. QED
            BY <3>1, <3>2
    <2>3. QED
        BY <1>3, <2>1, <2>2, SameTypes DEF LoadLog, Types
<1>6. QED
    BY <1>4, <1>5

-----------------------------------------------------------------------------
(* Types: edits, restores and stops.                                       *)

(* The edit that is made next, the room with it and its entry in the log.  *)
NextEdit == used.edit + 1
EditedRoom == [revision |-> rooms[current].revision + 1,
               doc |-> Append(rooms[current].doc, NextEdit)]
Logged == [type |-> "op", entry |-> [revision |-> EditedRoom.revision, op |-> NextEdit]]

LEMMA CommitEditIs ==
    ASSUME CommitEdit
    PROVE  /\ current # 0 /\ restoring = NoRestore /\ Spend("edit")
           /\ rooms' = [rooms EXCEPT ![current] = EditedRoom]
           /\ \/ unflushed' = Append(unflushed, Logged) \o <<>>
              \/ unflushed' = Append(unflushed, Logged) \o Scheduled
           /\ alarmPending' \in BOOLEAN \cup {alarmPending}
           /\ checkpoint' \in {checkpoint, Started(current, EditedRoom)}
BY DEF CommitEdit, EditedRoom, Logged, NextEdit

LEMMA EditTypes ==
    ASSUME Types, current # 0, Spend("edit")
    PROVE  /\ NextEdit \in Edit /\ EditedRoom \in Snapshot /\ Logged \in Write
           /\ EditedRoom.revision \in Nat
<1>1. used.edit \in Nat /\ used.edit < MaxEdits
    BY Events DEF Types, UsedTypes, Spend, Bound
<1>2. NextEdit \in Edit
    BY <1>1, Constants DEF NextEdit, Edit
<1>3. rooms[current] \in Snapshot
    BY TheRoom DEF Types
<1>4. rooms[current].revision \in Nat /\ rooms[current].doc \in Seq(Edit \cup Restore)
    BY <1>3 DEF Snapshot, Doc
<1>5. Append(rooms[current].doc, NextEdit) \in Seq(Edit \cup Restore)
    BY <1>2, <1>4, AppendProperties
<1>6. EditedRoom \in Snapshot /\ EditedRoom.revision \in Nat
    BY <1>4, <1>5 DEF EditedRoom, Snapshot, Doc
<1>7. Logged \in Write
    BY <1>2, <1>6, OpWrite DEF Logged
<1>8. QED
    BY <1>2, <1>6, <1>7

LEMMA CommitEditTypes == ASSUME Types, CommitEdit PROVE Types'
<1>1. NextEdit \in Edit /\ EditedRoom \in Snapshot /\ Logged \in Write /\ current # 0
    BY CommitEditIs, EditTypes
<1>2. RoomTypes' /\ Len(rooms') = Len(rooms)
    <2>1. current \in 1 .. Len(rooms) /\ rooms \in Seq(Snapshot)
        BY <1>1, TheRoom DEF Types, RoomTypes
    <2>2. rooms' = [rooms EXCEPT ![current] = EditedRoom] /\ current' = current
        BY CommitEditIs DEF CommitEdit
    <2>3. QED
        BY <1>1, <2>1, <2>2, ExceptSeq DEF RoomTypes
<1>3. CheckTypes'
    <2>1. current \in Nat
        BY DEF Types, RoomTypes
    <2>2. Started(current, EditedRoom) \in Checkpoint
        BY <1>1, <2>1, StartedTypes DEF Types
    <2>3. QED
        BY <2>2, CommitEditIs DEF CommitEdit, Types, CheckTypes
<1>4. AlarmTypes'
    BY CommitEditIs DEF CommitEdit, Types, AlarmTypes
<1>5. StoreTypes'
    <2>1. unflushed \in Seq(Write)
        BY DEF Types, StoreTypes
    <2>2. Append(unflushed, Logged) \in Seq(Write) /\ <<>> \in Seq(Write)
        BY <1>1, <2>1, AppendProperties, EmptySeq
    <2>3. unflushed' \in Seq(Write)
        BY <2>2, CommitEditIs, ScheduledTypes, ConcatProperties
    <2>4. QED
        BY <2>3 DEF CommitEdit, Types, StoreTypes, StoreOK
<1>6. UsedTypes'
    BY CommitEditIs, Events, SpendTypes DEF Types
<1>7. RestoreTypes'
    BY <1>2 DEF CommitEdit, Types, RestoreTypes, RoomThere
<1>8. QED
    BY <1>2, <1>3, <1>4, <1>5, <1>6, <1>7, SameTypes DEF CommitEdit, Types

LEMMA ReloadTypes == ASSUME Types, Reload PROVE Types'
<1>1. RoomTypes' /\ LoadTypes'
    BY EmptySeq DEF Reload, Types, RoomTypes, LoadTypes
<1>2. UsedTypes'
    BY Events, SpendTypes DEF Reload, Types
<1>3. QED
    BY <1>1, <1>2, SameTypes DEF Reload, Types

LEMMA OneRestoreTypes ==
    ASSUME Types, NEW r \in Restore, NEW x \in Restoration,
           restore' = [restore EXCEPT ![r] = x]
    PROVE  /\ restore' \in [Restore -> Restoration] /\ restore'[r] = x
           /\ \A s \in Restore : s # r => restore'[s] = restore[s]
           /\ Len(rooms') \in Nat /\ Len(rooms') >= Len(rooms) /\ RoomThere(r)'
                => RestoreTypes'
<1>1. restore \in [Restore -> Restoration] /\ Len(rooms) \in Nat
    BY DEF Types, RestoreTypes, RoomTypes
<1>2. restore' \in [Restore -> Restoration] /\ restore'[r] = x
      /\ \A s \in Restore : s # r => restore'[s] = restore[s]
    BY <1>1
<1>3. ASSUME Len(rooms') \in Nat, Len(rooms') >= Len(rooms), RoomThere(r)',
             NEW s \in Restore
      PROVE  RoomThere(s)'
    <2>1. RoomThere(s)
        BY DEF Types, RestoreTypes
    <2>2. CASE s = r
        BY <1>3, <2>2
    <2>3. CASE s # r
        BY <1>1, <1>2, <1>3, <2>1, <2>3 DEF RoomThere
    <2>4. QED
        BY <2>2, <2>3
<1>4. QED
    BY <1>2, <1>3 DEF RestoreTypes

LEMMA MovesTypes ==
    ASSUME Types, NEW r \in Restore, NEW p \in RestorePhase, restore' = Moved(r, p),
           p = "saving" => FALSE, p = "awaiting" => restore[r].phase = "saving",
           rooms' = rooms
    PROVE  RestoreTypes'
<1> DEFINE x == [restore[r] EXCEPT !.phase = p]
<1>1. restore[r] \in Restoration /\ RoomThere(r) /\ Len(rooms) \in Nat
    BY DEF Types, RestoreTypes, RoomTypes
<1>2. x \in Restoration /\ x.phase = p /\ x.room = restore[r].room
    BY <1>1, RestorationFields
<1>3. restore' = [restore EXCEPT ![r] = x]
    BY DEF Moved, Types, RestoreTypes
<1> HIDE DEF x
<1>4. x.phase \in {"saving", "awaiting"} => x.room \in 1 .. Len(rooms')
    BY <1>1, <1>2 DEF RoomThere
<1>5. restore'[r] = x /\ Len(rooms') \in Nat /\ Len(rooms') >= Len(rooms)
    <2>1. restore'[r] = x
        BY <1>2, <1>3, OneRestoreTypes
    <2>2. Len(rooms') = Len(rooms)
        OBVIOUS
    <2>3. QED
        BY <1>1, <2>1, <2>2
<1>6. RoomThere(r)'
    BY <1>4, <1>5 DEF RoomThere
<1>7. QED
    BY <1>2, <1>3, <1>5, <1>6, OneRestoreTypes

LEMMA RequestRestoreTypes ==
    ASSUME Types, NEW r \in Restore, RequestRestore(r) PROVE Types'
<1>1. rooms' = rooms /\ Len(rooms) \in Nat /\ current \in 0 .. Len(rooms) /\ current \in Nat
      /\ restore \in [Restore -> Restoration]
    BY DEF RequestRestore, Types, RoomTypes, RestoreTypes
<1>2. RestoreTypes' /\ RestoringTypes'
    <2>1. CASE restoring = NoRestore
        <3>1. restore' = [restore EXCEPT ![r] = Begun(r, current)] /\ restoring' = r
            BY <2>1 DEF RequestRestore
        <3>2. /\ Begun(r, current) \in Restoration /\ Begun(r, current).room = current
              /\ Begun(r, current).phase = IF current = 0 THEN "loading" ELSE "saving"
            BY <1>1, BegunTypes
        <3>3. Begun(r, current).phase \in {"saving", "awaiting"}
                => Begun(r, current).room \in 1 .. Len(rooms')
            BY <1>1, <3>2
        <3>4. restore'[r] = Begun(r, current)
            BY <1>1, <3>1
        <3>5. RoomThere(r)'
            BY <3>3, <3>4 DEF RoomThere
        <3>6. Len(rooms') \in Nat /\ Len(rooms') >= Len(rooms)
            BY <1>1
        <3>7. RestoreTypes'
            BY <3>1, <3>2, <3>5, <3>6, OneRestoreTypes
        <3>8. QED
            BY <3>1, <3>7 DEF RestoringTypes
    <2>2. CASE restoring # NoRestore
        <3>1. restore' = Moved(r, "waiting") /\ restoring' = restoring
            BY <2>2 DEF RequestRestore
        <3>2. "waiting" \in RestorePhase
            BY DEF RestorePhase
        <3>3. RestoreTypes'
            BY <1>1, <3>1, <3>2, MovesTypes
        <3>4. QED
            BY <3>1, <3>3 DEF Types, RestoringTypes
    <2>3. QED
        BY <2>1, <2>2
<1>3. QED
    BY <1>2, SameTypes DEF RequestRestore, Types

LEMMA CheckpointForRestoreTypes ==
    ASSUME Types, NEW r \in Restore, CheckpointForRestore(r) PROVE Types'
<1>1. CheckTypes'
    BY StartsTypes DEF CheckpointForRestore
<1>2. "awaiting" \in RestorePhase
    BY DEF RestorePhase
<1>3. RestoreTypes'
    BY <1>2, MovesTypes DEF CheckpointForRestore
<1>4. QED
    BY <1>1, <1>3, SameTypes DEF CheckpointForRestore, Types

LEMMA CaptureVersionTypes ==
    ASSUME Types, NEW r \in Restore, CaptureVersion(r) PROVE Types'
<1> DEFINE room == rooms[restore[r].room]
           x == [restore[r] EXCEPT !.phase = "version", !.taken = room]
<1>1. restore[r] \in Restoration /\ RoomThere(r) /\ rooms \in Seq(Snapshot)
      /\ restore \in [Restore -> Restoration] /\ Len(rooms) \in Nat
    BY DEF Types, RestoreTypes, RoomTypes
<1>2. room \in Snapshot
    BY <1>1, ElementOfSeq DEF CaptureVersion, RoomThere
<1> HIDE DEF room
<1>3. x \in Restoration /\ x.phase = "version"
    BY <1>1, <1>2 DEF Restoration, RestorePhase
<1>4. restore' = [restore EXCEPT ![r] = x]
    BY <1>1 DEF CaptureVersion, Moved, room
<1>5. rooms' = rooms
    BY DEF CaptureVersion
<1> HIDE DEF x
<1>6. RestoreTypes'
    <2>1. restore'[r] = x /\ Len(rooms') \in Nat /\ Len(rooms') >= Len(rooms)
        BY <1>1, <1>3, <1>4, <1>5, OneRestoreTypes
    <2>2. RoomThere(r)'
        BY <1>1, <1>3, <1>4, <1>5, <2>1 DEF RoomThere
    <2>3. QED
        BY <1>1, <1>3, <1>4, <1>5, <2>1, <2>2, OneRestoreTypes
<1>7. QED
    BY <1>6, SameTypes DEF CaptureVersion, Types

LEMMA VersionSavedTypes ==
    ASSUME Types, NEW r \in Restore, VersionSaved(r) PROVE Types'
<1> DEFINE x == [restore[r] EXCEPT !.phase = "put", !.floorBefore = View.floor]
           w == [type |-> "floor", floor |-> restore[r].taken.revision + 1]
<1>1. restore[r] \in Restoration /\ Len(rooms) \in Nat
      /\ restore \in [Restore -> Restoration]
    BY DEF Types, RestoreTypes, RoomTypes
<1>2. View.floor \in Nat
    BY ViewTypes DEF Types, StoreTypes, StoreOK, Storage
<1>3. x \in Restoration /\ x.phase = "put"
    BY <1>1, <1>2 DEF Restoration, RestorePhase
<1>4. restore' = [restore EXCEPT ![r] = x] /\ rooms' = rooms
    BY <1>1 DEF VersionSaved, Moved
<1> HIDE DEF x
<1>5. RestoreTypes'
    <2>1. restore'[r] = x /\ Len(rooms') \in Nat /\ Len(rooms') >= Len(rooms)
        BY <1>1, <1>3, <1>4, OneRestoreTypes
    <2>2. RoomThere(r)'
        BY <1>1, <1>3, <1>4, <2>1 DEF RoomThere
    <2>3. QED
        BY <1>1, <1>3, <1>4, <2>1, <2>2, OneRestoreTypes
<1>6. StoreTypes'
    <2>1. w \in Write
        BY <1>1, RestorationFields, FloorWrite
    <2>2. unflushed' = Append(unflushed, w) /\ storage' = storage
        BY DEF VersionSaved
    <2> HIDE DEF w
    <2>3. QED
        BY <2>1, <2>2, PushTypes
<1>7. KeptTypes'
    BY <1>1, RestorationFields DEF VersionSaved, Types, KeptTypes
<1>8. QED
    BY <1>5, <1>6, <1>7, SameTypes DEF VersionSaved, Types

LEMMA RestoredTypes ==
    ASSUME Types, NEW r \in Restore
    PROVE  /\ RestoredDocument(r) \in Snapshot
           /\ RestoredDocument(r).revision = restore[r].taken.revision + 1
           /\ restore[r].taken.revision \in Nat
<1>1. restore[r].taken.revision \in Nat
    BY RestorationFields DEF Types, RestoreTypes
<1>2. <<r>> \in Seq(Edit \cup Restore)
    OBVIOUS
<1>3. QED
    BY <1>1, <1>2 DEF RestoredDocument, Snapshot, Doc

LEMMA RestoreLandsTypes ==
    ASSUME Types, NEW r \in Restore, RestoreLands(r) PROVE Types'
<1>1. "landed" \in RestorePhase
    BY DEF RestorePhase
<1>2. RestoreTypes'
    BY <1>1, MovesTypes DEF RestoreLands
<1>3. KeptTypes'
    BY RestoredTypes DEF RestoreLands, Types, KeptTypes
<1>4. QED
    BY <1>2, <1>3, SameTypes DEF RestoreLands, Types

LEMMA SwitchTypes ==
    ASSUME Types, NEW r \in Restore, Switch(r) PROVE Types'
<1> DEFINE x == [restore[r] EXCEPT !.phase = "record"]
           w == [type |-> "trim", upTo |-> restore[r].taken.revision]
<1>1. /\ restore[r] \in Restoration /\ restore \in [Restore -> Restoration]
      /\ rooms \in Seq(Snapshot) /\ Len(rooms) \in Nat
    BY DEF Types, RestoreTypes, RoomTypes
<1>2. RoomTypes' /\ Len(rooms') = Len(rooms) + 1
    BY <1>1, RestoredTypes, AppendProperties DEF Switch, RoomTypes
<1>3. "record" \in RestorePhase
    BY DEF RestorePhase
<1>4. x \in Restoration /\ x.phase = "record"
    BY <1>1, <1>3, RestorationFields
<1>5. restore' = [restore EXCEPT ![r] = x]
    BY DEF Switch, Moved
<1> HIDE DEF x
<1>6. RestoreTypes'
    <2>1. restore'[r] = x /\ Len(rooms') \in Nat /\ Len(rooms') >= Len(rooms)
        BY <1>1, <1>2, <1>4, <1>5, OneRestoreTypes
    <2>2. RoomThere(r)'
        BY <1>1, <1>2, <1>4, <1>5, <2>1 DEF RoomThere
    <2>3. QED
        BY <1>1, <1>2, <1>4, <1>5, <2>1, <2>2, OneRestoreTypes
<1>7. StoreTypes'
    <2>1. w \in Write
        BY RestoredTypes, TrimWrite
    <2>2. unflushed' = Append(unflushed, w) /\ storage' = storage
        BY DEF Switch
    <2> HIDE DEF w
    <2>3. QED
        BY <2>1, <2>2, PushTypes
<1>8. CheckTypes' /\ LoadTypes'
    BY RestoredTypes, EmptySeq DEF Switch, Types, CheckTypes, LoadTypes
<1>9. QED
    BY <1>2, <1>6, <1>7, <1>8, SameTypes DEF Switch, Types

LEMMA EndsTypes ==
    ASSUME Types, NEW ended, End(ended, current), rooms' = rooms
    PROVE  RestoreTypes' /\ RestoringTypes'
<1>1. RestoreTypes /\ current \in 0 .. Len(rooms) /\ Len(rooms) \in Nat
    BY DEF Types, RoomTypes
<1>2. QED
    BY <1>1, EndTypes

LEMMA RestoreDoneTypes ==
    ASSUME Types, NEW r \in Restore, RestoreDone(r) PROVE Types'
<1>1. RestoreTypes' /\ RestoringTypes'
    BY EndsTypes DEF RestoreDone
<1>2. QED
    BY <1>1, SameTypes DEF RestoreDone, Types

LEMMA RestoreFailsTypes ==
    ASSUME Types, NEW r \in Restore, RestoreFails(r) PROVE Types'
<1> DEFINE w == [type |-> "floor", floor |-> restore[r].floorBefore]
<1>1. RestoreTypes' /\ RestoringTypes'
    BY EndsTypes DEF RestoreFails
<1>2. StoreTypes'
    <2>1. w \in Write
        BY RestorationFields, FloorWrite DEF Types, RestoreTypes
    <2>2. unflushed' \in {unflushed, Append(unflushed, w)} /\ storage' = storage
        BY DEF RestoreFails
    <2> HIDE DEF w
    <2>3. QED
        BY <2>1, <2>2, PushTypes, SameTypes
<1>3. UsedTypes'
    BY Events, SpendTypes DEF RestoreFails, Types
<1>4. QED
    BY <1>1, <1>2, <1>3, SameTypes DEF RestoreFails, Types

LEMMA CheckpointFailsTypes == ASSUME Types, CheckpointFails PROVE Types'
<1> DEFINE failed == {r \in Restore : restore[r].phase = "awaiting"}
<1>1. RestoreTypes' /\ RestoringTypes'
    <2>1. rooms' = rooms
        BY DEF CheckpointFails
    <2>2. UNCHANGED <<restore, restoring>> \/ End(failed, current)
        BY DEF CheckpointFails
    <2> HIDE DEF failed
    <2>3. QED
        BY <2>1, <2>2, EndsTypes, SameTypes
<1>2. CheckTypes'
    BY NoCheckpointIs DEF CheckpointFails, Types, CheckTypes
<1>3. StoreTypes' /\ AlarmTypes'
    BY DEF CheckpointFails, Types, StoreTypes, StoreOK, Storage, AlarmTypes
<1>4. UsedTypes'
    BY Events, SpendTypes DEF CheckpointFails, Types
<1>5. QED
    BY <1>1, <1>2, <1>3, <1>4, SameTypes DEF CheckpointFails, Types

LEMMA StopTypes == ASSUME Types, Stop PROVE Types'
<1>1. RoomTypes' /\ LoadTypes'
    BY EmptySeq DEF Stop, RoomTypes, LoadTypes
<1>2. CheckTypes' /\ AlarmTypes' /\ RestoringTypes'
    BY NoCheckpointIs DEF Stop, CheckTypes, AlarmTypes, RestoringTypes
<1>3. RestoreTypes'
    <2>1. restore \in [Restore -> Restoration]
        BY DEF Types, RestoreTypes
    <2>2. ASSUME NEW r \in Restore
          PROVE  restore'[r] \in Restoration /\ restore'[r].phase \in {"new", "done"}
        BY <2>1, NoRestorationIs DEF Stop
    <2>3. restore' = [r \in Restore |-> restore'[r]]
        BY DEF Stop
    <2>4. restore' \in [Restore -> Restoration]
        BY <2>2, <2>3
    <2>5. QED
        BY <2>2, <2>4 DEF RestoreTypes, RoomThere
<1>4. StoreTypes'
    <2>1. unflushed' \in Seq(Write)
        BY EmptySeq DEF Stop
    <2>2. StoreOK(storage')
        BY DEF Stop, Types, StoreTypes, StoreOK, Storage
    <2>3. QED
        BY <2>1, <2>2 DEF StoreTypes
<1>5. UsedTypes'
    BY Events, SpendTypes DEF Stop, Types
<1>6. QED
    BY <1>1, <1>2, <1>3, <1>4, <1>5, SameTypes DEF Stop, Types

LEMMA TypeStep == ASSUME Types, [Next]_vars PROVE Types'
<1>1. CASE UNCHANGED vars
    BY <1>1, SameTypes DEF vars, memory, Types
<1>2. CASE Flush \/ CommitEdit \/ Reload \/ LastSocketCloses \/ Stop
    BY <1>2, FlushTypes, CommitEditTypes, ReloadTypes, LastSocketClosesTypes, StopTypes
<1>3. CASE Load \/ CheckpointStep \/ CheckpointFails \/ Alarm
    BY <1>3, LoadSnapshotTypes, LoadLogTypes, CheckpointSyncedTypes, CheckpointLandsTypes,
       CheckpointWrittenTypes, CheckpointReportedTypes, CheckpointFailsTypes,
       AlarmFiresTypes, AlarmCheckpointsTypes DEF Load, CheckpointStep, Alarm
<1>4. ASSUME NEW r \in Restore, RequestRestore(r) \/ RestoreStep(r) \/ RestoreFails(r)
      PROVE  Types'
    BY <1>4, RequestRestoreTypes, CheckpointForRestoreTypes, CaptureVersionTypes,
       VersionSavedTypes, RestoreLandsTypes, SwitchTypes, RestoreDoneTypes,
       RestoreFailsTypes DEF RestoreStep
<1>5. QED
    BY <1>1, <1>2, <1>3, <1>4 DEF Next

(* TypeOK: rooms, checkpoints, the log and the restore requests keep their *)
(* shape, whatever is loaded from storage.                                 *)
THEOREM TypeCorrect == Spec => []TypeOK
<1>1. Types /\ [Next]_vars => Types'
    BY TypeStep
<1>2. QED
    BY <1>1, TypeInit, TypesSuffice, PTL DEF Spec

-----------------------------------------------------------------------------
(* Documents that begin other documents.                                   *)

(* The revision at which the document would have been empty: edits that    *)
(* were made before the document was replaced count for its revision.      *)
Off(d) == d.revision - Len(d.doc)

(* The edit by which document d came to revision rev.                      *)
At(d, rev) == d.doc[rev - Off(d)]

(* Document b is document a and more edits.                                *)
Begins(a, b) ==
    /\ a.revision <= b.revision /\ Off(a) = Off(b)
    /\ \A i \in 1 .. Len(a.doc) : a.doc[i] = b.doc[i]

(* Document d as it was at revision rev.                                   *)
Upto(d, rev) == [revision |-> rev, doc |-> SubSeq(d.doc, 1, rev - Off(d))]

LEMMA SnapshotIs ==
    ASSUME NEW d \in Snapshot
    PROVE  /\ d.revision \in Nat /\ d.doc \in Seq(Edit \cup Restore)
           /\ Len(d.doc) \in Nat /\ DOMAIN d.doc = 1 .. Len(d.doc)
           /\ Off(d) \in Int /\ d.revision = Off(d) + Len(d.doc)
           /\ d = [revision |-> d.revision, doc |-> d.doc]
<1>1. /\ d.revision \in Nat /\ d.doc \in Seq(Edit \cup Restore)
      /\ d = [revision |-> d.revision, doc |-> d.doc]
    BY DEF Snapshot, Doc
<1>2. Len(d.doc) \in Nat /\ DOMAIN d.doc = 1 .. Len(d.doc)
    BY <1>1, LenProperties
<1>3. QED
    BY <1>1, <1>2 DEF Off

LEMMA BeginsItself == ASSUME NEW d \in Snapshot PROVE Begins(d, d)
BY SnapshotIs DEF Begins

LEMMA BeginsBegins ==
    ASSUME NEW a \in Snapshot, NEW b \in Snapshot, NEW c \in Snapshot,
           Begins(a, b), Begins(b, c)
    PROVE  Begins(a, c)
<1>1. Len(a.doc) <= Len(b.doc) /\ Len(a.doc) \in Nat /\ Len(b.doc) \in Nat
    BY SnapshotIs DEF Begins
<1>2. a.revision <= c.revision /\ Off(a) = Off(c)
    BY SnapshotIs DEF Begins
<1>3. ASSUME NEW i \in 1 .. Len(a.doc) PROVE a.doc[i] = c.doc[i]
    <2>1. i \in 1 .. Len(b.doc)
        BY <1>1
    <2>2. QED
        BY <2>1 DEF Begins
<1>4. QED
    BY <1>2, <1>3 DEF Begins

LEMMA SameDocument ==
    ASSUME NEW a \in Snapshot, NEW b \in Snapshot, Off(a) = Off(b),
           a.revision = b.revision, \A i \in 1 .. Len(a.doc) : a.doc[i] = b.doc[i]
    PROVE  a = b
<1>1. Len(a.doc) = Len(b.doc)
    BY SnapshotIs
<1>2. a.doc = b.doc
    BY <1>1, SnapshotIs, SeqEqual
<1>3. QED
    BY <1>2, SnapshotIs

LEMMA BeginsEqual ==
    ASSUME NEW a \in Snapshot, NEW b \in Snapshot, Begins(a, b), b.revision <= a.revision
    PROVE  a = b
<1>1. a.revision = b.revision
    BY SnapshotIs DEF Begins
<1>2. QED
    BY <1>1, SameDocument DEF Begins

LEMMA BothBegin ==
    ASSUME NEW a \in Snapshot, NEW b \in Snapshot, NEW c \in Snapshot,
           Begins(a, c), Begins(b, c), a.revision <= b.revision
    PROVE  Begins(a, b)
<1>1. Len(a.doc) <= Len(b.doc) /\ Len(a.doc) \in Nat /\ Len(b.doc) \in Nat
    BY SnapshotIs DEF Begins
<1>2. ASSUME NEW i \in 1 .. Len(a.doc) PROVE a.doc[i] = b.doc[i]
    <2>1. i \in 1 .. Len(b.doc)
        BY <1>1
    <2>2. QED
        BY <2>1 DEF Begins
<1>3. QED
    BY <1>2 DEF Begins

(* Beyond the document it begins with, each revision of a document has its *)
(* edit.                                                                   *)
LEMMA AtIs ==
    ASSUME NEW from \in Snapshot, NEW whole \in Snapshot, Begins(from, whole),
           NEW rev \in Int, from.revision < rev, rev <= whole.revision
    PROVE  /\ rev - Off(whole) \in 1 .. Len(whole.doc)
           /\ At(whole, rev) \in Edit \cup Restore
<1>1. rev - Off(whole) \in 1 .. Len(whole.doc)
    BY SnapshotIs DEF Begins
<1>2. QED
    BY <1>1, SnapshotIs, ElementOfSeq DEF At

LEMMA AtSame ==
    ASSUME NEW from \in Snapshot, NEW a \in Snapshot, NEW b \in Snapshot,
           Begins(from, a), Begins(a, b),
           NEW rev \in Int, from.revision < rev, rev <= a.revision
    PROVE  At(a, rev) = At(b, rev)
<1>1. rev - Off(a) \in 1 .. Len(a.doc) /\ Off(a) = Off(b)
    BY AtIs DEF Begins
<1>2. QED
    BY <1>1 DEF At, Begins

LEMMA UptoIs ==
    ASSUME NEW from \in Snapshot, NEW whole \in Snapshot, Begins(from, whole),
           NEW rev \in Nat, from.revision <= rev, rev <= whole.revision
    PROVE  /\ Upto(whole, rev) \in Snapshot
           /\ Upto(whole, rev).revision = rev /\ Len(Upto(whole, rev).doc) = rev - Off(whole)
           /\ Begins(from, Upto(whole, rev)) /\ Begins(Upto(whole, rev), whole)
<1> DEFINE n == rev - Off(whole)
           d == Upto(whole, rev)
<1>1. n \in Nat /\ n <= Len(whole.doc) /\ Len(from.doc) <= n
      /\ Len(whole.doc) \in Nat /\ Len(from.doc) \in Nat /\ Off(whole) \in Int
    BY SnapshotIs DEF Begins
<1>2. /\ SubSeq(whole.doc, 1, n) \in Seq(Edit \cup Restore)
      /\ Len(SubSeq(whole.doc, 1, n)) = n
      /\ \A i \in 1 .. n : SubSeq(whole.doc, 1, n)[i] = whole.doc[i]
    <2>1. whole.doc \in Seq(Edit \cup Restore)
        BY SnapshotIs
    <2>2. \A i \in 1 .. n : whole.doc[i] \in Edit \cup Restore
        BY <1>1, <2>1, ElementOfSeq
    <2> HIDE DEF n
    <2>3. QED
        BY <1>1, <2>1, <2>2
<1>3. d.revision = rev /\ d.doc = SubSeq(whole.doc, 1, n)
    BY DEF Upto
<1>4. d \in Snapshot
    BY <1>2 DEF Upto, Snapshot, Doc
<1> HIDE DEF d
<1>5. Off(d) = Off(whole)
    BY <1>1, <1>2, <1>3 DEF Off
<1> HIDE DEF n
<1>6. Begins(d, whole)
    BY <1>2, <1>3, <1>5 DEF Begins
<1>7. Begins(from, d)
    BY <1>3, <1>4, <1>6, BothBegin
<1>8. QED
    BY <1>2, <1>3, <1>4, <1>6, <1>7 DEF d, n

LEMMA AppendBegins ==
    ASSUME NEW d \in Snapshot, NEW op \in Edit
    PROVE  LET e == [revision |-> d.revision + 1, doc |-> Append(d.doc, op)]
           IN  /\ e \in Snapshot /\ Begins(d, e) /\ At(e, e.revision) = op
               /\ Len(e.doc) = Len(d.doc) + 1
<1> DEFINE e == [revision |-> d.revision + 1, doc |-> Append(d.doc, op)]
<1>1. d.doc \in Seq(Edit \cup Restore) /\ Len(d.doc) \in Nat /\ d.revision \in Nat
    BY SnapshotIs
<1>2. /\ Append(d.doc, op) \in Seq(Edit \cup Restore)
      /\ Len(Append(d.doc, op)) = Len(d.doc) + 1
      /\ \A i \in 1 .. Len(d.doc) : Append(d.doc, op)[i] = d.doc[i]
      /\ Append(d.doc, op)[Len(d.doc) + 1] = op
    BY <1>1, AppendProperties
<1>3. e \in Snapshot /\ e.revision = d.revision + 1 /\ e.doc = Append(d.doc, op)
    BY <1>1, <1>2 DEF Snapshot, Doc
<1> HIDE DEF e
<1>4. Off(e) = Off(d) /\ e.revision - Off(e) = Len(d.doc) + 1
    BY <1>1, <1>2, <1>3, SMTT(60) DEF Off
<1>5. Begins(d, e) /\ At(e, e.revision) = op
    BY <1>1, <1>2, <1>3, <1>4 DEF Begins, At
<1>6. QED
    BY <1>2, <1>3, <1>5 DEF e

-----------------------------------------------------------------------------
(* Storage that continues a checkpoint.                                    *)

(* The log of st continues checkpoint `from` with the edits of document    *)
(* `whole`, without a gap, up to revision top and no further.              *)
Shows(st, top, from, whole) ==
    /\ from.revision <= top /\ top <= whole.revision
    /\ st.floor <= from.revision + 1
    /\ \A e \in st.log : e.revision <= top
    /\ \A e \in st.log : e.revision > from.revision => e.op = At(whole, e.revision)
    /\ \A rev \in (from.revision + 1) .. top : \E e \in st.log : e.revision = rev

LEMMA ReplayedIs ==
    ASSUME NEW st, StoreOK(st), NEW from \in Snapshot, st.floor <= from.revision + 1
    PROVE  /\ Replayed(from, st) = {e \in st.log : e.revision > from.revision}
           /\ \A e \in st.log : e \in LoggedOp /\ e.revision \in Nat /\ e.op \in Edit
                                /\ e = [revision |-> e.revision, op |-> e.op]
           /\ from.revision \in Nat /\ IsFiniteSet(st.log)
<1>1. /\ \A e \in st.log : e \in LoggedOp /\ e.revision \in Nat /\ e.op \in Edit
                           /\ e = [revision |-> e.revision, op |-> e.op]
      /\ st.floor \in Nat /\ IsFiniteSet(st.log)
    BY DEF StoreOK, Storage, LoggedOp
<1>2. from.revision \in Nat
    BY SnapshotIs
<1>3. \A e \in st.log : e.revision > from.revision => e.revision >= st.floor
    BY <1>1, <1>2
<1>4. QED
    BY <1>1, <1>2, <1>3 DEF Replayed

LEMMA ShowsNoGap ==
    ASSUME NEW st, StoreOK(st), NEW from \in Snapshot, NEW top \in Nat, NEW whole,
           Shows(st, top, from, whole)
    PROVE  NoGap(from, st)
<1>1. Replayed(from, st) = {e \in st.log : e.revision > from.revision}
      /\ from.revision \in Nat /\ \A e \in st.log : e.revision \in Nat
    BY ReplayedIs DEF Shows
<1>2. ASSUME NEW e \in Replayed(from, st), NEW rev \in (from.revision + 1) .. e.revision
      PROVE  \E f \in Replayed(from, st) : f.revision = rev
    <2>1. e \in st.log /\ e.revision <= top /\ e.revision \in Nat
        BY <1>1, <1>2 DEF Shows
    <2>2. rev \in (from.revision + 1) .. top /\ rev > from.revision
        BY <1>1, <1>2, <2>1
    <2>3. PICK f \in st.log : f.revision = rev
        BY <2>2 DEF Shows
    <2>4. f \in Replayed(from, st)
        BY <1>1, <2>2, <2>3
    <2>5. QED
        BY <2>3, <2>4
<1>3. QED
    BY <1>2 DEF NoGap

(* So many revisions need so many entries.                                 *)
LEMMA EntriesEnough ==
    ASSUME NEW st, StoreOK(st), NEW a \in Nat, NEW n \in Nat,
           \A i \in 1 .. n : \E e \in st.log : e.revision = a + i
    PROVE  n <= Cardinality(st.log) /\ Cardinality(st.log) \in Nat
<1> DEFINE f == [i \in 1 .. n |-> CHOOSE e \in st.log : e.revision = a + i]
<1>1. IsFiniteSet(st.log) /\ Cardinality(st.log) \in Nat
    BY FS_CardinalityType DEF StoreOK
<1>2. \A i \in 1 .. n : f[i] \in st.log /\ f[i].revision = a + i
    OBVIOUS
<1>3. f \in [1 .. n -> st.log]
    BY <1>2
<1> HIDE DEF f
<1>4. \A i, j \in 1 .. n : f[i] = f[j] => i = j
    <2> SUFFICES ASSUME NEW i \in 1 .. n, NEW j \in 1 .. n, f[i] = f[j] PROVE i = j
        OBVIOUS
    <2>1. a + i = a + j
        BY <1>2
    <2>2. QED
        BY <2>1
<1>5. f \in Injection(1 .. n, st.log)
    BY <1>3, <1>4 DEF Injection, IsInjective
<1>6. Cardinality(1 .. n) <= Cardinality(st.log)
    BY <1>1, <1>5, FS_Injection
<1>7. Cardinality(1 .. n) = n
    BY FS_Interval
<1>8. QED
    BY <1>1, <1>6, <1>7

(* A load brings back the document as it was at that revision.             *)
LEMMA ShowsLoads ==
    ASSUME NEW st, StoreOK(st), NEW from \in Snapshot, NEW whole \in Snapshot,
           Begins(from, whole), NEW top \in Nat, Shows(st, top, from, whole)
    PROVE  Loaded(from, st) = Upto(whole, top)
<1> DEFINE n == top - from.revision
           d == Upto(whole, top)
           ops == [i \in 1 .. n |-> OpAt(st, from.revision + i)]
<1>1. /\ Replayed(from, st) = {e \in st.log : e.revision > from.revision}
      /\ \A e \in st.log : /\ e.revision \in Nat /\ e.op \in Edit
                           /\ e = [revision |-> e.revision, op |-> e.op]
      /\ from.revision \in Nat /\ IsFiniteSet(st.log)
    BY ReplayedIs DEF Shows
<1>2. n \in Nat /\ from.revision + n = top /\ from.revision <= top /\ top <= whole.revision
    BY <1>1 DEF Shows
<1> HIDE DEF n
<1>3. ASSUME NEW i \in 1 .. n
      PROVE  \E e \in st.log : e.revision = from.revision + i
    <2>1. from.revision + i \in (from.revision + 1) .. top
        BY <1>1, <1>2
    <2>2. QED
        BY <2>1 DEF Shows
<1>4. Cardinality(st.log) \in Nat /\ n <= Cardinality(st.log)
    BY <1>1, <1>2, <1>3, EntriesEnough
<1>5. n \in Ahead(from, st)
    <2>1. \A i \in 1 .. n : \E e \in Replayed(from, st) : e.revision = from.revision + i
        BY <1>1, <1>3
    <2>2. QED
        BY <1>2, <1>4, <2>1 DEF Ahead
<1>6. ASSUME NEW k \in Ahead(from, st) PROVE k <= n
    <2>1. k \in Nat /\ \A i \in 1 .. k : \E e \in Replayed(from, st) : e.revision = from.revision + i
        BY <1>4, <1>6 DEF Ahead
    <2>2. CASE k = 0
        BY <1>2, <2>2
    <2>3. CASE k # 0
        <3>1. k \in 1 .. k
            BY <2>1, <2>3
        <3>2. PICK e \in st.log : e.revision = from.revision + k
            BY <1>1, <2>1, <3>1
        <3>3. from.revision + k <= top
            BY <3>2 DEF Shows
        <3>4. QED
            BY <1>1, <1>2, <2>1, <3>3
    <2>4. QED
        BY <2>2, <2>3
<1>7. Max(Ahead(from, st)) = n
    <2>1. Ahead(from, st) \in SUBSET (0 .. Cardinality(st.log)) /\ Ahead(from, st) # {}
        BY <1>5 DEF Ahead
    <2>2. Max(Ahead(from, st)) \in Ahead(from, st) /\ n <= Max(Ahead(from, st))
        BY <1>4, <1>5, <2>1, MaxIs
    <2>3. Max(Ahead(from, st)) <= n /\ Max(Ahead(from, st)) \in Nat
        BY <1>4, <1>6, <2>1, <2>2
    <2>4. QED
        BY <1>2, <2>2, <2>3
<1>8. Loaded(from, st) = [revision |-> top, doc |-> from.doc \o ops]
    BY <1>2, <1>7, LoadedIs
<1>9. d \in Snapshot /\ d.revision = top /\ Begins(from, d) /\ Begins(d, whole)
    BY <1>2, UptoIs
<1> HIDE DEF d
<1>10. ASSUME NEW i \in 1 .. n
       PROVE  ops[i] \in Edit /\ ops[i] = d.doc[Len(from.doc) + i]
    <2>1. PICK e \in st.log : e.revision = from.revision + i
        BY <1>3
    <2>2. from.revision < e.revision /\ e.revision <= top /\ e.revision \in Int
        BY <1>1, <1>2, <2>1
    <2>3. \A f \in st.log : f.revision = e.revision => f.op = At(whole, e.revision)
        BY <2>2 DEF Shows
    <2>4. \E op \in Edit : [revision |-> from.revision + i, op |-> op] \in st.log
        BY <1>1, <2>1
    <2>5. /\ OpAt(st, from.revision + i) \in Edit
          /\ [revision |-> from.revision + i, op |-> OpAt(st, from.revision + i)] \in st.log
        BY <2>4 DEF OpAt
    <2>6. OpAt(st, from.revision + i) = At(whole, e.revision)
        BY <2>1, <2>3, <2>5
    <2>7. At(d, e.revision) = At(whole, e.revision)
        BY <1>9, <2>2, AtSame
    <2>8. e.revision - Off(d) = Len(from.doc) + i
        <3>1. Off(d) = Off(from) /\ from.revision = Off(from) + Len(from.doc)
              /\ Off(from) \in Int /\ Len(from.doc) \in Nat
            BY <1>9, SnapshotIs DEF Begins
        <3>2. QED
            BY <2>1, <3>1
    <2>9. QED
        BY <2>5, <2>6, <2>7, <2>8 DEF At
<1>11. Len(from.doc) \in Nat /\ Len(d.doc) = Len(from.doc) + n
       /\ from.doc \in Seq(Edit \cup Restore) /\ d.doc \in Seq(Edit \cup Restore)
    <2>1. /\ Off(d) = Off(from) /\ from.revision = Off(from) + Len(from.doc)
          /\ d.revision = Off(d) + Len(d.doc)
          /\ Off(from) \in Int /\ Len(from.doc) \in Nat /\ Len(d.doc) \in Nat
        BY <1>9, SnapshotIs DEF Begins
    <2>2. from.revision + n = d.revision /\ n \in Nat
        BY <1>2, <1>9
    <2>3. Len(d.doc) = Len(from.doc) + n
        <3> DEFINE o == Off(from)
                   a == Len(from.doc)
                   b == Len(d.doc)
        <3>1. o \in Int /\ a \in Nat /\ b \in Nat /\ o + a + n = o + b
            BY <2>1, <2>2
        <3> HIDE DEF o, a, b
        <3>2. b = a + n
            BY <2>2, <3>1
        <3>3. QED
            BY <3>2 DEF a, b
    <2>4. QED
        BY <1>9, <2>1, <2>3, SnapshotIs
<1>12. \A i \in 1 .. Len(from.doc) : from.doc[i] = d.doc[i]
    BY <1>9 DEF Begins
<1>13. ops \in Seq(Edit \cup Restore) /\ Len(ops) = n
    <2>1. ops \in [1 .. n -> Edit \cup Restore] /\ DOMAIN ops = 1 .. n
        BY <1>10
    <2> HIDE DEF ops
    <2>2. QED
        BY <1>2, <2>1, SeqDef
<1> HIDE DEF ops
<1>14. from.doc \o ops = d.doc
    <2> DEFINE c == from.doc \o ops
    <2>1. c \in Seq(Edit \cup Restore) /\ Len(c) = Len(from.doc) + n
          /\ \A i \in 1 .. Len(c) :
                c[i] = IF i <= Len(from.doc) THEN from.doc[i] ELSE ops[i - Len(from.doc)]
        BY <1>11, <1>13, ConcatProperties
    <2> HIDE DEF c
    <2>2. ASSUME NEW i \in 1 .. Len(c) PROVE c[i] = d.doc[i]
        <3>1. CASE i <= Len(from.doc)
            BY <1>11, <1>12, <2>1, <3>1
        <3>2. CASE i > Len(from.doc)
            <4>1. i - Len(from.doc) \in 1 .. n /\ Len(from.doc) + (i - Len(from.doc)) = i
                BY <1>2, <1>11, <2>1, <3>2
            <4>2. c[i] = ops[i - Len(from.doc)]
                BY <1>11, <2>1, <3>2
            <4>3. QED
                BY <1>10, <4>1, <4>2
        <3>3. QED
            BY <1>11, <2>1, <3>1, <3>2
    <2>3. Len(c) = Len(d.doc)
        BY <1>11, <2>1
    <2>4. c = d.doc
        BY <1>11, <2>1, <2>2, <2>3, SeqEqual
    <2>5. QED
        BY <2>4 DEF c
<1>15. QED
    BY <1>8, <1>9, <1>14, SnapshotIs DEF d

-----------------------------------------------------------------------------
(* Writes on their way.                                                    *)

(* A write that takes a log that shows `whole` up to revision before to    *)
(* one that shows it up to revision after, and leaves the checkpoint with  *)
(* what it needs of the log.                                               *)
Adds(w, before, after, from, whole) ==
    \/ w.type = "op" /\ after = before + 1 /\ w.entry.revision = after
                     /\ w.entry.op = At(whole, after)
    \/ w.type = "floor" /\ after = before /\ w.floor <= from.revision + 1
    \/ w.type = "trim" /\ after = before /\ w.upTo <= from.revision
    \/ w.type = "alarm" /\ after = before

(* With the writes on their way, storage takes checkpoint `from` to the    *)
(* document `whole`: after the first i of them, up to revision top[i].     *)
Holds(st, ws, top, from, whole) ==
    /\ Begins(from, whole)
    /\ \A i \in 0 .. Len(ws) : top[i] \in Nat /\ top[i] <= whole.revision
    /\ Shows(st, top[0], from, whole)
    /\ \A i \in 1 .. Len(ws) : Adds(ws[i], top[i - 1], top[i], from, whole)
    /\ top[Len(ws)] = whole.revision

(* Only the log and the floor count.                                       *)
LEMMA ShowsSame ==
    ASSUME NEW st, NEW st2, st2.log = st.log, st2.floor = st.floor, NEW top, NEW from,
           NEW whole, Shows(st, top, from, whole)
    PROVE  Shows(st2, top, from, whole)
BY DEF Shows

LEMMA ShowsWritten ==
    ASSUME NEW st, StoreOK(st), NEW w \in Write, NEW from \in Snapshot, NEW whole,
           NEW before \in Nat, NEW after \in Nat, after <= whole.revision,
           Shows(st, before, from, whole), Adds(w, before, after, from, whole)
    PROVE  Shows(Written(st, w), after, from, whole)
<1>1. st \in Storage /\ from.revision \in Nat /\ \A e \in st.log : e.revision \in Nat
    BY SnapshotIs, ReplayedIs DEF StoreOK, Shows
<1>2. CASE w.type = "op"
    <2> DEFINE log == {e \in st.log : e.revision # w.entry.revision} \cup {w.entry}
    <2>1. after = before + 1 /\ w.entry.revision = after /\ w.entry.op = At(whole, after)
        BY <1>2 DEF Adds
    <2>2. Written(st, w) = [st EXCEPT !.log = log]
        BY <1>1, <1>2, WrittenIs
    <2>3. Written(st, w).log = log /\ Written(st, w).floor = st.floor
        BY <1>1, <2>2 DEF Storage
    <2>4. log = st.log \cup {w.entry}
        BY <1>1, <2>1 DEF Shows
    <2> HIDE DEF log
    <2>5. from.revision <= after
        BY <1>1, <2>1 DEF Shows
    <2>6. \A e \in log : e.revision <= after
        BY <1>1, <2>1, <2>4 DEF Shows
    <2>7. \A e \in log : e.revision > from.revision => e.op = At(whole, e.revision)
        BY <2>1, <2>4 DEF Shows
    <2>8. ASSUME NEW rev \in (from.revision + 1) .. after
          PROVE  \E e \in log : e.revision = rev
        <3>1. CASE rev = after
            BY <2>1, <2>4, <3>1
        <3>2. CASE rev # after
            <4>1. rev \in (from.revision + 1) .. before
                BY <1>1, <2>1, <3>2
            <4>2. QED
                BY <2>4, <4>1 DEF Shows
        <3>3. QED
            BY <3>1, <3>2
    <2>9. QED
        BY <2>3, <2>5, <2>6, <2>7, <2>8 DEF Shows
<1>3. CASE w.type = "floor"
    <2>1. after = before /\ w.floor <= from.revision + 1
        BY <1>3 DEF Adds
    <2>2. Written(st, w) = [st EXCEPT !.floor = w.floor]
        BY <1>1, <1>3, WrittenIs
    <2>3. Written(st, w).log = st.log /\ Written(st, w).floor = w.floor
        BY <1>1, <2>2 DEF Storage
    <2>4. QED
        BY <2>1, <2>3 DEF Shows
<1>4. CASE w.type = "trim"
    <2> DEFINE log == {e \in st.log : e.revision > w.upTo}
    <2>1. after = before /\ w.upTo <= from.revision /\ w.upTo \in Int
        BY <1>4, WriteIs DEF Adds
    <2>2. Written(st, w) = [st EXCEPT !.log = log]
        BY <1>1, <1>4, WrittenIs
    <2>3. Written(st, w).log = log /\ Written(st, w).floor = st.floor
        BY <1>1, <2>2 DEF Storage
    <2>4. \A rev \in (from.revision + 1) .. before : \E e \in log : e.revision = rev
        <3> SUFFICES ASSUME NEW rev \in (from.revision + 1) .. before
                     PROVE  \E e \in log : e.revision = rev
            OBVIOUS
        <3>1. PICK e \in st.log : e.revision = rev
            BY DEF Shows
        <3>2. e.revision > w.upTo
            BY <1>1, <2>1, <3>1
        <3>3. QED
            BY <3>1, <3>2
    <2>5. \A e \in log : e \in st.log
        OBVIOUS
    <2> HIDE DEF log
    <2>6. QED
        BY <2>1, <2>3, <2>4, <2>5 DEF Shows
<1>5. CASE w.type = "alarm"
    <2>1. after = before
        BY <1>5 DEF Adds
    <2>2. Written(st, w) = [st EXCEPT !.alarm = TRUE]
        BY <1>1, <1>5, WrittenIs
    <2>3. Written(st, w).log = st.log /\ Written(st, w).floor = st.floor
        BY <1>1, <2>2 DEF Storage
    <2>4. QED
        BY <2>1, <2>3 DEF Shows
<1>6. QED
    BY <1>2, <1>3, <1>4, <1>5 DEF Adds

LEMMA HoldsAlong ==
    ASSUME NEW st, StoreOK(st), NEW ws \in Seq(Write), NEW top, NEW from \in Snapshot,
           NEW whole \in Snapshot, Holds(st, ws, top, from, whole),
           NEW shown, Unfolds(st, ws, shown)
    PROVE  \A i \in 0 .. Len(ws) : StoreOK(shown[i]) /\ Shows(shown[i], top[i], from, whole)
<1> DEFINE n == Len(ws)
           T == {i \in Nat : i <= n => StoreOK(shown[i]) /\ Shows(shown[i], top[i], from, whole)}
<1>1. n \in Nat
    OBVIOUS
<1>2. 0 \in T
    BY DEF Unfolds, Holds
<1>3. ASSUME NEW i \in T PROVE i + 1 \in T
    <2>1. SUFFICES ASSUME i + 1 <= n
                   PROVE  StoreOK(shown[i + 1]) /\ Shows(shown[i + 1], top[i + 1], from, whole)
        OBVIOUS
    <2>2. i + 1 \in 1 .. n /\ (i + 1) - 1 = i /\ i \in 0 .. n /\ i + 1 \in 0 .. n
          /\ StoreOK(shown[i]) /\ Shows(shown[i], top[i], from, whole)
        BY <1>1, <1>3, <2>1
    <2>3. shown[i + 1] = Written(shown[i], ws[i + 1])
        BY <2>2 DEF Unfolds
    <2>4. ws[i + 1] \in Write
        BY <2>2
    <2>5. /\ top[i] \in Nat /\ top[i + 1] \in Nat /\ top[i + 1] <= whole.revision
          /\ Adds(ws[i + 1], top[i], top[i + 1], from, whole)
        BY <2>2 DEF Holds
    <2>6. QED
        BY <2>2, <2>3, <2>4, <2>5, WrittenTypes, ShowsWritten
<1>4. T = Nat
    <2>1. T \subseteq Nat
        OBVIOUS
    <2> HIDE DEF T
    <2>2. QED
        BY <1>2, <1>3, <2>1, SetInduction
<1>5. QED
    BY <1>1, <1>4

(* What is durable.                                                        *)
LEMMA HoldsNow ==
    ASSUME NEW st, StoreOK(st), NEW ws \in Seq(Write), NEW top, NEW from \in Snapshot,
           NEW whole \in Snapshot, Holds(st, ws, top, from, whole)
    PROVE  /\ top[0] \in Nat /\ from.revision <= top[0] /\ top[0] <= whole.revision
           /\ Begins(from, whole) /\ Shows(st, top[0], from, whole)
           /\ Loaded(from, st) = Upto(whole, top[0])
<1>1. 0 \in 0 .. Len(ws)
    OBVIOUS
<1>2. top[0] \in Nat /\ top[0] <= whole.revision /\ Begins(from, whole)
      /\ Shows(st, top[0], from, whole)
    BY <1>1 DEF Holds
<1>3. QED
    BY <1>2, ShowsLoads DEF Shows

(* What the object reads.                                                  *)
LEMMA HoldsView ==
    ASSUME unflushed \in Seq(Write), StoreOK(storage), NEW top, NEW from \in Snapshot,
           NEW whole \in Snapshot, Holds(storage, unflushed, top, from, whole)
    PROVE  /\ NoGap(from, View) /\ Loaded(from, View) = whole
           /\ View.floor <= from.revision + 1
<1>1. PICK shown : Unfolds(storage, unflushed, shown) /\ View = shown[Len(unflushed)]
    BY ViewIs
<1>2. Len(unflushed) \in 0 .. Len(unflushed)
    OBVIOUS
<1>3. StoreOK(View) /\ Shows(View, whole.revision, from, whole)
    BY <1>1, <1>2, HoldsAlong DEF Holds
<1>4. whole.revision \in Nat /\ from.revision <= whole.revision /\ Begins(from, whole)
    BY SnapshotIs DEF Holds, Begins
<1>5. NoGap(from, View)
    BY <1>3, <1>4, ShowsNoGap
<1>6. Loaded(from, View) = Upto(whole, whole.revision)
    BY <1>3, <1>4, ShowsLoads
<1>7. Upto(whole, whole.revision) = whole
    <2>1. /\ Upto(whole, whole.revision) \in Snapshot
          /\ Upto(whole, whole.revision).revision = whole.revision
          /\ Begins(Upto(whole, whole.revision), whole)
        BY <1>4, UptoIs
    <2>2. QED
        BY <1>4, <2>1, BeginsEqual
<1>8. QED
    BY <1>3, <1>5, <1>6, <1>7 DEF Shows

(* The oldest write becomes durable.                                       *)
LEMMA HoldsWritten ==
    ASSUME NEW st, StoreOK(st), NEW ws \in Seq(Write), ws # <<>>, NEW top,
           NEW from \in Snapshot, NEW whole \in Snapshot, Holds(st, ws, top, from, whole)
    PROVE  \E new : /\ Holds(Written(st, Head(ws)), Tail(ws), new, from, whole)
                    /\ new[0] = top[1] /\ top[0] <= top[1]
                    /\ Adds(Head(ws), top[0], top[1], from, whole)
<1> DEFINE n == Len(ws)
           new == [i \in 0 .. (n - 1) |-> top[i + 1]]
<1>1. /\ n \in Nat /\ n >= 1 /\ Head(ws) = ws[1] /\ Head(ws) \in Write
      /\ Tail(ws) \in Seq(Write) /\ Len(Tail(ws)) = n - 1
      /\ \A i \in 1 .. (n - 1) : Tail(ws)[i] = ws[i + 1]
    BY HeadTailProperties, EmptySeq
<1> HIDE DEF n
<1>2. /\ \A i \in 0 .. n : top[i] \in Nat /\ top[i] <= whole.revision
      /\ \A i \in 1 .. n : Adds(ws[i], top[i - 1], top[i], from, whole)
      /\ top[n] = whole.revision /\ Begins(from, whole) /\ Shows(st, top[0], from, whole)
    BY DEF Holds, n
<1>3. \A i \in 0 .. (n - 1) : new[i] = top[i + 1]
    OBVIOUS
<1> HIDE DEF new
<1>4. /\ 0 \in 0 .. n /\ 1 \in 0 .. n /\ 1 \in 1 .. n /\ 0 \in 0 .. (n - 1)
      /\ n - 1 \in 0 .. (n - 1)
    BY <1>1
<1>5. Adds(ws[1], top[0], top[1], from, whole) /\ top[0] \in Nat /\ top[1] \in Nat
      /\ top[1] <= whole.revision
    <2>1. Adds(ws[1], top[1 - 1], top[1], from, whole)
        BY <1>2, <1>4
    <2>2. QED
        BY <1>2, <1>4, <2>1
<1>6. Shows(Written(st, Head(ws)), top[1], from, whole)
    BY <1>1, <1>2, <1>5, ShowsWritten
<1>7. top[0] <= top[1]
    BY <1>5 DEF Adds
<1>8. new[0] = top[1] /\ new[n - 1] = top[n]
    BY <1>1, <1>3, <1>4
<1>9. ASSUME NEW i \in 1 .. (n - 1)
      PROVE  Adds(Tail(ws)[i], new[i - 1], new[i], from, whole)
    <2>1. i + 1 \in 1 .. n /\ (i + 1) - 1 = i /\ i \in 0 .. (n - 1) /\ i - 1 \in 0 .. (n - 1)
          /\ (i - 1) + 1 = i
        BY <1>1
    <2>2. Adds(ws[i + 1], top[i], top[i + 1], from, whole)
        BY <1>2, <2>1
    <2>3. new[i] = top[i + 1] /\ new[i - 1] = top[i]
        BY <1>3, <2>1
    <2>4. QED
        BY <1>1, <2>2, <2>3
<1>10. \A i \in 0 .. (n - 1) : new[i] \in Nat /\ new[i] <= whole.revision
    <2> SUFFICES ASSUME NEW i \in 0 .. (n - 1)
                 PROVE  new[i] \in Nat /\ new[i] <= whole.revision
        OBVIOUS
    <2>1. i + 1 \in 0 .. n
        BY <1>1
    <2>2. QED
        BY <1>2, <1>3, <2>1
<1>11. Holds(Written(st, Head(ws)), Tail(ws), new, from, whole)
    BY <1>1, <1>2, <1>6, <1>8, <1>9, <1>10 DEF Holds
<1>12. QED
    BY <1>1, <1>5, <1>7, <1>8, <1>11

LEMMA ShowsMore ==
    ASSUME NEW st, StoreOK(st), NEW top \in Nat, NEW from \in Snapshot,
           NEW whole \in Snapshot, NEW more \in Snapshot,
           Begins(from, whole), Begins(whole, more), Shows(st, top, from, whole)
    PROVE  Shows(st, top, from, more)
<1>1. /\ from.revision \in Nat /\ whole.revision \in Nat /\ more.revision \in Nat
      /\ whole.revision <= more.revision /\ top <= whole.revision
      /\ \A e \in st.log : e.revision \in Nat /\ e.revision <= top
    BY SnapshotIs, ReplayedIs DEF Begins, Shows
<1>2. ASSUME NEW e \in st.log, e.revision > from.revision
      PROVE  e.op = At(more, e.revision)
    <2>1. e.op = At(whole, e.revision)
        BY <1>2 DEF Shows
    <2>2. e.revision <= whole.revision /\ e.revision \in Int /\ from.revision < e.revision
        BY <1>1, <1>2
    <2>3. QED
        BY <2>1, <2>2, AtSame
<1>3. top <= more.revision
    BY <1>1
<1>4. QED
    BY <1>2, <1>3 DEF Shows

LEMMA AddsMore ==
    ASSUME NEW w, NEW before \in Nat, NEW after \in Nat, NEW from \in Snapshot,
           NEW whole \in Snapshot, NEW more \in Snapshot, after <= whole.revision,
           from.revision <= before,
           Begins(from, whole), Begins(whole, more), Adds(w, before, after, from, whole)
    PROVE  Adds(w, before, after, from, more)
<1>1. CASE w.type = "op" /\ after = before + 1
    <2>1. from.revision \in Nat /\ whole.revision \in Nat
        BY SnapshotIs
    <2>2. from.revision < after /\ after \in Int
        BY <1>1, <2>1
    <2>3. At(whole, after) = At(more, after)
        BY <2>2, AtSame
    <2>4. QED
        BY <1>1, <2>3 DEF Adds
<1>2. CASE ~(w.type = "op" /\ after = before + 1)
    BY <1>2 DEF Adds
<1>3. QED
    BY <1>1, <1>2

(* No write takes the log back.                                            *)
LEMMA HoldsRises ==
    ASSUME NEW st, NEW ws \in Seq(Write), NEW top, NEW from \in Snapshot,
           NEW whole \in Snapshot, Holds(st, ws, top, from, whole)
    PROVE  \A i \in 0 .. Len(ws) : top[0] <= top[i] /\ from.revision <= top[i]
<1> DEFINE n == Len(ws)
           T == {i \in Nat : i <= n => top[0] <= top[i]}
<1>1. n \in Nat /\ 0 \in 0 .. n /\ top[0] \in Nat
    BY DEF Holds
<1>2. 0 \in T
    BY <1>1
<1>3. ASSUME NEW i \in T PROVE i + 1 \in T
    <2>1. SUFFICES ASSUME i + 1 <= n PROVE top[0] <= top[i + 1]
        OBVIOUS
    <2>2. i + 1 \in 1 .. n /\ (i + 1) - 1 = i /\ i \in 0 .. n /\ i + 1 \in 0 .. n
          /\ top[0] <= top[i]
        BY <1>1, <1>3, <2>1
    <2>3. /\ top[i] \in Nat /\ top[i + 1] \in Nat
          /\ Adds(ws[i + 1], top[i], top[i + 1], from, whole)
        BY <2>2 DEF Holds
    <2>4. top[i] <= top[i + 1]
        BY <2>3 DEF Adds
    <2>5. QED
        BY <1>1, <2>2, <2>3, <2>4
<1>4. T = Nat
    <2>1. T \subseteq Nat
        OBVIOUS
    <2> HIDE DEF T
    <2>2. QED
        BY <1>2, <1>3, <2>1, SetInduction
<1>5. ASSUME NEW i \in 0 .. n PROVE top[0] <= top[i] /\ from.revision <= top[i]
    <2>1. top[0] <= top[i] /\ top[i] \in Nat
        BY <1>1, <1>4 DEF Holds
    <2>2. from.revision <= top[0] /\ from.revision \in Nat
        BY SnapshotIs DEF Holds, Shows
    <2>3. QED
        BY <1>1, <2>1, <2>2
<1>6. QED
    BY <1>5

(* One more write, with which the document may go on.                      *)
LEMMA HoldsAppend ==
    ASSUME NEW st, StoreOK(st), NEW ws \in Seq(Write), NEW top, NEW from \in Snapshot,
           NEW whole \in Snapshot, Holds(st, ws, top, from, whole),
           NEW w \in Write, NEW more \in Snapshot, Begins(whole, more),
           Adds(w, whole.revision, more.revision, from, more)
    PROVE  \E new : Holds(st, Append(ws, w), new, from, more) /\ new[0] = top[0]
<1> DEFINE n == Len(ws)
           new == [i \in 0 .. (n + 1) |-> IF i <= n THEN top[i] ELSE more.revision]
<1>1. /\ n \in Nat /\ Append(ws, w) \in Seq(Write) /\ Len(Append(ws, w)) = n + 1
      /\ \A i \in 1 .. n : Append(ws, w)[i] = ws[i]
      /\ Append(ws, w)[n + 1] = w
    BY AppendProperties
<1> HIDE DEF n
<1>2. /\ \A i \in 0 .. n : top[i] \in Nat /\ top[i] <= whole.revision
      /\ \A i \in 1 .. n : Adds(ws[i], top[i - 1], top[i], from, whole)
      /\ top[n] = whole.revision /\ Begins(from, whole) /\ Shows(st, top[0], from, whole)
    BY DEF Holds, n
<1>3. (\A i \in 0 .. n : new[i] = top[i]) /\ new[n + 1] = more.revision
    BY <1>1
<1> HIDE DEF new
<1>4. /\ whole.revision \in Nat /\ more.revision \in Nat /\ whole.revision <= more.revision
      /\ 0 \in 0 .. n /\ n \in 0 .. n
    BY <1>1, SnapshotIs DEF Begins
<1>5. Begins(from, more)
    BY <1>2, BeginsBegins
<1>6. \A i \in 0 .. (n + 1) : new[i] \in Nat /\ new[i] <= more.revision
    <2> SUFFICES ASSUME NEW i \in 0 .. (n + 1)
                 PROVE  new[i] \in Nat /\ new[i] <= more.revision
        OBVIOUS
    <2>1. CASE i \in 0 .. n
        BY <1>2, <1>3, <1>4, <2>1
    <2>2. CASE i = n + 1
        BY <1>3, <1>4, <2>2
    <2>3. QED
        BY <1>1, <2>1, <2>2
<1>7. new[0] = top[0] /\ top[0] \in Nat
    BY <1>2, <1>3, <1>4
<1>8. Shows(st, new[0], from, more)
    BY <1>2, <1>7, ShowsMore
<1>9. ASSUME NEW i \in 1 .. (n + 1)
      PROVE  Adds(Append(ws, w)[i], new[i - 1], new[i], from, more)
    <2>1. CASE i \in 1 .. n
        <3>1. i \in 0 .. n /\ i - 1 \in 0 .. n
            BY <1>1, <2>1
        <3>2. /\ top[i] \in Nat /\ top[i - 1] \in Nat /\ top[i] <= whole.revision
              /\ from.revision <= top[i - 1]
            BY <1>2, <3>1, HoldsRises DEF n
        <3>3. Adds(ws[i], top[i - 1], top[i], from, more)
            BY <1>2, <2>1, <3>2, AddsMore
        <3>4. new[i] = top[i] /\ new[i - 1] = top[i - 1] /\ Append(ws, w)[i] = ws[i]
            BY <1>1, <1>3, <2>1, <3>1
        <3>5. QED
            BY <3>3, <3>4
    <2>2. CASE i = n + 1
        <3>1. i - 1 = n /\ new[n] = whole.revision
            BY <1>1, <1>2, <1>3, <1>4, <2>2
        <3>2. QED
            BY <1>1, <1>3, <2>2, <3>1
    <2>3. QED
        BY <1>1, <2>1, <2>2
<1>10. Holds(st, Append(ws, w), new, from, more)
    BY <1>1, <1>3, <1>5, <1>6, <1>8, <1>9 DEF Holds
<1>11. QED
    BY <1>7, <1>10

(* A write that adds no edit.                                              *)
LEMMA HoldsQuiet ==
    ASSUME NEW st, StoreOK(st), NEW ws \in Seq(Write), NEW top, NEW from \in Snapshot,
           NEW whole \in Snapshot, Holds(st, ws, top, from, whole), NEW w \in Write,
           \/ w.type = "alarm"
           \/ w.type = "floor" /\ w.floor <= from.revision + 1
           \/ w.type = "trim" /\ w.upTo <= from.revision
    PROVE  \E new : Holds(st, Append(ws, w), new, from, whole) /\ new[0] = top[0]
<1>1. Adds(w, whole.revision, whole.revision, from, whole)
    BY DEF Adds
<1>2. Begins(whole, whole)
    BY BeginsItself
<1>3. QED
    BY <1>1, <1>2, HoldsAppend

(* The checkpoint is replaced by a later one.                              *)
LEMMA HoldsLater ==
    ASSUME NEW st, StoreOK(st), NEW ws \in Seq(Write), NEW top, NEW from \in Snapshot,
           NEW whole \in Snapshot, Holds(st, ws, top, from, whole),
           NEW later \in Snapshot, Begins(from, later), Begins(later, whole),
           later.revision <= top[0]
    PROVE  Holds(st, ws, top, later, whole)
<1>1. from.revision \in Nat /\ later.revision \in Nat /\ from.revision <= later.revision
    BY SnapshotIs DEF Begins
<1>2. Shows(st, top[0], later, whole)
    <2>1. Shows(st, top[0], from, whole) /\ st.floor \in Nat
          /\ \A e \in st.log : e.revision \in Nat
        BY ReplayedIs DEF Holds, Shows, StoreOK, Storage
    <2>2. st.floor <= later.revision + 1
        BY <1>1, <2>1 DEF Shows
    <2>3. \A e \in st.log : e.revision > later.revision => e.op = At(whole, e.revision)
        BY <1>1, <2>1 DEF Shows
    <2>4. top[0] \in Nat
        BY DEF Holds
    <2>5. \A rev \in (later.revision + 1) .. top[0] : rev \in (from.revision + 1) .. top[0]
        BY <1>1, <2>4
    <2>6. QED
        BY <2>1, <2>2, <2>3, <2>5 DEF Shows
<1>3. ASSUME NEW i \in 1 .. Len(ws)
      PROVE  Adds(ws[i], top[i - 1], top[i], later, whole)
    <2>1. Adds(ws[i], top[i - 1], top[i], from, whole)
        BY DEF Holds
    <2>2. ws[i] \in Write
        OBVIOUS
    <2>3. QED
        BY <1>1, <2>1, <2>2, WriteIs, SMTT(60) DEF Adds
<1>4. QED
    BY <1>2, <1>3 DEF Holds

(* What is left when the writes on their way are lost.                     *)
LEMMA HoldsCut ==
    ASSUME NEW st, StoreOK(st), NEW ws \in Seq(Write), NEW top, NEW from \in Snapshot,
           NEW whole \in Snapshot, Holds(st, ws, top, from, whole),
           NEW st2, st2.log = st.log, st2.floor = st.floor
    PROVE  \E new : Holds(st2, <<>>, new, from, Upto(whole, top[0])) /\ new[0] = top[0]
<1> DEFINE d == Upto(whole, top[0])
           new == [i \in {0} |-> top[0]]
<1>1. top[0] \in Nat /\ from.revision <= top[0] /\ top[0] <= whole.revision
      /\ Begins(from, whole) /\ Shows(st, top[0], from, whole)
    BY HoldsNow
<1>2. d \in Snapshot /\ d.revision = top[0] /\ Begins(from, d) /\ Begins(d, whole)
    BY <1>1, UptoIs
<1> HIDE DEF d
<1>3. Shows(st2, top[0], from, d)
    <2>1. ASSUME NEW e \in st.log, e.revision > from.revision
          PROVE  e.op = At(d, e.revision)
        <3>1. e.op = At(whole, e.revision) /\ e.revision <= top[0]
            BY <1>1, <2>1 DEF Shows
        <3>2. e.revision \in Int /\ from.revision < e.revision
            BY <1>1, <2>1, ReplayedIs DEF Shows
        <3>3. At(d, e.revision) = At(whole, e.revision)
            BY <1>2, <3>1, <3>2, AtSame
        <3>4. QED
            BY <3>1, <3>3
    <2>2. Shows(st, top[0], from, d)
        BY <1>1, <1>2, <2>1 DEF Shows
    <2>3. QED
        BY <2>2, ShowsSame
<1>4. Len(<<>>) = 0 /\ 0 .. Len(<<>>) = {0} /\ 1 .. Len(<<>>) = {}
    OBVIOUS
<1>5. new[0] = top[0]
    OBVIOUS
<1> HIDE DEF new
<1>6. Holds(st2, <<>>, new, from, d)
    BY <1>1, <1>2, <1>3, <1>4, <1>5 DEF Holds
<1>7. QED
    BY <1>5, <1>6 DEF d

(* A checkpoint beyond every entry of the log.                             *)
LEMMA HoldsAlone ==
    ASSUME NEW st, StoreOK(st), NEW d \in Snapshot, st.floor <= d.revision + 1,
           \A e \in st.log : e.revision <= d.revision
    PROVE  \E new : Holds(st, <<>>, new, d, d) /\ new[0] = d.revision
<1> DEFINE new == [i \in {0} |-> d.revision]
<1>1. d.revision \in Nat /\ \A e \in st.log : e.revision \in Nat
    BY SnapshotIs, ReplayedIs
<1>2. Shows(st, d.revision, d, d)
    BY <1>1 DEF Shows
<1>3. Len(<<>>) = 0 /\ 0 .. Len(<<>>) = {0} /\ 1 .. Len(<<>>) = {}
    OBVIOUS
<1>4. new[0] = d.revision
    OBVIOUS
<1> HIDE DEF new
<1>5. Begins(d, d)
    BY BeginsItself
<1>6. Holds(st, <<>>, new, d, d)
    BY <1>1, <1>2, <1>3, <1>4, <1>5 DEF Holds
<1>7. QED
    BY <1>4, <1>6

-----------------------------------------------------------------------------
(* The inductive invariant.                                                *)

(* The restore request has something to do at the moment.                  *)
Active(r) == restore[r].phase \notin {"new", "waiting", "done"}

(* No two restores run side by side.                                       *)
OneAtATime == \A r, s \in Restore : Active(r) /\ Active(s) => r = s

(* No checkpoint of a room that has been dropped is still running.         *)
NothingLeftBehind == current = 0 => checkpoint.phase = "idle"

(* The restored document is in R2, and the room is still the old one.      *)
Landed == \E r \in Restore : restore[r].phase = "landed"

Blocking == restoring = NoRestore =>
                \A r \in Restore : restore[r].phase \in {"new", "done"}

(* A room knows of no later checkpoint than there is; a load works on the  *)
(* one there is.                                                           *)
Counts ==
    /\ current # 0 => checkpointed <= snapshot.revision
    /\ loading # <<>> => current = 0 /\ loading[1] = snapshot

(* A checkpoint on its way is of the current room, later than the one in   *)
(* R2.                                                                     *)
Checks ==
    /\ checkpoint.phase \in {"sync", "put", "landed"} =>
          /\ current # 0 /\ checkpointed < checkpoint.taken.revision
          /\ Begins(checkpoint.taken, rooms[current])
    /\ checkpoint.phase \in {"sync", "put"} => Begins(snapshot, checkpoint.taken)
    /\ checkpoint.phase = "landed" => snapshot = checkpoint.taken

(* A restore works on the current room, which no edit or checkpoint        *)
(* changes from the moment its version is taken.                           *)
InPlace(r) ==
    /\ restore[r].phase = "loading" => current = 0
    /\ restore[r].phase \in {"saving", "awaiting", "version", "put", "landed"} =>
          current # 0 /\ restore[r].room = current
    /\ restore[r].phase \in {"version", "put", "landed"} =>
          /\ restore[r].taken = rooms[current]
          /\ checkpointed = restore[r].taken.revision
          /\ checkpoint.phase \in {"idle", "report"}
    /\ restore[r].phase \in {"version", "put"} => snapshot = restore[r].taken
    /\ restore[r].phase \in {"put", "landed"} => restore[r].taken.doc \in versions
    /\ restore[r].phase = "put" => restore[r].floorBefore <= snapshot.revision + 1
    /\ restore[r].phase = "landed" => snapshot = RestoredDocument(r)

Rules == Blocking /\ Counts /\ Checks /\ \A r \in Restore : InPlace(r)

(* No edit is in a document twice, and the edits to come are in none.      *)
Fresh(d) ==
    /\ \A i, j \in 1 .. Len(d.doc) : d.doc[i] = d.doc[j] => i = j
    /\ \A i \in 1 .. Len(d.doc) :
          d.doc[i] \in Restore \/ (d.doc[i] \in Edit /\ d.doc[i] <= used.edit)

Shown(whole) == current # 0 => whole = IF Landed THEN snapshot ELSE rooms[current]

(* A checkpoint is put to R2 once what it contains is durable.             *)
PutDurable(top) == checkpoint.phase = "put" => checkpoint.taken.revision <= top[0]

(* `whole` is the document as it will be loaded when all writes on their   *)
(* way have become durable; top says how far each of them takes it.        *)
Ghost(whole, top) ==
    /\ whole \in Snapshot
    /\ Holds(storage, unflushed, top, snapshot, whole)
    /\ Fresh(whole) /\ Shown(whole) /\ PutDurable(top)

Before(whole, top) ==
    Types /\ Rules /\ OneAtATime /\ NothingLeftBehind /\ Ghost(whole, top)

(* The document as a restart would load it, and that a step keeps it.      *)
Durable == Loaded(snapshot, storage)
Keeps == Rules' /\ (\E whole, top : Ghost(whole, top)') /\ Durable' = Durable

-----------------------------------------------------------------------------
LEMMA DurableIs ==
    ASSUME Types, NEW whole, NEW top, Ghost(whole, top)
    PROVE  /\ Durable = Upto(whole, top[0])
           /\ top[0] \in Nat /\ snapshot.revision <= top[0] /\ top[0] <= whole.revision
           /\ Begins(snapshot, whole) /\ Shows(storage, top[0], snapshot, whole)
           /\ whole \in Snapshot /\ snapshot \in Snapshot
BY HoldsNow DEF Durable, Ghost, Types, StoreTypes, KeptTypes

LEMMA UptoSame ==
    ASSUME NEW from \in Snapshot, NEW a \in Snapshot, NEW b \in Snapshot,
           Begins(from, a), Begins(a, b), NEW rev \in Nat,
           from.revision <= rev, rev <= a.revision
    PROVE  Upto(a, rev) = Upto(b, rev)
<1> DEFINE x == Upto(a, rev)
           y == Upto(b, rev)
<1>1. Begins(from, b) /\ rev <= b.revision
    BY BeginsBegins, SnapshotIs DEF Begins
<1>2. x \in Snapshot /\ x.revision = rev /\ Begins(x, a)
    BY UptoIs
<1>3. y \in Snapshot /\ y.revision = rev /\ Begins(y, b)
    BY <1>1, UptoIs
<1> HIDE DEF x, y
<1>4. Begins(x, b)
    BY <1>2, BeginsBegins
<1>5. Begins(x, y)
    BY <1>2, <1>3, <1>4, SnapshotIs, BothBegin
<1>6. x = y
    BY <1>2, <1>3, <1>5, SnapshotIs, BeginsEqual
<1>7. QED
    BY <1>6 DEF x, y

LEMMA ActivePhases ==
    ASSUME NEW r
    PROVE  Active(r) <=> restore[r].phase \notin {"new", "waiting", "done"}
BY DEF Active

(* What the room is while no restore has landed.                           *)
LEMMA TheWhole ==
    ASSUME NEW whole, NEW top, Before(whole, top), current # 0, ~Landed
    PROVE  /\ whole = rooms[current] /\ rooms[current] \in Snapshot
           /\ Begins(snapshot, rooms[current])
<1>1. whole = rooms[current] /\ whole \in Snapshot
    BY DEF Before, Ghost, Shown
<1>2. Begins(snapshot, whole)
    BY DurableIs DEF Before
<1>3. QED
    BY <1>1, <1>2

LEMMA NotLanded ==
    ASSUME Rules, OneAtATime
    PROVE  /\ restoring = NoRestore => ~Landed
           /\ \A r \in Restore : Active(r) /\ restore[r].phase # "landed" => ~Landed
           /\ current = 0 => ~Landed
<1>1. \A r \in Restore : restore[r].phase = "landed" => Active(r)
    BY DEF Active
<1>2. restoring = NoRestore => ~Landed
    BY DEF Rules, Blocking, Landed
<1>3. \A r \in Restore : Active(r) /\ restore[r].phase # "landed" => ~Landed
    BY <1>1 DEF OneAtATime, Landed
<1>4. current = 0 => ~Landed
    BY DEF Rules, InPlace, Landed
<1>5. QED
    BY <1>2, <1>3, <1>4

(* The rules that a step leaves alone.                                     *)
LEMMA SameRules ==
    ASSUME Rules
    PROVE  /\ UNCHANGED <<restoring, restore>> => Blocking'
           /\ UNCHANGED <<current, checkpointed, snapshot, loading>> => Counts'
           /\ UNCHANGED <<current, rooms, checkpointed, checkpoint, snapshot>> => Checks'
           /\ \A r \in Restore :
                 /\ UNCHANGED <<current, rooms, checkpointed, checkpoint, snapshot>>
                 /\ restore'[r] = restore[r]
                 /\ versions \subseteq versions'
                 => InPlace(r)'
BY DEF Rules, Blocking, Counts, Checks, InPlace, RestoredDocument

LEMMA QuietPlace ==
    ASSUME NEW r, restore[r].phase \in {"new", "waiting", "record", "done"}
    PROVE  InPlace(r)
BY DEF InPlace

LEMMA SavingPlace ==
    ASSUME NEW r, restore[r].phase \in {"saving", "awaiting"}, current # 0,
           restore[r].room = current
    PROVE  InPlace(r)
BY DEF InPlace

LEMMA LoadingPlace ==
    ASSUME NEW r, restore[r].phase = "loading", current = 0
    PROVE  InPlace(r)
BY DEF InPlace

(* A step that changes nothing of what a load would bring.                 *)
LEMMA SameGhost ==
    ASSUME Types, Types', NEW whole, NEW top, Ghost(whole, top),
           snapshot' = snapshot, unflushed' = unflushed,
           storage'.log = storage.log, storage'.floor = storage.floor,
           used'.edit = used.edit, Shown(whole)', PutDurable(top)'
    PROVE  Ghost(whole, top)' /\ Durable' = Durable
<1>1. Holds(storage', unflushed, top, snapshot, whole)
    BY ShowsSame DEF Ghost, Holds
<1>2. Fresh(whole)'
    BY DEF Ghost, Fresh
<1>3. Ghost(whole, top)'
    BY <1>1, <1>2 DEF Ghost
<1>4. Durable' = Upto(whole, top[0])
    BY <1>1, HoldsNow DEF Ghost, Durable, Types, StoreTypes, KeptTypes
<1>5. QED
    BY <1>3, <1>4, DurableIs

(* A step that hands one more write to storage, without an edit.           *)
LEMMA QuietGhost ==
    ASSUME Types, Types', NEW whole, NEW top, Ghost(whole, top),
           NEW w \in Write, unflushed' = Append(unflushed, w),
           snapshot' = snapshot, storage' = storage, used'.edit = used.edit,
           Shown(whole)', checkpoint'.phase = "put" => checkpoint' = checkpoint,
           \/ w.type = "alarm"
           \/ w.type = "floor" /\ w.floor <= snapshot.revision + 1
           \/ w.type = "trim" /\ w.upTo <= snapshot.revision
    PROVE  (\E new : Ghost(whole, new)') /\ Durable' = Durable
<1>1. PICK new : Holds(storage, Append(unflushed, w), new, snapshot, whole) /\ new[0] = top[0]
    BY HoldsQuiet DEF Ghost, Types, StoreTypes, KeptTypes
<1>2. Fresh(whole)'
    BY DEF Ghost, Fresh
<1>3. PutDurable(new)'
    BY <1>1 DEF Ghost, PutDurable
<1>4. Ghost(whole, new)'
    BY <1>1, <1>2, <1>3 DEF Ghost
<1>5. Durable' = Durable
    BY DEF Durable
<1>6. QED
    BY <1>4, <1>5

LEMMA GhostInit == Init => Rules /\ \E whole, top : Ghost(whole, top)
<1> SUFFICES ASSUME Init PROVE Rules /\ \E whole, top : Ghost(whole, top)
    OBVIOUS
<1>1. Rules
    BY DEF Init, Rules, Blocking, Counts, Checks, InPlace, NoCheckpoint, NoRestoration
<1>2. NewDocument \in Snapshot /\ NewDocument.revision = 0 /\ Len(NewDocument.doc) = 0
    BY NewDocumentIs DEF NewDocument
<1>3. /\ StoreOK(storage) /\ storage.floor <= NewDocument.revision + 1
      /\ \A e \in storage.log : e.revision <= NewDocument.revision
    BY <1>2, FS_EmptySet DEF Init, StoreOK, Storage
<1>4. PICK top : Holds(storage, <<>>, top, NewDocument, NewDocument)
    BY <1>2, <1>3, HoldsAlone
<1>5. Fresh(NewDocument)
    BY <1>2 DEF Fresh
<1>6. Shown(NewDocument) /\ PutDurable(top)
    BY DEF Init, Shown, PutDurable, NoCheckpoint
<1>7. Ghost(NewDocument, top)
    BY <1>2, <1>4, <1>5, <1>6 DEF Init, Ghost
<1>8. QED
    BY <1>1, <1>7

-----------------------------------------------------------------------------
(* The actions keep it: alarms, loads, drops.                              *)

(* When the one active restore ends, those that waited go on.              *)
LEMMA EndRules ==
    ASSUME Types, Rules, OneAtATime, NEW ended \in SUBSET Restore, ended # {},
           \A r \in ended : Active(r), End(ended, current), current' = current
    PROVE  /\ Blocking' /\ \A r \in Restore : InPlace(r)'
           /\ ~Landed'
           /\ \E r \in Restore : Active(r) /\ ended = {r}
<1> DEFINE waiting == {r \in Restore : restore[r].phase = "waiting"}
<1>1. restore \in [Restore -> Restoration] /\ current \in Nat
    BY DEF Types, RestoreTypes, RoomTypes
<1>2. /\ restore' = [r \in Restore |->
                      IF r \in ended THEN [restore[r] EXCEPT !.phase = "done"]
                      ELSE IF r \in waiting THEN Begun(r, current) ELSE restore[r]]
      /\ restoring' \in IF waiting = {} THEN {NoRestore} ELSE waiting
    BY DEF End
<1>3. PICK a \in Restore : Active(a) /\ ended = {a}
    BY DEF OneAtATime
<1>4. ASSUME NEW r \in Restore
      PROVE  /\ r \in ended => restore'[r].phase = "done"
             /\ r \notin ended /\ r \in waiting =>
                    /\ restore'[r].room = current
                    /\ restore'[r].phase = IF current = 0 THEN "loading" ELSE "saving"
             /\ r \notin ended /\ r \notin waiting => restore'[r].phase \in {"new", "done"}
    <2>1. restore'[r] = IF r \in ended THEN [restore[r] EXCEPT !.phase = "done"]
                        ELSE IF r \in waiting THEN Begun(r, current) ELSE restore[r]
        BY <1>2
    <2>2. CASE r \in ended
        <3>1. "done" \in RestorePhase /\ restore[r] \in Restoration
            BY <1>1 DEF RestorePhase
        <3>2. QED
            BY <2>1, <2>2, <3>1, RestorationFields
    <2>3. CASE r \notin ended /\ r \in waiting
        <3>1. restore'[r] = Begun(r, current)
            BY <2>1, <2>3
        <3>2. QED
            BY <1>1, <2>3, <3>1, BegunTypes
    <2>4. CASE r \notin ended /\ r \notin waiting
        <3>1. restore'[r] = restore[r]
            BY <2>1, <2>4
        <3>2. ~Active(r)
            BY <1>3, <2>4 DEF OneAtATime
        <3>3. QED
            BY <2>4, <3>1, <3>2 DEF Active
    <2>5. QED
        BY <2>2, <2>3, <2>4
<1>5. ASSUME NEW r \in Restore PROVE InPlace(r)' /\ restore'[r].phase # "landed"
    <2>1. CASE r \in waiting /\ r \notin ended
        BY <1>4, <2>1 DEF InPlace
    <2>2. CASE ~(r \in waiting /\ r \notin ended)
        BY <1>4, <2>2 DEF InPlace
    <2>3. QED
        BY <2>1, <2>2
<1>6. Blocking'
    <2>1. CASE waiting = {}
        <3>1. \A r \in Restore : r \notin waiting
            BY <2>1
        <3> HIDE DEF waiting
        <3>2. QED
            BY <1>4, <3>1 DEF Blocking
    <2>2. CASE waiting # {}
        <3>1. restoring' # NoRestore
            BY <1>2, <2>2, Constants
        <3>2. QED
            BY <3>1 DEF Blocking
    <2>3. QED
        BY <2>1, <2>2
<1>7. ~Landed'
    BY <1>5 DEF Landed
<1>8. QED
    BY <1>3, <1>5, <1>6, <1>7

(* A checkpoint that starts is of the room as it is, and none starts while *)
(* a restore has its version.                                              *)
LEMMA StartedRules ==
    ASSUME NEW whole, NEW top, Before(whole, top), current # 0,
           checkpoint' = Started(current, rooms[current]),
           UNCHANGED <<rooms, current, loading, checkpointed, snapshot, versions>>
    PROVE  /\ Counts' /\ Checks'
           /\ \A r \in Restore : restore'[r] = restore[r] => InPlace(r)'
           /\ checkpoint'.phase = "put" => checkpoint' = checkpoint
           /\ checkpoint' = checkpoint \/ ~Landed
<1>1. Rules /\ Types
    BY DEF Before
<1>2. Counts'
    BY <1>1, SameRules
<1>3. CASE checkpoint' = checkpoint
    BY <1>1, <1>2, <1>3, SameRules
<1>4. CASE checkpoint' # checkpoint
    <2>1. /\ checkpoint.phase = "idle" /\ ~(rooms[current].revision <= checkpointed)
          /\ checkpoint' = [phase |-> "sync", room |-> current, taken |-> rooms[current]]
        BY <1>4 DEF Started
    <2>2. \A r \in Restore : restore[r].phase \notin {"version", "put", "landed"}
        <3> SUFFICES ASSUME NEW r \in Restore,
                            restore[r].phase \in {"version", "put", "landed"}
                     PROVE  FALSE
            OBVIOUS
        <3>1. rooms[current].revision = checkpointed
            BY <1>1 DEF Rules, InPlace
        <3>2. checkpointed \in Nat
            BY <1>1 DEF Types, CheckTypes
        <3>3. QED
            BY <2>1, <3>1, <3>2
    <2>3. ~Landed
        BY <2>2 DEF Landed
    <2>4. rooms[current] \in Snapshot /\ Begins(snapshot, rooms[current])
        BY <2>3, TheWhole
    <2>5. checkpointed < rooms[current].revision
        BY <1>1, <2>1, <2>4, SnapshotIs DEF Types, CheckTypes
    <2>6. Begins(rooms[current], rooms[current])
        BY <2>4, BeginsItself
    <2>7. Checks'
        BY <2>1, <2>4, <2>5, <2>6 DEF Checks
    <2>8. \A r \in Restore : restore'[r] = restore[r] => InPlace(r)'
        BY <1>1, <2>2 DEF Rules, InPlace
    <2>9. QED
        BY <1>2, <2>1, <2>3, <2>7, <2>8
<1>5. QED
    BY <1>3, <1>4

(* Most steps leave what the room is to the writes on their way.           *)
LEMMA SameShown ==
    ASSUME NEW whole, NEW top, Ghost(whole, top), rooms' = rooms, current' = current,
           snapshot' = snapshot, Landed' <=> Landed
    PROVE  Shown(whole)'
BY DEF Ghost, Shown

LEMMA SameLanded == ASSUME restore' = restore PROVE Landed' <=> Landed
BY DEF Landed

LEMMA LastSocketClosesKeeps ==
    ASSUME NEW whole, NEW top, Before(whole, top), Types', LastSocketCloses
    PROVE  Keeps
<1>1. Rules /\ Types /\ Ghost(whole, top)
    BY DEF Before
<1>2. Counts' /\ Checks' /\ (\A r \in Restore : InPlace(r)')
      /\ (checkpoint'.phase = "put" => checkpoint' = checkpoint)
    BY StartedRules DEF LastSocketCloses
<1>3. Blocking'
    BY <1>1, SameRules DEF LastSocketCloses
<1>4. Shown(whole)' /\ PutDurable(top)'
    BY <1>1, <1>2, SameShown, SameLanded DEF LastSocketCloses, Ghost, PutDurable
<1>5. Ghost(whole, top)' /\ Durable' = Durable
    BY <1>1, <1>4, SameGhost DEF LastSocketCloses
<1>6. QED
    BY <1>2, <1>3, <1>5 DEF Keeps, Rules

LEMMA AlarmCheckpointsKeeps ==
    ASSUME NEW whole, NEW top, Before(whole, top), Types', AlarmCheckpoints
    PROVE  Keeps
<1>1. Rules /\ Types /\ Ghost(whole, top)
    BY DEF Before
<1>2. Counts' /\ Checks' /\ (\A r \in Restore : InPlace(r)')
      /\ (checkpoint'.phase = "put" => checkpoint' = checkpoint)
    BY StartedRules DEF AlarmCheckpoints
<1>3. Blocking'
    BY <1>1, SameRules DEF AlarmCheckpoints
<1>4. Shown(whole)' /\ PutDurable(top)'
    BY <1>1, <1>2, SameShown, SameLanded DEF AlarmCheckpoints, Ghost, PutDurable
<1>5. Ghost(whole, top)' /\ Durable' = Durable
    BY <1>1, <1>4, SameGhost DEF AlarmCheckpoints
<1>6. QED
    BY <1>2, <1>3, <1>5 DEF Keeps, Rules

LEMMA AlarmFiresKeeps ==
    ASSUME NEW whole, NEW top, Before(whole, top), Types', AlarmFires
    PROVE  Keeps
<1>1. Rules /\ Types /\ Ghost(whole, top)
    BY DEF Before
<1>2. Blocking' /\ Counts' /\ Checks' /\ \A r \in Restore : InPlace(r)'
    BY <1>1, SameRules DEF AlarmFires
<1>3. Shown(whole)' /\ PutDurable(top)'
    BY <1>1, SameShown, SameLanded DEF AlarmFires, Ghost, PutDurable
<1>4. storage'.log = storage.log /\ storage'.floor = storage.floor
    BY <1>1 DEF AlarmFires, Types, StoreTypes, StoreOK, Storage
<1>5. Ghost(whole, top)' /\ Durable' = Durable
    BY <1>1, <1>3, <1>4, SameGhost DEF AlarmFires
<1>6. QED
    BY <1>2, <1>5 DEF Keeps, Rules

LEMMA LoadSnapshotKeeps ==
    ASSUME NEW whole, NEW top, Before(whole, top), Types', LoadSnapshot
    PROVE  Keeps
<1>1. Rules /\ Types /\ Ghost(whole, top)
    BY DEF Before
<1>2. Blocking' /\ Checks' /\ \A r \in Restore : InPlace(r)'
    BY <1>1, SameRules DEF LoadSnapshot
<1>3. Counts'
    BY DEF LoadSnapshot, Counts
<1>4. Shown(whole)' /\ PutDurable(top)'
    BY <1>1, SameShown, SameLanded DEF LoadSnapshot, Ghost, PutDurable
<1>5. Ghost(whole, top)' /\ Durable' = Durable
    BY <1>1, <1>4, SameGhost DEF LoadSnapshot
<1>6. QED
    BY <1>2, <1>3, <1>5 DEF Keeps, Rules

LEMMA ReloadKeeps ==
    ASSUME NEW whole, NEW top, Before(whole, top), Types', Reload, NothingLeftBehind'
    PROVE  Keeps
<1>1. Rules /\ Types /\ Ghost(whole, top)
    BY DEF Before
<1>2. Blocking' /\ Counts'
    BY <1>1, SameRules DEF Reload, Counts
<1>3. Checks'
    BY DEF Reload, NothingLeftBehind, Checks
<1>4. \A r \in Restore : InPlace(r)'
    BY <1>1 DEF Reload, Rules, Blocking, InPlace
<1>5. Shown(whole)' /\ PutDurable(top)'
    BY <1>1 DEF Reload, Ghost, PutDurable, Shown
<1>6. used'.edit = used.edit
    BY <1>1, Events DEF Reload, Spend, Types, UsedTypes
<1>7. Ghost(whole, top)' /\ Durable' = Durable
    BY <1>1, <1>5, <1>6, SameGhost DEF Reload
<1>8. QED
    BY <1>2, <1>3, <1>4, <1>7 DEF Keeps, Rules

-----------------------------------------------------------------------------
(* Checkpoints.                                                            *)

(* While a checkpoint is on its way no restore has its version.            *)
LEMMA BusyPlaces ==
    ASSUME Rules, checkpoint.phase \in {"sync", "put", "landed"}
    PROVE  /\ ~Landed
           /\ \A r \in Restore : restore[r].phase \notin {"version", "put", "landed"}
           /\ UNCHANGED <<rooms, current>> =>
                  \A r \in Restore : restore'[r] = restore[r] => InPlace(r)'
<1>1. \A r \in Restore : restore[r].phase \notin {"version", "put", "landed"}
    BY DEF Rules, InPlace
<1>2. QED
    BY <1>1 DEF Rules, InPlace, Landed

LEMMA CheckpointFields ==
    ASSUME Types
    PROVE  /\ checkpoint.taken \in Snapshot /\ checkpoint.taken.revision \in Nat
           /\ checkpointed \in Nat
           /\ \A p \in {"sync", "put", "landed", "report"} :
                 /\ [checkpoint EXCEPT !.phase = p].phase = p
                 /\ [checkpoint EXCEPT !.phase = p].taken = checkpoint.taken
<1>1. checkpoint \in Checkpoint /\ checkpointed \in Nat
    BY DEF Types, CheckTypes
<1>2. checkpoint.taken \in Snapshot
    BY <1>1 DEF Checkpoint
<1>3. QED
    BY <1>1, <1>2, SnapshotIs DEF Checkpoint

LEMMA CheckpointSyncedKeeps ==
    ASSUME NEW whole, NEW top, Before(whole, top), Types', CheckpointSynced
    PROVE  Keeps
<1>1. Rules /\ Types /\ Ghost(whole, top)
    BY DEF Before
<1>2. checkpoint.phase = "sync" /\ checkpoint'.phase = "put"
      /\ checkpoint'.taken = checkpoint.taken
    BY <1>1, CheckpointFields DEF CheckpointSynced
<1>3. ~Landed /\ \A r \in Restore : InPlace(r)'
    BY <1>1, <1>2, BusyPlaces DEF CheckpointSynced
<1>4. Blocking' /\ Counts'
    BY <1>1, SameRules DEF CheckpointSynced
<1>5. Checks'
    BY <1>1, <1>2 DEF CheckpointSynced, Rules, Checks
<1>6. Shown(whole)'
    BY <1>1, SameShown, SameLanded DEF CheckpointSynced
<1>7. PutDurable(top)'
    <2>1. current # 0 /\ Begins(checkpoint.taken, rooms[current])
        BY <1>1, <1>2 DEF Rules, Checks
    <2>2. whole = rooms[current]
        BY <1>3, <2>1, TheWhole
    <2>3. Len(unflushed) = 0
        BY DEF CheckpointSynced, Flushed
    <2>4. top[0] = whole.revision
        BY <1>1, <2>3 DEF Ghost, Holds
    <2>5. QED
        BY <1>2, <2>1, <2>2, <2>4 DEF PutDurable, Begins
<1>8. Ghost(whole, top)' /\ Durable' = Durable
    BY <1>1, <1>6, <1>7, SameGhost DEF CheckpointSynced
<1>9. QED
    BY <1>3, <1>4, <1>5, <1>8 DEF Keeps, Rules

LEMMA CheckpointLandsKeeps ==
    ASSUME NEW whole, NEW top, Before(whole, top), Types', CheckpointLands
    PROVE  Keeps
<1>1. Rules /\ Types /\ Ghost(whole, top)
    BY DEF Before
<1> DEFINE later == checkpoint.taken
<1>2. /\ checkpoint.phase = "put" /\ checkpoint'.phase = "landed"
      /\ checkpoint'.taken = later /\ later \in Snapshot /\ snapshot' = later
    BY <1>1, CheckpointFields DEF CheckpointLands
<1>3. ~Landed /\ \A r \in Restore : InPlace(r)'
    BY <1>1, <1>2, BusyPlaces DEF CheckpointLands
<1>4. Blocking'
    BY <1>1, SameRules DEF CheckpointLands
<1>5. current # 0 /\ checkpointed < later.revision /\ Begins(later, rooms[current])
      /\ Begins(snapshot, later)
    BY <1>1, <1>2 DEF Rules, Checks
<1>6. Counts' /\ Checks'
    BY <1>1, <1>2, <1>5, CheckpointFields DEF CheckpointLands, Rules, Counts, Checks
<1>7. whole = rooms[current] /\ Begins(later, whole)
    BY <1>3, <1>5, TheWhole
<1>8. later.revision <= top[0] /\ top[0] \in Nat /\ top[0] <= whole.revision
      /\ whole \in Snapshot
    BY <1>1, <1>2, DurableIs DEF Ghost, PutDurable
<1> HIDE DEF later
<1>9. Holds(storage, unflushed, top, later, whole)
    BY <1>1, <1>2, <1>5, <1>7, <1>8, HoldsLater
       DEF Ghost, Types, StoreTypes, KeptTypes
<1>10. Fresh(whole)'
    BY <1>1 DEF CheckpointLands, Ghost, Fresh
<1>11. Shown(whole)' /\ PutDurable(top)'
    BY <1>2, <1>3, <1>7, SameLanded DEF CheckpointLands, Shown, PutDurable
<1>12. Ghost(whole, top)'
    BY <1>2, <1>8, <1>9, <1>10, <1>11 DEF CheckpointLands, Ghost
<1>13. Durable' = Durable
    <2>1. Durable = Upto(whole, top[0])
        BY <1>1, DurableIs
    <2>2. Loaded(later, storage) = Upto(whole, top[0])
        BY <1>1, <1>2, <1>8, <1>9, HoldsNow DEF Types, StoreTypes
    <2>3. QED
        BY <1>2, <2>1, <2>2 DEF CheckpointLands, Durable
<1>14. QED
    BY <1>3, <1>4, <1>6, <1>12, <1>13 DEF Keeps, Rules

LEMMA CheckpointWrittenKeeps ==
    ASSUME NEW whole, NEW top, Before(whole, top), Types', CheckpointWritten
    PROVE  Keeps
<1> DEFINE w == [type |-> "trim", upTo |-> checkpoint.taken.revision - KeepLog]
<1>1. Rules /\ Types /\ Ghost(whole, top)
    BY DEF Before
<1>2. /\ checkpoint.phase = "landed" /\ checkpoint'.phase = "report"
      /\ checkpoint.taken.revision \in Nat /\ checkpointed' = checkpoint.taken.revision
    BY <1>1, CheckpointFields DEF CheckpointWritten
<1>3. ~Landed /\ \A r \in Restore : InPlace(r)'
    BY <1>1, <1>2, BusyPlaces DEF CheckpointWritten
<1>4. Blocking'
    BY <1>1, SameRules DEF CheckpointWritten
<1>5. snapshot = checkpoint.taken
    BY <1>1, <1>2 DEF Rules, Checks
<1>6. Counts' /\ Checks'
    BY <1>1, <1>2, <1>5 DEF CheckpointWritten, Rules, Counts, Checks
<1>7. Shown(whole)'
    BY <1>1, SameShown, SameLanded DEF CheckpointWritten
<1>8. w \in Write /\ w.type = "trim" /\ w.upTo <= snapshot.revision
    BY <1>2, <1>5, Constants, TrimWrite
<1>9. unflushed' = Append(unflushed, w)
    BY DEF CheckpointWritten
<1> HIDE DEF w
<1>10. (\E new : Ghost(whole, new)') /\ Durable' = Durable
    BY <1>1, <1>2, <1>7, <1>8, <1>9, QuietGhost DEF CheckpointWritten
<1>11. QED
    BY <1>3, <1>4, <1>6, <1>10 DEF Keeps, Rules

(* The alarm that sees to another checkpoint.                              *)
LEMMA ScheduledGhost ==
    ASSUME Types, Types', NEW whole, NEW top, Ghost(whole, top),
           \/ unflushed' = unflushed
           \/ unflushed' = unflushed \o Scheduled,
           snapshot' = snapshot, storage' = storage, used'.edit = used.edit,
           Shown(whole)', checkpoint'.phase = "put" => checkpoint' = checkpoint
    PROVE  (\E new : Ghost(whole, new)') /\ Durable' = Durable
<1>1. unflushed \in Seq(Write)
    BY DEF Types, StoreTypes
<1>2. unflushed' = unflushed \/ unflushed' = Append(unflushed, [type |-> "alarm"])
    <2>1. CASE unflushed' = unflushed
        BY <2>1
    <2>2. CASE unflushed' = unflushed \o Scheduled /\ Scheduled = <<>>
        BY <1>1, <2>2, ConcatEmptySeq
    <2>3. CASE unflushed' = unflushed \o Scheduled /\ Scheduled = <<[type |-> "alarm"]>>
        BY <1>1, <2>3, AlarmWrite, AppendIsConcat
    <2>4. QED
        BY <2>1, <2>2, <2>3 DEF Scheduled
<1>3. CASE unflushed' = unflushed
    <2>1. PutDurable(top)'
        BY DEF Ghost, PutDurable
    <2>2. QED
        BY <1>3, <2>1, SameGhost
<1>4. CASE unflushed' = Append(unflushed, [type |-> "alarm"])
    BY <1>4, AlarmWrite, QuietGhost
<1>5. QED
    BY <1>2, <1>3, <1>4

LEMMA CheckpointReportedKeeps ==
    ASSUME NEW whole, NEW top, Before(whole, top), Types', CheckpointReported
    PROVE  Keeps
<1>1. Rules /\ Types /\ Ghost(whole, top)
    BY DEF Before
<1>2. checkpoint'.phase = "idle" /\ checkpoint.phase = "report"
    BY NoCheckpointIs DEF CheckpointReported
<1>3. ASSUME NEW r \in Restore
      PROVE  \/ restore'[r] = restore[r] /\ restore[r].phase # "awaiting"
             \/ /\ restore[r].phase = "awaiting" /\ restore'[r].phase = "saving"
                /\ restore'[r].room = restore[r].room
    <2>1. restore'[r] = IF restore[r].phase = "awaiting"
                        THEN [restore[r] EXCEPT !.phase = "saving"] ELSE restore[r]
        BY DEF CheckpointReported, Rechecking
    <2>2. restore[r] \in Restoration /\ "saving" \in RestorePhase
        BY <1>1 DEF Types, RestoreTypes, RestorePhase
    <2>3. QED
        BY <2>1, <2>2, RestorationFields
<1>4. Landed' <=> Landed
    BY <1>3 DEF Landed
<1>5. \A r \in Restore : InPlace(r)'
    BY <1>1, <1>2, <1>3 DEF CheckpointReported, Rules, InPlace, RestoredDocument
<1>6. Blocking'
    BY <1>1, <1>3 DEF CheckpointReported, Rules, Blocking
<1>7. Counts'
    BY <1>1, SameRules DEF CheckpointReported
<1>8. Checks'
    BY <1>2 DEF Checks
<1>9. Shown(whole)'
    BY <1>1, <1>4, SameShown DEF CheckpointReported
<1>10. (\E new : Ghost(whole, new)') /\ Durable' = Durable
    BY <1>1, <1>2, <1>9, ScheduledGhost DEF CheckpointReported
<1>11. QED
    BY <1>5, <1>6, <1>7, <1>8, <1>10 DEF Keeps, Rules

LEMMA CheckpointFailsKeeps ==
    ASSUME ~AmbiguousPuts, NEW whole, NEW top, Before(whole, top), Types', CheckpointFails
    PROVE  Keeps
<1> DEFINE failed == {r \in Restore : restore[r].phase = "awaiting"}
<1>1. Rules /\ Types /\ OneAtATime /\ Ghost(whole, top)
    BY DEF Before
<1>2. checkpoint.phase = "put" /\ checkpoint'.phase = "idle"
    BY NoCheckpointIs DEF CheckpointFails
<1>3. ~Landed
    BY <1>1, <1>2, BusyPlaces
<1>4. Blocking' /\ (\A r \in Restore : InPlace(r)') /\ ~Landed'
    <2>1. CASE failed = {}
        <3>1. UNCHANGED <<restore, restoring>>
            BY <2>1 DEF CheckpointFails
        <3>2. QED
            BY <1>1, <1>2, <1>3, <3>1, BusyPlaces, SameRules, SameLanded
               DEF CheckpointFails
    <2>2. CASE failed # {}
        <3>1. End(failed, current) /\ current' = current
            BY <2>2 DEF CheckpointFails
        <3>2. failed \in SUBSET Restore /\ \A r \in failed : Active(r)
            BY DEF Active
        <3> HIDE DEF failed
        <3>3. QED
            BY <1>1, <2>2, <3>1, <3>2, EndRules
    <2>3. QED
        BY <2>1, <2>2
<1>5. Counts'
    BY <1>1, SameRules DEF CheckpointFails
<1>6. Checks'
    BY <1>2 DEF Checks
<1>7. Shown(whole)' /\ PutDurable(top)'
    BY <1>1, <1>2, <1>3, <1>4, SameShown DEF CheckpointFails, PutDurable
<1>8. storage'.log = storage.log /\ storage'.floor = storage.floor
    BY <1>1 DEF CheckpointFails, Types, StoreTypes, StoreOK, Storage
<1>9. used'.edit = used.edit
    BY <1>1, Events DEF CheckpointFails, Spend, Types, UsedTypes
<1>10. Ghost(whole, top)' /\ Durable' = Durable
    BY <1>1, <1>7, <1>8, <1>9, SameGhost DEF CheckpointFails
<1>11. QED
    BY <1>4, <1>5, <1>6, <1>10 DEF Keeps, Rules

-----------------------------------------------------------------------------
(* The room is loaded; an edit is committed.                               *)

LEMMA NoEditIsRestore == \A e \in Edit : e \notin Restore
BY DocRoomAssumption DEF Edit

LEMMA LoadLogKeeps ==
    ASSUME NEW whole, NEW top, Before(whole, top), Types', LoadLog
    PROVE  Keeps
<1> DEFINE loaders == {r \in Restore : restore[r].phase = "loading"}
<1>1. Rules /\ Types /\ OneAtATime /\ Ghost(whole, top) /\ current = 0
      /\ loading[1] = snapshot /\ checkpoint.phase = "idle"
    BY DEF Before, Rules, Counts, LoadLog, NothingLeftBehind
<1>2. NoGap(snapshot, View) /\ Loaded(snapshot, View) = whole
    BY <1>1, HoldsView DEF Ghost, Types, StoreTypes, KeptTypes
<1>3. /\ rooms' = Append(rooms, whole) /\ current' = Len(rooms')
      /\ checkpointed' = snapshot.revision
      /\ restore' = [r \in Restore |->
                        IF r \in loaders THEN Begun(r, current') ELSE restore[r]]
      /\ restoring' = restoring
    BY <1>1, <1>2 DEF LoadLog
<1>4. rooms \in Seq(Snapshot) /\ whole \in Snapshot /\ restore \in [Restore -> Restoration]
    BY <1>1 DEF Types, RoomTypes, RestoreTypes, Ghost
<1>5. Len(rooms') = Len(rooms) + 1 /\ rooms'[Len(rooms) + 1] = whole /\ Len(rooms) \in Nat
    BY <1>3, <1>4, AppendProperties
<1>6. current' \in Nat /\ current' # 0 /\ rooms'[current'] = whole
    BY <1>3, <1>5
<1>7. ASSUME NEW r \in Restore
      PROVE  \/ /\ restore[r].phase = "loading"
                /\ restore'[r].phase = "saving" /\ restore'[r].room = current'
             \/ restore[r].phase # "loading" /\ restore'[r] = restore[r]
    <2>1. restore'[r] = IF r \in loaders THEN Begun(r, current') ELSE restore[r]
        BY <1>3
    <2>2. CASE restore[r].phase = "loading"
        <3>1. restore'[r] = Begun(r, current')
            BY <2>1, <2>2
        <3>2. Begun(r, current').room = current' /\ Begun(r, current').phase = "saving"
            BY <1>4, <1>6, BegunTypes
        <3>3. QED
            BY <2>2, <3>1, <3>2
    <2>3. CASE restore[r].phase # "loading"
        BY <2>1, <2>3
    <2>4. QED
        BY <2>2, <2>3
<1>8. \A r \in Restore : restore[r].phase
                            \notin {"saving", "awaiting", "version", "put", "landed"}
    BY <1>1 DEF Rules, InPlace
<1>9. \A r \in Restore : InPlace(r)'
    <2> SUFFICES ASSUME NEW r \in Restore PROVE InPlace(r)'
        OBVIOUS
    <2>1. CASE restore'[r].phase = "saving" /\ restore'[r].room = current'
        BY <1>6, <2>1 DEF InPlace
    <2>2. CASE restore[r].phase # "loading" /\ restore'[r] = restore[r]
        BY <1>8, <2>2 DEF InPlace
    <2>3. QED
        BY <1>7, <2>1, <2>2
<1>10. Blocking'
    BY <1>1, <1>3, <1>7 DEF Rules, Blocking
<1>11. Counts' /\ Checks'
    <2>1. snapshot.revision \in Nat /\ snapshot' = snapshot /\ loading' = <<>>
          /\ checkpoint' = checkpoint
        BY <1>1, SnapshotIs DEF LoadLog, Types, KeptTypes
    <2>2. Counts'
        BY <1>3, <2>1 DEF Counts
    <2>3. Checks'
        BY <1>1, <2>1 DEF Checks
    <2>4. QED
        BY <2>2, <2>3
<1>12. ~Landed'
    BY <1>7, <1>8 DEF Landed
<1>13. Shown(whole)' /\ PutDurable(top)'
    BY <1>1, <1>6, <1>12 DEF LoadLog, Shown, PutDurable
<1>14. Ghost(whole, top)' /\ Durable' = Durable
    BY <1>1, <1>13, SameGhost DEF LoadLog
<1>15. QED
    BY <1>9, <1>10, <1>11, <1>14 DEF Keeps, Rules

LEMMA HoldsAlarm ==
    ASSUME NEW st, StoreOK(st), NEW ws \in Seq(Write), NEW top, NEW from \in Snapshot,
           NEW whole \in Snapshot, Holds(st, ws, top, from, whole)
    PROVE  \E new : /\ Holds(st, Append(ws, [type |-> "alarm"]), new, from, whole)
                    /\ new[0] = top[0]
<1> DEFINE w == [type |-> "alarm"]
<1>1. w \in Write /\ w.type = "alarm"
    BY AlarmWrite
<1> HIDE DEF w
<1>2. \E new : Holds(st, Append(ws, w), new, from, whole) /\ new[0] = top[0]
    <2>1. Adds(w, whole.revision, whole.revision, from, whole)
        BY <1>1 DEF Adds
    <2>2. Begins(whole, whole)
        BY BeginsItself
    <2>3. QED
        BY <1>1, <2>1, <2>2, HoldsAppend
<1>3. QED
    BY <1>2 DEF w

LEMMA CommitEditKeeps ==
    ASSUME NEW whole, NEW top, Before(whole, top), Types', CommitEdit
    PROVE  Keeps
<1>1. Rules /\ Types /\ OneAtATime /\ Ghost(whole, top) /\ current # 0
      /\ restoring = NoRestore
    BY CommitEditIs DEF Before
<1>2. ~Landed /\ \A r \in Restore : restore[r].phase \in {"new", "done"}
    BY <1>1, NotLanded DEF Rules, Blocking
<1>3. whole = rooms[current] /\ whole \in Snapshot /\ Begins(snapshot, whole)
    BY <1>1, <1>2, TheWhole
<1>4. NextEdit \in Edit /\ EditedRoom \in Snapshot /\ Logged \in Write
      /\ EditedRoom.revision \in Nat
    BY <1>1, EditTypes, CommitEditIs
<1>5. /\ Begins(whole, EditedRoom) /\ At(EditedRoom, EditedRoom.revision) = NextEdit
      /\ Len(EditedRoom.doc) = Len(whole.doc) + 1
      /\ EditedRoom.revision = whole.revision + 1
      /\ EditedRoom.doc = Append(whole.doc, NextEdit)
    BY <1>3, <1>4, AppendBegins DEF EditedRoom
<1>6. /\ rooms' = [rooms EXCEPT ![current] = EditedRoom]
      /\ checkpoint' \in {checkpoint, Started(current, EditedRoom)}
      /\ current' = current /\ loading' = loading /\ checkpointed' = checkpointed
      /\ restoring' = restoring /\ storage' = storage /\ snapshot' = snapshot
      /\ restore' = restore /\ versions' = versions
    BY CommitEditIs DEF CommitEdit
<1>7. current \in 1 .. Len(rooms) /\ rooms \in Seq(Snapshot) /\ rooms'[current'] = EditedRoom
    <2>1. current \in 1 .. Len(rooms) /\ rooms \in Seq(Snapshot)
        BY <1>1, TheRoom DEF Types, RoomTypes
    <2>2. QED
        BY <1>6, <2>1, ExceptSeq
<1>8. Blocking' /\ Counts'
    BY <1>1, <1>6, SameRules
<1>9. \A r \in Restore : InPlace(r)'
    BY <1>2, <1>6 DEF InPlace
<1>10. Checks' /\ (checkpoint'.phase = "put" => checkpoint' = checkpoint)
    <2>1. CASE checkpoint' = checkpoint
        <3>1. checkpoint.phase \in {"sync", "put", "landed"} =>
                  Begins(checkpoint.taken, EditedRoom)
            BY <1>1, <1>3, <1>4, <1>5, CheckpointFields, BeginsBegins DEF Rules, Checks
        <3>2. QED
            BY <1>1, <1>6, <1>7, <2>1, <3>1 DEF Rules, Checks
    <2>2. CASE checkpoint' # checkpoint
        <3>1. /\ checkpoint.phase = "idle" /\ ~(EditedRoom.revision <= checkpointed)
              /\ checkpoint' = [phase |-> "sync", room |-> current, taken |-> EditedRoom]
            BY <1>6, <2>2 DEF Started
        <3>2. checkpointed < EditedRoom.revision
            BY <1>1, <1>4, <3>1, CheckpointFields
        <3>3. Begins(snapshot, EditedRoom) /\ Begins(EditedRoom, EditedRoom)
            BY <1>1, <1>3, <1>4, <1>5, BeginsBegins, BeginsItself DEF Types, KeptTypes
        <3>4. QED
            BY <1>1, <1>6, <1>7, <3>1, <3>2, <3>3 DEF Checks
    <2>3. QED
        BY <2>1, <2>2
<1>11. PICK t1 : /\ Holds(storage, Append(unflushed, Logged), t1, snapshot, EditedRoom)
                 /\ t1[0] = top[0]
    <2>1. Adds(Logged, whole.revision, EditedRoom.revision, snapshot, EditedRoom)
        BY <1>5 DEF Adds, Logged
    <2>2. QED
        BY <1>1, <1>3, <1>4, <1>5, <2>1, HoldsAppend
           DEF Ghost, Types, StoreTypes, KeptTypes
<1>12. PICK t2 : Holds(storage', unflushed', t2, snapshot', EditedRoom) /\ t2[0] = top[0]
    <2>1. Append(unflushed, Logged) \in Seq(Write)
        BY <1>1, <1>4, AppendProperties DEF Types, StoreTypes
    <2>2. \/ unflushed' = Append(unflushed, Logged)
          \/ unflushed' = Append(Append(unflushed, Logged), [type |-> "alarm"])
        <3>1. CASE unflushed' = Append(unflushed, Logged) \o <<>>
            BY <2>1, <3>1, ConcatEmptySeq
        <3>2. CASE unflushed' = Append(unflushed, Logged) \o <<[type |-> "alarm"]>>
            BY <2>1, <3>2, AlarmWrite, AppendIsConcat
        <3>3. QED
            BY <3>1, <3>2, CommitEditIs DEF Scheduled
    <2>3. CASE unflushed' = Append(unflushed, Logged)
        BY <1>6, <1>11, <2>3
    <2>4. CASE unflushed' = Append(Append(unflushed, Logged), [type |-> "alarm"])
        <3>1. PICK ws, more : ws = Append(unflushed, Logged) /\ more = EditedRoom
            OBVIOUS
        <3>2. Holds(storage, ws, t1, snapshot, more) /\ ws \in Seq(Write)
            BY <1>11, <2>1, <3>1
        <3>3. StoreOK(storage) /\ snapshot \in Snapshot /\ more \in Snapshot
            BY <1>1, <1>4, <3>1 DEF Types, StoreTypes, KeptTypes
        <3>4. PICK t2 : /\ Holds(storage, Append(ws, [type |-> "alarm"]), t2, snapshot, more)
                        /\ t2[0] = t1[0]
            BY <3>2, <3>3, HoldsAlarm
        <3>5. QED
            BY <1>6, <1>11, <2>4, <3>1, <3>4
    <2>5. QED
        BY <2>2, <2>3, <2>4
<1>13. used'.edit = NextEdit /\ used.edit \in Nat
    BY <1>1, CommitEditIs, Events DEF Spend, NextEdit, Types, UsedTypes
<1>14. PICK more : more = EditedRoom
    OBVIOUS
<1>15. Fresh(more)'
    <2> DEFINE n == Len(whole.doc)
    <2>1. /\ n \in Nat /\ EditedRoom.doc[n + 1] = NextEdit /\ Len(EditedRoom.doc) = n + 1
          /\ \A i \in 1 .. n : EditedRoom.doc[i] = whole.doc[i]
        <3>1. whole.doc \in Seq(Edit \cup Restore) /\ n \in Nat
            BY <1>3, SnapshotIs
        <3>2. QED
            BY <1>4, <1>5, <3>1, AppendProperties
    <2>2. /\ \A i, j \in 1 .. n : whole.doc[i] = whole.doc[j] => i = j
          /\ \A i \in 1 .. n : \/ whole.doc[i] \in Restore
                               \/ whole.doc[i] \in Edit /\ whole.doc[i] <= used.edit
        BY <1>1 DEF Ghost, Fresh
    <2> HIDE DEF n
    <2>3. \A i \in 1 .. n : whole.doc[i] # NextEdit
        <3> SUFFICES ASSUME NEW i \in 1 .. n, whole.doc[i] = NextEdit PROVE FALSE
            OBVIOUS
        <3>1. whole.doc[i] \notin Restore
            BY <1>4, NoEditIsRestore
        <3>2. NextEdit <= used.edit
            BY <2>2, <3>1
        <3>3. QED
            BY <1>13, <3>2 DEF NextEdit
    <2>4. \A i \in 1 .. (n + 1) : i \in 1 .. n \/ i = n + 1
        BY <2>1
    <2>5. \A i, j \in 1 .. (n + 1) : EditedRoom.doc[i] = EditedRoom.doc[j] => i = j
        BY <2>1, <2>2, <2>3, <2>4
    <2>6. ASSUME NEW i \in 1 .. (n + 1)
          PROVE  \/ EditedRoom.doc[i] \in Restore
                 \/ EditedRoom.doc[i] \in Edit /\ EditedRoom.doc[i] <= used'.edit
        <3>1. CASE i = n + 1
            BY <1>4, <1>13, <2>1, <3>1 DEF NextEdit
        <3>2. CASE i \in 1 .. n
            BY <1>13, <2>1, <2>2, <3>2, Constants, SMTT(60) DEF NextEdit, Edit
        <3>3. QED
            BY <2>4, <3>1, <3>2
    <2>7. QED
        BY <1>14, <2>1, <2>5, <2>6 DEF Fresh
<1>16. Landed' <=> Landed
    BY <1>6, SameLanded
<1>17. Shown(more)' /\ PutDurable(t2)'
    BY <1>1, <1>2, <1>7, <1>10, <1>12, <1>14, <1>16 DEF Shown, PutDurable, Ghost
<1>18. Ghost(more, t2)'
    BY <1>4, <1>12, <1>14, <1>15, <1>17 DEF Ghost
<1>19. Durable' = Durable
    BY <1>6 DEF Durable
<1>20. QED
    BY <1>8, <1>9, <1>10, <1>18, <1>19 DEF Keeps, Rules

-----------------------------------------------------------------------------
(* Restores, up to the version that is taken.                              *)

LEMMA RestorationIs ==
    ASSUME Types, NEW r \in Restore
    PROVE  /\ restore[r] \in Restoration
           /\ restore[r].taken \in Snapshot /\ restore[r].taken.revision \in Nat
           /\ restore[r].floorBefore \in Nat /\ restore[r].room \in Nat
BY RestorationFields DEF Types, RestoreTypes

LEMMA MovedIs ==
    ASSUME Types, NEW r \in Restore, NEW p \in RestorePhase
    PROVE  /\ Moved(r, p)[r].phase = p /\ Moved(r, p)[r].room = restore[r].room
           /\ Moved(r, p)[r].taken = restore[r].taken
           /\ Moved(r, p)[r].floorBefore = restore[r].floorBefore
           /\ \A s \in Restore : s # r => Moved(r, p)[s] = restore[s]
BY DEF Types, RestoreTypes, Restoration, Moved

(* While one restore goes on, the others do not, and none begins.          *)
LEMMA OthersQuiet ==
    ASSUME Rules, OneAtATime, NEW r \in Restore, Active(r)
    PROVE  /\ \A s \in Restore : s # r => /\ restore[s].phase \in {"new", "waiting", "done"}
                                          /\ restore'[s] = restore[s] => InPlace(s)'
           /\ restoring # NoRestore
           /\ restoring' = restoring => Blocking'
           /\ restore[r].phase # "landed" => ~Landed
<1>1. \A s \in Restore : s # r => restore[s].phase \in {"new", "waiting", "done"}
    BY DEF OneAtATime, Active
<1>2. \A s \in Restore : s # r /\ restore'[s] = restore[s] => InPlace(s)'
    BY <1>1 DEF InPlace
<1>3. restoring # NoRestore
    BY DEF Rules, Blocking, Active
<1>4. restoring' = restoring => Blocking'
    BY <1>3 DEF Blocking
<1>5. QED
    BY <1>1, <1>2, <1>3, <1>4, NotLanded

(* A restore that moves on to where it has not landed.                     *)
LEMMA MovesOn ==
    ASSUME Rules, OneAtATime, NEW r \in Restore, Active(r),
           restore[r].phase # "landed", restore'[r].phase # "landed",
           \A s \in Restore : s # r => restore'[s] = restore[s]
    PROVE  ~Landed /\ ~Landed'
<1>1. \A s \in Restore : restore'[s].phase # "landed"
    BY OthersQuiet DEF Landed
<1>2. QED
    BY <1>1, OthersQuiet DEF Landed

LEMMA RequestRestoreKeeps ==
    ASSUME NEW whole, NEW top, Before(whole, top), Types',
           NEW r \in Restore, RequestRestore(r)
    PROVE  Keeps
<1>1. Rules /\ Types /\ Ghost(whole, top) /\ current \in Nat
      /\ restore \in [Restore -> Restoration]
    BY DEF Before, Types, RoomTypes, RestoreTypes
<1>2. Counts' /\ Checks'
    BY <1>1, SameRules DEF RequestRestore
<1>3. \A s \in Restore : s # r => restore'[s] = restore[s]
    BY <1>1 DEF RequestRestore, Moved
<1>4. \/ /\ restoring' = r /\ restore'[r].room = current
         /\ restore'[r].phase = IF current = 0 THEN "loading" ELSE "saving"
      \/ restoring # NoRestore /\ restoring' = restoring /\ restore'[r].phase = "waiting"
    <2>1. CASE restoring = NoRestore
        <3>1. restore'[r] = Begun(r, current) /\ restoring' = r
            BY <1>1, <2>1 DEF RequestRestore
        <3>2. QED
            BY <1>1, <3>1, BegunTypes
    <2>2. CASE restoring # NoRestore
        <3>1. "waiting" \in RestorePhase
            BY DEF RestorePhase
        <3>2. QED
            BY <1>1, <2>2, <3>1, MovedIs DEF RequestRestore
    <2>3. QED
        BY <2>1, <2>2
<1>5. Blocking'
    BY <1>4, Constants DEF Blocking
<1>6. InPlace(r)'
    BY <1>4 DEF RequestRestore, InPlace
<1>7. \A s \in Restore : InPlace(s)'
    <2> SUFFICES ASSUME NEW s \in Restore PROVE InPlace(s)'
        OBVIOUS
    <2>1. CASE s # r
        BY <1>1, <1>3, <2>1, SameRules DEF RequestRestore
    <2>2. QED
        BY <1>6, <2>1
<1>8. Landed' <=> Landed
    BY <1>3, <1>4 DEF RequestRestore, Landed
<1>9. Shown(whole)' /\ PutDurable(top)'
    BY <1>1, <1>8, SameShown DEF RequestRestore, Ghost, PutDurable
<1>10. Ghost(whole, top)' /\ Durable' = Durable
    BY <1>1, <1>9, SameGhost DEF RequestRestore
<1>11. QED
    BY <1>2, <1>5, <1>7, <1>10 DEF Keeps, Rules

LEMMA CheckpointForRestoreKeeps ==
    ASSUME NEW whole, NEW top, Before(whole, top), Types',
           NEW r \in Restore, CheckpointForRestore(r)
    PROVE  Keeps
<1>1. Rules /\ Types /\ OneAtATime /\ Ghost(whole, top) /\ Active(r)
    BY DEF Before, CheckpointForRestore, Active
<1>2. "awaiting" \in RestorePhase
    BY DEF RestorePhase
<1>3. /\ restore'[r].phase = "awaiting" /\ restore'[r].room = restore[r].room
      /\ \A s \in Restore : s # r => restore'[s] = restore[s]
    BY <1>1, <1>2, MovedIs DEF CheckpointForRestore
<1>4. Counts' /\ Checks' /\ (checkpoint'.phase = "put" => checkpoint' = checkpoint)
    BY StartedRules DEF CheckpointForRestore
<1>5. InPlace(r)'
    BY <1>1, <1>3 DEF CheckpointForRestore, Rules, InPlace
<1>6. \A s \in Restore : InPlace(s)'
    BY <1>1, <1>3, <1>5, OthersQuiet
<1>7. Blocking'
    BY <1>1, OthersQuiet DEF CheckpointForRestore
<1>8. ~Landed /\ ~Landed'
    BY <1>1, <1>3, MovesOn DEF CheckpointForRestore
<1>9. Shown(whole)' /\ PutDurable(top)'
    BY <1>1, <1>4, <1>8, SameShown DEF CheckpointForRestore, Ghost, PutDurable
<1>10. Ghost(whole, top)' /\ Durable' = Durable
    BY <1>1, <1>9, SameGhost DEF CheckpointForRestore
<1>11. QED
    BY <1>4, <1>6, <1>7, <1>10 DEF Keeps, Rules

LEMMA CaptureVersionKeeps ==
    ASSUME NEW whole, NEW top, Before(whole, top), Types',
           NEW r \in Restore, CaptureVersion(r)
    PROVE  Keeps
<1>1. Rules /\ Types /\ OneAtATime /\ Ghost(whole, top) /\ Active(r)
    BY DEF Before, CaptureVersion, Active
<1>2. current # 0 /\ restore[r].room = current
    BY <1>1 DEF CaptureVersion, Rules, InPlace
<1>3. /\ restore'[r].phase = "version" /\ restore'[r].room = restore[r].room
      /\ restore'[r].taken = rooms[current]
      /\ \A s \in Restore : s # r => restore'[s] = restore[s]
    <2>1. restore \in [Restore -> Restoration]
        BY <1>1 DEF Types, RestoreTypes
    <2>2. restore' = [restore EXCEPT ![r] = [restore[r] EXCEPT !.phase = "version",
                                                             !.taken = rooms[current]]]
        BY <1>2, <2>1 DEF CaptureVersion, Moved
    <2>3. QED
        BY <2>1, <2>2 DEF Restoration
<1>4. ~Landed /\ ~Landed'
    BY <1>1, <1>3, MovesOn DEF CaptureVersion
<1>5. rooms[current] \in Snapshot /\ Begins(snapshot, rooms[current])
    BY <1>2, <1>4, TheWhole
<1>6. /\ rooms[current].revision <= checkpointed /\ checkpointed <= snapshot.revision
      /\ snapshot.revision <= rooms[current].revision
      /\ snapshot \in Snapshot /\ checkpointed \in Nat
    BY <1>1, <1>2, <1>5 DEF CaptureVersion, Rules, Counts, Begins, Types, KeptTypes, CheckTypes
<1>7. snapshot = rooms[current] /\ checkpointed = rooms[current].revision
    <2>1. rooms[current].revision <= snapshot.revision
          /\ checkpointed = rooms[current].revision
        BY <1>5, <1>6, SnapshotIs
    <2>2. QED
        BY <1>5, <1>6, <2>1, BeginsEqual
<1>8. checkpoint.phase \in {"idle", "report"}
    <2>1. checkpoint.phase \in {"idle", "sync", "put", "landed", "report"}
        BY <1>1 DEF Types, CheckTypes, Checkpoint
    <2>2. ASSUME checkpoint.phase \in {"sync", "put", "landed"} PROVE FALSE
        <3>1. /\ checkpointed < checkpoint.taken.revision
              /\ checkpoint.taken.revision <= rooms[current].revision
            BY <1>1, <2>2 DEF Rules, Checks, Begins
        <3>2. checkpoint.taken.revision \in Nat
            BY <1>1, CheckpointFields
        <3>3. QED
            BY <1>6, <1>7, <3>1, <3>2
    <2>3. QED
        BY <2>1, <2>2
<1>9. InPlace(r)'
    BY <1>2, <1>3, <1>7, <1>8 DEF CaptureVersion, InPlace
<1>10. \A s \in Restore : InPlace(s)'
    BY <1>1, <1>3, <1>9, OthersQuiet
<1>11. Blocking' /\ Counts' /\ Checks'
    BY <1>1, OthersQuiet, SameRules DEF CaptureVersion
<1>12. Shown(whole)' /\ PutDurable(top)'
    BY <1>1, <1>4, SameShown DEF CaptureVersion, Ghost, PutDurable
<1>13. Ghost(whole, top)' /\ Durable' = Durable
    BY <1>1, <1>12, SameGhost DEF CaptureVersion
<1>14. QED
    BY <1>10, <1>11, <1>13 DEF Keeps, Rules

-----------------------------------------------------------------------------
(* Restores, from the version on.                                          *)

LEMMA UptoAll ==
    ASSUME NEW d \in Snapshot
    PROVE  Upto(d, d.revision) = d
<1>1. d.revision \in Nat /\ Begins(d, d)
    BY SnapshotIs, BeginsItself
<1>2. /\ Upto(d, d.revision) \in Snapshot /\ Upto(d, d.revision).revision = d.revision
      /\ Begins(Upto(d, d.revision), d)
    BY <1>1, UptoIs
<1>3. QED
    BY <1>1, <1>2, BeginsEqual

(* When everything is durable, what a restart would load is all there is.  *)
LEMMA DurableWhole ==
    ASSUME Types, NEW whole, NEW top, Ghost(whole, top), Flushed
    PROVE  Durable = whole /\ top[0] = whole.revision
<1>1. Len(unflushed) = 0
    BY DEF Flushed
<1>2. top[0] = whole.revision
    BY <1>1 DEF Ghost, Holds
<1>3. /\ Durable = Upto(whole, whole.revision) /\ Begins(snapshot, whole)
      /\ snapshot.revision <= whole.revision /\ whole \in Snapshot /\ snapshot \in Snapshot
    BY <1>2, DurableIs
<1>4. Upto(whole, whole.revision) = whole
    BY <1>3, UptoAll
<1>5. QED
    BY <1>2, <1>3, <1>4

LEMMA VersionSavedKeeps ==
    ASSUME NEW whole, NEW top, Before(whole, top), Types',
           NEW r \in Restore, VersionSaved(r)
    PROVE  Keeps /\ versions' = versions \cup {Durable.doc}
<1> DEFINE w == [type |-> "floor", floor |-> restore[r].taken.revision + 1]
<1>1. Rules /\ Types /\ OneAtATime /\ Ghost(whole, top) /\ Active(r)
    BY DEF Before, VersionSaved, Active
<1>2. /\ current # 0 /\ restore[r].room = current /\ restore[r].taken = rooms[current]
      /\ checkpointed = restore[r].taken.revision /\ checkpoint.phase \in {"idle", "report"}
      /\ snapshot = restore[r].taken
    BY <1>1 DEF VersionSaved, Rules, InPlace
<1>3. /\ restore'[r].phase = "put" /\ restore'[r].room = restore[r].room
      /\ restore'[r].taken = restore[r].taken /\ restore'[r].floorBefore = View.floor
      /\ \A s \in Restore : s # r => restore'[s] = restore[s]
    <2>1. restore \in [Restore -> Restoration]
        BY <1>1 DEF Types, RestoreTypes
    <2>2. restore' = [restore EXCEPT ![r] = [restore[r] EXCEPT !.phase = "put",
                                                             !.floorBefore = View.floor]]
        BY <2>1 DEF VersionSaved, Moved
    <2>3. QED
        BY <2>1, <2>2 DEF Restoration
<1>4. ~Landed /\ ~Landed'
    BY <1>1, <1>3, MovesOn DEF VersionSaved
<1>5. View.floor <= snapshot.revision + 1
    BY <1>1, HoldsView DEF Ghost, Types, StoreTypes, KeptTypes
<1>6. InPlace(r)'
    BY <1>2, <1>3, <1>5 DEF VersionSaved, InPlace
<1>7. \A s \in Restore : InPlace(s)'
    BY <1>1, <1>3, <1>6, OthersQuiet
<1>8. Blocking' /\ Counts' /\ Checks'
    BY <1>1, OthersQuiet, SameRules DEF VersionSaved
<1>9. Shown(whole)'
    BY <1>1, <1>4, SameShown DEF VersionSaved
<1>10. w \in Write /\ w.type = "floor" /\ w.floor <= snapshot.revision + 1
    BY <1>1, <1>2, RestorationIs, FloorWrite
<1>11. unflushed' = Append(unflushed, w)
    BY DEF VersionSaved
<1> HIDE DEF w
<1>12. (\E new : Ghost(whole, new)') /\ Durable' = Durable
    BY <1>1, <1>9, <1>10, <1>11, QuietGhost DEF VersionSaved
<1>13. Durable.doc = restore[r].taken.doc
    <2>1. Durable = whole
        BY <1>1, DurableWhole DEF VersionSaved
    <2>2. whole = rooms[current]
        BY <1>2, <1>4, TheWhole
    <2>3. QED
        BY <1>2, <2>1, <2>2
<1>14. QED
    BY <1>7, <1>8, <1>12, <1>13 DEF Keeps, Rules, VersionSaved

LEMMA RestoredIs ==
    ASSUME Types, NEW r \in Restore
    PROVE  /\ RestoredDocument(r) \in Snapshot
           /\ RestoredDocument(r).revision = restore[r].taken.revision + 1
           /\ RestoredDocument(r).doc = <<r>> /\ Len(RestoredDocument(r).doc) = 1
           /\ RestoredDocument(r).doc[1] = r
<1>1. RestoredDocument(r) \in Snapshot
    BY RestoredTypes
<1>2. QED
    BY <1>1 DEF RestoredDocument

LEMMA RestoreLandsKeeps ==
    ASSUME NEW whole, NEW top, Before(whole, top), Types',
           NEW r \in Restore, RestoreLands(r)
    PROVE  /\ Rules' /\ \E w2, t2 : Ghost(w2, t2)'
           /\ Durable.doc \in versions /\ Durable'.doc = <<r>>
<1>1. Rules /\ Types /\ OneAtATime /\ Ghost(whole, top) /\ Active(r)
    BY DEF Before, RestoreLands, Active
<1>2. /\ current # 0 /\ restore[r].room = current /\ restore[r].taken = rooms[current]
      /\ checkpointed = restore[r].taken.revision /\ checkpoint.phase \in {"idle", "report"}
      /\ snapshot = restore[r].taken /\ restore[r].taken.doc \in versions
    BY <1>1 DEF RestoreLands, Rules, InPlace
<1>3. PICK d : d = RestoredDocument(r)
    OBVIOUS
<1>4. /\ d \in Snapshot /\ d.revision = restore[r].taken.revision + 1 /\ d.doc = <<r>>
      /\ Len(d.doc) = 1 /\ d.doc[1] = r /\ snapshot' = d
      /\ restore[r].taken.revision \in Nat
    BY <1>1, <1>3, RestoredIs, RestorationIs DEF RestoreLands
<1>5. /\ restore'[r].phase = "landed" /\ restore'[r].room = restore[r].room
      /\ restore'[r].taken = restore[r].taken
      /\ \A s \in Restore : s # r => restore'[s] = restore[s]
    <2>1. "landed" \in RestorePhase
        BY DEF RestorePhase
    <2>2. QED
        BY <1>1, <2>1, MovedIs DEF RestoreLands
<1>6. ~Landed
    BY <1>1, OthersQuiet DEF RestoreLands
<1>7. whole = restore[r].taken
    BY <1>2, <1>6, TheWhole
<1>8. Durable = whole /\ top[0] = whole.revision
    BY <1>1, DurableWhole DEF RestoreLands
<1>9. InPlace(r)'
    <2>1. RestoredDocument(r)' = d
        BY <1>3, <1>5 DEF RestoredDocument
    <2>2. QED
        BY <1>2, <1>4, <1>5, <2>1 DEF RestoreLands, InPlace
<1>10. \A s \in Restore : InPlace(s)'
    BY <1>1, <1>5, <1>9, OthersQuiet
<1>11. Blocking'
    BY <1>1, OthersQuiet DEF RestoreLands
<1>12. Counts' /\ Checks'
    BY <1>1, <1>2, <1>4 DEF RestoreLands, Rules, Counts, Checks
<1>13. PICK new : Holds(storage, <<>>, new, d, d) /\ new[0] = d.revision
    <2>1. Shows(storage, whole.revision, snapshot, whole) /\ StoreOK(storage)
          /\ snapshot \in Snapshot
        BY <1>1, <1>8, DurableIs DEF Types, StoreTypes
    <2>2. (\A e \in storage.log : e.revision \in Nat /\ e.revision <= whole.revision)
          /\ storage.floor <= whole.revision + 1 /\ storage.floor \in Nat
        BY <1>2, <1>7, <2>1, ReplayedIs DEF Shows, StoreOK, Storage
    <2>3. d.revision = whole.revision + 1 /\ whole.revision \in Nat
        BY <1>4, <1>7
    <2>4. storage.floor <= d.revision + 1 /\ \A e \in storage.log : e.revision <= d.revision
        BY <2>2, <2>3
    <2>5. QED
        BY <1>4, <2>1, <2>4, HoldsAlone
<1>14. unflushed' = <<>> /\ storage' = storage
    BY DEF RestoreLands, Flushed
<1>15. Fresh(d)'
    BY <1>4 DEF Fresh
<1>16. Shown(d)' /\ PutDurable(new)'
    <2>1. Landed'
        BY <1>5 DEF Landed
    <2>2. QED
        BY <1>2, <1>4, <2>1 DEF RestoreLands, Shown, PutDurable
<1>17. Ghost(d, new)'
    BY <1>4, <1>13, <1>14, <1>15, <1>16 DEF Ghost
<1>18. Durable' = d
    <2>1. StoreOK(storage) /\ <<>> \in Seq(Write)
        BY <1>1, EmptySeq DEF Types, StoreTypes
    <2>2. d \in Snapshot /\ Holds(storage, <<>>, new, d, d) /\ new[0] = d.revision
        BY <1>4, <1>13
    <2>3. Loaded(d, storage) = Upto(d, new[0])
        BY <2>1, <2>2, HoldsNow
    <2>4. QED
        BY <1>4, <1>14, <2>2, <2>3, UptoAll DEF Durable
<1>19. QED
    BY <1>2, <1>4, <1>7, <1>8, <1>10, <1>11, <1>12, <1>17, <1>18 DEF Rules

LEMMA SwitchKeeps ==
    ASSUME NEW whole, NEW top, Before(whole, top), Types', NEW r \in Restore, Switch(r)
    PROVE  Keeps
<1> DEFINE w == [type |-> "trim", upTo |-> restore[r].taken.revision]
<1>1. Rules /\ Types /\ OneAtATime /\ Ghost(whole, top) /\ Active(r)
    BY DEF Before, Switch, Active
<1>2. /\ current # 0 /\ checkpoint.phase \in {"idle", "report"}
      /\ snapshot = RestoredDocument(r) /\ Landed
    BY <1>1 DEF Switch, Rules, InPlace, Landed
<1>3. whole = RestoredDocument(r) /\ whole \in Snapshot
      /\ whole.revision = restore[r].taken.revision + 1 /\ restore[r].taken.revision \in Nat
    BY <1>1, <1>2, RestoredIs, RestorationIs DEF Ghost, Shown
<1>4. restore'[r].phase = "record" /\ \A s \in Restore : s # r => restore'[s] = restore[s]
    <2>1. "record" \in RestorePhase
        BY DEF RestorePhase
    <2>2. QED
        BY <1>1, <2>1, MovedIs DEF Switch
<1>5. rooms'[current'] = whole
    <2>1. rooms \in Seq(Snapshot) /\ Len(rooms) \in Nat
        BY <1>1 DEF Types, RoomTypes
    <2>2. rooms' = Append(rooms, whole) /\ current' = Len(rooms')
        BY <1>3 DEF Switch
    <2>3. Len(rooms') = Len(rooms) + 1 /\ rooms'[Len(rooms) + 1] = whole
        BY <1>3, <2>1, <2>2, AppendProperties
    <2>4. QED
        BY <2>2, <2>3
<1>6. InPlace(r)'
    BY <1>4 DEF InPlace
<1>7. \A s \in Restore : InPlace(s)'
    BY <1>1, <1>4, <1>6, OthersQuiet
<1>8. Blocking'
    BY <1>1, OthersQuiet DEF Switch
<1>9. Counts' /\ Checks'
    BY <1>2, <1>3 DEF Switch, Counts, Checks
<1>10. ~Landed'
    BY <1>1, <1>4, OthersQuiet DEF Landed
<1>11. Shown(whole)'
    BY <1>5, <1>10 DEF Shown
<1>12. w \in Write /\ w.type = "trim" /\ w.upTo <= snapshot.revision
    BY <1>2, <1>3, TrimWrite
<1>13. unflushed' = Append(unflushed, w)
    BY DEF Switch
<1> HIDE DEF w
<1>14. (\E new : Ghost(whole, new)') /\ Durable' = Durable
    BY <1>1, <1>11, <1>12, <1>13, QuietGhost DEF Switch
<1>15. QED
    BY <1>7, <1>8, <1>9, <1>14 DEF Keeps, Rules

LEMMA RestoreDoneKeeps ==
    ASSUME NEW whole, NEW top, Before(whole, top), Types',
           NEW r \in Restore, RestoreDone(r)
    PROVE  Keeps
<1>1. Rules /\ Types /\ OneAtATime /\ Ghost(whole, top) /\ Active(r)
    BY DEF Before, RestoreDone, Active
<1>2. Blocking' /\ (\A s \in Restore : InPlace(s)') /\ ~Landed'
    BY <1>1, EndRules DEF RestoreDone
<1>3. ~Landed
    BY <1>1, OthersQuiet DEF RestoreDone
<1>4. Counts' /\ Checks'
    BY <1>1, SameRules DEF RestoreDone
<1>5. Shown(whole)' /\ PutDurable(top)'
    BY <1>1, <1>2, <1>3, SameShown DEF RestoreDone, Ghost, PutDurable
<1>6. Ghost(whole, top)' /\ Durable' = Durable
    BY <1>1, <1>5, SameGhost DEF RestoreDone
<1>7. QED
    BY <1>2, <1>4, <1>6 DEF Keeps, Rules

LEMMA RestoreFailsKeeps ==
    ASSUME ~AmbiguousPuts, NEW whole, NEW top, Before(whole, top), Types',
           NEW r \in Restore, RestoreFails(r)
    PROVE  Keeps
<1> DEFINE w == [type |-> "floor", floor |-> restore[r].floorBefore]
<1>1. Rules /\ Types /\ OneAtATime /\ Ghost(whole, top)
      /\ restore[r].phase \in {"saving", "version", "put"} /\ Active(r)
    BY DEF Before, RestoreFails, Active
<1>2. Blocking' /\ (\A s \in Restore : InPlace(s)') /\ ~Landed'
    BY <1>1, EndRules DEF RestoreFails
<1>3. ~Landed
    BY <1>1, OthersQuiet
<1>4. Counts' /\ Checks'
    BY <1>1, SameRules DEF RestoreFails
<1>5. Shown(whole)'
    BY <1>1, <1>2, <1>3, SameShown DEF RestoreFails
<1>6. used'.edit = used.edit
    BY <1>1, Events DEF RestoreFails, Spend, Types, UsedTypes
<1>7. (\E new : Ghost(whole, new)') /\ Durable' = Durable
    <2>1. CASE restore[r].phase # "put"
        <3>1. unflushed' = unflushed
            BY <1>1, <2>1 DEF RestoreFails
        <3>2. PutDurable(top)'
            BY <1>1 DEF RestoreFails, Ghost, PutDurable
        <3>3. QED
            BY <1>1, <1>5, <1>6, <3>1, <3>2, SameGhost DEF RestoreFails
    <2>2. CASE restore[r].phase = "put"
        <3>1. unflushed' = Append(unflushed, w)
            BY <2>2 DEF RestoreFails
        <3>2. w \in Write /\ w.type = "floor" /\ w.floor <= snapshot.revision + 1
            BY <1>1, <2>2, RestorationIs, FloorWrite DEF Rules, InPlace
        <3> HIDE DEF w
        <3>3. QED
            BY <1>1, <1>5, <1>6, <3>1, <3>2, QuietGhost DEF RestoreFails
    <2>3. QED
        BY <2>1, <2>2
<1>8. QED
    BY <1>2, <1>4, <1>7 DEF Keeps, Rules

-----------------------------------------------------------------------------
(* A stop, and a write that becomes durable.                               *)

LEMMA StopKeeps ==
    ASSUME NEW whole, NEW top, Before(whole, top), Types', Stop
    PROVE  Keeps
<1>1. Rules /\ Types /\ Ghost(whole, top)
    BY DEF Before
<1>2. \A r \in Restore : restore'[r].phase \in {"new", "done"}
    <2> SUFFICES ASSUME NEW r \in Restore PROVE restore'[r].phase \in {"new", "done"}
        OBVIOUS
    <2>1. restore'[r] = IF restore[r].phase = "new" THEN restore[r]
                        ELSE [NoRestoration EXCEPT !.phase = "done"]
        BY DEF Stop
    <2>2. QED
        BY <2>1, NoRestorationIs
<1>3. current' = 0 /\ loading' = <<>> /\ checkpoint'.phase = "idle"
    BY NoCheckpointIs DEF Stop
<1>4. Blocking' /\ Counts' /\ Checks'
    BY <1>2, <1>3 DEF Blocking, Counts, Checks
<1>5. \A r \in Restore : InPlace(r)'
    BY <1>2 DEF InPlace
<1>6. PICK d : d = Upto(whole, top[0])
    OBVIOUS
<1>7. /\ Durable = d /\ top[0] \in Nat /\ snapshot.revision <= top[0]
      /\ top[0] <= whole.revision /\ Begins(snapshot, whole)
      /\ whole \in Snapshot /\ snapshot \in Snapshot
    BY <1>1, <1>6, DurableIs
<1>8. /\ d \in Snapshot /\ d.revision = top[0] /\ Begins(snapshot, d) /\ Begins(d, whole)
    BY <1>6, <1>7, UptoIs
<1>9. storage'.log = storage.log /\ storage'.floor = storage.floor
    BY <1>1 DEF Stop, Types, StoreTypes, StoreOK, Storage
<1>10. PICK new : Holds(storage', <<>>, new, snapshot, d) /\ new[0] = top[0]
    <2>1. StoreOK(storage) /\ unflushed \in Seq(Write)
          /\ Holds(storage, unflushed, top, snapshot, whole)
        BY <1>1 DEF Types, StoreTypes, Ghost
    <2>2. QED
        BY <1>6, <1>7, <1>9, <2>1, HoldsCut
<1>11. Fresh(d)'
    <2>1. used'.edit = used.edit
        BY <1>1, Events DEF Stop, Spend, Types, UsedTypes
    <2>2. Len(d.doc) <= Len(whole.doc) /\ Len(d.doc) \in Nat /\ Len(whole.doc) \in Nat
        <3>1. /\ d.revision <= whole.revision /\ Off(d) = Off(whole) /\ Off(whole) \in Int
              /\ d.revision = Off(d) + Len(d.doc) /\ whole.revision = Off(whole) + Len(whole.doc)
              /\ Len(d.doc) \in Nat /\ Len(whole.doc) \in Nat
            BY <1>7, <1>8, SnapshotIs DEF Begins
        <3>2. QED
            BY <3>1
    <2>3. \A i \in 1 .. Len(d.doc) : i \in 1 .. Len(whole.doc) /\ d.doc[i] = whole.doc[i]
        BY <1>8, <2>2 DEF Begins
    <2>4. QED
        BY <1>1, <2>1, <2>3 DEF Ghost, Fresh
<1>12. Shown(d)' /\ PutDurable(new)'
    BY <1>3 DEF Shown, PutDurable
<1>13. Ghost(d, new)'
    BY <1>8, <1>10, <1>11, <1>12 DEF Stop, Ghost
<1>14. Durable' = Durable
    <2>1. Loaded(snapshot, storage') = Upto(d, d.revision)
        <3>1. PICK st, ws : st = storage' /\ ws = <<>>
            OBVIOUS
        <3>2. StoreOK(st) /\ ws \in Seq(Write) /\ Holds(st, ws, new, snapshot, d)
            BY <1>10, <3>1, EmptySeq DEF Types, StoreTypes
        <3>3. Loaded(snapshot, st) = Upto(d, new[0])
            BY <1>7, <1>8, <3>2, HoldsNow
        <3>4. QED
            BY <1>8, <1>10, <3>1, <3>3
    <2>2. QED
        BY <1>7, <1>8, <2>1, UptoAll DEF Stop, Durable
<1>15. QED
    BY <1>4, <1>5, <1>13, <1>14 DEF Keeps, Rules

LEMMA UptoNext ==
    ASSUME NEW from \in Snapshot, NEW d \in Snapshot, Begins(from, d), Fresh(d),
           NEW rev \in Nat, from.revision <= rev, rev + 1 <= d.revision
    PROVE  /\ Upto(d, rev + 1).doc = Append(Upto(d, rev).doc, At(d, rev + 1))
           /\ \A i \in DOMAIN Upto(d, rev).doc : Upto(d, rev).doc[i] # At(d, rev + 1)
<1>0. d.revision \in Nat /\ from.revision \in Nat /\ Off(d) \in Int
    BY SnapshotIs
<1>1. PICK a, b : a = Upto(d, rev) /\ b = Upto(d, rev + 1)
    OBVIOUS
<1>2. /\ a \in Snapshot /\ a.revision = rev /\ Len(a.doc) = rev - Off(d)
      /\ Begins(from, a) /\ Begins(a, d)
    BY <1>0, <1>1, UptoIs
<1>3. /\ b \in Snapshot /\ b.revision = rev + 1 /\ Len(b.doc) = (rev + 1) - Off(d)
      /\ Begins(b, d)
    BY <1>0, <1>1, UptoIs
<1> DEFINE n == Len(a.doc)
<1>4. n \in Nat /\ n + 1 = Len(b.doc) /\ n + 1 = (rev + 1) - Off(d)
      /\ a.doc \in Seq(Edit \cup Restore) /\ b.doc \in Seq(Edit \cup Restore)
      /\ DOMAIN a.doc = 1 .. n
    <2>1. n \in Nat /\ a.doc \in Seq(Edit \cup Restore) /\ b.doc \in Seq(Edit \cup Restore)
          /\ DOMAIN a.doc = 1 .. n
        BY <1>2, <1>3, SnapshotIs
    <2>2. n = rev - Off(d)
        BY <1>2
    <2> HIDE DEF n
    <2>3. n + 1 = (rev + 1) - Off(d)
        BY <1>0, <2>2
    <2>4. QED
        BY <1>3, <2>1, <2>3
<1>5. At(d, rev + 1) = d.doc[n + 1] /\ At(d, rev + 1) \in Edit \cup Restore
      /\ n + 1 \in 1 .. Len(d.doc)
    <2>1. At(d, rev + 1) \in Edit \cup Restore /\ (rev + 1) - Off(d) \in 1 .. Len(d.doc)
        BY <1>0, AtIs
    <2>2. QED
        BY <1>4, <2>1 DEF At
<1>6. (\A i \in 1 .. n : a.doc[i] = d.doc[i]) /\ \A i \in 1 .. (n + 1) : b.doc[i] = d.doc[i]
    BY <1>2, <1>3, <1>4 DEF Begins
<1> HIDE DEF n
<1>7. b.doc = Append(a.doc, At(d, rev + 1))
    <2>1. PICK c : c = Append(a.doc, At(d, rev + 1))
        OBVIOUS
    <2>2. /\ c \in Seq(Edit \cup Restore) /\ Len(c) = n + 1
          /\ \A i \in 1 .. n : c[i] = a.doc[i]
          /\ c[n + 1] = At(d, rev + 1)
        BY <1>4, <1>5, <2>1, AppendProperties DEF n
    <2>3. \A i \in 1 .. (n + 1) : b.doc[i] = c[i]
        <3> SUFFICES ASSUME NEW i \in 1 .. (n + 1) PROVE b.doc[i] = c[i]
            OBVIOUS
        <3>1. CASE i = n + 1
            BY <1>5, <1>6, <2>2, <3>1
        <3>2. CASE i # n + 1
            <4>1. i \in 1 .. n
                BY <1>4, <3>2
            <4>2. QED
                BY <1>6, <2>2, <4>1
        <3>3. QED
            BY <3>1, <3>2
    <2>4. b.doc = c
        BY <1>4, <2>2, <2>3, SeqEqual
    <2>5. QED
        BY <2>1, <2>4
<1>8. \A i \in 1 .. n : a.doc[i] # At(d, rev + 1)
    <2> SUFFICES ASSUME NEW i \in 1 .. n, a.doc[i] = At(d, rev + 1) PROVE FALSE
        OBVIOUS
    <2>1. d.doc[i] = d.doc[n + 1] /\ i \in 1 .. Len(d.doc)
        BY <1>4, <1>5, <1>6
    <2>2. i = n + 1
        BY <1>5, <2>1 DEF Fresh
    <2>3. QED
        BY <1>4, <2>2
<1>9. QED
    BY <1>1, <1>4, <1>7, <1>8

LEMMA FlushKeeps ==
    ASSUME NEW whole, NEW top, Before(whole, top), Types', Flush
    PROVE  /\ Rules' /\ \E t2 : Ghost(whole, t2)'
           /\ \/ Durable' = Durable /\ acked' = acked
              \/ \E e \in Edit : /\ \A i \in DOMAIN Durable.doc : Durable.doc[i] # e
                                 /\ Durable'.doc = Append(Durable.doc, e)
                                 /\ acked' = acked \cup {e}
<1> DEFINE w == Head(unflushed)
<1>1. Rules /\ Types /\ Ghost(whole, top) /\ unflushed \in Seq(Write) /\ unflushed # <<>>
      /\ StoreOK(storage)
    BY DEF Before, Types, StoreTypes, Flush
<1>2. w \in Write
    BY <1>1, HeadTailProperties
<1>3. Blocking' /\ Counts' /\ Checks' /\ \A r \in Restore : InPlace(r)'
    BY <1>1, SameRules DEF Flush, memory
<1>4. /\ Durable = Upto(whole, top[0]) /\ top[0] \in Nat /\ snapshot.revision <= top[0]
      /\ Begins(snapshot, whole) /\ whole \in Snapshot /\ snapshot \in Snapshot
    BY <1>1, DurableIs
<1>5. PICK new : /\ Holds(Written(storage, w), Tail(unflushed), new, snapshot, whole)
                 /\ new[0] = top[1] /\ top[0] <= top[1]
                 /\ Adds(w, top[0], top[1], snapshot, whole)
    BY <1>1, <1>4, HoldsWritten DEF Ghost
<1>6. storage' = Written(storage, w) /\ unflushed' = Tail(unflushed) /\ snapshot' = snapshot
      /\ acked' = IF w.type = "op" THEN acked \cup {w.entry.op} ELSE acked
    BY DEF Flush
<1> HIDE DEF w
<1>7. Holds(storage', unflushed', new, snapshot', whole)
    BY <1>5, <1>6
<1>8. Tail(unflushed) \in Seq(Write)
    BY <1>1, HeadTailProperties
<1>9. /\ Durable' = Upto(whole, top[1]) /\ top[1] \in Nat /\ top[1] <= whole.revision
    <2>1. PICK st, ws : st = storage' /\ ws = unflushed'
        OBVIOUS
    <2>2. StoreOK(st) /\ ws \in Seq(Write) /\ Holds(st, ws, new, snapshot, whole)
        BY <1>6, <1>7, <1>8, <2>1 DEF Types, StoreTypes
    <2>3. /\ Loaded(snapshot, st) = Upto(whole, new[0])
          /\ new[0] \in Nat /\ new[0] <= whole.revision
        BY <1>4, <2>2, HoldsNow
    <2>4. QED
        BY <1>5, <1>6, <2>1, <2>3 DEF Durable
<1>10. Fresh(whole)' /\ Shown(whole)' /\ PutDurable(new)'
    <2>1. used' = used /\ UNCHANGED memory
        BY DEF Flush
    <2>2. Fresh(whole)' /\ Shown(whole)'
        BY <1>1, <1>6, <2>1, SameShown, SameLanded DEF memory, Ghost, Fresh
    <2>3. PutDurable(new)'
        <3>1. checkpoint' = checkpoint /\ checkpoint.taken.revision \in Nat
            BY <1>1, <2>1, CheckpointFields DEF memory
        <3>2. QED
            BY <1>1, <1>4, <1>5, <1>9, <3>1 DEF PutDurable, Ghost
    <2>4. QED
        BY <2>2, <2>3
<1>11. Ghost(whole, new)'
    BY <1>4, <1>7, <1>10 DEF Ghost
<1>12. CASE w.type = "op"
    <2>1. /\ top[1] = top[0] + 1 /\ w.entry.op = At(whole, top[1]) /\ w.entry.op \in Edit
        BY <1>2, <1>5, <1>12, WriteIs DEF Adds, LoggedOp
    <2>2. /\ Durable'.doc = Append(Durable.doc, w.entry.op)
          /\ \A i \in DOMAIN Durable.doc : Durable.doc[i] # w.entry.op
        BY <1>1, <1>4, <1>9, <2>1, UptoNext, SMTT(60) DEF Ghost
    <2>3. QED
        BY <1>3, <1>6, <1>11, <1>12, <2>1, <2>2 DEF Rules
<1>13. CASE w.type # "op"
    BY <1>3, <1>4, <1>5, <1>6, <1>9, <1>11, <1>13 DEF Rules, Adds
<1>14. QED
    BY <1>12, <1>13

-----------------------------------------------------------------------------
(* Every step, and what follows.                                           *)

(* What a step does to the document that a restart would load: nothing,    *)
(* possibly saving it as a version; or it adds an edit and acks it; or it  *)
(* replaces the document, which is saved.                                  *)
Unseen == /\ Durable'.doc = Durable.doc /\ acked' = acked
          /\ versions' = versions \/ versions' = versions \cup {Durable.doc}

Added == /\ \E e \in Edit : /\ \A i \in DOMAIN Durable.doc : Durable.doc[i] # e
                            /\ Durable'.doc = Append(Durable.doc, e)
                            /\ acked' = acked \cup {e}
         /\ versions' = versions

Replaced == /\ Durable.doc \in versions
            /\ \E r \in Restore : Durable'.doc = <<r>>
            /\ versions' = versions /\ acked' = acked

Shape == Rules /\ \E whole, top : Ghost(whole, top)

Orderly == OneAtATime /\ NothingLeftBehind

LEMMA KeepsSame ==
    ASSUME Keeps, versions' = versions, acked' = acked
    PROVE  Shape' /\ Unseen
BY DEF Keeps, Shape, Unseen

LEMMA StutterKeeps ==
    ASSUME NEW whole, NEW top, Before(whole, top), UNCHANGED vars
    PROVE  Keeps
<1>1. Types /\ Rules /\ Ghost(whole, top)
    BY DEF Before
<1>2. Types'
    BY <1>1, SameTypes DEF vars, memory, Types
<1>3. Rules'
    BY <1>1, SameRules DEF vars, memory, Rules
<1>4. Shown(whole)' /\ PutDurable(top)'
    BY <1>1 DEF Ghost, Shown, Landed, PutDurable, vars, memory
<1>5. Ghost(whole, top)' /\ Durable' = Durable
    BY <1>1, <1>2, <1>4, SameGhost DEF vars, memory
<1>6. QED
    BY <1>3, <1>5 DEF Keeps

LEMMA ShapeStep ==
    ASSUME ~AmbiguousPuts, Types, Types', Orderly, Orderly', Shape, [Next]_vars
    PROVE  Shape' /\ (Unseen \/ Added \/ Replaced)
<1>1. PICK whole, top : Before(whole, top)
    BY DEF Shape, Orderly, Before
<1>2. NothingLeftBehind'
    BY DEF Orderly
<1>3. CASE UNCHANGED vars
    BY <1>1, <1>3, StutterKeeps, KeepsSame DEF vars
<1>4. CASE Flush
    <2>1. versions' = versions
        BY <1>4 DEF Flush
    <2>2. Shape' /\ ((Durable' = Durable /\ acked' = acked) \/ Added)
        BY <1>1, <1>4, <2>1, FlushKeeps DEF Shape, Added
    <2>3. QED
        BY <2>1, <2>2 DEF Unseen
<1>5. CASE CommitEdit
    BY <1>1, <1>5, CommitEditKeeps, KeepsSame DEF CommitEdit
<1>6. CASE Reload
    BY <1>1, <1>2, <1>6, ReloadKeeps, KeepsSame DEF Reload
<1>7. CASE LastSocketCloses
    BY <1>1, <1>7, LastSocketClosesKeeps, KeepsSame DEF LastSocketCloses
<1>8. CASE Stop
    BY <1>1, <1>8, StopKeeps, KeepsSame DEF Stop
<1>9. CASE LoadSnapshot
    BY <1>1, <1>9, LoadSnapshotKeeps, KeepsSame DEF LoadSnapshot
<1>10. CASE LoadLog
    BY <1>1, <1>10, LoadLogKeeps, KeepsSame DEF LoadLog
<1>11. CASE CheckpointSynced
    BY <1>1, <1>11, CheckpointSyncedKeeps, KeepsSame DEF CheckpointSynced
<1>12. CASE CheckpointLands
    BY <1>1, <1>12, CheckpointLandsKeeps, KeepsSame DEF CheckpointLands
<1>13. CASE CheckpointWritten
    BY <1>1, <1>13, CheckpointWrittenKeeps, KeepsSame DEF CheckpointWritten
<1>14. CASE CheckpointReported
    BY <1>1, <1>14, CheckpointReportedKeeps, KeepsSame DEF CheckpointReported
<1>15. CASE CheckpointFails
    BY <1>1, <1>15, CheckpointFailsKeeps, KeepsSame DEF CheckpointFails
<1>16. CASE AlarmFires
    BY <1>1, <1>16, AlarmFiresKeeps, KeepsSame DEF AlarmFires
<1>17. CASE AlarmCheckpoints
    BY <1>1, <1>17, AlarmCheckpointsKeeps, KeepsSame DEF AlarmCheckpoints
<1>18. ASSUME NEW r \in Restore, RequestRestore(r) \/ RestoreStep(r) \/ RestoreFails(r)
       PROVE  Shape' /\ (Unseen \/ Added \/ Replaced)
    <2>1. CASE RequestRestore(r)
        BY <1>1, <2>1, RequestRestoreKeeps, KeepsSame DEF RequestRestore
    <2>2. CASE CheckpointForRestore(r)
        BY <1>1, <2>2, CheckpointForRestoreKeeps, KeepsSame DEF CheckpointForRestore
    <2>3. CASE CaptureVersion(r)
        BY <1>1, <2>3, CaptureVersionKeeps, KeepsSame DEF CaptureVersion
    <2>4. CASE VersionSaved(r)
        <3>1. Keeps /\ versions' = versions \cup {Durable.doc} /\ acked' = acked
            BY <1>1, <2>4, VersionSavedKeeps DEF VersionSaved
        <3>2. QED
            BY <3>1 DEF Keeps, Shape, Unseen
    <2>5. CASE RestoreLands(r)
        <3>1. /\ Rules' /\ \E w2, t2 : Ghost(w2, t2)'
              /\ Durable.doc \in versions /\ Durable'.doc = <<r>>
            BY <1>1, <2>5, RestoreLandsKeeps
        <3>2. versions' = versions /\ acked' = acked
            BY <2>5 DEF RestoreLands
        <3>3. QED
            BY <3>1, <3>2 DEF Shape, Replaced
    <2>6. CASE Switch(r)
        BY <1>1, <2>6, SwitchKeeps, KeepsSame DEF Switch
    <2>7. CASE RestoreDone(r)
        BY <1>1, <2>7, RestoreDoneKeeps, KeepsSame DEF RestoreDone
    <2>8. CASE RestoreFails(r)
        BY <1>1, <2>8, RestoreFailsKeeps, KeepsSame DEF RestoreFails
    <2>9. QED
        BY <1>18, <2>1, <2>2, <2>3, <2>4, <2>5, <2>6, <2>7, <2>8 DEF RestoreStep
<1>19. QED
    BY <1>3, <1>4, <1>5, <1>6, <1>7, <1>8, <1>9, <1>10, <1>11, <1>12, <1>13, <1>14,
       <1>15, <1>16, <1>17, <1>18 DEF Next, Load, CheckpointStep, Alarm

LEMMA AtFirst ==
    ASSUME Init
    PROVE  Shape /\ NothingLost /\ Durable.doc = <<>> /\ versions = {}
<1>1. Shape
    BY GhostInit DEF Shape
<1>2. NothingLost
    BY DEF Init, NothingLost
<1>3. Durable.doc = <<>>
    <2>1. PICK whole, top : Ghost(whole, top)
        BY <1>1 DEF Shape
    <2>2. Durable \in Snapshot /\ Len(Durable.doc) = 0
        <3>1. Types /\ snapshot = NewDocument
            BY TypeInit DEF Init
        <3>2. /\ Durable = Upto(whole, top[0]) /\ whole \in Snapshot
              /\ top[0] \in Nat /\ top[0] <= whole.revision
              /\ snapshot.revision <= top[0] /\ Begins(snapshot, whole)
            BY <2>1, <3>1, DurableIs
        <3>3. /\ Durable \in Snapshot /\ Durable.revision = top[0]
              /\ Len(Durable.doc) = top[0] - Off(whole)
            BY <3>1, <3>2, UptoIs, NewDocumentIs
        <3>4. top[0] = 0
            <4>1. unflushed = <<>> /\ storage.log = {} /\ snapshot.revision = 0
                BY DEF Init, NewDocument
            <4>2. Shows(storage, top[0], snapshot, whole)
                BY <2>1, <3>1, DurableIs
            <4>3. \A rev \in 1 .. top[0] : FALSE
                BY <4>1, <4>2 DEF Shows
            <4>4. QED
                BY <3>2, <4>3
        <3>5. Off(whole) = 0
            BY <3>1, <3>2, NewDocumentIs DEF Begins, Off, NewDocument
        <3>6. QED
            BY <3>3, <3>4, <3>5
    <2>3. QED
        BY <2>2, SnapshotIs, EmptySeq
<1>4. versions = {}
    BY DEF Init
<1>5. QED
    BY <1>1, <1>2, <1>3, <1>4

LEMMA DurableType ==
    ASSUME Types, Shape
    PROVE  /\ Durable \in Snapshot /\ Durable.doc \in Seq(Edit \cup Restore)
<1>1. PICK whole, top : Ghost(whole, top)
    BY DEF Shape
<1>2. Durable \in Snapshot
    BY <1>1, DurableIs, UptoIs
<1>3. QED
    BY <1>2, SnapshotIs

LEMMA LostStep ==
    ASSUME Durable.doc \in Seq(Edit \cup Restore), NothingLost, Unseen \/ Added \/ Replaced
    PROVE  NothingLost'
<1> SUFFICES ASSUME NEW e \in acked'
             PROVE  \/ e \in Contents(Durable'.doc)
                    \/ \E doc \in versions' : e \in Contents(doc)
    BY DEF NothingLost, Durable
<1>1. e \in acked => \/ e \in Contents(Durable.doc)
                     \/ \E doc \in versions : e \in Contents(doc)
    BY DEF NothingLost, Durable
<1>2. CASE Unseen
    BY <1>1, <1>2 DEF Unseen
<1>3. CASE Added
    <2>1. PICK n \in Edit : Durable'.doc = Append(Durable.doc, n) /\ acked' = acked \cup {n}
        BY <1>3 DEF Added
    <2>2. PICK doc : doc = Durable.doc
        OBVIOUS
    <2>3. doc \in Seq(Edit \cup Restore) /\ Durable'.doc = Append(doc, n)
        BY <2>1, <2>2
    <2>4. n \in Contents(Append(doc, n)) /\ Contents(doc) \subseteq Contents(Append(doc, n))
        BY <2>3, AppendProperties DEF Contents
    <2>5. QED
        BY <1>1, <1>3, <2>1, <2>2, <2>3, <2>4 DEF Added
<1>4. CASE Replaced
    BY <1>1, <1>4 DEF Replaced
<1>5. QED
    BY <1>2, <1>3, <1>4

LEMMA ShapeShows ==
    ASSUME Types, Shape
    PROVE  RestartKeepsTheDocument
<1> SUFFICES ASSUME current # 0, ~Landed
             PROVE  NoGap(snapshot, View) /\ Loaded(snapshot, View) = rooms[current]
    BY DEF RestartKeepsTheDocument, Landed
<1>1. PICK whole, top : Ghost(whole, top)
    BY DEF Shape
<1>2. whole = rooms[current]
    BY <1>1 DEF Ghost, Shown
<1>3. NoGap(snapshot, View) /\ Loaded(snapshot, View) = whole
    BY <1>1, HoldsView DEF Ghost, Types, StoreTypes, KeptTypes
<1>4. QED
    BY <1>2, <1>3

IInv == Types /\ Shape /\ NothingLost

LEMMA IInvStep ==
    ASSUME ~AmbiguousPuts, IInv, Orderly, Orderly', [Next]_vars
    PROVE  IInv' /\ (Unseen \/ Added \/ Replaced)
<1>1. Types'
    BY TypeStep DEF IInv
<1>2. Shape' /\ (Unseen \/ Added \/ Replaced)
    BY <1>1, ShapeStep DEF IInv
<1>3. NothingLost'
    BY <1>2, DurableType, LostStep DEF IInv
<1>4. QED
    BY <1>1, <1>2, <1>3 DEF IInv

LEMMA IInvAtFirst == Init => IInv
BY AtFirst, TypeInit DEF IInv

(* NothingLost: an edit that was acked is in the document a restart would  *)
(* load, or in a version saved before that document was replaced.          *)
THEOREM NothingIsLost == ~AmbiguousPuts => (Spec /\ []Orderly => []NothingLost)
<1> SUFFICES ASSUME ~AmbiguousPuts PROVE Spec /\ []Orderly => []NothingLost
    OBVIOUS
<1>1. IInv /\ Orderly /\ Orderly' /\ [Next]_vars => IInv'
    BY IInvStep
<1>2. IInv => NothingLost
    BY DEF IInv
<1>3. QED
    BY <1>1, <1>2, IInvAtFirst, PTL DEF Spec

(* RestartKeepsTheDocument: what a restart would load is the room that is, *)
(* with no gap in the log behind the checkpoint.                           *)
THEOREM RestartsKeepTheDocument ==
    ~AmbiguousPuts => (Spec /\ []Orderly => []RestartKeepsTheDocument)
<1> SUFFICES ASSUME ~AmbiguousPuts PROVE Spec /\ []Orderly => []RestartKeepsTheDocument
    OBVIOUS
<1>1. IInv /\ Orderly /\ Orderly' /\ [Next]_vars => IInv'
    BY IInvStep
<1>2. IInv => RestartKeepsTheDocument
    BY ShapeShows DEF IInv
<1>3. QED
    BY <1>1, <1>2, IInvAtFirst, PTL DEF Spec

LEMMA StepsAreKept ==
    ASSUME Unseen \/ Added \/ Replaced
    PROVE  [Kept!Next]_<<Loaded(snapshot, storage).doc, versions>>
<1>1. CASE Unseen
    BY <1>1 DEF Unseen, Durable, Kept!Next, Kept!Save
<1>2. CASE Added
    BY <1>2 DEF Added, Durable, Kept!Next, Kept!Add
<1>3. CASE Replaced
    BY <1>3 DEF Replaced, Durable, Kept!Next, Kept!Replace
<1>4. QED
    BY <1>1, <1>2, <1>3

(* KeptDocument: the room implements DurableDocument.  A step of it is an  *)
(* edit added, a version saved, a saved document replaced, or not seen.    *)
THEOREM DocumentIsKept == ~AmbiguousPuts => (Spec /\ []Orderly => KeptDocument)
<1> SUFFICES ASSUME ~AmbiguousPuts PROVE Spec /\ []Orderly => KeptDocument
    OBVIOUS
<1>1. IInv /\ Orderly /\ Orderly' /\ [Next]_vars =>
          IInv' /\ [Kept!Next]_<<Loaded(snapshot, storage).doc, versions>>
    BY IInvStep, StepsAreKept
<1>2. Init => Kept!Init
    BY AtFirst DEF Durable, Kept!Init
<1>3. QED
    BY <1>1, <1>2, IInvAtFirst, PTL DEF Spec, KeptDocument, Kept!Spec

-----------------------------------------------------------------------------
(* Two restore requests at most, and no room is dropped.                   *)

TwoRestores == \E a, b : Restore \subseteq {a, b}

LEMMA PushedRoom ==
    ASSUME NEW s \in Seq(Snapshot), NEW e
    PROVE  Len(Append(s, e)) # 0
BY LenProperties, AppendProperties

(* A step of one restore, or of all that wait for a checkpoint.            *)
LEMMA OneMoves ==
    ASSUME OneAtATime, NEW r \in Restore, Active(r),
           \A s \in Restore : s # r => restore'[s] = restore[s]
    PROVE  OneAtATime'
BY DEF OneAtATime, Active

LEMMA PhasesMove ==
    ASSUME OneAtATime,
           \A s \in Restore : \/ restore'[s] = restore[s]
                              \/ restore'[s].phase \in {"new", "waiting", "done"}
                              \/ Active(s)
    PROVE  OneAtATime'
BY DEF OneAtATime, Active

LEMMA MovedOthers ==
    ASSUME Types, NEW r, NEW p
    PROVE  \A s \in Restore : s # r => Moved(r, p)[s] = restore[s]
BY DEF Types, RestoreTypes, Moved

(* The one that goes on ends, and the other one may begin.                 *)
LEMMA EndsAlone ==
    ASSUME Types, OneAtATime, TwoRestores, NEW ended, NEW r \in Restore,
           r \in ended, Active(r), NEW id, End(ended, id)
    PROVE  OneAtATime'
<1> SUFFICES ASSUME NEW s \in Restore, NEW t \in Restore, Active(s)', Active(t)'
             PROVE  s = t
    BY DEF OneAtATime
<1>1. restore \in [Restore -> Restoration]
    BY DEF Types, RestoreTypes
<1>2. restore'[r] = [restore[r] EXCEPT !.phase = "done"]
    BY DEF End
<1>3. restore'[r].phase = "done"
    BY <1>1, <1>2 DEF Restoration
<1>4. s # r /\ t # r
    BY <1>3 DEF Active
<1>5. QED
    BY <1>4 DEF TwoRestores

LEMMA OneStep ==
    ASSUME Types, Rules, OneAtATime, TwoRestores, [Next]_vars
    PROVE  OneAtATime'
<1>0. restore \in [Restore -> Restoration]
    BY DEF Types, RestoreTypes
<1>1. restore' = restore => OneAtATime'
    BY DEF OneAtATime, Active
<1>2. CASE \/ UNCHANGED vars \/ Flush \/ CommitEdit \/ Reload \/ LastSocketCloses
           \/ LoadSnapshot \/ CheckpointSynced \/ CheckpointLands \/ CheckpointWritten
           \/ Alarm
    BY <1>1, <1>2 DEF vars, memory, Flush, CommitEdit, Reload, LastSocketCloses,
       LoadSnapshot, CheckpointSynced, CheckpointLands, CheckpointWritten,
       Alarm, AlarmFires, AlarmCheckpoints
<1>3. CASE Stop
    <2> SUFFICES ASSUME NEW s \in Restore PROVE restore'[s].phase \in {"new", "done"}
        BY PhasesMove
    <2>1. restore'[s] = IF restore[s].phase = "new" THEN restore[s]
                        ELSE [NoRestoration EXCEPT !.phase = "done"]
        BY <1>3 DEF Stop
    <2>2. [NoRestoration EXCEPT !.phase = "done"].phase = "done"
        BY DEF NoRestoration
    <2>3. QED
        BY <2>1, <2>2
<1>4. CASE CheckpointReported
    <2>1. restore' = Rechecking
        BY <1>4 DEF CheckpointReported
    <2>2. \A s \in Restore : restore'[s] = restore[s] \/ restore[s].phase = "awaiting"
        BY <2>1 DEF Rechecking
    <2>3. QED
        BY <2>2, PhasesMove DEF Active
<1>5. CASE CheckpointFails
    <2>1. \/ restore' = restore
          \/ LET failed == {r \in Restore : restore[r].phase = "awaiting"}
             IN  failed # {} /\ End(failed, current)
        BY <1>5 DEF CheckpointFails
    <2> DEFINE failed == {r \in Restore : restore[r].phase = "awaiting"}
    <2>2. CASE failed # {} /\ End(failed, current)
        <3>1. PICK r \in Restore : r \in failed /\ Active(r)
            BY <2>2 DEF Active
        <3> HIDE DEF failed
        <3>2. QED
            BY <2>2, <3>1, EndsAlone
    <2>3. QED
        BY <1>1, <2>1, <2>2
<1>6. CASE LoadLog
    <2> DEFINE loaders == {r \in Restore : restore[r].phase = "loading"}
    <2>1. \/ restore' = restore
          \/ loaders # {} /\ End(loaders, 0)
          \/ restore' = [r \in Restore |->
                            IF r \in loaders THEN Begun(r, current') ELSE restore[r]]
        BY <1>6 DEF LoadLog
    <2>2. CASE loaders # {} /\ End(loaders, 0)
        <3>1. PICK r \in Restore : r \in loaders /\ Active(r)
            BY <2>2 DEF Active
        <3> HIDE DEF loaders
        <3>2. QED
            BY <2>2, <3>1, EndsAlone
    <2>3. CASE restore' = [r \in Restore |->
                              IF r \in loaders THEN Begun(r, current') ELSE restore[r]]
        <3>1. \A s \in Restore : restore'[s] = restore[s] \/ restore[s].phase = "loading"
            BY <2>3
        <3>2. QED
            BY <3>1, PhasesMove DEF Active
    <2>4. QED
        BY <1>1, <2>1, <2>2, <2>3
<1>7. ASSUME NEW r \in Restore, RequestRestore(r) \/ RestoreStep(r) \/ RestoreFails(r)
      PROVE  OneAtATime'
    <2>1. CASE RequestRestore(r)
        <3>1. CASE restoring = NoRestore
            <4>1. restore' = [restore EXCEPT ![r] = Begun(r, current)]
                BY <2>1, <3>1 DEF RequestRestore
            <4>2. \A s \in Restore : s # r => /\ restore'[s] = restore[s]
                                              /\ restore[s].phase \in {"new", "done"}
                BY <1>0, <3>1, <4>1 DEF Rules, Blocking
            <4>3. QED
                BY <4>2 DEF OneAtATime, Active
        <3>2. CASE restoring # NoRestore
            <4>1. restore' = Moved(r, "waiting")
                BY <2>1, <3>2 DEF RequestRestore
            <4>2. \A s \in Restore : \/ restore'[s] = restore[s]
                                     \/ restore'[s].phase = "waiting"
                BY <4>1, MovedIs, MovedOthers DEF RestorePhase
            <4>3. QED
                BY <4>2, PhasesMove
        <3>3. QED
            BY <3>1, <3>2
    <2>2. CASE RestoreDone(r) \/ RestoreFails(r)
        <3>1. Active(r) /\ End({r}, current)
            BY <2>2 DEF RestoreDone, RestoreFails, Active
        <3>2. QED
            BY <3>1, EndsAlone
    <2>3. CASE \/ CheckpointForRestore(r) \/ CaptureVersion(r) \/ VersionSaved(r)
               \/ RestoreLands(r) \/ Switch(r)
        <3>1. Active(r)
            BY <2>3 DEF CheckpointForRestore, CaptureVersion, VersionSaved, RestoreLands,
               Switch, Active
        <3>2. \A s \in Restore : s # r => restore'[s] = restore[s]
            BY <1>0, <2>3 DEF CheckpointForRestore, CaptureVersion, VersionSaved,
               RestoreLands, Switch, Moved
        <3>3. QED
            BY <3>1, <3>2, OneMoves
    <2>4. QED
        BY <1>7, <2>1, <2>2, <2>3 DEF RestoreStep
<1>8. QED
    BY <1>2, <1>3, <1>4, <1>5, <1>6, <1>7 DEF Next, Load, CheckpointStep

LEMMA BehindStep ==
    ASSUME Types, NothingLeftBehind, MaxReloads = 0, [Next]_vars
    PROVE  NothingLeftBehind'
<1>1. CASE Reload
    <2>1. used.reload \in Nat /\ used.reload < MaxReloads
        BY <1>1, Events DEF Reload, Spend, Types, UsedTypes, Bound
    <2>2. QED
        BY <2>1
<1>2. CASE Stop
    BY <1>2, NoCheckpointIs DEF Stop, NothingLeftBehind
<1>3. CASE UNCHANGED <<current, checkpoint>>
    BY <1>3 DEF NothingLeftBehind
<1>4. CASE checkpoint'.phase = "idle" \/ current' # 0
    BY <1>4 DEF NothingLeftBehind
<1>5. CASE UNCHANGED vars \/ Flush \/ Alarm \/ LastSocketCloses \/ CommitEdit \/ LoadSnapshot
    BY <1>3, <1>4, <1>5 DEF vars, memory, Flush, Alarm, AlarmFires, AlarmCheckpoints,
       LastSocketCloses, CommitEdit, LoadSnapshot
<1>6. CASE CheckpointStep \/ CheckpointFails
    <2>1. current' = current /\ (checkpoint.phase # "idle" \/ checkpoint' = checkpoint)
        BY <1>6 DEF CheckpointStep, CheckpointFails, CheckpointSynced, CheckpointLands,
           CheckpointWritten, CheckpointReported
    <2>2. QED
        BY <1>3, <1>4, <2>1 DEF NothingLeftBehind
<1>7. CASE LoadLog
    <2>1. checkpoint' = checkpoint
        BY <1>7 DEF LoadLog
    <2>2. \/ current' = current
          \/ /\ rooms' = Append(rooms, Loaded(loading[1], View))
             /\ current' = Len(rooms')
        BY <1>7 DEF LoadLog
    <2>3. rooms \in Seq(Snapshot)
        BY DEF Types, RoomTypes
    <2>4. current' = current \/ current' # 0
        BY <2>2, <2>3, PushedRoom
    <2>5. QED
        BY <1>3, <1>4, <2>1, <2>4
<1>8. ASSUME NEW r \in Restore, RequestRestore(r) \/ RestoreStep(r) \/ RestoreFails(r)
      PROVE  NothingLeftBehind'
    <2>1. CASE Switch(r)
        <3>1. rooms' = Append(rooms, RestoredDocument(r)) /\ current' = Len(rooms')
              /\ rooms \in Seq(Snapshot)
            BY <2>1 DEF Switch, Types, RoomTypes
        <3>2. QED
            BY <1>4, <3>1, PushedRoom
    <2>2. CASE ~Switch(r)
        <3>1. UNCHANGED <<current, checkpoint>> \/ (current # 0 /\ current' = current)
            BY <1>8, <2>2 DEF RequestRestore, RestoreStep, RestoreFails, CheckpointForRestore,
               CaptureVersion, VersionSaved, RestoreLands, RestoreDone
        <3>2. QED
            BY <1>3, <1>4, <3>1
    <2>3. QED
        BY <2>1, <2>2
<1>9. QED
    BY <1>1, <1>2, <1>5, <1>6, <1>7, <1>8 DEF Next, Load

(* With two restores at most, whatever else happens, each runs alone; and  *)
(* a checkpoint ends before the room it is of is gone.                     *)
THEOREM RestoresTakeTurns ==
    ~AmbiguousPuts /\ TwoRestores /\ MaxReloads = 0 => (Spec => []Orderly)
<1> SUFFICES ASSUME ~AmbiguousPuts, TwoRestores, MaxReloads = 0 PROVE Spec => []Orderly
    OBVIOUS
<1>1. Init => Orderly
    BY NoCheckpointIs DEF Init, Orderly, OneAtATime, NothingLeftBehind, Active, NoRestoration
<1>2. IInv /\ Orderly /\ [Next]_vars => IInv' /\ Orderly'
    <2> SUFFICES ASSUME IInv, Orderly, [Next]_vars PROVE IInv' /\ Orderly'
        OBVIOUS
    <2>1. Orderly'
        BY OneStep, BehindStep DEF IInv, Shape, Orderly
    <2>2. QED
        BY <2>1, IInvStep
<1>3. QED
    BY <1>1, <1>2, IInvAtFirst, PTL DEF Spec

(* The three, with hypotheses about the constants only.                    *)
THEOREM TwoRestoresAreSafe ==
    ~AmbiguousPuts /\ TwoRestores /\ MaxReloads = 0 =>
        (Spec => []NothingLost /\ []RestartKeepsTheDocument /\ KeptDocument)
<1> SUFFICES ASSUME ~AmbiguousPuts, TwoRestores, MaxReloads = 0
             PROVE  Spec => []NothingLost /\ []RestartKeepsTheDocument /\ KeptDocument
    OBVIOUS
<1>1. Spec => []Orderly
    BY RestoresTakeTurns
<1>2. /\ Spec /\ []Orderly => []NothingLost
      /\ Spec /\ []Orderly => []RestartKeepsTheDocument
      /\ Spec /\ []Orderly => KeptDocument
    BY NothingIsLost, RestartsKeepTheDocument, DocumentIsKept
<1>3. QED
    BY <1>1, <1>2, PTL

================================================================================
