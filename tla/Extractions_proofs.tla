------------------------ MODULE Extractions_proofs ------------------------
(***************************************************************************)
(* What Extractions says of the rows and of the file of a response, for    *)
(* any objects, places, boxes, filters, times and batches.                 *)
(*                                                                         *)
(* The definitions here have the versions V, the members M and the request *)
(* q as parameters, to speak of them before and after a step.              *)
(***************************************************************************)
EXTENDS Extractions, BoundingBox_proofs, Versions_proofs

MembersIn(M, o, n) == {m.member : m \in {m \in M : m.collection = o /\ m.version = n}}

Existed(V, t, T) ==
    {v \in V :
        /\ v.from <= t /\ v.from <= T /\ ~v.deleted
        /\ \A w \in V : w.object = v.object /\ w.from <= t /\ w.from <= T
                            => w.from <= v.from}

Within(q, o) == Contains(q.box, Place[o], 0)

(* The start of the request q for who reads "latest" at T, and its end.    *)
StartAt(q, T) == IF q.start = Latest THEN T ELSE q.start
EndOf(q) == IF q.end = Latest THEN Forever ELSE q.end

FeatureRows(V, q, T) ==
    {RowOf(v) : v \in {v \in UNION {Existed(V, t, T) : t \in StartAt(q, T)..EndOf(q)} :
                        v.object \in Features /\ Within(q, v.object)}}

ContributionRows(V, q, T) ==
    {RowOf(v) : v \in {v \in V :
        /\ v.object \in Features /\ Within(q, v.object)
        /\ v.from \in StartAt(q, T)..T
        /\ q.end # Latest => v.from < EndOf(q)}}

(* The collections that a cursor opened at T lists, and its rows.          *)
Listed(V, M, q, T) ==
    {c \in Existed(V, StartAt(q, T), T) :
        /\ c.object \in Collections
        /\ \E m \in MembersIn(M, c.object, c.from) : Within(q, m)}

ListRow(M, c) ==
    [object |-> c.object, version |-> c.from, of |-> c.object,
     geom |-> {Place[m] : m \in MembersIn(M, c.object, c.from)}]

CursorRows(V, M, q, T) ==
    CASE q.kind = "features"      -> FeatureRows(V, q, T)
      [] q.kind = "contributions" -> ContributionRows(V, q, T)
      [] OTHER                    -> {ListRow(M, c) : c \in Listed(V, M, q, T)}

(* The members of the listed c that are read at T, and what it becomes.    *)
MembersAt(V, M, q, c, T) ==
    {v \in Existed(V, StartAt(q, T), T) :
        /\ v.object \in MembersIn(M, c.object, c.version) \cap q.filter
        /\ q.clip => Within(q, v.object)}

RowsAt(V, M, q, c, T) ==
    LET at == MembersAt(V, M, q, c, T)
    IN  IF q.kind = "members" THEN {MemberRow(c, v) : v \in at}
        ELSE {CollectionRow(c, {Place[v.object] : v \in at}) :
                w \in {w \in at : Within(q, w.object)}}
-----------------------------------------------------------------------------
Started == pc \notin {"request", "refused"}

Cursor == CursorRows(versions, members, request, opened)

(* What the cursor listed and the client cannot have yet.                  *)
Undelivered == rows \cup (IF pc = "join" THEN batch ELSE {})

Got(c) == {r \in Rows(body) : r.of = c.object}

Settled(c) ==
    \E T \in opened..last : Got(c) = RowsAt(versions, members, request, c, T)

OpeningFits ==
    /\ last >= 1
    /\ ~Started => opened = 0
    /\ Started => opened \in 1..last /\ Accepted(request.box)

(* A batch that is not full was the last one.                              *)
BatchFits ==
    /\ IsFiniteSet(rows) /\ IsFiniteSet(batch)
    /\ pc = "join" => rows \cap batch = {}
    /\ pc = "join" /\ Cardinality(batch) < BatchSize => rows = {}
    /\ pc \in {"close", "complete"} => rows = {}

SinkFits ==
    /\ ~Started => buffer = <<>> /\ body = <<>> /\ bounds = {}
    /\ pc \in {"fetch", "join", "close"} =>
         /\ bounds = Hull(Reach(Rows(body)))
         /\ \/ buffer = <<FileHead>> /\ body = <<>>
            \/ /\ buffer = <<>> /\ Len(body) >= 1
               /\ \A i \in DOMAIN body :
                     body[i].part = IF i = 1 THEN "head" ELSE "batch"

(* Every row that the cursor has delivered was written, and no other.      *)
PlainFits ==
    /\ Rows(body) \subseteq Cursor
    /\ pc # "cut" => Cursor \ Undelivered \subseteq Rows(body)

(* Of every collection that the cursor has delivered the client has what   *)
(* it was at one moment, of the others nothing.                            *)
NestedFits ==
    /\ \A r \in Rows(body) : \E c \in Cursor : r.of = c.object
    /\ \A c \in Cursor : Got(c) = {} \/ Settled(c)
    /\ pc # "cut" => \A c \in Cursor : IF c \in Undelivered THEN Got(c) = {} ELSE Settled(c)

RowsFit ==
    Started /\ ReachesTheMap(request.box) =>
        /\ Undelivered \subseteq Cursor
        /\ IF ReadsTwice THEN NestedFits ELSE PlainFits

IInv ==
    /\ TypeOK /\ HistoryFits /\ OpeningFits /\ BatchFits
    /\ SinkFits /\ OnlyWholeFilesHaveFooters /\ RowsFit
-----------------------------------------------------------------------------
(* A finite set has subsets of every size up to its own.                   *)
LEMMA SubsetOfSize ==
  ASSUME NEW R, IsFiniteSet(R), NEW k \in Nat, k <= Cardinality(R)
  PROVE  \E S \in SUBSET R : Cardinality(S) = k
  <1>. DEFINE T == {S \in SUBSET R : k <= Cardinality(S)}
  <1>1. T \subseteq SUBSET R /\ R \in T
    OBVIOUS
  <1>2. PICK S \in T : \A y \in T : ~(y \subseteq S /\ y # S)
    <2>. HIDE DEF T
    <2>. QED BY <1>1, SmallestSubset
  <1>3. IsFiniteSet(S) /\ Cardinality(S) \in Nat /\ k <= Cardinality(S)
    BY FS_Subset, FS_CardinalityType
  <1>4. ASSUME k < Cardinality(S)
        PROVE  FALSE
    <2>1. S # {}
      BY <1>3, <1>4, FS_EmptySet
    <2>2. PICK x \in S : TRUE
      BY <2>1
    <2>3. IsFiniteSet(S \ {x}) /\ Cardinality(S \ {x}) = Cardinality(S) - 1
      BY <1>3, FS_RemoveElement
    <2>4. S \ {x} \in T
      BY <1>3, <1>4, <2>3
    <2>. QED BY <1>2, <2>2, <2>4
  <1>. QED BY <1>3, <1>4

(* A set of longitudes that is not empty has a least and a greatest one.   *)
LEMMA LeastAndGreatest ==
  ASSUME NEW a \in Int, NEW b \in Int, NEW E, E \subseteq a..b, E # {}
  PROVE  /\ Min(E) \in E /\ \A x \in E : Min(E) <= x
         /\ Max(E) \in E /\ \A x \in E : x <= Max(E)
  <1>. DEFINE S == a..b
              Up == {x..b : x \in E}
              Down == {a..x : x \in E}
  <1>1. IsFiniteSet(S)
    BY FS_Interval
  <1>2. \E x \in E : \A y \in E : y <= x
    <2>1. Up \subseteq SUBSET S /\ Up # {}
      <3>1. \A x \in E : x..b \subseteq S
        OBVIOUS
      <3>. QED BY <3>1
    <2>2. PICK u \in Up : \A y \in Up : ~(y \subseteq u /\ y # u)
      <3>. HIDE DEF S, Up
      <3>. QED BY <1>1, <2>1, SmallestSubset
    <2>3. PICK x \in E : u = x..b
      BY <2>2
    <2>4. ASSUME NEW y \in E, ~(y <= x)
          PROVE  FALSE
      <3>1. y..b \subseteq x..b /\ x \in x..b /\ x \notin y..b
        BY <2>4
      <3>. QED BY <2>2, <2>3, <3>1
    <2>. QED BY <2>4
  <1>3. \E x \in E : \A y \in E : x <= y
    <2>1. Down \subseteq SUBSET S /\ Down # {}
      <3>1. \A x \in E : a..x \subseteq S
        OBVIOUS
      <3>. QED BY <3>1
    <2>2. PICK u \in Down : \A y \in Down : ~(y \subseteq u /\ y # u)
      <3>. HIDE DEF S, Down
      <3>. QED BY <1>1, <2>1, SmallestSubset
    <2>3. PICK x \in E : u = a..x
      BY <2>2
    <2>4. ASSUME NEW y \in E, ~(x <= y)
          PROVE  FALSE
      <3>1. a..y \subseteq a..x /\ x \in a..x /\ x \notin a..y
        BY <2>4
      <3>. QED BY <2>2, <2>3, <3>1
    <2>. QED BY <2>4
  <1>4. \E x \in E : \A y \in E : x >= y
    BY <1>2
  <1>. QED BY <1>3, <1>4 DEF Min, Max

(* The box of all rows grows with the rows.                                *)
LEMMA HullGrows ==
  ASSUME NEW A, A \subseteq Longitudes, NEW B, B \subseteq Longitudes
  PROVE  /\ Hull(A) \subseteq Longitudes
         /\ Hull(Hull(A) \cup B) = Hull(A \cup B)
  <1>. DEFINE a == -HalfTurn + 1
              b == HalfTurn - 1
  <1>1. a \in Int /\ b \in Int /\ Longitudes = a..b
    BY Angles DEF Longitudes
  <1>. HIDE DEF a, b
  <1>2. \A E : E \subseteq Longitudes /\ E # {} =>
          /\ Hull(E) = {Min(E), Max(E)}
          /\ Min(E) \in E /\ \A x \in E : Min(E) <= x
          /\ Max(E) \in E /\ \A x \in E : x <= Max(E)
    BY <1>1, LeastAndGreatest DEF Hull
  <1>3. Hull({}) = {}
    BY DEF Hull
  <1>4. Hull(A) \subseteq Longitudes
    BY <1>2, <1>3
  <1>5. CASE A = {}
    BY <1>3, <1>5
  <1>6. CASE A # {}
    <2>. DEFINE C == Hull(A) \cup B
                D == A \cup B
    <2>1. Hull(A) = {Min(A), Max(A)} /\ Min(A) \in A /\ Max(A) \in A
      BY <1>2, <1>6
    <2>2. C \subseteq D /\ D \subseteq Longitudes /\ C # {} /\ D # {}
      BY <1>6, <2>1
    <2>3. \A x \in D : (\E y \in C : y <= x) /\ (\E y \in C : x <= y)
      <3>1. \A x \in A : Min(A) <= x /\ x <= Max(A)
        BY <1>2, <1>6
      <3>2. \A x \in B : x <= x
        BY <1>1
      <3>. QED BY <2>1, <3>1, <3>2
    <2>. HIDE DEF C, D
    <2>4. /\ Min(C) \in C /\ \A x \in C : Min(C) <= x
          /\ Max(C) \in C /\ \A x \in C : x <= Max(C)
          /\ Min(D) \in D /\ \A x \in D : Min(D) <= x
          /\ Max(D) \in D /\ \A x \in D : x <= Max(D)
          /\ Hull(C) = {Min(C), Max(C)} /\ Hull(D) = {Min(D), Max(D)}
      BY <1>2, <2>2
    <2>5. \A x \in D : x \in Int
      BY <1>1, <2>2
    <2>6. Min(C) = Min(D)
      <3>1. Min(D) <= Min(C)
        BY <2>2, <2>4
      <3>2. PICK y \in C : y <= Min(D)
        BY <2>3, <2>4
      <3>. QED BY <2>2, <2>4, <2>5, <3>1, <3>2
    <2>7. Max(C) = Max(D)
      <3>1. Max(C) <= Max(D)
        BY <2>2, <2>4
      <3>2. PICK y \in C : Max(D) <= y
        BY <2>3, <2>4
      <3>. QED BY <2>2, <2>4, <2>5, <3>1, <3>2
    <2>. QED BY <1>4, <2>4, <2>6, <2>7 DEF C, D
  <1>. QED BY <1>4, <1>5, <1>6
-----------------------------------------------------------------------------
LEMMA RequestFields ==
  ASSUME NEW q \in Requests
  PROVE  /\ q.kind \in {"features", "contributions", "collections", "members"}
         /\ q.filter \subseteq Features /\ q.clip \in BOOLEAN /\ q.box \in Box
         /\ q.start \in Times \/ q.start = Latest
         /\ q.end \in Times \/ q.end = Latest
         /\ q.start = Latest => q.end = Latest /\ q.kind # "contributions"
         /\ q.start # Latest /\ q.end # Latest => q.start <= q.end
         /\ q.kind \in {"collections", "members"} => q.start = q.end
  <1>1. q \in Parameters
    BY DEF Requests, FeaturesRequests, ContributionsRequests, CollectionsRequests
  <1>2. q.filter \subseteq Features /\ q.box \in Box
    BY <1>1, FiltersLetPass, BoxesAreBoxes DEF Parameters
  <1>3. /\ q.kind = "contributions" => TimeRange(q)
        /\ q.kind \in {"collections", "members"} => PointInTime(q)
        /\ PointInTime(q) \/ TimeRange(q)
    BY DEF Requests, FeaturesRequests, ContributionsRequests, CollectionsRequests
  <1>4. Times \subseteq Int /\ Latest \notin Times
    BY VersionBounds, LatestIsNoTime DEF Times
  <1>5. /\ q.kind \in {"features", "contributions", "collections", "members"}
        /\ q.clip \in BOOLEAN
        /\ q.start \in Times \cup {Latest} /\ q.end \in Times \cup {Latest}
    BY <1>1 DEF Parameters
  <1>. DEFINE a == q.start
              b == q.end
  <1>6. /\ q.kind = "contributions" => a # Latest /\ (b # Latest => b > a)
        /\ q.kind \in {"collections", "members"} => a = b
        /\ a = b \/ (a # Latest /\ (b # Latest => b > a))
    BY <1>3 DEF PointInTime, TimeRange
  <1>7. a \in Times \cup {Latest} /\ b \in Times \cup {Latest}
    BY <1>5
  <1>. HIDE DEF a, b
  <1>8. /\ a = Latest => b = Latest /\ q.kind # "contributions"
        /\ a # Latest /\ b # Latest => a <= b
    BY <1>4, <1>6, <1>7
  <1>. QED BY <1>2, <1>5, <1>6, <1>8 DEF a, b

LEMMA AreaIsBox ==
  ASSUME request \in Requests, Accepted(request.box), ReachesTheMap(request.box),
         NEW o \in Features
  PROVE  /\ InArea(o) <=> Within(request, o)
         /\ InArea(o) \in BOOLEAN /\ Within(request, o) \in BOOLEAN
         /\ InBox(o) <=> Within(request, o)
  <1>1. request.box \in Box /\ Place[o] \in Longitudes
    BY RequestFields, FeaturesHavePlaces
  <1>. QED BY <1>1, BoxSelectsWhatItMeans DEF InArea, Within, InBox, Intersects, Contains

LEMMA MembersAreFeatures ==
  ASSUME NEW M, M \subseteq Member, NEW o, NEW n
  PROVE  MembersIn(M, o, n) \subseteq Features
  BY DEF MembersIn, Member

(* What exists at t, as of T, is what is valid at the earlier one of them. *)
LEMMA ExistedIsValid ==
  ASSUME NEW db, Chained(db), NEW t \in Nat, NEW T \in 0..Horizon,
         NEW m, m = IF t <= T THEN t ELSE T
  PROVE  Existed(db, t, T) = {v \in db : ~v.deleted /\ v.from <= m /\ m < v.to}
  <1>1. m \in Nat /\ m <= Horizon /\ Horizon \in Nat /\ T \in Nat
    BY VersionBounds
  <1>2. \A x \in Nat : x <= t /\ x <= T <=> x <= m
    BY <1>1
  <1>3. \A w \in db : w.from \in Nat
    BY VersionFields DEF Chained
  <1>4. \A w \in db : w.from <= t /\ w.from <= T <=> w.from <= m
    BY <1>2, <1>3
  <1>. HIDE DEF Chained
  <1>5. ASSUME NEW v \in db, v.from <= m
        PROVE  m < v.to <=> \A w \in db : w.object = v.object /\ w.from <= t /\ w.from <= T
                                            => w.from <= v.from
    <2>1. m < v.to <=> \A w \in db : w.object = v.object /\ w.from <= m => w.from <= v.from
      BY <1>1, <1>5, NewestIsValid
    <2>. QED BY <1>4, <2>1
  <1>. QED BY <1>4, <1>5 DEF Existed

(* An object exists in one version.                                        *)
LEMMA OneExisted ==
  ASSUME NEW db, Chained(db), NEW t, NEW T,
         NEW v \in Existed(db, t, T), NEW w \in Existed(db, t, T),
         v.object = w.object
  PROVE  v = w
  <1>1. /\ v \in db /\ w \in db /\ v.from <= w.from /\ w.from <= v.from
    BY DEF Existed
  <1>2. v.from \in Nat /\ w.from \in Nat
    BY <1>1, VersionFields DEF Chained
  <1>3. v.from = w.from
    BY <1>1, <1>2
  <1>. QED BY <1>1, <1>3, ChainedKeys

(* The time clauses of the SQL, in terms of what exists.                   *)
LEMMA ValidAtTimeIs ==
  ASSUME HistoryFits, request \in Requests, NEW v \in versions
  PROVE  ValidAtTime(v) <=> v \in Existed(versions, StartAt(request, last), last)
  <1>. DEFINE t == StartAt(request, last)
              m == IF t <= last THEN t ELSE last
  <1>1. /\ last \in 0..Horizon /\ Chained(versions) /\ t \in Nat /\ t <= Horizon
        /\ request.start # Latest => t = request.start
        /\ request.start = Latest => t = last
    BY VersionBounds, RequestFields DEF HistoryFits, VersionsTypeOK, StartAt, Times
  <1>2. /\ v.from \in Nat /\ v.to \in Nat /\ v.from <= last /\ v.from < v.to
        /\ v.to = Forever \/ v.to <= last
        /\ Horizon \in Nat /\ Forever = Horizon + 1 /\ v.deleted \in BOOLEAN
    BY VersionFields DEF HistoryFits, Chained
  <1>. HIDE DEF t
  <1>3. v \in Existed(versions, t, last) <=> ~v.deleted /\ v.from <= m /\ m < v.to
    BY <1>1, ExistedIsValid
  <1>4. CASE request.start = Latest
    <2>1. ValidAtTime(v) <=> ~v.deleted /\ v.to = Forever
      BY <1>4 DEF ValidAtTime, Status
    <2>2. v.from <= m /\ (m < v.to <=> v.to = Forever)
      BY <1>1, <1>2, <1>4
    <2>. QED BY <1>3, <2>1, <2>2 DEF t
  <1>5. CASE request.start # Latest
    <2>1. ValidAtTime(v) <=> ~v.deleted /\ v.from <= t /\ v.to > t
      BY <1>1, <1>5 DEF ValidAtTime, Status
    <2>2. v.from <= t /\ v.to > t <=> v.from <= m /\ m < v.to
      BY <1>1, <1>2
    <2>. QED BY <1>3, <2>1, <2>2 DEF t
  <1>. QED BY <1>4, <1>5

LEMMA FilterByTimeIs ==
  ASSUME HistoryFits, request \in Requests, NEW v \in versions
  PROVE  FilterByTime(v) <=>
            \E t \in StartAt(request, last)..EndOf(request) : v \in Existed(versions, t, last)
  <1>. DEFINE s == StartAt(request, last)
              e == EndOf(request)
              m(t) == IF t <= last THEN t ELSE last
  <1>1. /\ last \in 0..Horizon /\ Chained(versions) /\ Horizon \in Nat /\ Forever = Horizon + 1
        /\ s \in Nat /\ s <= Horizon /\ e \in Nat /\ e <= Forever /\ s <= e
        /\ request.start # Latest => s = request.start
        /\ request.start = Latest => s = last /\ e = Forever
        /\ request.end # Latest => e = request.end
        /\ request.end = Latest => e = Forever
    BY VersionBounds, RequestFields
    DEF HistoryFits, VersionsTypeOK, StartAt, EndOf, Times, Forever
  <1>2. /\ v.from \in Nat /\ v.to \in Nat /\ v.from <= last /\ v.from < v.to
        /\ v.to = Forever \/ v.to <= last
        /\ v.deleted \in BOOLEAN
    BY VersionFields DEF HistoryFits, Chained
  <1>. HIDE DEF s, e
  <1>3. ASSUME NEW t \in s..e
        PROVE  v \in Existed(versions, t, last) <=> ~v.deleted /\ v.from <= m(t) /\ m(t) < v.to
    BY <1>1, ExistedIsValid
  <1>4. CASE request.start = Latest
    <2>1. FilterByTime(v) <=> ~v.deleted /\ v.to = Forever
      BY <1>4 DEF FilterByTime, Status
    <2>2. \A t \in s..e : v.from <= m(t) /\ (m(t) < v.to <=> v.to = Forever)
      BY <1>1, <1>2, <1>4
    <2>3. s \in s..e
      BY <1>1
    <2>. QED BY <1>3, <2>1, <2>2, <2>3 DEF s, e
  <1>5. CASE request.start # Latest
    <2>1. FilterByTime(v) <=> ~v.deleted /\ v.to > s /\ (request.end # Latest => v.from <= e)
      BY <1>1, <1>5 DEF FilterByTime, Status
    <2>2. ASSUME v.to > s, request.end # Latest => v.from <= e
          PROVE  \E t \in s..e : v.from <= m(t) /\ m(t) < v.to
      <3>. DEFINE t == IF v.from <= s THEN s ELSE v.from
      <3>1. t \in s..e /\ v.from <= m(t) /\ m(t) < v.to
        BY <1>1, <1>2, <2>2
      <3>. QED BY <3>1
    <2>3. ASSUME NEW t \in s..e, v.from <= m(t), m(t) < v.to
          PROVE  v.to > s /\ v.from <= e
      BY <1>1, <1>2, <2>3
    <2>. HIDE DEF m
    <2>. QED BY <1>3, <2>1, <2>2, <2>3 DEF s, e
  <1>. QED BY <1>4, <1>5

LEMMA MembersOfIs == \A o, n : MembersOf(o, n) = MembersIn(members, o, n)
  BY DEF MembersOf, MembersIn

(* The cursor lists what the request means, as of the moment it is opened. *)
LEMMA CursorSelects ==
  ASSUME HistoryFits, TypeOK, Accepted(request.box), ReachesTheMap(request.box)
  PROVE  Selected = CursorRows(versions, members, request, last)
  <1>1. request \in Requests /\ members \subseteq Member
    BY DEF TypeOK
  <1>2. CASE request.kind = "features"
    <2>1. {v \in versions : v.object \in Features /\ InArea(v.object) /\ FilterByTime(v)}
            = {v \in UNION {Existed(versions, t, last) :
                              t \in StartAt(request, last)..EndOf(request)} :
                 v.object \in Features /\ Within(request, v.object)}
      <3>1. \A t : Existed(versions, t, last) \subseteq versions
        BY DEF Existed
      <3>. QED BY <1>1, <3>1, AreaIsBox, FilterByTimeIs
    <2>. QED BY <1>2, <2>1 DEF Selected, SelectedFeatures, CursorRows, FeatureRows
  <1>3. CASE request.kind = "contributions"
    <2>1. request.start \in Nat /\ StartAt(request, last) = request.start
      BY <1>1, <1>3, RequestFields, VersionBounds DEF StartAt, Times
    <2>2. \A v \in versions : v.from \in Nat /\ v.from <= last
      BY VersionFields DEF HistoryFits, Chained
    <2>3. last \in Nat
      BY DEF HistoryFits, VersionsTypeOK
    <2>4. \A v \in versions : EditedInRange(v) <=>
              /\ v.from \in StartAt(request, last)..last
              /\ request.end # Latest => v.from < EndOf(request)
      BY <2>1, <2>2, <2>3 DEF EditedInRange, EndOf
    <2>5. {v \in versions : v.object \in Features /\ InArea(v.object) /\ EditedInRange(v)}
            = {v \in versions :
                /\ v.object \in Features /\ Within(request, v.object)
                /\ v.from \in StartAt(request, last)..last
                /\ request.end # Latest => v.from < EndOf(request)}
      BY <1>1, <2>4, AreaIsBox
    <2>. QED BY <1>3, <2>5 DEF Selected, SelectedContributions, CursorRows, ContributionRows
  <1>4. CASE request.kind \notin {"features", "contributions"}
    <2>1. {v \in versions : /\ v.object \in Collections /\ ValidAtTime(v)
                            /\ \E m \in MembersOf(v.object, v.from) : InArea(m)}
            = Listed(versions, members, request, last)
      <3>1. Existed(versions, StartAt(request, last), last) \subseteq versions
        BY DEF Existed
      <3>2. \A v \in versions : \A m \in MembersOf(v.object, v.from) :
                InArea(m) <=> Within(request, m)
        BY <1>1, MembersOfIs, MembersAreFeatures, AreaIsBox
      <3>. QED BY <1>1, <3>1, <3>2, ValidAtTimeIs, MembersOfIs DEF Listed
    <2>2. SelectedCollections = {ListRow(members, c) : c \in Listed(versions, members, request, last)}
      BY <2>1, MembersOfIs DEF SelectedCollections, ListRow
    <2>. QED BY <1>4, <2>2 DEF Selected, CursorRows
  <1>. QED BY <1>2, <1>3, <1>4
-----------------------------------------------------------------------------
(* No edit changes what existed as of an earlier time, but for the ends of *)
(* the versions.                                                           *)
LEMMA EditKeepsExisted ==
  ASSUME HistoryFits, NEW o, NEW t, NEW tag, NEW deleted,
         Ingest(o, t, tag, deleted), NEW T \in Nat, T <= last, NEW x
  PROVE  Existed(versions', x, T) = {Edited(v, o, t) : v \in Existed(versions, x, T)}
  <1>. DEFINE e(v) == Edited(v, o, t)
              new == Edit(o, t, tag, deleted)
  <1>1. /\ versions' = {e(v) : v \in versions} \cup {new}
        /\ t \in last + 1..Horizon
    BY IngestChanges
  <1>2. /\ versions \subseteq Version /\ last \in Nat /\ t \in Nat /\ t > T
        /\ t \in 1..Horizon /\ Horizon \in Nat /\ new.from = t
    BY <1>1, VersionBounds DEF HistoryFits, VersionsTypeOK, Edit
  <1>3. \A v \in versions : /\ e(v).object = v.object /\ e(v).from = v.from
                            /\ e(v).deleted = v.deleted
    BY <1>2, EditedFields
  <1>. HIDE DEF e, new
  <1>. DEFINE Known(v) == v.from <= x /\ v.from <= T
              Newest(V, v) == \A w \in V : w.object = v.object /\ Known(w) => w.from <= v.from
  <1>4. ~Known(new)
    BY <1>2
  <1>5. \A V : Existed(V, x, T) = {v \in V : Known(v) /\ ~v.deleted /\ Newest(V, v)}
    BY DEF Existed
  <1>6. \A v \in versions : Known(e(v)) <=> Known(v)
    BY <1>3
  <1>7. ASSUME NEW v \in versions
        PROVE  Newest(versions', e(v)) <=> Newest(versions, v)
    <2>. HIDE DEF Known
    <2>. QED BY <1>1, <1>3, <1>4, <1>6
  <1>. HIDE DEF Known, Newest
  <1>. QED BY <1>1, <1>3, <1>4, <1>5, <1>6, <1>7 DEF e

(* An edit changes neither the rows of a cursor that was opened before it  *)
(* nor those that were joined before it.                                   *)
LEMMA EditKeepsRows ==
  ASSUME HistoryFits, NEW o, NEW t, NEW tag, NEW deleted,
         Ingest(o, t, tag, deleted), NEW N, \A n \in N : n.version = t,
         members' = members \cup N, NEW q, NEW T \in Nat, T <= last, NEW r
  PROVE  /\ CursorRows(versions', members', q, T) = CursorRows(versions, members, q, T)
         /\ r.version \in 1..last =>
                RowsAt(versions', members', q, r, T) = RowsAt(versions, members, q, r, T)
  <1>. DEFINE e(v) == Edited(v, o, t)
  <1>1. /\ versions \subseteq Version /\ last \in Nat /\ t \in Nat /\ t > last
        /\ t \in 1..Horizon
    BY IngestChanges, VersionBounds DEF HistoryFits, VersionsTypeOK
  <1>2. \A v \in versions : /\ e(v).object = v.object /\ e(v).from = v.from
                            /\ e(v).deleted = v.deleted
    BY <1>1, EditedFields
  <1>3. \A x : /\ Existed(versions', x, T) = {e(v) : v \in Existed(versions, x, T)}
               /\ Existed(versions, x, T) \subseteq versions
    BY EditKeepsExisted DEF Existed
  <1>4. ASSUME NEW ob, NEW n, n <= last, n \in Nat
        PROVE  MembersIn(members', ob, n) = MembersIn(members, ob, n)
    BY <1>1, <1>4 DEF MembersIn
  <1>5. \A v \in versions : v.from \in Nat /\ v.from <= last
    BY VersionFields DEF HistoryFits, Chained
  <1>6. \A v \in versions : RowOf(e(v)) = RowOf(v) /\ \A c : MemberRow(c, e(v)) = MemberRow(c, v)
    BY <1>2 DEF RowOf, MemberRow
  <1>. HIDE DEF e
  <1>7. FeatureRows(versions', q, T) = FeatureRows(versions, q, T)
    <2>. DEFINE In(v) == v.object \in Features /\ Within(q, v.object)
                Times_ == StartAt(q, T)..EndOf(q)
                Old == UNION {Existed(versions, x, T) : x \in Times_}
                New == UNION {Existed(versions', x, T) : x \in Times_}
    <2>1. New = {e(v) : v \in Old} /\ Old \subseteq versions
      <3>. HIDE DEF Times_
      <3>. QED BY <1>3
    <2>2. \A v \in Old : In(e(v)) <=> In(v)
      BY <1>2, <2>1
    <2>. HIDE DEF In, Old, New
    <2>3. {RowOf(v) : v \in {v \in New : In(v)}} = {RowOf(v) : v \in {v \in Old : In(v)}}
      BY <1>6, <2>1, <2>2
    <2>. QED BY <2>3 DEF FeatureRows, In, Old, New
  <1>8. ContributionRows(versions', q, T) = ContributionRows(versions, q, T)
    <2>. DEFINE new == Edit(o, t, tag, deleted)
                In(v) == /\ v.object \in Features /\ Within(q, v.object)
                         /\ v.from \in StartAt(q, T)..T
                         /\ q.end # Latest => v.from < EndOf(q)
    <2>1. versions' = {e(v) : v \in versions} \cup {new} /\ new.from = t
      BY IngestChanges DEF e, Edit
    <2>2. ~In(new)
      BY <1>1, <2>1
    <2>3. \A v \in versions : In(e(v)) <=> In(v)
      BY <1>2
    <2>. HIDE DEF In, new
    <2>4. {RowOf(v) : v \in {v \in versions' : In(v)}} = {RowOf(v) : v \in {v \in versions : In(v)}}
      BY <1>6, <2>1, <2>2, <2>3
    <2>. QED BY <2>4 DEF ContributionRows, In
  <1>9. {ListRow(members', c) : c \in Listed(versions', members', q, T)}
          = {ListRow(members, c) : c \in Listed(versions, members, q, T)}
    <2>1. \A v \in versions :
              /\ MembersIn(members', v.object, v.from) = MembersIn(members, v.object, v.from)
              /\ ListRow(members', e(v)) = ListRow(members, v)
      BY <1>2, <1>4, <1>5 DEF ListRow
    <2>. DEFINE In(M, c) == /\ c.object \in Collections
                            /\ \E m \in MembersIn(M, c.object, c.from) : Within(q, m)
                E == Existed(versions, StartAt(q, T), T)
                E_ == Existed(versions', StartAt(q, T), T)
                old(c) == ListRow(members, c)
                new(c) == ListRow(members', c)
    <2>2. \A v \in versions : In(members', e(v)) <=> In(members, v)
      BY <1>2, <2>1
    <2>3. E_ = {e(v) : v \in E} /\ E \subseteq versions
      BY <1>3
    <2>4. /\ Listed(versions', members', q, T) = {c \in E_ : In(members', c)}
          /\ Listed(versions, members, q, T) = {c \in E : In(members, c)}
      BY DEF Listed
    <2>5. \A v \in versions : new(e(v)) = old(v)
      BY <2>1
    <2>. HIDE DEF In, E, E_, old, new
    <2>6. {new(c) : c \in {c \in E_ : In(members', c)}} = {old(c) : c \in {c \in E : In(members, c)}}
      BY <2>2, <2>3, <2>5
    <2>. QED BY <2>4, <2>6 DEF old, new
  <1>10. ASSUME r.version \in 1..last
         PROVE  RowsAt(versions', members', q, r, T) = RowsAt(versions, members, q, r, T)
    <2>. DEFINE Old == MembersAt(versions, members, q, r, T)
                New == MembersAt(versions', members', q, r, T)
    <2>1. MembersIn(members', r.object, r.version) = MembersIn(members, r.object, r.version)
      BY <1>1, <1>4, <1>10
    <2>2. New = {e(v) : v \in Old} /\ Old \subseteq versions
      BY <1>2, <1>3, <2>1 DEF MembersAt
    <2>. HIDE DEF Old, New
    <2>3. {MemberRow(r, v) : v \in New} = {MemberRow(r, v) : v \in Old}
      BY <1>6, <2>2
    <2>4. {Place[v.object] : v \in New} = {Place[v.object] : v \in Old}
      BY <1>2, <2>2
    <2>. DEFINE row(at) == CollectionRow(r, {Place[v.object] : v \in at})
    <2>5. row(New) = row(Old)
      BY <2>4
    <2>. HIDE DEF row
    <2>6. {row(New) : w \in {w \in New : Within(q, w.object)}}
            = {row(Old) : w \in {w \in Old : Within(q, w.object)}}
      <3>1. (\E w \in New : Within(q, w.object)) <=> (\E w \in Old : Within(q, w.object))
        BY <1>2, <2>2
      <3>. QED BY <2>5, <3>1
    <2>. QED BY <2>3, <2>6 DEF RowsAt, Old, New, row
  <1>. QED BY <1>7, <1>8, <1>9, <1>10 DEF CursorRows
-----------------------------------------------------------------------------
(* What a nested query returns is what exists at the moment of its turn.   *)
LEMMA JoinedMembersAre ==
  ASSUME HistoryFits, request \in Requests, Accepted(request.box),
         ReachesTheMap(request.box), NEW c
  PROVE  JoinedMembers(c) = MembersAt(versions, members, request, c, last)
  <1>1. Existed(versions, StartAt(request, last), last) \subseteq versions
    BY DEF Existed
  <1>2. request.filter \subseteq Features
    BY RequestFields
  <1>3. ASSUME NEW v \in versions, v.object \in request.filter
        PROVE  InArea(v.object) <=> Within(request, v.object)
    BY <1>2, <1>3, AreaIsBox
  <1>. QED BY <1>1, <1>3, ValidAtTimeIs, MembersOfIs DEF JoinedMembers, MembersAt

LEMMA ConvertedIs ==
  ASSUME HistoryFits, request \in Requests, Accepted(request.box),
         ReachesTheMap(request.box)
  PROVE  /\ ReadsTwice =>
              Converted = UNION {RowsAt(versions, members, request, c, last) : c \in batch}
         /\ ~ReadsTwice => Converted = batch
  <1>1. CASE request.kind = "collections"
    <2>1. ASSUME NEW c
          PROVE  WithMembers(c) = RowsAt(versions, members, request, c, last)
      <3>. DEFINE at == JoinedMembers(c)
                  row == CollectionRow(c, {Place[v.object] : v \in at})
      <3>1. at = MembersAt(versions, members, request, c, last)
        BY JoinedMembersAre
      <3>2. \A v \in at : v.object \in Features
        BY RequestFields DEF JoinedMembers
      <3>3. \A v \in at : InArea(v.object) <=> Within(request, v.object)
        BY <3>2, AreaIsBox
      <3>4. WithMembers(c) = IF \E v \in at : InArea(v.object) THEN {row} ELSE {}
        BY DEF WithMembers
      <3>5. RowsAt(versions, members, request, c, last)
              = {row : w \in {w \in at : Within(request, w.object)}}
        BY <1>1, <3>1 DEF RowsAt
      <3>. HIDE DEF at, row
      <3>. QED BY <3>3, <3>4, <3>5
    <2>. QED BY <1>1, <2>1 DEF Converted, ReadsTwice
  <1>2. CASE request.kind = "members"
    <2>1. ASSUME NEW c
          PROVE  {MemberRow(c, v) : v \in JoinedMembers(c)}
                   = RowsAt(versions, members, request, c, last)
      BY <1>2, JoinedMembersAre DEF RowsAt
    <2>. QED BY <1>2, <2>1 DEF Converted, ReadsTwice
  <1>3. CASE request.kind \notin {"collections", "members"}
    BY <1>3 DEF Converted, ReadsTwice
  <1>. QED BY <1>1, <1>2, <1>3

LEMMA RowTypes ==
  ASSUME TypeOK
  PROVE  Selected \subseteq Row /\ Converted \subseteq Row
  <1>1. /\ versions \subseteq Version /\ members \subseteq Member
        /\ request \in Requests /\ batch \subseteq Row
    BY DEF TypeOK, VersionsTypeOK
  <1>2. \A v \in versions :
            /\ v.object \in Objects /\ v.from \in 1..Horizon
            /\ v.object \in Features => {Place[v.object]} \subseteq Longitudes
    BY <1>1, FeaturesHavePlaces DEF Version
  <1>3. \A v \in versions : v.object \in Features => RowOf(v) \in Row
    BY <1>2 DEF RowOf, Row
  <1>4. \A v \in versions :
            v.object \in Features => \A c \in Row : MemberRow(c, v) \in Row
    BY <1>2 DEF RowOf, MemberRow, Row
  <1>5. \A c \in Row, geom \in SUBSET Longitudes : CollectionRow(c, geom) \in Row
    BY DEF CollectionRow, Row
  <1>6. ASSUME NEW c
        PROVE  /\ \A v \in JoinedMembers(c) : v \in versions /\ v.object \in Features
               /\ {Place[v.object] : v \in JoinedMembers(c)} \subseteq Longitudes
    <2>1. \A v \in JoinedMembers(c) : v \in versions /\ v.object \in Features
      BY <1>1, RequestFields DEF JoinedMembers
    <2>. QED BY <1>2, <2>1
  <1>7. SelectedCollections \subseteq Row
    <2>1. ASSUME NEW v \in versions
          PROVE  {Place[m] : m \in MembersOf(v.object, v.from)} \subseteq Longitudes
      BY <1>1, MembersOfIs, MembersAreFeatures, FeaturesHavePlaces
    <2>. QED BY <1>2, <2>1 DEF SelectedCollections, Row
  <1>8. Selected \subseteq Row
    BY <1>3, <1>7 DEF Selected, SelectedFeatures, SelectedContributions
  <1>9. \A c \in batch : WithMembers(c) \subseteq Row
    BY <1>1, <1>5, <1>6 DEF WithMembers
  <1>10. \A c \in batch : {MemberRow(c, v) : v \in JoinedMembers(c)} \subseteq Row
    BY <1>1, <1>4, <1>6
  <1>11. Converted \subseteq Row
    BY <1>1, <1>9, <1>10 DEF Converted
  <1>. QED BY <1>8, <1>11

LEMMA SelectedIsFinite ==
  ASSUME IsFiniteSet(versions)
  PROVE  IsFiniteSet(Selected)
  <1>1. ASSUME NEW V, V \subseteq versions, NEW f
        PROVE  IsFiniteSet({f[v] : v \in V})
    <2>. DEFINE g == [v \in V |-> f[v]]
    <2>1. IsFiniteSet(V)
      BY <1>1, FS_Subset
    <2>2. g \in Surjection(V, {f[v] : v \in V})
      BY Fun_IsSurj
    <2>. QED BY <2>1, <2>2, FS_Surjection
  <1>. DEFINE f == [v \in versions |-> RowOf(v)]
              g == [v \in versions |->
                      [object |-> v.object, version |-> v.from, of |-> v.object,
                       geom |-> {Place[m] : m \in MembersOf(v.object, v.from)}]]
  <1>2. ASSUME NEW V, V \subseteq versions
        PROVE  {RowOf(v) : v \in V} = {f[v] : v \in V}
    BY <1>2
  <1>3. SelectedCollections =
          {g[v] : v \in {v \in versions :
              /\ v.object \in Collections /\ ValidAtTime(v)
              /\ \E m \in MembersOf(v.object, v.from) : InArea(m)}}
    BY DEF SelectedCollections
  <1>. HIDE DEF f, g
  <1>4. IsFiniteSet(SelectedCollections)
    BY <1>1, <1>3
  <1>5. IsFiniteSet(SelectedFeatures)
    <2>. DEFINE V == {v \in versions :
                        v.object \in Features /\ InArea(v.object) /\ FilterByTime(v)}
    <2>1. SelectedFeatures = {RowOf(v) : v \in V} /\ V \subseteq versions
      BY DEF SelectedFeatures
    <2>. HIDE DEF V
    <2>2. SelectedFeatures = {f[v] : v \in V}
      BY <1>2, <2>1
    <2>. QED BY <1>1, <2>1, <2>2
  <1>6. IsFiniteSet(SelectedContributions)
    <2>. DEFINE V == {v \in versions :
                        v.object \in Features /\ InArea(v.object) /\ EditedInRange(v)}
    <2>1. SelectedContributions = {RowOf(v) : v \in V} /\ V \subseteq versions
      BY DEF SelectedContributions
    <2>. HIDE DEF V
    <2>2. SelectedContributions = {f[v] : v \in V}
      BY <1>2, <2>1
    <2>. QED BY <1>1, <2>1, <2>2
  <1>. QED BY <1>4, <1>5, <1>6 DEF Selected
-----------------------------------------------------------------------------
Chunk == [part: {"head", "batch", "footer"}, rows: SUBSET Row, box: SUBSET Int]

(* What was written before more is read: the head, and batches.            *)
Written == body \o buffer

LEMMA LongitudesAreNumbers == Longitudes \subseteq Int
  BY Angles DEF Longitudes

LEMMA RowsOfAppended ==
  ASSUME NEW s \in Seq(Chunk), NEW x \in Chunk
  PROVE  /\ Rows(Append(s, x)) = Rows(s) \cup x.rows
         /\ Append(s, x) \in Seq(Chunk) /\ Len(Append(s, x)) = Len(s) + 1
         /\ Append(s, x)[Len(s) + 1] = x
         /\ \A i \in 1..Len(s) : Append(s, x)[i] = s[i]
  <1>1. /\ Append(s, x) \in Seq(Chunk) /\ Len(Append(s, x)) = Len(s) + 1
        /\ Append(s, x)[Len(s) + 1] = x
        /\ \A i \in 1..Len(s) : Append(s, x)[i] = s[i]
        /\ DOMAIN s = 1..Len(s) /\ DOMAIN Append(s, x) = 1..Len(s) + 1
        /\ Len(s) \in Nat
    OBVIOUS
  <1>. DEFINE a == Append(s, x)
  <1>. HIDE DEF a
  <1>2. \A r : r \in Rows(a) <=> r \in Rows(s) \/ r \in x.rows
    <2>1. \A r : r \in Rows(a) <=> \E i \in 1..Len(s) + 1 : r \in a[i].rows
      BY <1>1 DEF Rows, a
    <2>2. \A r : r \in Rows(s) <=> \E i \in 1..Len(s) : r \in s[i].rows
      BY <1>1 DEF Rows
    <2>3. a[Len(s) + 1] = x /\ \A i \in 1..Len(s) : a[i] = s[i]
      BY <1>1 DEF a
    <2>4. \A i \in 1..Len(s) + 1 : i = Len(s) + 1 \/ i \in 1..Len(s)
      BY <1>1
    <2>5. Len(s) + 1 \in 1..Len(s) + 1 /\ 1..Len(s) \subseteq 1..Len(s) + 1
      BY <1>1
    <2>. QED BY <2>1, <2>2, <2>3, <2>4, <2>5
  <1>. QED BY <1>1, <1>2 DEF a

LEMMA WrittenIs ==
  ASSUME TypeOK, SinkFits, pc \in {"fetch", "join", "close"}
  PROVE  /\ Written \in Seq(Chunk) /\ Len(Written) >= 1
         /\ Rows(Written) = Rows(body) /\ Rows(body) \subseteq Row
         /\ bounds = Hull(Reach(Rows(body)))
         /\ \A i \in 1..Len(Written) :
                Written[i].part = IF i = 1 THEN "head" ELSE "batch"
  <1>1. /\ buffer \in Seq(Chunk) /\ body \in Seq(Chunk)
    BY DEF TypeOK, SinkTypeOK, Chunk
  <1>2. Rows(body) \subseteq Row
    <2>1. \A i \in DOMAIN body : body[i] \in Chunk
      BY <1>1
    <2>. QED BY <2>1 DEF Rows, Chunk
  <1>3. bounds = Hull(Reach(Rows(body)))
    BY DEF SinkFits
  <1>4. CASE buffer = <<FileHead>> /\ body = <<>>
    <2>1. Written = <<FileHead>> /\ FileHead \in Chunk
      BY <1>4 DEF Written, FileHead, Chunk
    <2>2. Rows(<<FileHead>>) = {} /\ Rows(<<>>) = {}
      BY DEF Rows, FileHead
    <2>3. FileHead.part = "head"
      BY DEF FileHead
    <2>4. Rows(Written) = Rows(body)
      BY <1>4, <2>1, <2>2
    <2>5. \A i \in 1..Len(Written) : Written[i].part = IF i = 1 THEN "head" ELSE "batch"
      BY <2>1, <2>3
    <2>6. Written \in Seq(Chunk) /\ Len(Written) >= 1
      BY <2>1
    <2>. QED BY <1>2, <1>3, <2>4, <2>5, <2>6
  <1>5. CASE /\ buffer = <<>> /\ Len(body) >= 1
             /\ \A i \in DOMAIN body : body[i].part = IF i = 1 THEN "head" ELSE "batch"
    <2>1. Written = body
      BY <1>1, <1>5 DEF Written
    <2>. QED BY <1>1, <1>2, <1>5, <1>3, <2>1
  <1>. QED BY <1>4, <1>5 DEF SinkFits

(* What one read adds to the response.                                     *)
LEMMA ReadBytesIs ==
  ASSUME TypeOK, SinkFits, pc \in {"fetch", "join", "close"},
         NEW x \in Chunk, ReadBytes(<<x>>)
  PROVE  /\ body' = Append(Written, x) /\ buffer' = <<>>
         /\ body' \in Seq(Chunk) /\ Len(body') = Len(Written) + 1
         /\ Rows(body') = Rows(body) \cup x.rows
         /\ body'[Len(body')] = x
         /\ \A i \in 1..Len(body') - 1 :
                body'[i].part = IF i = 1 THEN "head" ELSE "batch"
  <1>1. Written \in Seq(Chunk) /\ Len(Written) \in Nat
    BY WrittenIs
  <1>2. body' = Append(Written, x) /\ buffer' = <<>>
    BY <1>1 DEF ReadBytes, Written
  <1>. DEFINE w == Written
  <1>3. /\ w \in Seq(Chunk) /\ Len(w) \in Nat /\ Rows(w) = Rows(body)
        /\ \A i \in 1..Len(w) : w[i].part = IF i = 1 THEN "head" ELSE "batch"
        /\ body' = Append(w, x)
    BY <1>1, <1>2, WrittenIs
  <1>. HIDE DEF w
  <1>. DEFINE a == Append(w, x)
  <1>4. /\ Rows(a) = Rows(body) \cup x.rows
        /\ a \in Seq(Chunk) /\ Len(a) = Len(w) + 1 /\ a[Len(w) + 1] = x
        /\ \A i \in 1..Len(w) : a[i] = w[i]
    BY <1>3, RowsOfAppended
  <1>. HIDE DEF a
  <1>5. body' = a
    BY <1>3 DEF a
  <1>6. Len(a) - 1 = Len(w)
    BY <1>3, <1>4
  <1>7. Rows(body') = Rows(a)
    BY <1>5 DEF Rows
  <1>. QED BY <1>2, <1>3, <1>4, <1>5, <1>6, <1>7 DEF w
-----------------------------------------------------------------------------
(* The rows of the cursors for collections, of which each has one.         *)
LEMMA CursorFields ==
  ASSUME Chained(versions), NEW q, NEW T \in Nat
  PROVE  /\ \A c \in CursorRows(versions, members, q, T) : c.version \in 1..T
         /\ q.kind \in {"collections", "members"} =>
              \A c \in CursorRows(versions, members, q, T) :
                /\ c.of = c.object /\ c.object \in Collections
                /\ \A geom : CollectionRow(c, geom).of = c.of
                /\ \A d \in CursorRows(versions, members, q, T) :
                      c.object = d.object => c = d
  <1>1. \A t : Existed(versions, t, T) \subseteq {v \in versions : v.from \in 1..T}
    <2>1. \A v \in versions : v.from \in Nat /\ v.from > 0
      BY VersionFields DEF Chained
    <2>. QED BY <2>1 DEF Existed
  <1>2. \A v : /\ RowOf(v).version = v.from
               /\ ListRow(members, v).version = v.from
               /\ ListRow(members, v).of = v.object
               /\ ListRow(members, v).object = v.object
               /\ \A geom : CollectionRow(ListRow(members, v), geom).of = v.object
    BY DEF RowOf, ListRow, CollectionRow
  <1>3. CASE q.kind = "features"
    <2>1. CursorRows(versions, members, q, T) = FeatureRows(versions, q, T)
      BY <1>3 DEF CursorRows
    <2>. QED BY <1>1, <1>2, <1>3, <2>1 DEF FeatureRows
  <1>4. CASE q.kind = "contributions"
    <2>1. CursorRows(versions, members, q, T) = ContributionRows(versions, q, T)
      BY <1>4 DEF CursorRows
    <2>2. \A v \in versions : v.from \in Nat /\ v.from > 0
      BY VersionFields DEF Chained
    <2>3. \A v \in versions : v.from \in StartAt(q, T)..T => v.from \in 1..T
      BY <2>2
    <2>. QED BY <1>2, <1>4, <2>1, <2>3 DEF ContributionRows
  <1>5. CASE q.kind \notin {"features", "contributions"}
    <2>1. CursorRows(versions, members, q, T)
            = {ListRow(members, c) : c \in Listed(versions, members, q, T)}
      BY <1>5 DEF CursorRows
    <2>2. /\ Listed(versions, members, q, T) \subseteq Existed(versions, StartAt(q, T), T)
          /\ \A c \in Listed(versions, members, q, T) : c.object \in Collections
      BY DEF Listed
    <2>3. \A c, d \in Listed(versions, members, q, T) : c.object = d.object => c = d
      BY <2>2, OneExisted
    <2>. DEFINE C == CursorRows(versions, members, q, T)
                L == Listed(versions, members, q, T)
                row(c) == ListRow(members, c)
    <2>4. \A c \in L : c.from \in 1..T /\ c.object \in Collections
      BY <1>1, <2>2
    <2>5. \A c : /\ row(c).version = c.from /\ row(c).of = c.object /\ row(c).object = c.object
                 /\ \A geom : CollectionRow(row(c), geom).of = c.object
      BY <1>2
    <2>6. C = {row(c) : c \in L} /\ \A c, d \in L : c.object = d.object => c = d
      BY <2>1, <2>3
    <2>. HIDE DEF C, L, row
    <2>7. \A c \in C : /\ c.version \in 1..T /\ c.of = c.object /\ c.object \in Collections
                       /\ \A geom : CollectionRow(c, geom).of = c.of
      BY <2>4, <2>5, <2>6
    <2>8. ASSUME NEW c \in C, NEW d \in C, c.object = d.object
          PROVE  c = d
      BY <2>5, <2>6, <2>8
    <2>. QED BY <2>7, <2>8 DEF C
  <1>. QED BY <1>3, <1>4, <1>5

LEMMA RowsAtAreOf ==
  ASSUME NEW V, NEW M, NEW q, NEW T, NEW c, c.of = c.object,
         \A geom : CollectionRow(c, geom).of = c.of
  PROVE  \A r \in RowsAt(V, M, q, c, T) : r.of = c.object
  <1>1. \A v : MemberRow(c, v).of = c.object
    BY DEF MemberRow, RowOf
  <1>. QED BY <1>1 DEF RowsAt

LEMMA Batches ==
  ASSUME NEW R, IsFiniteSet(R), Deliver(R)
  PROVE  /\ batch' \subseteq R /\ rows' = R \ batch' /\ rows' \cup batch' = R
         /\ IsFiniteSet(rows') /\ IsFiniteSet(batch') /\ rows' \cap batch' = {}
         /\ Cardinality(batch') < BatchSize => rows' = {}
         /\ pc' = "join"
  <1>. DEFINE S == NextBatch(R)
  <1>1. Cardinality(R) \in Nat /\ BatchSize \in Nat
    BY FS_CardinalityType, BatchesAreNotEmpty
  <1>2. S \subseteq R /\ (Cardinality(S) < BatchSize => S = R)
    <2>1. CASE Cardinality(R) < BatchSize
      BY <2>1 DEF NextBatch
    <2>2. CASE ~(Cardinality(R) < BatchSize)
      <3>1. \E x \in SUBSET R : Cardinality(x) = BatchSize
        BY <1>1, <2>2, SubsetOfSize
      <3>2. S \in SUBSET R /\ Cardinality(S) = BatchSize
        BY <2>2, <3>1 DEF NextBatch
      <3>. QED BY <1>1, <3>2
    <2>. QED BY <2>1, <2>2
  <1>. HIDE DEF S
  <1>3. batch' = S /\ rows' = R \ S /\ pc' = "join"
    BY DEF Deliver, S
  <1>. QED BY <1>2, <1>3, FS_Subset

(* A step that neither reads nor writes rows nor edits.                    *)
LEMMA RowsStay ==
  ASSUME RowsFit, Started, pc # "cut", pc' \notin {"request", "refused"},
         UNCHANGED <<versions, last, members, request, opened>>,
         Rows(body') = Rows(body),
         \/ Undelivered' = Undelivered
         \/ pc' = "cut" /\ Undelivered' \subseteq Undelivered
  PROVE  RowsFit'
  <1>. SUFFICES ASSUME ReachesTheMap(request.box)
                PROVE  /\ Undelivered' \subseteq Cursor'
                       /\ IF ReadsTwice THEN NestedFits' ELSE PlainFits'
    BY DEF RowsFit, ReachesTheMap, ReadsTwice
  <1>1. Undelivered \subseteq Cursor /\ IF ReadsTwice THEN NestedFits ELSE PlainFits
    BY DEF RowsFit
  <1>2. Cursor' = Cursor
    BY DEF Cursor
  <1>3. \A c : Got(c)' = Got(c)
    BY DEF Got
  <1>4. \A c : Settled(c)' <=> Settled(c)
    BY <1>3 DEF Settled
  <1>5. CASE ReadsTwice
    <2>1. NestedFits
      BY <1>1, <1>5
    <2>2. /\ \A r \in Rows(body') : \E c \in Cursor' : r.of = c.object
          /\ \A c \in Cursor' : Got(c)' = {} \/ Settled(c)'
      BY <1>2, <1>3, <1>4, <2>1 DEF NestedFits
    <2>3. pc' # "cut" => \A c \in Cursor' :
                IF c \in Undelivered' THEN Got(c)' = {} ELSE Settled(c)'
      BY <1>2, <1>3, <1>4, <2>1 DEF NestedFits
    <2>. QED BY <1>1, <1>2, <1>5, <2>2, <2>3 DEF NestedFits
  <1>6. CASE ~ReadsTwice
    <2>1. PlainFits
      BY <1>1, <1>6
    <2>. QED BY <1>1, <1>2, <1>6, <2>1 DEF PlainFits
  <1>. QED BY <1>5, <1>6
-----------------------------------------------------------------------------
LEMMA InitFits == Init => IInv
  <1>. SUFFICES ASSUME Init PROVE IInv
    OBVIOUS
  <1>. DEFINE first(o) == [object |-> o, from |-> 1, to |-> Forever, tag |-> NoTag,
                           deleted |-> FALSE]
  <1>1. /\ Horizon \in Nat /\ Horizon >= 1 /\ Forever = Horizon + 1 /\ NoTag \in Tags
        /\ Features \subseteq Objects /\ IsFiniteSet(Features) /\ 1 \in Times
    BY VersionBounds, TimeOfTheImport, ObjectsAreFinite, FS_Subset
    DEF Forever, NoTag, Tags, Features, Times
  <1>2. /\ versions = {first(o) : o \in Features} /\ last = 1
        /\ \A o \in Features : first(o) \in Version
        /\ \A o : first(o).object = o /\ first(o).from = 1 /\ first(o).to = Forever
    BY <1>1 DEF Init, Version
  <1>3. IsFiniteSet(versions)
    <2>. DEFINE f == [o \in Features |-> first(o)]
    <2>1. f \in Surjection(Features, versions)
      BY <1>2, Fun_IsSurj
    <2>. QED BY <1>1, <2>1, FS_Surjection
  <1>. HIDE DEF first
  <1>4. HistoryFits
    <2>1. Chained(versions)
      BY <1>1, <1>2, <1>3 DEF Chained
    <2>. QED BY <1>1, <1>2, <2>1 DEF HistoryFits, VersionsTypeOK
  <1>5. TypeOK
    BY <1>1, <1>4 DEF Init, TypeOK, HistoryFits, SinkInit, SinkTypeOK, Times
  <1>6. OpeningFits /\ BatchFits /\ SinkFits /\ OnlyWholeFilesHaveFooters /\ RowsFit
    BY <1>2, FS_EmptySet
    DEF Init, SinkInit, OpeningFits, BatchFits, SinkFits, OnlyWholeFilesHaveFooters,
        RowsFit, Started
  <1>. QED BY <1>4, <1>5, <1>6 DEF IInv

LEMMA UpdateFits == IInv /\ Update => IInv'
  <1>. SUFFICES ASSUME IInv, Update PROVE IInv'
    OBVIOUS
  <1>0. /\ TypeOK /\ HistoryFits /\ OpeningFits /\ BatchFits /\ SinkFits
        /\ OnlyWholeFilesHaveFooters /\ RowsFit
    BY DEF IInv
  <1>1. PICK o \in Objects, t \in Times, deleted \in BOOLEAN :
            /\ Ingest(o, t, NoTag, deleted)
            /\ IF o \in Collections /\ ~deleted
               THEN \E new \in SUBSET {m \in Features : Current(m)} \ {{}} :
                      members' = members \cup
                        {[collection |-> o, version |-> t, member |-> m] : m \in new}
               ELSE UNCHANGED members
    BY DEF Update
  <1>2. /\ UNCHANGED <<request, pc, rows, batch, opened, buffer, body, bounds>>
        /\ pc \in {"request", "fetch", "join"}
    BY DEF Update, sinkVars
  <1>3. /\ last \in Nat /\ t \in 1..Horizon /\ t > last /\ last' = t
    BY <1>0, <1>1, IngestChanges, VersionBounds DEF HistoryFits, VersionsTypeOK
  <1>4. HistoryFits'
    <2>1. NoTag \in Tags
      BY VersionBounds DEF NoTag, Tags
    <2>. QED BY <1>0, <1>1, <2>1, IngestFits
  <1>5. PICK N : N \subseteq Member /\ (\A n \in N : n.version = t) /\ members' = members \cup N
    <2>1. CASE o \in Collections /\ ~deleted
      <3>1. PICK new \in SUBSET Features : members' = members \cup
                  {[collection |-> o, version |-> t, member |-> m] : m \in new}
        BY <1>1, <2>1
      <3>2. {[collection |-> o, version |-> t, member |-> m] : m \in new} \subseteq Member
        BY <1>3, <2>1 DEF Member
      <3>. DEFINE N == {[collection |-> o, version |-> t, member |-> m] : m \in new}
      <3>3. \A n \in N : n.version = t
        OBVIOUS
      <3>4. N \subseteq Member /\ members' = members \cup N
        BY <3>1, <3>2
      <3>. HIDE DEF N
      <3>. QED BY <3>3, <3>4
    <2>2. CASE ~(o \in Collections /\ ~deleted)
      <3>1. {} \subseteq Member /\ (\A n \in {} : n.version = t) /\ members' = members \cup {}
        BY <1>1, <2>2
      <3>. QED BY <3>1
    <2>. QED BY <2>1, <2>2
  <1>10. ASSUME NEW q, NEW T \in Nat, T <= last
        PROVE  /\ CursorRows(versions', members', q, T) = CursorRows(versions, members, q, T)
               /\ \A c : c.version \in 1..last =>
                      RowsAt(versions', members', q, c, T) = RowsAt(versions, members, q, c, T)
    <2>1. HistoryFits /\ Ingest(o, t, NoTag, deleted)
      BY <1>0, <1>1
    <2>2. (\A n \in N : n.version = t) /\ members' = members \cup N
      BY <1>5
    <2>3. T \in Nat /\ T <= last
      BY <1>10
    <2>4. CursorRows(versions', members', q, T) = CursorRows(versions, members, q, T)
      BY <2>1, <2>2, <2>3, EditKeepsRows
    <2>5. ASSUME NEW c, c.version \in 1..last
          PROVE  RowsAt(versions', members', q, c, T) = RowsAt(versions, members, q, c, T)
      BY <2>1, <2>2, <2>3, <2>5, EditKeepsRows
    <2>. QED BY <2>4, <2>5
  <1>6. TypeOK'
    <2>1. members' \subseteq Member
      BY <1>0, <1>5 DEF TypeOK
    <2>. QED BY <1>0, <1>2, <1>4, <2>1 DEF TypeOK, HistoryFits, SinkTypeOK
  <1>7. OpeningFits'
    BY <1>0, <1>2, <1>3 DEF OpeningFits, Started
  <1>8. BatchFits' /\ SinkFits' /\ OnlyWholeFilesHaveFooters'
    BY <1>0, <1>2 DEF BatchFits, SinkFits, OnlyWholeFilesHaveFooters, Started
  <1>9. RowsFit'
    <2>. SUFFICES ASSUME Started, ReachesTheMap(request.box)
                  PROVE  /\ Undelivered' \subseteq Cursor'
                         /\ IF ReadsTwice THEN NestedFits' ELSE PlainFits'
      BY <1>2 DEF RowsFit, ReachesTheMap, ReadsTwice, Started
    <2>1. /\ Undelivered \subseteq Cursor /\ opened \in Nat /\ opened <= last
          /\ ReadsTwice => NestedFits
          /\ ~ReadsTwice => PlainFits
      BY <1>0, <1>3 DEF RowsFit, OpeningFits
    <2>2. Undelivered' = Undelivered /\ Rows(body') = Rows(body) /\ pc' = pc
      BY <1>2 DEF Undelivered
    <2>3. Cursor' = Cursor
      <3>1. CursorRows(versions', members', request, opened)
              = CursorRows(versions, members, request, opened)
        BY <1>10, <2>1
      <3>. QED BY <1>2, <3>1 DEF Cursor
    <2>4. \A c : Got(c)' = Got(c)
      BY <1>2 DEF Got
    <2>5. ASSUME NEW c \in Cursor, Settled(c)
          PROVE  Settled(c)'
      <3>1. PICK T \in opened..last : Got(c) = RowsAt(versions, members, request, c, T)
        BY <2>5 DEF Settled
      <3>2. c.version \in 1..last
        BY <1>0, <1>3, <2>1, CursorFields DEF Cursor, HistoryFits
      <3>3. T \in Nat /\ T <= last /\ T \in opened..last'
        BY <1>3, <2>1
      <3>4. RowsAt(versions', members', request, c, T) = RowsAt(versions, members, request, c, T)
        BY <1>10, <3>2, <3>3
      <3>. QED BY <1>2, <2>4, <3>1, <3>3, <3>4 DEF Settled
    <2>6. CASE ReadsTwice
      <3>1. NestedFits
        BY <2>1, <2>6
      <3>2. /\ \A r \in Rows(body') : \E c \in Cursor' : r.of = c.object
            /\ \A c \in Cursor' : Got(c)' = {} \/ Settled(c)'
        BY <2>2, <2>3, <2>4, <2>5, <3>1 DEF NestedFits
      <3>3. pc' # "cut" => \A c \in Cursor' :
                  IF c \in Undelivered' THEN Got(c)' = {} ELSE Settled(c)'
        BY <2>2, <2>3, <2>4, <2>5, <3>1 DEF NestedFits
      <3>. QED BY <2>1, <2>2, <2>3, <2>6, <3>2, <3>3 DEF NestedFits
    <2>7. CASE ~ReadsTwice
      BY <2>1, <2>2, <2>3, <2>7 DEF PlainFits
    <2>. QED BY <2>6, <2>7
  <1>. QED BY <1>4, <1>6, <1>7, <1>8, <1>9 DEF IInv

LEMMA RefuseFits == IInv /\ Refuse => IInv'
  <1>. SUFFICES ASSUME IInv, Refuse PROVE IInv'
    OBVIOUS
  <1>1. /\ UNCHANGED <<versions, last, members, request, rows, batch, opened,
                       buffer, body, bounds>>
        /\ pc = "request" /\ pc' = "refused"
    BY DEF Refuse, sinkVars
  <1>2. TypeOK' /\ HistoryFits'
    BY <1>1
    DEF IInv, TypeOK, SinkTypeOK, HistoryFits, Chained, VersionsTypeOK
  <1>3. OpeningFits' /\ BatchFits' /\ SinkFits' /\ OnlyWholeFilesHaveFooters' /\ RowsFit'
    BY <1>1
    DEF IInv, OpeningFits, BatchFits, SinkFits, OnlyWholeFilesHaveFooters, RowsFit, Started
  <1>. QED BY <1>2, <1>3 DEF IInv

LEMMA OpenFits == IInv /\ Open => IInv'
  <1>. SUFFICES ASSUME IInv, Open PROVE IInv'
    OBVIOUS
  <1>1. /\ TypeOK /\ HistoryFits /\ OpeningFits /\ SinkFits
        /\ pc = "request" /\ Accepted(request.box) /\ Deliver(Selected)
        /\ opened' = last /\ UNCHANGED <<versions, last, members, request>>
        /\ buffer' = <<FileHead>> /\ UNCHANGED <<body, bounds>>
    BY DEF IInv, Open, OpenSink
  <1>2. body = <<>> /\ bounds = {} /\ Rows(body) = {} /\ Rows(body') = {}
    BY <1>1 DEF SinkFits, Started, Rows
  <1>3. /\ Selected \subseteq Row /\ IsFiniteSet(Selected)
        /\ rows' \cup batch' = Selected /\ IsFiniteSet(rows') /\ IsFiniteSet(batch')
        /\ rows' \cap batch' = {} /\ (Cardinality(batch') < BatchSize => rows' = {})
        /\ pc' = "join"
    BY <1>1, RowTypes, SelectedIsFinite, Batches DEF HistoryFits, Chained
  <1>4. HistoryFits'
    BY <1>1 DEF HistoryFits, Chained, VersionsTypeOK
  <1>5. TypeOK'
    <2>1. SinkTypeOK(Row)'
      <3>1. FileHead \in Chunk
        BY DEF FileHead, Chunk
      <3>2. buffer' \in Seq(Chunk)
        BY <1>1, <3>1
      <3>. QED BY <1>1, <3>2 DEF TypeOK, SinkTypeOK, Chunk
    <2>2. opened' \in Times /\ VersionsTypeOK'
      BY <1>1, <1>4 DEF HistoryFits, VersionsTypeOK, Times
    <2>. QED BY <1>1, <1>3, <2>1, <2>2 DEF TypeOK
  <1>6. OpeningFits' /\ BatchFits'
    <2>1. last \in Nat
      BY <1>1 DEF HistoryFits, VersionsTypeOK
    <2>. QED BY <1>1, <1>3, <2>1 DEF OpeningFits, BatchFits, Started
  <1>7. SinkFits' /\ OnlyWholeFilesHaveFooters'
    <2>1. Hull(Reach({})) = {}
      BY DEF Hull, Reach
    <2>2. bounds' = Hull(Reach(Rows(body')))
      BY <1>1, <1>2, <2>1
    <2>3. /\ body' = <<>> /\ DOMAIN body' = {} /\ buffer' = <<FileHead>> /\ pc' = "join"
      BY <1>1, <1>2, <1>3
    <2>4. SinkFits'
      BY <2>2, <2>3 DEF SinkFits, Started
    <2>. QED BY <2>3, <2>4 DEF OnlyWholeFilesHaveFooters
  <1>8. RowsFit'
    <2>. SUFFICES ASSUME ReachesTheMap(request.box)
                  PROVE  /\ Undelivered' \subseteq Cursor'
                         /\ IF ReadsTwice THEN NestedFits' ELSE PlainFits'
      BY <1>1 DEF RowsFit, ReachesTheMap, ReadsTwice
    <2>1. Undelivered' = Cursor'
      <3>1. Selected = CursorRows(versions, members, request, last)
        BY <1>1, CursorSelects
      <3>. QED BY <1>1, <1>3, <3>1 DEF Undelivered, Cursor
    <2>2. \A c : Got(c)' = {}
      BY <1>2 DEF Got
    <2>3. NestedFits' /\ PlainFits'
      BY <1>2, <2>1, <2>2 DEF NestedFits, PlainFits
    <2>. QED BY <2>1, <2>3
  <1>. QED BY <1>4, <1>5, <1>6, <1>7, <1>8 DEF IInv

LEMMA FetchBatchFits == IInv /\ FetchBatch => IInv'
  <1>. SUFFICES ASSUME IInv, FetchBatch PROVE IInv'
    OBVIOUS
  <1>1. /\ TypeOK /\ HistoryFits /\ OpeningFits /\ BatchFits /\ SinkFits
        /\ OnlyWholeFilesHaveFooters /\ RowsFit
        /\ pc = "fetch" /\ Deliver(rows)
        /\ UNCHANGED <<versions, last, members, request, opened, buffer, body, bounds>>
    BY DEF IInv, FetchBatch, sinkVars
  <1>2. /\ rows' \cup batch' = rows /\ IsFiniteSet(rows') /\ IsFiniteSet(batch')
        /\ rows' \cap batch' = {} /\ (Cardinality(batch') < BatchSize => rows' = {})
        /\ pc' = "join"
    BY <1>1, Batches DEF BatchFits
  <1>3. HistoryFits'
    BY <1>1 DEF HistoryFits, Chained, VersionsTypeOK
  <1>4. TypeOK'
    BY <1>1, <1>2 DEF TypeOK, SinkTypeOK, VersionsTypeOK
  <1>5. OpeningFits' /\ BatchFits'
    BY <1>1, <1>2 DEF OpeningFits, BatchFits, Started
  <1>6. SinkFits' /\ OnlyWholeFilesHaveFooters'
    BY <1>1, <1>2 DEF SinkFits, Started, OnlyWholeFilesHaveFooters
  <1>7. RowsFit'
    <2>1. Undelivered' = Undelivered
      BY <1>1, <1>2 DEF Undelivered
    <2>. QED BY <1>1, <1>2, <2>1, RowsStay DEF Started
  <1>. QED BY <1>3, <1>4, <1>5, <1>6, <1>7 DEF IInv

LEMMA CloseFits == IInv /\ Close => IInv'
  <1>. SUFFICES ASSUME IInv, Close PROVE IInv'
    OBVIOUS
  <1>. DEFINE x == Footer(bounds)
  <1>1. /\ TypeOK /\ HistoryFits /\ OpeningFits /\ BatchFits /\ SinkFits /\ RowsFit
        /\ pc = "close" /\ pc' = "complete" /\ ReadBytes(<<x>>) /\ bounds' = bounds
        /\ UNCHANGED <<versions, last, members, request, rows, batch, opened>>
    BY DEF IInv, Close, CloseSink
  <1>2. x \in Chunk /\ x.rows = {} /\ x.part = "footer" /\ x.box = bounds
    BY <1>1 DEF Footer, Chunk, TypeOK, SinkTypeOK
  <1>. HIDE DEF x
  <1>3. /\ buffer' = <<>> /\ body' \in Seq(Chunk) /\ Len(body') = Len(Written) + 1
        /\ Rows(body') = Rows(body) /\ body'[Len(body')] = x
        /\ \A i \in 1..Len(body') - 1 :
                body'[i].part = IF i = 1 THEN "head" ELSE "batch"
    BY <1>1, <1>2, ReadBytesIs
  <1>4. Len(Written) \in Nat /\ Len(Written) >= 1 /\ bounds = Hull(Reach(Rows(body)))
    BY <1>1, WrittenIs
  <1>5. HistoryFits'
    BY <1>1 DEF HistoryFits, Chained, VersionsTypeOK
  <1>6. TypeOK'
    BY <1>1, <1>3 DEF TypeOK, SinkTypeOK, VersionsTypeOK, Chunk
  <1>7. OpeningFits' /\ BatchFits' /\ SinkFits'
    BY <1>1 DEF OpeningFits, BatchFits, SinkFits, Started
  <1>8. OnlyWholeFilesHaveFooters'
    <2>. DEFINE b == body'
                n == Len(b)
    <2>1. /\ n \in Nat /\ n >= 2 /\ DOMAIN b = 1..n
          /\ b[n].part = "footer" /\ b[n].box = bounds
          /\ \A i \in 1..n - 1 : b[i].part = IF i = 1 THEN "head" ELSE "batch"
      BY <1>2, <1>3, <1>4
    <2>2. b[n].box = Hull(Reach(Rows(b)))
      BY <1>3, <1>4, <2>1
    <2>. HIDE DEF b, n
    <2>3. WholeFile(b)
      <3>1. \A i \in 1..n : i = n \/ i \in 1..n - 1
        BY <2>1
      <3>2. \A i \in 1..n : (b[i].part = "head" <=> i = 1) /\ (b[i].part = "footer" <=> i = n)
        BY <2>1, <3>1
      <3>. QED BY <2>1, <2>2, <3>2 DEF WholeFile, n
    <2>. QED BY <1>1, <2>3 DEF OnlyWholeFilesHaveFooters, b
  <1>9. RowsFit'
    <2>1. Undelivered' = Undelivered
      BY <1>1 DEF Undelivered
    <2>. QED BY <1>1, <1>3, <2>1, RowsStay DEF Started
  <1>. QED BY <1>5, <1>6, <1>7, <1>8, <1>9 DEF IInv

LEMMA CutFits == IInv /\ Cut => IInv'
  <1>. SUFFICES ASSUME IInv, Cut PROVE IInv'
    OBVIOUS
  <1>1. /\ TypeOK /\ HistoryFits /\ OpeningFits /\ BatchFits /\ SinkFits /\ RowsFit
        /\ OnlyWholeFilesHaveFooters
        /\ pc \in {"fetch", "join", "close"} /\ pc' = "cut"
        /\ buffer' = Append(buffer, Footer(bounds)) /\ body' = body /\ bounds' = bounds
        /\ UNCHANGED <<versions, last, members, request, rows, batch, opened>>
    BY DEF IInv, Cut, AbortSink
  <1>2. HistoryFits'
    BY <1>1 DEF HistoryFits, Chained, VersionsTypeOK
  <1>3. TypeOK'
    <2>1. Footer(bounds) \in Chunk /\ buffer \in Seq(Chunk)
      BY <1>1 DEF Footer, Chunk, TypeOK, SinkTypeOK
    <2>2. buffer' \in Seq(Chunk)
      BY <1>1, <2>1
    <2>. QED BY <1>1, <2>2 DEF TypeOK, SinkTypeOK, VersionsTypeOK, Chunk
  <1>4. OpeningFits' /\ BatchFits' /\ SinkFits'
    BY <1>1 DEF OpeningFits, BatchFits, SinkFits, Started
  <1>5. OnlyWholeFilesHaveFooters'
    BY <1>1 DEF OnlyWholeFilesHaveFooters
  <1>6. RowsFit'
    <2>1. Undelivered' \subseteq Undelivered
      BY <1>1 DEF Undelivered
    <2>. QED BY <1>1, <2>1, RowsStay DEF Started
  <1>. QED BY <1>2, <1>3, <1>4, <1>5, <1>6 DEF IInv

LEMMA ReachOfRows ==
  ASSUME NEW R, R \subseteq Row
  PROVE  Reach(R) \subseteq Longitudes
  BY DEF Reach, Row

(* The file after a batch: its rows, and the box that goes with them.      *)
LEMMA WriteKeepsSink ==
  ASSUME TypeOK, SinkFits, OnlyWholeFilesHaveFooters, pc = "join",
         WriteBatch(Converted), pc' \in {"fetch", "close"}
  PROVE  /\ SinkTypeOK(Row)' /\ SinkFits' /\ OnlyWholeFilesHaveFooters'
         /\ Rows(body') = Rows(body) \cup Converted
  <1>1. CASE Converted = {}
    <2>1. UNCHANGED <<buffer, body, bounds>>
      BY <1>1 DEF WriteBatch, sinkVars
    <2>2. Rows(body') = Rows(body) \cup Converted
      BY <1>1, <2>1
    <2>. QED
      BY <2>1, <2>2
      DEF TypeOK, SinkTypeOK, SinkFits, OnlyWholeFilesHaveFooters, Started
  <1>2. CASE Converted # {}
    <2>. DEFINE x == Batch(Converted)
                A == Reach(Rows(body))
                B == Reach(Converted)
    <2>1. ReadBytes(<<x>>) /\ bounds' = Hull(bounds \cup B)
      BY <1>2 DEF WriteBatch, AppendBatch
    <2>2. x \in Chunk /\ x.rows = Converted /\ x.part = "batch" /\ Converted \subseteq Row
      BY RowTypes DEF Batch, Chunk
    <2>. HIDE DEF x
    <2>3. /\ buffer' = <<>> /\ body' \in Seq(Chunk) /\ Len(body') = Len(Written) + 1
          /\ Rows(body') = Rows(body) \cup Converted /\ body'[Len(body')] = x
          /\ \A i \in 1..Len(body') - 1 :
                  body'[i].part = IF i = 1 THEN "head" ELSE "batch"
      BY <2>1, <2>2, ReadBytesIs
    <2>4. /\ Len(Written) \in Nat /\ Len(Written) >= 1 /\ bounds = Hull(A)
          /\ Rows(body) \subseteq Row
      BY WrittenIs
    <2>5. bounds' = Hull(Reach(Rows(body'))) /\ bounds' \subseteq Int
      <3>1. A \subseteq Longitudes /\ B \subseteq Longitudes
        BY <2>2, <2>4, ReachOfRows
      <3>2. Reach(Rows(body')) = A \cup B
        BY <2>3 DEF Reach
      <3>. HIDE DEF A, B
      <3>3. bounds' = Hull(A \cup B) /\ Hull(A \cup B) \subseteq Longitudes
        BY <2>1, <2>4, <3>1, HullGrows
      <3>. QED BY <3>2, <3>3, LongitudesAreNumbers
    <2>. DEFINE b == body'
                n == Len(b)
    <2>6. /\ n \in Nat /\ n >= 2 /\ DOMAIN b = 1..n /\ b[n].part = "batch"
          /\ \A i \in 1..n - 1 : b[i].part = IF i = 1 THEN "head" ELSE "batch"
      BY <2>2, <2>3, <2>4
    <2>7. /\ Len(body') >= 1
          /\ \A i \in DOMAIN body' : body'[i].part = IF i = 1 THEN "head" ELSE "batch"
      <3>. HIDE DEF b, n
      <3>1. \A i \in 1..n : i = n \/ i \in 1..n - 1
        BY <2>6
      <3>2. \A i \in 1..n : b[i].part = IF i = 1 THEN "head" ELSE "batch"
        BY <2>6, <3>1
      <3>. QED BY <2>6, <3>2 DEF b, n
    <2>8. SinkFits'
      BY <2>3, <2>5, <2>7 DEF SinkFits, Started
    <2>9. SinkTypeOK(Row)'
      <3>1. buffer' \in Seq(Chunk)
        BY <2>3
      <3>. QED BY <2>3, <2>5, <3>1 DEF SinkTypeOK, Chunk
    <2>10. OnlyWholeFilesHaveFooters'
      BY <2>7 DEF OnlyWholeFilesHaveFooters
    <2>. QED BY <2>3, <2>8, <2>9, <2>10
  <1>. QED BY <1>1, <1>2

LEMMA WriteFits == IInv /\ Write => IInv'
  <1>. SUFFICES ASSUME IInv, Write PROVE IInv'
    OBVIOUS
  <1>1. /\ TypeOK /\ HistoryFits /\ OpeningFits /\ BatchFits /\ SinkFits /\ RowsFit
        /\ OnlyWholeFilesHaveFooters
        /\ pc = "join" /\ WriteBatch(Converted)
        /\ pc' = IF Cardinality(batch) < BatchSize THEN "close" ELSE "fetch"
        /\ UNCHANGED <<versions, last, members, request, rows, batch, opened>>
    BY DEF IInv, Write
  <1>2. pc' \in {"fetch", "close"}
    BY <1>1
  <1>3. /\ SinkTypeOK(Row)' /\ SinkFits' /\ OnlyWholeFilesHaveFooters'
        /\ Rows(body') = Rows(body) \cup Converted
    BY <1>1, <1>2, WriteKeepsSink
  <1>4. HistoryFits'
    BY <1>1 DEF HistoryFits, Chained, VersionsTypeOK
  <1>5. TypeOK'
    BY <1>1, <1>2, <1>3 DEF TypeOK, VersionsTypeOK
  <1>6. OpeningFits' /\ BatchFits'
    BY <1>1, <1>2 DEF OpeningFits, BatchFits, Started
  <1>7. RowsFit'
    <2>. SUFFICES ASSUME ReachesTheMap(request.box)
                  PROVE  /\ Undelivered' \subseteq Cursor'
                         /\ IF ReadsTwice THEN NestedFits' ELSE PlainFits'
      BY <1>1 DEF RowsFit, ReachesTheMap, ReadsTwice
    <2>1. /\ Undelivered \subseteq Cursor /\ IF ReadsTwice THEN NestedFits ELSE PlainFits
          /\ request \in Requests /\ Accepted(request.box)
          /\ opened \in Nat /\ last \in Nat /\ last \in opened..last
      BY <1>1 DEF RowsFit, Started, OpeningFits, TypeOK, HistoryFits, VersionsTypeOK
    <2>2. Undelivered = rows \cup batch /\ Undelivered' = rows /\ rows \cap batch = {}
      BY <1>1, <1>2 DEF Undelivered, BatchFits
    <2>3. Cursor' = Cursor
      BY <1>1 DEF Cursor
    <2>4. CASE ~ReadsTwice
      <3>1. Converted = batch
        BY <1>1, <2>1, <2>4, ConvertedIs
      <3>2. Rows(body) \subseteq Cursor /\ Cursor \ Undelivered \subseteq Rows(body)
        BY <1>1, <2>1, <2>4 DEF PlainFits
      <3>3. PlainFits'
        BY <1>3, <2>1, <2>2, <2>3, <3>1, <3>2 DEF PlainFits
      <3>. QED BY <2>1, <2>2, <2>3, <2>4, <3>3
    <2>5. CASE ReadsTwice
      <3>. DEFINE new(c) == RowsAt(versions, members, request, c, last)
      <3>1. Converted = UNION {new(c) : c \in batch}
        BY <1>1, <2>1, <2>5, ConvertedIs
      <3>2. \A c \in Cursor : /\ c.of = c.object
                              /\ \A geom : CollectionRow(c, geom).of = c.of
                              /\ \A d \in Cursor : c.object = d.object => c = d
        <4>1. request.kind \in {"collections", "members"} /\ Chained(versions)
          BY <1>1, <2>5 DEF ReadsTwice, HistoryFits
        <4>. QED BY <2>1, <4>1, CursorFields DEF Cursor
      <3>3. \A c \in Cursor : \A r \in new(c) : r.of = c.object
        BY <3>2, RowsAtAreOf
      <3>4. /\ \A r \in Rows(body) : \E c \in Cursor : r.of = c.object
            /\ \A c \in Cursor : IF c \in Undelivered THEN Got(c) = {} ELSE Settled(c)
        BY <1>1, <2>1, <2>5 DEF NestedFits
      <3>. HIDE DEF new
      <3>5. batch \subseteq Cursor
        BY <2>1, <2>2
      <3>6. ASSUME NEW c \in Cursor, c \in batch
            PROVE  Got(c)' = new(c)
        <4>1. Got(c) = {}
          BY <2>2, <3>4, <3>6
        <4>2. {r \in Converted : r.of = c.object} = new(c)
          BY <3>1, <3>2, <3>3, <3>5, <3>6
        <4>. QED BY <1>3, <4>1, <4>2 DEF Got
      <3>7. ASSUME NEW c \in Cursor, c \notin batch
            PROVE  Got(c)' = Got(c)
        <4>1. {r \in Converted : r.of = c.object} = {}
          BY <3>1, <3>2, <3>3, <3>5, <3>7
        <4>. QED BY <1>3, <4>1 DEF Got
      <3>8. ASSUME NEW c \in Cursor, c \notin rows
            PROVE  Settled(c)'
        <4>1. CASE c \in batch
          BY <1>1, <2>1, <3>6, <4>1 DEF Settled, new
        <4>2. CASE c \notin batch
          <5>1. Settled(c)
            BY <2>2, <3>4, <3>8, <4>2
          <5>. QED BY <1>1, <3>7, <4>2, <5>1 DEF Settled
        <4>. QED BY <4>1, <4>2
      <3>9. ASSUME NEW c \in Cursor, c \in rows
            PROVE  Got(c)' = {}
        BY <2>2, <3>4, <3>7, <3>9
      <3>10. \A r \in Rows(body') : \E c \in Cursor : r.of = c.object
        BY <1>3, <3>1, <3>3, <3>4, <3>5
      <3>11. NestedFits'
        BY <2>2, <2>3, <3>8, <3>9, <3>10 DEF NestedFits
      <3>. QED BY <2>1, <2>2, <2>3, <2>5, <3>11
    <2>. QED BY <2>4, <2>5
  <1>. QED BY <1>3, <1>4, <1>5, <1>6, <1>7 DEF IInv

LEMMA StutterFits == IInv /\ UNCHANGED vars => IInv'
  <1>. SUFFICES ASSUME IInv, UNCHANGED vars PROVE IInv'
    OBVIOUS
  <1>1. UNCHANGED <<versions, last, members, request, pc, rows, batch, opened,
                    buffer, body, bounds>>
    BY DEF vars
  <1>2. TypeOK' /\ HistoryFits'
    BY <1>1 DEF IInv, TypeOK, SinkTypeOK, HistoryFits, Chained, VersionsTypeOK
  <1>3. OpeningFits' /\ BatchFits' /\ SinkFits' /\ OnlyWholeFilesHaveFooters'
    BY <1>1
    DEF IInv, OpeningFits, BatchFits, SinkFits, OnlyWholeFilesHaveFooters, Started
  <1>4. RowsFit'
    BY <1>1
    DEF IInv, RowsFit, Started, Undelivered, ReadsTwice, NestedFits, PlainFits, Cursor,
        Got, Settled
  <1>. QED BY <1>2, <1>3, <1>4 DEF IInv

LEMMA Inductive == Spec => []IInv
  <1>1. IInv /\ [Next]_vars => IInv'
    BY UpdateFits, RefuseFits, OpenFits, FetchBatchFits, WriteFits, CloseFits, CutFits,
       StutterFits
    DEF Next
  <1>. QED BY InitFits, <1>1, PTL DEF Spec

(* The states of an extraction, its rows, batches and chunks have their    *)
(* types, for any objects, boxes, filters, times and batch size.           *)
THEOREM TypeCorrect == Spec => []TypeOK
  <1>1. IInv => TypeOK
    BY DEF IInv
  <1>. QED BY Inductive, <1>1, PTL

(* A response that ends has given its client a whole file with the box of  *)
(* all its rows, one that is cut gives no footer, at whatever batch.       *)
THEOREM FootersAreOfWholeFiles == Spec => []OnlyWholeFilesHaveFooters
  <1>1. IInv => OnlyWholeFilesHaveFooters
    BY DEF IInv
  <1>. QED BY Inductive, <1>1, PTL
-----------------------------------------------------------------------------
(* The definitions of Extractions are those with parameters.               *)
LEMMA ExistingIs == \A t, T : Existing(t, T) = Existed(versions, t, T)
  BY DEF Existing, Existed

LEMMA InBoxIs == \A o : InBox(o) <=> Within(request, o)
  BY DEF InBox, Within

LEMMA CollectionRowIs ==
  ASSUME NEW M, NEW c, NEW geom
  PROVE  CollectionRow(ListRow(M, c), geom)
           = [object |-> c.object, version |-> c.from, of |-> c.object, geom |-> geom]
  <1>. DEFINE reach == {Place[m] : m \in MembersIn(M, c.object, c.from)}
              row == [object |-> c.object, version |-> c.from, of |-> c.object, geom |-> reach]
  <1>1. ListRow(M, c) = row
    BY DEF ListRow
  <1>. HIDE DEF reach
  <1>2. [row EXCEPT !.geom = geom]
          = [object |-> c.object, version |-> c.from, of |-> c.object, geom |-> geom]
    OBVIOUS
  <1>. QED BY <1>1, <1>2 DEF CollectionRow

LEMMA NestedRowsAre ==
  ASSUME NEW T, NEW U
  PROVE  NestedRows(Existed(versions, StartAt(request, T), T),
                    Existed(versions, StartAt(request, U), U))
           = UNION {RowsAt(versions, members, request, c, U) :
                      c \in {ListRow(members, c) : c \in Listed(versions, members, request, T)}}
  <1>. DEFINE cs == Existed(versions, StartAt(request, T), T)
              vs == Existed(versions, StartAt(request, U), U)
              L == Listed(versions, members, request, T)
              row(c) == ListRow(members, c)
              at(c) == MembersAt(versions, members, request, row(c), U)
              pairs == {x \in cs \X vs : x[1] \in L /\ x[2] \in at(x[1])}
              after(c) == CollectionRow(row(c), {Place[v.object] : v \in at(c)})
              ofMembers == {MemberRow([object |-> x[1].object], x[2]) : x \in pairs}
              ofCollections ==
                {[object |-> c.object, version |-> c.from, of |-> c.object,
                  geom |-> {Place[x[2].object] : x \in {x \in pairs : x[1] = c}}] :
                    c \in {x[1] : x \in {x \in pairs : InBox(x[2].object)}}}
  <1>1. \A c : /\ row(c).object = c.object /\ row(c).version = c.from
               /\ row(c).of = c.object
    BY DEF ListRow
  <1>2. {x \in cs \X vs :
            /\ x[1].object \in Collections
            /\ \E m \in MembersOf(x[1].object, x[1].from) : InBox(m)
            /\ x[2].object \in MembersOf(x[1].object, x[1].from) \cap request.filter
            /\ request.clip => InBox(x[2].object)} = pairs
    <2>1. ASSUME NEW c \in cs, NEW v \in vs
          PROVE  (/\ c.object \in Collections
                  /\ \E m \in MembersOf(c.object, c.from) : InBox(m)
                  /\ v.object \in MembersOf(c.object, c.from) \cap request.filter
                  /\ request.clip => InBox(v.object)) <=> c \in L /\ v \in at(c)
      <3>1. c \in L <=> /\ c.object \in Collections
                        /\ \E m \in MembersOf(c.object, c.from) : InBox(m)
        BY MembersOfIs, InBoxIs DEF Listed
      <3>2. v \in at(c) <=> /\ v.object \in MembersOf(c.object, c.from) \cap request.filter
                            /\ request.clip => InBox(v.object)
        BY <1>1, MembersOfIs, InBoxIs DEF MembersAt
      <3>. QED BY <3>1, <3>2
    <2>. HIDE DEF cs, vs, L, at
    <2>. QED BY <2>1
  <1>3. NestedRows(cs, vs) = IF request.kind = "members" THEN ofMembers ELSE ofCollections
    BY <1>2 DEF NestedRows
  <1>4. L \subseteq cs /\ \A c : at(c) \subseteq vs
    BY DEF Listed, MembersAt
  <1>5. \A c : RowsAt(versions, members, request, row(c), U)
                 = IF request.kind = "members" THEN {MemberRow(row(c), v) : v \in at(c)}
                   ELSE {after(c) : w \in {w \in at(c) : InBox(w.object)}}
    BY InBoxIs DEF RowsAt
  <1>6. \A c, v : MemberRow([object |-> c.object], v) = MemberRow(row(c), v)
    BY <1>1 DEF MemberRow
  <1>7. \A c : after(c) = [object |-> c.object, version |-> c.from, of |-> c.object,
                           geom |-> {Place[v.object] : v \in at(c)}]
    BY CollectionRowIs
  <1>. HIDE DEF cs, vs, L, row, at, after
  <1>8. \A c \in L : \A v \in at(c) : <<c, v>> \in pairs /\ <<c, v>>[1] = c /\ <<c, v>>[2] = v
    BY <1>4
  <1>9. \A x \in pairs : x[1] \in L /\ x[2] \in at(x[1])
    OBVIOUS
  <1>. HIDE DEF pairs
  <1>10. CASE request.kind = "members"
    <2>. DEFINE m(c, v) == MemberRow(row(c), v)
                all == UNION {{m(c, v) : v \in at(c)} : c \in L}
    <2>1. ofMembers = {m(x[1], x[2]) : x \in pairs}
      BY <1>6
    <2>. HIDE DEF m, ofMembers
    <2>2. ASSUME NEW r \in ofMembers
          PROVE  r \in all
      BY <1>9, <2>1
    <2>3. ASSUME NEW c \in L, NEW v \in at(c)
          PROVE  m(c, v) \in ofMembers
      <3>. DEFINE x == <<c, v>>
      <3>1. x \in pairs /\ x[1] = c /\ x[2] = v
        BY <1>8
      <3>. HIDE DEF x
      <3>. QED BY <2>1, <3>1
    <2>4. ofMembers = UNION {{MemberRow(row(c), v) : v \in at(c)} : c \in L}
      <3>1. \A r \in all : r \in ofMembers
        BY <2>3
      <3>. HIDE DEF all
      <3>2. ofMembers = all
        BY <2>2, <3>1
      <3>. QED BY <3>2 DEF all, m
    <2>5. UNION {RowsAt(versions, members, request, row(c), U) : c \in L}
            = UNION {{MemberRow(row(c), v) : v \in at(c)} : c \in L}
      BY <1>5, <1>10
    <2>. QED BY <1>3, <1>10, <2>4, <2>5 DEF cs, vs, L, row
  <1>11. CASE request.kind # "members"
    <2>1. ASSUME NEW c \in L
          PROVE  {Place[x[2].object] : x \in {x \in pairs : x[1] = c}}
                   = {Place[v.object] : v \in at(c)}
      <3>. DEFINE left == {Place[x[2].object] : x \in {x \in pairs : x[1] = c}}
                  right == {Place[v.object] : v \in at(c)}
      <3>1. ASSUME NEW p \in left PROVE p \in right
        BY <1>9
      <3>2. ASSUME NEW v \in at(c) PROVE Place[v.object] \in left
        <4>. DEFINE x == <<c, v>>
        <4>1. x \in pairs /\ x[1] = c /\ x[2] = v
          BY <1>8
        <4>. HIDE DEF x
        <4>. QED BY <4>1
      <3>3. \A p \in right : p \in left
        BY <3>2
      <3>. HIDE DEF left, right
      <3>4. left = right
        BY <3>1, <3>3
      <3>. QED BY <3>4 DEF left, right
    <2>2. {x[1] : x \in {x \in pairs : InBox(x[2].object)}}
            = {c \in L : \E v \in at(c) : InBox(v.object)}
      BY <1>8, <1>9
    <2>3. ofCollections = {after(c) : c \in {c \in L : \E v \in at(c) : InBox(v.object)}}
      BY <1>7, <2>1, <2>2
    <2>. HIDE DEF ofCollections
    <2>4. UNION {RowsAt(versions, members, request, row(c), U) : c \in L}
            = {after(c) : c \in {c \in L : \E v \in at(c) : InBox(v.object)}}
      BY <1>5, <1>11
    <2>. QED BY <1>3, <1>11, <2>3, <2>4 DEF cs, vs, L, row
  <1>. QED BY <1>10, <1>11

(* The rows that a request is to return are those of the cursor, or what   *)
(* becomes of them.                                                        *)
LEMMA ExpectedIs ==
  ASSUME request \in Requests, NEW T
  PROVE  /\ ~ReadsTwice => Expected(T) = CursorRows(versions, members, request, T)
         /\ ReadsTwice => Expected(T) = UNION {RowsAt(versions, members, request, c, T) :
                                        c \in CursorRows(versions, members, request, T)}
  <1>. DEFINE s == StartAt(request, T)
              e == EndOf(request)
  <1>1. /\ s = IF request.start = Latest THEN T ELSE request.start
        /\ e = IF request.end = Latest THEN Forever ELSE request.end
    BY DEF StartAt, EndOf
  <1>2. CASE request.kind = "features"
    <2>1. UNION {Existing(t, T) : t \in s..e} = UNION {Existed(versions, t, T) : t \in s..e}
      BY ExistingIs
    <2>2. Expected(T) = {RowOf(v) : v \in {v \in UNION {Existing(t, T) : t \in s..e} :
                                            v.object \in Features /\ InBox(v.object)}}
      BY <1>1, <1>2 DEF Expected
    <2>. HIDE DEF s, e
    <2>3. Expected(T) = {RowOf(v) : v \in {v \in UNION {Existed(versions, t, T) : t \in s..e} :
                                            v.object \in Features /\ Within(request, v.object)}}
      BY <2>1, <2>2, InBoxIs
    <2>. QED BY <1>2, <2>3 DEF CursorRows, FeatureRows, ReadsTwice, s, e
  <1>3. CASE request.kind = "contributions"
    <2>1. Expected(T) = {RowOf(v) : v \in {v \in versions :
                            /\ v.object \in Features /\ InBox(v.object)
                            /\ v.from \in s..T
                            /\ request.end # Latest => v.from < e}}
      BY <1>1, <1>3 DEF Expected
    <2>. HIDE DEF s, e
    <2>2. Expected(T) = {RowOf(v) : v \in {v \in versions :
                            /\ v.object \in Features /\ Within(request, v.object)
                            /\ v.from \in s..T
                            /\ request.end # Latest => v.from < e}}
      BY <2>1, InBoxIs
    <2>. QED BY <1>3, <2>2 DEF CursorRows, ContributionRows, ReadsTwice, s, e
  <1>4. CASE request.kind \notin {"features", "contributions"}
    <2>1. ReadsTwice
      BY <1>4, RequestFields DEF ReadsTwice
    <2>2. Expected(T) = NestedRows(Existing(s, T), Existing(s, T))
      BY <1>1, <1>4 DEF Expected
    <2>3. Expected(T) = NestedRows(Existed(versions, s, T), Existed(versions, s, T))
      BY <2>2, ExistingIs
    <2>4. CursorRows(versions, members, request, T)
            = {ListRow(members, c) : c \in Listed(versions, members, request, T)}
      BY <1>4 DEF CursorRows
    <2>. QED BY <2>1, <2>3, <2>4, NestedRowsAre
  <1>. QED BY <1>2, <1>3, <1>4

(* Later reads of what existed at a time that is past give the same.       *)
LEMMA PastRowsStay ==
  ASSUME NEW T \in Nat, NEW U \in Nat, T <= U, NEW V, V \subseteq Version, NEW M, NEW q,
         q.start # Latest, q.start \in Nat, q.start <= T, NEW c
  PROVE  RowsAt(V, M, q, c, U) = RowsAt(V, M, q, c, T)
  <1>. DEFINE s == q.start
  <1>1. StartAt(q, T) = s /\ StartAt(q, U) = s
    BY DEF StartAt
  <1>2. \A v \in V : /\ v.from <= s /\ v.from <= T <=> v.from <= s
                     /\ v.from <= s /\ v.from <= U <=> v.from <= s
    BY VersionFields
  <1>. HIDE DEF s
  <1>3. Existed(V, s, U) = Existed(V, s, T)
    BY <1>2 DEF Existed
  <1>4. MembersAt(V, M, q, c, U) = MembersAt(V, M, q, c, T)
    BY <1>1, <1>3 DEF MembersAt
  <1>. QED BY <1>4 DEF RowsAt

(* An extraction returns the rows that the documentation promises, as of   *)
(* the moment at which its cursor was opened, whatever is edited between   *)
(* its batches; when it is cut, some of them.                              *)
THEOREM ExtractionsExact == Spec => []ExtractionsAreExact
  <1>1. IInv => ExtractionsAreExact
    <2>. SUFFICES ASSUME IInv, opened > 0, ReachesTheMap(request.box),
                         ReadsTwice => request.start # Latest /\ request.start <= opened
                  PROVE  /\ Rows(body) \subseteq Expected(opened)
                         /\ pc = "complete" => Rows(body) = Expected(opened)
      BY DEF ExtractionsAreExact
    <2>1. /\ Started /\ request \in Requests /\ opened \in Nat /\ last \in Nat
          /\ versions \subseteq Version
          /\ IF ReadsTwice THEN NestedFits ELSE PlainFits
      <3>1. Started /\ last \in Nat
        BY DEF IInv, OpeningFits, HistoryFits, VersionsTypeOK
      <3>. QED BY <3>1 DEF IInv, OpeningFits, TypeOK, VersionsTypeOK, RowsFit
    <2>2. pc = "complete" => Undelivered = {}
      BY DEF IInv, BatchFits, Undelivered
    <2>3. CASE ~ReadsTwice
      <3>1. Expected(opened) = Cursor
        BY <2>1, <2>3, ExpectedIs DEF Cursor
      <3>. QED BY <2>1, <2>2, <2>3, <3>1 DEF PlainFits
    <2>4. CASE ReadsTwice
      <3>. DEFINE then(c) == RowsAt(versions, members, request, c, opened)
      <3>1. Expected(opened) = UNION {then(c) : c \in Cursor}
        BY <2>1, <2>4, ExpectedIs DEF Cursor
      <3>2. ASSUME NEW c \in Cursor, Settled(c)
            PROVE  Got(c) = then(c)
        <4>1. PICK T \in opened..last : Got(c) = RowsAt(versions, members, request, c, T)
          BY <3>2 DEF Settled
        <4>2. request.start # Latest /\ request.start \in Nat /\ request.start <= opened
          BY <2>1, <2>4, RequestFields, VersionBounds DEF Times
        <4>3. T \in Nat /\ opened <= T
          BY <2>1
        <4>. QED BY <2>1, <4>1, <4>2, <4>3, PastRowsStay
      <3>. HIDE DEF then
      <3>3. /\ \A r \in Rows(body) : \E c \in Cursor : r \in Got(c)
            /\ \A c \in Cursor : Got(c) = {} \/ Settled(c)
            /\ \A c : Got(c) \subseteq Rows(body)
        BY <2>1, <2>4 DEF NestedFits, Got
      <3>4. Rows(body) \subseteq Expected(opened)
        BY <3>1, <3>2, <3>3
      <3>5. ASSUME pc = "complete"
            PROVE  Expected(opened) \subseteq Rows(body)
        <4>1. \A c \in Cursor : Settled(c)
          BY <2>1, <2>2, <2>4, <3>5 DEF NestedFits
        <4>. QED BY <3>1, <3>2, <3>3, <4>1
      <3>. QED BY <3>4, <3>5
    <2>. QED BY <2>3, <2>4
  <1>. QED BY Inductive, <1>1, PTL

(* Up to "latest" each collection is that of the moment at which the       *)
(* response began, with all its members of one moment since.               *)
THEOREM LatestCollections == Spec => []LatestCollectionsAreOfTwoMoments
  <1>1. IInv => LatestCollectionsAreOfTwoMoments
    <2>. SUFFICES ASSUME IInv, ReadsTwice, request.start = Latest, opened > 0,
                         ReachesTheMap(request.box), NEW o \in Collections
                  PROVE  LET got == {r \in Rows(body) : r.of = o}
                         IN  \/ got = {} /\ pc # "complete"
                             \/ \E t \in opened..last :
                                  got = {r \in NestedRows(Existing(opened, opened),
                                                          Existing(t, t)) : r.of = o}
      BY DEF LatestCollectionsAreOfTwoMoments
    <2>. DEFINE got == {r \in Rows(body) : r.of = o}
                at(c, t) == RowsAt(versions, members, request, c, t)
                nested(t) == NestedRows(Existing(opened, opened), Existing(t, t))
    <2>1. /\ Started /\ request \in Requests /\ opened \in Nat /\ last \in Nat
          /\ opened \in opened..last /\ Chained(versions) /\ NestedFits
      <3>1. Started /\ last \in Nat
        BY DEF IInv, OpeningFits, HistoryFits, VersionsTypeOK
      <3>2. opened \in 1..last
        BY <3>1 DEF IInv, OpeningFits
      <3>. QED BY <3>1, <3>2 DEF IInv, TypeOK, HistoryFits, RowsFit
    <2>2. request.kind \in {"collections", "members"}
      BY DEF ReadsTwice
    <2>3. \A t : nested(t) = UNION {at(c, t) : c \in Cursor}
      <3>1. Cursor = {ListRow(members, c) : c \in Listed(versions, members, request, opened)}
        BY <2>2 DEF Cursor, CursorRows
      <3>2. \A t : StartAt(request, t) = t
        BY DEF StartAt
      <3>3. \A t : nested(t) = NestedRows(Existed(versions, StartAt(request, opened), opened),
                                          Existed(versions, StartAt(request, t), t))
        BY <3>2, ExistingIs
      <3>. HIDE DEF nested
      <3>. QED BY <3>1, <3>3, NestedRowsAre
    <2>4. \A c \in Cursor : /\ c.of = c.object
                            /\ \A geom : CollectionRow(c, geom).of = c.of
                            /\ \A d \in Cursor : c.object = d.object => c = d
      BY <2>1, <2>2, CursorFields DEF Cursor
    <2>5. \A c \in Cursor : \A t : \A r \in at(c, t) : r.of = c.object
      BY <2>4, RowsAtAreOf
    <2>. HIDE DEF at, nested
    <2>6. CASE \E c \in Cursor : c.object = o
      <3>1. PICK c \in Cursor : c.object = o
        BY <2>6
      <3>2. \A t : {r \in nested(t) : r.of = o} = at(c, t)
        BY <2>3, <2>4, <2>5, <3>1
      <3>3. got = Got(c)
        BY <3>1 DEF Got
      <3>4. Got(c) = {} \/ Settled(c)
        BY <2>1 DEF NestedFits
      <3>5. pc = "complete" => Settled(c)
        BY <2>1 DEF NestedFits, IInv, BatchFits, Undelivered
      <3>6. Settled(c) => \E t \in opened..last : Got(c) = at(c, t)
        BY DEF Settled, at
      <3>. QED BY <3>2, <3>3, <3>4, <3>5, <3>6 DEF nested
    <2>7. CASE ~\E c \in Cursor : c.object = o
      <3>1. got = {}
        BY <2>1, <2>7 DEF NestedFits
      <3>2. {r \in nested(opened) : r.of = o} = {}
        BY <2>3, <2>5, <2>7
      <3>. QED BY <2>1, <3>1, <3>2 DEF nested
    <2>. QED BY <2>6, <2>7
  <1>. QED BY Inductive, <1>1, PTL
=============================================================================
