------------------------- MODULE Statistics_proofs -------------------------
(***************************************************************************)
(* What Statistics says of series, bins, snapshots and groups, for any     *)
(* objects, tags, times and limits, with edits between the calls.          *)
(***************************************************************************)
EXTENDS Statistics, Versions_proofs

LEMMA SameSize ==
  ASSUME NEW S, IsFiniteSet(S), NEW T, NEW f \in [S -> T],
         \A x, y \in S : f[x] = f[y] => x = y,
         \A z \in T : \E x \in S : f[x] = z
  PROVE  IsFiniteSet(T) /\ Cardinality(T) = Cardinality(S)
  <1>1. f \in Bijection(S, T)
    BY Fun_IsBij
  <1>2. ExistsBijection(S, T)
    BY <1>1, Fun_ExistsBij
  <1>. QED BY <1>2, FS_Bijection

(* The sum of the sizes of the parts of V is the size of V, in whatever    *)
(* order SumFunction adds them.                                            *)
LEMMA SumOfParts ==
  ASSUME NEW V, IsFiniteSet(V), NEW fun, IsFiniteSet(DOMAIN fun),
         NEW c, \A v \in V : c[v] \in DOMAIN fun,
         \A i \in DOMAIN fun : fun[i] = Cardinality({v \in V : c[v] = i})
  PROVE  SumFunction(fun) = Cardinality(V)
  <1>. DEFINE D == DOMAIN fun
              part(s) == {v \in V : c[v] \in s}
              ch(s) == CHOOSE x \in s : TRUE
              Sums(g) == [s \in SUBSET D |->
                            IF s = {} THEN 0 ELSE fun[ch(s)] + g[s \ {ch(s)}]]
              sum == CHOOSE g : g = Sums(g)
              size == [s \in SUBSET D |-> Cardinality(part(s))]
  <1>1. SumFunction(fun) = sum[D]
    BY DEF SumFunction, SumFunctionOnSet, FoldFunctionOnSet, MapThenFoldSet
  <1>2. ASSUME NEW s \in SUBSET D, s # {}
        PROVE  /\ ch(s) \in s
               /\ Cardinality(part(s)) = fun[ch(s)] + Cardinality(part(s \ {ch(s)}))
    <2>1. ch(s) \in s
      BY <1>2
    <2>. DEFINE x == ch(s)
                A == {v \in V : c[v] = x}
                B == part(s \ {x})
    <2>. HIDE DEF ch
    <2>2. part(s) = A \cup B /\ A \cap B = {}
      BY <2>1
    <2>3. IsFiniteSet(A) /\ IsFiniteSet(B) /\ A \in SUBSET V /\ B \in SUBSET V
      BY FS_Subset
    <2>4. fun[x] = Cardinality(A)
      BY <2>1
    <2>. HIDE DEF A, B, part, x
    <2>5. Cardinality(part(s)) = Cardinality(A) + Cardinality(B) - 0
      BY <2>2, <2>3, FS_Union, FS_EmptySet
    <2>6. Cardinality(A) \in Nat /\ Cardinality(B) \in Nat
      BY <2>3, FS_CardinalityType
    <2>. QED BY <2>1, <2>4, <2>5, <2>6 DEF x, B
  <1>3. size = Sums(size)
    <2>1. part({}) = {} /\ Cardinality({}) = 0
      BY FS_EmptySet
    <2>2. ASSUME NEW s \in SUBSET D, s # {}
          PROVE  /\ s \ {ch(s)} \in SUBSET D
                 /\ size[s] = fun[ch(s)] + size[s \ {ch(s)}]
      <3>. HIDE DEF ch, part
      <3>. QED BY <1>2, <2>2
    <2>3. \A s \in SUBSET D :
            size[s] = IF s = {} THEN 0 ELSE fun[ch(s)] + size[s \ {ch(s)}]
      <3>. HIDE DEF ch
      <3>. QED BY <2>1, <2>2
    <2>. HIDE DEF ch, part
    <2>. QED BY <2>3
  <1>4. sum = Sums(sum)
    <2>. HIDE DEF Sums, size
    <2>. QED BY <1>3
  <1>5. ASSUME NEW s \in SUBSET D
        PROVE  sum[s] = IF s = {} THEN 0 ELSE fun[ch(s)] + sum[s \ {ch(s)}]
    <2>. HIDE DEF ch, sum
    <2>. QED BY <1>4
  <1>6. \A s \in SUBSET D : sum[s] = Cardinality(part(s))
    <2>. DEFINE bad == {s \in SUBSET D : sum[s] # Cardinality(part(s))}
    <2>. SUFFICES ASSUME bad # {} PROVE FALSE
      OBVIOUS
    <2>. HIDE DEF sum, part, ch
    <2>1. PICK s \in bad : \A y \in bad : ~(y \subseteq s /\ y # s)
      <3>1. bad \subseteq SUBSET D
        OBVIOUS
      <3>. HIDE DEF bad
      <3>. QED BY <3>1, SmallestSubset
    <2>2. s # {}
      <3>1. part({}) = {}
        BY DEF part
      <3>. QED BY <3>1, <1>5, FS_EmptySet
    <2>3. s \ {ch(s)} \notin bad
      BY <1>2, <2>1, <2>2
    <2>. QED BY <1>2, <1>5, <2>1, <2>2, <2>3
  <1>7. part(D) = V
    OBVIOUS
  <1>. QED BY <1>1, <1>6, <1>7
-----------------------------------------------------------------------------
(* What a series of edges from a to b is: in order, from one to the other, *)
(* and in steps that are not greater than the interval, if there is one.   *)
SeriesFrom(s, a, b) ==
    /\ s \in Seq(a..b) /\ Len(s) > 0
    /\ s[1] = a /\ s[Len(s)] = b
    /\ \A i, j \in 1..Len(s) : i < j => s[i] < s[j]

InSteps(s, step) == \A i \in 1..Len(s) - 1 : s[i + 1] - s[i] <= step

LEMMA Multiples ==
  ASSUME NEW a \in Int, NEW b \in Int, NEW c \in Nat \ {0}
  PROVE  /\ a <= b => a * c <= b * c
         /\ a < b => a * c < b * c
         /\ (a + 1) * c = a * c + c
         /\ a * c \in Int
  OBVIOUS

LEMMA Division ==
  ASSUME NEW a \in Nat, NEW c \in Nat \ {0}
  PROVE  /\ a \div c \in Nat
         /\ (a \div c) * c <= a
         /\ a < (a \div c) * c + c
  OBVIOUS

LEMMA Appended ==
  ASSUME NEW T, NEW q \in Seq(T), NEW x \in T
  PROVE  /\ Append(q, x) \in Seq(T) /\ Len(Append(q, x)) = Len(q) + 1
         /\ Append(q, x)[Len(q) + 1] = x
         /\ \A k \in 1..Len(q) : Append(q, x)[k] = q[k]
  OBVIOUS

(* What generate_timestamp_series returns unless it refuses: the series of *)
(* the database with the end of the range appended if it is not in it.     *)
LEMMA GeneratedSeries ==
  ASSUME NEW s \in Nat, NEW e \in Nat, s < e, NEW step \in Int, step # 0,
         NEW limit \in Nat,
         Len(GenerateSeries(s, e, step, limit + 1)) \in 1..limit
  PROVE  LET g == WithEnd(GenerateSeries(s, e, step, limit + 1), e)
         IN  SeriesFrom(g, s, e) /\ InSteps(g, step)
  <1>. DEFINE n == (e - s) \div step
              h == GenerateSeries(s, e, step, limit + 1)
              g == WithEnd(h, e)
  <1>1. step \in Nat \ {0}
    <2>. SUFFICES ASSUME step < 0 PROVE FALSE
      OBVIOUS
    <2>1. h = <<>>
      BY DEF GenerateSeries
    <2>. QED BY <2>1
  <1>2. n \in Nat /\ n * step <= e - s /\ e - s < n * step + step /\ n * step \in Int
    BY <1>1, Division, Multiples
  <1>. HIDE DEF n
  <1>3. h = [k \in 1..n + 1 |-> s + (k - 1) * step] /\ Len(h) = n + 1
    <2>1. h = [k \in 1..Smaller(n + 1, limit + 1) |-> s + (k - 1) * step]
      BY <1>1 DEF GenerateSeries, n
    <2>2. Smaller(n + 1, limit + 1) \in Nat
      BY <1>2 DEF Smaller
    <2>3. Len(h) = Smaller(n + 1, limit + 1)
      BY <2>1, <2>2
    <2>4. Smaller(n + 1, limit + 1) = n + 1
      BY <1>2, <2>3 DEF Smaller
    <2>. QED BY <2>1, <2>3, <2>4
  <1>4. ASSUME NEW k \in 1..n + 1
        PROVE  h[k] = s + (k - 1) * step /\ (k - 1) * step \in Int /\ h[k] \in s..s + n * step
    <2>1. h[k] = s + (k - 1) * step
      BY <1>3
    <2>2. 0 * step <= (k - 1) * step /\ (k - 1) * step <= n * step /\ (k - 1) * step \in Int
      BY <1>1, <1>2, Multiples
    <2>. QED BY <2>1, <2>2, <1>1, <1>2
  <1>5. \A i, j \in 1..n + 1 : i < j => h[i] < h[j]
    <2>. SUFFICES ASSUME NEW i \in 1..n + 1, NEW j \in 1..n + 1, i < j
                  PROVE  h[i] < h[j]
      OBVIOUS
    <2>1. (i - 1) * step < (j - 1) * step
      BY <1>1, <1>2, Multiples
    <2>. QED BY <2>1, <1>4
  <1>6. \A i \in 1..n : h[i + 1] - h[i] = step
    <2>. SUFFICES ASSUME NEW i \in 1..n PROVE h[i + 1] - h[i] = step
      OBVIOUS
    <2>1. ((i - 1) + 1) * step = (i - 1) * step + step
      BY <1>1, <1>2, Multiples
    <2>2. (i + 1) - 1 = (i - 1) + 1 /\ i \in 1..n + 1 /\ i + 1 \in 1..n + 1
      BY <1>2
    <2>. QED BY <2>1, <2>2, <1>1, <1>4
  <1>7. h[1] = s /\ h[n + 1] = s + n * step /\ h \in Seq(s..e)
    <2>1. h[1] = s + 0 * step /\ h[n + 1] = s + n * step
      BY <1>2, <1>3
    <2>2. h \in [1..n + 1 -> s..e]
      BY <1>2, <1>3, <1>4
    <2>. QED BY <1>1, <1>2, <2>1, <2>2
  <1>. HIDE DEF h
  <1>8. h \in Seq(s..e) /\ Len(h) = n + 1 /\ n + 1 \in Nat
    BY <1>2, <1>3, <1>7
  <1>9. SeriesFrom(g, s, e) /\ InSteps(g, step)
    <2>1. CASE h[n + 1] = e
      <3>1. g = h
        BY <1>8, <2>1 DEF WithEnd
      <3>. HIDE DEF g
      <3>2. SeriesFrom(h, s, e)
        BY <1>2, <1>5, <1>7, <1>8, <2>1 DEF SeriesFrom
      <3>3. InSteps(h, step)
        BY <1>1, <1>2, <1>6, <1>8 DEF InSteps
      <3>. QED BY <3>1, <3>2, <3>3
    <2>2. CASE h[n + 1] # e
      <3>1. g = Append(h, e)
        BY <1>8, <2>2 DEF WithEnd
      <3>. HIDE DEF g
      <3>2. /\ g \in Seq(s..e) /\ Len(g) = n + 2 /\ g[n + 2] = e
            /\ \A k \in 1..n + 1 : g[k] = h[k]
        <4>1. e \in s..e
          OBVIOUS
        <4>2. /\ g \in Seq(s..e) /\ Len(g) = Len(h) + 1 /\ g[Len(h) + 1] = e
              /\ \A k \in 1..Len(h) : g[k] = h[k]
          BY <1>8, <3>1, <4>1, Appended
        <4>. QED BY <1>2, <1>8, <4>2
      <3>3. h[n + 1] < e /\ e - h[n + 1] <= step
        BY <1>1, <1>2, <1>7, <2>2
      <3>4. \A i \in 1..n + 1 : h[i] <= h[n + 1] /\ h[i] \in Int
        BY <1>2, <1>4, <1>7
      <3>5. ASSUME NEW i \in 1..n + 2, NEW j \in 1..n + 2, i < j
            PROVE  g[i] < g[j]
        <4>1. CASE j = n + 2
          <5>1. i \in 1..n + 1
            BY <1>2, <3>5, <4>1
          <5>. QED BY <1>2, <3>2, <3>3, <3>4, <4>1, <5>1
        <4>2. CASE j # n + 2
          <5>1. i \in 1..n + 1 /\ j \in 1..n + 1
            BY <1>2, <3>5, <4>2
          <5>. QED BY <1>5, <3>2, <3>5, <5>1
        <4>. QED BY <4>1, <4>2
      <3>6. ASSUME NEW i \in 1..n + 1
            PROVE  g[i + 1] - g[i] <= step
        <4>1. CASE i = n + 1
          <5>1. g[i] = h[n + 1] /\ g[i + 1] = e
            BY <1>2, <3>2, <4>1
          <5>. QED BY <3>3, <5>1
        <4>2. CASE i # n + 1
          <5>1. i \in 1..n /\ i + 1 \in 1..n + 1
            BY <1>2, <4>2
          <5>2. g[i] = h[i] /\ g[i + 1] = h[i + 1]
            BY <3>2, <5>1
          <5>. QED BY <1>1, <1>6, <5>1, <5>2
        <4>. QED BY <4>1, <4>2
      <3>7. SeriesFrom(g, s, e)
        BY <1>2, <1>7, <3>2, <3>5 DEF SeriesFrom
      <3>8. InSteps(g, step)
        BY <1>2, <3>2, <3>6 DEF InSteps
      <3>. QED BY <3>7, <3>8
    <2>. QED BY <2>1, <2>2
  <1>. QED BY <1>9 DEF h
-----------------------------------------------------------------------------
SeriesFits ==
    pc \in {"query", "answered", "ResultTooLargeError"} =>
        /\ start <= end /\ SeriesFrom(series, start, end)
        /\ request.interval # NoInterval => InSteps(series, request.interval)

(* What was answered is of the versions there are: nothing is edited any   *)
(* more when a request has ended.                                          *)
AnswerFits ==
    /\ pc = "answered" => answer = Answer(versions)
    /\ pc = "ResultTooLargeError" =>
          request.kind = "grouped" /\ TooManyResults(versions)

(* The versions as of a latest time are still what is known of it.         *)
PastFits ==
    request.end = Latest /\ pc # "latest" =>
        end <= last /\ asOf = KnownAt(versions, end)

IInv == TypeOK /\ HistoryFits /\ SeriesFits /\ AnswerFits /\ PastFits
-----------------------------------------------------------------------------
LEMMA RequestFields ==
  ASSUME NEW r \in Requests
  PROVE  /\ r.kind \in SnapshotKinds \cup BinKinds
         /\ r.start \in 0..Horizon \cup {Latest} /\ r.end \in 0..Horizon \cup {Latest}
         /\ r.interval \in Int \cup {NoInterval}
         /\ r.kind \in BinKinds => r.start # Latest
  <1>1. Intervals \subseteq Int
    BY IntervalsAreBounded DEF Intervals
  <1>2. SnapshotKinds \cap BinKinds = {}
    BY DEF SnapshotKinds, BinKinds
  <1>. QED BY <1>1, <1>2 DEF Requests

LEMMA TagsAreFinite == IsFiniteSet(Tags)
  BY VersionBounds, FS_Interval DEF Tags, NoTag

LEMMA ValidVersions ==
  ASSUME NEW db, Chained(db), NEW i
  PROVE  /\ ValidAt(db, i) \subseteq db /\ ValidAt(db, i) \subseteq Version
         /\ IsFiniteSet(ValidAt(db, i)) /\ Cardinality(ValidAt(db, i)) \in Nat
  <1>1. ValidAt(db, i) \subseteq db
    BY DEF ValidAt
  <1>. QED BY <1>1, FS_Subset, FS_CardinalityType DEF Chained

(* The total of a point is the size of the groups that were returned of it.*)
LEMMA GroupTotal ==
  ASSUME NEW db, Chained(db), NEW i
  PROVE  SumFunction([g \in Tags |->
            IF <<i, g>> \in Rows(db) THEN Cardinality(GroupAt(db, i, g)) ELSE 0])
         = Cardinality({v \in ValidAt(db, i) : <<i, v.tag>> \in Rows(db)})
  <1>. DEFINE fun == [g \in Tags |->
                IF <<i, g>> \in Rows(db) THEN Cardinality(GroupAt(db, i, g)) ELSE 0]
              V == {v \in ValidAt(db, i) : <<i, v.tag>> \in Rows(db)}
              c == [v \in V |-> v.tag]
  <1>1. IsFiniteSet(V)
    BY ValidVersions, FS_Subset
  <1>2. DOMAIN fun = Tags /\ IsFiniteSet(DOMAIN fun)
    BY TagsAreFinite
  <1>3. \A v \in V : c[v] \in Tags
    BY ValidVersions, VersionFields
  <1>4. ASSUME NEW g \in Tags
        PROVE  fun[g] = Cardinality({v \in V : c[v] = g})
    <2>1. CASE <<i, g>> \in Rows(db)
      <3>1. {v \in V : c[v] = g} = GroupAt(db, i, g)
        BY <2>1 DEF GroupAt
      <3>. QED BY <2>1, <3>1
    <2>2. CASE <<i, g>> \notin Rows(db)
      <3>1. {v \in V : c[v] = g} = {}
        BY <2>2
      <3>. QED BY <2>2, <3>1, FS_EmptySet
    <2>. QED BY <2>1, <2>2
  <1>. HIDE DEF fun, V, c
  <1>5. SumFunction(fun) = Cardinality(V)
    BY <1>1, <1>2, <1>3, <1>4, SumOfParts
  <1>. QED BY <1>5 DEF fun, V

LEMMA SequenceOf ==
  ASSUME NEW T, NEW n \in Nat, NEW f, f \in [1..n -> T]
  PROVE  f \in Seq(T)
  OBVIOUS

LEMMA AnswerTypes ==
  ASSUME NEW db, Chained(db), series \in Seq(0..Horizon)
  PROVE  Answer(db).value \in Seq(Nat)
  <1>1. Len(series) \in Nat
    OBVIOUS
  <1>2. Snapshots(db).value \in Seq(Nat)
    <2>1. Snapshots(db).value = [i \in 1..Len(series) |-> Cardinality(ValidAt(db, i))]
      BY DEF Snapshots, Points
    <2>2. Snapshots(db).value \in [1..Len(series) -> Nat]
      BY <2>1, ValidVersions
    <2>. QED BY <1>1, SequenceOf, <2>2
  <1>3. Grouped(db).value \in Seq(Nat)
    <2>. DEFINE total(i) == SumFunction([g \in Tags |->
            IF <<i, g>> \in Rows(db) THEN Cardinality(GroupAt(db, i, g)) ELSE 0])
    <2>1. Grouped(db).value = [i \in 1..Len(series) |-> total(i)]
      BY DEF Grouped, Points
    <2>2. ASSUME NEW i \in 1..Len(series)
          PROVE  total(i) \in Nat
      <3>. DEFINE V == {v \in ValidAt(db, i) : <<i, v.tag>> \in Rows(db)}
      <3>1. IsFiniteSet(V)
        BY ValidVersions, FS_Subset
      <3>2. Cardinality(V) \in Nat
        BY <3>1, FS_CardinalityType
      <3>. QED BY <3>2, GroupTotal
    <2>. HIDE DEF total
    <2>3. Grouped(db).value \in [1..Len(series) -> Nat]
      BY <2>1, <2>2
    <2>. QED BY <1>1, SequenceOf, <2>3
  <1>4. Bins(db).value \in Seq(Nat)
    <2>. DEFINE bin(i) == {v \in Counted(db) : Bucket(v) = i}
    <2>1. Bins(db).value = [i \in 1..Len(series) - 1 |-> Cardinality(bin(i))]
      BY DEF Bins
    <2>2. ASSUME NEW i PROVE Cardinality(bin(i)) \in Nat
      <3>1. bin(i) \subseteq db
        BY DEF Counted
      <3>. HIDE DEF bin
      <3>. QED BY <3>1, FS_Subset, FS_CardinalityType DEF Chained
    <2>. HIDE DEF bin
    <2>3. CASE Len(series) = 0
      <3>1. Bins(db).value \in [1..0 -> Nat]
        BY <2>1, <2>2, <2>3
      <3>. QED BY SequenceOf, <3>1
    <2>4. CASE Len(series) # 0
      <3>1. Len(series) - 1 \in Nat /\ Bins(db).value \in [1..Len(series) - 1 -> Nat]
        BY <1>1, <2>1, <2>2, <2>4
      <3>. QED BY SequenceOf, <3>1
    <2>. QED BY <2>3, <2>4
  <1>. QED BY <1>2, <1>3, <1>4 DEF Answer
-----------------------------------------------------------------------------
(* An answer depends on the request, its times and its series only.        *)
LEMMA AnswerUnchanged ==
  ASSUME UNCHANGED <<versions, request, start, end, series>>
  PROVE  /\ Answer(versions)' = Answer(versions)
         /\ TooManyResults(versions)' = TooManyResults(versions)
  BY DEF Answer, Snapshots, Grouped, Bins, TooManyResults, Groups, Rows, AllRows,
         GroupAt, ValidAt, Points, Counted, Bucket

LEMMA HistoryUnchanged ==
  ASSUME UNCHANGED <<versions, last>>
  PROVE  /\ HistoryFits' = HistoryFits
         /\ KnownAt(versions, end)' = KnownAt(versions, end')
  BY DEF HistoryFits, VersionsTypeOK, Chained, KnownAt

LEMMA InitInductive == Init => IInv
  <1>. SUFFICES ASSUME Init PROVE IInv
    OBVIOUS
  <1>1. /\ versions = {} /\ last = 0 /\ request \in Requests /\ pc = "latest"
        /\ start = 0 /\ end = 0 /\ series = <<>> /\ answer.value = <<>> /\ asOf = {}
    BY DEF Init, VersionsInit, NoAnswer
  <1>2. HistoryFits
    BY <1>1, VersionBounds, FS_EmptySet DEF HistoryFits, VersionsTypeOK, Chained
  <1>3. TypeOK
    BY <1>1, <1>2, VersionBounds DEF TypeOK, HistoryFits
  <1>. QED
    BY <1>1, <1>2, <1>3 DEF IInv, SeriesFits, AnswerFits, PastFits

LEMMA UpdateInductive ==
  ASSUME IInv, Update
  PROVE  IInv'
  <1>1. /\ pc \in {"latest", "series", "query"}
        /\ UNCHANGED <<request, pc, start, end, series, answer, asOf>>
    BY DEF Update
  <1>2. PICK o \in Objects, t \in 1..Horizon, tag \in Tags, deleted \in BOOLEAN :
            Ingest(o, t, tag, deleted)
    BY DEF Update
  <1>3. HistoryFits'
    BY <1>2, IngestFits DEF IInv
  <1>4. TypeOK'
    BY <1>1, <1>3 DEF IInv, TypeOK, HistoryFits
  <1>5. PastFits'
    <2>. SUFFICES ASSUME request.end = Latest, pc # "latest"
                  PROVE  end <= last' /\ asOf = KnownAt(versions', end)
      BY <1>1 DEF PastFits, KnownAt
    <2>1. /\ end <= last /\ asOf = KnownAt(versions, end)
          /\ end \in Nat /\ last \in Nat
      BY DEF IInv, PastFits, TypeOK, VersionsTypeOK
    <2>2. KnownAt(versions', end) = KnownAt(versions, end)
      BY <1>2, <2>1, IngestKeepsThePast DEF IInv
    <2>3. last' = t /\ t \in last + 1..Horizon
      BY <1>2, IngestChanges
    <2>. QED BY <2>1, <2>2, <2>3
  <1>. QED
    BY <1>1, <1>3, <1>4, <1>5 DEF IInv, SeriesFits, AnswerFits

LEMMA ResolveLatestInductive ==
  ASSUME IInv, ResolveLatest
  PROVE  IInv'
  <1>1. /\ start' = IF request.start = Latest THEN last ELSE request.start
        /\ end' = IF request.end = Latest THEN last ELSE request.end
        /\ asOf' = versions /\ pc' = "series"
        /\ UNCHANGED <<versions, last, request, series, answer>>
    BY DEF ResolveLatest
  <1>2. /\ last \in 0..Horizon /\ request \in Requests
        /\ request.start \in 0..Horizon \cup {Latest}
        /\ request.end \in 0..Horizon \cup {Latest}
    BY RequestFields DEF IInv, TypeOK, VersionsTypeOK
  <1>3. TypeOK'
    BY <1>1, <1>2 DEF IInv, TypeOK, VersionsTypeOK
  <1>4. HistoryFits'
    BY <1>1, HistoryUnchanged DEF IInv
  <1>5. PastFits'
    <2>. SUFFICES ASSUME request.end = Latest
                  PROVE  end' <= last /\ versions = KnownAt(versions, end')
      BY <1>1, HistoryUnchanged DEF PastFits
    <2>. QED BY <1>1, <1>2, KnownNow, VersionBounds DEF IInv
  <1>. QED
    BY <1>1, <1>3, <1>4, <1>5 DEF IInv, SeriesFits, AnswerFits

(* A series is a series in either case: of one point, of two, or generated.*)
LEMMA ContinueInductive ==
  ASSUME IInv, pc = "series", NEW s, Continue(s), start <= end,
         SeriesFrom(s, start, end),
         request.interval # NoInterval => InSteps(s, request.interval)
  PROVE  IInv'
  <1>1. /\ series' = s /\ pc' = "query"
        /\ UNCHANGED <<versions, last, request, start, end, answer, asOf>>
    BY DEF Continue
  <1>2. s \in Seq(0..Horizon)
    <2>1. s \in Seq(start..end) /\ start \in 0..Horizon /\ end \in 0..Horizon
      BY DEF SeriesFrom, IInv, TypeOK
    <2>2. start..end \subseteq 0..Horizon
      BY <2>1, VersionBounds
    <2>3. Len(s) \in Nat /\ s \in [1..Len(s) -> start..end]
      BY <2>1
    <2>4. s \in [1..Len(s) -> 0..Horizon]
      BY <2>2, <2>3
    <2>. QED BY <2>3, <2>4, SequenceOf
  <1>3. TypeOK' /\ HistoryFits'
    BY <1>1, <1>2, HistoryUnchanged DEF IInv, TypeOK, VersionsTypeOK
  <1>4. PastFits'
    BY <1>1, HistoryUnchanged DEF IInv, PastFits
  <1>. QED
    BY <1>1, <1>3, <1>4 DEF IInv, SeriesFits, AnswerFits, SeriesFrom, InSteps

LEMMA RefuseInductive ==
  ASSUME IInv, NEW e \in Errors, Refuse(e),
         e = "ResultTooLargeError" =>
            pc = "query" /\ request.kind = "grouped" /\ TooManyResults(versions),
         pc \in {"series", "query"}
  PROVE  IInv'
  <1>1. /\ pc' = e
        /\ UNCHANGED <<versions, last, request, start, end, series, answer, asOf>>
    BY DEF Refuse
  <1>2. TypeOK' /\ HistoryFits'
    BY <1>1, HistoryUnchanged DEF IInv, TypeOK, VersionsTypeOK
  <1>3. PastFits'
    BY <1>1, HistoryUnchanged DEF IInv, PastFits
  <1>4. e \notin {"query", "answered"}
    BY DEF Errors
  <1>5. SeriesFits'
    BY <1>1, <1>4 DEF IInv, SeriesFits
  <1>6. AnswerFits'
    BY <1>1, <1>4, AnswerUnchanged DEF AnswerFits
  <1>. QED
    BY <1>2, <1>3, <1>5, <1>6 DEF IInv

LEMMA MakeSeriesInductive ==
  ASSUME IInv, MakeSeries
  PROVE  IInv'
  <1>1. /\ pc = "series" /\ start \in Nat /\ end \in Nat
        /\ request.interval \in Int \cup {NoInterval}
        /\ Limit \in Nat \ {0} /\ NoInterval \notin Int
    BY RequestFields, Limits, SpecialTimes DEF MakeSeries, IInv, TypeOK
  <1>2. {"StartGreaterThanEndError", "InvalidParameterValueError", "IndexError",
         "TimeSeriesTooLargeError"} \subseteq Errors
    BY DEF Errors
  <1>3. CASE start = end /\ Continue(<<start>>)
    <2>1. SeriesFrom(<<start>>, start, end)
      BY <1>1, <1>3 DEF SeriesFrom
    <2>2. InSteps(<<start>>, request.interval)
      BY DEF InSteps
    <2>. QED BY <1>1, <1>3, <2>1, <2>2, ContinueInductive
  <1>4. CASE start < end /\ request.interval = NoInterval /\ Continue(<<start, end>>)
    <2>1. SeriesFrom(<<start, end>>, start, end)
      <3>1. <<start, end>> \in Seq(start..end) /\ Len(<<start, end>>) = 2
        BY <1>1, <1>4
      <3>. QED BY <1>1, <1>4, <3>1 DEF SeriesFrom
    <2>. QED BY <1>1, <1>4, <2>1, ContinueInductive
  <1>5. CASE /\ Dividing /\ request.interval # 0
             /\ Len(Generated) \in 1..Limit
             /\ Continue(WithEnd(Generated, end))
    <2>1. start < end /\ request.interval \in Int /\ request.interval # 0
      BY <1>1, <1>5 DEF Dividing
    <2>2. /\ SeriesFrom(WithEnd(Generated, end), start, end)
          /\ InSteps(WithEnd(Generated, end), request.interval)
      BY <1>1, <1>5, <2>1, GeneratedSeries DEF Generated
    <2>. QED BY <1>1, <1>5, <2>1, <2>2, ContinueInductive
  <1>6. CASE \E e \in {"StartGreaterThanEndError", "InvalidParameterValueError",
                       "IndexError", "TimeSeriesTooLargeError"} : Refuse(e)
    BY <1>1, <1>2, <1>6, RefuseInductive
  <1>. QED
    BY <1>3, <1>4, <1>5, <1>6 DEF MakeSeries

LEMMA QueryInductive ==
  ASSUME IInv, Query
  PROVE  IInv'
  <1>1. CASE /\ request.kind = "grouped" /\ TooManyResults(versions)
             /\ Refuse("ResultTooLargeError")
    BY <1>1, RefuseInductive DEF Query, Errors
  <1>2. CASE /\ answer' = Answer(versions) /\ pc' = "answered"
             /\ UNCHANGED <<versions, last, request, start, end, series, asOf>>
    <2>1. answer'.value \in Seq(Nat)
      BY <1>2, AnswerTypes DEF IInv, TypeOK, HistoryFits
    <2>2. TypeOK' /\ HistoryFits'
      BY <1>2, <2>1, HistoryUnchanged DEF IInv, TypeOK, VersionsTypeOK
    <2>3. PastFits'
      BY <1>2, HistoryUnchanged DEF IInv, PastFits, Query
    <2>4. AnswerFits'
      BY <1>2, AnswerUnchanged DEF AnswerFits
    <2>5. SeriesFits'
      BY <1>2 DEF IInv, SeriesFits, Query, SeriesFrom, InSteps
    <2>. QED BY <2>2, <2>3, <2>4, <2>5 DEF IInv
  <1>. QED BY <1>1, <1>2 DEF Query

LEMMA Inductive == Spec => []IInv
  <1>1. IInv /\ [Next]_vars => IInv'
    <2>1. ASSUME IInv, Next PROVE IInv'
      BY <2>1, UpdateInductive, ResolveLatestInductive, MakeSeriesInductive,
         QueryInductive DEF Next
    <2>2. ASSUME IInv, UNCHANGED vars PROVE IInv'
      <3>1. HistoryFits' /\ TypeOK'
        BY <2>2, HistoryUnchanged DEF vars, IInv, TypeOK, VersionsTypeOK
      <3>2. AnswerFits' /\ PastFits' /\ SeriesFits'
        BY <2>2, HistoryUnchanged, AnswerUnchanged
        DEF vars, IInv, AnswerFits, PastFits, SeriesFits, SeriesFrom, InSteps
      <3>. QED BY <3>1, <3>2 DEF IInv
    <2>. QED BY <2>1, <2>2
  <1>. QED BY InitInductive, <1>1, PTL DEF Spec
-----------------------------------------------------------------------------
(* Every state of a request with the versions has its type: in particular  *)
(* its values are numbers whatever the limits cut off.                     *)
THEOREM TypeCorrect == Spec => []TypeOK
  <1>1. IInv => TypeOK
    BY DEF IInv
  <1>. QED BY Inductive, <1>1, PTL

(* generate_timestamp_series returns edges in order, that reach from the   *)
(* start to the end, whatever the interval and the limit are.              *)
THEOREM SeriesCovers == Spec => []SeriesCoversRange
  <1>1. IInv => SeriesCoversRange
    <2>. SUFFICES ASSUME IInv, pc \in {"query", "answered"}
                  PROVE  /\ series[1] = start /\ series[Len(series)] = end
                         /\ \A i \in 1..Len(series) - 1 :
                              /\ series[i] < series[i + 1]
                              /\ request.interval # NoInterval =>
                                    series[i + 1] - series[i] <= request.interval
      BY DEF SeriesCoversRange
    <2>1. /\ SeriesFrom(series, start, end) /\ Len(series) \in Nat
          /\ request.interval # NoInterval => InSteps(series, request.interval)
      BY DEF IInv, SeriesFits, SeriesFrom
    <2>2. \A i \in 1..Len(series) - 1 : series[i] < series[i + 1]
      BY <2>1 DEF SeriesFrom
    <2>. QED BY <2>1, <2>2 DEF SeriesFrom, InSteps
  <1>. QED BY Inductive, <1>1, PTL
-----------------------------------------------------------------------------
(* A point of a series lies in the range.                                  *)
LEMMA PointInRange ==
  ASSUME TypeOK, SeriesFrom(series, start, end), NEW i \in Points
  PROVE  /\ series[i] \in Nat /\ start <= series[i] /\ series[i] <= end
         /\ series[i] <= Horizon /\ start \in Nat /\ end \in Nat
  <1>1. series[i] \in start..end /\ start \in 0..Horizon /\ end \in 0..Horizon
    BY DEF TypeOK, SeriesFrom, Points
  <1>. QED BY <1>1, VersionBounds

(* So the check of the range's boundaries leaves no valid version out.     *)
LEMMA ValidWithoutCheck ==
  ASSUME TypeOK, SeriesFrom(series, start, end), NEW i \in Points,
         NEW db, db \subseteq Version
  PROVE  ValidAt(db, i) =
            {v \in db : v.from <= series[i] /\ series[i] < v.to /\ ~v.deleted}
  <1>1. ASSUME NEW v \in db
        PROVE  /\ v.from \in Nat /\ v.to \in Nat
               /\ Status(v) \in {"history", "latest"} <=> ~v.deleted
    BY VersionFields DEF Status
  <1>2. ASSUME NEW v \in db, v.from <= series[i], series[i] < v.to
        PROVE  v.to > start /\ v.from <= end
    BY <1>1, <1>2, PointInRange
  <1>3. ASSUME NEW v \in db
        PROVE  series[i] < v.to <=> v.to > series[i]
    BY <1>1, PointInRange
  <1>. QED BY <1>1, <1>2, <1>3 DEF ValidAt

(* A snapshot counts every object that exists then once, whatever edits    *)
(* there were, before the query or between the calls of the request.       *)
THEOREM SnapshotsExact == Spec => []SnapshotsAreExact
  <1>1. IInv => SnapshotsAreExact
    <2>. SUFFICES ASSUME IInv, pc = "answered", request.kind = "features",
                         NEW i \in Points
                  PROVE  answer.value[i] = Cardinality(Existing(versions, series[i]))
      BY DEF SnapshotsAreExact
    <2>. DEFINE t == series[i]
                V == ValidAt(versions, i)
                f == [v \in V |-> v.object]
    <2>1. TypeOK /\ SeriesFrom(series, start, end) /\ Chained(versions)
      BY DEF IInv, SeriesFits, HistoryFits
    <2>2. t \in Nat /\ t <= Horizon
      BY <2>1, PointInRange
    <2>3. V = {v \in versions : v.from <= t /\ t < v.to /\ ~v.deleted} /\ IsFiniteSet(V)
      BY <2>1, ValidWithoutCheck, ValidVersions DEF Chained
    <2>. HIDE DEF V, t
    <2>4. f \in [V -> Existing(versions, t)]
      <3>1. ASSUME NEW v \in V PROVE v.object \in Existing(versions, t)
        <4>1. \A w \in versions : w.object = v.object /\ w.from <= t => w.from <= v.from
          BY <2>1, <2>2, <2>3, NewestIsValid
        <4>2. v \in versions /\ v.object \in Objects
          BY <2>1, <2>3, VersionFields DEF Chained
        <4>. QED BY <2>3, <4>1, <4>2 DEF Existing
      <3>. QED BY <3>1
    <2>5. ASSUME NEW v \in V, NEW w \in V, v.object = w.object
          PROVE  v = w
      <3>1. v.from = w.from
        <4>1. v.from <= w.from /\ w.from <= v.from
          BY <2>1, <2>2, <2>3, <2>5, NewestIsValid
        <4>2. v.from \in Nat /\ w.from \in Nat
          BY <2>1, <2>3, VersionFields DEF Chained
        <4>. QED BY <4>1, <4>2
      <3>. QED BY <2>1, <2>3, <2>5, <3>1, ChainedKeys
    <2>6. ASSUME NEW o \in Existing(versions, t)
          PROVE  \E v \in V : v.object = o
      <3>1. PICK v \in versions :
              /\ v.object = o /\ v.from <= t /\ ~v.deleted
              /\ \A w \in versions : w.object = o /\ w.from <= t => w.from <= v.from
        BY DEF Existing
      <3>2. t < v.to
        BY <2>1, <2>2, <3>1, NewestIsValid
      <3>. QED BY <2>3, <3>1, <3>2
    <2>7. Cardinality(Existing(versions, t)) = Cardinality(V)
      <3>1. \A v, w \in V : f[v] = f[w] => v = w
        BY <2>5
      <3>2. \A o \in Existing(versions, t) : \E v \in V : f[v] = o
        BY <2>6
      <3>. HIDE DEF f
      <3>. QED BY <2>3, <2>4, <3>1, <3>2, SameSize
    <2>8. answer.value[i] = Cardinality(V)
      BY DEF IInv, AnswerFits, Answer, Snapshots, V
    <2>. QED BY <2>7, <2>8 DEF t
  <1>. QED BY Inductive, <1>1, PTL
-----------------------------------------------------------------------------
(* To forget what happened to versions after T leaves as many of them.     *)
LEMMA SeenSize ==
  ASSUME NEW db, Chained(db), NEW T, NEW S, S \subseteq db
  PROVE  Cardinality({SeenAt(v, T) : v \in S}) = Cardinality(S)
  <1>. DEFINE f == [v \in S |-> SeenAt(v, T)]
              Q == {SeenAt(v, T) : v \in S}
  <1>1. f \in [S -> Q] /\ \A q \in Q : \E v \in S : f[v] = q
    OBVIOUS
  <1>2. ASSUME NEW v \in S, NEW w \in S, f[v] = f[w]
        PROVE  v = w
    <2>1. v \in Version /\ w \in Version /\ v \in db /\ w \in db
      BY DEF Chained
    <2>2. v.object = w.object /\ v.from = w.from
      <3>1. SeenAt(v, T) = SeenAt(w, T)
        BY <1>2
      <3>. QED BY <2>1, <3>1, SeenFields
    <2>. QED BY <2>1, <2>2, ChainedKeys
  <1>3. IsFiniteSet(S)
    BY FS_Subset DEF Chained
  <1>. HIDE DEF f, Q
  <1>4. Cardinality(Q) = Cardinality(S)
    BY <1>1, <1>2, <1>3, SameSize
  <1>. QED BY <1>4 DEF Q

(* A result up to `end` takes nothing from the versions but what was known *)
(* at `end`.                                                               *)
LEMMA KnownVersionsSuffice ==
  ASSUME TypeOK, SeriesFrom(series, start, end), NEW db, Chained(db)
  PROVE  LET K == KnownAt(db, end)
         IN  /\ K \subseteq Version
             /\ \A i \in Points :
                  ValidAt(K, i) = {SeenAt(v, end) : v \in ValidAt(db, i)}
             /\ \A i \in Points, g \in Tags :
                  GroupAt(K, i, g) = {SeenAt(v, end) : v \in GroupAt(db, i, g)}
             /\ request.kind # "currentness" =>
                  Counted(K) = {SeenAt(v, end) : v \in Counted(db)}
  <1>. DEFINE K == KnownAt(db, end)
              sv(v) == SeenAt(v, end)
  <1>1. db \subseteq Version /\ end \in Nat /\ start \in Nat
    BY DEF Chained, TypeOK
  <1>2. ASSUME NEW v \in db
        PROVE  /\ sv(v) \in Version /\ v.from \in Nat /\ v.to \in Nat
               /\ sv(v).object = v.object /\ sv(v).from = v.from
               /\ sv(v).tag = v.tag /\ sv(v).deleted = v.deleted
               /\ sv(v).to = IF v.to > end THEN Forever ELSE v.to
               /\ v.to <= Forever /\ Forever \in Nat
    BY <1>1, SeenFields, VersionFields
  <1>. HIDE DEF sv
  <1>3. K = {sv(v) : v \in {v \in db : v.from <= end}}
    BY DEF KnownAt, sv
  <1>. HIDE DEF K
  <1>4. K \subseteq Version
    BY <1>2, <1>3
  <1>5. ASSUME NEW i \in Points
        PROVE  ValidAt(K, i) = {sv(v) : v \in ValidAt(db, i)}
    <2>. DEFINE t == series[i]
                At(x) == x.from <= t /\ t < x.to /\ ~x.deleted
    <2>1. t \in Nat /\ t <= end /\ end <= Horizon /\ Forever = Horizon + 1 /\ Horizon \in Nat
      BY PointInRange, VersionBounds DEF TypeOK, Forever
    <2>2. /\ ValidAt(K, i) = {x \in K : At(x)}
          /\ ValidAt(db, i) = {v \in db : At(v)}
      BY <1>1, <1>4, ValidWithoutCheck
    <2>. HIDE DEF t
    <2>3. ASSUME NEW v \in db
          PROVE  At(sv(v)) <=> At(v)
      BY <1>1, <1>2, <2>1
    <2>4. ASSUME NEW v \in db, At(v)
          PROVE  v.from <= end
      BY <1>1, <1>2, <2>1, <2>4
    <2>. HIDE DEF At
    <2>. QED BY <1>3, <2>2, <2>3, <2>4
  <1>6. ASSUME NEW i \in Points, NEW g \in Tags
        PROVE  GroupAt(K, i, g) = {sv(v) : v \in GroupAt(db, i, g)}
    <2>1. ASSUME NEW v \in ValidAt(db, i) PROVE sv(v).tag = v.tag
      BY <1>2, ValidVersions
    <2>. QED BY <1>5, <2>1 DEF GroupAt
  <1>7. ASSUME request.kind # "currentness"
        PROVE  Counted(K) = {sv(v) : v \in Counted(db)}
    <2>1. /\ Counted(K) = {x \in K : start <= x.from /\ x.from < end}
          /\ Counted(db) = {v \in db : start <= v.from /\ v.from < end}
      BY <1>7 DEF Counted
    <2>2. \A v \in db : v.from < end => v.from <= end
      BY <1>1, <1>2
    <2>. QED BY <1>2, <1>3, <2>1, <2>2
  <1>. QED BY <1>4, <1>5, <1>6, <1>7 DEF K, sv

LEMMA AnswerOfTheKnown ==
  ASSUME TypeOK, SeriesFrom(series, start, end), NEW db, Chained(db),
         request.kind # "currentness"
  PROVE  Answer(KnownAt(db, end)) = Answer(db)
  <1>. DEFINE K == KnownAt(db, end)
              sv(v) == SeenAt(v, end)
  <1>1. /\ \A i \in Points : ValidAt(K, i) = {sv(v) : v \in ValidAt(db, i)}
        /\ \A i \in Points, g \in Tags :
              GroupAt(K, i, g) = {sv(v) : v \in GroupAt(db, i, g)}
        /\ Counted(K) = {sv(v) : v \in Counted(db)}
    BY KnownVersionsSuffice
  <1>2. ASSUME NEW S, S \subseteq db
        PROVE  Cardinality({sv(v) : v \in S}) = Cardinality(S)
    BY <1>2, SeenSize
  <1>3. \A v \in db : sv(v).from = v.from
    BY SeenFields DEF Chained
  <1>. HIDE DEF K, sv
  <1>4. Snapshots(K) = Snapshots(db)
    <2>1. \A i \in Points : Cardinality(ValidAt(K, i)) = Cardinality(ValidAt(db, i))
      BY <1>1, <1>2, ValidVersions
    <2>. QED BY <2>1 DEF Snapshots
  <1>5. Grouped(K) = Grouped(db)
    <2>1. ASSUME NEW i \in Points, NEW g \in Tags
          PROVE  /\ Cardinality(GroupAt(K, i, g)) = Cardinality(GroupAt(db, i, g))
                 /\ GroupAt(K, i, g) = {} <=> GroupAt(db, i, g) = {}
      <3>1. GroupAt(db, i, g) \subseteq db
        BY ValidVersions DEF GroupAt
      <3>. QED BY <1>1, <1>2, <3>1
    <2>2. AllRows(K) = AllRows(db)
      BY <2>1 DEF AllRows
    <2>3. Rows(K) = Rows(db)
      BY <2>2 DEF Rows
    <2>4. Groups(K) = Groups(db) /\ Groups(K) \subseteq Tags
      BY <2>3 DEF Groups, Rows, AllRows
    <2>. DEFINE value(d, i, g) ==
                  IF <<i, g>> \in Rows(d) THEN Cardinality(GroupAt(d, i, g)) ELSE 0
    <2>5. \A i \in Points, g \in Tags : value(K, i, g) = value(db, i, g)
      BY <2>1, <2>3
    <2>6. \A d : Grouped(d) =
            [value |-> [i \in Points |-> SumFunction([g \in Tags |-> value(d, i, g)])],
             group |-> [g \in Groups(d) \ {NoTag} |-> [i \in Points |-> value(d, i, g)]]]
      BY DEF Grouped
    <2>. HIDE DEF value
    <2>7. \A i \in Points : [g \in Tags |-> value(K, i, g)] = [g \in Tags |-> value(db, i, g)]
      BY <2>5
    <2>8. \A g \in Groups(K) \ {NoTag} :
            [i \in Points |-> value(K, i, g)] = [i \in Points |-> value(db, i, g)]
      BY <2>4, <2>5
    <2>. QED BY <2>4, <2>6, <2>7, <2>8
  <1>6. Bins(K) = Bins(db)
    <2>1. ASSUME NEW i
          PROVE  Cardinality({v \in Counted(K) : Bucket(v) = i})
                   = Cardinality({v \in Counted(db) : Bucket(v) = i})
      <3>1. Counted(db) \subseteq db
        BY DEF Counted
      <3>2. \A v \in Counted(db) : Bucket(sv(v)) = Bucket(v)
        BY <1>3, <3>1 DEF Bucket
      <3>3. {v \in Counted(K) : Bucket(v) = i} = {sv(v) : v \in {v \in Counted(db) : Bucket(v) = i}}
        BY <1>1, <3>2
      <3>. QED BY <1>2, <3>1, <3>3
    <2>. QED BY <2>1 DEF Bins
  <1>7. Answer(K) = Answer(db)
    BY <1>4, <1>5, <1>6 DEF Answer
  <1>. QED BY <1>7 DEF K

(* The result of a request up to "latest" is that of the moment at which   *)
(* it read the latest timestamp, although the values are read in another   *)
(* transaction: what edits made since changes lies behind its end.         *)
THEOREM LatestHolds == Spec => []LatestResultsHold
  <1>1. IInv => LatestResultsHold
    <2>. SUFFICES ASSUME IInv, pc = "answered", request.end = Latest,
                         request.kind # "currentness"
                  PROVE  answer = Answer(asOf)
      BY DEF LatestResultsHold
    <2>1. /\ TypeOK /\ SeriesFrom(series, start, end) /\ Chained(versions)
          /\ asOf = KnownAt(versions, end) /\ answer = Answer(versions)
      BY DEF IInv, SeriesFits, HistoryFits, PastFits, AnswerFits
    <2>. QED BY <2>1, AnswerOfTheKnown
  <1>. QED BY Inductive, <1>1, PTL
-----------------------------------------------------------------------------
LEMMA Elements ==
  ASSUME NEW T, NEW s \in Seq(T), NEW k \in 1..Len(s)
  PROVE  s[k] \in T
  OBVIOUS

LEMMA GreatestNumber ==
  ASSUME NEW n \in Nat, NEW E, E \subseteq 1..n, E # {}
  PROVE  \E k \in E : \A j \in E : j <= k
  <1>. DEFINE S == 1..n
              T == {k..n : k \in E}
  <1>1. T \subseteq SUBSET S /\ T # {} /\ IsFiniteSet(S)
    <2>1. \A k \in E : k..n \subseteq S
      OBVIOUS
    <2>2. IsFiniteSet(S)
      BY FS_Interval, 1 \in Int
    <2>. QED BY <2>1, <2>2
  <1>2. PICK x \in T : \A y \in T : ~(y \subseteq x /\ y # x)
    <2>. HIDE DEF S, T
    <2>. QED BY <1>1, SmallestSubset
  <1>3. PICK k \in E : x = k..n
    BY <1>2
  <1>4. ASSUME NEW j \in E, ~(j <= k)
        PROVE  FALSE
    <2>1. j..n \subseteq k..n /\ k \in k..n /\ k \notin j..n
      BY <1>4
    <2>. QED BY <1>2, <1>3, <2>1
  <1>. QED BY <1>4

(* WIDTH_BUCKET finds the bin of every time in the range, the last one     *)
(* included.                                                               *)
LEMMA BucketOfRange ==
  ASSUME SeriesFrom(series, start, end), start \in Nat, end \in Nat,
         NEW v, v.from \in Nat, start <= v.from, v.from < end
  PROVE  /\ Bucket(v) \in 1..Len(series) - 1
         /\ \A i \in 1..Len(series) - 1 :
              Bucket(v) = i <=> series[i] <= v.from /\ v.from < series[i + 1]
  <1>. DEFINE x == v.from
              n == Len(series)
              E == {i \in Points : series[i] <= x}
  <1>1. /\ n \in Nat /\ n > 0 /\ Points = 1..n
        /\ \A i \in 1..n : series[i] \in Nat
        /\ series[1] = start /\ series[n] = end
        /\ \A i, j \in 1..n : i < j => series[i] < series[j]
    <2>1. series \in Seq(start..end)
      BY DEF SeriesFrom
    <2>2. \A i \in 1..n : series[i] \in start..end
      BY <2>1
    <2>. QED BY <2>1, <2>2 DEF SeriesFrom, Points
  <1>2. 1 \in E /\ n \notin E /\ E \subseteq 1..n
    BY <1>1
  <1>. HIDE DEF n
  <1>3. PICK k \in E : \A j \in E : j <= k
    <2>. HIDE DEF E
    <2>. QED BY <1>1, <1>2, GreatestNumber
  <1>4. k \in 1..n - 1 /\ series[k] <= x
    BY <1>1, <1>2, <1>3
  <1>5. x < series[k + 1]
    <2>1. k + 1 \in 1..n /\ k + 1 \notin E
      BY <1>1, <1>3, <1>4
    <2>. QED BY <1>1, <2>1
  <1>6. E = 1..k
    <2>1. ASSUME NEW j \in 1..k PROVE j \in E
      <3>1. j \in 1..n /\ (j = k \/ j < k)
        BY <1>1, <1>4
      <3>. QED BY <1>1, <1>4, <3>1
    <2>2. ASSUME NEW j \in E PROVE j \in 1..k
      BY <1>1, <1>3, <1>4
    <2>. QED BY <2>1, <2>2
  <1>7. Bucket(v) = k
    <2>1. Bucket(v) = Cardinality(1..k)
      BY <1>6 DEF Bucket
    <2>. QED BY <1>1, <1>4, <2>1, FS_Interval
  <1>8. ASSUME NEW i \in 1..n - 1, series[i] <= x, x < series[i + 1]
        PROVE  i = k
    <2>1. i \in 1..n /\ i + 1 \in 1..n /\ k \in 1..n /\ k + 1 \in 1..n
      BY <1>1, <1>4
    <2>2. CASE i < k
      <3>1. i + 1 = k \/ i + 1 < k
        BY <2>1, <2>2
      <3>. QED BY <1>1, <1>4, <1>8, <2>1, <3>1
    <2>3. CASE k < i
      <3>1. k + 1 = i \/ k + 1 < i
        BY <2>1, <2>3
      <3>. QED BY <1>1, <1>5, <1>8, <2>1, <3>1
    <2>. QED BY <2>1, <2>2, <2>3
  <1>. QED BY <1>4, <1>5, <1>7, <1>8 DEF n

(* The bins share out the edits of the range, for any interval and however *)
(* short the last bin is.                                                  *)
THEOREM BinsShare == Spec => []BinsShareOutTheRange
  <1>1. IInv => BinsShareOutTheRange
    <2>. SUFFICES ASSUME IInv, pc = "answered", request.kind = "contributions"
                  PROVE  /\ SumFunction(answer.value) =
                              Cardinality({v \in versions : v.from \in start..end - 1})
                         /\ \A i \in DOMAIN answer.value :
                              answer.value[i] = Cardinality({v \in versions :
                                    v.from \in series[i]..series[i + 1] - 1})
      BY DEF BinsShareOutTheRange
    <2>. DEFINE V == {v \in versions : v.from \in start..end - 1}
                n == Len(series)
                c == [v \in V |-> Bucket(v)]
                val == answer.value
    <2>1. /\ SeriesFrom(series, start, end) /\ start \in Nat /\ end \in Nat
          /\ start \in 0..Horizon /\ end \in 0..Horizon
          /\ n \in Nat /\ n > 0 /\ IsFiniteSet(versions) /\ versions \subseteq Version
      BY DEF IInv, SeriesFits, SeriesFrom, HistoryFits, Chained, TypeOK
    <2>2. \A v \in versions : v.from \in Nat
      BY <2>1, VersionFields
    <2>3. Counted(versions) = V
      <3>1. \A v \in versions : v.from \in start..end - 1 <=> start <= v.from /\ v.from < end
        BY <2>1, <2>2
      <3>. QED BY <3>1 DEF Counted
    <2>4. IsFiniteSet(V)
      BY <2>1, FS_Subset
    <2>5. ASSUME NEW v \in V
          PROVE  /\ Bucket(v) \in 1..n - 1
                 /\ \A i \in 1..n - 1 :
                      Bucket(v) = i <=> series[i] <= v.from /\ v.from < series[i + 1]
      BY <2>1, <2>2, BucketOfRange
    <2>6. val = [i \in 1..n - 1 |-> Cardinality({v \in Counted(versions) : Bucket(v) = i})]
      BY DEF IInv, AnswerFits, Answer, Bins
    <2>. HIDE DEF V, n, val
    <2>7. DOMAIN val = 1..n - 1 /\ IsFiniteSet(DOMAIN val)
      BY <2>1, <2>6, FS_Interval
    <2>8. \A i \in DOMAIN val : val[i] = Cardinality({v \in V : Bucket(v) = i})
      BY <2>3, <2>6, <2>7
    <2>9. SumFunction(val) = Cardinality(V)
      <3>1. \A v \in V : c[v] \in DOMAIN val
        BY <2>5, <2>7
      <3>2. \A i \in DOMAIN val : val[i] = Cardinality({v \in V : c[v] = i})
        <4>1. \A i : {v \in V : c[v] = i} = {v \in V : Bucket(v) = i}
          OBVIOUS
        <4>. QED BY <2>8, <4>1
      <3>. HIDE DEF c
      <3>. QED BY <2>4, <2>7, <3>1, <3>2, SumOfParts
    <2>10. ASSUME NEW i \in DOMAIN val
           PROVE  {v \in V : Bucket(v) = i} = {v \in versions : v.from \in series[i]..series[i + 1] - 1}
      <3>1. i \in 1..n - 1 /\ i \in 1..n /\ i + 1 \in 1..n
        BY <2>1, <2>7
      <3>2. /\ series[i] \in start..end /\ series[i + 1] \in start..end
        <4>1. series \in Seq(start..end) /\ n = Len(series)
          BY <2>1 DEF SeriesFrom, n
        <4>. QED BY <3>1, <4>1, Elements
      <3>3. ASSUME NEW v \in versions
            PROVE  v.from \in series[i]..series[i + 1] - 1
                    <=> v \in V /\ series[i] <= v.from /\ v.from < series[i + 1]
        BY <2>1, <2>2, <3>2 DEF V
      <3>4. \A v \in V : v \in versions
        BY DEF V
      <3>. QED BY <2>5, <3>1, <3>3, <3>4
    <2>11. \A i \in DOMAIN val :
              val[i] = Cardinality({v \in versions : v.from \in series[i]..series[i + 1] - 1})
      BY <2>8, <2>10
    <2>. QED BY <2>9, <2>11 DEF V, val
  <1>. QED BY Inductive, <1>1, PTL
-----------------------------------------------------------------------------
(* The rows of a grouped result that fits the limit: none is cut off.      *)
LEMMA SmallGroups ==
  ASSUME NEW db, Chained(db), series \in Seq(0..Horizon), NEW whole,
         whole = {v.tag : v \in UNION {ValidAt(db, i) : i \in Points}},
         Cardinality(whole) * Len(series) <= GroupLimit
  PROVE  /\ Rows(db) = AllRows(db) /\ Groups(db) = whole /\ whole \subseteq Tags
         /\ ~TooManyResults(db)
         /\ \A i \in Points : \A v \in ValidAt(db, i) : <<i, v.tag>> \in Rows(db)
  <1>. DEFINE n == Len(series)
              w == Cardinality(whole)
  <1>1. n \in Nat /\ Points = 1..n /\ IsFiniteSet(Points) /\ Cardinality(Points) = n
    <2>1. n \in Nat /\ Points = 1..n
      BY DEF Points
    <2>. HIDE DEF n
    <2>. QED BY <2>1, FS_Interval
  <1>2. whole \subseteq Tags
    BY ValidVersions, VersionFields
  <1>3. IsFiniteSet(whole) /\ w \in Nat
    BY <1>2, TagsAreFinite, FS_Subset, FS_CardinalityType
  <1>4. \A i \in Points : \A v \in ValidAt(db, i) : v.tag \in whole
    OBVIOUS
  <1>5. \A g \in whole : \E i \in Points : \E v \in ValidAt(db, i) : v.tag = g
    OBVIOUS
  <1>. HIDE DEF n, w
  <1>6. AllRows(db) \subseteq Points \X whole
    BY <1>4 DEF AllRows, GroupAt
  <1>7. \A i \in Points : \A v \in ValidAt(db, i) : <<i, v.tag>> \in AllRows(db)
    BY <1>2, <1>4 DEF AllRows, GroupAt
  <1>8. IsFiniteSet(AllRows(db)) /\ Cardinality(AllRows(db)) <= n * w
    <2>1. IsFiniteSet(Points \X whole) /\ Cardinality(Points \X whole) = n * w
      BY <1>1, <1>3, FS_Product DEF w
    <2>. QED BY <1>6, <2>1, FS_Subset
  <1>9. n * w = w * n /\ w * n <= GroupLimit /\ n * w \in Nat /\ GroupLimit \in Nat
    BY <1>1, <1>3, Limits DEF n, w
  <1>10. Rows(db) = AllRows(db)
    <2>1. ASSUME NEW x \in AllRows(db)
          PROVE  Cardinality({y \in AllRows(db) : Precedes(y, x)}) < MaxRows
      <3>1. /\ IsFiniteSet({y \in AllRows(db) : Precedes(y, x)})
            /\ Cardinality({y \in AllRows(db) : Precedes(y, x)}) <= Cardinality(AllRows(db))
        BY <1>8, FS_Subset
      <3>2. /\ Cardinality({y \in AllRows(db) : Precedes(y, x)}) \in Nat
            /\ Cardinality(AllRows(db)) \in Nat
        BY <1>8, <3>1, FS_CardinalityType
      <3>. QED BY <1>8, <1>9, <3>1, <3>2 DEF MaxRows
    <2>. QED BY <2>1 DEF Rows
  <1>11. Groups(db) = whole
    <2>1. ASSUME NEW g \in whole PROVE g \in Groups(db)
      <3>1. PICK i \in Points : \E v \in ValidAt(db, i) : v.tag = g
        BY <1>5
      <3>2. <<i, g>> \in Rows(db) /\ <<i, g>>[2] = g
        BY <1>7, <1>10, <3>1
      <3>. QED BY <3>2 DEF Groups
    <2>2. ASSUME NEW g \in Groups(db) PROVE g \in whole
      BY <1>6, <1>10 DEF Groups
    <2>. QED BY <2>1, <2>2
  <1>12. ~TooManyResults(db)
    BY <1>9, <1>11 DEF TooManyResults, MaxRows, n, w
  <1>. QED BY <1>2, <1>7, <1>10, <1>11, <1>12

(* A grouped result within the limit is not refused, has every group, and  *)
(* its totals are those of the request without groups.                     *)
THEOREM SmallGroupsAreWhole == Spec => []SmallGroupedResultsAreWhole
  <1>1. IInv => SmallGroupedResultsAreWhole
    <2>. DEFINE whole == {v.tag : v \in UNION {ValidAt(versions, i) : i \in Points}}
    <2>. SUFFICES ASSUME IInv, request.kind = "grouped",
                         Cardinality(whole) * Len(series) <= GroupLimit
                  PROVE  /\ pc # "ResultTooLargeError"
                         /\ pc = "answered" =>
                               /\ answer.value = Snapshots(versions).value
                               /\ DOMAIN answer.group = whole \ {NoTag}
      BY DEF SmallGroupedResultsAreWhole
    <2>1. Chained(versions) /\ series \in Seq(0..Horizon)
      BY DEF IInv, HistoryFits, TypeOK
    <2>2. /\ Groups(versions) = whole /\ ~TooManyResults(versions)
          /\ \A i \in Points : \A v \in ValidAt(versions, i) : <<i, v.tag>> \in Rows(versions)
      <3>1. whole = {v.tag : v \in UNION {ValidAt(versions, i) : i \in Points}}
        OBVIOUS
      <3>. HIDE DEF whole
      <3>. QED BY <2>1, <3>1, SmallGroups
    <2>. HIDE DEF whole
    <2>3. pc # "ResultTooLargeError"
      BY <2>2 DEF IInv, AnswerFits
    <2>4. ASSUME pc = "answered"
          PROVE  /\ answer.value = Snapshots(versions).value
                 /\ DOMAIN answer.group = whole \ {NoTag}
      <3>. DEFINE value(i, g) == IF <<i, g>> \in Rows(versions)
                                 THEN Cardinality(GroupAt(versions, i, g)) ELSE 0
      <3>1. answer = Grouped(versions)
        BY <2>4 DEF IInv, AnswerFits, Answer
      <3>2. Grouped(versions) =
              [value |-> [i \in Points |-> SumFunction([g \in Tags |-> value(i, g)])],
               group |-> [g \in Groups(versions) \ {NoTag} |-> [i \in Points |-> value(i, g)]]]
        BY DEF Grouped
      <3>3. ASSUME NEW i \in Points
            PROVE  SumFunction([g \in Tags |-> value(i, g)]) = Cardinality(ValidAt(versions, i))
        <4>1. {v \in ValidAt(versions, i) : <<i, v.tag>> \in Rows(versions)} = ValidAt(versions, i)
          BY <2>2
        <4>. QED BY <2>1, <4>1, GroupTotal
      <3>. HIDE DEF value
      <3>. QED BY <2>2, <3>1, <3>2, <3>3 DEF Snapshots
    <2>. QED BY <2>3, <2>4
  <1>. QED BY Inductive, <1>1, PTL
=============================================================================
