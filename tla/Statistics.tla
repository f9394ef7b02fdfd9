----------------------------- MODULE Statistics -----------------------------
(***************************************************************************)
(* A statistics request from its times to its values: service/stats,       *)
(* db/time.py and db/stats with their SQL.  It makes up to three database  *)
(* calls, each in a transaction of its own, while edits go on.             *)
(*                                                                         *)
(* Values are counts; the other measures sum over the same rows, and the   *)
(* contributors are the users of the rows that "contributions" counts.     *)
(* An interval has the same length everywhere, as months have not.         *)
(***************************************************************************)
EXTENDS Versions, Sequences, Functions

CONSTANTS
    Latest,         \* the time "latest"
    NoInterval,     \* interval or bin_size was not given
    MaxInterval,    \* bound: the longest interval that may be given
    Limit,          \* CONFIG.time_series_size_limit
    GroupLimit,     \* CONFIG.group_by_time_series_size_limit
    CheckSpan       \* CONFIG.ohsomedb.time_boundaries_check_days

ASSUME SpecialTimes == Latest \notin Int /\ NoInterval \notin Int
ASSUME IntervalsAreBounded == MaxInterval \in Nat
ASSUME Limits == Limit \in Nat \ {0} /\ GroupLimit \in Nat /\ CheckSpan \in Nat

VARIABLES
    request,    \* endpoint and times, as validated
    pc,         \* the call that comes next, or how the request ended
    start, end, \* its times once "latest" is resolved
    series,     \* the timestamps of its points, or of the edges of its bins
    answer,     \* its values, and those of each group
    asOf        \* history: the versions there were when `end` was resolved

vars == <<versions, last, request, pc, start, end, series, answer, asOf>>

SnapshotKinds == {"features", "grouped"}
BinKinds == {"contributions", "currentness"}

(* Nothing keeps an interval from being zero or negative.                  *)
Intervals == -1..MaxInterval

(* Timestamp and TimestampLatest are for snapshots; a range has an end     *)
(* after its start.                                                        *)
Requests ==
    LET Any == [kind: SnapshotKinds \cup BinKinds, start: 0..Horizon \cup {Latest},
                end: 0..Horizon \cup {Latest}, interval: Intervals \cup {NoInterval}]
    IN  {r \in Any :
            \/ r.start # Latest /\ (IF r.end = Latest THEN TRUE ELSE r.end > r.start)
            \/ r.start = r.end /\ r.kind \in SnapshotKinds /\ r.interval = NoInterval}

Errors == {"StartGreaterThanEndError", "TimeSeriesTooLargeError",
           "ResultTooLargeError", "IndexError", "InvalidParameterValueError"}
NoAnswer == [value |-> <<>>, group |-> <<>>]
-----------------------------------------------------------------------------
Smaller(a, b) == IF a < b THEN a ELSE b

(* Mutation: one step too many.                                            *)
GenerateSeries_PastEnd(s, e, step, limit) ==
    IF step < 0 THEN <<>>
    ELSE [k \in 1..Smaller((e - s) \div step + 2, limit) |-> s + (k - 1) * step]

(* generate_series(s, e, step) LIMIT limit, for s < e and a step not 0.    *)
GenerateSeries(s, e, step, limit) ==
    IF step < 0 THEN <<>>
    ELSE [k \in 1..Smaller((e - s) \div step + 1, limit) |-> s + (k - 1) * step]

(* Mutation: the uneven last bin is left out.                              *)
WithEnd_Even(records, e) == records

(* The points in a series that does not end at e do not cover what is left.*)
WithEnd(records, e) ==
    IF records[Len(records)] # e THEN Append(records, e) ELSE records

(* Mutation: valid_to is inclusive, so two versions are valid at an edit.  *)
ValidAt_ToInclusive(db, i) ==
    {v \in db : v.from <= series[i] /\ v.to >= series[i] /\ ~v.deleted}

(* Mutation: only the version that is the newest now, as in currentness.   *)
ValidAt_LatestOnly(db, i) ==
    {v \in db : v.from <= series[i] /\ v.to > series[i] /\ Status(v) = "latest"}

(* features.sql: the versions valid at point i.  The check of the range's  *)
(* boundaries is meant to help the planner, and left out of long ranges.   *)
ValidAt(db, i) ==
    {v \in db :
        /\ v.from <= series[i] /\ v.to > series[i]
        /\ end - start > CheckSpan \/ (v.to > start /\ v.from <= end)
        /\ Status(v) \in {"history", "latest"}}

Points == 1..Len(series)

(* get_features, filled with zeros.                                        *)
Snapshots(db) ==
    [value |-> [i \in Points |-> Cardinality(ValidAt(db, i))], group |-> <<>>]

(* features_group_by.sql: one row for each point and each group that has   *)
(* features there, ordered by both and cut at the limit.                   *)
MaxRows == GroupLimit + 1

GroupAt(db, i, g) == {v \in ValidAt(db, i) : v.tag = g}

AllRows(db) == {x \in Points \X Tags : GroupAt(db, x[1], x[2]) # {}}

Precedes(x, y) == x[1] < y[1] \/ (x[1] = y[1] /\ x[2] < y[2])

Rows(db) ==
    {x \in AllRows(db) : Cardinality({y \in AllRows(db) : Precedes(y, x)}) < MaxRows}

Groups(db) == {x[2] : x \in Rows(db)}

TooManyResults(db) == Cardinality(Groups(db)) * Len(series) > MaxRows

(* Mutation: features without such a tag are left out.                     *)
Grouped_WithoutUntagged(db) ==
    LET value(i, g) == IF <<i, g>> \in Rows(db) THEN Cardinality(GroupAt(db, i, g)) ELSE 0
    IN  [value |-> [i \in Points |->
                        SumFunction([g \in Tags \ {NoTag} |-> value(i, g)])],
         group |-> [g \in Groups(db) \ {NoTag} |-> [i \in Points |-> value(i, g)]]]

(* get_features_grouped_by_tag: the total over all groups, also of what    *)
(* has no such tag, and the groups that have one.                          *)
Grouped(db) ==
    LET value(i, g) == IF <<i, g>> \in Rows(db) THEN Cardinality(GroupAt(db, i, g)) ELSE 0
    IN  [value |-> [i \in Points |-> SumFunction([g \in Tags |-> value(i, g)])],
         group |-> [g \in Groups(db) \ {NoTag} |-> [i \in Points |-> value(i, g)]]]

(* contributions.sql, currentness.sql: the edits of the range.             *)
Counted(db) ==
    {v \in db :
        /\ start <= v.from /\ v.from < end
        /\ request.kind = "currentness" => Status(v) = "latest"}

(* Mutation: an edit at an edge belongs to the bin that ends there.        *)
Bucket_AfterEdge(v) == Cardinality({i \in Points : series[i] < v.from})

(* WIDTH_BUCKET(valid_from, series): how many edges are not after it.      *)
Bucket(v) == Cardinality({i \in Points : series[i] <= v.from})

(* zerofill_records_to_time_bin_columns: bin i is between the edges i and  *)
(* i + 1.  No row is in another one, since all are of the range.           *)
Bins(db) ==
    [value |-> [i \in 1..Len(series) - 1 |->
                    Cardinality({v \in Counted(db) : Bucket(v) = i})],
     group |-> <<>>]

Answer(db) ==
    CASE request.kind = "features" -> Snapshots(db)
      [] request.kind = "grouped"  -> Grouped(db)
      [] OTHER                     -> Bins(db)
-----------------------------------------------------------------------------
Init ==
    /\ VersionsInit
    /\ request \in Requests
    /\ pc = "latest"
    /\ start = 0 /\ end = 0 /\ series = <<>> /\ answer = NoAnswer /\ asOf = {}

Update ==
    /\ pc \in {"latest", "series", "query"}
    /\ \E o \in Objects, t \in 1..Horizon, tag \in Tags, deleted \in BOOLEAN :
            Ingest(o, t, tag, deleted)
    /\ UNCHANGED <<request, pc, start, end, series, answer, asOf>>

(* get_latest_timestamp, if the request needs it.                          *)
ResolveLatest ==
    /\ pc = "latest"
    /\ start' = IF request.start = Latest THEN last ELSE request.start
    /\ end' = IF request.end = Latest THEN last ELSE request.end
    /\ asOf' = versions
    /\ pc' = "series"
    /\ UNCHANGED <<versions, last, request, series, answer>>

Continue(s) ==
    /\ series' = s
    /\ pc' = "query"
    /\ UNCHANGED <<versions, last, request, start, end, answer, asOf>>

Refuse(e) ==
    /\ pc' = e
    /\ UNCHANGED <<versions, last, request, start, end, series, answer, asOf>>

Dividing == start < end /\ request.interval # NoInterval

Generated == GenerateSeries(start, end, request.interval, Limit + 1)

(* generate_timestamp_series.                                              *)
MakeSeries ==
    /\ pc = "series"
    /\ \/ start > end /\ Refuse("StartGreaterThanEndError")
       \/ start = end /\ Continue(<<start>>)
       \/ start < end /\ request.interval = NoInterval /\ Continue(<<start, end>>)
       \/ Dividing /\ request.interval = 0 /\ Refuse("InvalidParameterValueError")
       \/ /\ Dividing /\ request.interval # 0
          /\ \/ Generated = <<>> /\ Refuse("IndexError")
             \/ Len(Generated) > Limit /\ Refuse("TimeSeriesTooLargeError")
             \/ /\ Len(Generated) \in 1..Limit
                /\ Continue(WithEnd(Generated, end))

Query ==
    /\ pc = "query"
    /\ \/ /\ request.kind = "grouped" /\ TooManyResults(versions)
          /\ Refuse("ResultTooLargeError")
       \/ /\ request.kind = "grouped" => ~TooManyResults(versions)
          /\ answer' = Answer(versions)
          /\ pc' = "answered"
          /\ UNCHANGED <<versions, last, request, start, end, series, asOf>>

Next == Update \/ ResolveLatest \/ MakeSeries \/ Query

Spec == Init /\ [][Next]_vars
-----------------------------------------------------------------------------
TypeOK ==
    /\ VersionsTypeOK
    /\ request \in Requests
    /\ pc \in {"latest", "series", "query", "answered"} \cup Errors
    /\ start \in 0..Horizon /\ end \in 0..Horizon
    /\ series \in Seq(0..Horizon)
    /\ answer.value \in Seq(Nat)
    /\ asOf \subseteq Version

(* A series reaches from the start to the end of what was asked for, in    *)
(* order, and no two neighbours are further apart than the interval.       *)
SeriesCoversRange ==
    pc \in {"query", "answered"} =>
        /\ series[1] = start /\ series[Len(series)] = end
        /\ \A i \in 1..Len(series) - 1 :
             /\ series[i] < series[i + 1]
             /\ request.interval # NoInterval =>
                    series[i + 1] - series[i] <= request.interval

(* The bins share out the edits of the range: none is counted twice, none  *)
(* is lost, and none from outside is counted, whatever the last bin's size.*)
BinsShareOutTheRange ==
    pc = "answered" /\ request.kind = "contributions" =>
        /\ SumFunction(answer.value) =
              Cardinality({v \in versions : v.from \in start..end - 1})
        /\ \A i \in DOMAIN answer.value :
              answer.value[i] =
                Cardinality({v \in versions : v.from \in series[i]..series[i + 1] - 1})

(* The objects that exist at time t: their newest edit up to t did not     *)
(* delete them.                                                            *)
Existing(db, t) ==
    {o \in Objects :
        \E v \in db :
            /\ v.object = o /\ v.from <= t /\ ~v.deleted
            /\ \A w \in db : w.object = o /\ w.from <= t => w.from <= v.from}

(* A snapshot counts every object that exists at its time, once, with or   *)
(* without the check of the range's boundaries.                            *)
SnapshotsAreExact ==
    pc = "answered" /\ request.kind = "features" =>
        \A i \in Points : answer.value[i] = Cardinality(Existing(versions, series[i]))

(* Edits that come between the calls of a request do not show in a result  *)
(* up to "latest": it is that of the moment at which the latest timestamp  *)
(* was read.  (currentness is not: an edit takes the status "latest" from  *)
(* the version before.)                                                    *)
LatestResultsHold ==
    pc = "answered" /\ request.end = Latest /\ request.kind # "currentness" =>
        answer = Answer(asOf)

(* A grouped result that is not larger than the limit is not refused, has  *)
(* every group, and its totals are those of the request without groups.    *)
SmallGroupedResultsAreWhole ==
    LET whole == {v.tag : v \in UNION {ValidAt(versions, i) : i \in Points}}
    IN  request.kind = "grouped" /\ Cardinality(whole) * Len(series) <= GroupLimit =>
        /\ pc # "ResultTooLargeError"
        /\ pc = "answered" =>
              /\ answer.value = Snapshots(versions).value
              /\ DOMAIN answer.group = whole \ {NoTag}

(* docs/source/reference/time.rst: "Number of snapshots is restricted to a *)
(* maximum of 1000", the value of time_series_size_limit.                  *)
SnapshotsWithinLimit ==
    pc = "answered" /\ request.kind \in SnapshotKinds => Len(series) <= Limit

(* db/stats/features.py refuses what would "lead to a result larger than"  *)
(* its limit; what it answers is whole.                                    *)
GroupedResultsAreWhole ==
    pc = "answered" /\ request.kind = "grouped" =>
        answer.value = Snapshots(versions).value
=============================================================================
