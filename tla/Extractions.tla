---------------------------- MODULE Extractions ----------------------------
(***************************************************************************)
(* What an extraction returns: the rows its SQL selects from the ohsomeDB, *)
(* batch by batch, while the database is updated and until the file is     *)
(* closed or cut.  db/extraction with its SQL, db/clauses.py, the streams  *)
(* of service/extraction and the times of routers/extraction.              *)
(*                                                                         *)
(* A cursor reads the state of the database at which it was opened.  The   *)
(* query for the members of a batch of collections is a transaction of its *)
(* own, and its rows are one batch (they are up to 10000 per batch of 200  *)
(* collections).  Rows come in an order that is fixed but arbitrary.       *)
(*                                                                         *)
(* A feature stays where it is, and is a point: what is clipped off it is  *)
(* left out, what is clipped off a collection is not.  Of the filters only *)
(* the one for members is modelled, by the features it lets pass.          *)
(***************************************************************************)
EXTENDS Versions, BoundingBox, Sinks

CONSTANTS
    Collections,    \* the objects that are relations
    Place,          \* Place[o]: the longitude of an object that is not
    Boxes,          \* the areas of interest that requests give
    MemberFilters,  \* the members that the filters of requests let pass
    Latest,         \* the time "latest"
    BatchSize       \* the batch_size of the outer cursor

Features == Objects \ Collections

ASSUME TimeOfTheImport == Horizon >= 1
ASSUME CollectionsAreObjects == Collections \subseteq Objects
ASSUME FeaturesHavePlaces == Place \in [Features -> Longitudes]
ASSUME BoxesAreBoxes == Boxes \subseteq Box
ASSUME FiltersLetPass == Features \in MemberFilters /\ MemberFilters \subseteq SUBSET Features
ASSUME LatestIsNoTime == Latest \notin Int
ASSUME BatchesAreNotEmpty == BatchSize \in Nat \ {0}

VARIABLES
    members,    \* contributions_members: the members of each version
    request,    \* the endpoint and its parameters
    pc,
    rows,       \* what the cursor has not delivered yet
    batch,      \* the batch it delivered last
    opened      \* history: last_timestamp when the cursor was opened

vars == <<versions, last, members, request, pc, rows, batch, opened,
          buffer, body, bounds>>

Times == 0..Horizon
Member == [collection: Collections, version: 1..Horizon, member: Features]

Parameters ==
    [kind: {"features", "contributions", "collections", "members"},
     start: Times \cup {Latest}, end: Times \cup {Latest},
     clip: BOOLEAN, filter: MemberFilters, box: Boxes]

PointInTime(r) == r.start = r.end

TimeRange(r) == r.start # Latest /\ (r.end # Latest => r.end > r.start)

FeaturesRequests ==
    {r \in Parameters : /\ r.kind = "features" /\ r.filter = Features
                        /\ PointInTime(r) \/ TimeRange(r)}

ContributionsRequests ==
    {r \in Parameters : /\ r.kind = "contributions" /\ r.filter = Features
                        /\ r.clip /\ TimeRange(r)}

(* Of the collections themselves, and of their members.                    *)
CollectionsRequests ==
    {r \in Parameters : r.kind \in {"collections", "members"} /\ PointInTime(r)}

Requests == FeaturesRequests \cup ContributionsRequests \cup CollectionsRequests
-----------------------------------------------------------------------------
(* What is written of the version of an object: which one it is, the       *)
(* collection it is listed for as a member, and where it reaches.          *)
Row == [object: Objects, version: 1..Horizon, of: Objects, geom: SUBSET Longitudes]

(* Mutation: valid_to is written for valid_from.                           *)
RowOf_ValidTo(v) == [object |-> v.object, version |-> v.to, of |-> v.object,
                     geom |-> {Place[v.object]}]

RowOf(v) == [object |-> v.object, version |-> v.from, of |-> v.object,
             geom |-> {Place[v.object]}]

MemberRow(c, v) == [RowOf(v) EXCEPT !.of = c.object]

CollectionRow(c, geom) == [c EXCEPT !.geom = geom]

InArea(o) == Intersects(request.box, Place[o], 0)

(* Mutation: the join on the version of the relation is missing.           *)
MembersOf_OfAnyVersion(o, version) ==
    {m.member : m \in {m \in members : m.collection = o}}

MembersOf(o, version) ==
    {m.member : m \in {m \in members : m.collection = o /\ m.version = version}}

(* Mutation: valid_to is inclusive.                                        *)
FilterByTime_ToInclusive(v) ==
    /\ v.deleted = FALSE
    /\ request.start = Latest => Status(v) = "latest"
    /\ request.start # Latest => v.to >= request.start
    /\ request.end # Latest => v.from <= request.end

(* _filter_by_time.  Its argument `contributions` is always False.         *)
FilterByTime(v) ==
    IF request.start = Latest THEN Status(v) = "latest"
    ELSE /\ Status(v) \in {"latest", "history"}
         /\ v.to > request.start
         /\ request.end # Latest => v.from <= request.end

(* The time clause of extract_contributions; of any status.                *)
EditedInRange(v) ==
    /\ v.from >= request.start
    /\ request.end # Latest => v.from < request.end

(* The time clauses of features_collection.py.                             *)
ValidAtTime(v) ==
    IF request.start = Latest THEN Status(v) = "latest"
    ELSE /\ Status(v) \in {"latest", "history"}
         /\ v.from <= request.start /\ v.to > request.start

SelectedFeatures ==
    {RowOf(v) : v \in {v \in versions :
        v.object \in Features /\ InArea(v.object) /\ FilterByTime(v)}}

SelectedContributions ==
    {RowOf(v) : v \in {v \in versions :
        v.object \in Features /\ InArea(v.object) /\ EditedInRange(v)}}

(* A collection reaches where its members do.                              *)
SelectedCollections ==
    {[object |-> v.object, version |-> v.from, of |-> v.object,
      geom |-> {Place[m] : m \in MembersOf(v.object, v.from)}] :
        v \in {v \in versions :
            /\ v.object \in Collections /\ ValidAtTime(v)
            /\ \E m \in MembersOf(v.object, v.from) : InArea(m)}}

(* The query of the cursor.                                                *)
Selected ==
    CASE request.kind = "features"      -> SelectedFeatures
      [] request.kind = "contributions" -> SelectedContributions
      [] OTHER                          -> SelectedCollections

(* features_collection_members_features.sql, ..._members_collections.sql:  *)
(* the versions of the members of the collection c.                        *)
JoinedMembers(c) ==
    {v \in versions :
        /\ v.object \in MembersOf(c.object, c.version) \cap request.filter
        /\ ValidAtTime(v)
        /\ request.clip => InArea(v.object)}

(* extract_features_collection_members_collections: what remains of c.     *)
WithMembers(c) ==
    LET geom == {Place[v.object] : v \in JoinedMembers(c)}
    IN  IF \E v \in JoinedMembers(c) : InArea(v.object)
        THEN {CollectionRow(c, geom)} ELSE {}

Converted ==
    CASE request.kind = "collections" -> UNION {WithMembers(c) : c \in batch}
      [] request.kind = "members" ->
            UNION {{MemberRow(c, v) : v \in JoinedMembers(c)} : c \in batch}
      [] OTHER -> batch
-----------------------------------------------------------------------------
(* The database was imported at time 1, with the features as they are.     *)
Init ==
    /\ versions = {[object |-> o, from |-> 1, to |-> Forever, tag |-> NoTag,
                    deleted |-> FALSE] : o \in Features}
    /\ last = 1
    /\ members = {}
    /\ request \in Requests
    /\ pc = "request" /\ rows = {} /\ batch = {} /\ opened = 0
    /\ SinkInit

Current(o) == \E v \in versions : v.object = o /\ Status(v) = "latest"

(* OSM keeps members of its current relations from being deleted.          *)
IsMember(o) ==
    \E v \in versions :
        v.object \in Collections /\ Status(v) = "latest" /\ o \in MembersOf(v.object, v.from)

Update ==
    /\ pc \in {"request", "fetch", "join"}
    /\ \E o \in Objects, t \in Times, deleted \in BOOLEAN :
        /\ deleted => ~IsMember(o)
        /\ Ingest(o, t, NoTag, deleted)
        /\ IF o \in Collections /\ ~deleted
           THEN \E new \in SUBSET {m \in Features : Current(m)} \ {{}} :
                  members' = members \cup
                    {[collection |-> o, version |-> t, member |-> m] : m \in new}
           ELSE UNCHANGED members
    /\ UNCHANGED <<request, pc, rows, batch, opened, sinkVars>>

Refuse ==
    /\ pc = "request" /\ ~Accepted(request.box)
    /\ pc' = "refused"
    /\ UNCHANGED <<versions, last, members, request, rows, batch, opened, sinkVars>>

(* The next batch of the rows R: a full one, or all that is left.          *)
NextBatch(R) ==
    IF Cardinality(R) < BatchSize THEN R
    ELSE CHOOSE S \in SUBSET R : Cardinality(S) = BatchSize

Deliver(R) ==
    /\ batch' = NextBatch(R)
    /\ rows' = R \ batch'
    /\ pc' = "join"

(* The first batch, with which the response and its sink are opened.       *)
Open ==
    /\ pc = "request" /\ Accepted(request.box)
    /\ Deliver(Selected)
    /\ opened' = last
    /\ OpenSink
    /\ UNCHANGED <<versions, last, members, request>>

FetchBatch ==
    /\ pc = "fetch"
    /\ Deliver(rows)
    /\ UNCHANGED <<versions, last, members, request, opened, sinkVars>>

(* The batch is written with what its nested query returned.  A batch that *)
(* is not full was the last one.                                           *)
Write ==
    /\ pc = "join"
    /\ WriteBatch(Converted)
    /\ pc' = IF Cardinality(batch) < BatchSize THEN "close" ELSE "fetch"
    /\ UNCHANGED <<versions, last, members, request, rows, batch, opened>>

Close ==
    /\ pc = "close"
    /\ CloseSink
    /\ pc' = "complete"
    /\ UNCHANGED <<versions, last, members, request, rows, batch, opened>>

(* A timeout, a database error or the client ends the stream.              *)
Cut ==
    /\ pc \in {"fetch", "join", "close"}
    /\ AbortSink
    /\ pc' = "cut"
    /\ UNCHANGED <<versions, last, members, request, rows, batch, opened>>

Next == Update \/ Refuse \/ Open \/ FetchBatch \/ Write \/ Close \/ Cut

Spec == Init /\ [][Next]_vars
-----------------------------------------------------------------------------
TypeOK ==
    /\ VersionsTypeOK
    /\ members \subseteq Member
    /\ request \in Requests
    /\ pc \in {"request", "fetch", "join", "close", "complete", "cut", "refused"}
    /\ rows \subseteq Row /\ batch \subseteq Row
    /\ opened \in Times
    /\ SinkTypeOK(Row)

(* A response that ends has given its client a whole file, whose footer    *)
(* has the box of all its rows; one that is cut has not, at whatever batch.*)
OnlyWholeFilesHaveFooters ==
    /\ pc = "complete" => WholeFile(body)
    /\ pc # "complete" => \A i \in DOMAIN body : body[i].part # "footer"
-----------------------------------------------------------------------------
(* What the documentation promises, in terms of the edits alone.  The      *)
(* edits up to `until` that made what exists at time t: the newest of each *)
(* object, unless it was a deletion.                                       *)
Existing(t, until) ==
    LET known == {v \in versions : v.from <= t /\ v.from <= until}
    IN  {v \in known :
            /\ ~v.deleted
            /\ \A w \in known : w.object = v.object => w.from <= v.from}

InBox(o) == Contains(request.box, Place[o], 0)

(* The rows for those of the collections cs that reach the box, with those *)
(* of their members among vs that the filter lets pass.                    *)
NestedRows(cs, vs) ==
    LET pairs == {x \in cs \X vs :
            /\ x[1].object \in Collections
            /\ \E m \in MembersOf(x[1].object, x[1].from) : InBox(m)
            /\ x[2].object \in MembersOf(x[1].object, x[1].from) \cap request.filter
            /\ request.clip => InBox(x[2].object)}
    IN  IF request.kind = "members"
        THEN {MemberRow([object |-> x[1].object], x[2]) : x \in pairs}
        ELSE {[object |-> c.object, version |-> c.from, of |-> c.object,
               geom |-> {Place[x[2].object] : x \in {x \in pairs : x[1] = c}}] :
                 c \in {x[1] : x \in {x \in pairs : InBox(x[2].object)}}}

(* The rows a request is to return from the edits up to `until`.           *)
Expected(until) ==
    LET start == IF request.start = Latest THEN until ELSE request.start
        end == IF request.end = Latest THEN Forever ELSE request.end
    IN  CASE request.kind = "features" ->
                {RowOf(v) : v \in {v \in UNION {Existing(t, until) : t \in start..end} :
                                    v.object \in Features /\ InBox(v.object)}}
          [] request.kind = "contributions" ->
                {RowOf(v) : v \in {v \in versions :
                    /\ v.object \in Features /\ InBox(v.object)
                    /\ v.from \in start..until
                    /\ request.end # Latest => v.from < end}}
          [] OTHER -> NestedRows(Existing(start, until), Existing(start, until))

(* The nested queries read the state of the database of a later moment.    *)
ReadsTwice == request.kind \in {"collections", "members"}

(* What the client has of an extraction is what the documentation promises *)
(* for the box, the time and the endpoint, as of one state of the database *)
(* although updates happen between the batches: each version is in it that *)
(* was valid in the range, or made in it, and no other.  A response that   *)
(* is cut has some of these rows, a complete one has all.                  *)
ExtractionsAreExact ==
    /\ opened > 0 /\ ReachesTheMap(request.box)
    /\ ReadsTwice => (request.start # Latest /\ request.start <= opened)
    => /\ Rows(body) \subseteq Expected(opened)
       /\ pc = "complete" => Rows(body) = Expected(opened)

(* REFUTED: what aoi.py says of the boxes it accepts, for every one.       *)
ExtractionsAreOfTheBox ==
    /\ pc = "complete" /\ ~ReadsTwice
    => \A r \in Rows(body) : InBox(r.object)

(* REFUTED: what docs/source/reference/time.rst says of a timestamp,       *)
(* "latest" included: "A single point in time (snapshot) of OSM data."     *)
(* A complete response for collections or their members is that of one     *)
(* moment between its first batch and its end.                             *)
LatestCollectionsAreSnapshots ==
    /\ ReadsTwice /\ request.start = Latest
    /\ pc = "complete" /\ ReachesTheMap(request.box)
    => \E t \in opened..last : Rows(body) = NestedRows(Existing(t, t), Existing(t, t))

(* What remains of it: each collection is that of the moment at which the  *)
(* response began, and all its members are those of one moment since, when *)
(* its batch was their turn.                                               *)
LatestCollectionsAreOfTwoMoments ==
    /\ ReadsTwice /\ request.start = Latest
    /\ opened > 0 /\ ReachesTheMap(request.box)
    => \A c \in Collections :
         LET got == {r \in Rows(body) : r.of = c}
         IN  \/ got = {} /\ pc # "complete"
             \/ \E t \in opened..last :
                  got = {r \in NestedRows(Existing(opened, opened), Existing(t, t)) : r.of = c}
=============================================================================
