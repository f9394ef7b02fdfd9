----------------------------- MODULE OhsomeApi -----------------------------
(***************************************************************************)
(* How the ohsome API serves concurrent requests: the asyncio task of each *)
(* request, the database calls it awaits, the connections these hold, the  *)
(* response it streams, and everything that can interrupt it: timeouts,    *)
(* database errors, the client going away.                                 *)
(*                                                                         *)
(* A task awaits in one frame at a time.  The states of a frame are the    *)
(* awaits and yields of db.py's fetch_row, fetch_rows and fetch_batch:     *)
(*   "none"     not called yet                                             *)
(*   "acquire"  awaits a connection of its pool                            *)
(*   "set"      awaits `SET citus...` (fetch_rows only)                    *)
(*   "query"    awaits the rows, or the next batch of the cursor           *)
(*   "yielded"  suspended at the `yield batch` inside the loop             *)
(*   "last"     suspended at the `yield batch` after the loop              *)
(*   "commit"   resumed after it: awaits the end of the transaction        *)
(*   "ended"    returned or raised, its connection given back              *)
(***************************************************************************)
EXTENDS ConnectionPools, Sequences

CONSTANTS
    Offered,          \* the kinds of request that arrive
    DatabaseErrors,   \* what a database call raises beside timeouts
    MaxBatches,       \* bound: full batches of a cursor before the last one
    MaxMemberBatches  \* bound: the same for the cursor over the members

ExtractionKinds == {"features", "collections", "contributions", "members"}
AllKinds == ExtractionKinds \cup {"metadata", "statistics"}

(* "TopologyException" is an asyncpg.InternalServerError whose text says so. *)
Errors == {"PoolAcquireTimeoutError", "QueryTimeoutError", "TimeoutError",
           "CancelledError", "OhsomeAPIError", "ValueError", "IndexError",
           "InternalServerError", "TopologyException", "ConnectionError"}

ASSUME OfferedKinds == Offered \subseteq AllKinds
ASSUME KnownErrors == DatabaseErrors \subseteq Errors
ASSUME BatchBounds == MaxBatches \in Nat /\ MaxMemberBatches \in Nat

VARIABLES
    kind,     \* kind[r]: the endpoint called
    phase,    \* phase[r]: how far the response is, see Phases
    call,     \* call[r]: the database call of the nested frame
    frame,    \* frame[r][f]: the state of frame f
    extent,   \* extent[r]: how much its cursors give, see ExtentsOf
    batch,    \* batch[r] = <<i, j>>: batch i of the cursor, j of its members
    sent,     \* sent[r]: the batches whose bytes the client was sent
    status,   \* status[r]: the status its response started with, 0 before
    error     \* error[r]: the exception that ended the task

vars == <<conns, kind, phase, call, frame, extent, batch, sent, status, error>>

Phases == {"idle", "handling", "streaming", "complete", "truncated", "failed"}
Live == {"handling", "streaming"}
Settled == {"complete", "truncated", "failed"}

Running == {"acquire", "set", "query", "commit"}    \* the task awaits here
Suspended == {"yielded", "last"}                    \* a generator at a yield
Holding == {"set", "query", "commit"} \cup Suspended
FrameStates == {"none", "ended"} \cup Running \cup Suspended

RowCalls == {"metadata", "latest"}                       \* fetch_row
RowsCalls == {"series", "result", "join"}                \* fetch_rows
Calls == {"none", "members"} \cup RowCalls \cup RowsCalls

(* What a cursor has to give: extent x is Len(x) batches, and in batch i   *)
(* there are x[i] batches of members, or the one chunk made of it.         *)
ExtentsOf(k) ==
    UNION {[1..n -> 1..(IF k = "members" THEN MaxMemberBatches + 1 ELSE 1)] :
              n \in 1..MaxBatches + 1}

(* Mutation: the joins of an extraction take their connections from the    *)
(* pool of the cursor they are made for.                                   *)
PoolOf_OnePerRequest(r, f) ==
    IF kind[r] \in ExtractionKinds THEN "extraction" ELSE "stats"

PoolOf(r, f) ==
    IF f = "cursor" \/ call[r] = "members" THEN "extraction" ELSE "stats"

(* Mutation: a busy service answers 503, which no response model documents. *)
StatusOf_Busy(e) == IF e = "PoolAcquireTimeoutError" THEN 503 ELSE 500

(* The exception handlers of api.py; an exception without one is a 500.    *)
(* handle_topology_error raises just the TopologyExceptions again, which   *)
(* leaves the others of their class with the 422 meant for them.           *)
StatusOf(e) ==
    CASE e \in {"PoolAcquireTimeoutError", "QueryTimeoutError"} -> 504
      [] e = "OhsomeAPIError"      -> 400
      [] e = "InternalServerError" -> 422
      [] OTHER                     -> 500

-----------------------------------------------------------------------------
Init ==
    /\ ConnsInit
    /\ kind = [r \in Requests |-> "none"]
    /\ phase = [r \in Requests |-> "idle"]
    /\ call = [r \in Requests |-> "none"]
    /\ frame = [r \in Requests |-> [f \in Frames |-> "none"]]
    /\ extent = [r \in Requests |-> <<>>]
    /\ batch = [r \in Requests |-> <<0, 0>>]
    /\ sent = [r \in Requests |-> <<>>]
    /\ status = [r \in Requests |-> 0]
    /\ error = [r \in Requests |-> "none"]

(* Mutation: the handlers answer although the response has started.        *)
Raise_AnswersTwice(r, e) ==
    LET unwound == {f \in Frames : frame[r][f] \in Running}
    IN  /\ frame' = [frame EXCEPT ![r] =
                [f \in Frames |-> IF f \in unwound THEN "ended" ELSE @[f]]]
        /\ GiveBack(r, unwound)
        /\ error' = [error EXCEPT ![r] = e]
        /\ phase' = [phase EXCEPT ![r] = "failed"]
        /\ status' = [status EXCEPT ![r] = StatusOf(e)]
        /\ UNCHANGED <<kind, call, extent, batch, sent>>

(* Mutation: an exception leaves without giving the connection back.       *)
Raise_KeepsConnection(r, e) ==
    /\ frame' = [frame EXCEPT ![r] =
            [f \in Frames |-> IF @[f] \in Running THEN "ended" ELSE @[f]]]
    /\ error' = [error EXCEPT ![r] = e]
    /\ phase' = [phase EXCEPT ![r] =
            IF @ = "streaming" THEN "truncated" ELSE "failed"]
    /\ status' = [status EXCEPT ![r] =
            IF phase[r] = "streaming" THEN @ ELSE StatusOf(e)]
    /\ UNCHANGED <<conns, kind, call, extent, batch, sent>>

(* The exception e leaves the task of r.  The frame that awaited is        *)
(* unwound and gives its connection back; a suspended generator is not on  *)
(* the stack and keeps its own.  Before the response has started a handler *)
(* answers; afterwards the status is out and the body is cut.              *)
Raise(r, e) ==
    LET unwound == {f \in Frames : frame[r][f] \in Running}
    IN  /\ frame' = [frame EXCEPT ![r] =
                [f \in Frames |-> IF f \in unwound THEN "ended" ELSE @[f]]]
        /\ GiveBack(r, unwound)
        /\ error' = [error EXCEPT ![r] = e]
        /\ IF phase[r] = "streaming"
           THEN /\ phase' = [phase EXCEPT ![r] = "truncated"]
                /\ UNCHANGED status
           ELSE /\ phase' = [phase EXCEPT ![r] = "failed"]
                /\ status' = [status EXCEPT ![r] = StatusOf(e)]
        /\ UNCHANGED <<kind, call, extent, batch, sent>>

(* A validated request reaches its endpoint and makes its first call.      *)
(* Statistics: get_latest_timestamp only if the range ends in "latest",    *)
(* the series query only if an interval divides a non-empty range.         *)
FirstCalls(k) ==
    CASE k = "metadata"   -> {"metadata"}
      [] k = "statistics" -> {"latest", "series", "result"}
      [] k = "features"   -> {"none"}
      [] k = "members"    -> {"members"}
      [] OTHER            -> {"join"}

Submit(r) ==
    /\ phase[r] = "idle"
    /\ \E k \in Offered : \E c \in FirstCalls(k) :
        /\ kind' = [kind EXCEPT ![r] = k]
        /\ call' = [call EXCEPT ![r] = c]
        /\ frame' = [frame EXCEPT ![r] =
              IF k \in ExtractionKinds
              THEN [@ EXCEPT !.cursor = "acquire"]
              ELSE [@ EXCEPT !.nested = "acquire"]]
    /\ phase' = [phase EXCEPT ![r] = "handling"]
    /\ UNCHANGED <<conns, extent, batch, sent, status, error>>

Acquire(r, f) ==
    /\ frame[r][f] = "acquire"
    /\ Lend(PoolOf(r, f), r, f)
    /\ frame' = [frame EXCEPT ![r][f] =
          IF f = "nested" /\ call[r] \in RowsCalls THEN "set" ELSE "query"]
    /\ UNCHANGED <<kind, phase, call, extent, batch, sent, status, error>>

(* pool_acquire_timeout covers waiting for a free connection and opening a *)
(* new one, so it can pass even when the pool is not full.                 *)
AcquireTimeout(r) ==
    /\ \E f \in Frames : frame[r][f] = "acquire"
    /\ Raise(r, "PoolAcquireTimeoutError")

SetDone(r) ==
    /\ frame[r].nested = "set"
    /\ frame' = [frame EXCEPT ![r].nested = "query"]
    /\ UNCHANGED <<conns, kind, phase, call, extent, batch, sent, status, error>>

(* Mutation: the limit only covers what stands inside the try.             *)
CommandTimeout_NotOnSet(r) ==
    /\ PoolOf(r, "nested") = "stats"
    /\ frame[r].nested = "query"
    /\ Raise(r, "QueryTimeoutError")

(* The statement times out (command_timeout of the stats pool).  The SET of *)
(* fetch_rows stands before its try.  The commands of a cursor have the     *)
(* same limit as the asyncio.timeout around them, which was armed earlier:  *)
(* there DeadlineFires comes first.                                         *)
CommandTimeout(r) ==
    /\ PoolOf(r, "nested") = "stats"
    /\ \/ frame[r].nested = "set" /\ Raise(r, "TimeoutError")
       \/ frame[r].nested = "query" /\ Raise(r, "QueryTimeoutError")

DatabaseFails(r) ==
    /\ \E f \in Frames : frame[r][f] \in Running
    /\ \E e \in DatabaseErrors : Raise(r, e)

(* fetch_row found no row.                                                 *)
NoRow(r) ==
    /\ frame[r].nested = "query" /\ call[r] \in RowCalls
    /\ Raise(r, "ValueError")

(* Mutation: the limit is one of the cursor's commands, as in the stats    *)
(* pool, and does not run while the task awaits its client.                *)
DeadlineFires_OnlyInCommands(r) ==
    /\ phase[r] \in Live
    /\ frame[r].cursor \in Holding \cap Running
    /\ Raise(r, "TimeoutError")

(* asyncio.timeout(timeout_extraction) of the cursor cancels the task,     *)
(* wherever it awaits.  Only if that is inside the cursor's own frame does *)
(* the timeout's exit turn the cancellation into a TimeoutError.  The      *)
(* timer of a cursor over members was armed later and has the same length. *)
DeadlineFires(r) ==
    /\ phase[r] \in Live
    /\ frame[r].cursor \in Holding
    /\ Raise(r, IF frame[r].cursor \in Running
                THEN "TimeoutError" ELSE "CancelledError")

(* The client goes away: the task that streams to it is cancelled.  Before *)
(* the response starts nobody listens for that.                            *)
Disconnect(r) ==
    /\ phase[r] = "streaming"
    /\ Raise(r, "CancelledError")
-----------------------------------------------------------------------------
(* A statistics or metadata request: each call takes a connection and gives *)
(* it back before the next one asks.                                        *)
NextCalls(c) ==
    CASE c = "latest" -> {"series", "result"}
      [] c = "series" -> {"result"}
      [] OTHER        -> {}

(* Mutation: the request keeps its connection from call to call.           *)
NextCall_KeepsConnection(r) ==
    /\ frame[r].nested = "query"
    /\ \E c \in NextCalls(call[r]) : call' = [call EXCEPT ![r] = c]
    /\ frame' = [frame EXCEPT ![r].nested = "acquire"]
    /\ UNCHANGED <<conns, kind, phase, extent, batch, sent, status, error>>

NextCall(r) ==
    /\ frame[r].nested = "query"
    /\ \E c \in NextCalls(call[r]) : call' = [call EXCEPT ![r] = c]
    /\ frame' = [frame EXCEPT ![r].nested = "acquire"]
    /\ GiveBack(r, {"nested"})
    /\ UNCHANGED <<kind, phase, extent, batch, sent, status, error>>

Answer(r) ==
    /\ frame[r].nested = "query" /\ call[r] \in {"metadata", "result"}
    /\ frame' = [frame EXCEPT ![r].nested = "ended"]
    /\ GiveBack(r, {"nested"})
    /\ phase' = [phase EXCEPT ![r] = "complete"]
    /\ status' = [status EXCEPT ![r] = 200]
    /\ UNCHANGED <<kind, call, extent, batch, sent, error>>

(* The result of the call is refused: StartGreaterThanEndError after       *)
(* "latest", TimeSeriesTooLargeError after "series", ResultTooLargeError.  *)
(* The series of a negative interval is empty and has no last element.     *)
Refuse(r) ==
    /\ frame[r].nested = "query"
    /\ \/ call[r] \in {"latest", "series", "result"} /\ Raise(r, "OhsomeAPIError")
       \/ call[r] = "series" /\ Raise(r, "IndexError")
-----------------------------------------------------------------------------
(* An extraction request.  fetch_batch yields every full batch and then one *)
(* more, possibly empty, so there is always a first batch: with it          *)
(* the StreamingResponse starts.  Features are written as they come; the    *)
(* other kinds first make their nested call with the batch.                 *)
YieldOf(n, max) == IF n < max THEN "yielded" ELSE "last"

(* A cursor reads one state of the database: what it will give is decided   *)
(* when it is opened, for its first batch.                                  *)
FetchBatch(r) ==
    /\ frame[r].cursor = "query"
    /\ \E x \in IF batch[r][1] = 0 THEN ExtentsOf(kind[r]) ELSE {extent[r]} :
        /\ extent' = [extent EXCEPT ![r] = x]
        /\ frame' = [frame EXCEPT ![r] =
              [cursor |-> YieldOf(batch[r][1] + 1, Len(x)),
               nested |-> IF call[r] = "none" THEN "none" ELSE "acquire"]]
    /\ batch' = [batch EXCEPT ![r] =
          <<@[1] + 1, IF call[r] = "members" THEN 0 ELSE 1>>]
    /\ phase' = [phase EXCEPT ![r] = "streaming"]
    /\ status' = [status EXCEPT ![r] = 200]
    /\ UNCHANGED <<conns, kind, call, sent, error>>

(* join_changesets_to_extraction_rows, ..._members_collections returned.   *)
Join(r) ==
    /\ frame[r].nested = "query" /\ call[r] = "join"
    /\ frame' = [frame EXCEPT ![r].nested = "ended"]
    /\ GiveBack(r, {"nested"})
    /\ UNCHANGED <<kind, phase, call, extent, batch, sent, status, error>>

FetchMembers(r) ==
    /\ frame[r].nested = "query" /\ call[r] = "members"
    /\ frame' = [frame EXCEPT ![r].nested =
          YieldOf(batch[r][2] + 1, extent[r][batch[r][1]])]
    /\ batch' = [batch EXCEPT ![r] = <<@[1], @[2] + 1>>]
    /\ UNCHANGED <<conns, kind, phase, call, extent, sent, status, error>>

(* Mutation: fetch_batch returns after its first batch.                    *)
Resume_FirstBatchOnly(s) == "commit"

(* The stream asks a suspended fetch_batch for more.                       *)
Resume(s) == IF s = "last" THEN "commit" ELSE "query"

(* The task has a chunk of the body to send and awaits the client.         *)
Sending(r) ==
    /\ phase[r] = "streaming"
    /\ frame[r].cursor \in Suspended
    /\ frame[r].nested \notin Running

(* Mutation: the stream takes one batch of members for each batch of       *)
(* collections, as the service takes its first batch with anext.           *)
SendBatch_OneOfMembers(r) ==
    /\ Sending(r)
    /\ sent' = [sent EXCEPT ![r] = Append(@, batch[r])]
    /\ frame' = [frame EXCEPT ![r] =
          IF @.nested \in Suspended
          THEN [@ EXCEPT !.nested = "commit"]
          ELSE [@ EXCEPT !.cursor = Resume(@)]]
    /\ UNCHANGED <<conns, kind, phase, call, extent, batch, status, error>>

SendBatch(r) ==
    /\ Sending(r)
    /\ sent' = [sent EXCEPT ![r] = Append(@, batch[r])]
    /\ frame' = [frame EXCEPT ![r] =
          IF @.nested \in Suspended
          THEN [@ EXCEPT !.nested = Resume(frame[r].nested)]
          ELSE [@ EXCEPT !.cursor = Resume(frame[r].cursor)]]
    /\ UNCHANGED <<conns, kind, phase, call, extent, batch, status, error>>

CloseMembers(r) ==
    /\ frame[r].nested = "commit"
    /\ frame' = [frame EXCEPT ![r] =
          [cursor |-> Resume(@.cursor), nested |-> "ended"]]
    /\ GiveBack(r, {"nested"})
    /\ UNCHANGED <<kind, phase, call, extent, batch, sent, status, error>>

CloseCursor(r) ==
    /\ frame[r].cursor = "commit"
    /\ frame' = [frame EXCEPT ![r].cursor = "ended"]
    /\ GiveBack(r, {"cursor"})
    /\ UNCHANGED <<kind, phase, call, extent, batch, sent, status, error>>

(* The sink is closed and its footer sent.                                 *)
AwaitsFooter(r) == phase[r] = "streaming" /\ frame[r].cursor = "ended"

(* Mutation: the stream stops at the batch that is not full instead of     *)
(* asking its producer for one more.                                       *)
SendFooter_AtShortBatch(r) ==
    /\ phase[r] = "streaming"
    /\ frame[r].cursor \in {"last", "ended"} /\ frame[r].nested \notin Running
    /\ phase' = [phase EXCEPT ![r] = "complete"]
    /\ UNCHANGED <<conns, kind, call, frame, extent, batch, sent, status, error>>

SendFooter(r) ==
    /\ AwaitsFooter(r)
    /\ phase' = [phase EXCEPT ![r] = "complete"]
    /\ UNCHANGED <<conns, kind, call, frame, extent, batch, sent, status, error>>

(* The event loop's hook closes a generator that its task left suspended.  *)
Finalize(r, f) ==
    /\ phase[r] \in Settled
    /\ frame[r][f] \in Suspended
    /\ frame' = [frame EXCEPT ![r][f] = "ended"]
    /\ GiveBack(r, {f})
    /\ UNCHANGED <<kind, phase, call, extent, batch, sent, status, error>>
-----------------------------------------------------------------------------
(* Every request has been served and every generator closed.               *)
Quiescent ==
    /\ \A r \in Requests : phase[r] \in Settled
    /\ \A r \in Requests, f \in Frames : frame[r][f] \notin Suspended
    /\ UNCHANGED vars

Step(r) ==
    \/ Submit(r) \/ SetDone(r) \/ NextCall(r) \/ Answer(r) \/ Refuse(r)
    \/ FetchBatch(r) \/ Join(r) \/ FetchMembers(r) \/ SendBatch(r)
    \/ CloseMembers(r) \/ CloseCursor(r) \/ SendFooter(r)
    \/ AcquireTimeout(r) \/ CommandTimeout(r) \/ DatabaseFails(r)
    \/ NoRow(r) \/ DeadlineFires(r) \/ Disconnect(r)
    \/ \E f \in Frames : Acquire(r, f) \/ Finalize(r, f)

Next == (\E r \in Requests : Step(r)) \/ Quiescent

Spec == Init /\ [][Next]_vars

(* The timers and the event loop run whatever the database and the clients *)
(* do: neither has to answer.                                              *)
Timers ==
    /\ \A r \in Requests : WF_vars(AcquireTimeout(r))
    /\ \A r \in Requests : WF_vars(CommandTimeout(r))
    /\ \A r \in Requests : WF_vars(DeadlineFires(r))
    /\ \A r \in Requests, f \in Frames : WF_vars(Finalize(r, f))
-----------------------------------------------------------------------------
TypeOK ==
    /\ ConnsTypeOK
    /\ kind \in [Requests -> AllKinds \cup {"none"}]
    /\ phase \in [Requests -> Phases]
    /\ call \in [Requests -> Calls]
    /\ frame \in [Requests -> [Frames -> FrameStates]]
    /\ extent \in [Requests -> {<<>>} \cup ExtentsOf("members")]
    /\ batch \in [Requests -> Nat \X Nat]
    /\ sent \in [Requests -> Seq(Nat \X Nat)]
    /\ status \in [Requests -> {0, 200, 400, 422, 500, 504}]
    /\ error \in [Requests -> Errors \cup {"none"}]

(* A frame has a connection, of its own pool only, exactly while it is     *)
(* between acquire_connection's entry and exit: no exception, cancellation *)
(* or abandoned generator loses one or gives one back that is in use.      *)
ConnectionsAccountedFor ==
    \A r \in Requests, f \in Frames, p \in Pools :
        <<r, f>> \in conns[p] <=> frame[r][f] \in Holding /\ p = PoolOf(r, f)

(* Whoever holds a stats connection awaits the database with it: never     *)
(* another connection, a client, or the closing of a generator.  However   *)
(* extraction goes, statistics and joins get theirs as statements end.     *)
StatsHoldersNeverWait ==
    \A c \in conns["stats"] :
        /\ phase[c[1]] \in Live
        /\ frame[c[1]][c[2]] \in {"set", "query"}
        /\ \A f \in Frames : frame[c[1]][f] # "acquire"

(* A response that ends as it should, with a footer or with an error       *)
(* status, has given every connection back before its last bytes are sent. *)
(* Only a response cut in the middle leaves any to the event loop.         *)
OnlyCutResponsesLeaveConnections ==
    \A r \in Requests :
        phase[r] \in {"complete", "failed"} \/ AwaitsFooter(r) =>
            \A p \in Pools : ~Holds(r, p)

(* The batch that follows c: the next of its members while there are more, *)
(* or else the first of the next batch of the cursor.                      *)
Follows(x, c, d) ==
    IF c[2] < x[c[1]] THEN d = <<c[1], c[2] + 1>>
    ELSE c[1] < Len(x) /\ d = <<c[1] + 1, 1>>

(* A client is sent the batches in order, each once and none left out,     *)
(* from the one fetched before the response; and in a file with a footer   *)
(* they go on to the end of the last cursor of the request.                *)
FilesAreWhole ==
    \A r \in Requests :
        LET s == sent[r]
            x == extent[r]
        IN  /\ s # <<>> => s[1] = <<1, 1>>
            /\ \A n \in 1..Len(s) - 1 : Follows(x, s[n], s[n + 1])
            /\ phase[r] = "complete" /\ kind[r] \in ExtractionKinds =>
                    s # <<>> /\ s[Len(s)] = <<Len(x), x[Len(x)]>>

(* What the client of a request sees is an answer as Responses promises    *)
(* it: one status, the batches in order, whole or cut, never a footer on a *)
(* file that lacks some of what the cursors had, nor an error in the place *)
(* of the rest.                                                            *)
Answered ==
    [r \in Requests |->
        [status |-> status[r], extent |-> extent[r], chunks |-> sent[r],
         end |-> IF phase[r] = "truncated" THEN "cut"
                 ELSE IF phase[r] \in Settled THEN "whole" ELSE "open"]]

Promise == INSTANCE Responses WITH
    Extents <- ExtentsOf("members"), answer <- Answered

ImplementsResponses == Promise!Spec

(* r has an extraction connection and cannot go on without another one.    *)
HoldsAndWaits(r) ==
    /\ Holds(r, "extraction")
    /\ \E f \in Frames : frame[r][f] = "acquire" /\ PoolOf(r, f) = "extraction"

(* All extraction connections are with requests that wait for one more:    *)
(* nothing but a timeout or a disconnect can free any.                     *)
SelfBlocked ==
    /\ Full("extraction")
    /\ \A c \in conns["extraction"] : HoldsAndWaits(c[1])

MembersInFlight ==
    {r \in Requests : kind[r] = "members" /\ phase[r] = "streaming"}

(* That takes as many members requests at once as the pool has             *)
(* connections: no other kind of request adds to it.                       *)
SelfBlockNeedsMembers ==
    SelfBlocked => Cardinality(MembersInFlight) >= MaxExtraction

(* What service/extraction/collections.py's comment on its first batch     *)
(* leads a reader to expect: a request that has one has its connection.    *)
FirstBatchSecuresConnection == ~SelfBlocked

(* A response starts once, and nothing that happens later changes its      *)
(* status or reopens a response that was ended.                            *)
ResponsesAreFinal ==
    [][\A r \in Requests :
         /\ status[r] # 0 => status'[r] = status[r]
         /\ phase[r] \in Settled => phase'[r] = phase[r] /\ sent'[r] = sent[r]
      ]_vars

(* Every connection lent comes back, with clients that never read, never   *)
(* leave, and a database that never answers.                               *)
ConnectionsReturn ==
    \A r \in Requests, f \in Frames, p \in Pools :
        <<r, f>> \in conns[p] ~> <<r, f>> \notin conns[p]

(* Every request is settled in bounded time, except that a client may take *)
(* as long as it likes to read the footer.                                 *)
RequestsSettle ==
    \A r \in Requests :
        phase[r] \in Live ~> phase[r] \in Settled \/ AwaitsFooter(r)
=============================================================================
