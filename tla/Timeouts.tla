------------------------------ MODULE Timeouts ------------------------------
(***************************************************************************)
(* One request and the clock: the timers of ohsome_api.db.db, and what     *)
(* becomes of the exception of the one that fires first, on its way out    *)
(* through the context managers of fetch_row, fetch_rows and fetch_batch.  *)
(*                                                                         *)
(* Four timers can be armed: "acquire" (pool_acquire_timeout), "command"   *)
(* (the command_timeout of the connection's pool, per statement),          *)
(* "deadline" (the asyncio.timeout of fetch_batch) and "close", by when    *)
(* the event loop closes a generator that its task has left suspended.  A  *)
(* timer runs when it is due, before time goes on; of two due together the *)
(* one armed first runs first, and a deadline is armed before whatever it  *)
(* covers.  Giving a connection back takes no time.                        *)
(***************************************************************************)
EXTENDS Integers, Sequences

CONSTANTS
    PoolAcquireTimeout,  \* CONFIG.ohsomedb.pool_acquire_timeout
    TimeoutStats,        \* CONFIG.ohsomedb.timeout_stats
    TimeoutExtraction,   \* CONFIG.ohsomedb.timeout_extraction
    CloseDelay,          \* the garbage collector and the loop's hook take so long
    MaxNow               \* bound: the clock stops there

ASSUME TimeoutsArePositive ==
    {PoolAcquireTimeout, TimeoutStats, TimeoutExtraction} \subseteq Nat \ {0}
ASSUME CloseDelayIsNatural == CloseDelay \in Nat
ASSUME ClockBound == MaxNow \in Nat

VARIABLES
    now,         \* time since the request arrived
    calls,       \* its database calls, the one under way first
    inner,       \* what an extraction calls with each batch, or "none"
    await,       \* what the task awaits
    timer,       \* timer[t]: when timer t is due, Never if it is not armed
    acquired,    \* since when the call under way has its connection, or Never
    started,     \* the response has started
    exc,         \* the exception on its way out, "none" if there is none
    layer,       \* the context manager it leaves next
    outcome      \* "live", "ok" or what ended the request

vars == <<now, calls, inner, await, timer, acquired, started, exc, layer, outcome>>

Never == -1
Timers == {"acquire", "command", "deadline", "close"}

Call == Head(calls)

(* The calls of metadata, statistics (service/stats) and extractions, and  *)
(* with each plan what is left of it after its first call.                 *)
Plans ==
    {<<"fetch_row">>, <<"fetch_rows">>, <<"fetch_row", "fetch_rows">>,
     <<"fetch_rows", "fetch_rows">>, <<"fetch_row", "fetch_rows", "fetch_rows">>,
     <<"fetch_batch">>}

(* What the stream does with each batch: features are only written,        *)
(* contributions and collections are joined by a fetch_rows, and the       *)
(* members of a batch of collections come from a fetch_batch of their own. *)
Inner == {"none", "fetch_rows", "fetch_batch"}

(* The statements of an inner call are awaited one after the other as      *)
(* "nested_query", but for the SET and for the end of a nested cursor.     *)
Acquiring == {"acquire", "nested_acquire"}
InTransaction == {"nested_query", "nested_commit"}
Nested == {"nested_acquire", "nested_set"} \cup InTransaction

Statements ==
    {"set", "begin", "work_mem", "jit", "query", "commit", "rollback", "nested_set"}
        \cup InTransaction
Awaits == {"client", "none"} \cup Acquiring \cup Statements

(* The awaits at which the generator of a cursor is suspended.             *)
Left == {"client"} \cup Nested

(* The awaits of fetch_row and fetch_rows, and those of fetch_batch with   *)
(* its stream: each batch goes to the inner call and then to the client,   *)
(* or, batch by batch, from the inner cursor to the client.                *)
FollowingRows(c, a) ==
    CASE a = "acquire"  -> {IF c = "fetch_rows" THEN "set" ELSE "query"}
      [] a = "set"      -> {"begin"}
      [] a = "begin"    -> {"work_mem"}
      [] a = "work_mem" -> {"jit"}
      [] a = "jit"      -> {"query"}
      [] a = "query" /\ c = "fetch_rows" -> {"commit"}
      [] OTHER          -> {"none"}

FollowingBatch(a) ==
    CASE a = "acquire" -> {"begin"}
      [] a = "begin"   -> {"query"}
      [] a = "query"   -> {IF inner = "none" THEN "client" ELSE "nested_acquire"}
      [] a = "nested_acquire" ->
            {IF inner = "fetch_rows" THEN "nested_set" ELSE "nested_query"}
      [] a = "nested_set"    -> {"nested_query"}
      [] a = "nested_query"  -> {"nested_query", "client"}
      [] a = "nested_commit" -> {"query", "commit"}
      [] a = "client" /\ inner = "fetch_batch" -> {"nested_query", "nested_commit"}
      [] a = "client" /\ inner # "fetch_batch" -> {"query", "commit"}
      [] OTHER -> {"none"}

Following(c, a) == IF c = "fetch_batch" THEN FollowingBatch(a) ELSE FollowingRows(c, a)

CommandTimeout(c) == IF c = "fetch_batch" THEN TimeoutExtraction ELSE TimeoutStats

(* The call that awaits a: the one under way, or its stream's.             *)
Awaiting(a) == IF a \in Nested THEN inner ELSE Call

(* The timers while call c awaits a: those of the await itself, and the    *)
(* deadline, if there is one, which goes on.                               *)
Arm(c, a, deadline) ==
    [t \in Timers |->
        CASE t = "acquire" /\ a \in Acquiring ->
                now + PoolAcquireTimeout
          [] t = "command" /\ a \in Statements  -> now + CommandTimeout(c)
          [] t = "deadline"                     -> deadline
          [] OTHER                              -> Never]

Disarmed == [t \in Timers |-> Never]

(* Mutation: the try of fetch_rows starts after the transaction has begun. *)
Inside_TryInTransaction(c, a) ==
    IF a \in {"acquire", "set", "begin", "commit"} THEN "acquire_connection"
    ELSE IF a \in Nested THEN "nested"
    ELSE IF a = "client" THEN "handler" ELSE "except"

(* The context manager whose body the await a stands in, and the one that  *)
(* manager l stands in:                                                    *)
(*   fetch_row    acquire_connection( except( query ) )                    *)
(*   fetch_rows   acquire_connection( set except( begin transaction( ... ))) *)
(*   fetch_batch  acquire_connection( timeout( begin transaction( except( )))) *)
(* A task that awaits its client or an inner call is in none of those of   *)
(* fetch_batch, whose generator is suspended.  "nested" stands for all the *)
(* context managers of the inner call.                                     *)
Inside(c, a) ==
    CASE a \in {"acquire", "set"}  -> "acquire_connection"
      [] a \in {"begin", "commit"} -> IF c = "fetch_batch" THEN "timeout" ELSE "except"
      [] a \in {"work_mem", "jit"} -> "transaction"
      [] a = "query"               -> IF c = "fetch_rows" THEN "transaction" ELSE "except"
      [] a \in Nested              -> "nested"
      [] OTHER                     -> "handler"

Around(c, l) ==
    CASE l = "transaction" -> IF c = "fetch_batch" THEN "timeout" ELSE "except"
      [] l = "except"      -> IF c = "fetch_batch" THEN "transaction"
                              ELSE "acquire_connection"
      [] l = "timeout"     -> "acquire_connection"
      [] OTHER             -> "handler"

Layers == {"except", "transaction", "timeout", "acquire_connection", "nested", "handler"}

(* db/errors.py derives the two errors of the service from TimeoutError.   *)
TimeoutErrors == {"TimeoutError", "QueryTimeoutError", "PoolAcquireTimeoutError"}
Exceptions == TimeoutErrors \cup {"CancelledError"}

(* Mutation: the errors of api.py have one base class.                     *)
Leaving_AsApiError(l, a, e) ==
    IF e = "TimeoutError" /\ (l = "except" \/ a = "acquire")
    THEN "OhsomeAPIError" ELSE e

(* Mutation: acquire_connection takes every late answer for a busy pool.   *)
Leaving_WithoutAcquiring(l, a, e) ==
    CASE l = "except" /\ e \in TimeoutErrors             -> "QueryTimeoutError"
      [] l = "timeout" /\ e = "CancelledError"            -> "TimeoutError"
      [] l = "acquire_connection" /\ e \in TimeoutErrors -> "PoolAcquireTimeoutError"
      [] OTHER -> e

(* What becomes of the exception e as it leaves l, raised at the await a.  *)
Leaving(l, a, e) ==
    CASE (l = "except" \/ (l = "nested" /\ a = "nested_query")) /\ e \in TimeoutErrors ->
            "QueryTimeoutError"
      [] l = "timeout" /\ e = "CancelledError"  -> "TimeoutError"
      [] a \in Acquiring /\ e \in TimeoutErrors ->
            "PoolAcquireTimeoutError"
      [] OTHER -> e
-----------------------------------------------------------------------------
Init ==
    /\ now = 0
    /\ calls \in Plans
    /\ inner \in IF Call = "fetch_batch" THEN Inner ELSE {"none"}
    /\ await = "acquire"
    /\ timer = Arm(Call, "acquire", Never)
    /\ acquired = Never
    /\ started = FALSE
    /\ exc = "none" /\ layer = "handler"
    /\ outcome = "live"

Waiting == outcome = "live" /\ exc = "none"
RollingBack == exc # "none" /\ timer["command"] # Never
Abandoned == outcome \in Exceptions /\ timer["close"] # Never

(* The pool, the database, the client or the loop takes its time.          *)
Tick ==
    /\ Waiting \/ RollingBack \/ Abandoned
    /\ \A t \in Timers : timer[t] # now
    /\ now < MaxNow
    /\ now' = now + 1
    /\ UNCHANGED <<calls, inner, await, timer, acquired, started, exc, layer, outcome>>

(* Mutation: fetch_batch relies on the command_timeout of its pool.        *)
Acquired_WithoutDeadline ==
    /\ Waiting /\ await = "acquire"
    /\ await' \in Following(Call, await)
    /\ timer' = Arm(Call, await', Never)
    /\ acquired' = now
    /\ UNCHANGED <<now, calls, inner, started, exc, layer, outcome>>

(* A connection was free: the timers of the call start with its statement. *)
Acquired ==
    /\ Waiting /\ await = "acquire"
    /\ await' \in Following(Call, await)
    /\ timer' = Arm(Call, await',
          IF Call = "fetch_batch" THEN now + TimeoutExtraction ELSE Never)
    /\ acquired' = now
    /\ UNCHANGED <<now, calls, inner, started, exc, layer, outcome>>

(* Mutation: every batch has the whole limit for itself.                   *)
Proceed_NewDeadline ==
    /\ Waiting /\ await # "acquire"
    /\ await' \in Following(Call, await) \ {"none"}
    /\ timer' = Arm(Awaiting(await'), await',
          IF Call = "fetch_batch" THEN now + TimeoutExtraction ELSE Never)
    /\ started' = (started \/ await' \in Left)
    /\ UNCHANGED <<now, calls, inner, acquired, exc, layer, outcome>>

(* What the task awaits is there and it goes on.  The response starts with *)
(* the first batch, before its stream makes any inner call.                *)
Proceed ==
    /\ Waiting /\ await # "acquire"
    /\ await' \in Following(Call, await) \ {"none"}
    /\ timer' = Arm(Awaiting(await'), await', timer["deadline"])
    /\ started' = (started \/ await' \in Left)
    /\ UNCHANGED <<now, calls, inner, acquired, exc, layer, outcome>>

(* The call returns and its connection is given back.  A service makes its *)
(* next call, or the request is done.                                      *)
Return ==
    /\ Waiting /\ "none" \in Following(Call, await)
    /\ acquired' = Never
    /\ \/ /\ Len(calls) > 1
          /\ calls' = Tail(calls)
          /\ await' = "acquire" /\ timer' = Arm(Head(calls'), "acquire", Never)
          /\ UNCHANGED outcome
       \/ /\ Len(calls) = 1
          /\ outcome' = "ok" /\ timer' = Disarmed
          /\ UNCHANGED <<calls, await>>
    /\ UNCHANGED <<now, inner, started, exc, layer>>

(* The exception arrives at l.  Leaving a transaction rolls it back, with  *)
(* a statement that has the limit of any other; the deadline of a cursor   *)
(* goes on while an inner call rolls back, unless it was that which fired. *)
Reach(l) ==
    /\ layer' = l
    /\ timer' =
        CASE l = "transaction" -> Arm(Call, "rollback", Never)
          [] l = "nested" /\ await \in InTransaction ->
                Arm(inner, "rollback",
                    IF timer["deadline"] = now THEN Never ELSE timer["deadline"])
          [] OTHER -> Disarmed

(* Timer t is due and no deadline before it.                               *)
Due(t) ==
    /\ timer[t] = now
    /\ t # "deadline" => timer["deadline"] # now

(* The deadline cancels the task, the other two raise a TimeoutError from  *)
(* what they limit.                                                        *)
Fire(t) ==
    /\ Waiting
    /\ Due(t)
    /\ exc' = IF t = "deadline" THEN "CancelledError" ELSE "TimeoutError"
    /\ Reach(Inside(Call, await))
    /\ UNCHANGED <<now, calls, inner, await, acquired, started, outcome>>

Unwind ==
    /\ exc # "none" /\ layer # "handler"
    /\ exc' = Leaving(layer, await, exc)
    /\ Reach(Around(Call, layer))
    /\ acquired' = IF layer = "acquire_connection" THEN Never ELSE acquired
    /\ UNCHANGED <<now, calls, inner, await, started, outcome>>

(* A rollback exceeds its limit too, or the deadline cancels the rollback  *)
(* of an inner call; the new error replaces the old one.  The transaction  *)
(* of fetch_rows stands in its try.                                        *)
RollbackTimesOut(t) ==
    /\ RollingBack
    /\ Due(t)
    /\ exc' = IF t = "deadline" THEN "CancelledError"
              ELSE IF layer = "nested" /\ inner = "fetch_rows" THEN "QueryTimeoutError"
              ELSE "TimeoutError"
    /\ Reach(Around(Call, layer))
    /\ UNCHANGED <<now, calls, inner, await, acquired, started, outcome>>

(* The exception handlers of api.py, or the server that cuts a response.   *)
(* A generator of fetch_batch that was suspended has its connection still. *)
Handle ==
    /\ outcome = "live" /\ exc # "none" /\ layer = "handler"
    /\ outcome' = exc
    /\ timer' = IF acquired = Never THEN Disarmed
                ELSE [Disarmed EXCEPT !["close"] = now + CloseDelay]
    /\ UNCHANGED <<now, calls, inner, await, acquired, started, exc, layer>>

(* The hook of the event loop closes the generator: a GeneratorExit from   *)
(* the yield that the generator is suspended at.                           *)
Close ==
    /\ Abandoned
    /\ exc' = "GeneratorExit"
    /\ Reach("transaction")
    /\ UNCHANGED <<now, calls, inner, await, acquired, started, outcome>>

Next ==
    \/ Tick \/ Acquired \/ Proceed \/ Return
    \/ \E t \in Timers : Fire(t)
    \/ Unwind
    \/ \E t \in Timers : RollbackTimesOut(t)
    \/ Handle \/ Close

Spec == Init /\ [][Next]_vars
-----------------------------------------------------------------------------
TypeOK ==
    /\ now \in 0..MaxNow
    /\ calls \in Plans
    /\ inner \in Inner
    /\ await \in Awaits
    /\ timer \in [Timers -> Nat \cup {Never}]
    /\ acquired \in 0..MaxNow \cup {Never}
    /\ started \in BOOLEAN
    /\ exc \in Exceptions \cup {"none", "GeneratorExit"}
    /\ layer \in Layers
    /\ outcome \in Exceptions \cup {"live", "ok"}

(* No cursor of an extraction ends in a QueryTimeoutError: its deadline is *)
(* armed before each statement that could raise one, with the same length, *)
(* and cancels the task instead.  Only a join, which has the statistics'   *)
(* limit, raises that error in an extraction.                              *)
NoQueryTimeoutInExtraction ==
    Call = "fetch_batch" /\ "QueryTimeoutError" \in {exc, outcome} =>
        await = "nested_query" /\ inner = "fetch_rows"

(* A bare TimeoutError, which no handler of api.py knows, comes from two   *)
(* places: an extraction, whose deadline it is, and of the other calls     *)
(* only from the SET before fetch_rows's try.                              *)
BareTimeouts ==
    outcome = "TimeoutError" =>
        Call = "fetch_batch" \/ (Call = "fetch_rows" /\ await = "set")

(* acquire_connection: "Only raise custom error if TimeoutError is thrown  *)
(* during acquiring".  Whatever is late once there is a connection, in the *)
(* call, in its rollback or in its close, is never told as a busy pool.    *)
OnlyWaitingIsBusy ==
    "PoolAcquireTimeoutError" \in {exc, outcome} =>
        await \in Acquiring

(* What a suspended cursor waits for after its deadline: an inner call     *)
(* that rolls back, and the event loop, which closes it.                   *)
Suspension ==
    (IF await \in InTransaction THEN CommandTimeout(inner) ELSE 0)
        + (IF await \in Left THEN CloseDelay ELSE 0)

(* A cursor's connection is not kept longer than the deadline and one      *)
(* rollback, however many batches there are and however slow the client;   *)
(* a cursor that is suspended when its task is cancelled keeps it until    *)
(* the event loop has closed it.                                           *)
ExtractionConnectionIsBounded ==
    Call = "fetch_batch" /\ acquired # Never =>
        now <= acquired + 2 * TimeoutExtraction + Suspension

(* errors.py, QueryTimeoutError: "For extraction requests the timeout      *)
(* limit is ...".  An extraction that exceeds it before its response has   *)
(* started is refused with that error.                                     *)
ExtractionLimitIsReported ==
    Call = "fetch_batch" /\ ~started /\ outcome \in Exceptions =>
        outcome \in {"QueryTimeoutError", "PoolAcquireTimeoutError"}

(* docs/source/reference/api.rst: "Requests to the stats endpoints timeout *)
(* after 180s", the value of timeout_stats.  The last call of each is a    *)
(* fetch_rows; a request that waits for three connections as long as it    *)
(* may is answered within that limit all the same.                         *)
StatsRequestsTimeOut ==
    Call = "fetch_rows" /\ outcome = "ok" =>
        now <= TimeoutStats + 3 * PoolAcquireTimeout
=============================================================================
