-------------------------- MODULE ConnectionPools --------------------------
(***************************************************************************)
(* The two asyncpg pools of ohsome_api.db.db.Database: "stats" (self.pool) *)
(* for statistics, metadata and the joins an extraction makes per batch,   *)
(* and "extraction" (self.pool_extraction) for the cursors that stream.    *)
(*                                                                         *)
(* A connection is lent to a frame: the call of fetch_row, fetch_rows or   *)
(* fetch_batch that entered `acquire_connection`.  A request has at most   *)
(* two such calls at a time, its "cursor" (the outer fetch_batch whose     *)
(* first batch opens the response) and the call "nested" in the loop over  *)
(* that cursor's batches; a statistics request only has the latter.        *)
(*                                                                         *)
(* asyncpg serves its waiters in arrival order.  Here any waiter may be    *)
(* served: what is shown holds for every order.                            *)
(***************************************************************************)
EXTENDS Naturals, FiniteSets

CONSTANTS
    Requests,         \* the requests that may arrive
    MaxStats,         \* CONFIG.ohsomedb.pool_max_size_stats
    MaxExtraction     \* CONFIG.ohsomedb.pool_max_size_extraction

ASSUME RequestsAreFinite == IsFiniteSet(Requests)
ASSUME PoolSizes == MaxStats \in Nat \ {0} /\ MaxExtraction \in Nat \ {0}

VARIABLE conns        \* conns[p]: the frames that pool p has lent a connection

Pools  == {"stats", "extraction"}
Frames == {"cursor", "nested"}

Capacity == [p \in Pools |-> IF p = "stats" THEN MaxStats ELSE MaxExtraction]

ConnsTypeOK == conns \in [Pools -> SUBSET (Requests \X Frames)]

(* Database.connect: both pools exist before the first request is served. *)
ConnsInit == conns = [p \in Pools |-> {}]

Full(p) == Cardinality(conns[p]) >= Capacity[p]

Holds(r, p) == \E f \in Frames : <<r, f>> \in conns[p]

(* Pool.acquire returned within its timeout. *)
Lend(p, r, f) ==
    /\ ~Full(p)
    /\ conns' = [conns EXCEPT ![p] = @ \cup {<<r, f>>}]

(* `async with pool.acquire()` was left, normally or by an exception, by   *)
(* the frames F of request r.                                              *)
GiveBack(r, F) == conns' = [p \in Pools |-> conns[p] \ ({r} \X F)]
=============================================================================
