------------------------------ MODULE Lifespan ------------------------------
(***************************************************************************)
(* The life of the application around its requests: lifespan of api.py,    *)
(* which connects both pools before the first request and disconnects them *)
(* after the last, and the server (Hypercorn) that calls it.  Told to stop *)
(* the server accepts no more requests, gives those in flight some time,   *)
(* cancels the rest and then lets lifespan go on.                          *)
(***************************************************************************)
EXTENDS OhsomeApi

VARIABLES
    server,   \* how far the process is
    pool      \* pool[p]: Database.pool and Database.pool_extraction

lifeVars == <<vars, server, pool>>

ServerStates == {"starting", "serving", "draining", "stopping", "stopped", "failed"}
PoolStates == {"none", "open", "closing", "closed"}

LifeInit ==
    /\ Init
    /\ server = "starting"
    /\ pool = [p \in Pools |-> "none"]

(* Database.connect awaits one pool, then the other.                       *)
NextPool(p) ==
    /\ server = "starting" /\ pool[p] = "none"
    /\ p = "extraction" => pool["stats"] = "open"

CreatePool(p) ==
    /\ NextPool(p)
    /\ pool' = [pool EXCEPT ![p] = "open"]
    /\ server' = IF p = "extraction" THEN "serving" ELSE server
    /\ UNCHANGED vars

(* lifespan raises before its yield, and nothing closes the other pool.    *)
CreationFails(p) ==
    /\ NextPool(p)
    /\ server' = "failed"
    /\ UNCHANGED <<vars, pool>>

Serve(r) ==
    /\ server \in {"serving", "draining", "stopping"}
    /\ phase[r] = "idle" => server = "serving"
    /\ Step(r)
    /\ UNCHANGED <<server, pool>>

StopAccepting ==
    /\ server = "serving"
    /\ server' = "draining"
    /\ UNCHANGED <<vars, pool>>

(* The time for what is in flight is over.                                 *)
CancelTask(r) ==
    /\ server = "draining" /\ phase[r] \in Live
    /\ Raise(r, "CancelledError")
    /\ UNCHANGED <<server, pool>>

(* Mutation: the pools are closed as soon as the server is told to stop.   *)
DisconnectPools_AtOnce ==
    /\ server = "draining"
    /\ server' = "stopping"
    /\ pool' = [pool EXCEPT !["stats"] = "closing"]
    /\ UNCHANGED vars

(* Database.disconnect, of the stats pool first.                           *)
DisconnectPools ==
    /\ server = "draining" /\ \A r \in Requests : phase[r] \notin Live
    /\ server' = "stopping"
    /\ pool' = [pool EXCEPT !["stats"] = "closing"]
    /\ UNCHANGED vars

(* Mutation: disconnect forgets the extraction pool.                       *)
PoolClosed_StatsOnly(p) ==
    /\ pool[p] = "closing" /\ conns[p] = {}
    /\ pool' = [pool EXCEPT ![p] = "closed"]
    /\ server' = "stopped"
    /\ UNCHANGED vars

(* Pool.close waits until all connections are given back.                  *)
PoolClosed(p) ==
    /\ pool[p] = "closing" /\ conns[p] = {}
    /\ IF p = "stats"
       THEN /\ pool' = [pool EXCEPT ![p] = "closed", !["extraction"] = "closing"]
            /\ UNCHANGED server
       ELSE /\ pool' = [pool EXCEPT ![p] = "closed"]
            /\ server' = "stopped"
    /\ UNCHANGED vars

Terminated == server \in {"stopped", "failed"} /\ UNCHANGED lifeVars

LifeNext ==
    \/ \E p \in Pools : CreatePool(p) \/ CreationFails(p) \/ PoolClosed(p)
    \/ \E r \in Requests : Serve(r) \/ CancelTask(r)
    \/ StopAccepting \/ DisconnectPools \/ Terminated

LifeSpec == LifeInit /\ [][LifeNext]_lifeVars

(* Once told to stop the server goes on to the end.                        *)
Stopping ==
    /\ \A r \in Requests : WF_lifeVars(CancelTask(r))
    /\ WF_lifeVars(DisconnectPools)
    /\ \A p \in Pools : WF_lifeVars(PoolClosed(p))

FairLifeSpec == LifeSpec /\ Timers /\ Stopping
-----------------------------------------------------------------------------
LifeTypeOK ==
    /\ TypeOK
    /\ server \in ServerStates
    /\ pool \in [Pools -> PoolStates]

(* Nobody asks for a connection of a pool that is not there yet or is      *)
(* being closed, and no pool is closed while a connection of it is in use, *)
(* be it by a generator that a cancelled task left suspended.              *)
PoolsOutliveTheirUsers ==
    \A r \in Requests, f \in Frames :
        /\ frame[r][f] = "acquire" => pool[PoolOf(r, f)] = "open"
        /\ frame[r][f] \in Holding => pool[PoolOf(r, f)] \in {"open", "closing"}

(* A server that is told to stop does so, whatever its requests wait for,  *)
(* with both pools closed.                                                 *)
ShutdownCompletes ==
    server = "draining" ~>
        server = "stopped" /\ \A p \in Pools : pool[p] = "closed" /\ conns[p] = {}
=============================================================================
