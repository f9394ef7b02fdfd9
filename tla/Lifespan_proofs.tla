-------------------------- MODULE Lifespan_proofs --------------------------
(***************************************************************************)
(* The pools and the process, for any number of requests and any pool      *)
(* sizes.  The invariant of OhsomeApi holds here too, although a server    *)
(* that stops cancels tasks at any await; LifeFits says what the server    *)
(* and the pools can be while tasks run and while connections are out.     *)
(***************************************************************************)
EXTENDS Lifespan, OhsomeApi_proofs

LifeFits ==
    /\ server \in {"starting", "failed"} => \A r \in Requests : phase[r] = "idle"
    /\ server = "starting" => pool["extraction"] = "none"
    /\ server \in {"serving", "draining"} => \A p \in Pools : pool[p] = "open"
    /\ server \in {"stopping", "stopped"} =>
            /\ \A r \in Requests : phase[r] \notin Live
            /\ \A p \in Pools : pool[p] # "none"
    /\ \A p \in Pools : pool[p] = "closing" => server = "stopping"
    /\ \A p \in Pools : pool[p] = "closed" =>
            server \in {"stopping", "stopped"} /\ conns[p] = {}
    /\ ~\A p \in Pools : pool[p] = "closing"

LifeIInv == IInv /\ LifeTypeOK /\ LifeFits
-----------------------------------------------------------------------------
(* A task that is cancelled where no other step could have raised.         *)
LEMMA RaiseInductive ==
  ASSUME IInv, NEW r \in Requests, phase[r] \in Live, NEW e \in Errors, Raise(r, e)
  PROVE  IInv'
  <1>1. TypeOK /\ TypeOK'
    BY RaiseTypes DEF IInv
  <1>2. ASSUME NEW q \in Requests
        PROVE  Disciplined(q) /\ Accounted(q)
    BY DEF IInv, TaskDiscipline, Disciplined, ConnectionsAccountedFor, Accounted
  <1>3. ASSUME NEW q \in Requests
        PROVE  Disciplined(q)' /\ Accounted(q)'
    <2>1. CASE q = r
      BY <1>1, <1>2, <2>1, RaiseIsDisciplined, RaiseAccounts
    <2>2. CASE q # r
      <3>1. Same(q)
        BY <1>1, <2>2, RaiseTouchesOne
      <3>2. PICK F : GiveBack(r, F)
        BY DEF Raise
      <3>3. \A f \in Frames, p \in Pools : <<q, f>> \in conns'[p] <=> <<q, f>> \in conns[p]
        BY <1>1, <2>2, <3>2, GiveBackRemoves DEF TypeOK
      <3>. QED
        BY <1>2, <3>1, <3>3
        DEF Same, Disciplined, OneAwait, PhaseFits, CallFits, Accounted, PoolOf
    <2>. QED BY <2>1, <2>2
  <1>. QED
    BY <1>1, <1>3
    DEF IInv, TaskDiscipline, Disciplined, ConnectionsAccountedFor, Accounted

(* Once a response has ended, nothing is left but to close its generators. *)
LEMMA SettledStepsFinalize ==
  ASSUME IInv, NEW r \in Requests, phase[r] \in Settled, Step(r)
  PROVE  \E f \in Frames : Finalize(r, f)
  <1>1. Disciplined(r) /\ TypeOK
    BY DEF IInv, TaskDiscipline, Disciplined
  <1>2. /\ phase[r] \notin Live /\ phase[r] \notin {"idle", "streaming"}
        /\ \A f \in Frames : frame[r][f] \notin Running
    BY <1>1 DEF Disciplined, PhaseFits, Settled, Live
  <1>3. ~Raising(r)
    BY <1>1, <1>2, RaisingRaises, RaisingTasksLive
  <1>4. ~(Submit(r) \/ SendBatch(r) \/ SendFooter(r))
    BY <1>2 DEF Submit, SendBatch, Sending, SendFooter, AwaitsFooter
  <1>5. ~(SetDone(r) \/ NextCall(r) \/ Answer(r) \/ FetchBatch(r) \/ Join(r))
    BY <1>2 DEF SetDone, NextCall, Answer, FetchBatch, Join, Running, Frames
  <1>6. ~(FetchMembers(r) \/ CloseMembers(r) \/ CloseCursor(r))
    BY <1>2 DEF FetchMembers, CloseMembers, CloseCursor, Running, Frames
  <1>7. \A f \in Frames : ~Acquire(r, f)
    BY <1>2 DEF Acquire, Running
  <1>. QED BY <1>3, <1>4, <1>5, <1>6, <1>7 DEF Step, Raising

LEMMA FinalizeOnlyReturns ==
  ASSUME TypeOK, NEW r \in Requests, NEW f \in Frames, Finalize(r, f)
  PROVE  phase' = phase /\ \A p \in Pools : conns'[p] \subseteq conns[p]
  BY DEF Finalize, GiveBack, TypeOK, ConnsTypeOK

LEMMA ServeFits ==
  ASSUME LifeIInv, NEW r \in Requests, Serve(r)
  PROVE  LifeFits'
  <1>1. /\ Step(r) /\ UNCHANGED <<server, pool>>
        /\ server \in {"serving", "draining", "stopping"}
        /\ phase[r] = "idle" => server = "serving"
    BY DEF Serve
  <1>2. CASE server \in {"serving", "draining"}
    BY <1>1, <1>2 DEF LifeIInv, LifeFits
  <1>3. CASE server = "stopping"
    <2>1. phase[r] \in Settled
      BY <1>1, <1>3 DEF LifeIInv, LifeFits, IInv, TypeOK, Phases, Live, Settled
    <2>2. PICK f \in Frames : Finalize(r, f)
      BY <1>1, <2>1, SettledStepsFinalize DEF LifeIInv
    <2>3. phase' = phase /\ \A p \in Pools : conns'[p] \subseteq conns[p]
      BY <2>2, FinalizeOnlyReturns DEF LifeIInv, IInv
    <2>. QED BY <1>1, <1>3, <2>3 DEF LifeIInv, LifeFits
  <1>. QED BY <1>1, <1>2, <1>3

LEMMA LifeStepFits ==
  ASSUME LifeIInv, LifeNext
  PROVE  LifeFits'
  <1>. USE DEF LifeIInv, LifeTypeOK, LifeFits, Pools
  <1>1. ASSUME NEW p \in Pools, CreatePool(p)
        PROVE  LifeFits'
    BY <1>1 DEF CreatePool, NextPool, vars, PoolStates
  <1>2. ASSUME NEW p \in Pools, CreationFails(p)
        PROVE  LifeFits'
    BY <1>2 DEF CreationFails, NextPool, vars
  <1>3. ASSUME NEW p \in Pools, PoolClosed(p)
        PROVE  LifeFits'
    BY <1>3 DEF PoolClosed, vars
  <1>4. ASSUME NEW r \in Requests, Serve(r)
        PROVE  LifeFits'
    BY <1>4, ServeFits
  <1>5. ASSUME NEW r \in Requests, CancelTask(r)
        PROVE  LifeFits'
    BY <1>5 DEF CancelTask
  <1>6. CASE StopAccepting
    BY <1>6 DEF StopAccepting, vars
  <1>7. CASE DisconnectPools
    BY <1>7 DEF DisconnectPools, vars
  <1>8. CASE Terminated
    BY <1>8 DEF Terminated, lifeVars, vars
  <1>. QED
    BY <1>1, <1>2, <1>3, <1>4, <1>5, <1>6, <1>7, <1>8 DEF LifeNext

LEMMA LifeStepTypes ==
  ASSUME LifeIInv, LifeNext
  PROVE  server' \in ServerStates /\ pool' \in [Pools -> PoolStates]
  BY DEF LifeIInv, LifeTypeOK, LifeNext, CreatePool, CreationFails, PoolClosed, Serve,
     CancelTask, StopAccepting, DisconnectPools, Terminated, lifeVars, ServerStates,
     PoolStates

LEMMA LifeStepKeepsIInv ==
  ASSUME LifeIInv, LifeNext
  PROVE  IInv'
  <1>1. ASSUME NEW r \in Requests, Serve(r)
        PROVE  IInv'
    BY <1>1, StepInductive DEF LifeIInv, Serve
  <1>2. ASSUME NEW r \in Requests, CancelTask(r)
        PROVE  IInv'
    <2>1. phase[r] \in Live /\ Raise(r, "CancelledError")
      BY <1>2 DEF CancelTask
    <2>2. "CancelledError" \in Errors
      BY DEF Errors
    <2>. QED BY <2>1, <2>2, RaiseInductive DEF LifeIInv
  <1>3. CASE UNCHANGED vars
    BY <1>3, StutterInductive DEF LifeIInv
  <1>4. ASSUME NEW p \in Pools, CreatePool(p) \/ CreationFails(p) \/ PoolClosed(p)
        PROVE  UNCHANGED vars
    BY <1>4 DEF CreatePool, CreationFails, PoolClosed, vars
  <1>5. StopAccepting \/ DisconnectPools \/ Terminated => UNCHANGED vars
    BY DEF StopAccepting, DisconnectPools, Terminated, lifeVars
  <1>. QED BY <1>1, <1>2, <1>3, <1>4, <1>5 DEF LifeNext

LEMMA LifeInductive == LifeSpec => []LifeIInv
  <1>1. LifeInit => LifeIInv
    <2>. SUFFICES ASSUME LifeInit PROVE LifeIInv
      OBVIOUS
    <2>1. IInv
      BY InitInductive DEF LifeInit
    <2>2. LifeTypeOK
      BY <2>1 DEF IInv, LifeInit, LifeTypeOK, ServerStates, PoolStates
    <2>3. LifeFits
      BY DEF LifeInit, Init, LifeFits, Pools
    <2>. QED BY <2>1, <2>2, <2>3 DEF LifeIInv
  <1>2. LifeIInv /\ [LifeNext]_lifeVars => LifeIInv'
    <2>1. ASSUME LifeIInv, LifeNext PROVE LifeIInv'
      BY <2>1, LifeStepFits, LifeStepTypes, LifeStepKeepsIInv
      DEF LifeIInv, LifeTypeOK, IInv
    <2>2. ASSUME LifeIInv, UNCHANGED lifeVars PROVE LifeIInv'
      <3>1. IInv'
        BY <2>2, StutterInductive DEF LifeIInv, lifeVars
      <3>. QED BY <2>2, <3>1 DEF LifeIInv, LifeTypeOK, LifeFits, IInv, lifeVars, vars
    <2>. QED BY <2>1, <2>2
  <1>. QED BY <1>1, <1>2, PTL DEF LifeSpec

(* However the process starts and whenever it is told to stop, nobody asks *)
(* for a connection of a pool that is not open, and no pool that lifespan  *)
(* has closed has a connection in use.                                     *)
THEOREM PoolsOutlive == LifeSpec => []PoolsOutliveTheirUsers
  <1>1. ASSUME LifeIInv, NEW r \in Requests, NEW f \in Frames
        PROVE  /\ frame[r][f] = "acquire" => pool[PoolOf(r, f)] = "open"
               /\ frame[r][f] \in Holding => pool[PoolOf(r, f)] \in {"open", "closing"}
    <2>. DEFINE p == PoolOf(r, f)
    <2>1. /\ p \in Pools /\ pool[p] \in PoolStates /\ server \in ServerStates
          /\ PhaseFits(r) /\ phase[r] \in Phases
          /\ frame[r][f] \in Holding => <<r, f>> \in conns[p]
      BY <1>1 DEF LifeIInv, LifeTypeOK, IInv, TaskDiscipline, ConnectionsAccountedFor,
                  TypeOK, PoolOf, Pools
    <2>2. ASSUME frame[r][f] = "acquire"
          PROVE  pool[p] = "open"
      <3>1. phase[r] \in Live
        BY <2>1, <2>2 DEF PhaseFits, Phases, Live, Settled, Running
      <3>2. server \in {"serving", "draining"}
        BY <1>1, <2>1, <3>1 DEF LifeIInv, LifeFits, ServerStates, Live
      <3>. QED BY <1>1, <2>1, <3>2 DEF LifeIInv, LifeFits
    <2>3. ASSUME frame[r][f] \in Holding
          PROVE  pool[p] \in {"open", "closing"}
      <3>1. phase[r] # "idle"
        BY <2>1, <2>3 DEF PhaseFits, Holding, Suspended
      <3>2. pool[p] # "none"
        BY <1>1, <2>1, <3>1 DEF LifeIInv, LifeFits, ServerStates
      <3>3. pool[p] # "closed"
        BY <1>1, <2>1, <2>3 DEF LifeIInv, LifeFits
      <3>. QED BY <2>1, <3>2, <3>3 DEF PoolStates
    <2>. QED BY <2>2, <2>3
  <1>2. LifeIInv => PoolsOutliveTheirUsers
    BY <1>1 DEF PoolsOutliveTheirUsers
  <1>. QED BY LifeInductive, <1>2, PTL

(* A shutdown that cancels tasks loses no connection either.               *)
THEOREM ShutdownAccounts == LifeSpec => []ConnectionsAccountedFor
  <1>1. LifeIInv => ConnectionsAccountedFor
    BY DEF LifeIInv, IInv
  <1>. QED BY LifeInductive, <1>1, PTL
=============================================================================
