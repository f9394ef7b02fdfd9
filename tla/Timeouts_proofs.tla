-------------------------- MODULE Timeouts_proofs --------------------------
(***************************************************************************)
(* What Timeouts says of exceptions and of the time a cursor keeps its     *)
(* connection, for all lengths of the three limits.                        *)
(*                                                                         *)
(* WaitingFits relates the timers of a call to the time it acquired its    *)
(* connection, UnwindingFits the exception that leaves a call to the       *)
(* context manager it has reached, and the three parts of KeptFits the     *)
(* time a cursor has kept its connection to how far its end has come.      *)
(***************************************************************************)
EXTENDS Timeouts, TLAPS

Functions == {"fetch_row", "fetch_rows", "fetch_batch"}

(* The awaits of each function.                                            *)
CallFits ==
    /\ Call = "fetch_row" => await \in {"acquire", "query"}
    /\ Call = "fetch_rows" =>
          await \in {"acquire", "set", "begin", "work_mem", "jit", "query", "commit"}
    /\ Call = "fetch_batch" =>
          await \in {"acquire", "begin", "query", "commit"} \cup Left
    /\ await \in Nested => inner # "none"
    /\ await = "nested_set" => inner = "fetch_rows"
    /\ await = "nested_commit" => inner = "fetch_batch"

WaitingFits ==
    Waiting =>
        /\ await = "acquire" =>
              acquired = Never /\ timer["command"] = Never /\ timer["deadline"] = Never
        /\ await \notin Acquiring => timer["acquire"] = Never
        /\ await \notin Statements => timer["command"] = Never
        /\ timer["close"] = Never
        /\ Call # "fetch_batch" => timer["deadline"] = Never
        /\ Call = "fetch_batch" /\ await # "acquire" =>
              /\ acquired # Never /\ acquired <= now
              /\ timer["deadline"] = acquired + TimeoutExtraction
              /\ now <= timer["deadline"]
              /\ timer["command"] # Never /\ (await \in Nested => inner = "fetch_batch") =>
                    timer["command"] >= timer["deadline"]

(* The layers that an exception raised at each await can reach.            *)
LayersFit ==
    exc # "none" =>
        /\ layer = "nested" => await \in Nested
        /\ Call = "fetch_batch" /\ outcome = "live" /\ await \in Left =>
              layer \in {"nested", "handler"}
        /\ await \notin Left /\ layer = "handler" => acquired = Never
        /\ await = "acquire" => acquired = Never
        /\ outcome \in Exceptions => layer \notin {"except", "nested"}
        /\ outcome # "ok"
        /\ exc = "GeneratorExit" => outcome \in Exceptions

JoinFailed == await = "nested_query" /\ inner = "fetch_rows"

(* What an exception can be at each of them.                               *)
UnwindingFits ==
    exc # "none" =>
        /\ exc = "PoolAcquireTimeoutError" => await \in Acquiring
        /\ Call = "fetch_batch" =>
              /\ exc = "QueryTimeoutError" => JoinFailed
              /\ layer = "except" => exc = "CancelledError"
              /\ layer = "nested" /\ await \in Nested \ {"nested_acquire"}
                    /\ exc \in TimeoutErrors =>
                        inner = "fetch_rows" /\ (exc = "QueryTimeoutError" => JoinFailed)
        /\ Call # "fetch_batch" =>
              /\ outcome = "live" \/ layer = "handler"
              /\ layer \notin {"timeout", "nested"}
              /\ layer = "acquire_connection" /\ exc = "TimeoutError" => await \in {"acquire", "set"}
              /\ layer = "handler" /\ exc = "TimeoutError" => await = "set"

Deadline == acquired + TimeoutExtraction
Cut == Deadline + IF await \in InTransaction THEN CommandTimeout(inner) ELSE 0
Kept == Call = "fetch_batch" /\ exc # "none" /\ acquired # Never

(* An exception of the cursor itself: the deadline, and one rollback.      *)
RaisedFits ==
    Kept /\ outcome = "live" /\ await \notin Left =>
        /\ now <= Deadline + TimeoutExtraction
        /\ layer = "except" => now <= Deadline
        /\ layer = "transaction" =>
              /\ timer["command"] \in Nat /\ now <= timer["command"]
              /\ timer["command"] <= Deadline + TimeoutExtraction

(* An exception of its stream: an inner call rolls back.                   *)
LeftFits ==
    Kept /\ outcome = "live" /\ await \in Left =>
        /\ now <= Cut
        /\ layer = "nested" /\ await \in InTransaction =>
              /\ timer["command"] \in Nat /\ now <= timer["command"]
              /\ timer["command"] <= Cut

(* The event loop closes what was left, with one rollback.                 *)
ClosingFits ==
    Kept /\ outcome \in Exceptions =>
        /\ await \in Left
        /\ now <= Cut + CloseDelay + TimeoutExtraction
        /\ layer = "handler" =>
              /\ timer["close"] \in Nat /\ now <= timer["close"]
              /\ timer["close"] <= Cut + CloseDelay
        /\ layer = "transaction" =>
              /\ timer["command"] \in Nat /\ now <= timer["command"]
              /\ timer["command"] <= Cut + CloseDelay + TimeoutExtraction

(* The timers of an exception on its way, and of a request that is over.   *)
EndFits ==
    /\ exc # "none" =>
          /\ layer # "transaction" /\ ~(layer = "nested" /\ await \in InTransaction) =>
                timer["command"] = Never /\ timer["deadline"] = Never
          /\ layer # "handler" \/ outcome = "live" => timer["close"] = Never
          /\ layer = "transaction" => timer["deadline"] = Never
          /\ timer["acquire"] = Never
    /\ outcome \in Exceptions => exc # "none"
    /\ outcome = "ok" => exc = "none" /\ acquired = Never
    /\ timer["close"] # Never => acquired # Never

OutcomeFits ==
    /\ BareTimeouts
    /\ outcome = "QueryTimeoutError" /\ Call = "fetch_batch" => JoinFailed
    /\ outcome = "PoolAcquireTimeoutError" => await \in Acquiring

KeptFits == RaisedFits /\ LeftFits /\ ClosingFits

IInv ==
    /\ TypeOK /\ CallFits /\ WaitingFits /\ LayersFit /\ UnwindingFits
    /\ KeptFits /\ EndFits /\ OutcomeFits
-----------------------------------------------------------------------------
LEMMA PlansOfFunctions ==
  ASSUME NEW p \in Plans
  PROVE  /\ Len(p) \in 1..3 /\ Head(p) \in Functions
         /\ Len(p) > 1 => Tail(p) \in Plans
  <1>1. CASE p \in {<<"fetch_row">>, <<"fetch_rows">>, <<"fetch_batch">>}
    <2>1. CASE p = <<"fetch_row">>
      BY <2>1 DEF Functions
    <2>2. CASE p = <<"fetch_rows">>
      BY <2>2 DEF Functions
    <2>3. CASE p = <<"fetch_batch">>
      BY <2>3 DEF Functions
    <2>. QED BY <1>1, <2>1, <2>2, <2>3
  <1>2. CASE p = <<"fetch_row", "fetch_rows">>
    <2>1. Tail(p) = <<"fetch_rows">>
      BY <1>2
    <2>. QED BY <1>2, <2>1 DEF Functions, Plans
  <1>3. CASE p = <<"fetch_rows", "fetch_rows">>
    <2>1. Tail(p) = <<"fetch_rows">>
      BY <1>3
    <2>. QED BY <1>3, <2>1 DEF Functions, Plans
  <1>4. CASE p = <<"fetch_row", "fetch_rows", "fetch_rows">>
    <2>1. Tail(p) = <<"fetch_rows", "fetch_rows">>
      BY <1>4
    <2>. QED BY <1>4, <2>1 DEF Functions, Plans
  <1>. QED BY <1>1, <1>2, <1>3, <1>4 DEF Plans

LEMMA Limits ==
  /\ {PoolAcquireTimeout, TimeoutStats, TimeoutExtraction} \subseteq Nat \ {0}
  /\ CloseDelay \in Nat /\ MaxNow \in Nat
  /\ \A c : CommandTimeout(c) \in Nat
  BY TimeoutsArePositive, CloseDelayIsNatural, ClockBound DEF CommandTimeout

LEMMA ArmedTimers ==
  ASSUME now \in Nat, NEW c, NEW a, NEW d \in Nat \cup {Never}
  PROVE  Arm(c, a, d) \in [Timers -> Nat \cup {Never}]
  <1>1. now + PoolAcquireTimeout \in Nat /\ now + CommandTimeout(c) \in Nat
    BY Limits
  <1>. QED BY <1>1 DEF Arm

LEMMA FollowingAwaits ==
  ASSUME NEW c, NEW a, NEW b \in Following(c, a)
  PROVE  b \in Awaits /\ b # "acquire"
  BY DEF Following, FollowingRows, FollowingBatch, Awaits, Acquiring, Statements, InTransaction

LEMMA InitInductive == Init => IInv
  <1>. SUFFICES ASSUME Init PROVE IInv
    OBVIOUS
  <1>1. now \in Nat /\ now \in 0..MaxNow
    BY Limits DEF Init
  <1>2. Never \in Nat \cup {Never}
    OBVIOUS
  <1>3. /\ timer \in [Timers -> Nat \cup {Never}]
        /\ timer["command"] = Never /\ timer["deadline"] = Never /\ timer["close"] = Never
    <2>1. timer \in [Timers -> Nat \cup {Never}]
      BY <1>1, <1>2, ArmedTimers DEF Init
    <2>2. timer["command"] = Never /\ timer["deadline"] = Never /\ timer["close"] = Never
      BY DEF Init, Arm, Timers, Statements, InTransaction
    <2>. QED BY <2>1, <2>2
  <1>4. TypeOK
    BY <1>1, <1>3 DEF Init, TypeOK, Awaits, Acquiring, Layers, Inner
  <1>5. WaitingFits
    BY <1>3 DEF Init, WaitingFits, Acquiring
  <1>6. CallFits /\ LayersFit /\ UnwindingFits /\ KeptFits
    BY DEF Init, CallFits, LayersFit, UnwindingFits, KeptFits, RaisedFits, LeftFits,
           ClosingFits, Kept, Nested, InTransaction, Exceptions
  <1>7. EndFits /\ OutcomeFits
    BY <1>3 DEF Init, EndFits, OutcomeFits, BareTimeouts, Exceptions, TimeoutErrors
  <1>. QED BY <1>4, <1>5, <1>6, <1>7 DEF IInv
-----------------------------------------------------------------------------
(* What every step knows.                                                  *)
LEMMA Facts ==
  ASSUME IInv
  PROVE  /\ TypeOK /\ now \in Nat /\ MaxNow \in Nat /\ Call \in Functions
         /\ acquired \in Nat \cup {Never} /\ TimeoutExtraction \in Nat \ {0}
         /\ CloseDelay \in Nat /\ CommandTimeout(inner) \in Nat
         /\ \A t \in Timers : timer[t] \in Nat \cup {Never}
         /\ acquired # Never => acquired \in Nat /\ Deadline \in Nat /\ Cut \in Nat
  <1>1. /\ TypeOK /\ now \in Nat /\ MaxNow \in Nat /\ Call \in Functions
        /\ acquired \in Nat \cup {Never} /\ TimeoutExtraction \in Nat \ {0}
        /\ CloseDelay \in Nat /\ CommandTimeout(inner) \in Nat
        /\ \A t \in Timers : timer[t] \in Nat \cup {Never}
    BY PlansOfFunctions, Limits DEF IInv, TypeOK, Call
  <1>2. acquired # Never => acquired \in Nat /\ Deadline \in Nat /\ Cut \in Nat
    BY <1>1 DEF Deadline, Cut
  <1>. QED BY <1>1, <1>2

(* A request that waits satisfies what is said of exceptions.              *)
LEMMA WaitingIsQuiet ==
  ASSUME IInv, Waiting', EndFits'
  PROVE  LayersFit' /\ UnwindingFits' /\ KeptFits' /\ OutcomeFits'
  BY DEF Waiting, LayersFit, UnwindingFits, KeptFits, RaisedFits, LeftFits, ClosingFits,
         Kept, OutcomeFits, BareTimeouts, Exceptions, TimeoutErrors

LEMMA TickInductive ==
  ASSUME IInv, Tick
  PROVE  IInv'
  <1>1. /\ now' = now + 1 /\ now' \in 0..MaxNow
        /\ UNCHANGED <<calls, inner, await, timer, acquired, started, exc, layer, outcome>>
    BY Facts DEF Tick
  <1>2. /\ timer["deadline"] # now /\ timer["command"] # now /\ timer["close"] # now
        /\ Waiting \/ RollingBack \/ Abandoned
    BY DEF Tick, Timers
  <1>3. /\ Call' = Call /\ Cut' = Cut /\ Deadline' = Deadline /\ Kept' = Kept
        /\ (Waiting <=> Waiting')
    BY <1>1 DEF Call, Cut, Deadline, Kept, Waiting, CommandTimeout
  <1>4. TypeOK'
    BY <1>1, Facts DEF TypeOK
  <1>5. WaitingFits'
    BY <1>1, <1>2, <1>3, Facts DEF IInv, WaitingFits, Waiting, Timers, Never
  <1>6. Kept =>
          \/ layer = "transaction"
          \/ layer = "nested" /\ await \in InTransaction
          \/ layer = "handler" /\ outcome \in Exceptions
    BY <1>2 DEF IInv, EndFits, Kept, Waiting, RollingBack, Abandoned
  <1>7. RaisedFits'
    BY <1>1, <1>2, <1>3, <1>6, Facts DEF IInv, KeptFits, RaisedFits, LayersFit, Kept, Never,
       Left, Nested
  <1>8. LeftFits'
    BY <1>1, <1>2, <1>3, <1>6, Facts DEF IInv, KeptFits, LeftFits, LayersFit, Kept, Never,
       Exceptions, TimeoutErrors
  <1>9. ClosingFits'
    BY <1>1, <1>2, <1>3, <1>6, Facts DEF IInv, KeptFits, ClosingFits, LayersFit, Kept, Never
  <1>10. EndFits' /\ OutcomeFits'
    BY <1>1, <1>3 DEF IInv, EndFits, OutcomeFits, BareTimeouts, JoinFailed
  <1>11. CallFits' /\ LayersFit' /\ UnwindingFits'
    BY <1>1, <1>3 DEF IInv, CallFits, LayersFit, UnwindingFits, JoinFailed
  <1>. QED
    BY <1>4, <1>5, <1>7, <1>8, <1>9, <1>10, <1>11 DEF IInv, KeptFits

LEMMA AcquiredInductive ==
  ASSUME IInv, Acquired
  PROVE  IInv'
  <1>. DEFINE d == IF Call = "fetch_batch" THEN now + TimeoutExtraction ELSE Never
  <1>1. /\ Waiting /\ await = "acquire" /\ await' \in Following(Call, await)
        /\ timer' = Arm(Call, await', d) /\ acquired' = now
        /\ UNCHANGED <<now, calls, inner, started, exc, layer, outcome>>
    BY DEF Acquired
  <1>2. d \in Nat \cup {Never}
    BY Facts
  <1>3. /\ timer' \in [Timers -> Nat \cup {Never}]
        /\ timer'["deadline"] = d /\ timer'["close"] = Never
        /\ await' \notin Acquiring => timer'["acquire"] = Never
        /\ timer'["command"] = IF await' \in Statements THEN now + CommandTimeout(Call) ELSE Never
    <2>1. timer' \in [Timers -> Nat \cup {Never}]
      BY <1>1, <1>2, Facts, ArmedTimers
    <2>2. timer'["deadline"] = d /\ timer'["close"] = Never
      BY <1>1 DEF Arm, Timers
    <2>3. await' \notin Acquiring => timer'["acquire"] = Never
      BY <1>1 DEF Arm, Timers
    <2>4. timer'["command"] = IF await' \in Statements THEN now + CommandTimeout(Call) ELSE Never
      BY <1>1 DEF Arm, Timers
    <2>. QED BY <2>1, <2>2, <2>3, <2>4
  <1>4. Call' = Call /\ Waiting'
    BY <1>1 DEF Call, Waiting
  <1>5. CallFits' /\ await' \notin {"acquire"} \cup Nested
    BY <1>1, <1>4, Facts
    DEF CallFits, Functions, Following, FollowingRows, FollowingBatch, Nested, InTransaction
  <1>6. TypeOK'
    BY <1>1, <1>3, Facts, FollowingAwaits DEF TypeOK
  <1>7. WaitingFits'
    BY <1>1, <1>3, <1>4, <1>5, Facts DEF WaitingFits, CommandTimeout, Never
  <1>8. EndFits'
    BY <1>1, <1>3 DEF EndFits, Waiting, Exceptions, TimeoutErrors
  <1>. QED BY <1>4, <1>5, <1>6, <1>7, <1>8, WaitingIsQuiet DEF IInv

LEMMA ProceedInductive ==
  ASSUME IInv, Proceed
  PROVE  IInv'
  <1>. DEFINE d == timer["deadline"]
              c == Awaiting(await')
  <1>1. /\ Waiting /\ await # "acquire" /\ await' \in Following(Call, await) \ {"none"}
        /\ timer' = Arm(c, await', d)
        /\ started' = (started \/ await' \in Left)
        /\ UNCHANGED <<now, calls, inner, acquired, exc, layer, outcome>>
    BY DEF Proceed
  <1>2. d \in Nat \cup {Never}
    BY Facts DEF Timers
  <1>3. /\ timer' \in [Timers -> Nat \cup {Never}]
        /\ timer'["deadline"] = d /\ timer'["close"] = Never
        /\ await' \notin Acquiring => timer'["acquire"] = Never
        /\ timer'["command"] = IF await' \in Statements THEN now + CommandTimeout(c) ELSE Never
    <2>1. timer' \in [Timers -> Nat \cup {Never}]
      BY <1>1, <1>2, Facts, ArmedTimers
    <2>2. timer'["deadline"] = d /\ timer'["close"] = Never
      BY <1>1 DEF Arm, Timers
    <2>3. await' \notin Acquiring => timer'["acquire"] = Never
      BY <1>1 DEF Arm, Timers
    <2>4. timer'["command"] = IF await' \in Statements THEN now + CommandTimeout(c) ELSE Never
      BY <1>1 DEF Arm, Timers
    <2>. QED BY <2>1, <2>2, <2>3, <2>4
  <1>4. Call' = Call /\ Waiting'
    BY <1>1 DEF Call, Waiting
  <1>5. CallFits' /\ await' # "acquire"
    <2>1. CASE Call # "fetch_batch"
      BY <1>1, <1>4, <2>1, Facts
      DEF IInv, CallFits, Functions, Following, FollowingRows, Nested, InTransaction
    <2>2. CASE Call = "fetch_batch"
      BY <1>1, <1>4, <2>2, Facts
      DEF IInv, TypeOK, Inner, CallFits, Following, FollowingBatch, Left, Nested, InTransaction
    <2>. QED BY <2>1, <2>2
  <1>6. TypeOK'
    BY <1>1, <1>3, Facts, FollowingAwaits DEF TypeOK
  <1>7. WaitingFits'
    <2>1. CASE Call = "fetch_batch"
      <3>1. /\ acquired # Never /\ d = acquired + TimeoutExtraction
            /\ acquired \in Nat /\ now \in Nat /\ TimeoutExtraction \in Nat
            /\ acquired <= now /\ now <= d
        BY <1>1, <2>1, Facts DEF IInv, WaitingFits
      <3>2. /\ timer'["command"] # Never => timer'["command"] = now + CommandTimeout(c)
            /\ (await' \in Nested => inner = "fetch_batch") => CommandTimeout(c) = TimeoutExtraction
        BY <1>3, <2>1 DEF CommandTimeout, Awaiting
      <3>. QED BY <1>1, <1>3, <1>4, <1>5, <2>1, <3>1, <3>2 DEF WaitingFits
    <2>2. CASE Call # "fetch_batch"
      BY <1>1, <1>3, <1>4, <1>5, <2>2 DEF IInv, WaitingFits
    <2>. QED BY <2>1, <2>2
  <1>8. EndFits'
    BY <1>1, <1>3 DEF EndFits, Waiting, Exceptions, TimeoutErrors
  <1>. QED BY <1>4, <1>5, <1>6, <1>7, <1>8, WaitingIsQuiet DEF IInv

LEMMA ReturnInductive ==
  ASSUME IInv, Return
  PROVE  IInv'
  <1>1. /\ Waiting /\ acquired' = Never
        /\ UNCHANGED <<now, inner, started, exc, layer>>
    BY DEF Return
  <1>2. CASE /\ Len(calls) > 1
             /\ calls' = Tail(calls)
             /\ await' = "acquire" /\ timer' = Arm(Head(calls'), "acquire", Never)
             /\ UNCHANGED outcome
    <2>1. calls' \in Plans
      BY <1>2, PlansOfFunctions, Facts DEF TypeOK
    <2>2. /\ timer' \in [Timers -> Nat \cup {Never}]
          /\ timer'["deadline"] = Never /\ timer'["command"] = Never /\ timer'["close"] = Never
      <3>1. timer' \in [Timers -> Nat \cup {Never}]
        BY <1>2, Facts, ArmedTimers
      <3>2. timer'["deadline"] = Never /\ timer'["command"] = Never /\ timer'["close"] = Never
        BY <1>2 DEF Arm, Timers, Statements, InTransaction
      <3>. QED BY <3>1, <3>2
    <2>3. TypeOK'
      BY <1>1, <1>2, <2>1, <2>2, Facts DEF TypeOK, Awaits, Acquiring
    <2>4. CallFits' /\ WaitingFits' /\ Waiting'
      BY <1>1, <1>2, <2>2 DEF CallFits, WaitingFits, Waiting, Acquiring, Nested, InTransaction
    <2>5. EndFits'
      BY <1>1, <1>2, <2>2 DEF EndFits, Waiting, Exceptions, TimeoutErrors
    <2>. QED BY <2>3, <2>4, <2>5, WaitingIsQuiet DEF IInv
  <1>3. CASE /\ Len(calls) = 1
             /\ outcome' = "ok" /\ timer' = Disarmed
             /\ UNCHANGED <<calls, await>>
    <2>1. TypeOK'
      BY <1>1, <1>3, Facts DEF TypeOK, Disarmed
    <2>2. exc' = "none" /\ ~Waiting' /\ Call' = Call
      BY <1>1, <1>3 DEF Waiting, Call
    <2>3. EndFits' /\ OutcomeFits'
      BY <1>1, <1>3, <2>2
      DEF EndFits, OutcomeFits, BareTimeouts, Exceptions, TimeoutErrors, Disarmed, Timers
    <2>. QED
      BY <1>1, <1>3, <2>1, <2>2, <2>3
      DEF IInv, CallFits, WaitingFits, LayersFit, UnwindingFits, KeptFits, RaisedFits,
          LeftFits, ClosingFits, Kept
  <1>. QED BY <1>2, <1>3 DEF Return
-----------------------------------------------------------------------------
(* The timers once an exception has reached the context manager l.         *)
LEMMA ReachTypes ==
  ASSUME IInv, NEW l \in Layers, Reach(l)
  PROVE  /\ layer' = l
         /\ timer' \in [Timers -> Nat \cup {Never}]
         /\ timer'["acquire"] = Never /\ timer'["close"] = Never
         /\ l = "transaction" =>
              timer'["command"] = now + CommandTimeout(Call) /\ timer'["deadline"] = Never
         /\ l = "nested" /\ await \in InTransaction =>
              timer'["command"] = now + CommandTimeout(inner)
         /\ l # "transaction" /\ ~(l = "nested" /\ await \in InTransaction) =>
              timer'["command"] = Never /\ timer'["deadline"] = Never
  <1>0. /\ now \in Nat /\ "rollback" \in Statements /\ "rollback" \notin Acquiring
        /\ Never \in Nat \cup {Never} /\ timer["deadline"] \in Nat \cup {Never}
    BY Facts DEF Statements, Acquiring, Timers
  <1>1. CASE l = "transaction"
    <2>1. timer' = Arm(Call, "rollback", Never) /\ layer' = l
      BY <1>1 DEF Reach
    <2>2. timer' \in [Timers -> Nat \cup {Never}]
      BY <1>0, <2>1, ArmedTimers
    <2>3. /\ timer'["acquire"] = Never /\ timer'["close"] = Never /\ timer'["deadline"] = Never
          /\ timer'["command"] = now + CommandTimeout(Call)
      BY <1>0, <2>1 DEF Arm, Timers
    <2>. QED BY <1>1, <2>1, <2>2, <2>3
  <1>2. CASE l = "nested" /\ await \in InTransaction
    <2>. DEFINE d == IF timer["deadline"] = now THEN Never ELSE timer["deadline"]
    <2>1. timer' = Arm(inner, "rollback", d) /\ layer' = l
      BY <1>2 DEF Reach
    <2>2. d \in Nat \cup {Never}
      BY <1>0
    <2>3. timer' \in [Timers -> Nat \cup {Never}]
      BY <1>0, <2>1, <2>2, ArmedTimers
    <2>4. /\ timer'["acquire"] = Never /\ timer'["close"] = Never
          /\ timer'["command"] = now + CommandTimeout(inner)
      BY <1>0, <2>1 DEF Arm, Timers
    <2>. QED BY <1>2, <2>1, <2>3, <2>4
  <1>3. CASE l # "transaction" /\ ~(l = "nested" /\ await \in InTransaction)
    BY <1>3 DEF Reach, Disarmed, Timers
  <1>. QED BY <1>1, <1>2, <1>3

LEMMA LayersClosed ==
  ASSUME NEW c, NEW a, NEW l
  PROVE  Inside(c, a) \in Layers /\ Around(c, l) \in Layers
  BY DEF Inside, Around, Layers

LEMMA FireInductive ==
  ASSUME IInv, NEW t \in Timers, Fire(t)
  PROVE  IInv'
  <1>. DEFINE l == Inside(Call, await)
  <1>1. /\ Waiting /\ timer[t] = now
        /\ t # "deadline" => timer["deadline"] # now
        /\ exc' = IF t = "deadline" THEN "CancelledError" ELSE "TimeoutError"
        /\ Reach(l)
        /\ UNCHANGED <<now, calls, inner, await, acquired, started, outcome>>
    BY DEF Fire, Due
  <1>2. /\ l \in Layers /\ layer' = l /\ timer' \in [Timers -> Nat \cup {Never}]
    BY <1>1, LayersClosed, ReachTypes
  <1>3. TypeOK'
    BY <1>1, <1>2, Facts DEF TypeOK, Exceptions, TimeoutErrors
  <1>4. /\ Call' = Call /\ outcome' = "live" /\ exc' # "none" /\ exc' # "GeneratorExit"
        /\ exc' \notin {"QueryTimeoutError", "PoolAcquireTimeoutError"} /\ ~Waiting'
        /\ Cut' = Cut /\ Deadline' = Deadline
        /\ acquired' = acquired /\ await' = await /\ inner' = inner /\ now' = now
    BY <1>1 DEF Call, Waiting, Cut, Deadline, CommandTimeout
  <1>5. CallFits'
    BY <1>4 DEF IInv, CallFits
  <1>6. EndFits'
    BY <1>1, <1>2, <1>4, ReachTypes DEF EndFits, Exceptions, TimeoutErrors
  <1>7. OutcomeFits'
    BY <1>4 DEF OutcomeFits, BareTimeouts
  <1>8. CASE Call = "fetch_batch"
    <2>1. CASE await = "acquire"
      <3>1. /\ l = "acquire_connection" /\ acquired = Never /\ await \notin Left
        BY <1>1, <2>1 DEF Inside, IInv, WaitingFits, Left, Nested, InTransaction
      <3>. QED
        BY <1>2, <1>3, <1>4, <1>5, <1>6, <1>7, <1>8, <2>1, <3>1
        DEF IInv, WaitingFits, LayersFit, UnwindingFits, KeptFits, RaisedFits, LeftFits,
            ClosingFits, Kept, Exceptions, TimeoutErrors
    <2>2. CASE await \in {"begin", "query", "commit"}
      <3>1. /\ t = "deadline" /\ l \in {"timeout", "except"} /\ await \notin Left
            /\ now <= Deadline /\ acquired # Never
        BY <1>1, <1>8, <2>2, Facts
        DEF IInv, WaitingFits, Timers, Never, Acquiring, Inside, Left, Nested, InTransaction, Deadline
      <3>2. now <= Deadline + TimeoutExtraction
        BY <3>1, Facts
      <3>. QED
        BY <1>1, <1>2, <1>3, <1>4, <1>5, <1>6, <1>7, <1>8, <2>2, <3>1, <3>2
        DEF IInv, WaitingFits, LayersFit, UnwindingFits, KeptFits, RaisedFits, LeftFits,
            ClosingFits, Kept, Exceptions, TimeoutErrors
    <2>3. CASE await \in Left
      <3>1. /\ l = IF await = "client" THEN "handler" ELSE "nested"
            /\ now <= Deadline /\ acquired # Never
            /\ await \notin {"acquire", "set"}
        BY <1>1, <1>8, <2>3
        DEF IInv, WaitingFits, Inside, Left, Nested, InTransaction, Deadline
      <3>2. /\ await = "client" => t = "deadline"
            /\ await \in Nested \ {"nested_acquire"} =>
                  t = "deadline" \/ (t = "command" /\ inner = "fetch_rows")
        BY <1>1, <1>8, <2>3, Facts
        DEF IInv, TypeOK, Inner, WaitingFits, CallFits, Timers, Never, Left, Nested,
            InTransaction, Acquiring, Statements
      <3>3. /\ now <= Cut /\ now + CommandTimeout(inner) \in Nat
            /\ now <= now + CommandTimeout(inner)
            /\ await \in InTransaction => now + CommandTimeout(inner) <= Cut
        BY <3>1, Facts DEF Cut, Deadline
      <3>4. layer' = "nested" /\ await \in InTransaction =>
              timer'["command"] = now + CommandTimeout(inner)
        BY <1>1, <1>2, ReachTypes
      <3>5. LeftFits'
        BY <1>4, <3>3, <3>4 DEF LeftFits
      <3>6. LayersFit' /\ UnwindingFits'
        BY <1>1, <1>2, <1>4, <1>8, <2>3, <3>1, <3>2
        DEF LayersFit, UnwindingFits, Exceptions, TimeoutErrors, Left, Nested, InTransaction
      <3>. QED
        BY <1>3, <1>4, <1>5, <1>6, <1>7, <2>3, <3>5, <3>6
        DEF IInv, WaitingFits, KeptFits, RaisedFits, ClosingFits, Exceptions, TimeoutErrors
    <2>. QED BY <1>8, <2>1, <2>2, <2>3 DEF IInv, CallFits
  <1>9. CASE Call # "fetch_batch"
    <2>1. /\ t # "deadline"
          /\ l \in {"acquire_connection", "except", "transaction"}
          /\ l = "acquire_connection" => await \in {"acquire", "set"}
          /\ await \notin Left
          /\ await = "acquire" => acquired = Never
      BY <1>1, <1>9, Facts
      DEF IInv, WaitingFits, CallFits, Inside, Never, Functions, Left, Nested, InTransaction
    <2>. QED
      BY <1>2, <1>3, <1>4, <1>5, <1>6, <1>7, <1>9, <2>1
      DEF IInv, WaitingFits, LayersFit, UnwindingFits, KeptFits, RaisedFits, LeftFits,
          ClosingFits, Kept, Exceptions, TimeoutErrors
  <1>. QED BY <1>8, <1>9

LEMMA LeavingTypes ==
  ASSUME NEW l, NEW a, NEW e \in Exceptions \cup {"GeneratorExit"}
  PROVE  /\ Leaving(l, a, e) \in Exceptions \cup {"GeneratorExit"}
         /\ Leaving(l, a, e) = "GeneratorExit" <=> e = "GeneratorExit"
  BY DEF Leaving, Exceptions, TimeoutErrors

LEMMA UnwindInductive ==
  ASSUME IInv, Unwind
  PROVE  IInv'
  <1>. DEFINE l == Around(Call, layer)
              e == Leaving(layer, await, exc)
  <1>1. /\ exc # "none" /\ layer # "handler"
        /\ exc' = e /\ Reach(l)
        /\ acquired' = IF layer = "acquire_connection" THEN Never ELSE acquired
        /\ UNCHANGED <<now, calls, inner, await, started, outcome>>
    BY DEF Unwind
  <1>2. /\ l \in Layers /\ layer' = l /\ timer' \in [Timers -> Nat \cup {Never}]
        /\ l = "transaction" => timer'["command"] = now + CommandTimeout(Call)
    BY <1>1, LayersClosed, ReachTypes
  <1>3. /\ exc \in Exceptions \cup {"GeneratorExit"}
        /\ e \in Exceptions \cup {"GeneratorExit"} /\ e # "none"
        /\ e = "GeneratorExit" <=> exc = "GeneratorExit"
    <2>1. exc \in Exceptions \cup {"GeneratorExit"}
      BY <1>1, Facts DEF TypeOK
    <2>. QED BY <2>1, LeavingTypes DEF Exceptions, TimeoutErrors
  <1>4. TypeOK'
    BY <1>1, <1>2, <1>3, Facts DEF TypeOK
  <1>5. /\ Call' = Call /\ now' = now /\ await' = await /\ inner' = inner /\ outcome' = outcome
        /\ exc' # "none" /\ ~Waiting'
        /\ acquired' # Never => acquired' = acquired /\ Cut' = Cut /\ Deadline' = Deadline
    BY <1>1, <1>3 DEF Call, Waiting, Cut, Deadline, CommandTimeout
  <1>6. layer \in {"except", "transaction", "timeout", "acquire_connection", "nested"}
    BY <1>1, Facts DEF TypeOK, Layers
  <1>7. l # "nested" /\ (l = "handler" <=> layer \in {"acquire_connection", "nested"})
    BY <1>6 DEF Around
  <1>8. CallFits' /\ OutcomeFits'
    BY <1>5 DEF IInv, CallFits, OutcomeFits, BareTimeouts, JoinFailed
  <1>9. LayersFit'
    <2>1. l = "except" => Call # "fetch_batch" /\ layer = "transaction"
      BY <1>6 DEF Around
    <2>2. Call # "fetch_batch" => outcome = "live"
      BY <1>1 DEF IInv, UnwindingFits
    <2>. QED
      BY <1>1, <1>2, <1>3, <1>5, <1>7, <2>1, <2>2 DEF IInv, LayersFit, Exceptions, TimeoutErrors, Left
  <1>10. EndFits'
    <2>1. outcome # "ok"
      BY <1>1 DEF IInv, LayersFit
    <2>. QED BY <1>1, <1>2, <1>5, <1>7, <2>1, ReachTypes DEF EndFits
  <1>11. UnwindingFits'
    <2>1. CASE Call = "fetch_batch"
      <3>1. e = "PoolAcquireTimeoutError" => await \in Acquiring
        BY <1>1 DEF IInv, UnwindingFits, Leaving
      <3>2. e = "QueryTimeoutError" => JoinFailed
        BY <1>1, <1>6, <2>1
        DEF IInv, UnwindingFits, LayersFit, Leaving, TimeoutErrors, Nested, InTransaction, JoinFailed
      <3>3. l # "except"
        BY <1>6, <2>1 DEF Around
      <3>. QED BY <1>1, <1>2, <1>5, <1>7, <2>1, <3>1, <3>2, <3>3 DEF UnwindingFits, JoinFailed
    <2>2. CASE Call # "fetch_batch"
      <3>1. e = "PoolAcquireTimeoutError" => await \in Acquiring
        BY <1>1 DEF IInv, UnwindingFits, Leaving
      <3>2. /\ layer \in {"except", "transaction", "acquire_connection"}
            /\ outcome = "live"
            /\ l \notin {"timeout", "nested"}
        BY <1>1, <1>6, <2>2 DEF IInv, UnwindingFits, Around
      <3>3. l \in {"acquire_connection", "handler"} /\ e = "TimeoutError" =>
              layer = "acquire_connection" /\ await = "set"
        BY <1>1, <1>6, <2>2, <3>2
        DEF IInv, UnwindingFits, Leaving, Around, TimeoutErrors, Acquiring
      <3>. QED BY <1>1, <1>2, <1>5, <2>2, <3>1, <3>2, <3>3 DEF UnwindingFits, Around
    <2>. QED BY <2>1, <2>2
  <1>12. KeptFits'
    <2>. SUFFICES ASSUME Call = "fetch_batch", acquired' # Never
                  PROVE  KeptFits'
      BY <1>5 DEF KeptFits, RaisedFits, LeftFits, ClosingFits, Kept
    <2>1. /\ Kept /\ acquired' = acquired /\ Cut' = Cut /\ Deadline' = Deadline
          /\ acquired \in Nat /\ Deadline \in Nat /\ Cut \in Nat
          /\ layer # "acquire_connection" /\ CommandTimeout(Call) = TimeoutExtraction
      BY <1>1, <1>5, Facts DEF Kept, CommandTimeout
    <2>2. RaisedFits'
      BY <1>1, <1>2, <1>5, <1>6, <1>7, <2>1, Facts
      DEF IInv, KeptFits, RaisedFits, LayersFit, Around, Left
    <2>3. LeftFits'
      BY <1>1, <1>2, <1>5, <1>7, <2>1 DEF IInv, KeptFits, LeftFits
    <2>4. ClosingFits'
      BY <1>1, <1>2, <1>5, <1>6, <1>7, <2>1, Facts
      DEF IInv, KeptFits, ClosingFits, LayersFit, Around
    <2>. QED BY <2>2, <2>3, <2>4 DEF KeptFits
  <1>. QED
    BY <1>4, <1>5, <1>8, <1>9, <1>10, <1>11, <1>12 DEF IInv, WaitingFits

LEMMA RollbackInductive ==
  ASSUME IInv, NEW t \in Timers, RollbackTimesOut(t)
  PROVE  IInv'
  <1>. DEFINE l == Around(Call, layer)
              e == IF t = "deadline" THEN "CancelledError"
                   ELSE IF layer = "nested" /\ inner = "fetch_rows" THEN "QueryTimeoutError"
                   ELSE "TimeoutError"
  <1>1. /\ exc # "none" /\ timer["command"] # Never /\ timer[t] = now
        /\ exc' = e /\ Reach(l)
        /\ UNCHANGED <<now, calls, inner, await, acquired, started, outcome>>
    BY DEF RollbackTimesOut, RollingBack, Due
  <1>2. layer = "transaction" \/ (layer = "nested" /\ await \in InTransaction)
    BY <1>1 DEF IInv, EndFits
  <1>3. /\ t = "deadline" => layer = "nested"
        /\ t \in {"deadline", "command"}
    BY <1>1, <1>2, Facts DEF IInv, EndFits, Timers, Never
  <1>4. /\ l \in Layers /\ layer' = l /\ timer' \in [Timers -> Nat \cup {Never}]
        /\ l = IF layer = "nested" THEN "handler"
               ELSE IF Call = "fetch_batch" THEN "timeout" ELSE "except"
    BY <1>1, <1>2, LayersClosed, ReachTypes DEF Around
  <1>5. TypeOK'
    BY <1>1, <1>4, Facts DEF TypeOK, Exceptions, TimeoutErrors
  <1>6. /\ Call' = Call /\ now' = now /\ await' = await /\ inner' = inner /\ outcome' = outcome
        /\ acquired' = acquired /\ Cut' = Cut /\ Deadline' = Deadline
        /\ exc' \notin {"none", "GeneratorExit", "PoolAcquireTimeoutError"} /\ ~Waiting'
    BY <1>1 DEF Call, Waiting, Cut, Deadline, CommandTimeout
  <1>7. CallFits' /\ OutcomeFits'
    BY <1>6 DEF IInv, CallFits, OutcomeFits, BareTimeouts, JoinFailed
  <1>8. Call # "fetch_batch" => outcome = "live" /\ layer = "transaction"
    BY <1>1, <1>2 DEF IInv, UnwindingFits
  <1>9. LayersFit'
    BY <1>1, <1>2, <1>4, <1>6, <1>8
    DEF IInv, LayersFit, Left, Nested, Exceptions, TimeoutErrors
  <1>10. EndFits'
    <2>1. outcome # "ok"
      BY <1>1 DEF IInv, LayersFit
    <2>. QED BY <1>1, <1>4, <1>6, <2>1, ReachTypes DEF EndFits
  <1>11. UnwindingFits'
    <2>1. Call = "fetch_batch" /\ e = "QueryTimeoutError" => JoinFailed
      BY <1>2 DEF IInv, CallFits, InTransaction, JoinFailed
    <2>. QED
      BY <1>1, <1>2, <1>4, <1>6, <1>8, <2>1 DEF UnwindingFits, JoinFailed
  <1>12. KeptFits'
    <2>1. Kept' = Kept
      BY <1>1, <1>6 DEF Kept
    <2>2. RaisedFits' /\ LeftFits' /\ ClosingFits'
      BY <1>1, <1>2, <1>4, <1>6, <2>1, Facts
      DEF IInv, KeptFits, RaisedFits, LeftFits, ClosingFits, LayersFit, Left, Kept
    <2>. QED BY <2>2 DEF KeptFits
  <1>. QED
    BY <1>5, <1>6, <1>7, <1>9, <1>10, <1>11, <1>12 DEF IInv, WaitingFits

LEMMA HandleInductive ==
  ASSUME IInv, Handle
  PROVE  IInv'
  <1>1. /\ outcome = "live" /\ exc # "none" /\ layer = "handler" /\ outcome' = exc
        /\ timer' = IF acquired = Never THEN Disarmed
                    ELSE [Disarmed EXCEPT !["close"] = now + CloseDelay]
        /\ UNCHANGED <<now, calls, inner, await, acquired, started, exc, layer>>
    BY DEF Handle
  <1>2. exc \in Exceptions
    BY <1>1, Facts DEF IInv, LayersFit, TypeOK, Exceptions, TimeoutErrors
  <1>3. now + CloseDelay \in Nat
    BY Facts
  <1>4. /\ timer' \in [Timers -> Nat \cup {Never}]
        /\ timer'["acquire"] = Never /\ timer'["command"] = Never /\ timer'["deadline"] = Never
        /\ timer'["close"] = IF acquired = Never THEN Never ELSE now + CloseDelay
    BY <1>1, <1>3 DEF Disarmed, Timers
  <1>5. TypeOK'
    BY <1>1, <1>2, <1>4, Facts DEF TypeOK
  <1>6. /\ Call' = Call /\ Cut' = Cut /\ Deadline' = Deadline /\ Kept' = Kept
        /\ ~Waiting' /\ outcome' \in Exceptions /\ outcome' # "live" /\ outcome' # "ok"
    BY <1>1, <1>2 DEF Call, Waiting, Cut, Deadline, Kept, CommandTimeout, Exceptions, TimeoutErrors
  <1>7. OutcomeFits'
    <2>1. outcome' = "TimeoutError" /\ Call # "fetch_batch" => Call = "fetch_rows" /\ await = "set"
      BY <1>1, Facts DEF IInv, UnwindingFits, CallFits, Functions
    <2>. QED
      BY <1>1, <1>6, <2>1 DEF IInv, UnwindingFits, OutcomeFits, BareTimeouts, JoinFailed
  <1>8. ClosingFits'
    <2>. SUFFICES ASSUME Kept PROVE ClosingFits'
      BY <1>6 DEF ClosingFits
    <2>1. await \in Left /\ acquired # Never
      BY <1>1 DEF IInv, LayersFit, Kept
    <2>2. now <= Cut /\ Cut \in Nat /\ acquired' = acquired
      BY <1>1, <2>1, Facts DEF IInv, KeptFits, LeftFits
    <2>. QED BY <1>1, <1>3, <1>4, <1>6, <2>1, <2>2, Facts DEF ClosingFits
  <1>9. RaisedFits' /\ LeftFits'
    BY <1>6 DEF RaisedFits, LeftFits
  <1>10. CallFits' /\ LayersFit'
    BY <1>1, <1>2, <1>6 DEF IInv, CallFits, LayersFit, Exceptions, TimeoutErrors
  <1>11. UnwindingFits'
    BY <1>1, <1>6 DEF IInv, UnwindingFits, JoinFailed
  <1>12. EndFits'
    BY <1>1, <1>4, <1>6 DEF EndFits
  <1>. QED
    BY <1>5, <1>6, <1>7, <1>8, <1>9, <1>10, <1>11, <1>12 DEF IInv, KeptFits, WaitingFits

LEMMA CloseInductive ==
  ASSUME IInv, Close
  PROVE  IInv'
  <1>1. /\ outcome \in Exceptions /\ timer["close"] # Never
        /\ exc' = "GeneratorExit" /\ Reach("transaction")
        /\ UNCHANGED <<now, calls, inner, await, acquired, started, outcome>>
    BY DEF Close, Abandoned
  <1>2. /\ layer' = "transaction" /\ timer' \in [Timers -> Nat \cup {Never}]
        /\ timer'["acquire"] = Never /\ timer'["close"] = Never /\ timer'["deadline"] = Never
        /\ timer'["command"] = now + CommandTimeout(Call)
    BY <1>1, ReachTypes DEF Layers
  <1>3. /\ exc # "none" /\ layer = "handler" /\ acquired # Never
        /\ outcome # "live" /\ outcome # "ok"
    BY <1>1 DEF IInv, EndFits, Exceptions, TimeoutErrors
  <1>4. await \in Left /\ Call = "fetch_batch"
    BY <1>3, Facts DEF IInv, LayersFit, CallFits, Functions, Left, Nested, InTransaction
  <1>5. TypeOK'
    BY <1>1, <1>2, Facts DEF TypeOK, Layers
  <1>6. /\ Call' = Call /\ Cut' = Cut /\ Deadline' = Deadline /\ Kept /\ Kept' /\ ~Waiting'
        /\ CommandTimeout(Call) = TimeoutExtraction
    BY <1>1, <1>3, <1>4 DEF Call, Waiting, Cut, Deadline, Kept, CommandTimeout
  <1>7. ClosingFits'
    <2>1. now <= timer["close"] /\ timer["close"] <= Cut + CloseDelay /\ timer["close"] \in Nat
      BY <1>1, <1>3, <1>6 DEF IInv, KeptFits, ClosingFits
    <2>2. now + TimeoutExtraction <= Cut + CloseDelay + TimeoutExtraction
          /\ now <= Cut + CloseDelay + TimeoutExtraction
      BY <1>3, <2>1, Facts
    <2>. QED BY <1>1, <1>2, <1>4, <1>6, <2>2, Facts DEF ClosingFits
  <1>8. RaisedFits' /\ LeftFits'
    BY <1>1, <1>3 DEF RaisedFits, LeftFits
  <1>9. CallFits' /\ LayersFit' /\ UnwindingFits' /\ OutcomeFits'
    BY <1>1, <1>2, <1>3, <1>4, <1>6
    DEF IInv, CallFits, LayersFit, UnwindingFits, OutcomeFits, BareTimeouts, JoinFailed,
        Left, Nested, InTransaction, TimeoutErrors
  <1>10. EndFits'
    BY <1>1, <1>2, <1>3 DEF EndFits
  <1>. QED
    BY <1>5, <1>6, <1>7, <1>8, <1>9, <1>10 DEF IInv, KeptFits, WaitingFits

LEMMA Inductive == Spec => []IInv
  <1>1. IInv /\ [Next]_vars => IInv'
    <2>1. ASSUME IInv, Next PROVE IInv'
      BY <2>1, TickInductive, AcquiredInductive, ProceedInductive, ReturnInductive,
         FireInductive, UnwindInductive, RollbackInductive, HandleInductive,
         CloseInductive DEF Next
    <2>2. ASSUME IInv, UNCHANGED vars PROVE IInv'
      <3>1. /\ UNCHANGED <<now, calls, inner, await, timer, acquired, started, exc, layer, outcome>>
            /\ Call' = Call /\ Cut' = Cut /\ Deadline' = Deadline /\ Kept' = Kept
            /\ Waiting' = Waiting /\ JoinFailed' = JoinFailed
        BY <2>2 DEF vars, Call, Cut, Deadline, Kept, Waiting, JoinFailed, CommandTimeout
      <3>2. TypeOK' /\ CallFits' /\ WaitingFits' /\ LayersFit' /\ UnwindingFits'
        BY <2>2, <3>1 DEF IInv, TypeOK, CallFits, WaitingFits, LayersFit, UnwindingFits
      <3>3. KeptFits' /\ EndFits' /\ OutcomeFits'
        BY <2>2, <3>1
        DEF IInv, KeptFits, RaisedFits, LeftFits, ClosingFits, EndFits, OutcomeFits, BareTimeouts
      <3>. QED BY <3>2, <3>3 DEF IInv
    <2>. QED BY <2>1, <2>2
  <1>. QED BY InitInductive, <1>1, PTL DEF Spec
-----------------------------------------------------------------------------
(* Every state of a request with its clock has its type.                   *)
THEOREM TypeCorrect == Spec => []TypeOK
  <1>1. IInv => TypeOK
    BY DEF IInv
  <1>. QED BY Inductive, <1>1, PTL

(* The deadline of fetch_batch always comes before the command timeouts of *)
(* its statements, so that no cursor ends in the error that errors.py      *)
(* words for it, whatever the limits are; a join can.                      *)
THEOREM NoQueryTimeout == Spec => []NoQueryTimeoutInExtraction
  <1>1. IInv => NoQueryTimeoutInExtraction
    BY DEF IInv, UnwindingFits, OutcomeFits, JoinFailed, NoQueryTimeoutInExtraction
  <1>. QED BY Inductive, <1>1, PTL

(* The try of fetch_rows and fetch_row covers every statement but the SET. *)
THEOREM OnlyBareTimeouts == Spec => []BareTimeouts
  <1>1. IInv => BareTimeouts
    BY DEF IInv, OutcomeFits
  <1>. QED BY Inductive, <1>1, PTL

(* The flag of acquire_connection tells waiting for a connection from      *)
(* using it, for every call, rollback and limit.                           *)
THEOREM OnlyWaitingIsToldBusy == Spec => []OnlyWaitingIsBusy
  <1>1. IInv => OnlyWaitingIsBusy
    BY DEF IInv, UnwindingFits, OutcomeFits, OnlyWaitingIsBusy
  <1>. QED BY Inductive, <1>1, PTL

(* A client that reads slowly keeps a connection of the extraction pool no *)
(* longer than one deadline, one rollback and what the event loop takes to *)
(* close the cursor it is left in, whatever the limits are.                *)
THEOREM ConnectionIsBounded == Spec => []ExtractionConnectionIsBounded
  <1>1. IInv => ExtractionConnectionIsBounded
    <2>. SUFFICES ASSUME IInv, Call = "fetch_batch", acquired # Never
                  PROVE  now <= acquired + 2 * TimeoutExtraction + Suspension
      BY DEF ExtractionConnectionIsBounded
    <2>1. /\ now \in Nat /\ acquired \in Nat /\ TimeoutExtraction \in Nat
          /\ CommandTimeout(inner) \in Nat /\ CloseDelay \in Nat /\ Suspension \in Nat
      BY Facts DEF Suspension
    <2>2. CASE exc = "none"
      <3>1. Waiting
        BY <2>2, Facts DEF IInv, EndFits, TypeOK, Waiting
      <3>2. now <= acquired + TimeoutExtraction
        BY <3>1 DEF IInv, WaitingFits
      <3>. QED BY <2>1, <3>2
    <2>3. CASE exc # "none" /\ outcome = "live" /\ await \notin Left
      <3>1. now <= Deadline + TimeoutExtraction
        BY <2>3 DEF IInv, KeptFits, RaisedFits, Kept
      <3>. QED BY <2>1, <3>1 DEF Deadline
    <2>4. CASE exc # "none" /\ (outcome # "live" \/ await \in Left)
      <3>1. outcome \in Exceptions \cup {"live"}
        BY <2>4, Facts DEF IInv, LayersFit, TypeOK
      <3>2. /\ await \in Left
            /\ now <= Cut \/ now <= Cut + CloseDelay + TimeoutExtraction
        BY <2>4, <3>1 DEF IInv, KeptFits, LeftFits, ClosingFits, Kept
      <3>. QED BY <2>1, <3>2 DEF Cut, Deadline, Suspension
    <2>. QED BY <2>2, <2>3, <2>4
  <1>. QED BY Inductive, <1>1, PTL
=============================================================================
