-------------------------- MODULE OhsomeApi_proofs --------------------------
(***************************************************************************)
(* Safety of OhsomeApi for any number of requests, any pool sizes and any  *)
(* number of batches.                                                      *)
(*                                                                         *)
(* The properties of connections are not inductive by themselves: which    *)
(* frames can hold one depends on what a task can be doing in each phase.  *)
(* TaskDiscipline says that.                                               *)
(***************************************************************************)
EXTENDS OhsomeApi, FiniteSetTheorems, Functions, TLAPS

ServiceCalls == RowCalls \cup {"series", "result"}

(* A task awaits in one frame at a time, and in the nested one only while  *)
(* the cursor, if there is one, is suspended.                              *)
OneAwait(r) ==
    /\ frame[r].nested \in Running => frame[r].cursor \in Suspended \cup {"none"}
    /\ frame[r].nested \in Suspended /\ phase[r] = "streaming" =>
            frame[r].cursor \in Suspended
    /\ frame[r].cursor = "acquire" => frame[r].nested = "none"

(* What the frames of a request can be in each phase of its response.      *)
PhaseFits(r) ==
    /\ phase[r] = "idle" => \A f \in Frames : frame[r][f] = "none"
    /\ phase[r] = "handling" => \A f \in Frames : frame[r][f] \notin Suspended
    /\ phase[r] = "streaming" => frame[r].cursor \notin {"none", "acquire"}
    /\ phase[r] \in Settled => \A f \in Frames : frame[r][f] \notin Running
    /\ phase[r] \in {"complete", "failed"} =>
            \A f \in Frames : frame[r][f] \notin Suspended

(* Which calls reach which states of the nested frame.                     *)
CallFits(r) ==
    /\ frame[r].nested = "set" => call[r] \in RowsCalls
    /\ frame[r].nested \in Suspended \cup {"commit"} => call[r] = "members"
    /\ phase[r] # "idle" => (frame[r].cursor = "none" <=> call[r] \in ServiceCalls)
    /\ call[r] = "members" => kind[r] = "members"

TaskDiscipline == \A r \in Requests : OneAwait(r) /\ PhaseFits(r) /\ CallFits(r)

IInv == TypeOK /\ TaskDiscipline /\ ConnectionsAccountedFor
-----------------------------------------------------------------------------
(* Types.  StatusOf and the sets of states are kept folded where a step    *)
(* does not depend on them.                                                *)
LEMMA StatusIsKnown ==
  ASSUME NEW e
  PROVE  StatusOf(e) \in {400, 422, 500, 504}
  BY DEF StatusOf

LEMMA GiveBackTypes ==
  ASSUME ConnsTypeOK, NEW r, NEW F, GiveBack(r, F)
  PROVE  ConnsTypeOK'
  BY DEF ConnsTypeOK, GiveBack

LEMMA LendTypes ==
  ASSUME ConnsTypeOK, NEW p \in Pools, NEW r \in Requests, NEW f \in Frames,
         Lend(p, r, f)
  PROVE  ConnsTypeOK'
  BY DEF ConnsTypeOK, Lend

LEMMA RaiseTypes ==
  ASSUME TypeOK, NEW r \in Requests, NEW e \in Errors, Raise(r, e)
  PROVE  TypeOK'
  <1>1. ConnsTypeOK'
    BY GiveBackTypes DEF Raise, TypeOK
  <1>2. frame' \in [Requests -> [Frames -> FrameStates]]
    BY DEF Raise, TypeOK, FrameStates
  <1>3. phase' \in [Requests -> Phases]
    <2>1. PICK s \in {"truncated", "failed"} : phase' = [phase EXCEPT ![r] = s]
      BY DEF Raise
    <2>. QED BY <2>1 DEF TypeOK, Phases
  <1>4. status' \in [Requests -> {0, 200, 400, 422, 500, 504}]
    <2>1. CASE status' = status
      BY <2>1 DEF TypeOK
    <2>2. CASE status' = [status EXCEPT ![r] = StatusOf(e)]
      BY <2>2, StatusIsKnown DEF TypeOK
    <2>. QED BY <2>1, <2>2 DEF Raise
  <1>5. error' \in [Requests -> Errors \cup {"none"}]
    BY DEF Raise, TypeOK
  <1>. QED
    BY <1>1, <1>2, <1>3, <1>4, <1>5 DEF Raise, TypeOK

LEMMA InitTypes == Init => TypeOK
  BY DEF Init, TypeOK, ConnsInit, ConnsTypeOK, Phases, FrameStates, Calls

LEMMA CallsAreTyped == \A k \in AllKinds : FirstCalls(k) \subseteq Calls
  BY DEF FirstCalls, Calls, RowCalls, RowsCalls

(* No kind of request has more to send than members have.                  *)
LEMMA ExtentsOfMembers ==
  ASSUME NEW k
  PROVE  ExtentsOf(k) \subseteq ExtentsOf("members")
  <1>. DEFINE N(c) == 1..(IF c = "members" THEN MaxMemberBatches + 1 ELSE 1)
  <1>1. N(k) \subseteq N("members")
    BY BatchBounds
  <1>2. \A n \in 1..MaxBatches + 1 : [1..n -> N(k)] \subseteq [1..n -> N("members")]
    BY <1>1
  <1>. QED BY <1>2 DEF ExtentsOf

(* A batch that was fetched leaves its generator at one of its yields.     *)
LEMMA BatchesAreYielded ==
  ASSUME NEW r
  PROVE  /\ FetchBatch(r) => \E s \in Suspended : frame' = [frame EXCEPT ![r] =
                [cursor |-> s, nested |-> IF call[r] = "none" THEN "none" ELSE "acquire"]]
         /\ FetchMembers(r) => \E s \in Suspended : frame' = [frame EXCEPT ![r].nested = s]
  <1>1. \A n, max : YieldOf(n, max) \in Suspended
    BY DEF YieldOf, Suspended
  <1>. QED BY <1>1 DEF FetchBatch, FetchMembers

LEMMA StepTypes ==
  ASSUME TypeOK, NEW r \in Requests, Step(r)
  PROVE  TypeOK'
  <1>1. CASE Submit(r)
    <2>1. /\ \A k \in Offered : k \in AllKinds
          /\ \A k \in Offered : \A c \in FirstCalls(k) : c \in Calls
      BY OfferedKinds, CallsAreTyped
    <2>2. PICK k \in Offered, c \in Calls :
            /\ kind' = [kind EXCEPT ![r] = k]
            /\ call' = [call EXCEPT ![r] = c]
            /\ frame' = [frame EXCEPT ![r] =
                  IF k \in ExtractionKinds
                  THEN [@ EXCEPT !.cursor = "acquire"]
                  ELSE [@ EXCEPT !.nested = "acquire"]]
      BY <1>1, <2>1 DEF Submit
    <2>3. frame' \in [Requests -> [Frames -> FrameStates]]
      BY <2>2 DEF TypeOK, Frames, FrameStates, Running
    <2>4. /\ kind' \in [Requests -> AllKinds \cup {"none"}]
          /\ call' \in [Requests -> Calls]
      BY <2>1, <2>2 DEF TypeOK
    <2>. QED BY <1>1, <2>3, <2>4 DEF Submit, TypeOK, ConnsTypeOK, Phases
  <1>2. CASE SetDone(r)
    BY <1>2 DEF SetDone, TypeOK, ConnsTypeOK, Frames, FrameStates, Running
  <1>3. CASE NextCall(r)
    <2>1. ConnsTypeOK'
      BY <1>3, GiveBackTypes DEF NextCall, TypeOK
    <2>2. \A c \in Calls : NextCalls(c) \subseteq Calls
      BY DEF NextCalls, Calls, RowsCalls
    <2>3. frame' \in [Requests -> [Frames -> FrameStates]]
      BY <1>3 DEF NextCall, TypeOK, Frames, FrameStates, Running
    <2>4. call' \in [Requests -> Calls]
      BY <1>3, <2>2 DEF NextCall, TypeOK
    <2>. QED BY <1>3, <2>1, <2>3, <2>4 DEF NextCall, TypeOK
  <1>4. CASE Answer(r)
    <2>1. ConnsTypeOK'
      BY <1>4, GiveBackTypes DEF Answer, TypeOK
    <2>. QED BY <1>4, <2>1 DEF Answer, TypeOK, Frames, FrameStates, Phases
  <1>5. CASE Refuse(r)
    BY <1>5, RaiseTypes DEF Refuse, Errors
  <1>6. CASE FetchBatch(r)
    <2>1. frame' \in [Requests -> [Frames -> FrameStates]]
      <3>1. PICK s \in Suspended : frame' = [frame EXCEPT ![r] =
                [cursor |-> s, nested |-> IF call[r] = "none" THEN "none" ELSE "acquire"]]
        BY <1>6, BatchesAreYielded
      <3>. DEFINE w == [cursor |-> s, nested |-> IF call[r] = "none" THEN "none" ELSE "acquire"]
      <3>2. w \in [Frames -> FrameStates]
        BY DEF Frames, FrameStates, Suspended, Running
      <3>. QED BY <3>1, <3>2 DEF TypeOK
    <2>2. batch' \in [Requests -> Nat \X Nat]
      BY <1>6 DEF FetchBatch, TypeOK
    <2>3. extent' \in [Requests -> {<<>>} \cup ExtentsOf("members")]
      <3>1. PICK x \in IF batch[r][1] = 0 THEN ExtentsOf(kind[r]) ELSE {extent[r]} :
              extent' = [extent EXCEPT ![r] = x]
        BY <1>6 DEF FetchBatch
      <3>2. x \in {<<>>} \cup ExtentsOf("members")
        BY <3>1, ExtentsOfMembers DEF TypeOK
      <3>. QED BY <3>1, <3>2 DEF TypeOK
    <2>. QED BY <1>6, <2>1, <2>2, <2>3 DEF FetchBatch, TypeOK, ConnsTypeOK, Phases
  <1>7. CASE Join(r)
    <2>1. ConnsTypeOK'
      BY <1>7, GiveBackTypes DEF Join, TypeOK
    <2>. QED BY <1>7, <2>1 DEF Join, TypeOK, Frames, FrameStates
  <1>8. CASE FetchMembers(r)
    <2>1. frame' \in [Requests -> [Frames -> FrameStates]]
      <3>1. PICK s \in Suspended : frame' = [frame EXCEPT ![r].nested = s]
        BY <1>8, BatchesAreYielded
      <3>. QED BY <3>1 DEF TypeOK, Frames, FrameStates
    <2>2. batch' \in [Requests -> Nat \X Nat]
      BY <1>8 DEF FetchMembers, TypeOK
    <2>. QED BY <1>8, <2>1, <2>2 DEF FetchMembers, TypeOK, ConnsTypeOK
  <1>9. CASE SendBatch(r)
    <2>1. frame' \in [Requests -> [Frames -> FrameStates]]
      BY <1>9 DEF SendBatch, Resume, TypeOK, Frames, FrameStates, Running
    <2>2. sent' \in [Requests -> Seq(Nat \X Nat)]
      BY <1>9 DEF SendBatch, TypeOK
    <2>. QED BY <1>9, <2>1, <2>2 DEF SendBatch, TypeOK, ConnsTypeOK
  <1>10. CASE CloseMembers(r)
    <2>1. ConnsTypeOK'
      BY <1>10, GiveBackTypes DEF CloseMembers, TypeOK
    <2>2. frame' \in [Requests -> [Frames -> FrameStates]]
      BY <1>10 DEF CloseMembers, Resume, TypeOK, Frames, FrameStates, Running
    <2>. QED BY <1>10, <2>1, <2>2 DEF CloseMembers, TypeOK
  <1>11. CASE CloseCursor(r)
    <2>1. ConnsTypeOK'
      BY <1>11, GiveBackTypes DEF CloseCursor, TypeOK
    <2>. QED BY <1>11, <2>1 DEF CloseCursor, TypeOK, Frames, FrameStates
  <1>12. CASE SendFooter(r)
    BY <1>12 DEF SendFooter, TypeOK, ConnsTypeOK, Phases
  <1>13. CASE AcquireTimeout(r)
    BY <1>13, RaiseTypes DEF AcquireTimeout, Errors
  <1>14. CASE CommandTimeout(r)
    BY <1>14, RaiseTypes DEF CommandTimeout, Errors
  <1>15. CASE DatabaseFails(r)
    BY <1>15, RaiseTypes, KnownErrors DEF DatabaseFails
  <1>16. CASE NoRow(r)
    BY <1>16, RaiseTypes DEF NoRow, Errors
  <1>17. CASE DeadlineFires(r)
    BY <1>17, RaiseTypes DEF DeadlineFires, Errors
  <1>18. CASE Disconnect(r)
    BY <1>18, RaiseTypes DEF Disconnect, Errors
  <1>19. ASSUME NEW f \in Frames, Acquire(r, f)
         PROVE  TypeOK'
    <2>1. ConnsTypeOK'
      BY <1>19, LendTypes DEF Acquire, PoolOf, Pools, TypeOK
    <2>. QED BY <1>19, <2>1 DEF Acquire, TypeOK, FrameStates, Running
  <1>20. ASSUME NEW f \in Frames, Finalize(r, f)
         PROVE  TypeOK'
    <2>1. ConnsTypeOK'
      BY <1>20, GiveBackTypes DEF Finalize, TypeOK
    <2>. QED BY <1>20, <2>1 DEF Finalize, TypeOK, FrameStates
  <1>. QED
    BY <1>1, <1>2, <1>3, <1>4, <1>5, <1>6, <1>7, <1>8, <1>9, <1>10, <1>11,
       <1>12, <1>13, <1>14, <1>15, <1>16, <1>17, <1>18, <1>19, <1>20 DEF Step

(* Every variable keeps its type: TypeOK for every instance.               *)
THEOREM TypeCorrect == Spec => []TypeOK
  <1>1. TypeOK /\ [Next]_vars => TypeOK'
    <2>1. ASSUME TypeOK, UNCHANGED vars PROVE TypeOK'
      BY <2>1 DEF vars, TypeOK, ConnsTypeOK
    <2>. QED BY <2>1, StepTypes DEF Next, Quiescent
  <1>. QED BY InitTypes, <1>1, PTL DEF Spec
-----------------------------------------------------------------------------
(* The step of a request touches no other.                                 *)
Same(q) ==
    /\ frame'[q] = frame[q] /\ phase'[q] = phase[q]
    /\ call'[q] = call[q] /\ kind'[q] = kind[q]

LEMMA RaiseTouchesOne ==
  ASSUME TypeOK, NEW r \in Requests, NEW e, Raise(r, e),
         NEW q \in Requests, q # r
  PROVE  Same(q)
  <1>1. phase'[q] = phase[q]
    <2>1. PICK s \in {"truncated", "failed"} : phase' = [phase EXCEPT ![r] = s]
      BY DEF Raise
    <2>. QED BY <2>1 DEF TypeOK
  <1>. QED BY <1>1 DEF Raise, TypeOK, Same

LEMMA StepTouchesOne ==
  ASSUME TypeOK, NEW r \in Requests, Step(r), NEW q \in Requests, q # r
  PROVE  Same(q)
  <1>1. CASE Submit(r)
    <2>1. PICK k \in Offered, c \in Calls :
            /\ kind' = [kind EXCEPT ![r] = k]
            /\ call' = [call EXCEPT ![r] = c]
      BY <1>1, OfferedKinds, CallsAreTyped DEF Submit
    <2>. QED BY <1>1, <2>1 DEF Submit, TypeOK, Same
  <1>2. CASE SetDone(r) \/ SendFooter(r)
    BY <1>2 DEF SetDone, SendFooter, TypeOK, Same
  <1>3. CASE NextCall(r) \/ Answer(r)
    BY <1>3 DEF NextCall, Answer, TypeOK, Same
  <1>4. CASE FetchBatch(r) \/ FetchMembers(r)
    BY <1>4 DEF FetchBatch, FetchMembers, TypeOK, Same
  <1>5. CASE Join(r) \/ SendBatch(r)
    BY <1>5 DEF Join, SendBatch, TypeOK, Same
  <1>6. CASE CloseMembers(r) \/ CloseCursor(r)
    BY <1>6 DEF CloseMembers, CloseCursor, TypeOK, Same
  <1>7. ASSUME NEW f \in Frames, Acquire(r, f) \/ Finalize(r, f)
        PROVE  Same(q)
    BY <1>7 DEF Acquire, Finalize, TypeOK, Same
  <1>8. CASE \/ Refuse(r) \/ AcquireTimeout(r) \/ CommandTimeout(r) \/ NoRow(r)
             \/ DatabaseFails(r) \/ DeadlineFires(r) \/ Disconnect(r)
    <2>1. PICK e : Raise(r, e)
      BY <1>8 DEF Refuse, AcquireTimeout, CommandTimeout, NoRow, DatabaseFails,
                  DeadlineFires, Disconnect
    <2>. QED BY <2>1, RaiseTouchesOne
  <1>. QED
    BY <1>1, <1>2, <1>3, <1>4, <1>5, <1>6, <1>7, <1>8 DEF Step
-----------------------------------------------------------------------------
Disciplined(r) == OneAwait(r) /\ PhaseFits(r) /\ CallFits(r)

LEMMA RaiseIsDisciplined ==
  ASSUME TypeOK, NEW r \in Requests, Disciplined(r), NEW e, Raise(r, e),
         phase[r] \in Live
  PROVE  Disciplined(r)'
  <1>1. \A f \in Frames : /\ frame'[r][f] \notin Running
                          /\ frame'[r][f] # "none" => frame[r][f] # "none"
                          /\ frame'[r][f] = "none" => frame[r][f] = "none"
                          /\ frame'[r][f] \in Suspended => frame'[r][f] = frame[r][f]
    BY DEF Raise, TypeOK, Running, Suspended
  <1>2. /\ phase[r] = "streaming" => phase'[r] = "truncated"
        /\ phase[r] = "handling" => phase'[r] = "failed"
    BY DEF Raise, TypeOK, Live
  <1>3. call'[r] = call[r] /\ kind'[r] = kind[r]
    BY DEF Raise
  <1>. QED
    BY <1>1, <1>2, <1>3 DEF Disciplined, OneAwait, PhaseFits, CallFits, Live,
       Settled, Running, Suspended, Frames

(* Whatever raises, raises in a task that runs.                            *)
LEMMA RaisingTasksLive ==
  ASSUME TypeOK, NEW r \in Requests, Disciplined(r),
         \/ phase[r] \in Live
         \/ \E f \in Frames : frame[r][f] \in Running
  PROVE  phase[r] \in Live
  BY DEF TypeOK, Disciplined, PhaseFits, Phases, Live, Settled, Running

LEMMA StepIsDisciplined ==
  ASSUME TypeOK, NEW r \in Requests, Disciplined(r), Step(r)
  PROVE  Disciplined(r)'
  <1>. USE DEF Disciplined, OneAwait, PhaseFits, CallFits
  <1>1. CASE Submit(r)
    <2>1. PICK k \in Offered, c \in Calls :
            /\ c \in FirstCalls(k)
            /\ kind' = [kind EXCEPT ![r] = k]
            /\ call' = [call EXCEPT ![r] = c]
            /\ frame' = [frame EXCEPT ![r] =
                  IF k \in ExtractionKinds
                  THEN [@ EXCEPT !.cursor = "acquire"]
                  ELSE [@ EXCEPT !.nested = "acquire"]]
            /\ phase[r] = "idle" /\ phase' = [phase EXCEPT ![r] = "handling"]
      BY <1>1, OfferedKinds, CallsAreTyped DEF Submit
    <2>2. /\ k \in ExtractionKinds => c \notin ServiceCalls
          /\ k \notin ExtractionKinds => c \in ServiceCalls
          /\ c = "members" => k = "members"
      BY <2>1, OfferedKinds DEF FirstCalls, AllKinds, ExtractionKinds, ServiceCalls, RowCalls
    <2>3. /\ kind'[r] = k /\ call'[r] = c /\ phase'[r] = "handling"
          /\ frame'[r].cursor = IF k \in ExtractionKinds THEN "acquire" ELSE "none"
          /\ frame'[r].nested = IF k \in ExtractionKinds THEN "none" ELSE "acquire"
      BY <2>1 DEF TypeOK, Frames
    <2>. QED
      BY <2>2, <2>3 DEF Frames, Running, Suspended, Settled
  <1>2. CASE SetDone(r)
    <2>1. /\ frame[r].nested = "set" /\ frame'[r].nested = "query"
          /\ frame'[r].cursor = frame[r].cursor
          /\ phase'[r] = phase[r] /\ call'[r] = call[r] /\ kind'[r] = kind[r]
      BY <1>2 DEF SetDone, TypeOK, Frames
    <2>. QED
      BY <2>1 DEF Frames, Running, Suspended, Settled
  <1>3. CASE NextCall(r)
    <2>1. /\ frame[r].nested = "query" /\ frame'[r].nested = "acquire"
          /\ frame'[r].cursor = frame[r].cursor
          /\ call[r] \in ServiceCalls /\ call'[r] \in ServiceCalls
          /\ phase'[r] = phase[r] /\ kind'[r] = kind[r]
      BY <1>3 DEF NextCall, NextCalls, ServiceCalls, RowCalls, TypeOK, Frames
    <2>. QED
      BY <2>1 DEF Frames, Running, Suspended, Settled, ServiceCalls, RowCalls
  <1>4. CASE Answer(r)
    <2>1. /\ frame[r].nested = "query" /\ frame'[r].nested = "ended"
          /\ frame'[r].cursor = frame[r].cursor
          /\ call[r] \in ServiceCalls /\ call'[r] = call[r] /\ kind'[r] = kind[r]
          /\ phase'[r] = "complete"
      BY <1>4 DEF Answer, ServiceCalls, RowCalls, TypeOK, Frames
    <2>. QED
      BY <2>1 DEF Frames, Running, Suspended, Settled, ServiceCalls, RowCalls
  <1>5. CASE FetchBatch(r)
    <2>1. PICK s \in Suspended :
            frame' = [frame EXCEPT ![r] =
              [cursor |-> s, nested |-> IF call[r] = "none" THEN "none" ELSE "acquire"]]
      BY <1>5, BatchesAreYielded
    <2>2. /\ frame[r].cursor = "query" /\ frame'[r].cursor = s
          /\ frame'[r].nested \in {"none", "acquire"}
          /\ phase'[r] = "streaming"
          /\ call'[r] = call[r] /\ kind'[r] = kind[r]
      BY <1>5, <2>1 DEF FetchBatch, TypeOK, Frames
    <2>. QED
      BY <2>2 DEF Frames, Running, Suspended, Settled
  <1>6. CASE Join(r)
    <2>1. /\ frame[r].nested = "query" /\ frame'[r].nested = "ended"
          /\ frame'[r].cursor = frame[r].cursor
          /\ phase'[r] = phase[r] /\ call'[r] = call[r] /\ kind'[r] = kind[r]
      BY <1>6 DEF Join, TypeOK, Frames
    <2>. QED
      BY <2>1 DEF Frames, Running, Suspended, Settled
  <1>7. CASE FetchMembers(r)
    <2>1. PICK s \in Suspended : frame' = [frame EXCEPT ![r].nested = s]
      BY <1>7, BatchesAreYielded
    <2>2. /\ frame[r].nested = "query" /\ frame'[r].nested = s
          /\ frame'[r].cursor = frame[r].cursor /\ call[r] = "members"
          /\ phase'[r] = phase[r] /\ call'[r] = call[r] /\ kind'[r] = kind[r]
      BY <1>7, <2>1 DEF FetchMembers, TypeOK, Frames
    <2>3. phase[r] = "streaming" /\ frame[r].cursor \in Suspended
      BY <2>2 DEF TypeOK, Phases, Settled, Running, Suspended, ServiceCalls, RowCalls, Frames
    <2>. QED
      BY <2>2, <2>3 DEF Frames, Running, Suspended, Settled
  <1>8. CASE SendBatch(r)
    <2>1. /\ phase[r] = "streaming" /\ frame[r].cursor \in Suspended
          /\ frame[r].nested \notin Running
          /\ phase'[r] = phase[r] /\ call'[r] = call[r] /\ kind'[r] = kind[r]
      BY <1>8 DEF SendBatch, Sending, TypeOK
    <2>2. CASE frame[r].nested \in Suspended
      <3>1. /\ frame'[r].nested \in {"query", "commit"}
            /\ frame'[r].cursor = frame[r].cursor
        BY <1>8, <2>2 DEF SendBatch, Resume, TypeOK, Frames
      <3>. QED
        BY <2>1, <2>2, <3>1 DEF Frames, Running, Suspended, Settled
    <2>3. CASE frame[r].nested \notin Suspended
      <3>1. /\ frame'[r].cursor \in {"query", "commit"}
            /\ frame'[r].nested = frame[r].nested
        BY <1>8, <2>3 DEF SendBatch, Resume, TypeOK, Frames
      <3>. QED
        BY <2>1, <2>3, <3>1 DEF Frames, Running, Suspended, Settled
    <2>. QED BY <2>2, <2>3
  <1>9. CASE CloseMembers(r)
    <2>1. /\ frame[r].nested = "commit" /\ frame'[r].nested = "ended"
          /\ frame'[r].cursor \in {"query", "commit"}
          /\ phase'[r] = phase[r] /\ call'[r] = call[r] /\ kind'[r] = kind[r]
      BY <1>9 DEF CloseMembers, Resume, TypeOK, Frames
    <2>2. phase[r] = "streaming"
      BY <2>1 DEF TypeOK, Phases, Settled, Running, Suspended, ServiceCalls, RowCalls, Frames
    <2>3. frame[r].cursor # "none"
      BY <2>2
    <2>. QED
      BY <2>1, <2>2, <2>3 DEF Frames, Running, Suspended, Settled
  <1>10. CASE CloseCursor(r)
    <2>1. /\ frame[r].cursor = "commit" /\ frame'[r].cursor = "ended"
          /\ frame'[r].nested = frame[r].nested
          /\ phase'[r] = phase[r] /\ call'[r] = call[r] /\ kind'[r] = kind[r]
      BY <1>10 DEF CloseCursor, TypeOK, Frames
    <2>. QED
      BY <2>1 DEF Frames, Running, Suspended, Settled
  <1>11. CASE SendFooter(r)
    <2>1. /\ phase[r] = "streaming" /\ phase'[r] = "complete"
          /\ frame[r].cursor = "ended" /\ frame'[r] = frame[r]
          /\ call'[r] = call[r] /\ kind'[r] = kind[r]
      BY <1>11 DEF SendFooter, AwaitsFooter, TypeOK, Frames
    <2>. QED
      BY <2>1 DEF Frames, Running, Suspended, Settled
  <1>12. ASSUME NEW f \in Frames, Acquire(r, f)
         PROVE  Disciplined(r)'
    <2>1. /\ frame[r][f] = "acquire" /\ frame'[r][f] \in {"set", "query"}
          /\ frame'[r][f] = "set" => f = "nested" /\ call[r] \in RowsCalls
          /\ \A g \in Frames : g # f => frame'[r][g] = frame[r][g]
          /\ phase'[r] = phase[r] /\ call'[r] = call[r] /\ kind'[r] = kind[r]
      BY <1>12 DEF Acquire, TypeOK
    <2>. QED
      BY <2>1 DEF Frames, Running, Suspended, Settled
  <1>13. ASSUME NEW f \in Frames, Finalize(r, f)
         PROVE  Disciplined(r)'
    <2>1. /\ frame[r][f] \in Suspended /\ frame'[r][f] = "ended"
          /\ \A g \in Frames : g # f => frame'[r][g] = frame[r][g]
          /\ phase[r] \in Settled
          /\ phase'[r] = phase[r] /\ call'[r] = call[r] /\ kind'[r] = kind[r]
      BY <1>13 DEF Finalize, TypeOK
    <2>. QED
      BY <2>1 DEF Frames, Running, Suspended, Settled
  <1>14. CASE \/ Refuse(r) \/ AcquireTimeout(r) \/ CommandTimeout(r) \/ NoRow(r)
              \/ DatabaseFails(r) \/ DeadlineFires(r) \/ Disconnect(r)
    <2>1. PICK e : Raise(r, e)
      BY <1>14 DEF Refuse, AcquireTimeout, CommandTimeout, NoRow, DatabaseFails,
                   DeadlineFires, Disconnect
    <2>2. phase[r] \in Live \/ \E f \in Frames : frame[r][f] \in Running
      BY <1>14 DEF Refuse, AcquireTimeout, CommandTimeout, NoRow, DatabaseFails,
                   DeadlineFires, Disconnect, Live, Running, Frames
    <2>3. phase[r] \in Live
      BY <2>2, RaisingTasksLive
    <2>. QED BY <2>1, <2>3, RaiseIsDisciplined
  <1>. QED
    BY <1>1, <1>2, <1>3, <1>4, <1>5, <1>6, <1>7, <1>8, <1>9, <1>10, <1>11,
       <1>12, <1>13, <1>14 DEF Step
-----------------------------------------------------------------------------
(* What lending and giving back do to the frames that hold a connection.   *)
LEMMA GiveBackRemoves ==
  ASSUME ConnsTypeOK, NEW r, NEW F, GiveBack(r, F), NEW p \in Pools, NEW q, NEW f
  PROVE  <<q, f>> \in conns'[p] <=> <<q, f>> \in conns[p] /\ ~(q = r /\ f \in F)
  BY DEF GiveBack, ConnsTypeOK

LEMMA LendAdds ==
  ASSUME ConnsTypeOK, NEW o \in Pools, NEW r, NEW g, Lend(o, r, g),
         NEW p \in Pools, NEW q, NEW f
  PROVE  <<q, f>> \in conns'[p] <=>
            <<q, f>> \in conns[p] \/ (p = o /\ q = r /\ f = g)
  BY DEF Lend, ConnsTypeOK

LEMMA StepMovesOwnConnections ==
  ASSUME TypeOK, NEW r \in Requests, Step(r), NEW q \in Requests, q # r,
         NEW f \in Frames, NEW p \in Pools
  PROVE  <<q, f>> \in conns'[p] <=> <<q, f>> \in conns[p]
  <1>1. \/ UNCHANGED conns
        \/ \E F : GiveBack(r, F)
        \/ \E g \in Frames : Lend(PoolOf(r, g), r, g)
    <2>1. CASE Submit(r) \/ SetDone(r) \/ FetchBatch(r) \/ FetchMembers(r)
               \/ SendBatch(r) \/ SendFooter(r)
      BY <2>1 DEF Submit, SetDone, FetchBatch, FetchMembers, SendBatch, SendFooter
    <2>2. CASE NextCall(r) \/ Answer(r) \/ Join(r) \/ CloseMembers(r) \/ CloseCursor(r)
      BY <2>2 DEF NextCall, Answer, Join, CloseMembers, CloseCursor
    <2>3. CASE \/ Refuse(r) \/ AcquireTimeout(r) \/ CommandTimeout(r) \/ NoRow(r)
               \/ DatabaseFails(r) \/ DeadlineFires(r) \/ Disconnect(r)
      <3>1. PICK e : Raise(r, e)
        BY <2>3 DEF Refuse, AcquireTimeout, CommandTimeout, NoRow, DatabaseFails,
                    DeadlineFires, Disconnect
      <3>. QED BY <3>1 DEF Raise
    <2>4. ASSUME NEW g \in Frames, Acquire(r, g) \/ Finalize(r, g)
          PROVE  (\E F : GiveBack(r, F)) \/ Lend(PoolOf(r, g), r, g)
      BY <2>4 DEF Acquire, Finalize
    <2>. QED BY <2>1, <2>2, <2>3, <2>4 DEF Step
  <1>2. ConnsTypeOK /\ \A g \in Frames : PoolOf(r, g) \in Pools
    BY DEF TypeOK, PoolOf, Pools
  <1>. QED BY <1>1, <1>2, GiveBackRemoves, LendAdds

Accounted(r) ==
    \A f \in Frames, p \in Pools :
        <<r, f>> \in conns[p] <=> frame[r][f] \in Holding /\ p = PoolOf(r, f)

LEMMA RaiseAccounts ==
  ASSUME TypeOK, NEW r \in Requests, Accounted(r), NEW e, Raise(r, e)
  PROVE  Accounted(r)'
  <1>1. PICK F : /\ F = {f \in Frames : frame[r][f] \in Running}
                 /\ GiveBack(r, F)
                 /\ \A f \in Frames :
                      frame'[r][f] = IF f \in F THEN "ended" ELSE frame[r][f]
                 /\ call'[r] = call[r]
    <2>. DEFINE G == {f \in Frames : frame[r][f] \in Running}
    <2>1. GiveBack(r, G) /\ call' = call
      BY DEF Raise
    <2>2. \A f \in Frames : frame'[r][f] = IF f \in G THEN "ended" ELSE frame[r][f]
      BY DEF Raise, TypeOK
    <2>. QED BY <2>1, <2>2
  <1>2. \A f \in Frames : PoolOf(r, f)' = PoolOf(r, f)
    BY <1>1 DEF PoolOf
  <1>3. ASSUME NEW f \in Frames, NEW p \in Pools
        PROVE  <<r, f>> \in conns'[p] <=> <<r, f>> \in conns[p] /\ f \notin F
    BY <1>1, GiveBackRemoves DEF TypeOK
  <1>4. ASSUME NEW f \in Frames
        PROVE  frame'[r][f] \in Holding <=> frame[r][f] \in Holding /\ f \notin F
    BY <1>1 DEF Holding, Running, Suspended
  <1>. QED BY <1>2, <1>3, <1>4 DEF Accounted

(* A step that leaves the request's connections and calls alone, and moves *)
(* its frames only between states that agree on having one.                *)
LEMMA KeepingAccounts ==
  ASSUME TypeOK, NEW r \in Requests, Accounted(r), UNCHANGED conns,
         call'[r] = call[r],
         \A f \in Frames : frame'[r][f] \in Holding <=> frame[r][f] \in Holding
  PROVE  Accounted(r)'
  BY DEF Accounted, PoolOf

(* A step that ends frame g and gives its connection back.                 *)
LEMMA ClosingAccounts ==
  ASSUME TypeOK, NEW r \in Requests, Accounted(r), NEW g \in Frames,
         GiveBack(r, {g}), frame'[r][g] \notin Holding,
         call'[r] = call[r] \/ {call[r], call'[r]} \subseteq ServiceCalls,
         \A f \in Frames \ {g} :
            frame'[r][f] \in Holding <=> frame[r][f] \in Holding
  PROVE  Accounted(r)'
  <1>1. \A f \in Frames : PoolOf(r, f)' = PoolOf(r, f)
    BY DEF PoolOf, ServiceCalls, RowCalls
  <1>2. ASSUME NEW f \in Frames, NEW p \in Pools
        PROVE  <<r, f>> \in conns'[p] <=> <<r, f>> \in conns[p] /\ f # g
    BY GiveBackRemoves DEF TypeOK
  <1>. QED BY <1>1, <1>2 DEF Accounted

LEMMA StepAccounts ==
  ASSUME TypeOK, NEW r \in Requests, Disciplined(r), Accounted(r), Step(r)
  PROVE  Accounted(r)'
  <1>1. CASE Submit(r)
    <2>1. \A f \in Frames : frame[r][f] \notin Holding /\ frame'[r][f] \notin Holding
      <3>1. \A f \in Frames : frame[r][f] = "none"
        BY <1>1 DEF Submit, Disciplined, PhaseFits
      <3>2. \A f \in Frames : frame'[r][f] \in {"none", "acquire"}
        BY <1>1, <3>1 DEF Submit, TypeOK, Frames
      <3>. QED BY <3>1, <3>2 DEF Holding, Suspended
    <2>2. UNCHANGED conns
      BY <1>1 DEF Submit
    <2>. QED BY <2>1, <2>2 DEF Accounted
  <1>2. CASE SetDone(r)
    <2>1. /\ frame[r].nested = "set" /\ frame'[r].nested = "query"
          /\ frame'[r].cursor = frame[r].cursor
      BY <1>2 DEF SetDone, TypeOK, Frames
    <2>2. \A f \in Frames : frame'[r][f] \in Holding <=> frame[r][f] \in Holding
      BY <2>1 DEF Holding, Frames
    <2>. QED BY <1>2, <2>2, KeepingAccounts DEF SetDone
  <1>3. CASE NextCall(r)
    <2>1. /\ frame'[r].nested = "acquire" /\ frame'[r].cursor = frame[r].cursor
          /\ GiveBack(r, {"nested"})
      BY <1>3 DEF NextCall, TypeOK, Frames
    <2>2. /\ frame'[r]["nested"] \notin Holding
          /\ \A f \in Frames \ {"nested"} :
                frame'[r][f] \in Holding <=> frame[r][f] \in Holding
      BY <2>1 DEF Holding, Suspended, Frames
    <2>3. call[r] \in ServiceCalls /\ call'[r] \in ServiceCalls
      BY <1>3 DEF NextCall, NextCalls, ServiceCalls, RowCalls, TypeOK
    <2>. QED BY <2>1, <2>2, <2>3, ClosingAccounts DEF Frames
  <1>4. CASE Answer(r)
    <2>1. /\ frame'[r].nested = "ended" /\ frame'[r].cursor = frame[r].cursor
          /\ GiveBack(r, {"nested"})
      BY <1>4 DEF Answer, TypeOK, Frames
    <2>2. /\ frame'[r]["nested"] \notin Holding
          /\ \A f \in Frames \ {"nested"} :
                frame'[r][f] \in Holding <=> frame[r][f] \in Holding
      BY <2>1 DEF Holding, Suspended, Frames
    <2>. QED BY <1>4, <2>1, <2>2, ClosingAccounts DEF Answer, Frames
  <1>5. CASE FetchBatch(r)
    <2>1. frame[r].nested \notin Holding
      BY <1>5 DEF FetchBatch, Disciplined, OneAwait, PhaseFits, CallFits, TypeOK,
                  Phases, Holding, Running, Suspended, Settled, Frames
    <2>2. PICK s \in Suspended :
            frame' = [frame EXCEPT ![r] =
              [cursor |-> s, nested |-> IF call[r] = "none" THEN "none" ELSE "acquire"]]
      BY <1>5, BatchesAreYielded
    <2>. QED
      BY <1>5, <2>1, <2>2, KeepingAccounts DEF FetchBatch, TypeOK, Holding, Suspended, Frames
  <1>6. CASE Join(r)
    <2>1. /\ frame'[r].nested = "ended" /\ frame'[r].cursor = frame[r].cursor
          /\ GiveBack(r, {"nested"})
      BY <1>6 DEF Join, TypeOK, Frames
    <2>2. /\ frame'[r]["nested"] \notin Holding
          /\ \A f \in Frames \ {"nested"} :
                frame'[r][f] \in Holding <=> frame[r][f] \in Holding
      BY <2>1 DEF Holding, Suspended, Frames
    <2>. QED BY <1>6, <2>1, <2>2, ClosingAccounts DEF Join, Frames
  <1>7. CASE FetchMembers(r)
    <2>1. PICK s \in Suspended : frame' = [frame EXCEPT ![r].nested = s]
      BY <1>7, BatchesAreYielded
    <2>2. /\ frame'[r].nested = s /\ frame[r].nested = "query"
          /\ frame'[r].cursor = frame[r].cursor
      BY <1>7, <2>1 DEF FetchMembers, TypeOK, Frames
    <2>3. \A f \in Frames : frame'[r][f] \in Holding <=> frame[r][f] \in Holding
      BY <2>2 DEF Holding, Frames
    <2>. QED BY <1>7, <2>3, KeepingAccounts DEF FetchMembers
  <1>8. CASE SendBatch(r)
    <2>1. \A f \in Frames :
            \/ frame'[r][f] = frame[r][f]
            \/ frame[r][f] \in Suspended /\ frame'[r][f] \in {"query", "commit"}
      BY <1>8 DEF SendBatch, Sending, Resume, TypeOK, Frames
    <2>2. \A f \in Frames : frame'[r][f] \in Holding <=> frame[r][f] \in Holding
      BY <2>1 DEF Holding
    <2>. QED BY <1>8, <2>2, KeepingAccounts DEF SendBatch
  <1>9. CASE CloseMembers(r)
    <2>1. frame[r].cursor \in Suspended
      BY <1>9 DEF CloseMembers, Disciplined, OneAwait, PhaseFits, CallFits, TypeOK,
                  Phases, Running, Suspended, Settled, ServiceCalls, RowCalls, Frames
    <2>. QED
      BY <1>9, <2>1, ClosingAccounts
      DEF CloseMembers, Resume, TypeOK, Holding, Suspended, Frames
  <1>10. CASE CloseCursor(r)
    <2>1. /\ frame'[r].cursor = "ended" /\ frame'[r].nested = frame[r].nested
          /\ GiveBack(r, {"cursor"})
      BY <1>10 DEF CloseCursor, TypeOK, Frames
    <2>2. /\ frame'[r]["cursor"] \notin Holding
          /\ \A f \in Frames \ {"cursor"} :
                frame'[r][f] \in Holding <=> frame[r][f] \in Holding
      BY <2>1 DEF Holding, Suspended, Frames
    <2>. QED BY <1>10, <2>1, <2>2, ClosingAccounts DEF CloseCursor, Frames
  <1>11. CASE SendFooter(r)
    BY <1>11, KeepingAccounts DEF SendFooter, TypeOK
  <1>12. ASSUME NEW g \in Frames, Acquire(r, g)
         PROVE  Accounted(r)'
    <2>1. /\ frame[r][g] \notin Holding /\ frame'[r][g] \in Holding
          /\ \A f \in Frames \ {g} : frame'[r][f] = frame[r][f]
          /\ call'[r] = call[r] /\ Lend(PoolOf(r, g), r, g)
      BY <1>12 DEF Acquire, TypeOK, Holding, Suspended
    <2>2. \A f \in Frames : PoolOf(r, f)' = PoolOf(r, f) /\ PoolOf(r, f) \in Pools
      BY <2>1 DEF PoolOf, Pools
    <2>3. ASSUME NEW f \in Frames, NEW p \in Pools
          PROVE  <<r, f>> \in conns'[p] <=>
                    <<r, f>> \in conns[p] \/ (f = g /\ p = PoolOf(r, g))
      BY <2>1, <2>2, LendAdds DEF TypeOK
    <2>. QED BY <2>1, <2>2, <2>3 DEF Accounted
  <1>13. ASSUME NEW g \in Frames, Finalize(r, g)
         PROVE  Accounted(r)'
    <2>1. /\ frame'[r][g] = "ended" /\ GiveBack(r, {g}) /\ call'[r] = call[r]
          /\ \A f \in Frames \ {g} : frame'[r][f] = frame[r][f]
      BY <1>13 DEF Finalize, TypeOK
    <2>. QED BY <2>1, ClosingAccounts DEF Holding, Suspended
  <1>14. CASE \/ Refuse(r) \/ AcquireTimeout(r) \/ CommandTimeout(r) \/ NoRow(r)
              \/ DatabaseFails(r) \/ DeadlineFires(r) \/ Disconnect(r)
    <2>1. PICK e : Raise(r, e)
      BY <1>14 DEF Refuse, AcquireTimeout, CommandTimeout, NoRow, DatabaseFails,
                   DeadlineFires, Disconnect
    <2>. QED BY <2>1, RaiseAccounts
  <1>. QED
    BY <1>1, <1>2, <1>3, <1>4, <1>5, <1>6, <1>7, <1>8, <1>9, <1>10, <1>11,
       <1>12, <1>13, <1>14 DEF Step
-----------------------------------------------------------------------------
LEMMA InitInductive == Init => IInv
  <1>. SUFFICES ASSUME Init PROVE IInv
    OBVIOUS
  <1>1. TypeOK
    BY InitTypes
  <1>2. TaskDiscipline
    BY DEF Init, TaskDiscipline, OneAwait, PhaseFits, CallFits, Frames, Running,
           Suspended, Settled
  <1>3. ConnectionsAccountedFor
    BY DEF Init, ConnsInit, ConnectionsAccountedFor, Holding, Suspended
  <1>. QED BY <1>1, <1>2, <1>3 DEF IInv

LEMMA StepInductive ==
  ASSUME IInv, NEW r \in Requests, Step(r)
  PROVE  IInv'
  <1>1. TypeOK /\ TypeOK'
    BY StepTypes DEF IInv
  <1>2. ASSUME NEW q \in Requests
        PROVE  Disciplined(q) /\ Accounted(q)
    BY DEF IInv, TaskDiscipline, Disciplined, ConnectionsAccountedFor, Accounted
  <1>3. ASSUME NEW q \in Requests
        PROVE  Disciplined(q)'
    <2>1. CASE q = r
      BY <1>1, <1>2, <2>1, StepIsDisciplined
    <2>2. CASE q # r
      <3>1. Same(q)
        BY <1>1, <2>2, StepTouchesOne
      <3>. QED
        BY <1>2, <3>1 DEF Same, Disciplined, OneAwait, PhaseFits, CallFits
    <2>. QED BY <2>1, <2>2
  <1>4. ASSUME NEW q \in Requests
        PROVE  Accounted(q)'
    <2>1. CASE q = r
      BY <1>1, <1>2, <2>1, StepAccounts
    <2>2. CASE q # r
      <3>1. Same(q)
        BY <1>1, <2>2, StepTouchesOne
      <3>2. \A f \in Frames, p \in Pools : <<q, f>> \in conns'[p] <=> <<q, f>> \in conns[p]
        BY <1>1, <2>2, StepMovesOwnConnections
      <3>. QED
        BY <1>2, <3>1, <3>2 DEF Same, Accounted, PoolOf
    <2>. QED BY <2>1, <2>2
  <1>. QED
    BY <1>1, <1>3, <1>4
    DEF IInv, TaskDiscipline, Disciplined, ConnectionsAccountedFor, Accounted

LEMMA StutterInductive == IInv /\ UNCHANGED vars => IInv'
  BY DEF vars, IInv, TypeOK, ConnsTypeOK, TaskDiscipline, OneAwait, PhaseFits,
         CallFits, ConnectionsAccountedFor, PoolOf

LEMMA Inductive == Spec => []IInv
  <1>1. IInv /\ [Next]_vars => IInv'
    BY StepInductive, StutterInductive DEF Next, Quiescent
  <1>. QED BY InitInductive, <1>1, PTL DEF Spec

(* No exception, cancellation or abandoned generator loses a connection or *)
(* gives one back twice: acquire_connection pairs with its exit.           *)
THEOREM AccountingCorrect == Spec => []ConnectionsAccountedFor
  <1>1. IInv => ConnectionsAccountedFor
    BY DEF IInv
  <1>. QED BY Inductive, <1>1, PTL

(* Statistics and joins wait for statements only: the holder of a stats    *)
(* connection waits for no other connection and no client.                 *)
THEOREM StatsPoolProgress == Spec => []StatsHoldersNeverWait
  <1>1. ASSUME IInv, NEW c \in conns["stats"]
        PROVE  /\ phase[c[1]] \in Live
               /\ frame[c[1]][c[2]] \in {"set", "query"}
               /\ \A f \in Frames : frame[c[1]][f] # "acquire"
    <2>1. PICK r \in Requests, f \in Frames : c = <<r, f>>
      BY <1>1 DEF IInv, TypeOK, ConnsTypeOK, Pools
    <2>2. frame[r][f] \in Holding /\ PoolOf(r, f) = "stats"
      BY <1>1, <2>1 DEF IInv, ConnectionsAccountedFor, Pools
    <2>3. f = "nested" /\ call[r] # "members"
      BY <2>2 DEF PoolOf, Frames
    <2>4. frame[r].nested \in {"set", "query"}
      BY <1>1, <2>2, <2>3 DEF IInv, TaskDiscipline, CallFits, Holding
    <2>5. phase[r] \in Live
      BY <1>1, <2>4
      DEF IInv, TypeOK, Phases, TaskDiscipline, PhaseFits, Live, Settled, Running, Frames
    <2>6. frame[r].cursor # "acquire"
      BY <1>1, <2>4 DEF IInv, TaskDiscipline, OneAwait, Running, Suspended
    <2>. QED BY <2>1, <2>3, <2>4, <2>5, <2>6 DEF Frames
  <1>2. IInv => StatsHoldersNeverWait
    BY <1>1 DEF StatsHoldersNeverWait
  <1>. QED BY Inductive, <1>2, PTL

(* A response that ends with its footer, or with an error status, leaves   *)
(* no connection behind: only one cut in the middle does.                  *)
THEOREM CleanEnds == Spec => []OnlyCutResponsesLeaveConnections
  <1>1. ASSUME IInv, NEW r \in Requests,
               phase[r] \in {"complete", "failed"} \/ AwaitsFooter(r),
               NEW p \in Pools
        PROVE  ~Holds(r, p)
    <2>1. \A f \in Frames : frame[r][f] \notin Holding
      <3>1. CASE phase[r] \in {"complete", "failed"}
        BY <1>1, <3>1
        DEF IInv, TaskDiscipline, PhaseFits, Settled, Holding, Running
      <3>2. CASE AwaitsFooter(r)
        BY <1>1, <3>2
        DEF IInv, TaskDiscipline, OneAwait, AwaitsFooter, Holding, Running, Suspended, Frames
      <3>. QED BY <1>1, <3>1, <3>2
    <2>. QED BY <1>1, <2>1 DEF Holds, IInv, ConnectionsAccountedFor
  <1>2. IInv => OnlyCutResponsesLeaveConnections
    BY <1>1 DEF OnlyCutResponsesLeaveConnections
  <1>. QED BY Inductive, <1>2, PTL
-----------------------------------------------------------------------------
(* Who holds an extraction connection and waits for another is a members   *)
(* request in the middle of its response, and holds just its cursor's.     *)
LEMMA WaitersAreMembers ==
  ASSUME IInv, NEW r \in Requests, HoldsAndWaits(r)
  PROVE  r \in MembersInFlight /\ frame[r].nested \notin Holding
  <1>1. PICK f \in Frames : frame[r][f] = "acquire" /\ PoolOf(r, f) = "extraction"
    BY DEF HoldsAndWaits
  <1>2. PICK g \in Frames : frame[r][g] \in Holding
    BY DEF HoldsAndWaits, Holds, IInv, ConnectionsAccountedFor, Pools
  <1>3. f # g
    BY <1>1, <1>2 DEF Holding, Suspended
  <1>4. f = "nested"
    BY <1>1, <1>2, <1>3
    DEF IInv, TaskDiscipline, OneAwait, Frames, Holding, Suspended
  <1>5. kind[r] = "members"
    BY <1>1, <1>4 DEF PoolOf, IInv, TaskDiscipline, CallFits
  <1>6. frame[r].cursor \in Suspended
    BY <1>1, <1>2, <1>3, <1>4
    DEF IInv, TaskDiscipline, OneAwait, Frames, Holding, Running, Suspended
  <1>7. phase[r] = "streaming"
    BY <1>1, <1>4, <1>6
    DEF IInv, TypeOK, Phases, TaskDiscipline, PhaseFits, Settled, Running, Suspended, Frames
  <1>. QED
    BY <1>1, <1>4, <1>5, <1>7 DEF MembersInFlight, Holding, Suspended

(* The extraction pool is blocked by its own holders only when there are   *)
(* at least as many members requests in flight as it has connections.      *)
THEOREM SelfBlockTakesMembers == Spec => []SelfBlockNeedsMembers
  <1>1. ASSUME IInv, SelfBlocked
        PROVE  Cardinality(MembersInFlight) >= MaxExtraction
    <2>. DEFINE held == conns["extraction"]
                owner == [c \in held |-> c[1]]
    <2>1. held \subseteq Requests \X Frames
      BY <1>1 DEF IInv, TypeOK, ConnsTypeOK, Pools
    <2>2. ASSUME NEW c \in held
          PROVE  c[1] \in MembersInFlight /\ c = <<c[1], "cursor">>
      <3>1. PICK r \in Requests, f \in Frames : c = <<r, f>>
        BY <2>1
      <3>2. r \in MembersInFlight /\ frame[r].nested \notin Holding
        BY <1>1, <3>1, WaitersAreMembers DEF SelfBlocked
      <3>3. frame[r][f] \in Holding
        BY <1>1, <3>1 DEF IInv, ConnectionsAccountedFor, Pools
      <3>. QED BY <3>1, <3>2, <3>3 DEF Frames
    <2>3. owner \in Injection(held, MembersInFlight)
      <3>1. owner \in [held -> MembersInFlight]
        BY <2>2
      <3>2. \A c, d \in held : owner[c] = owner[d] => c = d
        BY <2>2
      <3>. QED BY <3>1, <3>2 DEF Injection, IsInjective
    <2>4. IsFiniteSet(MembersInFlight)
      BY FS_Subset, RequestsAreFinite DEF MembersInFlight
    <2>5. IsFiniteSet(held) /\ Cardinality(held) <= Cardinality(MembersInFlight)
      BY <2>3, <2>4, FS_Injection
    <2>6. Cardinality(held) >= MaxExtraction
      BY <1>1 DEF SelfBlocked, Full, Capacity, Pools
    <2>. QED
      BY <2>4, <2>5, <2>6, FS_CardinalityType, PoolSizes
  <1>2. IInv => SelfBlockNeedsMembers
    BY <1>1 DEF SelfBlockNeedsMembers
  <1>. QED BY Inductive, <1>2, PTL
-----------------------------------------------------------------------------
(* When the status is chosen.                                              *)
StatusFits(r) ==
    /\ phase[r] \in {"idle", "handling"} => status[r] = 0
    /\ phase[r] = "streaming" => status[r] = 200

Final(r) ==
    /\ status[r] # 0 => status'[r] = status[r]
    /\ phase[r] \in Settled => phase'[r] = phase[r] /\ sent'[r] = sent[r]

SameResponse(q) ==
    /\ phase'[q] = phase[q] /\ status'[q] = status[q]
    /\ sent'[q] = sent[q] /\ extent'[q] = extent[q]

(* These steps happen inside a response or before it.                      *)
Inside(r) ==
    \/ SetDone(r) \/ NextCall(r) \/ Join(r) \/ FetchMembers(r)
    \/ CloseMembers(r) \/ CloseCursor(r)
    \/ \E f \in Frames : Acquire(r, f) \/ Finalize(r, f)

Raising(r) ==
    \/ Refuse(r) \/ AcquireTimeout(r) \/ CommandTimeout(r) \/ NoRow(r)
    \/ DatabaseFails(r) \/ DeadlineFires(r) \/ Disconnect(r)

LEMMA RaisingRaises ==
  ASSUME NEW r, Raising(r)
  PROVE  /\ \E e : Raise(r, e)
         /\ phase[r] \in Live \/ \E f \in Frames : frame[r][f] \in Running
  BY DEF Raising, Refuse, AcquireTimeout, CommandTimeout, NoRow, DatabaseFails,
         DeadlineFires, Disconnect, Live, Running, Frames

LEMMA StepKeepsOtherResponses ==
  ASSUME TypeOK, NEW r \in Requests, Step(r), NEW q \in Requests, q # r
  PROVE  SameResponse(q)
  <1>1. phase'[q] = phase[q]
    BY StepTouchesOne DEF Same
  <1>2. CASE Inside(r)
    BY <1>1, <1>2 DEF Inside, SetDone, NextCall, Join, FetchMembers, CloseMembers,
       CloseCursor, Acquire, Finalize, SameResponse
  <1>3. CASE Submit(r) \/ SendBatch(r) \/ SendFooter(r)
    BY <1>1, <1>3 DEF Submit, SendBatch, SendFooter, SameResponse, TypeOK
  <1>4. CASE Answer(r) \/ FetchBatch(r)
    BY <1>1, <1>4 DEF Answer, FetchBatch, SameResponse, TypeOK
  <1>5. CASE Raising(r)
    <2>1. PICK e : Raise(r, e)
      BY <1>5, RaisingRaises
    <2>. QED BY <1>1, <2>1 DEF Raise, SameResponse, TypeOK
  <1>. QED BY <1>2, <1>3, <1>4, <1>5 DEF Step, Inside, Raising

LEMMA StepIsFinal ==
  ASSUME TypeOK, NEW r \in Requests, Disciplined(r), StatusFits(r), Step(r)
  PROVE  Final(r) /\ StatusFits(r)'
  <1>. USE DEF Final, StatusFits
  <1>1. CASE Inside(r)
    BY <1>1 DEF Inside, SetDone, NextCall, Join, FetchMembers, CloseMembers,
       CloseCursor, Acquire, Finalize
  <1>2. CASE Submit(r)
    BY <1>2 DEF Submit, TypeOK, Settled
  <1>3. CASE SendBatch(r) \/ SendFooter(r)
    BY <1>3 DEF SendBatch, Sending, SendFooter, AwaitsFooter, TypeOK, Settled
  <1>4. CASE Answer(r)
    <2>1. frame[r].nested = "query" /\ call[r] \in ServiceCalls
      BY <1>4 DEF Answer, ServiceCalls, RowCalls
    <2>2. phase[r] = "handling"
      BY <2>1 DEF Disciplined, PhaseFits, CallFits, TypeOK, Phases, Settled, Running, Frames
    <2>3. phase'[r] = "complete" /\ status'[r] = 200
      BY <1>4 DEF Answer, TypeOK
    <2>. QED BY <2>2, <2>3 DEF Settled
  <1>5. CASE FetchBatch(r)
    <2>1. phase[r] \in {"handling", "streaming"}
      BY <1>5 DEF FetchBatch, Disciplined, PhaseFits, TypeOK, Phases, Settled, Running, Frames
    <2>2. phase'[r] = "streaming" /\ status'[r] = 200
      BY <1>5 DEF FetchBatch, TypeOK
    <2>. QED BY <2>1, <2>2 DEF Settled
  <1>6. CASE Raising(r)
    <2>1. PICK e : Raise(r, e)
      BY <1>6, RaisingRaises
    <2>2. phase[r] \in Live
      BY <1>6, RaisingRaises, RaisingTasksLive
    <2>3. CASE phase[r] = "streaming"
      <3>1. phase'[r] = "truncated" /\ status'[r] = status[r]
        BY <2>1, <2>3 DEF Raise, TypeOK
      <3>. QED BY <2>3, <3>1 DEF Settled
    <2>4. CASE phase[r] = "handling"
      <3>1. phase'[r] = "failed"
        BY <2>1, <2>4 DEF Raise, TypeOK
      <3>. QED BY <2>4, <3>1 DEF Settled
    <2>. QED BY <2>2, <2>3, <2>4 DEF Live
  <1>. QED
    BY <1>1, <1>2, <1>3, <1>4, <1>5, <1>6 DEF Step, Inside, Raising

AllFit == \A r \in Requests : StatusFits(r)
AllFinal == \A r \in Requests : Final(r)

LEMMA InitAllFit == Init => AllFit
  BY DEF Init, AllFit, StatusFits

LEMMA NextAllFit == IInv /\ AllFit /\ [Next]_vars => AllFit' /\ AllFinal
  <1>1. ASSUME IInv, AllFit, NEW r \in Requests, Step(r)
        PROVE  AllFit' /\ AllFinal
    <2>1. ASSUME NEW q \in Requests
          PROVE  Final(q) /\ StatusFits(q)'
      <3>1. CASE q = r
        BY <1>1, <3>1, StepIsFinal DEF IInv, TaskDiscipline, Disciplined, AllFit
      <3>2. CASE q # r
        BY <1>1, <3>2, StepKeepsOtherResponses
        DEF IInv, SameResponse, Final, StatusFits, AllFit
      <3>. QED BY <3>1, <3>2
    <2>. QED BY <2>1 DEF AllFit, AllFinal
  <1>2. ASSUME AllFit, UNCHANGED vars
        PROVE  AllFit' /\ AllFinal
    BY <1>2 DEF vars, StatusFits, Final, AllFit, AllFinal
  <1>. QED BY <1>1, <1>2 DEF Next, Quiescent

(* A status that was sent is never changed by an error handler, and no     *)
(* chunk follows the end of a response: an exception that leaves a task    *)
(* after its response has started can only cut the body.                   *)
THEOREM FinalResponses == Spec => ResponsesAreFinal
  <1>1. IInv /\ AllFit /\ [Next]_vars => [AllFinal]_vars
    BY NextAllFit
  <1>2. Spec => [][AllFinal]_vars
    BY Inductive, InitAllFit, NextAllFit, <1>1, PTL DEF Spec
  <1>. QED BY <1>2 DEF ResponsesAreFinal, AllFinal, Final
=============================================================================
