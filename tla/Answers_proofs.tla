--------------------------- MODULE Answers_proofs ---------------------------
(***************************************************************************)
(* What clients are sent, for any number of requests, any pool sizes and   *)
(* any number of batches: files with a footer have all batches the cursors *)
(* gave, and OhsomeApi implements Responses.                               *)
(*                                                                         *)
(* Which batch was sent last depends on where the frames of a task stand.  *)
(* SentFits says how: the batch fetched last is either the next to be sent *)
(* (Fresh), or it was the last that was (Done); and a generator has passed *)
(* its last yield just when its cursor has no more.                        *)
(***************************************************************************)
EXTENDS OhsomeApi_proofs, SequenceTheorems

Comes(x, s, d) == IF s = <<>> THEN d = <<1, 1>> ELSE Follows(x, s[Len(s)], d)

Ordered(x, s) ==
    /\ s # <<>> => s[1] = <<1, 1>>
    /\ \A n \in 1..Len(s) - 1 : Follows(x, s[n], s[n + 1])

End(x) == <<Len(x), x[Len(x)]>>

Fresh(r) == Comes(extent[r], sent[r], batch[r])
Done(r) == sent[r] # <<>> /\ sent[r][Len(sent[r])] = batch[r]

(* The batches of members there are in the batch of the cursor.            *)
Members(r) == extent[r][batch[r][1]]

(* The nested cursor over the members of a batch, from its first batch on. *)
MembersFit(r) ==
    \/ /\ frame[r].nested \in Suspended /\ Fresh(r)
       /\ batch[r][2] \in 1..Members(r)
       /\ frame[r].nested = "last" <=> batch[r][2] = Members(r)
    \/ /\ frame[r].nested \in {"acquire", "query"} /\ batch[r][2] = 0
       /\ Comes(extent[r], sent[r], <<batch[r][1], 1>>)
    \/ /\ frame[r].nested = "query" /\ Done(r)
       /\ batch[r][2] \in 1..Members(r) - 1
    \/ frame[r].nested = "commit" /\ Done(r) /\ batch[r][2] = Members(r)

StreamFits(r) ==
    /\ extent[r] \in ExtentsOf(kind[r])
    /\ batch[r][1] \in 1..Len(extent[r])
    /\ frame[r].cursor = "query" =>
            /\ Done(r) /\ batch[r][2] = Members(r)
            /\ batch[r][1] < Len(extent[r])
    /\ frame[r].cursor \in {"commit", "ended"} => Done(r) /\ batch[r] = End(extent[r])
    /\ frame[r].cursor \in Suspended =>
            /\ frame[r].cursor = "last" <=> batch[r][1] = Len(extent[r])
            /\ call[r] # "members" => Fresh(r) /\ batch[r][2] = Members(r)
            /\ call[r] = "members" => MembersFit(r)

(* Which calls the kinds make.                                             *)
KindFits(r) ==
    phase[r] # "idle" =>
        /\ call[r] \in ServiceCalls => kind[r] \notin ExtractionKinds
        /\ kind[r] = "members" => call[r] = "members"

SentFits(r) ==
    /\ Ordered(extent[r], sent[r])
    /\ phase[r] \in {"idle", "handling"} =>
            sent[r] = <<>> /\ batch[r] = <<0, 0>> /\ extent[r] = <<>>
    /\ phase[r] = "streaming" => StreamFits(r)
    /\ phase[r] = "complete" /\ call[r] \notin ServiceCalls =>
            Done(r) /\ batch[r] = End(extent[r])
    /\ KindFits(r)
-----------------------------------------------------------------------------
LEMMA ExtentsAreSequences ==
  ASSUME NEW k, NEW x \in ExtentsOf(k)
  PROVE  /\ x \in Seq(Nat \ {0}) /\ Len(x) \in Nat \ {0}
         /\ \A i \in 1..Len(x) : x[i] \in Nat \ {0}
         /\ k # "members" => \A i \in 1..Len(x) : x[i] = 1
  <1>. DEFINE S == 1..(IF k = "members" THEN MaxMemberBatches + 1 ELSE 1)
  <1>1. PICK n \in 1..MaxBatches + 1 : x \in [1..n -> S]
    BY DEF ExtentsOf
  <1>2. n \in Nat \ {0} /\ S \subseteq Nat \ {0} /\ (k # "members" => S = {1})
    BY BatchBounds
  <1>3. x \in [1..n -> Nat \ {0}]
    BY <1>1, <1>2
  <1>4. x \in Seq(Nat \ {0})
    BY <1>2, <1>3, SeqDef
  <1>5. Len(x) = n
    BY <1>2, <1>3, <1>4, LenProperties
  <1>. QED BY <1>1, <1>2, <1>3, <1>4, <1>5

LEMMA AppendIsOrdered ==
  ASSUME NEW x, NEW s \in Seq(Nat \X Nat), NEW d \in Nat \X Nat,
         Ordered(x, s), Comes(x, s, d)
  PROVE  /\ Ordered(x, Append(s, d)) /\ Append(s, d) # <<>>
         /\ Append(s, d)[Len(Append(s, d))] = d
  <1>. DEFINE t == Append(s, d)
  <1>1. /\ t \in Seq(Nat \X Nat) /\ Len(t) = Len(s) + 1 /\ t[Len(t)] = d
        /\ \A n \in 1..Len(s) : t[n] = s[n]
    OBVIOUS
  <1>2. Len(s) \in Nat /\ (s = <<>> <=> Len(s) = 0)
    OBVIOUS
  <1>3. t[1] = <<1, 1>>
    BY <1>1, <1>2 DEF Ordered, Comes
  <1>4. ASSUME NEW n \in 1..Len(t) - 1
        PROVE  Follows(x, t[n], t[n + 1])
    <2>1. CASE n < Len(s)
      BY <1>1, <1>2, <2>1 DEF Ordered
    <2>2. CASE n = Len(s)
      <3>1. s # <<>> /\ t[n] = s[Len(s)] /\ t[n + 1] = d
        BY <1>1, <1>2, <2>2
      <3>. QED BY <3>1 DEF Comes
    <2>. QED BY <1>1, <1>2, <2>1, <2>2
  <1>. QED BY <1>1, <1>2, <1>3, <1>4 DEF Ordered

SameSent(q) ==
    batch'[q] = batch[q] /\ sent'[q] = sent[q] /\ extent'[q] = extent[q]

LEMMA StepSendsToOne ==
  ASSUME TypeOK, NEW r \in Requests, Step(r), NEW q \in Requests, q # r
  PROVE  SameSent(q)
  <1>1. CASE Raising(r)
    BY <1>1, RaisingRaises DEF Raise, SameSent
  <1>2. CASE FetchBatch(r)
    BY <1>2 DEF FetchBatch, SameSent, TypeOK
  <1>3. CASE FetchMembers(r)
    BY <1>3 DEF FetchMembers, SameSent, TypeOK
  <1>4. CASE SendBatch(r)
    BY <1>4 DEF SendBatch, SameSent, TypeOK
  <1>5. CASE \/ Submit(r) \/ SetDone(r) \/ NextCall(r) \/ Answer(r) \/ Join(r)
             \/ CloseMembers(r) \/ CloseCursor(r) \/ SendFooter(r)
             \/ \E f \in Frames : Acquire(r, f) \/ Finalize(r, f)
    BY <1>5 DEF Submit, SetDone, NextCall, Answer, Join, CloseMembers, CloseCursor,
       SendFooter, Acquire, Finalize, SameSent
  <1>. QED BY <1>1, <1>2, <1>3, <1>4, <1>5 DEF Step, Raising

LEMMA SameFits ==
  ASSUME NEW q \in Requests, SentFits(q), Same(q), SameSent(q)
  PROVE  SentFits(q)'
  BY DEF Same, SameSent, SentFits, StreamFits, MembersFit, Fresh, Done, Members, KindFits
-----------------------------------------------------------------------------
LEMMA KeepsWhatWasSent ==
  ASSUME NEW r, SameSent(r)
  PROVE  /\ Fresh(r)' <=> Fresh(r)
         /\ Done(r)' <=> Done(r)
         /\ Members(r)' = Members(r)
         /\ Ordered(extent[r], sent[r])' <=> Ordered(extent[r], sent[r])
         /\ Comes(extent[r], sent[r], <<batch[r][1], 1>>)' <=>
                Comes(extent[r], sent[r], <<batch[r][1], 1>>)
         /\ (batch[r] = End(extent[r]))' <=> batch[r] = End(extent[r])
  BY DEF SameSent, Fresh, Done, Ordered, Members

(* The steps that neither fetch nor send.                                  *)
LEMMA QuietFits ==
  ASSUME TypeOK, NEW r \in Requests, Disciplined(r), SentFits(r),
         \/ SetDone(r) \/ NextCall(r) \/ Answer(r) \/ Join(r)
         \/ CloseMembers(r) \/ CloseCursor(r) \/ SendFooter(r)
         \/ \E f \in Frames : Acquire(r, f) \/ Finalize(r, f)
  PROVE  SentFits(r)'
  <1>. USE DEF SentFits, StreamFits, MembersFit, KindFits, Frames, Running, Suspended
  <1>1. SameSent(r)
    BY DEF SetDone, NextCall, Answer, Join, CloseMembers, CloseCursor, SendFooter,
       Acquire, Finalize, SameSent
  <1>2. batch'[r] = batch[r] /\ sent'[r] = sent[r] /\ extent'[r] = extent[r]
    BY <1>1 DEF SameSent
  <1>. USE <1>2, KeepsWhatWasSent, <1>1
  <1>3. CASE SetDone(r)
    <2>1. /\ frame[r].nested = "set" /\ frame'[r].nested = "query"
          /\ frame'[r].cursor = frame[r].cursor /\ call[r] # "members"
          /\ phase'[r] = phase[r] /\ call'[r] = call[r] /\ kind'[r] = kind[r]
      BY <1>3 DEF SetDone, TypeOK, Disciplined, CallFits, RowsCalls
    <2>. QED BY <2>1
  <1>4. CASE NextCall(r)
    <2>1. /\ call[r] \in ServiceCalls /\ call'[r] \in ServiceCalls
          /\ phase'[r] = phase[r] /\ kind'[r] = kind[r]
          /\ frame[r].nested = "query"
      BY <1>4 DEF NextCall, NextCalls, ServiceCalls, RowCalls, TypeOK
    <2>2. phase[r] = "handling"
      BY <2>1 DEF Disciplined, PhaseFits, CallFits, TypeOK, Phases, Settled
    <2>. QED BY <2>1, <2>2 DEF ExtractionKinds
  <1>5. CASE Answer(r)
    <2>1. /\ call[r] \in ServiceCalls /\ call'[r] = call[r]
          /\ phase'[r] = "complete" /\ kind'[r] = kind[r]
          /\ frame[r].nested = "query"
      BY <1>5 DEF Answer, ServiceCalls, RowCalls, TypeOK
    <2>2. phase[r] # "idle"
      BY <2>1 DEF Disciplined, PhaseFits
    <2>. QED BY <2>1, <2>2
  <1>6. CASE Join(r)
    <2>1. /\ frame[r].nested = "query" /\ frame'[r].nested = "ended"
          /\ frame'[r].cursor = frame[r].cursor /\ call[r] = "join"
          /\ phase'[r] = phase[r] /\ call'[r] = call[r] /\ kind'[r] = kind[r]
      BY <1>6 DEF Join, TypeOK
    <2>. QED BY <2>1
  <1>7. CASE CloseMembers(r)
    <2>1. /\ frame[r].nested = "commit" /\ frame'[r].nested = "ended"
          /\ frame'[r].cursor \in {"query", "commit"}
          /\ phase'[r] = phase[r] /\ call'[r] = call[r] /\ kind'[r] = kind[r]
      BY <1>7 DEF CloseMembers, Resume, TypeOK
    <2>2. phase[r] = "streaming" /\ call[r] = "members" /\ frame[r].cursor \in Suspended
      BY <2>1 DEF Disciplined, OneAwait, PhaseFits, CallFits, TypeOK, Phases, Settled,
         ServiceCalls, RowCalls
    <2>3. Done(r) /\ batch[r][2] = Members(r)
      BY <2>1, <2>2
    <2>4. frame[r].cursor = "last" => frame'[r].cursor = "commit" /\ batch[r] = End(extent[r])
      BY <1>7, <2>2, <2>3 DEF CloseMembers, Resume, TypeOK, Members, End
    <2>5. frame[r].cursor = "yielded" =>
            frame'[r].cursor = "query" /\ batch[r][1] < Len(extent[r])
      <3>1. frame[r].cursor = "yielded" => batch[r][1] # Len(extent[r])
        BY <2>2
      <3>2. Len(extent[r]) \in Nat /\ batch[r][1] \in 1..Len(extent[r])
        BY <2>2, ExtentsAreSequences
      <3>. QED BY <1>7, <3>1, <3>2 DEF CloseMembers, Resume, TypeOK
    <2>. QED BY <2>1, <2>2, <2>3, <2>4, <2>5
  <1>8. CASE CloseCursor(r)
    <2>1. /\ frame[r].cursor = "commit" /\ frame'[r].cursor = "ended"
          /\ phase'[r] = phase[r] /\ call'[r] = call[r] /\ kind'[r] = kind[r]
      BY <1>8 DEF CloseCursor, TypeOK
    <2>. QED BY <2>1
  <1>9. CASE SendFooter(r)
    <2>1. /\ phase[r] = "streaming" /\ frame[r].cursor = "ended"
          /\ phase'[r] = "complete" /\ call'[r] = call[r] /\ kind'[r] = kind[r]
      BY <1>9 DEF SendFooter, AwaitsFooter, TypeOK
    <2>. QED BY <2>1
  <1>10. ASSUME NEW f \in Frames, Acquire(r, f)
         PROVE  SentFits(r)'
    <2>1. /\ phase'[r] = phase[r] /\ call'[r] = call[r] /\ kind'[r] = kind[r]
          /\ frame[r][f] = "acquire"
      BY <1>10 DEF Acquire, TypeOK
    <2>2. CASE f = "cursor"
      BY <2>1, <2>2 DEF Disciplined, PhaseFits
    <2>3. CASE f = "nested"
      <3>1. /\ frame'[r].cursor = frame[r].cursor
            /\ call[r] = "members" => frame'[r].nested = "query"
        BY <1>10, <2>3 DEF Acquire, RowsCalls, TypeOK
      <3>. QED BY <2>1, <2>3, <3>1
    <2>. QED BY <2>2, <2>3
  <1>11. ASSUME NEW f \in Frames, Finalize(r, f)
         PROVE  SentFits(r)'
    <2>1. /\ phase'[r] = phase[r] /\ call'[r] = call[r] /\ kind'[r] = kind[r]
          /\ phase[r] \in Settled
      BY <1>11 DEF Finalize, TypeOK
    <2>. QED BY <2>1 DEF Settled
  <1>. QED BY <1>3, <1>4, <1>5, <1>6, <1>7, <1>8, <1>9, <1>10, <1>11

LEMMA SubmitFits ==
  ASSUME TypeOK, NEW r \in Requests, SentFits(r), Submit(r)
  PROVE  SentFits(r)'
  <1>1. PICK k \in Offered, c \in Calls :
          /\ c \in FirstCalls(k)
          /\ kind' = [kind EXCEPT ![r] = k]
          /\ call' = [call EXCEPT ![r] = c]
    BY OfferedKinds, CallsAreTyped DEF Submit
  <1>2. /\ c \in ServiceCalls => k \notin ExtractionKinds
        /\ k = "members" => c = "members"
    BY <1>1, OfferedKinds DEF FirstCalls, AllKinds, ExtractionKinds, ServiceCalls, RowCalls
  <1>3. /\ phase[r] = "idle" /\ phase'[r] = "handling"
        /\ kind'[r] = k /\ call'[r] = c /\ SameSent(r)
    BY <1>1 DEF Submit, TypeOK, SameSent
  <1>4. batch'[r] = <<0, 0>> /\ sent'[r] = <<>> /\ extent'[r] = <<>>
    BY <1>3 DEF SentFits, SameSent
  <1>5. Ordered(extent[r], sent[r])'
    BY <1>4 DEF Ordered
  <1>. QED BY <1>2, <1>3, <1>4, <1>5 DEF SentFits, KindFits

(* The first batch decides the extent, and the others leave it.            *)
LEMMA FetchBatchFits ==
  ASSUME TypeOK, NEW r \in Requests, Disciplined(r), SentFits(r), FetchBatch(r)
  PROVE  /\ SentFits(r)'
         /\ phase[r] = "streaming" => extent'[r] = extent[r]
         /\ extent'[r] \in ExtentsOf("members")
  <1>1. PICK x \in IF batch[r][1] = 0 THEN ExtentsOf(kind[r]) ELSE {extent[r]} :
          /\ extent' = [extent EXCEPT ![r] = x]
          /\ frame' = [frame EXCEPT ![r] =
                [cursor |-> YieldOf(batch[r][1] + 1, Len(x)),
                 nested |-> IF call[r] = "none" THEN "none" ELSE "acquire"]]
    BY DEF FetchBatch
  <1>. DEFINE i == batch[r][1] + 1
  <1>2. /\ frame[r].cursor = "query" /\ frame'[r].cursor = YieldOf(i, Len(x))
        /\ call[r] = "members" => frame'[r].nested = "acquire"
        /\ extent'[r] = x
        /\ batch'[r] = <<i, IF call[r] = "members" THEN 0 ELSE 1>>
        /\ phase'[r] = "streaming" /\ sent'[r] = sent[r]
        /\ call'[r] = call[r] /\ kind'[r] = kind[r]
    BY <1>1 DEF FetchBatch, TypeOK
  <1>3. phase[r] \in Live
    BY <1>2 DEF Disciplined, PhaseFits, TypeOK, Phases, Live, Settled, Running, Frames
  <1>4. batch[r] \in Nat \X Nat /\ i \in Nat
    BY DEF TypeOK
  <1>5. /\ x \in ExtentsOf(kind[r]) /\ i \in 1..Len(x)
        /\ Comes(x, sent[r], <<i, 1>>) /\ Ordered(x, sent[r])
        /\ phase[r] = "streaming" => x = extent[r]
    <2>1. CASE phase[r] = "handling"
      <3>1. sent[r] = <<>> /\ batch[r] = <<0, 0>>
        BY <2>1 DEF SentFits
      <3>2. x \in ExtentsOf(kind[r]) /\ i = 1
        BY <1>1, <3>1
      <3>3. Len(x) \in Nat \ {0}
        BY <3>2, ExtentsAreSequences
      <3>. QED BY <2>1, <3>1, <3>2, <3>3 DEF Comes, Ordered
    <2>2. CASE phase[r] = "streaming"
      <3>1. /\ extent[r] \in ExtentsOf(kind[r]) /\ batch[r][1] \in 1..Len(extent[r])
            /\ Done(r) /\ batch[r][2] = Members(r) /\ batch[r][1] < Len(extent[r])
            /\ Ordered(extent[r], sent[r])
        BY <1>2, <2>2 DEF SentFits, StreamFits
      <3>2. Len(extent[r]) \in Nat /\ Members(r) \in Nat
        BY <3>1, ExtentsAreSequences DEF Members
      <3>3. x = extent[r]
        BY <1>1, <1>4, <3>1, <3>2
      <3>4. Comes(x, sent[r], <<i, 1>>)
        BY <1>4, <3>1, <3>2, <3>3 DEF Done, Comes, Follows, Members
      <3>. QED BY <1>4, <3>1, <3>2, <3>3, <3>4
    <2>. QED BY <1>3, <2>1, <2>2 DEF Live
  <1>6. /\ Len(x) \in Nat /\ x[i] \in Nat \ {0}
        /\ kind[r] # "members" => x[i] = 1
    BY <1>5, ExtentsAreSequences
  <1>7. /\ frame'[r].cursor \in Suspended
        /\ frame'[r].cursor = "last" <=> i = Len(x)
    BY <1>2, <1>4, <1>5, <1>6 DEF YieldOf, Suspended
  <1>8. KindFits(r)' /\ (call[r] # "members" => kind[r] # "members")
    BY <1>2, <1>3 DEF SentFits, KindFits, Live
  <1>9. ASSUME call[r] # "members"
        PROVE  Fresh(r)' /\ batch'[r][2] = Members(r)'
    <2>1. batch'[r] = <<i, 1>> /\ batch'[r][1] = i /\ batch'[r][2] = 1
      BY <1>2, <1>9
    <2>. QED BY <1>2, <1>5, <1>6, <1>8, <1>9, <2>1 DEF Fresh, Members
  <1>10. ASSUME call[r] = "members"
         PROVE  MembersFit(r)'
    <2>1. batch'[r][1] = i /\ batch'[r][2] = 0
      BY <1>2, <1>10
    <2>. QED BY <1>2, <1>5, <1>10, <2>1 DEF MembersFit
  <1>11. StreamFits(r)'
    <2>1. batch'[r][1] = i
      BY <1>2
    <2>2. frame'[r].cursor \notin {"query", "commit", "ended"}
      BY <1>7 DEF Suspended
    <2>. QED BY <1>2, <1>5, <1>7, <1>9, <1>10, <2>1, <2>2 DEF StreamFits
  <1>12. x \in ExtentsOf("members")
    BY <1>5, ExtentsOfMembers
  <1>. QED BY <1>2, <1>5, <1>8, <1>11, <1>12 DEF SentFits

LEMMA FetchMembersFits ==
  ASSUME TypeOK, NEW r \in Requests, Disciplined(r), SentFits(r), FetchMembers(r)
  PROVE  SentFits(r)'
  <1>. DEFINE j == batch[r][2] + 1
  <1>1. /\ frame[r].nested = "query" /\ frame'[r].nested = YieldOf(j, Members(r))
        /\ frame'[r].cursor = frame[r].cursor
        /\ batch'[r] = <<batch[r][1], j>> /\ extent'[r] = extent[r]
        /\ phase'[r] = phase[r] /\ sent'[r] = sent[r]
        /\ call[r] = "members" /\ call'[r] = call[r] /\ kind'[r] = kind[r]
    BY DEF FetchMembers, TypeOK, Members
  <1>2. phase[r] = "streaming" /\ frame[r].cursor \in Suspended
    BY <1>1 DEF Disciplined, OneAwait, PhaseFits, CallFits, TypeOK, Phases, Settled,
       ServiceCalls, RowCalls, Running, Frames, Suspended
  <1>3. batch[r] \in Nat \X Nat /\ batch[r] = <<batch[r][1], batch[r][2]>>
    BY DEF TypeOK
  <1>4. /\ StreamFits(r) /\ MembersFit(r) /\ Members(r) \in Nat \ {0}
    <2>1. StreamFits(r)
      BY <1>2 DEF SentFits
    <2>. QED BY <1>1, <1>2, <2>1, ExtentsAreSequences DEF StreamFits, Members
  <1>5. Fresh(r)' /\ j \in 1..Members(r)
    <2>1. CASE batch[r][2] = 0
      BY <1>1, <1>3, <1>4, <2>1 DEF MembersFit, Fresh, Suspended
    <2>2. CASE batch[r][2] # 0
      <3>1. Done(r) /\ batch[r][2] \in 1..Members(r) - 1
        BY <1>1, <1>4, <2>2 DEF MembersFit, Suspended
      <3>2. Follows(extent[r], batch[r], <<batch[r][1], j>>)
        BY <1>4, <3>1 DEF Follows, Members
      <3>. QED BY <1>1, <1>4, <3>1, <3>2 DEF Done, Fresh, Comes
    <2>. QED BY <2>1, <2>2
  <1>6. batch'[r][1] = batch[r][1] /\ batch'[r][2] = j /\ Members(r)' = Members(r)
    BY <1>1 DEF Members
  <1>7. MembersFit(r)'
    <2>1. /\ frame'[r].nested \in Suspended
          /\ frame'[r].nested = "last" <=> j = Members(r)
      BY <1>1, <1>3, <1>4, <1>5 DEF YieldOf, Suspended
    <2>. QED BY <1>5, <1>6, <2>1 DEF MembersFit
  <1>8. StreamFits(r)'
    BY <1>1, <1>2, <1>4, <1>6, <1>7 DEF StreamFits, Suspended
  <1>9. Ordered(extent[r], sent[r])' /\ KindFits(r)'
    BY <1>1 DEF SentFits, Ordered, KindFits
  <1>. QED
    BY <1>1, <1>2, <1>8, <1>9 DEF SentFits

LEMMA SendBatchFits ==
  ASSUME TypeOK, NEW r \in Requests, Disciplined(r), SentFits(r), SendBatch(r)
  PROVE  SentFits(r)' /\ Fresh(r) /\ StreamFits(r) /\ extent'[r] = extent[r]
  <1>1. /\ phase[r] = "streaming" /\ phase'[r] = "streaming"
        /\ frame[r].cursor \in Suspended /\ frame[r].nested \notin Running
        /\ batch'[r] = batch[r] /\ sent'[r] = Append(sent[r], batch[r])
        /\ extent'[r] = extent[r]
        /\ call'[r] = call[r] /\ kind'[r] = kind[r]
    BY DEF SendBatch, Sending, TypeOK
  <1>2. IF frame[r].nested \in Suspended
        THEN /\ frame'[r].nested = Resume(frame[r].nested)
             /\ frame'[r].cursor = frame[r].cursor
        ELSE /\ frame'[r].nested = frame[r].nested
             /\ frame'[r].cursor = Resume(frame[r].cursor)
    <2>1. frame[r] \in [Frames -> FrameStates] /\ r \in DOMAIN frame
      BY DEF TypeOK
    <2>2. frame'[r] = IF frame[r].nested \in Suspended
                      THEN [frame[r] EXCEPT !.nested = Resume(frame[r].nested)]
                      ELSE [frame[r] EXCEPT !.cursor = Resume(frame[r].cursor)]
      BY <2>1 DEF SendBatch
    <2>. QED BY <2>1, <2>2 DEF Frames
  <1>3. StreamFits(r)
    BY <1>1 DEF SentFits
  <1>4. /\ Fresh(r)
        /\ frame[r].nested \in Suspended => MembersFit(r)
        /\ frame[r].nested \notin Suspended => batch[r][2] = Members(r)
    <2>1. frame[r].nested \in Suspended => call[r] = "members"
      BY DEF Disciplined, CallFits
    <2>. QED BY <1>1, <1>3, <2>1 DEF StreamFits, MembersFit, Running
  <1>5. /\ sent[r] \in Seq(Nat \X Nat) /\ batch[r] \in Nat \X Nat
        /\ batch[r] = <<batch[r][1], batch[r][2]>>
        /\ Len(extent[r]) \in Nat /\ Members(r) \in Nat
    BY <1>3, ExtentsAreSequences DEF TypeOK, StreamFits, Members
  <1>6. /\ Ordered(extent[r], Append(sent[r], batch[r])) /\ Append(sent[r], batch[r]) # <<>>
        /\ Append(sent[r], batch[r])[Len(Append(sent[r], batch[r]))] = batch[r]
    BY <1>4, <1>5, AppendIsOrdered DEF Fresh, SentFits
  <1>7. Ordered(extent[r], sent[r])' /\ Done(r)' /\ Members(r)' = Members(r) /\ KindFits(r)'
    BY <1>1, <1>6 DEF Ordered, Done, Members, SentFits, KindFits
  <1>8. StreamFits(r)'
    <2>1. CASE frame[r].nested \in Suspended
      <3>1. /\ batch[r][2] \in 1..Members(r)
            /\ frame[r].nested = "last" <=> batch[r][2] = Members(r)
        BY <1>4, <2>1 DEF MembersFit, Suspended
      <3>2. MembersFit(r)'
        <4>1. CASE frame[r].nested = "last"
          BY <1>1, <1>2, <1>7, <2>1, <3>1, <4>1 DEF MembersFit, Resume
        <4>2. CASE frame[r].nested # "last"
          <5>1. frame'[r].nested = "query" /\ batch[r][2] \in 1..Members(r) - 1
            BY <1>2, <1>5, <2>1, <3>1, <4>2 DEF Resume
          <5>. QED BY <1>1, <1>7, <5>1 DEF MembersFit
        <4>. QED BY <4>1, <4>2
      <3>3. call[r] = "members"
        BY <2>1 DEF Disciplined, CallFits
      <3>. QED BY <1>1, <1>2, <1>3, <2>1, <3>2, <3>3 DEF StreamFits, Suspended
    <2>2. CASE frame[r].nested \notin Suspended
      <3>1. frame[r].cursor = "last" => frame'[r].cursor = "commit" /\ batch[r] = End(extent[r])
        BY <1>2, <1>3, <1>4, <1>5, <2>2 DEF StreamFits, Resume, End, Members, Suspended
      <3>2. frame[r].cursor # "last" =>
              frame'[r].cursor = "query" /\ batch[r][1] < Len(extent[r])
        BY <1>1, <1>2, <1>3, <1>5, <2>2 DEF StreamFits, Resume
      <3>. QED
        BY <1>1, <1>3, <1>4, <1>7, <2>2, <3>1, <3>2 DEF StreamFits, Suspended
    <2>. QED BY <2>1, <2>2
  <1>. QED
    BY <1>1, <1>3, <1>4, <1>7, <1>8 DEF SentFits

LEMMA RaisingFits ==
  ASSUME TypeOK, NEW r \in Requests, Disciplined(r), SentFits(r), Raising(r)
  PROVE  SentFits(r)'
  <1>1. PICK e : Raise(r, e)
    BY RaisingRaises
  <1>2. phase[r] \in Live
    BY RaisingRaises, RaisingTasksLive
  <1>3. /\ SameSent(r) /\ phase'[r] \in {"truncated", "failed"}
        /\ call'[r] = call[r] /\ kind'[r] = kind[r]
    BY <1>1 DEF Raise, SameSent, TypeOK
  <1>. QED BY <1>2, <1>3, KeepsWhatWasSent DEF SentFits, KindFits, Live

LEMMA StepFits ==
  ASSUME TypeOK, NEW r \in Requests, Disciplined(r), SentFits(r), Step(r)
  PROVE  SentFits(r)'
  BY SubmitFits, FetchBatchFits, FetchMembersFits, SendBatchFits, RaisingFits, QuietFits
  DEF Step, Raising
-----------------------------------------------------------------------------
AllSentFits == \A r \in Requests : SentFits(r)

LEMMA InitFits == Init => AllSentFits
  BY DEF Init, AllSentFits, SentFits, Ordered, KindFits

LEMMA StutterFits == AllSentFits /\ UNCHANGED vars => AllSentFits'
  BY DEF vars, AllSentFits, SentFits, Ordered, StreamFits, MembersFit, Fresh, Done,
     Members, KindFits

LEMMA NextFits == IInv /\ AllSentFits /\ [Next]_vars => AllSentFits'
  <1>1. ASSUME IInv, AllSentFits, NEW r \in Requests, Step(r), NEW q \in Requests
        PROVE  SentFits(q)'
    <2>1. TypeOK /\ Disciplined(r) /\ SentFits(r) /\ SentFits(q)
      BY <1>1 DEF IInv, TaskDiscipline, Disciplined, AllSentFits
    <2>2. CASE q = r
      BY <1>1, <2>1, <2>2, StepFits
    <2>3. CASE q # r
      BY <1>1, <2>1, <2>3, StepTouchesOne, StepSendsToOne, SameFits
    <2>. QED BY <2>2, <2>3
  <1>2. ASSUME IInv, AllSentFits, Next PROVE AllSentFits'
    BY <1>1, <1>2, StutterFits DEF Next, Quiescent, AllSentFits
  <1>. QED BY <1>2, StutterFits

(* A client is sent the batches in order, each once and none left out,     *)
(* from the one that was fetched before the response, and a file with a    *)
(* footer has all batches that the cursors gave: the streams of            *)
(* service/extraction, for any number of nested batches.                   *)
THEOREM WholeFiles == Spec => []FilesAreWhole
  <1>1. IInv /\ AllSentFits => FilesAreWhole
    <2>1. ASSUME AllSentFits, NEW r \in Requests
          PROVE  /\ Ordered(extent[r], sent[r])
                 /\ phase[r] = "complete" /\ kind[r] \in ExtractionKinds =>
                        Done(r) /\ batch[r] = End(extent[r])
      <3>1. SentFits(r)
        BY <2>1 DEF AllSentFits
      <3>. QED BY <3>1 DEF SentFits, KindFits
    <2>. QED BY <2>1 DEF FilesAreWhole, Ordered, Done, End
  <1>. QED BY Inductive, InitFits, NextFits, <1>1, PTL DEF Spec
-----------------------------------------------------------------------------
Seen(r) ==
    [status |-> status[r], extent |-> extent[r], chunks |-> sent[r],
     end |-> IF phase[r] = "truncated" THEN "cut"
             ELSE IF phase[r] \in Settled THEN "whole" ELSE "open"]

LEMMA OneAnswerChanges ==
  ASSUME TypeOK, NEW r \in Requests, Step(r)
  PROVE  /\ Answered[r] = Seen(r)
         /\ Answered' = [Answered EXCEPT ![r] = Seen(r)']
  <1>1. ASSUME NEW q \in Requests, q # r
        PROVE  Seen(q)' = Seen(q)
    BY <1>1, StepKeepsOtherResponses DEF SameResponse, Seen
  <1>2. Answered = [q \in Requests |-> Seen(q)]
    BY DEF Answered, Seen
  <1>3. Answered' = [q \in Requests |-> Seen(q)']
    BY DEF Answered, Seen
  <1>. QED BY <1>1, <1>2, <1>3

LEMMA SeenInPhase ==
  ASSUME NEW r
  PROVE  /\ phase[r] \in {"idle", "handling", "streaming"} =>
                Seen(r) = Promise!Answer(status[r], extent[r], sent[r], "open")
         /\ phase[r] = "truncated" =>
                Seen(r) = Promise!Answer(status[r], extent[r], sent[r], "cut")
         /\ phase[r] \in {"complete", "failed"} =>
                Seen(r) = Promise!Answer(status[r], extent[r], sent[r], "whole")
  <1>1. CASE phase[r] = "truncated"
    BY <1>1 DEF Seen, Promise!Answer
  <1>2. CASE phase[r] \in {"complete", "failed"}
    BY <1>2 DEF Seen, Promise!Answer, Settled
  <1>3. CASE phase[r] \in {"idle", "handling", "streaming"}
    BY <1>3 DEF Seen, Promise!Answer, Settled
  <1>. QED BY <1>1, <1>2, <1>3

LEMMA SeenNext ==
  ASSUME NEW r
  PROVE  /\ phase'[r] \in {"idle", "handling", "streaming"} =>
                Seen(r)' = Promise!Answer(status'[r], extent'[r], sent'[r], "open")
         /\ phase'[r] = "truncated" =>
                Seen(r)' = Promise!Answer(status'[r], extent'[r], sent'[r], "cut")
         /\ phase'[r] \in {"complete", "failed"} =>
                Seen(r)' = Promise!Answer(status'[r], extent'[r], sent'[r], "whole")
  <1>1. CASE phase'[r] = "truncated"
    BY <1>1 DEF Seen, Promise!Answer
  <1>2. CASE phase'[r] \in {"complete", "failed"}
    BY <1>2 DEF Seen, Promise!Answer, Settled
  <1>3. CASE phase'[r] \in {"idle", "handling", "streaming"}
    BY <1>3 DEF Seen, Promise!Answer, Settled
  <1>. QED BY <1>1, <1>2, <1>3

LEMMA PendingBefore ==
  ASSUME NEW r \in Requests, SentFits(r), StatusFits(r), phase[r] = "handling"
  PROVE  Seen(r) = Promise!Pending
  BY SeenInPhase DEF SentFits, StatusFits, Promise!Pending

(* A batch that is next to be sent is the one Responses says comes next.   *)
LEMMA FreshComesNext ==
  ASSUME NEW x \in Seq(Nat \ {0}), x # <<>>, NEW s, NEW d, Comes(x, s, d)
  PROVE  d = Promise!After(x, s) /\ ~Promise!All(x, s)
  <1>1. CASE s = <<>>
    BY <1>1 DEF Comes, Promise!After, Promise!All
  <1>2. CASE s # <<>>
    <2>. DEFINE c == s[Len(s)]
    <2>1. Follows(x, c, d) /\ Len(x) \in Nat \ {0} /\ x[Len(x)] \in Nat
      BY <1>2 DEF Comes
    <2>2. d = Promise!After(x, s)
      BY <1>2, <2>1 DEF Follows, Promise!After
    <2>3. c # <<Len(x), x[Len(x)]>>
      BY <2>1 DEF Follows
    <2>. QED BY <2>2, <2>3 DEF Promise!All
  <1>. QED BY <1>1, <1>2

(* Every step of a request is a step of its answer, or leaves it alone.    *)
LEMMA StepAnswers ==
  ASSUME TypeOK, NEW r \in Requests, Disciplined(r), SentFits(r), StatusFits(r), Step(r)
  PROVE  Promise!Next \/ UNCHANGED Answered
  <1>. DEFINE Replies == Promise!Reply(r) \/ Promise!Start(r) \/ Promise!Send(r)
                         \/ Promise!Finish(r) \/ Promise!Cut(r)
  <1>1. /\ Answered[r] = Seen(r)
        /\ Answered' = [Answered EXCEPT ![r] = Seen(r)']
    BY OneAnswerChanges
  <1>2. Answered \in [Requests -> {Answered[q] : q \in Requests}]
    BY DEF Answered
  <1>3. Seen(r)' = Seen(r) => UNCHANGED Answered
    BY <1>1, <1>2
  <1>4. CASE Inside(r) \/ Submit(r)
    <2>1. CASE Inside(r)
      <3>1. Seen(r)' = Seen(r)
        BY <2>1 DEF Inside, SetDone, NextCall, Join, FetchMembers, CloseMembers,
           CloseCursor, Acquire, Finalize, Seen
      <3>. QED BY <1>3, <3>1
    <2>2. CASE Submit(r)
      <3>1. /\ phase[r] = "idle" /\ phase'[r] = "handling"
            /\ status'[r] = status[r] /\ sent'[r] = sent[r] /\ extent'[r] = extent[r]
        BY <2>2 DEF Submit, TypeOK
      <3>. QED BY <1>3, <3>1, SeenInPhase, SeenNext
    <2>. QED BY <1>4, <2>1, <2>2
  <1>5. CASE Answer(r)
    <2>1. frame[r].nested = "query" /\ call[r] \in ServiceCalls
      BY <1>5 DEF Answer, ServiceCalls, RowCalls
    <2>2. phase[r] = "handling"
      BY <2>1 DEF Disciplined, PhaseFits, CallFits, TypeOK, Phases, Settled, Running, Frames
    <2>3. /\ phase'[r] = "complete" /\ status'[r] = 200
          /\ sent'[r] = sent[r] /\ extent'[r] = extent[r]
      BY <1>5 DEF Answer, TypeOK
    <2>4. Seen(r)' = Promise!Answer(200, <<>>, <<>>, "whole")
      BY <2>2, <2>3, SeenNext DEF SentFits
    <2>. QED
      BY <1>1, <2>2, <2>4, PendingBefore DEF Promise!Reply, Promise!Next
  <1>6. CASE FetchBatch(r)
    <2>1. phase[r] \in {"handling", "streaming"}
      BY <1>6 DEF FetchBatch, Disciplined, PhaseFits, TypeOK, Phases, Settled, Running, Frames
    <2>2. /\ phase'[r] = "streaming" /\ status'[r] = 200 /\ sent'[r] = sent[r]
      BY <1>6 DEF FetchBatch, TypeOK
    <2>3. CASE phase[r] = "handling"
      <3>1. /\ Seen(r)' = Promise!Answer(200, extent'[r], <<>>, "open")
            /\ extent'[r] \in ExtentsOf("members")
        BY <1>6, <2>2, <2>3, SeenNext, FetchBatchFits DEF SentFits
      <3>. QED
        BY <1>1, <2>3, <3>1, PendingBefore DEF Promise!Start, Promise!Next
    <2>4. CASE phase[r] = "streaming"
      <3>1. extent'[r] = extent[r]
        BY <1>6, <2>4, FetchBatchFits
      <3>. QED BY <1>3, <2>2, <2>4, <3>1, SeenInPhase, SeenNext DEF StatusFits
    <2>. QED BY <2>1, <2>3, <2>4
  <1>7. CASE SendBatch(r)
    <2>1. /\ phase[r] = "streaming" /\ phase'[r] = "streaming" /\ status'[r] = status[r]
          /\ sent'[r] = Append(sent[r], batch[r])
      BY <1>7 DEF SendBatch, Sending, TypeOK
    <2>2. Fresh(r) /\ StreamFits(r) /\ extent'[r] = extent[r]
      BY <1>7, SendBatchFits
    <2>3. /\ batch[r] = Promise!After(extent[r], sent[r])
          /\ ~Promise!All(extent[r], sent[r])
      <3>1. extent[r] \in Seq(Nat \ {0}) /\ extent[r] # <<>>
        BY <2>2, ExtentsAreSequences DEF StreamFits
      <3>. QED BY <2>2, <3>1, FreshComesNext DEF Fresh
    <2>4. /\ Seen(r).chunks = sent[r] /\ Seen(r).extent = extent[r]
          /\ Promise!Streams(r)
          /\ Seen(r)' = [Seen(r) EXCEPT !.chunks = Append(@, batch[r])]
      BY <1>1, <2>1, <2>2, SeenInPhase, SeenNext DEF Promise!Answer, Promise!Streams, StatusFits
    <2>. QED
      BY <1>1, <2>3, <2>4 DEF Promise!Send, Promise!Next
  <1>8. CASE SendFooter(r)
    <2>1. /\ phase[r] = "streaming" /\ phase'[r] = "complete" /\ status'[r] = status[r]
          /\ sent'[r] = sent[r] /\ extent'[r] = extent[r] /\ frame[r].cursor = "ended"
      BY <1>8 DEF SendFooter, AwaitsFooter, TypeOK
    <2>2. Promise!All(extent[r], sent[r])
      BY <2>1 DEF SentFits, StreamFits, Done, End, Promise!All
    <2>3. /\ Seen(r).chunks = sent[r] /\ Seen(r).extent = extent[r]
          /\ Promise!Streams(r)
          /\ Seen(r)' = [Seen(r) EXCEPT !.end = "whole"]
      BY <1>1, <2>1, SeenInPhase, SeenNext DEF Promise!Answer, Promise!Streams, StatusFits
    <2>. QED
      BY <1>1, <2>2, <2>3 DEF Promise!Finish, Promise!Next
  <1>9. CASE Raising(r)
    <2>1. PICK e : Raise(r, e)
      BY <1>9, RaisingRaises
    <2>2. phase[r] \in Live
      BY <1>9, RaisingRaises, RaisingTasksLive
    <2>3. CASE phase[r] = "streaming"
      <3>1. /\ phase'[r] = "truncated" /\ status'[r] = status[r]
            /\ sent'[r] = sent[r] /\ extent'[r] = extent[r]
        BY <2>1, <2>3 DEF Raise, TypeOK
      <3>2. Seen(r)' = [Seen(r) EXCEPT !.end = "cut"]
        BY <2>3, <3>1, SeenInPhase, SeenNext DEF Promise!Answer
      <3>3. Promise!Streams(r)
        BY <1>1, <2>3, SeenInPhase DEF Promise!Streams, Promise!Answer, StatusFits
      <3>. QED BY <1>1, <3>2, <3>3 DEF Promise!Cut, Promise!Next
    <2>4. CASE phase[r] = "handling"
      <3>1. /\ phase'[r] = "failed" /\ status'[r] = StatusOf(e)
            /\ sent'[r] = sent[r] /\ extent'[r] = extent[r]
        BY <2>1, <2>4 DEF Raise, TypeOK
      <3>2. Seen(r)' = Promise!Answer(StatusOf(e), <<>>, <<>>, "whole")
        BY <2>4, <3>1, SeenNext DEF SentFits
      <3>3. StatusOf(e) \in Promise!ErrorStatus
        BY StatusIsKnown DEF Promise!ErrorStatus
      <3>. QED
        BY <1>1, <2>4, <3>2, <3>3, PendingBefore DEF Promise!Reply, Promise!Next
    <2>. QED BY <2>2, <2>3, <2>4 DEF Live
  <1>. QED
    BY <1>4, <1>5, <1>6, <1>7, <1>8, <1>9 DEF Step, Inside, Raising

(* What a client sees is an answer as Responses promises it: whatever      *)
(* fails, one status, the batches in order, a footer only after the last   *)
(* batch of the last cursor, and an error only in place of all of them.    *)
THEOREM Implements == Spec => ImplementsResponses
  <1>1. Init => Promise!Init
    BY DEF Init, Promise!Init, Promise!Pending, Promise!Answer, Answered, Settled
  <1>2. IInv /\ AllSentFits /\ AllFit /\ [Next]_vars => [Promise!Next]_Answered
    <2>1. ASSUME IInv, AllSentFits, AllFit, NEW r \in Requests, Step(r)
          PROVE  Promise!Next \/ UNCHANGED Answered
      BY <2>1, StepAnswers DEF IInv, TaskDiscipline, Disciplined, AllSentFits, AllFit
    <2>2. UNCHANGED vars => UNCHANGED Answered
      BY DEF vars, Answered
    <2>. QED BY <2>1, <2>2 DEF Next, Quiescent
  <1>3. Spec => Promise!Spec
    BY Inductive, InitFits, NextFits, InitAllFit, NextAllFit, <1>1, <1>2, PTL
    DEF Spec, Promise!Spec
  <1>. QED BY <1>3 DEF ImplementsResponses
=============================================================================
