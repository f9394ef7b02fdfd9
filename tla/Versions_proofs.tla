-------------------------- MODULE Versions_proofs --------------------------
(***************************************************************************)
(* How edits change the table of versions: its versions of an object       *)
(* follow one another (Chained), and what was known at an earlier time     *)
(* stays as it was (KnownAt).  Statistics and Extractions rest on both.    *)
(***************************************************************************)
EXTENDS Versions, FiniteSetTheorems, FunctionTheorems, TLAPS

(* The versions of an object are intervals without gap or overlap.         *)
Chained(db) ==
    /\ db \subseteq Version /\ IsFiniteSet(db)
    /\ \A v \in db : v.from < v.to
    /\ \A v, w \in db :
          v.object = w.object => v = w \/ v.to <= w.from \/ w.to <= v.from
    /\ \A v \in db :
          v.to # Forever => \E w \in db : w.object = v.object /\ w.from = v.to

HistoryFits ==
    /\ VersionsTypeOK /\ Chained(versions)
    /\ \A v \in versions : v.from <= last /\ (v.to = Forever \/ v.to <= last)

(* What was known at time T, when nobody knew what would end later.        *)
SeenAt(v, T) == IF v.to > T THEN [v EXCEPT !.to = Forever] ELSE v

KnownAt(db, T) == {SeenAt(v, T) : v \in {v \in db : v.from <= T}}

Edited(v, o, t) ==
    IF v.object = o /\ v.to = Forever THEN [v EXCEPT !.to = t] ELSE v

Edit(o, t, tag, deleted) ==
    [object |-> o, from |-> t, to |-> Forever, tag |-> tag, deleted |-> deleted]
-----------------------------------------------------------------------------
(* Of a set of subsets of a finite set, one contains no other: this is     *)
(* what stands for the induction over finite sets in the proofs.           *)
LEMMA SmallestSubset ==
  ASSUME NEW S, IsFiniteSet(S), NEW T, T \subseteq SUBSET S, T # {}
  PROVE  \E x \in T : \A y \in T : ~(y \subseteq x /\ y # x)
  <1>1. IsWellFoundedOn(StrictSubsetOrdering(S), SUBSET S)
    BY FS_StrictSubsetOrderingWellFounded, FS_FiniteSubsetsOfFinite
  <1>2. PICK x \in T : \A y \in T : <<y, x>> \notin StrictSubsetOrdering(S)
    BY <1>1, WFMin
  <1>. QED BY <1>2 DEF StrictSubsetOrdering

LEMMA VersionFields ==
  ASSUME NEW v \in Version
  PROVE  /\ v.object \in Objects /\ v.tag \in Tags /\ v.deleted \in BOOLEAN
         /\ v.from \in Nat /\ v.to \in Nat /\ v.from <= Horizon /\ v.to <= Forever
         /\ v.from > 0 /\ v.to > 0
         /\ Horizon \in Nat /\ Forever = Horizon + 1
  BY VersionBounds DEF Version, Forever

(* An edit changes `to` of the version that it ends, and nothing else.     *)
LEMMA EditedFields ==
  ASSUME NEW v \in Version, NEW o, NEW t \in 1..Horizon
  PROVE  /\ Edited(v, o, t) \in Version
         /\ Edited(v, o, t).object = v.object /\ Edited(v, o, t).from = v.from
         /\ Edited(v, o, t).tag = v.tag /\ Edited(v, o, t).deleted = v.deleted
         /\ Edited(v, o, t).to =
                IF v.object = o /\ v.to = Forever THEN t ELSE v.to
  BY VersionBounds DEF Edited, Version, Forever

LEMMA SeenFields ==
  ASSUME NEW v \in Version, NEW T
  PROVE  /\ SeenAt(v, T) \in Version
         /\ SeenAt(v, T).object = v.object /\ SeenAt(v, T).from = v.from
         /\ SeenAt(v, T).tag = v.tag /\ SeenAt(v, T).deleted = v.deleted
         /\ SeenAt(v, T).to = IF v.to > T THEN Forever ELSE v.to
  BY VersionBounds DEF SeenAt, Version, Forever

LEMMA SameVersion ==
  ASSUME NEW v \in Version, NEW w \in Version,
         v.object = w.object, v.from = w.from, v.to = w.to, v.tag = w.tag,
         v.deleted = w.deleted
  PROVE  v = w
  BY DEF Version

LEMMA IngestChanges ==
  ASSUME NEW o, NEW t, NEW tag, NEW deleted, Ingest(o, t, tag, deleted)
  PROVE  /\ versions' = {Edited(v, o, t) : v \in versions}
                            \cup {Edit(o, t, tag, deleted)}
         /\ last' = t /\ t \in last + 1..Horizon
  BY DEF Ingest, Edited, Edit

(* An object has one version from any time on, and one that is the last.   *)
LEMMA ChainedKeys ==
  ASSUME NEW db, Chained(db), NEW v \in db, NEW w \in db, v.object = w.object
  PROVE  /\ v.from = w.from => v = w
         /\ v.to = w.to => v = w
  <1>1. v \in Version /\ w \in Version
    BY DEF Chained
  <1>2. v.from < v.to /\ w.from < w.to
    BY DEF Chained
  <1>3. v = w \/ v.to <= w.from \/ w.to <= v.from
    BY DEF Chained
  <1>. QED BY <1>1, <1>2, <1>3, VersionFields
(* Of the versions of an object that are known at time t, the newest is    *)
(* the one that is valid then.                                             *)
LEMMA NewestIsValid ==
  ASSUME NEW db, Chained(db), NEW t \in Nat, t <= Horizon, NEW v \in db, v.from <= t
  PROVE  t < v.to <=> \A w \in db : w.object = v.object /\ w.from <= t => w.from <= v.from
  <1>1. /\ v.from \in Nat /\ v.to \in Nat /\ v.from < v.to /\ Horizon \in Nat
        /\ Forever = Horizon + 1
    BY VersionFields DEF Chained
  <1>2. ASSUME t < v.to, NEW w \in db, w.object = v.object, w.from <= t
        PROVE  w.from <= v.from
    <2>1. w.from \in Nat /\ w.to \in Nat /\ w.from < w.to
      BY VersionFields DEF Chained
    <2>2. w = v \/ w.to <= v.from \/ v.to <= w.from
      BY <1>2 DEF Chained
    <2>. QED BY <1>1, <1>2, <2>1, <2>2
  <1>3. ASSUME ~(t < v.to)
        PROVE  \E w \in db : w.object = v.object /\ w.from <= t /\ ~(w.from <= v.from)
    <2>1. PICK w \in db : w.object = v.object /\ w.from = v.to
      BY <1>1, <1>3 DEF Chained
    <2>. QED BY <1>1, <1>3, <2>1
  <1>. QED BY <1>2, <1>3

-----------------------------------------------------------------------------
(* Every edit leaves the versions chained and known up to its time.        *)
LEMMA IngestFits ==
  ASSUME HistoryFits, NEW o \in Objects, NEW t, NEW tag \in Tags,
         NEW deleted \in BOOLEAN, Ingest(o, t, tag, deleted)
  PROVE  HistoryFits'
  <1>. DEFINE e(v) == Edited(v, o, t)
              new == Edit(o, t, tag, deleted)
  <1>1. /\ versions' = {e(v) : v \in versions} \cup {new}
        /\ last' = t /\ t \in last + 1..Horizon
    BY IngestChanges
  <1>2. /\ versions \subseteq Version /\ last \in 0..Horizon /\ Horizon \in Nat
        /\ t \in 1..Horizon /\ last < t
    BY <1>1, VersionBounds DEF HistoryFits, VersionsTypeOK
  <1>3. /\ new \in Version /\ new.object = o /\ new.from = t /\ new.to = Forever
    BY <1>2 DEF Edit, Version, Forever
  <1>4. ASSUME NEW v \in versions
        PROVE  /\ e(v) \in Version /\ e(v).object = v.object /\ e(v).from = v.from
               /\ e(v).to = IF v.object = o /\ v.to = Forever THEN t ELSE v.to
               /\ v.from \in Nat /\ v.to \in Nat /\ v.from < v.to /\ v.to <= Forever
               /\ v.from <= last /\ (v.to = Forever \/ v.to <= last)
               /\ v.from <= Horizon /\ v \in Version
    BY <1>2, EditedFields, VersionFields DEF HistoryFits, Chained
  <1>5. \A x \in versions' : x = new \/ \E v \in versions : x = e(v)
    BY <1>1
  <1>6. Forever = Horizon + 1 /\ Forever \in Nat
    BY <1>2 DEF Forever
  <1>. HIDE DEF e, new
  <1>7. versions' \subseteq Version
    BY <1>3, <1>4, <1>5
  <1>8. IsFiniteSet(versions')
    <2>. DEFINE f == [v \in versions |-> e(v)]
    <2>1. IsFiniteSet(versions)
      BY DEF HistoryFits, Chained
    <2>2. f \in Surjection(versions, {e(v) : v \in versions})
      BY Fun_IsSurj
    <2>3. IsFiniteSet({e(v) : v \in versions})
      BY <2>1, <2>2, FS_Surjection
    <2>. QED BY <1>1, <2>3, FS_AddElement
  <1>9. \A x \in versions' : x.from < x.to
    BY <1>2, <1>3, <1>4, <1>5, <1>6
  <1>10. ASSUME NEW x \in versions', NEW y \in versions', x.object = y.object
         PROVE  x = y \/ x.to <= y.from \/ y.to <= x.from
    <2>1. ASSUME NEW v \in versions, v.object = o
          PROVE  e(v).to <= new.from
      BY <1>2, <1>3, <1>4, <2>1
    <2>2. ASSUME NEW v \in versions, NEW w \in versions, v.object = w.object
          PROVE  e(v) = e(w) \/ e(v).to <= e(w).from \/ e(w).to <= e(v).from
      <3>1. v = w \/ v.to <= w.from \/ w.to <= v.from
        BY <2>2 DEF HistoryFits, Chained
      <3>. QED BY <1>2, <1>4, <1>6, <2>2, <3>1
    <2>3. CASE x = new /\ y = new
      BY <2>3
    <2>4. CASE x = new /\ \E w \in versions : y = e(w)
      BY <1>3, <1>4, <1>10, <2>1, <2>4
    <2>5. CASE y = new /\ \E v \in versions : x = e(v)
      BY <1>3, <1>4, <1>10, <2>1, <2>5
    <2>6. CASE (\E v \in versions : x = e(v)) /\ (\E w \in versions : y = e(w))
      BY <1>4, <1>10, <2>2, <2>6
    <2>. QED BY <1>5, <2>3, <2>4, <2>5, <2>6
  <1>11. ASSUME NEW x \in versions', x.to # Forever
         PROVE  \E y \in versions' : y.object = x.object /\ y.from = x.to
    <2>1. PICK v \in versions : x = e(v)
      BY <1>3, <1>5, <1>11
    <2>2. CASE v.object = o /\ v.to = Forever
      <3>1. new \in versions'
        BY <1>1
      <3>. QED BY <1>3, <1>4, <2>1, <2>2, <3>1
    <2>3. CASE ~(v.object = o /\ v.to = Forever)
      <3>1. x.to = v.to /\ x.object = v.object
        BY <1>4, <2>1, <2>3
      <3>2. PICK w \in versions : w.object = v.object /\ w.from = v.to
        BY <1>11, <3>1 DEF HistoryFits, Chained
      <3>3. e(w) \in versions' /\ e(w).object = w.object /\ e(w).from = w.from
        BY <1>1, <1>4
      <3>. QED BY <3>1, <3>2, <3>3
    <2>. QED BY <2>2, <2>3
  <1>12. \A x \in versions' : x.from <= last' /\ (x.to = Forever \/ x.to <= last')
    BY <1>1, <1>2, <1>3, <1>4, <1>5
  <1>. QED
    BY <1>1, <1>2, <1>7, <1>8, <1>9, <1>10, <1>11, <1>12
    DEF HistoryFits, VersionsTypeOK, Chained, Forever
-----------------------------------------------------------------------------
(* At the time of the last edit everything is known as it is.              *)
LEMMA KnownNow ==
  ASSUME HistoryFits
  PROVE  KnownAt(versions, last) = versions
  <1>1. ASSUME NEW v \in versions
        PROVE  v.from <= last /\ SeenAt(v, last) = v
    <2>1. v \in Version /\ v.from <= last /\ (v.to = Forever \/ v.to <= last)
      BY DEF HistoryFits, VersionsTypeOK
    <2>2. last \in Nat
      BY DEF HistoryFits, VersionsTypeOK
    <2>3. SeenAt(v, last) \in Version /\ SeenAt(v, last).to = v.to
      BY <2>1, <2>2, SeenFields, VersionFields
    <2>. QED BY <2>1, <2>3, SeenFields, SameVersion
  <1>. QED BY <1>1 DEF KnownAt

(* No edit changes what was known before it.                               *)
LEMMA IngestKeepsThePast ==
  ASSUME HistoryFits, NEW o, NEW t, NEW tag, NEW deleted,
         Ingest(o, t, tag, deleted), NEW T \in Nat, T <= last
  PROVE  KnownAt(versions', T) = KnownAt(versions, T)
  <1>. DEFINE e(v) == Edited(v, o, t)
              new == Edit(o, t, tag, deleted)
  <1>1. /\ versions' = {e(v) : v \in versions} \cup {new}
        /\ t \in last + 1..Horizon
    BY IngestChanges
  <1>2. /\ versions \subseteq Version /\ last \in Nat /\ t \in Nat /\ t > T
        /\ t \in 1..Horizon /\ Horizon \in Nat /\ new.from = t
    BY <1>1, VersionBounds DEF HistoryFits, VersionsTypeOK, Edit
  <1>3. ASSUME NEW v \in versions
        PROVE  e(v).from = v.from /\ SeenAt(e(v), T) = SeenAt(v, T)
    <2>1. /\ v \in Version /\ e(v) \in Version /\ v.to \in Nat
          /\ e(v).object = v.object /\ e(v).from = v.from /\ e(v).tag = v.tag
          /\ e(v).deleted = v.deleted
          /\ e(v).to = IF v.object = o /\ v.to = Forever THEN t ELSE v.to
          /\ Forever = Horizon + 1
      BY <1>2, EditedFields, VersionFields
    <2>2. SeenAt(e(v), T).to = SeenAt(v, T).to
      BY <1>2, <2>1, SeenFields
    <2>. QED BY <2>1, <2>2, SeenFields, SameVersion
  <1>. HIDE DEF e, new
  <1>4. {x \in versions' : x.from <= T} = {e(v) : v \in {v \in versions : v.from <= T}}
    BY <1>1, <1>2, <1>3
  <1>. QED BY <1>3, <1>4 DEF KnownAt
=============================================================================
