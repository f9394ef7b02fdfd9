------------------------------ MODULE Versions ------------------------------
(***************************************************************************)
(* The table `contributions` of the ohsomeDB, as far as the queries of the *)
(* API depend on it: each contribution to an OSM object is the version of  *)
(* it that is valid from its edit until the next one.  An update process   *)
(* outside this repository adds edits while requests are served, each in   *)
(* one transaction with contributions_state.last_timestamp.                *)
(***************************************************************************)
EXTENDS Integers, FiniteSets

CONSTANTS
    Objects,    \* the OSM objects that lie in the area of interest
    NumTags,    \* how many values the tag has that results are grouped by
    Horizon     \* bound: the last point in time, 0 is the earliest

ASSUME ObjectsAreFinite == IsFiniteSet(Objects)
ASSUME VersionBounds == NumTags \in Nat /\ Horizon \in Nat

VARIABLES
    versions,   \* the rows of contributions
    last        \* contributions_state.last_timestamp

Forever == Horizon + 1                  \* valid_to of what has no later edit

(* The tag's values in the order of SQL, where NULL comes last.            *)
NoTag == NumTags + 1
Tags  == 1..NoTag

Version == [object: Objects, from: 1..Horizon, to: 1..Forever, tag: Tags,
            deleted: BOOLEAN]

Status(v) ==
    IF v.deleted THEN "deleted" ELSE IF v.to = Forever THEN "latest" ELSE "history"

VersionsTypeOK == versions \subseteq Version /\ last \in 0..Horizon

VersionsInit == versions = {} /\ last = 0

(* An edit at time t ends the version of o that was the latest.            *)
Ingest(o, t, tag, deleted) ==
    LET ended == {v \in versions : v.object = o /\ v.to = Forever}
    IN  /\ t \in last + 1..Horizon
        /\ deleted => \E v \in ended : ~v.deleted
        /\ versions' = (versions \ ended)
                \cup {[v EXCEPT !.to = t] : v \in ended}
                \cup {[object |-> o, from |-> t, to |-> Forever, tag |-> tag,
                       deleted |-> deleted]}
        /\ last' = t
=============================================================================
