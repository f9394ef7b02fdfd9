------------------------- MODULE BoundingBox_proofs -------------------------
(***************************************************************************)
(* That a box becomes polygons which cover what it means, at any           *)
(* resolution.                                                             *)
(***************************************************************************)
EXTENDS BoundingBox, TLAPS

(* A box without a whole turn reaches beyond one side of the map at most.  *)
LEMMA OneSide ==
    ASSUME NEW b \in Box, ~WholeTurn(b)
    PROVE  ~(b.xmin < -HalfTurn /\ b.xmax > HalfTurn)
BY Angles DEF Box, WholeTurn

(* A box that is split at the antimeridian, in the west or in the east,    *)
(* becomes two polygons.                                                   *)
LEMMA SpansOfSplit ==
    ASSUME NEW b \in Box, ~WholeTurn(b)
    PROVE  /\ b.xmin < -HalfTurn =>
                Spans(b) = {<<b.xmin + 2 * HalfTurn, HalfTurn>>, <<-HalfTurn, b.xmax>>}
           /\ b.xmax > HalfTurn =>
                Spans(b) = {<<b.xmin, HalfTurn>>, <<-HalfTurn, b.xmax - 2 * HalfTurn>>}
<1>1. HalfTurn \in Int /\ b.xmin \in Int /\ b.xmax \in Int
  BY Angles DEF Box
<1>2. ASSUME b.xmin < -HalfTurn
      PROVE  Spans(b) = {<<b.xmin + 2 * HalfTurn, HalfTurn>>, <<-HalfTurn, b.xmax>>}
  <2>1. ~(b.xmin >= -HalfTurn) /\ ~(b.xmax > HalfTurn)
    BY <1>1, <1>2, OneSide
  <2> QED BY <2>1, <1>2 DEF Spans
<1>3. ASSUME b.xmax > HalfTurn
      PROVE  Spans(b) = {<<b.xmin, HalfTurn>>, <<-HalfTurn, b.xmax - 2 * HalfTurn>>}
  <2>1. ~(b.xmax <= HalfTurn) /\ ~(b.xmin < -HalfTurn)
    BY <1>1, <1>3, OneSide
  <2> QED BY <2>1, <1>3 DEF Spans
<1> QED BY <1>2, <1>3

(* An accepted box that reaches the map selects exactly the points it      *)
(* means: the split at the antimeridian loses nothing and adds nothing.    *)
THEOREM BoxSelectsWhatItMeans ==
    ASSUME NEW b \in Box, Accepted(b), ReachesTheMap(b),
           NEW x \in Longitudes, NEW y \in Int
    PROVE  Intersects(b, x, y) <=> Contains(b, x, y)
<1> DEFINE H == HalfTurn
<1>1. /\ H \in Int /\ H > 0 /\ b.xmin \in Int /\ b.xmax \in Int
      /\ x \in Int /\ -H < x /\ x < H
  BY Angles DEF Box, Longitudes
<1>2. b.xmin < b.xmax /\ b.xmin <= H /\ b.xmax >= -H
  BY DEF Accepted, ReachesTheMap
<1>3. (\E k \in {-1, 0, 1} : b.xmin <= x + k * 2 * H /\ x + k * 2 * H <= b.xmax)
      <=> \/ b.xmin <= x - 2 * H /\ x - 2 * H <= b.xmax
          \/ b.xmin <= x /\ x <= b.xmax
          \/ b.xmin <= x + 2 * H /\ x + 2 * H <= b.xmax
  BY <1>1
<1>4. (\E s \in Spans(b) : Between(s, x))
      <=> \/ b.xmin <= x - 2 * H /\ x - 2 * H <= b.xmax
          \/ b.xmin <= x /\ x <= b.xmax
          \/ b.xmin <= x + 2 * H /\ x + 2 * H <= b.xmax
  <2>1. CASE WholeTurn(b)
    <3>1. Spans(b) = {<<-H, H>>}  BY <2>1 DEF Spans
    <3>2. Between(<<-H, H>>, x)  BY <1>1 DEF Between
    <3>3. b.xmax - b.xmin >= 2 * H  BY <2>1 DEF WholeTurn
    <3> QED BY <3>1, <3>2, <3>3, <1>1, <1>2
  <2>2. CASE ~WholeTurn(b) /\ b.xmin < -H
    <3>1. Spans(b) = {<<b.xmin + 2 * H, H>>, <<-H, b.xmax>>}
      BY <2>2, SpansOfSplit
    <3>2. b.xmax < H  BY <2>2, <1>1 DEF WholeTurn
    <3>3. Between(<<b.xmin + 2 * H, H>>, x) <=> b.xmin <= x - 2 * H
      BY <1>1, <1>2, <2>2 DEF Between, WholeTurn
    <3>4. Between(<<-H, b.xmax>>, x) <=> x <= b.xmax
      BY <1>1, <1>2 DEF Between
    <3> QED BY <3>1, <3>2, <3>3, <3>4, <1>1, <1>2, <2>2
  <2>3. CASE ~WholeTurn(b) /\ b.xmax > H
    <3>1. Spans(b) = {<<b.xmin, H>>, <<-H, b.xmax - 2 * H>>}
      BY <2>3, SpansOfSplit
    <3>2. b.xmin > -H  BY <2>3, <1>1 DEF WholeTurn
    <3>3. Between(<<b.xmin, H>>, x) <=> b.xmin <= x
      BY <1>1, <1>2 DEF Between
    <3>4. Between(<<-H, b.xmax - 2 * H>>, x) <=> x + 2 * H <= b.xmax
      BY <1>1, <1>2, <2>3 DEF Between
    <3> QED BY <3>1, <3>2, <3>3, <3>4, <1>1, <1>2, <2>3
  <2>4. CASE ~WholeTurn(b) /\ b.xmin >= -H /\ b.xmax <= H
    <3>1. Spans(b) = {<<b.xmin, b.xmax>>}  BY <2>4 DEF Spans
    <3>2. Between(<<b.xmin, b.xmax>>, x) <=> b.xmin <= x /\ x <= b.xmax
      BY <1>1, <1>2 DEF Between
    <3> QED BY <3>1, <3>2, <1>1, <1>2, <2>4
  <2> QED BY <2>1, <2>2, <2>3, <2>4, <1>1
<1> QED BY <1>3, <1>4 DEF Intersects, Contains
=============================================================================
