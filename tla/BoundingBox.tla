---------------------------- MODULE BoundingBox ----------------------------
(***************************************************************************)
(* AoiRequestModel.bbox of request_models/aoi.py: which boxes are accepted *)
(* as an area of interest, and which polygons they become.  A box may      *)
(* cross the antimeridian, on either side; data lies within one turn.      *)
(*                                                                         *)
(* Coordinates are integers of a unit of one's choice: a half turn of 180  *)
(* is whole degrees, one of 1800000000 is the resolution of OSM.           *)
(***************************************************************************)
EXTENDS Integers

CONSTANTS
    HalfTurn,     \* 180 degrees
    Pole          \* 90 degrees

ASSUME Angles == HalfTurn \in Nat \ {0} /\ Pole \in Nat \ {0}

Box == [xmin: Int, ymin: Int, xmax: Int, ymax: Int]

(* The longitudes that data can have and that are not on the antimeridian, *)
(* which is both edges of the map.                                         *)
Longitudes == -HalfTurn + 1..HalfTurn - 1

Accepted(b) ==
    /\ b.xmin < b.xmax /\ b.ymin < b.ymax
    /\ b.ymin >= -Pole /\ b.ymax <= Pole
    /\ b.xmin > -2 * HalfTurn /\ b.xmax < 2 * HalfTurn

WholeTurn(b) == b.xmax - b.xmin >= 2 * HalfTurn

(* The west and the east edge of each polygon.                             *)
Spans(b) ==
    IF WholeTurn(b) THEN {<<-HalfTurn, HalfTurn>>}
    ELSE IF b.xmin >= -HalfTurn /\ b.xmax <= HalfTurn THEN {<<b.xmin, b.xmax>>}
    ELSE UNION {
        IF b.xmin < -HalfTurn
        THEN {<<b.xmin + 2 * HalfTurn, HalfTurn>>, <<-HalfTurn, b.xmax>>} ELSE {},
        IF b.xmax > HalfTurn
        THEN {<<b.xmin, HalfTurn>>, <<-HalfTurn, b.xmax - 2 * HalfTurn>>} ELSE {}}

(* Polygon.from_bounds draws the same ring whichever edge is the greater.  *)
Between(s, x) == (s[1] <= x /\ x <= s[2]) \/ (s[2] <= x /\ x <= s[1])

(* ST_Intersects of the area of interest and a point.                      *)
Intersects(b, x, y) ==
    b.ymin <= y /\ y <= b.ymax /\ \E s \in Spans(b) : Between(s, x)

-----------------------------------------------------------------------------
(* The points a box means: those it reaches going round by whole turns.    *)
Contains(b, x, y) ==
    /\ b.ymin <= y /\ y <= b.ymax
    /\ \E k \in {-1, 0, 1} :
          b.xmin <= x + k * 2 * HalfTurn /\ x + k * 2 * HalfTurn <= b.xmax

(* Some of the box is on the map as it is, before any turn.                *)
ReachesTheMap(b) == b.xmin <= HalfTurn /\ b.xmax >= -HalfTurn
=============================================================================
