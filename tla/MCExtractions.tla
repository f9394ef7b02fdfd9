--------------------------- MODULE MCExtractions ---------------------------
(***************************************************************************)
(* Extractions on a small map: a half turn is 4 units, `east` lies at 2,   *)
(* `west` at -3, across the antimeridian from it.                          *)
(***************************************************************************)
EXTENDS Extractions

CONSTANTS east, west, relation

MCObjects == {east, west, relation}
MCPlace == [o \in {east, west} |-> IF o = east THEN 2 ELSE -3]

MCFilters == {{east, west}, {west}}

LOCAL BoxOf(xmin, xmax) == [xmin |-> xmin, ymin |-> -1, xmax |-> xmax, ymax |-> 1]

(* Boxes with one of the objects and with both, within the map and across  *)
(* either edge of it, of more than a turn, and two that are refused.       *)
MCBoxes == {BoxOf(1, 3), BoxOf(2, 5), BoxOf(-7, -3), BoxOf(-7, 7),
            BoxOf(3, 1), BoxOf(-8, 0)}

(* A box that lies beyond the antimeridian.                                *)
FarBoxes == {BoxOf(6, 7)}
=============================================================================
