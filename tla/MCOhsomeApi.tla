---------------------------- MODULE MCOhsomeApi ----------------------------
(***************************************************************************)
(* OhsomeApi on small instances.  The requests are interchangeable; a run  *)
(* of a liveness property takes no symmetry.                               *)
(***************************************************************************)
EXTENDS OhsomeApi, TLC

RequestSymmetry == Permutations(Requests)
=============================================================================
