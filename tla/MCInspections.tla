--------------------------- MODULE MCInspections ---------------------------
(***************************************************************************)
(* Instances of Inspections for TLC. Its run checks liveness, so it        *)
(* declares no symmetry.                                                   *)
(***************************************************************************)
EXTENDS Inspections, TLC

\* The status CreateLine gives a new line.
NewStatus == "Good"
=============================================================================
