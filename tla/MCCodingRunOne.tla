--------------------------- MODULE MCCodingRunOne ---------------------------
(* One process runs the attempts of a run; a cfg says whether it may die. *)
EXTENDS CodingRun

CONSTANTS p1

MCExecutor == {p1}
MCNobody == {}
=============================================================================
