--------------------------- MODULE MCCodingQueueTwo ---------------------------
(* Two runs for one slot; both may die, be refused and wait too long.*)
EXTENDS CodingQueue

MCRun == 1..2
=============================================================================
