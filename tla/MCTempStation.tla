--------------------------- MODULE MCTempStation ---------------------------
(* TempStation needs no definitions of its own for TLC.                    *)
EXTENDS TempStation
=============================================================================
