--------------------------- MODULE MCMatrixInput ---------------------------
(* Inputs of up to three lines of up to three numbers.                     *)
EXTENDS MatrixInput

MCNumbers == {-1, 2}
=============================================================================
