----------------------------- MODULE MCTspSort -----------------------------
(* Small inputs for TspSort: every sequence of up to MaxLines distances,   *)
(* INT_MIN and INT_MAX, scaled to -1 and 3, among them.                    *)
EXTENDS TspSort

MCIntMin == -1
MCDistances == {-1, 0, 1, 3}
=============================================================================
