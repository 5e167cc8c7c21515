------------------------------ MODULE TourSpec ------------------------------
(* What tsp_t and tsp_p promise: they print tours of the matrix, none of   *)
(* them twice, and end only when no tour is left.  In which order, and how *)
(* many at a time, is theirs to choose.                                    *)
EXTENDS Tours

VARIABLES graph, printed, over

specVars == <<graph, printed, over>>

SpecInit == graph \in Graphs /\ printed = <<>> /\ over = FALSE

Report ==
  /\ ~over
  /\ Len(printed) < Len(printed')
  /\ SubSeq(printed', 1, Len(printed)) = printed
  /\ Distinct(printed')
  /\ Elements(printed') \subseteq TourLines(graph)
  /\ UNCHANGED <<graph, over>>

End ==
  /\ ~over /\ over' = TRUE
  /\ Elements(printed) = TourLines(graph)
  /\ UNCHANGED <<graph, printed>>

SpecNext == Report \/ End

AllToursSpec == SpecInit /\ [][SpecNext]_specVars
=============================================================================
