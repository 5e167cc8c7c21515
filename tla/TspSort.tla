------------------------------ MODULE TspSort ------------------------------
(***************************************************************************)
(* a2/tspsort.c: sort the lines of the solvers by the distance that ends   *)
(* them.  A selection sort that stores the index of the smallest line not  *)
(* taken yet in printed[count]; printed is also the list of what is taken, *)
(* but alreadyprinted looks at it from index 1 on, so the first round is   *)
(* done twice and the lines come out from index 1 on.  Lines are abstract: *)
(* a line is its index in the input.                                       *)
(***************************************************************************)
EXTENDS Integers, Sequences

CONSTANTS
  IntMin,     \* INT_MIN
  IntMax,     \* INT_MAX, what min is set to before every round
  Distances,  \* what atoi, or an uninitialised entry, can hold
  MaxLines    \* bound on the input (line and distance have 500 entries)

ASSUME BoundsAssumption == MaxLines \in Nat /\ IntMin \in Int /\ IntMax \in Int
ASSUME DistancesAssumption == Distances \subseteq IntMin .. IntMax

VARIABLES
  pc,        \* "read", "select", "print", "done"
  distance,  \* distance[1 .. numlines]
  printed,   \* printed[0 .. numlines], 0 where nothing is stored yet
  count,     \* rounds of the selection, then lines printed
  out        \* the lines on stdout

vars == <<pc, distance, printed, count, out>>

numlines == Len(distance)
Index == 1 .. numlines

Init ==
  /\ pc = "read" /\ distance = <<>>
  /\ printed = [z \in {0} |-> 0]
  /\ count = 0 /\ out = <<>>

(* A line that is not blank; a line of spaces has no distance, its entry   *)
(* keeps whatever was there.                                               *)
ReadLine(d) ==
  /\ pc = "read" /\ numlines < MaxLines
  /\ distance' = Append(distance, d)
  /\ printed' = [z \in 0 .. numlines + 1 |-> 0]
  /\ UNCHANGED <<pc, count, out>>

EndOfInput ==
  /\ pc = "read" /\ pc' = "select"
  /\ UNCHANGED <<distance, printed, count, out>>

Mut_LooksFromZero(i) == \E z \in 0 .. numlines - 1 : printed[z] = i
alreadyprinted(i) == \E z \in 1 .. numlines - 1 : printed[z] = i

Candidates == {i \in Index : distance[i] < IntMax /\ ~alreadyprinted(i)}

(* i comes before k in a stable sort by distance.                          *)
Before(i, k) ==
  distance[i] < distance[k] \/ (distance[i] = distance[k] /\ i < k)

(* The inner loop: the first of the smallest lines that are left, or -1.   *)
Mut_LastSmallest ==
  IF Candidates = {} THEN -1
  ELSE CHOOSE i \in Candidates :
         \A k \in Candidates :
           distance[i] < distance[k] \/ (distance[i] = distance[k] /\ i >= k)

Smallest ==
  IF Candidates = {} THEN -1
  ELSE CHOOSE i \in Candidates : \A k \in Candidates \ {i} : Before(i, k)

Select ==
  /\ pc = "select" /\ count < numlines + 1
  /\ printed' = [printed EXCEPT ![count] = Smallest]
  /\ count' = count + 1
  /\ UNCHANGED <<pc, distance, out>>

EndSelect ==
  /\ pc = "select" /\ count = numlines + 1
  /\ pc' = "print" /\ count' = 0
  /\ UNCHANGED <<distance, printed, out>>

PrintLine ==
  /\ pc = "print" /\ count < numlines
  /\ out' = Append(out, printed[count + 1])
  /\ count' = count + 1
  /\ UNCHANGED <<pc, distance, printed>>

EndPrint ==
  /\ pc = "print" /\ count = numlines
  /\ pc' = "done"
  /\ UNCHANGED <<distance, printed, count, out>>

Next ==
  \/ \E d \in Distances : ReadLine(d)
  \/ EndOfInput \/ Select \/ EndSelect \/ PrintLine \/ EndPrint

Spec == Init /\ [][Next]_vars

-----------------------------------------------------------------------------
TypeOK ==
  /\ pc \in {"read", "select", "print", "done"}
  /\ distance \in Seq(Distances) /\ numlines <= MaxLines
  /\ printed \in [0 .. numlines -> {-1, 0} \cup Index]
  /\ count \in 0 .. numlines + 1
  /\ out \in Seq({-1, 0} \cup Index)

Ordinary == \A i \in Index : distance[i] < IntMax

(* What is written is the input sorted by distance: as many lines, all of  *)
(* the input, in strictly increasing order of (distance, place), hence     *)
(* none twice, none missing and equal ones in their old order.             *)
SortedOutput ==
  pc = "done" /\ Ordinary =>
    /\ Len(out) = numlines
    /\ \A a \in DOMAIN out : out[a] \in Index
    /\ \A a, b \in DOMAIN out : a < b => Before(out[a], out[b])
=============================================================================
