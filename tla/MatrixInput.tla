---------------------------- MODULE MatrixInput ----------------------------
(***************************************************************************)
(* process_matrix_input, the same in a2/tsp_t.c and a2/tsp_p.c: the first  *)
(* line decides the size, and the numbers of all lines are stored one      *)
(* after the other; find_paths reads entry (i, j) at i * nsize + j.        *)
(* strtok splits at blanks only, so a blank before the newline leaves a    *)
(* token of its own, the newline, which atoi makes a 0.                    *)
(***************************************************************************)
EXTENDS Integers, Sequences

CONSTANTS
  Numbers,  \* the numbers that may be typed
  MaxSize   \* bound on the length of a line and on the number of lines

ASSUME NumbersAssumption == Numbers \subseteq Int
ASSUME SizeAssumption == MaxSize \in Nat \ {0}

VARIABLES
  phase,  \* "first", "rest", "done"
  typed,  \* history: the lines typed, each with its numbers
  mtx,    \* the entries stored so far, from index 0 on
  nsize

inputVars == <<phase, typed, mtx, nsize>>

pos == Len(mtx)

(* A line: its numbers, and whether a blank stands before the newline.     *)
Row ==
  [nums : UNION {[1 .. n -> Numbers] : n \in 1 .. MaxSize}, blank : BOOLEAN]

(* What strtok and atoi make of a line.                                    *)
Tokens(row) == IF row.blank THEN Append(row.nums, 0) ELSE row.nums

InputInit == phase = "first" /\ typed = <<>> /\ mtx = <<>> /\ nsize = 0

FirstLine(row) ==
  /\ phase = "first" /\ phase' = "rest"
  /\ mtx' = Tokens(row) /\ nsize' = Len(Tokens(row))
  /\ typed' = <<row>>

Mut_StartsRowsAtSize(row) ==
  /\ phase = "rest" /\ Len(typed) < MaxSize
  /\ mtx' = SubSeq(mtx, 1, nsize) \o Tokens(row)
  /\ typed' = Append(typed, row)
  /\ UNCHANGED <<phase, nsize>>

NextLine(row) ==
  /\ phase = "rest" /\ Len(typed) < MaxSize
  /\ mtx' = mtx \o Tokens(row)
  /\ typed' = Append(typed, row)
  /\ UNCHANGED <<phase, nsize>>

(* End of file, or a blank line.                                           *)
EndOfMatrix ==
  /\ phase = "rest" /\ phase' = "done"
  /\ UNCHANGED <<typed, mtx, nsize>>

InputNext ==
  \/ \E row \in Row : FirstLine(row) \/ NextLine(row)
  \/ EndOfMatrix

InputSpec == InputInit /\ [][InputNext]_inputVars

-----------------------------------------------------------------------------
InputTypeOK ==
  /\ phase \in {"first", "rest", "done"}
  /\ typed \in Seq(Row) /\ Len(typed) <= MaxSize
  /\ mtx \in Seq(Numbers \cup {0})
  /\ nsize \in 0 .. MaxSize + 1

Entry(i, j) == i * nsize + j

(* An n * n matrix, with a blank before every newline or before none.      *)
Lined(blank) ==
  \A k \in 1 .. Len(typed) : typed[k].blank = blank /\ Len(typed[k].nums) = Len(typed)

(* process_matrix_input with find_paths.c:52-60: without stray blanks the  *)
(* matrix is read as it was typed.  With one at the end of every line it   *)
(* gets a node more: every row a last entry 0, and the last row is not     *)
(* there at all, so that no tour exists.                                   *)
SquareReadRight ==
  \A blank \in BOOLEAN : phase = "done" /\ Lined(blank) =>
    LET size == Len(typed) IN
    /\ nsize = (IF blank THEN size + 1 ELSE size) /\ pos = Entry(size, 0)
    /\ \A i \in 0 .. size - 1 :
         /\ \A j \in 0 .. size - 1 : mtx[Entry(i, j) + 1] = typed[i + 1].nums[j + 1]
         /\ blank => mtx[Entry(i, size) + 1] = 0
=============================================================================
