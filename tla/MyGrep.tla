------------------------------- MODULE MyGrep -------------------------------
(***************************************************************************)
(* mygrep of a1/finds.c, a matcher for patterns of letters with "." (any   *)
(* letter), "*" and "?" after a letter; and what such a pattern means.     *)
(* Positions count from 0, as in the code.                                 *)
(***************************************************************************)
EXTENDS Integers, Sequences

CONSTANT Letter  \* the alphanumeric characters

NUL == "nul"
ASSUME LetterAssumption == Letter \cap {NUL, ".", "*", "?"} = {}

At(s, k) == IF k < Len(s) THEN s[k + 1] ELSE NUL

(* A search in progress: position in the pattern, where in the line the    *)
(* attempt began, and how far it has come.                                 *)
Start == [sspos |-> 0, linepos |-> 0, i |-> 0]

Advance(g, ds, di) == [sspos |-> g.sspos + ds, linepos |-> g.linepos, i |-> g.i + di]

Mut_SamePlace(g) == [sspos |-> 0, linepos |-> g.linepos, i |-> g.linepos]
Restart(g) == [sspos |-> 0, linepos |-> g.linepos + 1, i |-> g.linepos + 1]

(* How often c stands in the line from position i on.                      *)
RunLength(line, i, c) ==
  CHOOSE n \in 0 .. Len(line) :
    At(line, i + n) # c /\ \A k \in i .. i + n - 1 : At(line, k) = c

Found(p, line, g) == g.sspos = Len(p) /\ g.linepos < Len(line)
NotFound(line, g) == g.linepos >= Len(line)

(* One round of the loop; a "*" or "?" that no letter precedes changes     *)
(* nothing, and the loop goes round for good.                              *)
Round(p, line, g) ==
  LET s == At(p, g.sspos)
      next == At(p, g.sspos + 1)
      c == At(line, g.i)
  IN CASE c \notin Letter -> Restart(g)
       [] c \in Letter /\ s = "." -> Advance(g, 1, 1)
       [] c \in Letter /\ s \in Letter /\ next = "*" ->
            Advance(g, 2, RunLength(line, g.i, s))
       [] c \in Letter /\ s \in Letter /\ next = "?" ->
            Advance(g, 2, IF s = c THEN 1 ELSE 0)
       [] c \in Letter /\ s \in Letter /\ next \notin {"*", "?"} ->
            IF s = c THEN Advance(g, 1, 1) ELSE Restart(g)
       [] OTHER -> g

-----------------------------------------------------------------------------
(* The meaning of patterns, by which mygrep is judged.                     *)

Repeated(p, k) == At(p, k + 1) \in {"*", "?"}

(* Every "*" and "?" follows a letter.                                     *)
WellFormed(p) ==
  \A k \in 0 .. Len(p) - 1 : At(p, k) \in {"*", "?"} => k > 0 /\ At(p, k - 1) \in Letter

(* What is repeated cannot be mistaken for what comes after it, and the    *)
(* pattern does not end in a repetition.                                   *)
OneWay(p) ==
  /\ WellFormed(p) /\ p # <<>>
  /\ \A k \in 0 .. Len(p) - 1 :
       Repeated(p, k) =>
         /\ k + 2 < Len(p)
         /\ \A j \in k + 2 .. Len(p) - 1 : At(p, j) \notin {At(p, k), "."}

(* from[<<k, i>>]: the pattern from k on matches the line from i on.       *)
MatchesFrom(p, line) ==
  LET fits(k, i) == At(line, i) \in (IF At(p, k) = "." THEN Letter ELSE {At(p, k)})
      from[w \in (0 .. Len(p)) \X (0 .. Len(line))] ==
        LET k == w[1]
            i == w[2]
        IN \/ k = Len(p)
           \/ At(p, k + 1) = "*"
                /\ (from[<<k + 2, i>>] \/ (fits(k, i) /\ from[<<k, i + 1>>]))
           \/ At(p, k + 1) = "?"
                /\ (from[<<k + 2, i>>] \/ (fits(k, i) /\ from[<<k + 2, i + 1>>]))
           \/ k < Len(p) /\ ~Repeated(p, k) /\ fits(k, i) /\ from[<<k + 1, i + 1>>]
  IN from

RegexMatches(p, line) == \E i \in 0 .. Len(line) : MatchesFrom(p, line)[<<0, i>>]
=============================================================================
