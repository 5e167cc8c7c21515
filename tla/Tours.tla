------------------------------- MODULE Tours -------------------------------
(***************************************************************************)
(* The problem the three travelling-salesman programs of a2 solve: list,   *)
(* for every starting node, the tours through all the other nodes and back *)
(* with their length.  A line of output is the start, the nodes in between *)
(* and the sum, as tsp_t.c and find_paths.c print it.                      *)
(***************************************************************************)
EXTENDS Integers, Sequences

CONSTANTS
  N,       \* nsize
  Graphs   \* the matrices that may be read

ASSUME NAssumption == N \in Nat \ {0}

Node == 0 .. N - 1
Matrix == [Node -> [Node -> Int]]

ASSUME GraphsAssumption == Graphs \subseteq Matrix

Elements(s) == {s[k] : k \in DOMAIN s}
Distinct(s) == \A a, b \in DOMAIN s : s[a] = s[b] => a = b

(* The test both find_paths make before they use graph[i*nsize+j]: no      *)
(* loop and a positive weight.                                             *)
Edge(g, i, j) == i # j /\ g[i][j] > 0

(* A walk that starts at s, takes the nodes of p in order and visits       *)
(* nothing twice.                                                          *)
IsPath(g, s, p) ==
  /\ p \in Seq(Node \ {s}) /\ Distinct(p)
  /\ \A k \in 1 .. Len(p) : Edge(g, IF k = 1 THEN s ELSE p[k - 1], p[k])

Last(s, p) == IF p = <<>> THEN s ELSE p[Len(p)]

IsTour(g, s, p) ==
  /\ IsPath(g, s, p) /\ Elements(p) = Node \ {s}
  /\ Edge(g, Last(s, p), s)

Line == [start : Node, path : Seq(Node), sum : Int]

(* The length of the walk from s through p, without the way back.          *)
Weight(g, s, p) ==
  LET upTo[k \in 0 .. Len(p)] ==
        IF k = 0 THEN 0
        ELSE upTo[k - 1] + g[IF k = 1 THEN s ELSE p[k - 1]][p[k]]
  IN upTo[Len(p)]

(* Every line a complete and correct run prints.                           *)
TourLinesFrom(g, s) ==
  {[start |-> s, path |-> p, sum |-> Weight(g, s, p) + g[Last(s, p)][s]] :
     p \in {q \in [1 .. N - 1 -> Node \ {s}] : IsTour(g, s, q)}}

TourLines(g) == UNION {TourLinesFrom(g, s) : s \in Node}
=============================================================================
