---------------------------- MODULE MCTspThreads ----------------------------
(* Matrices for TspThreads: every directed graph over the nodes, with a    *)
(* different weight on every edge so that sums tell tours apart.           *)
EXTENDS TspThreads

Pairs == {e \in Node \X Node : e[1] # e[2]}

Weighted(E) ==
  [i \in Node |-> [j \in Node |-> IF <<i, j>> \in E THEN 2 ^ i + 3 * j ELSE 0]]

AllGraphs == {Weighted(E) : E \in SUBSET Pairs}
=============================================================================
