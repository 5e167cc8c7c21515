--------------------------- MODULE TspProcsProofs ---------------------------
(***************************************************************************)
(* Proofs about tsp_p for any number of nodes, any matrices, any size of   *)
(* the regions and any failures.                                           *)
(*   - Main reads the regions only when no searcher can write to them: it  *)
(*     counts calls of waitpid, and that the count is right is an argument *)
(*     about the number of searchers that are gone.                        *)
(*   - The recursion of find_paths appends the line of every tour from its *)
(*     start node once (SearchIsComplete).                                 *)
(*   - Hence every region holds what its searcher was to find or nothing   *)
(*     (ProcsInv), the output is sound, it is complete for every searcher  *)
(*     that ended well, and tsp_p keeps the promise of TourSpec.           *)
(***************************************************************************)
EXTENDS TspProcs, SequenceTheorems, FiniteSetTheorems, WellFoundedInduction, TLAPS

Gone == {n \in Node : proc[n] = "gone"}

(* The part of the type invariant the count depends on.                    *)
MainTypeOK ==
  /\ pc \in {"fork", "wait", "print", "detach", "exit", "failed"}
  /\ node \in Node
  /\ proc \in [Node -> ProcState]

(* Every node below the loop variable has its searcher; as many waits as   *)
(* were made have each left one searcher more behind.                      *)
WaitsCounted ==
  /\ pc = "fork" => \A n \in Node : n < node => proc[n] # "none"
  /\ pc = "wait" => /\ \A n \in Node : proc[n] # "none"
                    /\ Cardinality(Gone) >= node
  /\ ReadAfterAllEnded

CountInv == MainTypeOK /\ WaitsCounted

(* Cardinalities of sets of nodes.                                         *)
LEMMA NodeSets ==
  /\ \A S \in SUBSET Node : Cardinality(S) \in Nat
  /\ \A S \in SUBSET Node : Cardinality(S) >= N => S = Node
  /\ \A S \in SUBSET Node, n \in Node :
       n \notin S => Cardinality(S \cup {n}) = Cardinality(S) + 1
  /\ \A S \in SUBSET Node, T \in SUBSET Node :
       S \subseteq T => Cardinality(S) <= Cardinality(T)
<1>1. IsFiniteSet(Node) /\ Cardinality(Node) = N
  BY FS_Interval, NAssumption DEF Node
<1>2. ASSUME NEW S \in SUBSET Node
      PROVE  /\ IsFiniteSet(S) /\ Cardinality(S) \in Nat
             /\ Cardinality(S) <= N /\ (Cardinality(S) = N => S = Node)
  BY <1>1, <1>2, FS_Subset, FS_CardinalityType
<1>3. ASSUME NEW S \in SUBSET Node, Cardinality(S) >= N PROVE S = Node
  BY <1>2, <1>3, NAssumption
<1>4. ASSUME NEW S \in SUBSET Node, NEW n \in Node, n \notin S
      PROVE  Cardinality(S \cup {n}) = Cardinality(S) + 1
  BY <1>2, <1>4, FS_AddElement
<1>5. ASSUME NEW S \in SUBSET Node, NEW T \in SUBSET Node, S \subseteq T
      PROVE  Cardinality(S) <= Cardinality(T)
  BY <1>2, <1>5, FS_Subset
<1> QED
  BY <1>2, <1>3, <1>4, <1>5

(* One round of the loop of waits, whichever way waitpid returned.         *)
LEMMA WaitRound ==
  ASSUME CountInv, NextRound("wait", "print"),
         proc' \in [Node -> ProcState], \A n \in Node : proc'[n] # "none",
         Cardinality(Gone') >= node + 1
  PROVE  CountInv'
<1>1. Gone' \subseteq Node
  BY DEF Gone
<1>2. CASE node + 1 < N
  BY <1>2, NAssumption
     DEF CountInv, MainTypeOK, WaitsCounted, NextRound, regionVars, ReadAfterAllEnded,
     Node
<1>3. CASE ~(node + 1 < N)
  <2>1. node \in Node /\ Cardinality(Gone') \in Nat
    BY <1>1, NodeSets DEF CountInv, MainTypeOK
  <2>2. Cardinality(Gone') >= N
    BY <1>3, <2>1, NAssumption DEF Node
  <2>3. Gone' = Node
    BY <1>1, <2>2, NodeSets
  <2>4. \A n \in Node : proc'[n] = "gone"
    BY <2>3 DEF Gone
  <2>5. pc' = "print" /\ node' = 0
    BY <1>3 DEF NextRound, regionVars
  <2> QED
    BY <2>4, <2>5, NAssumption
       DEF CountInv, MainTypeOK, WaitsCounted, ReadAfterAllEnded, Node
<1> QED
  BY <1>2, <1>3

(* A step of a searcher starts nothing, and what is gone stays gone.       *)
LEMMA SearcherRound ==
  ASSUME CountInv, UNCHANGED <<pc, node>>,
         proc' \in [Node -> ProcState],
         \A n \in Node : /\ proc[n] = "gone" => proc'[n] = "gone"
                         /\ proc[n] # "none" => proc'[n] # "none"
  PROVE  CountInv'
<1>1. Gone \in SUBSET Node /\ Gone' \in SUBSET Node /\ Gone \subseteq Gone'
  BY DEF Gone
<1>2. /\ Cardinality(Gone) <= Cardinality(Gone')
      /\ Cardinality(Gone) \in Nat /\ Cardinality(Gone') \in Nat
  BY <1>1, NodeSets
<1>3. MainTypeOK'
  BY DEF CountInv, MainTypeOK
<1>4. pc = "wait" => Cardinality(Gone') >= node'
  BY <1>2, NAssumption DEF CountInv, MainTypeOK, WaitsCounted, Node
<1> QED
  BY <1>3, <1>4 DEF CountInv, WaitsCounted, ReadAfterAllEnded

LEMMA CountStep == CountInv /\ [Next]_vars => CountInv'
<1> SUFFICES ASSUME CountInv, [Next]_vars PROVE CountInv'
  OBVIOUS
<1>1. CASE Fork
  <2>1. /\ pc = "fork" /\ node \in Node /\ proc \in [Node -> ProcState]
        /\ \A n \in Node : n < node => proc[n] # "none"
        /\ proc' = [proc EXCEPT ![node] = "forked"]
    BY <1>1 DEF Fork, NextRound, regionVars, CountInv, MainTypeOK, WaitsCounted
  <2>2. /\ proc' \in [Node -> ProcState]
        /\ \A n \in Node : n < node + 1 => proc'[n] # "none"
    BY <2>1 DEF ProcState, Node
  <2>3. CASE node + 1 < N
    <3>1. pc' = "fork" /\ node' = node + 1
      BY <1>1, <2>3 DEF Fork, NextRound, regionVars
    <3> QED
      BY <2>1, <2>2, <2>3, <3>1, NAssumption
         DEF CountInv, MainTypeOK, WaitsCounted, ReadAfterAllEnded, Node
  <2>4. CASE ~(node + 1 < N)
    <3>1. pc' = "wait" /\ node' = 0
      BY <1>1, <2>4 DEF Fork, NextRound, regionVars
    <3>2. \A n \in Node : proc'[n] # "none"
      BY <2>1, <2>2, <2>4, NAssumption DEF Node
    <3>3. Cardinality(Gone') \in Nat
      BY NodeSets DEF Gone
    <3> QED
      BY <2>2, <3>1, <3>2, <3>3, NAssumption
         DEF CountInv, MainTypeOK, WaitsCounted, ReadAfterAllEnded, Node
  <2> QED
    BY <2>3, <2>4
<1>2. CASE StartFails
  BY <1>2 DEF StartFails, CountInv, MainTypeOK, WaitsCounted, ReadAfterAllEnded
<1>3. ASSUME NEW n \in Node, WaitReap(n) PROVE CountInv'
  <2>1. /\ pc = "wait" /\ node \in Node /\ proc \in [Node -> ProcState]
        /\ proc[n] = "zombie" /\ proc' = [proc EXCEPT ![n] = "gone"]
        /\ Cardinality(Gone) >= node /\ \A m \in Node : proc[m] # "none"
    BY <1>3 DEF WaitReap, NextRound, regionVars, CountInv, MainTypeOK, WaitsCounted
  <2>2. Gone' = Gone \cup {n} /\ n \notin Gone /\ Gone \in SUBSET Node
    BY <2>1 DEF Gone
  <2>3. Cardinality(Gone') >= node + 1
    BY <2>1, <2>2, NodeSets DEF Node
  <2>4. proc' \in [Node -> ProcState] /\ \A m \in Node : proc'[m] # "none"
    BY <2>1 DEF ProcState
  <2> QED
    BY <1>3, <2>3, <2>4, WaitRound DEF WaitReap
<1>4. CASE WaitFails
  <2>1. /\ pc = "wait" /\ node \in Node /\ proc \in [Node -> ProcState]
        /\ proc' = proc /\ Alive = {}
        /\ \A n \in Node : proc[n] # "zombie" /\ proc[n] # "none"
    BY <1>4 DEF WaitFails, NextRound, regionVars, CountInv, MainTypeOK, WaitsCounted
  <2>2. Gone' = Node
    BY <2>1 DEF Gone, Alive, ProcState
  <2>3. Cardinality(Node) = N
    BY FS_Interval, NAssumption DEF Node
  <2>4. Cardinality(Gone') >= node + 1
    BY <2>1, <2>2, <2>3, NAssumption DEF Node
  <2> QED
    BY <1>4, <2>1, <2>4, WaitRound DEF WaitFails
<1>5. CASE PrintRegion
  <2>1. node' \in Node
    BY <1>5, NAssumption DEF PrintRegion, NextRound, regionVars, CountInv, MainTypeOK,
       Node
  <2> QED
    BY <1>5, <2>1 DEF PrintRegion, NextRound, regionVars, CountInv, MainTypeOK,
       WaitsCounted,
                      ReadAfterAllEnded
<1>6. CASE Exit
  BY <1>6 DEF Exit, CountInv, MainTypeOK, WaitsCounted, ReadAfterAllEnded
<1>9. CASE PrintPastPage
  <2>1. node' \in Node
    BY <1>9, NAssumption DEF PrintPastPage, NextRound, CountInv, MainTypeOK, Node
  <2> QED
    BY <1>9, <2>1 DEF PrintPastPage, NextRound, CountInv, MainTypeOK, WaitsCounted,
                      ReadAfterAllEnded
<1>7. ASSUME NEW n \in Node, Runs(n) \/ ExecFails(n) \/ Killed(n) \/ KilledWriting(n)
      PROVE  CountInv'
  <2>1. /\ proc[n] \in {"forked", "running"} /\ UNCHANGED <<pc, node>>
        /\ proc \in [Node -> ProcState]
    BY <1>7 DEF Runs, ExecFails, Killed, KilledWriting, Fails, Exec, Write, Overflow,
       WriteSpoiled, Ends,
                Finds, Searcher, mainVars, regionVars, CountInv, MainTypeOK
  <2>2. \E state \in {"running", "zombie", "gone"} :
          proc' = proc \/ proc' = [proc EXCEPT ![n] = state]
    BY <1>7 DEF Runs, ExecFails, Killed, KilledWriting, Fails, Exec, Write, Overflow,
       WriteSpoiled, Ends,
                Finds, Dies
  <2>3. /\ proc' \in [Node -> ProcState]
        /\ \A m \in Node : /\ proc[m] = "gone" => proc'[m] = "gone"
                           /\ proc[m] # "none" => proc'[m] # "none"
    BY <2>1, <2>2 DEF ProcState
  <2> QED
    BY <2>1, <2>3, SearcherRound
<1>8. CASE UNCHANGED vars
  BY <1>8 DEF vars, mainVars, regionVars, CountInv, MainTypeOK, WaitsCounted,
              ReadAfterAllEnded, Gone
<1> QED
  BY <1>1, <1>2, <1>3, <1>4, <1>5, <1>6, <1>7, <1>8, <1>9 DEF Next, Main

(* tsp_p.c:85-93: whatever the order in which searchers end, fail or are   *)
(* killed, none of them runs while the regions are printed.                *)
THEOREM RegionsReadWhenQuiet == Spec => []ReadAfterAllEnded
<1>1. Init => CountInv
  BY NAssumption DEF Init, CountInv, MainTypeOK, WaitsCounted, ReadAfterAllEnded,
                     ProcState, Node
<1>2. CountInv => ReadAfterAllEnded
  BY DEF CountInv, WaitsCounted
<1> QED
  BY <1>1, <1>2, CountStep, PTL DEF Spec

(* A set of numbers that contains 0 and with a number the next one, up to  *)
(* a bound, contains all of them.                                          *)
LEMMA UpTo ==
  ASSUME NEW n \in Nat, NEW S, 0 \in S,
         \A k \in 0 .. n - 1 : k \in S => k + 1 \in S
  PROVE  0 .. n \subseteq S
<1> DEFINE R == {ss \in Nat \X Nat : ss[1] < ss[2]}
           F == (0 .. n) \ S
<1>1. IsWellFoundedOn(R, Nat)
  BY NatLessThanWellFounded, Zenon DEF OpToRel
<1>2. CASE F # {}
  <2>1. F \subseteq Nat
    OBVIOUS
  <2> HIDE DEF F
  <2>2. PICK k \in F : \A m \in F : <<m, k>> \notin R
    <3> HIDE DEF R
    <3> QED
      BY <1>1, <1>2, <2>1, WFMin
  <2>3. k \in 0 .. n /\ k \notin S
    BY DEF F
  <2>4. k # 0 /\ k - 1 \in 0 .. n - 1
    BY <2>3
  <2>5. k - 1 \notin S
    BY <2>3, <2>4
  <2>6. k - 1 \in F /\ <<k - 1, k>> \in R
    BY <2>3, <2>4, <2>5 DEF F
  <2> QED
    BY <2>2, <2>6
<1> QED
  BY <1>2

(* Sums(w, n): the partial sums of w up to n.                              *)
IsSum(f, w, n) == f = [k \in 0 .. n |-> IF k = 0 THEN 0 ELSE f[k - 1] + w[k]]

(* Every sequence of numbers has its partial sums.                         *)
LEMMA SumExists ==
  ASSUME NEW n \in Nat, NEW w \in [1 .. n -> Int]
  PROVE  \E f \in [0 .. n -> Int] : IsSum(f, w, n)
<1> DEFINE S == {m \in 0 .. n : \E f \in [0 .. m -> Int] : IsSum(f, w, m)}
<1>1. 0 \in S
  <2> DEFINE f == [k \in 0 .. 0 |-> 0]
  <2>1. f \in [0 .. 0 -> Int] /\ IsSum(f, w, 0)
    BY DEF IsSum
  <2> QED
    BY <2>1
<1>2. ASSUME NEW m \in 0 .. n - 1, m \in S PROVE m + 1 \in S
  <2>1. PICK f \in [0 .. m -> Int] : IsSum(f, w, m)
    BY <1>2
  <2> DEFINE h == [k \in 0 .. m + 1 |-> IF k = m + 1 THEN f[m] + w[m + 1] ELSE f[k]]
  <2>2. f[m] \in Int /\ w[m + 1] \in Int
    OBVIOUS
  <2>3. h \in [0 .. m + 1 -> Int]
    BY <2>2
  <2>4. \A k \in 0 .. m + 1 : h[k] = IF k = 0 THEN 0 ELSE h[k - 1] + w[k]
    <3> SUFFICES ASSUME NEW k \in 0 .. m + 1
                 PROVE  h[k] = IF k = 0 THEN 0 ELSE h[k - 1] + w[k]
      OBVIOUS
    <3>1. CASE k = m + 1
      <4>1. k # 0 /\ k - 1 = m /\ h[k] = f[m] + w[m + 1] /\ h[m] = f[m]
        BY <3>1
      <4> QED
        BY <3>1, <4>1
    <3>2. CASE k # m + 1
      <4>1. k \in 0 .. m /\ h[k] = f[k]
        BY <3>2
      <4>2. k # 0 => h[k - 1] = f[k - 1]
        BY <4>1
      <4>3. f[k] = IF k = 0 THEN 0 ELSE f[k - 1] + w[k]
        BY <2>1, <4>1 DEF IsSum
      <4> QED
        BY <4>1, <4>2, <4>3
    <3> QED
      BY <3>1, <3>2
  <2> HIDE DEF h
  <2>5. IsSum(h, w, m + 1)
    BY <2>3, <2>4 DEF IsSum
  <2> QED
    BY <2>3, <2>5
<1> HIDE DEF S
<1>3. 0 .. n \subseteq S
  BY <1>1, <1>2, UpTo
<1>4. n \in S
  BY <1>3
<1> QED
  BY <1>4 DEF S

Step(g, s, p) == [k \in 1 .. Len(p) |-> g[IF k = 1 THEN s ELSE p[k - 1]][p[k]]]

(* The length of a walk is a number.                                       *)
LEMMA WeightType ==
  ASSUME NEW g \in Matrix, NEW s \in Node, NEW p \in Seq(Node)
  PROVE  Weight(g, s, p) \in Int
<1> DEFINE w == Step(g, s, p)
           n == Len(p)
           Is(f) == f = [k \in 0 .. Len(p) |-> IF k = 0 THEN 0 ELSE f[k - 1] + g[IF k = 1 THEN s ELSE p[k - 1]][p[k]]]
<1>1. n \in Nat /\ \A k \in 1 .. n : p[k] \in Node
  BY LenProperties, ElementOfSeq
<1>2. \A k \in 1 .. n : g[IF k = 1 THEN s ELSE p[k - 1]][p[k]] \in Int
  <2> SUFFICES ASSUME NEW k \in 1 .. n
               PROVE  g[IF k = 1 THEN s ELSE p[k - 1]][p[k]] \in Int
    OBVIOUS
  <2>1. (IF k = 1 THEN s ELSE p[k - 1]) \in Node
    BY <1>1
  <2> QED
    BY <1>1, <2>1 DEF Matrix
<1>3. w \in [1 .. n -> Int]
  BY <1>2 DEF Step
<1>4. \A f : Is(f) <=> IsSum(f, w, n)
  <2> SUFFICES ASSUME NEW f PROVE Is(f) <=> IsSum(f, w, n)
    OBVIOUS
  <2>1. \A k \in 0 .. n : k # 0 => w[k] = g[IF k = 1 THEN s ELSE p[k - 1]][p[k]]
    BY <1>1 DEF Step
  <2> DEFINE a == [k \in 0 .. n |-> IF k = 0 THEN 0
                                   ELSE f[k - 1] + g[IF k = 1 THEN s ELSE p[k - 1]][p[k]]]
             b == [k \in 0 .. n |-> IF k = 0 THEN 0 ELSE f[k - 1] + w[k]]
  <2>2. a = b
    <3> HIDE DEF w
    <3>1. \A k \in 0 .. n : a[k] = b[k]
      BY <2>1
    <3> QED
      BY <3>1
  <2> QED
    BY <2>2 DEF IsSum
<1>5. PICK h \in [0 .. n -> Int] : IsSum(h, w, n)
  BY <1>1, <1>3, SumExists
<1>6. Is(CHOOSE f : Is(f))
  <2> HIDE DEF Is
  <2> QED
    BY <1>4, <1>5
<1>7. Weight(g, s, p) = (CHOOSE f : Is(f))[n]
  BY DEF Weight
<1> DEFINE u == CHOOSE f : Is(f)
<1>8. IsSum(u, w, n)
  BY <1>4, <1>6
<1> HIDE DEF u, w, Is
<1> DEFINE K == {k \in 0 .. n : u[k] \in Int}
<1>9. 0 \in K
  BY <1>1, <1>8 DEF IsSum
<1>10. ASSUME NEW k \in 0 .. n - 1, k \in K PROVE k + 1 \in K
  <2>1. k + 1 \in 0 .. n /\ k + 1 # 0 /\ (k + 1) - 1 = k /\ k + 1 \in 1 .. n
    BY <1>1
  <2>2. u[k + 1] = u[k] + w[k + 1] /\ w[k + 1] \in Int
    BY <1>3, <1>8, <2>1 DEF IsSum
  <2> QED
    BY <1>10, <2>1, <2>2
<1> HIDE DEF K
<1>11. 0 .. n \subseteq K
  BY <1>1, <1>9, <1>10, UpTo
<1>12. n \in K
  BY <1>1, <1>11
<1> QED
  BY <1>7, <1>12 DEF K, u

-----------------------------------------------------------------------------
(* Two lists one after the other.                                          *)
LEMMA Joined ==
  ASSUME NEW S, NEW a \in Seq(S), NEW b \in Seq(S)
  PROVE  /\ a \o b \in Seq(S)
         /\ Elements(a \o b) = Elements(a) \cup Elements(b)
         /\ Distinct(a) /\ Distinct(b) /\ Elements(a) \cap Elements(b) = {}
              => Distinct(a \o b)
<1> DEFINE c == a \o b
<1>1. /\ Len(a) \in Nat /\ Len(b) \in Nat
      /\ DOMAIN a = 1 .. Len(a) /\ DOMAIN b = 1 .. Len(b)
  BY LenProperties
<1>2. /\ c \in Seq(S) /\ Len(c) = Len(a) + Len(b)
      /\ \A k \in 1 .. Len(a) + Len(b) :
           c[k] = IF k <= Len(a) THEN a[k] ELSE b[k - Len(a)]
  BY ConcatProperties
<1>3. DOMAIN c = 1 .. Len(a) + Len(b)
  BY <1>2, LenProperties
<1> HIDE DEF c
<1>4. \A k \in DOMAIN a : k \in DOMAIN c /\ c[k] = a[k]
  BY <1>1, <1>2, <1>3
<1>5. \A k \in DOMAIN b : k + Len(a) \in DOMAIN c /\ c[k + Len(a)] = b[k]
  BY <1>1, <1>2, <1>3
<1>6. \A k \in DOMAIN c : \/ k \in DOMAIN a /\ c[k] = a[k]
                          \/ k - Len(a) \in DOMAIN b /\ c[k] = b[k - Len(a)]
  BY <1>1, <1>2, <1>3
<1>7. Elements(c) = Elements(a) \cup Elements(b)
  <2>1. Elements(c) \subseteq Elements(a) \cup Elements(b)
    BY <1>6 DEF Elements
  <2>2. Elements(a) \subseteq Elements(c)
    BY <1>4 DEF Elements
  <2>3. Elements(b) \subseteq Elements(c)
    BY <1>5 DEF Elements
  <2> QED
    BY <2>1, <2>2, <2>3
<1>8. ASSUME Distinct(a), Distinct(b), Elements(a) \cap Elements(b) = {}
      PROVE  Distinct(c)
  <2> SUFFICES ASSUME NEW i \in DOMAIN c, NEW k \in DOMAIN c, c[i] = c[k]
               PROVE  i = k
    BY DEF Distinct
  <2>1. \A x \in DOMAIN a, y \in DOMAIN b : a[x] # b[y]
    BY <1>8 DEF Elements
  <2>2. CASE i \in DOMAIN a /\ c[i] = a[i] /\ k \in DOMAIN a /\ c[k] = a[k]
    BY <1>8, <2>2 DEF Distinct
  <2>3. CASE /\ i - Len(a) \in DOMAIN b /\ c[i] = b[i - Len(a)]
             /\ k - Len(a) \in DOMAIN b /\ c[k] = b[k - Len(a)]
    <3>1. i - Len(a) = k - Len(a)
      BY <1>8, <2>3 DEF Distinct
    <3> QED
      BY <1>1, <1>3, <3>1
  <2> QED
    BY <1>6, <2>1, <2>2, <2>3
<1> QED
  BY <1>2, <1>7, <1>8 DEF c

-----------------------------------------------------------------------------
(* The walks the search makes: different nodes, without the start.         *)
Walks(s) ==
  {p \in UNION {[1 .. n -> Node \ {s}] : n \in 0 .. N - 1} : Distinct(p)}

(* The walks from s are the paths that visit other nodes, each once.       *)
LEMMA WalkType ==
  ASSUME NEW s \in Node
  PROVE  \A p : p \in Walks(s) <=> p \in Seq(Node \ {s}) /\ Distinct(p)
<1>0. IsFiniteSet(Node) /\ Cardinality(Node) = N
  BY FS_Interval, NAssumption DEF Node
<1>9. IsFiniteSet(Node \ {s}) /\ Cardinality(Node \ {s}) = N - 1
  BY <1>0, FS_RemoveElement
<1>1. ASSUME NEW p, p \in Walks(s) PROVE p \in Seq(Node \ {s}) /\ Distinct(p)
  <2>1. PICK n \in 0 .. N - 1 : p \in [1 .. n -> Node \ {s}]
    BY <1>1 DEF Walks
  <2>2. n \in Nat
    BY NAssumption
  <2>3. p \in Seq(Node \ {s})
    BY <2>1, <2>2, SeqDef
  <2> QED
    BY <1>1, <2>3 DEF Walks
<1>2. ASSUME NEW p \in Seq(Node \ {s}), Distinct(p) PROVE p \in Walks(s)
  <2>0. Len(p) \in Nat
    BY LenProperties
  <2>1. Len(p) \in Nat /\ p \in [1 .. Len(p) -> Node \ {s}] /\ DOMAIN p = 1 .. Len(p)
    BY LenProperties
  <2>4. IsFiniteSet(1 .. Len(p)) /\ Cardinality(1 .. Len(p)) = Len(p)
    BY <2>0, FS_Interval
  <2>5. Len(p) <= N - 1
    <3>1. CASE Len(p) > N - 1
      <4>1. PICK a, b \in 1 .. Len(p) : a # b /\ p[a] = p[b]
        BY <1>9, <2>1, <2>4, <3>1, FS_PigeonHole
      <4> QED
        BY <1>2, <2>1, <4>1 DEF Distinct
    <3> QED
      BY <2>1, <3>1, NAssumption
  <2>6. Len(p) \in 0 .. N - 1
    BY <2>1, <2>5, NAssumption
  <2> QED
    BY <1>2, <2>1, <2>6 DEF Walks
<1> QED
  BY <1>1, <1>2

LEMMA WalkLength ==
  ASSUME NEW s \in Node, NEW p \in Walks(s)
  PROVE  Len(p) \in 0 .. N - 1 /\ DOMAIN p = 1 .. Len(p)
<1>1. PICK n \in 0 .. N - 1 : p \in [1 .. n -> Node \ {s}]
  BY DEF Walks
<1>2. p \in Seq(Node \ {s})
  BY WalkType
<1>3. Len(p) = n
  BY <1>1, <1>2, LenProperties, NAssumption
<1> QED
  BY <1>1, <1>2, <1>3, LenProperties

(* One more node, not yet visited.                                         *)
LEMMA WalkExtends ==
  ASSUME NEW s \in Node, NEW p \in Walks(s), NEW v \in Node \ {s}, v \notin Elements(p)
  PROVE  /\ Append(p, v) \in Walks(s) /\ Len(Append(p, v)) = Len(p) + 1
         /\ Append(p, v)[Len(p) + 1] = v
         /\ \A k \in 1 .. Len(p) : Append(p, v)[k] = p[k]
         /\ Elements(Append(p, v)) = Elements(p) \cup {v}
<1> DEFINE q == Append(p, v)
<1>1. p \in Seq(Node \ {s}) /\ Distinct(p) /\ Len(p) \in Nat /\ DOMAIN p = 1 .. Len(p)
  BY WalkType, LenProperties
<1>2. /\ q \in Seq(Node \ {s}) /\ Len(q) = Len(p) + 1
      /\ \A k \in 1 .. Len(p) : q[k] = p[k]
      /\ q[Len(p) + 1] = v
      /\ DOMAIN q = 1 .. Len(p) + 1
  BY <1>1, AppendProperties, LenProperties
<1>3. \A k \in 1 .. Len(p) : p[k] \in Elements(p)
  BY <1>1 DEF Elements
<1> HIDE DEF q
<1>4. Distinct(q)
  BY <1>1, <1>2, <1>3 DEF Distinct
<1>5. q \in Walks(s)
  BY <1>2, <1>4, WalkType
<1>6. Elements(q) = Elements(p) \cup {v}
  <2>1. Elements(q) \subseteq Elements(p) \cup {v}
    BY <1>1, <1>2, <1>3 DEF Elements
  <2>2. v \in Elements(q)
    BY <1>1, <1>2 DEF Elements
  <2>3. \A k \in 1 .. Len(p) : k \in DOMAIN q /\ q[k] = p[k]
    BY <1>1, <1>2
  <2>4. Elements(p) \subseteq Elements(q)
    BY <1>1, <2>3 DEF Elements
  <2> QED
    BY <2>1, <2>2, <2>4
<1> QED
  BY <1>2, <1>5, <1>6 DEF q

-----------------------------------------------------------------------------
(* Results with the recursive function from taken apart: what round j of   *)
(* the call that walked p appends, and what this round and those behind it *)
(* append, given what the others (f) append.                               *)
RoundOf(g, s, f, p, j) ==
  IF j = s THEN Closed(g, s, p)
  ELSE IF Edge(g, Last(s, p), j) /\ j \notin Elements(p) THEN f[<<Append(p, j), 0>>]
  ELSE <<>>

Body(g, s, f, w) ==
  IF w[2] = N THEN <<>> ELSE RoundOf(g, s, f, w[1], w[2]) \o f[<<w[1], w[2] + 1>>]

Calls(s) == Walks(s) \X (0 .. N)

IsSearch(g, s, f, D) ==
  DOMAIN f = D /\ f = [w \in D |-> Body(g, s, f, w)]

(* How much of the search is left at most.                                 *)
Rank(w) == (N - Len(w[1])) * (N + 1) - w[2]

(* What is used of products.                                               *)
LEMMA Products ==
  /\ \A a, b \in Nat : a * b \in Nat
  /\ \A a, b \in Int : a * b \in Int /\ (a - 1) * b = a * b - b
  /\ \A a, b, c \in Nat : a <= b => a * c <= b * c
<1>1. \A a, b \in Nat : a * b \in Nat
  OBVIOUS
<1>2. \A a, b \in Int : a * b \in Int /\ (a - 1) * b = a * b - b
  OBVIOUS
<1>3. ASSUME NEW a \in Nat, NEW b \in Nat, NEW c \in Nat, a <= b
      PROVE  a * c <= b * c
  <2>1. b - a \in Nat /\ (b - a) * c = b * c - a * c
    BY <1>3
  <2>2. (b - a) * c \in Nat
    BY <2>1, <1>1
  <2>3. b * c \in Nat /\ a * c \in Nat
    BY <1>1
  <2> QED
    BY <2>1, <2>2, <2>3
<1> QED
  BY <1>1, <1>2, <1>3

(* The rank of a walk and a loop index, which drops with every round of    *)
(* the loop and with every recursive call.                                 *)
LEMMA RankDrops ==
  ASSUME NEW s \in Node, NEW p \in Walks(s), NEW j \in 0 .. N
  PROVE  /\ Rank(<<p, j>>) \in 1 .. N * (N + 1)
         /\ Rank(<<p, j + 1>>) = Rank(<<p, j>>) - 1
         /\ \A v \in Node \ {s} : v \notin Elements(p) =>
              Rank(<<Append(p, v), 0>>) < Rank(<<p, j>>)
<1> DEFINE l == Len(p)
           r == N - l
           M == N + 1
<1>1. l \in 0 .. N - 1
  BY WalkLength
<1>2. r \in 1 .. N /\ M \in Nat /\ M >= 1
  BY <1>1, NAssumption
<1>3. Rank(<<p, j>>) = r * M - j /\ Rank(<<p, j + 1>>) = r * M - (j + 1)
  BY DEF Rank
<1>4. r * M \in Nat /\ 1 * M <= r * M /\ r * M <= N * M
  <2>1. 1 \in Nat /\ r \in Nat /\ N \in Nat /\ M \in Nat /\ 1 <= r /\ r <= N
    BY <1>2, NAssumption
  <2> HIDE DEF r, M
  <2> QED
    BY <2>1, Products
<1>5. 1 * M = M
  BY <1>2
<1>6. N * M \in Nat
  BY Products, NAssumption
<1>7. ASSUME NEW v \in Node \ {s}, v \notin Elements(p)
      PROVE  Rank(<<Append(p, v), 0>>) < Rank(<<p, j>>)
  <2>1. Len(Append(p, v)) = l + 1
    BY <1>7, WalkExtends
  <2>2. N - (l + 1) = r - 1
    BY <1>1, NAssumption
  <2>3. Rank(<<Append(p, v), 0>>) = (r - 1) * M - 0
    BY <2>1, <2>2 DEF Rank
  <2>4. (r - 1) * M = r * M - M
    <3>1. r \in Int /\ M \in Int
      BY <1>2
    <3> HIDE DEF r, M
    <3> QED
      BY <3>1, Products
  <2>5. j < M /\ M \in Int /\ j \in Int
    BY NAssumption
  <2> DEFINE z == r * M
             y == (r - 1) * M
             x == Rank(<<Append(p, v), 0>>)
             u == Rank(<<p, j>>)
  <2>6. z \in Nat /\ y = z - M /\ x = y - 0 /\ u = z - j
    BY <1>3, <1>4, <2>3, <2>4
  <2> HIDE DEF z, y, x, u, M
  <2>7. x < u
    BY <2>5, <2>6
  <2> QED
    BY <2>7 DEF x, u
<1>8. Rank(<<p, j>>) \in 1 .. N * M /\ Rank(<<p, j + 1>>) = Rank(<<p, j>>) - 1
  <2> DEFINE z == r * M
             B == N * M
             u == Rank(<<p, j>>)
             x == Rank(<<p, j + 1>>)
  <2>1. z \in Nat /\ B \in Nat /\ M <= z /\ z <= B /\ u = z - j /\ x = z - (j + 1)
    BY <1>3, <1>4, <1>5, <1>6
  <2>2. j \in Nat /\ j < M /\ M \in Nat
    BY NAssumption
  <2> HIDE DEF z, B, M, u, x
  <2>3. u \in 1 .. B /\ x = u - 1
    BY <2>1, <2>2
  <2> QED
    BY <2>3 DEF u, x, B
<1> QED
  BY <1>7, <1>8

(* What a call appends depends on calls of lower rank only.                *)
LEMMA BodyAgrees ==
  ASSUME NEW g, NEW s \in Node, NEW w \in Calls(s), NEW f, NEW h,
         \A v \in Calls(s) : Rank(v) < Rank(w) => f[v] = h[v]
  PROVE  Body(g, s, f, w) = Body(g, s, h, w)
<1> DEFINE p == w[1]
           j == w[2]
<1>1. p \in Walks(s) /\ j \in 0 .. N /\ w = <<p, j>>
  BY DEF Calls
<1> HIDE DEF p, j
<1>2. CASE j = N
  BY <1>1, <1>2 DEF Body
<1>3. CASE j # N
  <2>1. j \in Node /\ j + 1 \in 0 .. N
    BY <1>1, <1>3, NAssumption DEF Node
  <2>2. <<p, j + 1>> \in Calls(s) /\ Rank(<<p, j + 1>>) < Rank(<<p, j>>)
    <3>1. Rank(<<p, j>>) \in Int /\ Rank(<<p, j + 1>>) = Rank(<<p, j>>) - 1
      BY <1>1, RankDrops
    <3>2. Rank(<<p, j + 1>>) < Rank(<<p, j>>)
      BY <3>1
    <3> QED
      BY <1>1, <2>1, <3>2 DEF Calls
  <2>3. f[<<p, j + 1>>] = h[<<p, j + 1>>]
    BY <1>1, <2>2
  <2>4. ASSUME j # s, j \notin Elements(p)
        PROVE  f[<<Append(p, j), 0>>] = h[<<Append(p, j), 0>>]
    <3>0. j \in Node \ {s}
      BY <2>1, <2>4
    <3>1. Append(p, j) \in Walks(s)
      BY <1>1, <2>4, <3>0, WalkExtends
    <3>3. Rank(<<Append(p, j), 0>>) < Rank(<<p, j>>)
      <4>1. \A v \in Node \ {s} : v \notin Elements(p) =>
              Rank(<<Append(p, v), 0>>) < Rank(<<p, j>>)
        BY <1>1, RankDrops
      <4> QED
        BY <2>4, <3>0, <4>1
    <3>4. 0 \in 0 .. N
      BY NAssumption
    <3>2. <<Append(p, j), 0>> \in Calls(s)
      BY <3>1, <3>4 DEF Calls
    <3> QED
      BY <1>1, <3>2, <3>3
  <2>5. RoundOf(g, s, f, p, j) = RoundOf(g, s, h, p, j)
    BY <2>4 DEF RoundOf
  <2>6. w[1] = p /\ w[2] = j
    BY DEF p, j
  <2> QED
    BY <2>3, <2>5, <2>6 DEF Body
<1> QED
  BY <1>2, <1>3

(* The recursive function of Results exists: it can be built rank by rank. *)
LEMMA SearchExists ==
  ASSUME NEW g, NEW s \in Node
  PROVE  \E f : IsSearch(g, s, f, Calls(s))
<1> DEFINE B == N * (N + 1)
           Below(m) == {w \in Calls(s) : Rank(w) <= m}
           S == {m \in 0 .. B : \E f : IsSearch(g, s, f, Below(m))}
<1>1. B \in Nat
  BY Products, NAssumption
<1>2. \A w \in Calls(s) : Rank(w) \in 1 .. B
  <2> SUFFICES ASSUME NEW w \in Calls(s) PROVE Rank(w) \in 1 .. B
    OBVIOUS
  <2>1. w[1] \in Walks(s) /\ w[2] \in 0 .. N /\ w = <<w[1], w[2]>>
    BY DEF Calls
  <2> QED
    BY <2>1, RankDrops
<1> HIDE DEF B
<1>3. 0 \in S
  <2>1. Below(0) = {}
    BY <1>2
  <2> DEFINE f == [w \in Below(0) |-> <<>>]
  <2>2. f = [w \in Below(0) |-> Body(g, s, f, w)]
    BY <2>1
  <2>3. IsSearch(g, s, f, Below(0))
    BY <2>2 DEF IsSearch
  <2> HIDE DEF f, Below
  <2> QED
    BY <1>1, <2>3
<1>4. ASSUME NEW m \in 0 .. B - 1, m \in S PROVE m + 1 \in S
  <2>1. PICK f : IsSearch(g, s, f, Below(m))
    BY <1>4
  <2> DEFINE h == [w \in Below(m + 1) |-> Body(g, s, f, w)]
  <2>2. \A v \in Calls(s) : Rank(v) <= m => f[v] = h[v]
    <3> SUFFICES ASSUME NEW v \in Calls(s), Rank(v) <= m PROVE f[v] = h[v]
      OBVIOUS
    <3>1. v \in Below(m) /\ v \in Below(m + 1)
      BY <1>1, <1>2
    <3>2. f[v] = Body(g, s, f, v)
      <4> HIDE DEF Below
      <4> QED
        BY <2>1, <3>1 DEF IsSearch
    <3> HIDE DEF Below
    <3> QED
      BY <3>1, <3>2
  <2>3. \A w \in Below(m + 1) : Body(g, s, f, w) = Body(g, s, h, w)
    <3> SUFFICES ASSUME NEW w \in Below(m + 1)
                 PROVE  Body(g, s, f, w) = Body(g, s, h, w)
      OBVIOUS
    <3>1. w \in Calls(s) /\ \A v \in Calls(s) : Rank(v) < Rank(w) => Rank(v) <= m
      BY <1>1, <1>2
    <3> HIDE DEF h, Below
    <3>2. \A v \in Calls(s) : Rank(v) < Rank(w) => f[v] = h[v]
      BY <2>2, <3>1
    <3> QED
      BY <3>1, <3>2, BodyAgrees
  <2>4. DOMAIN h = Below(m + 1) /\ \A w \in Below(m + 1) : h[w] = Body(g, s, h, w)
    <3> HIDE DEF Below
    <3> QED
      BY <2>3
  <2>5. h = [w \in Below(m + 1) |-> Body(g, s, h, w)]
    <3> HIDE DEF Below
    <3> QED
      BY <2>3
  <2>6. IsSearch(g, s, h, Below(m + 1))
    <3> HIDE DEF h, Below
    <3> QED
      BY <2>4, <2>5 DEF IsSearch
  <2> HIDE DEF h, Below
  <2> QED
    BY <1>1, <2>6
<1> HIDE DEF S
<1>5. 0 .. B \subseteq S
  BY <1>1, <1>3, <1>4, UpTo
<1>6. B \in S
  BY <1>1, <1>5
<1>7. Below(B) = Calls(s)
  BY <1>1, <1>2
<1> HIDE DEF Below
<1> QED
  BY <1>6, <1>7 DEF S

Search(g, s) == CHOOSE f : f = [w \in Calls(s) |-> Body(g, s, f, w)]

(* Search satisfies the equation of find_paths at every walk and loop      *)
(* index,                                                                  *)
LEMMA SearchSteps ==
  ASSUME NEW g, NEW s \in Node
  PROVE  /\ \A p \in Walks(s) : Search(g, s)[<<p, N>>] = <<>>
         /\ \A p \in Walks(s), j \in Node :
              Search(g, s)[<<p, j>>] =
                RoundOf(g, s, Search(g, s), p, j) \o Search(g, s)[<<p, j + 1>>]
<1> DEFINE F == Search(g, s)
<1>1. F = [w \in Calls(s) |-> Body(g, s, F, w)]
  <2>1. \E f : f = [w \in Calls(s) |-> Body(g, s, f, w)]
    BY SearchExists DEF IsSearch
  <2> QED
    BY <2>1 DEF Search
<1> HIDE DEF F
<1>2. \A w \in Calls(s) : F[w] = Body(g, s, F, w)
  BY <1>1
<1>3. ASSUME NEW p \in Walks(s) PROVE F[<<p, N>>] = <<>>
  <2>1. <<p, N>> \in Calls(s)
    BY NAssumption DEF Calls
  <2> QED
    BY <1>2, <2>1 DEF Body
<1>4. ASSUME NEW p \in Walks(s), NEW j \in Node
      PROVE  F[<<p, j>>] = RoundOf(g, s, F, p, j) \o F[<<p, j + 1>>]
  <2>1. <<p, j>> \in Calls(s) /\ j # N
    BY NAssumption DEF Calls, Node
  <2> QED
    BY <1>2, <2>1 DEF Body
<1> QED
  BY <1>3, <1>4 DEF F

(* and what the searcher of s writes is its value for the first call.      *)
LEMMA ResultsIsSearch ==
  ASSUME NEW g, NEW s
  PROVE  Results(g, s) = Search(g, s)[<<<<>>, 0>>]
BY DEF Results, Search, Calls, Walks, Body, RoundOf

(* One more node makes a longer path when an edge leads to it and it is    *)
(* neither the start nor on the path already.                              *)
LEMMA PathExtends ==
  ASSUME NEW g, NEW s \in Node, NEW p, IsPath(g, s, p),
         NEW v \in Node \ {s}, v \notin Elements(p), Edge(g, Last(s, p), v)
  PROVE  /\ IsPath(g, s, Append(p, v))
         /\ Len(Append(p, v)) = Len(p) + 1
         /\ Elements(Append(p, v)) = Elements(p) \cup {v}
         /\ Last(s, Append(p, v)) = v
<1> DEFINE q == Append(p, v)
<1>1. p \in Seq(Node \ {s}) /\ Len(p) \in Nat /\ DOMAIN p = 1 .. Len(p)
  BY LenProperties DEF IsPath
<1>2. /\ q \in Seq(Node \ {s}) /\ q # <<>> /\ Len(q) = Len(p) + 1
      /\ \A k \in 1 .. Len(p) : q[k] = p[k]
      /\ q[Len(p) + 1] = v
      /\ DOMAIN q = 1 .. Len(p) + 1
  BY <1>1, AppendProperties, LenProperties
<1>3. \A k \in 1 .. Len(p) : p[k] \in Elements(p)
  BY <1>1 DEF Elements
<1> HIDE DEF q
<1>4. Distinct(q)
  BY <1>1, <1>2, <1>3 DEF Distinct, IsPath
<1>5. Elements(q) = Elements(p) \cup {v}
  <2>1. Elements(q) \subseteq Elements(p) \cup {v}
    BY <1>1, <1>2, <1>3 DEF Elements
  <2>2. v \in Elements(q)
    BY <1>1, <1>2 DEF Elements
  <2>3. \A k \in 1 .. Len(p) : p[k] \in Elements(q)
    <3>1. \A k \in 1 .. Len(p) : k \in DOMAIN q /\ q[k] = p[k]
      BY <1>1, <1>2
    <3> QED
      BY <3>1 DEF Elements
  <2>4. Elements(p) \subseteq Elements(q)
    BY <1>1, <2>3 DEF Elements
  <2> QED
    BY <2>1, <2>2, <2>4
<1>6. Last(s, q) = v
  BY <1>2 DEF Last
<1>7. ASSUME NEW k \in 1 .. Len(q)
      PROVE  Edge(g, IF k = 1 THEN s ELSE q[k - 1], q[k])
  <2>1. CASE k \in 1 .. Len(p)
    <3>1. Edge(g, IF k = 1 THEN s ELSE p[k - 1], p[k])
      BY <2>1 DEF IsPath
    <3>2. q[k] = p[k] /\ (k # 1 => q[k - 1] = p[k - 1])
      BY <1>1, <1>2, <2>1
    <3> QED
      BY <3>1, <3>2
  <2>2. CASE k = Len(p) + 1
    <3>1. q[k] = v
      BY <1>2, <2>2
    <3>2. Last(s, p) = IF k = 1 THEN s ELSE q[k - 1]
      <4>1. CASE p = <<>>
        <5>1. Len(p) = 0
          BY <4>1
        <5> QED
          BY <2>2, <4>1, <5>1 DEF Last
      <4>2. CASE p # <<>>
        <5>1. Len(p) \in 1 .. Len(p)
          BY <1>1, <4>2, EmptySeq
        <5>2. k # 1 /\ k - 1 = Len(p)
          BY <1>1, <2>2, <5>1
        <5> QED
          BY <1>2, <4>2, <5>1, <5>2 DEF Last
      <4> QED
        BY <4>1, <4>2
    <3> QED
      BY <3>1, <3>2
  <2> QED
    BY <1>1, <1>2, <2>1, <2>2
<1> QED
  BY <1>2, <1>4, <1>5, <1>6, <1>7 DEF IsPath, q

-----------------------------------------------------------------------------
(* The line of a tour, and the tours that begin with the walk p and go on  *)
(* with j or a later node; to go on behind the last node is to return.     *)
LineOf(g, s, p) ==
  [start |-> s, path |-> p, sum |-> Weight(g, s, p) + g[Last(s, p)][s]]

ToursOf(g, s) == {q \in [1 .. N - 1 -> Node \ {s}] : IsTour(g, s, q)}

Turn(s, q, n) == IF n = N - 1 THEN s ELSE q[n + 1]

Extends(p, q) == \A k \in 1 .. Len(p) : q[k] = p[k]

Beyond(g, s, p, j) ==
  {q \in ToursOf(g, s) : Extends(p, q) /\ Turn(s, q, Len(p)) >= j}

Now(g, s, p, j) ==
  {q \in ToursOf(g, s) : Extends(p, q) /\ Turn(s, q, Len(p)) = j}

LEMMA LineType ==
  ASSUME NEW g \in Matrix, NEW s \in Node, NEW p \in Seq(Node \ {s})
  PROVE  LineOf(g, s, p) \in Line
<1>1. p \in Seq(Node)
  <2>1. Node \ {s} \subseteq Node
    OBVIOUS
  <2> QED
    BY <2>1, SeqMonotonic
<1>2. Last(s, p) \in Node
  <2>1. CASE p = <<>>
    BY <2>1 DEF Last
  <2>2. CASE p # <<>>
    <3>1. Len(p) \in 1 .. Len(p)
      BY <1>1, <2>2, EmptySeq, LenProperties
    <3> QED
      BY <1>1, <2>2, <3>1, ElementOfSeq DEF Last
  <2> QED
    BY <2>1, <2>2
<1>3. g[Last(s, p)][s] \in Int
  BY <1>2 DEF Matrix
<1>4. Weight(g, s, p) \in Int
  BY <1>1, WeightType
<1> QED
  BY <1>1, <1>3, <1>4 DEF LineOf, Line

(* What the parts of a tour are.                                           *)
LEMMA TourShape ==
  ASSUME NEW g, NEW s \in Node, NEW q \in ToursOf(g, s)
  PROVE  /\ q \in Seq(Node \ {s}) /\ Len(q) = N - 1 /\ DOMAIN q = 1 .. N - 1
         /\ \A k \in 1 .. N - 1 : q[k] \in Node \ {s}
         /\ \A a, b \in 1 .. N - 1 : q[a] = q[b] => a = b
         /\ \A k \in 1 .. N - 1 : Edge(g, IF k = 1 THEN s ELSE q[k - 1], q[k])
         /\ Elements(q) = Node \ {s} /\ Edge(g, Last(s, q), s)
<1>1. q \in [1 .. N - 1 -> Node \ {s}] /\ IsTour(g, s, q)
  BY DEF ToursOf
<1>2. q \in Seq(Node \ {s}) /\ DOMAIN q = 1 .. N - 1
  BY <1>1 DEF IsTour, IsPath
<1>3. Len(q) = N - 1
  BY <1>2, LenProperties, NAssumption
<1>4. \A k \in 1 .. N - 1 : q[k] \in Node \ {s}
  BY <1>1
<1>5. \A a, b \in 1 .. N - 1 : q[a] = q[b] => a = b
  BY <1>1, <1>2 DEF IsTour, IsPath, Distinct
<1>6. \A k \in 1 .. N - 1 : Edge(g, IF k = 1 THEN s ELSE q[k - 1], q[k])
  BY <1>1, <1>3 DEF IsTour, IsPath
<1>7. Elements(q) = Node \ {s} /\ Edge(g, Last(s, q), s)
  BY <1>1 DEF IsTour
<1> QED
  BY <1>2, <1>3, <1>4, <1>5, <1>6, <1>7

(* The next node of a tour is a node.                                      *)
LEMMA TurnType ==
  ASSUME NEW g, NEW s \in Node, NEW q \in ToursOf(g, s), NEW n \in 0 .. N - 1
  PROVE  Turn(s, q, n) \in Node /\ (Turn(s, q, n) = s <=> n = N - 1)
<1>1. CASE n = N - 1
  BY <1>1 DEF Turn
<1>2. CASE n # N - 1
  <2>1. n + 1 \in 1 .. N - 1
    BY <1>2, NAssumption
  <2>2. q[n + 1] \in Node \ {s}
    BY <2>1, TourShape
  <2> QED
    BY <1>2, <2>2 DEF Turn
<1> QED
  BY <1>1, <1>2

(* allvisited and the edge back are right: they hold of the walks that are *)
(* tours.  Such a walk has N - 1 nodes, since it visits as many.           *)
LEMMA ClosingIsTour ==
  ASSUME NEW g, NEW s \in Node, NEW p \in Walks(s), IsPath(g, s, p)
  PROVE  Edge(g, Last(s, p), s) /\ Node \ {s} \subseteq Elements(p)
           <=> p \in ToursOf(g, s)
<1>1. p \in Seq(Node \ {s}) /\ Len(p) \in 0 .. N - 1 /\ DOMAIN p = 1 .. Len(p)
  BY WalkType, WalkLength
<1>2. ASSUME p \in ToursOf(g, s)
      PROVE  Edge(g, Last(s, p), s) /\ Node \ {s} \subseteq Elements(p)
  BY <1>2, TourShape
<1>3. ASSUME Edge(g, Last(s, p), s), Node \ {s} \subseteq Elements(p)
      PROVE  p \in ToursOf(g, s)
  <2>1. \A k \in 1 .. Len(p) : p[k] \in Node \ {s}
    BY <1>1, ElementOfSeq
  <2>2. Elements(p) = Node \ {s}
    BY <1>1, <1>3, <2>1 DEF Elements
  <2>3. IsTour(g, s, p)
    BY <1>3, <2>2 DEF IsTour
  <2>4. CASE Len(p) < N - 1
    <3> DEFINE at == [v \in Node \ {s} |-> CHOOSE k \in 1 .. Len(p) : p[k] = v]
    <3>1. \A v \in Node \ {s} : at[v] \in 1 .. Len(p) /\ p[at[v]] = v
      <4> SUFFICES ASSUME NEW v \in Node \ {s}
                   PROVE  at[v] \in 1 .. Len(p) /\ p[at[v]] = v
        OBVIOUS
      <4>1. \E k \in 1 .. Len(p) : p[k] = v
        BY <1>1, <1>3 DEF Elements
      <4> QED
        BY <4>1
    <3>2. at \in [Node \ {s} -> 1 .. Len(p)]
      BY <3>1
    <3> HIDE DEF at
    <3>3. IsFiniteSet(Node \ {s}) /\ Cardinality(Node \ {s}) = N - 1
      <4>1. IsFiniteSet(Node) /\ Cardinality(Node) = N
        BY FS_Interval, NAssumption DEF Node
      <4> QED
        BY <4>1, FS_RemoveElement
    <3>4. IsFiniteSet(1 .. Len(p)) /\ Cardinality(1 .. Len(p)) = Len(p)
      <4>1. Len(p) \in Nat
        BY <1>1
      <4> QED
        BY <4>1, FS_Interval
    <3>5. PICK u, v \in Node \ {s} : u # v /\ at[u] = at[v]
      BY <2>4, <3>2, <3>3, <3>4, FS_PigeonHole
    <3> QED
      BY <3>1, <3>5
  <2>5. CASE Len(p) = N - 1
    <3>1. p \in [1 .. N - 1 -> Node \ {s}]
      BY <1>1, <2>1, <2>5, LenProperties
    <3> QED
      BY <2>3, <3>1 DEF ToursOf
  <2> QED
    BY <1>1, <2>4, <2>5, NAssumption
<1> QED
  BY <1>2, <1>3

(* A tour that takes no turn before j takes it at j or behind j.           *)
LEMMA BeyondSplits ==
  ASSUME NEW g, NEW s \in Node, NEW p \in Walks(s), NEW j \in Node
  PROVE  /\ Beyond(g, s, p, j) = Now(g, s, p, j) \cup Beyond(g, s, p, j + 1)
         /\ Now(g, s, p, j) \cap Beyond(g, s, p, j + 1) = {}
<1>1. Len(p) \in 0 .. N - 1
  BY WalkLength
<1>2. \A q \in ToursOf(g, s) : Turn(s, q, Len(p)) \in 0 .. N - 1
  BY <1>1, TurnType DEF Node
<1>3. j \in 0 .. N - 1
  BY DEF Node
<1> QED
  BY <1>2, <1>3, NAssumption DEF Beyond, Now

(* After the loop nothing is left to find; before it, every tour that      *)
(* extends the walk.                                                       *)
LEMMA BeyondEnds ==
  ASSUME NEW g, NEW s \in Node, NEW p \in Walks(s)
  PROVE  /\ Beyond(g, s, p, N) = {}
         /\ Beyond(g, s, p, 0) = {q \in ToursOf(g, s) : Extends(p, q)}
<1>1. Len(p) \in 0 .. N - 1
  BY WalkLength
<1>2. \A q \in ToursOf(g, s) : Turn(s, q, Len(p)) \in 0 .. N - 1
  BY <1>1, TurnType DEF Node
<1> QED
  BY <1>2, NAssumption DEF Beyond

(* The base case of a round: the walk itself, when it is a tour.           *)
LEMMA NowClosed ==
  ASSUME NEW g, NEW s \in Node, NEW p \in Walks(s), IsPath(g, s, p)
  PROVE  Now(g, s, p, s) = {q \in {p} : p \in ToursOf(g, s)}
<1>1. Len(p) \in 0 .. N - 1 /\ DOMAIN p = 1 .. Len(p)
  BY WalkLength
<1>2. ASSUME NEW q \in Now(g, s, p, s) PROVE q = p
  <2>1. q \in ToursOf(g, s) /\ Turn(s, q, Len(p)) = s /\ Extends(p, q)
    BY DEF Now
  <2>2. Len(p) = N - 1
    BY <1>1, <2>1, TurnType
  <2>3. DOMAIN q = 1 .. N - 1 /\ q \in Seq(Node \ {s}) /\ Len(q) = N - 1
    BY <2>1, TourShape
  <2>4. p \in Seq(Node \ {s})
    BY WalkType
  <2>5. \A k \in 1 .. Len(p) : q[k] = p[k]
    BY <2>1 DEF Extends
  <2> QED
    BY <2>2, <2>3, <2>4, <2>5, SeqEqual
<1>3. ASSUME p \in ToursOf(g, s) PROVE p \in Now(g, s, p, s)
  <2>1. Len(p) = N - 1
    BY <1>3, TourShape
  <2>2. Turn(s, p, Len(p)) = s
    BY <2>1 DEF Turn
  <2> QED
    BY <1>3, <2>2 DEF Now, Extends
<1>4. Now(g, s, p, s) \subseteq ToursOf(g, s)
  BY DEF Now
<1> QED
  BY <1>2, <1>3, <1>4

(* The recursive case: the tours that turn to j are those that begin with  *)
(* the longer walk; without an edge to an unvisited j there are none.      *)
LEMMA NowDescends ==
  ASSUME NEW g, NEW s \in Node, NEW p \in Walks(s), IsPath(g, s, p),
         NEW j \in Node, j # s
  PROVE  /\ Edge(g, Last(s, p), j) /\ j \notin Elements(p)
              => Now(g, s, p, j) = Beyond(g, s, Append(p, j), 0)
         /\ ~(Edge(g, Last(s, p), j) /\ j \notin Elements(p))
              => Now(g, s, p, j) = {}
<1> DEFINE n == Len(p)
<1>1. n \in 0 .. N - 1 /\ DOMAIN p = 1 .. n /\ p \in Seq(Node \ {s})
  BY WalkLength, WalkType
<1>2. ASSUME NEW q \in Now(g, s, p, j)
      PROVE  /\ n + 1 \in 1 .. N - 1 /\ q[n + 1] = j
             /\ Edge(g, Last(s, p), j) /\ j \notin Elements(p)
  <2>1. q \in ToursOf(g, s) /\ Turn(s, q, n) = j /\ Extends(p, q)
    BY DEF Now
  <2>10. Turn(s, q, n) \in Node /\ (Turn(s, q, n) = s <=> n = N - 1)
    BY <1>1, <2>1, TurnType
  <2>2. n # N - 1 /\ n + 1 \in 1 .. N - 1
    BY <1>1, <2>1, <2>10, NAssumption
  <2>11. /\ q \in Seq(Node \ {s}) /\ Len(q) = N - 1 /\ DOMAIN q = 1 .. N - 1
         /\ \A k \in 1 .. N - 1 : q[k] \in Node \ {s}
         /\ \A a, b \in 1 .. N - 1 : q[a] = q[b] => a = b
         /\ \A k \in 1 .. N - 1 : Edge(g, IF k = 1 THEN s ELSE q[k - 1], q[k])
         /\ Elements(q) = Node \ {s} /\ Edge(g, Last(s, q), s)
    BY <2>1, TourShape
  <2>3. q[n + 1] = j
    BY <2>1, <2>2 DEF Turn
  <2>4. \A k \in 1 .. n : q[k] = p[k]
    BY <2>1 DEF Extends
  <2>5. Edge(g, IF n + 1 = 1 THEN s ELSE q[(n + 1) - 1], q[n + 1])
    BY <2>2, <2>11
  <2>6. (IF n + 1 = 1 THEN s ELSE q[(n + 1) - 1]) = Last(s, p)
    <3>1. CASE p = <<>>
      BY <3>1 DEF Last
    <3>2. CASE p # <<>>
      <4>1. n \in 1 .. n /\ (n + 1) - 1 = n /\ n + 1 # 1
        BY <1>1, <3>2, EmptySeq
      <4>2. q[n] = p[n]
        BY <2>4, <4>1
      <4> QED
        BY <3>2, <4>1, <4>2 DEF Last
    <3> QED
      BY <3>1, <3>2
  <2>8. \A k \in 1 .. n : k \in 1 .. N - 1 /\ k # n + 1
    BY <1>1, NAssumption
  <2>9. j \notin Elements(p)
    BY <1>1, <2>2, <2>3, <2>4, <2>8, <2>11 DEF Elements
  <2> QED
    BY <2>2, <2>3, <2>5, <2>6, <2>9
<1>3. ASSUME Edge(g, Last(s, p), j), j \notin Elements(p)
      PROVE  Now(g, s, p, j) = Beyond(g, s, Append(p, j), 0)
  <2> DEFINE a == Append(p, j)
  <2>1. /\ a \in Walks(s) /\ Len(a) = n + 1 /\ a[n + 1] = j
        /\ \A k \in 1 .. n : a[k] = p[k]
    BY <1>3, WalkExtends
  <2>2. Len(a) \in 0 .. N - 1
    BY <2>1, WalkLength
  <2> HIDE DEF a
  <2>3. ASSUME NEW q \in ToursOf(g, s)
        PROVE  Extends(p, q) /\ Turn(s, q, n) = j <=> Extends(a, q)
    <3>1. Turn(s, q, n) = q[n + 1]
      BY <1>1, <2>1, <2>2, NAssumption DEF Turn
    <3>2. Extends(a, q) <=> Extends(p, q) /\ q[n + 1] = j
      BY <1>1, <2>1 DEF Extends
    <3> QED
      BY <3>1, <3>2
  <2>4. Beyond(g, s, a, 0) = {q \in ToursOf(g, s) : Extends(a, q)}
    BY <2>1, BeyondEnds
  <2>5. Now(g, s, p, j) = {q \in ToursOf(g, s) : Extends(a, q)}
    BY <2>3 DEF Now
  <2> QED
    BY <2>4, <2>5 DEF a
<1> QED
  BY <1>2, <1>3

-----------------------------------------------------------------------------
(* r lists the lines of the tours in Q, each once.                         *)
Found(g, s, r, Q) ==
  /\ r \in Seq(Line) /\ Distinct(r)
  /\ Elements(r) = {LineOf(g, s, q) : q \in Q}

(* Found holds of nothing, of the line of one tour, and of what two        *)
(* searches found when they have no tour in common.                        *)
LEMMA FoundNone == \A g, s : Found(g, s, <<>>, {})
<1>1. <<>> \in Seq(Line) /\ Distinct(<<>>) /\ Elements(<<>>) = {}
  BY DEF Distinct, Elements
<1> QED
  BY <1>1 DEF Found

LEMMA FoundOne ==
  ASSUME NEW g \in Matrix, NEW s \in Node, NEW p \in Seq(Node \ {s})
  PROVE  Found(g, s, <<LineOf(g, s, p)>>, {p})
<1> DEFINE l == LineOf(g, s, p)
<1>1. l \in Line
  BY LineType
<1> HIDE DEF l
<1>2. <<l>> \in Seq(Line) /\ DOMAIN <<l>> = {1} /\ <<l>>[1] = l
  BY <1>1
<1>3. Distinct(<<l>>) /\ Elements(<<l>>) = {l}
  BY <1>2 DEF Distinct, Elements
<1> QED
  BY <1>2, <1>3 DEF Found, l

LEMMA FoundJoined ==
  ASSUME NEW g, NEW s, NEW a, NEW b, NEW P, NEW Q,
         Found(g, s, a, P), Found(g, s, b, Q), P \cap Q = {}
  PROVE  Found(g, s, a \o b, P \cup Q)
<1>1. a \in Seq(Line) /\ b \in Seq(Line) /\ Distinct(a) /\ Distinct(b)
  BY DEF Found
<1>2. Elements(a) \cap Elements(b) = {}
  <2>1. ASSUME NEW p \in P, NEW q \in Q, LineOf(g, s, p) = LineOf(g, s, q)
        PROVE  p = q
    BY <2>1 DEF LineOf
  <2> QED
    BY <2>1 DEF Found
<1>3. /\ a \o b \in Seq(Line)
      /\ Elements(a \o b) = Elements(a) \cup Elements(b)
      /\ Distinct(a \o b)
  BY <1>1, <1>2, Joined
<1>4. Elements(a) \cup Elements(b) = {LineOf(g, s, q) : q \in P \cup Q}
  BY DEF Found
<1> QED
  BY <1>3, <1>4 DEF Found

(* One round, when the calls of longer walks are right.                    *)
LEMMA RoundFinds ==
  ASSUME NEW g \in Matrix, NEW s \in Node, NEW p \in Walks(s), IsPath(g, s, p),
         NEW j \in Node, NEW f,
         j # s /\ Edge(g, Last(s, p), j) /\ j \notin Elements(p) =>
           Found(g, s, f[<<Append(p, j), 0>>], Beyond(g, s, Append(p, j), 0))
  PROVE  Found(g, s, RoundOf(g, s, f, p, j), Now(g, s, p, j))
<1>1. CASE j = s
  <2>1. RoundOf(g, s, f, p, j) = Closed(g, s, p)
    BY <1>1 DEF RoundOf
  <2>2. Now(g, s, p, j) = {q \in {p} : p \in ToursOf(g, s)}
    BY <1>1, NowClosed
  <2>3. CASE Edge(g, Last(s, p), s) /\ Node \ {s} \subseteq Elements(p)
    <3>1. p \in ToursOf(g, s)
      BY <2>3, ClosingIsTour
    <3>2. Now(g, s, p, j) = {p}
      BY <2>2, <3>1
    <3>3. Closed(g, s, p) = <<LineOf(g, s, p)>>
      BY <2>3 DEF Closed, LineOf
    <3>4. p \in Seq(Node \ {s})
      BY WalkType
    <3>5. Found(g, s, <<LineOf(g, s, p)>>, {p})
      BY <3>4, FoundOne
    <3> QED
      BY <2>1, <3>2, <3>3, <3>5
  <2>4. CASE ~(Edge(g, Last(s, p), s) /\ Node \ {s} \subseteq Elements(p))
    <3>1. p \notin ToursOf(g, s)
      BY <2>4, ClosingIsTour
    <3>2. Now(g, s, p, j) = {}
      BY <2>2, <3>1
    <3>3. Closed(g, s, p) = <<>>
      BY <2>4 DEF Closed
    <3> QED
      BY <2>1, <3>2, <3>3, FoundNone
  <2> QED
    BY <2>3, <2>4
<1>2. CASE j # s /\ Edge(g, Last(s, p), j) /\ j \notin Elements(p)
  <2>1. RoundOf(g, s, f, p, j) = f[<<Append(p, j), 0>>]
    BY <1>2 DEF RoundOf
  <2>2. Now(g, s, p, j) = Beyond(g, s, Append(p, j), 0)
    BY <1>2, NowDescends
  <2> QED
    BY <1>2, <2>1, <2>2
<1>3. CASE j # s /\ ~(Edge(g, Last(s, p), j) /\ j \notin Elements(p))
  <2>1. RoundOf(g, s, f, p, j) = <<>>
    BY <1>3 DEF RoundOf
  <2>2. Now(g, s, p, j) = {}
    BY <1>3, NowDescends
  <2> QED
    BY <2>1, <2>2, FoundNone
<1> QED
  BY <1>1, <1>2, <1>3

(* Every call appends the lines of the tours that begin with its walk; by  *)
(* induction on the rank of the call.                                      *)
LEMMA CallFinds ==
  ASSUME NEW g \in Matrix, NEW s \in Node
  PROVE  \A p \in Walks(s), j \in 0 .. N : IsPath(g, s, p) =>
           Found(g, s, Search(g, s)[<<p, j>>], Beyond(g, s, p, j))
<1> DEFINE F == Search(g, s)
           B == N * (N + 1)
           Right(p, j) == IsPath(g, s, p) => Found(g, s, F[<<p, j>>], Beyond(g, s, p, j))
           S == {m \in 0 .. B : \A p \in Walks(s), j \in 0 .. N :
                                  Rank(<<p, j>>) <= m => Right(p, j)}
<1>1. B \in Nat
  BY Products, NAssumption
<1> HIDE DEF F
<1>2. \A p \in Walks(s), j \in 0 .. N : Rank(<<p, j>>) \in 1 .. B
  BY RankDrops
<1>3. /\ \A p \in Walks(s) : F[<<p, N>>] = <<>>
      /\ \A p \in Walks(s), j \in Node :
           F[<<p, j>>] = RoundOf(g, s, F, p, j) \o F[<<p, j + 1>>]
  BY SearchSteps DEF F
<1> HIDE DEF B
<1>4. 0 \in S
  BY <1>1, <1>2
<1>5. ASSUME NEW m \in 0 .. B - 1, m \in S PROVE m + 1 \in S
  <2>1. ASSUME NEW p \in Walks(s), NEW j \in 0 .. N, Rank(<<p, j>>) <= m + 1,
               IsPath(g, s, p)
        PROVE  Found(g, s, F[<<p, j>>], Beyond(g, s, p, j))
    <3>1. CASE j = N
      <4>1. Beyond(g, s, p, N) = {}
        BY BeyondEnds
      <4> QED
        BY <1>3, <3>1, <4>1, FoundNone
    <3>2. CASE j # N
      <4>1. j \in Node /\ j + 1 \in 0 .. N
        BY <3>2, NAssumption DEF Node
      <4>2. Rank(<<p, j + 1>>) <= m
        <5>1. Rank(<<p, j>>) \in 1 .. B /\ Rank(<<p, j + 1>>) = Rank(<<p, j>>) - 1
          BY <1>2, RankDrops
        <5> QED
          BY <1>1, <2>1, <5>1
      <4>3. Found(g, s, F[<<p, j + 1>>], Beyond(g, s, p, j + 1))
        BY <1>5, <2>1, <4>1, <4>2
      <4>4. ASSUME j # s, Edge(g, Last(s, p), j), j \notin Elements(p)
            PROVE  Found(g, s, F[<<Append(p, j), 0>>], Beyond(g, s, Append(p, j), 0))
        <5>1. j \in Node \ {s}
          BY <4>1, <4>4
        <5>2. Append(p, j) \in Walks(s) /\ IsPath(g, s, Append(p, j))
          BY <2>1, <4>4, <5>1, WalkExtends, PathExtends
        <5>3. 0 \in 0 .. N
          BY NAssumption
        <5>4. Rank(<<Append(p, j), 0>>) <= m
          <6>1. \A v \in Node \ {s} : v \notin Elements(p) =>
                  Rank(<<Append(p, v), 0>>) < Rank(<<p, j>>)
            BY RankDrops
          <6>2. Rank(<<Append(p, j), 0>>) < Rank(<<p, j>>)
            BY <4>4, <5>1, <6>1
          <6>3. Rank(<<Append(p, j), 0>>) \in Int /\ Rank(<<p, j>>) \in Int
            <7> DEFINE q == Append(p, j)
            <7>1. q \in Walks(s)
              BY <5>2
            <7> HIDE DEF q
            <7>2. Rank(<<q, 0>>) \in 1 .. B /\ Rank(<<p, j>>) \in 1 .. B
              BY <1>2, <5>3, <7>1
            <7>3. Rank(<<q, 0>>) \in Int /\ Rank(<<p, j>>) \in Int
              BY <1>1, <7>2
            <7> QED
              BY <7>3 DEF q
          <6> QED
            BY <1>1, <2>1, <6>2, <6>3
        <5> QED
          BY <1>5, <5>2, <5>3, <5>4
      <4>5. Found(g, s, RoundOf(g, s, F, p, j), Now(g, s, p, j))
        BY <2>1, <4>1, <4>4, RoundFinds
      <4>6. /\ Beyond(g, s, p, j) = Now(g, s, p, j) \cup Beyond(g, s, p, j + 1)
            /\ Now(g, s, p, j) \cap Beyond(g, s, p, j + 1) = {}
        BY <4>1, BeyondSplits
      <4>7. Found(g, s, RoundOf(g, s, F, p, j) \o F[<<p, j + 1>>],
                        Now(g, s, p, j) \cup Beyond(g, s, p, j + 1))
        BY <4>3, <4>5, <4>6, FoundJoined
      <4>8. F[<<p, j>>] = RoundOf(g, s, F, p, j) \o F[<<p, j + 1>>]
        BY <1>3, <4>1
      <4> QED
        BY <4>6, <4>7, <4>8
    <3> QED
      BY <3>1, <3>2
  <2>2. m + 1 \in 0 .. B
    BY <1>1
  <2> QED
    BY <2>1, <2>2
<1> HIDE DEF S
<1>6. 0 .. B \subseteq S
  BY <1>1, <1>4, <1>5, UpTo
<1>7. B \in S
  BY <1>1, <1>6
<1>8. \A p \in Walks(s), j \in 0 .. N : Rank(<<p, j>>) <= B => Right(p, j)
  <2> HIDE DEF Right
  <2> QED
    BY <1>7 DEF S
<1>9. \A p \in Walks(s), j \in 0 .. N : Rank(<<p, j>>) <= B
  <2> SUFFICES ASSUME NEW p \in Walks(s), NEW j \in 0 .. N
               PROVE  Rank(<<p, j>>) <= B
    OBVIOUS
  <2>1. Rank(<<p, j>>) \in 1 .. B
    BY <1>2
  <2> QED
    BY <1>1, <2>1
<1> QED
  BY <1>8, <1>9 DEF F

(* find_paths.c:45-77: the recursive search from a node appends the line   *)
(* of every tour from that node, with its length, each once, whatever the  *)
(* matrix and however many nodes.                                          *)
THEOREM SearchIsComplete ==
  ASSUME NEW g \in Matrix, NEW s \in Node
  PROVE  /\ Results(g, s) \in Seq(Line) /\ Distinct(Results(g, s))
         /\ Elements(Results(g, s)) = TourLinesFrom(g, s)
<1>1. <<>> \in Seq(Node \ {s}) /\ Distinct(<<>>) /\ Len(<<>>) = 0
  BY DEF Distinct
<1>2. IsPath(g, s, <<>>)
  BY <1>1 DEF IsPath
<1>3. <<>> \in Walks(s)
  BY <1>1, WalkType
<1>4. 0 \in 0 .. N /\ 0 \in Node
  BY NAssumption DEF Node
<1>5. Found(g, s, Search(g, s)[<<<<>>, 0>>], Beyond(g, s, <<>>, 0))
  BY <1>2, <1>3, <1>4, CallFinds
<1>6. Beyond(g, s, <<>>, 0) = ToursOf(g, s)
  <2>1. Beyond(g, s, <<>>, 0) = {q \in ToursOf(g, s) : Extends(<<>>, q)}
    BY <1>3, BeyondEnds
  <2>2. \A q : Extends(<<>>, q)
    BY <1>1 DEF Extends
  <2> QED
    BY <2>1, <2>2
<1>7. TourLinesFrom(g, s) = {LineOf(g, s, q) : q \in ToursOf(g, s)}
  BY DEF TourLinesFrom, ToursOf, LineOf
<1> QED
  BY <1>5, <1>6, <1>7, ResultsIsSearch DEF Found

-----------------------------------------------------------------------------
(* As many different elements as entries.                                  *)
LEMMA ListLength ==
  ASSUME NEW S, NEW r \in Seq(S), Distinct(r)
  PROVE  Cardinality(Elements(r)) = Len(r)
<1>1. Len(r) \in Nat /\ DOMAIN r = 1 .. Len(r) /\ r \in [1 .. Len(r) -> S]
  BY LenProperties
<1>2. r \in [1 .. Len(r) -> Elements(r)]
  BY <1>1 DEF Elements
<1>3. r \in Injection(1 .. Len(r), Elements(r))
  BY <1>1, <1>2 DEF Injection, IsInjective, Distinct
<1>4. r \in Surjection(1 .. Len(r), Elements(r))
  BY <1>1, <1>2 DEF Surjection, Elements
<1>5. Len(r) \in Nat
  BY <1>1
<1>6. IsFiniteSet(1 .. Len(r)) /\ Cardinality(1 .. Len(r)) = Len(r)
  BY <1>5, FS_Interval
<1> QED
  BY <1>3, <1>4, <1>6, FS_Surjection

(* s is the beginning of t.                                                *)
Front(s, t) == Len(s) <= Len(t) /\ \A k \in 1 .. Len(s) : s[k] = t[k]

(* A sequence is a front of any sequence that goes on from it,             *)
LEMMA FrontOfJoin ==
  ASSUME NEW S, NEW a \in Seq(S), NEW b \in Seq(S)
  PROVE  Front(a, a \o b)
<1>1. Len(a) \in Nat /\ Len(b) \in Nat
  BY LenProperties
<1>2. /\ a \o b \in Seq(S) /\ Len(a \o b) = Len(a) + Len(b)
      /\ \A k \in 1 .. Len(a) + Len(b) :
           (a \o b)[k] = IF k <= Len(a) THEN a[k] ELSE b[k - Len(a)]
  BY ConcatProperties
<1> QED
  BY <1>1, <1>2 DEF Front

(* and a front of a sequence without repetition has none.                  *)
LEMMA FrontElements ==
  ASSUME NEW S, NEW a \in Seq(S), NEW t \in Seq(S), Front(a, t), Distinct(t)
  PROVE  Distinct(a) /\ Elements(a) \subseteq Elements(t)
<1>1. /\ Len(a) \in Nat /\ Len(t) \in Nat
      /\ DOMAIN a = 1 .. Len(a) /\ DOMAIN t = 1 .. Len(t)
  BY LenProperties
<1>2. \A k \in DOMAIN a : k \in DOMAIN t /\ a[k] = t[k]
  BY <1>1 DEF Front
<1> QED
  BY <1>2 DEF Distinct, Elements

(* One entry moves from the front of what is left to the end of the list.  *)
LEMMA Moved ==
  ASSUME NEW S, NEW a \in Seq(S), NEW b \in Seq(S), b # <<>>
  PROVE  /\ Head(b) \in S /\ Tail(b) \in Seq(S)
         /\ Append(a, Head(b)) \in Seq(S)
         /\ Append(a, Head(b)) \o Tail(b) = a \o b
<1>1. Head(b) \in S /\ Tail(b) \in Seq(S)
  BY HeadTailProperties
<1>2. Append(a, Head(b)) \in Seq(S)
  BY <1>1, AppendProperties
<1> DEFINE h == Head(b)
           u == Tail(b)
<1>3. b = <<h>> \o u
  <2>1. Len(b) \in Nat /\ Len(b) # 0 /\ Len(u) = Len(b) - 1
        /\ (\A i \in 1 .. Len(u) : u[i] = b[i + 1])
    BY HeadTailProperties, LenProperties, EmptySeq
  <2>2. h = b[1]
    OBVIOUS
  <2> HIDE DEF h, u
  <2>3. <<h>> \in Seq(S) /\ Len(<<h>>) = 1 /\ <<h>>[1] = h /\ u \in Seq(S)
    BY <1>1 DEF h, u
  <2>4. /\ <<h>> \o u \in Seq(S) /\ Len(<<h>> \o u) = Len(<<h>>) + Len(u)
        /\ \A i \in 1 .. Len(<<h>>) + Len(u) :
             (<<h>> \o u)[i] = IF i <= Len(<<h>>) THEN <<h>>[i] ELSE u[i - Len(<<h>>)]
    BY <2>3, ConcatProperties
  <2> DEFINE c == <<h>> \o u
  <2>5. c \in Seq(S) /\ Len(c) = Len(b) /\ \A i \in 1 .. Len(b) : c[i] = b[i]
    <3>1. /\ Len(c) = 1 + Len(u)
          /\ \A i \in 1 .. 1 + Len(u) : c[i] = IF i <= 1 THEN h ELSE u[i - 1]
      BY <2>3, <2>4
    <3>2. Len(c) = Len(b)
      BY <2>1, <3>1
    <3>3. ASSUME NEW i \in 1 .. Len(b) PROVE c[i] = b[i]
      <4>1. i \in 1 .. 1 + Len(u)
        BY <2>1
      <4>2. CASE i = 1
        BY <2>2, <3>1, <4>1, <4>2
      <4>3. CASE i # 1
        <5>1. i - 1 \in 1 .. Len(u) /\ (i - 1) + 1 = i /\ ~(i <= 1)
          BY <2>1, <4>3
        <5> HIDE DEF c
        <5>2. c[i] = u[i - 1]
          BY <3>1, <4>1, <5>1
        <5>3. u[i - 1] = b[(i - 1) + 1]
          BY <2>1, <5>1
        <5> QED
          BY <5>1, <5>2, <5>3
      <4> QED
        BY <4>2, <4>3
    <3> QED
      BY <2>4, <3>2, <3>3
  <2> HIDE DEF c
  <2>6. c = b
    BY <2>5, SeqEqual
  <2> QED
    BY <2>6 DEF c
<1>4. Append(a, h) = a \o <<h>>
  BY <1>1, AppendIsConcat
<1>5. (a \o <<h>>) \o u = a \o (<<h>> \o u)
  <2>1. <<h>> \in Seq(S)
    BY <1>1
  <2> QED
    BY <1>1, <2>1, ConcatAssociative
<1> QED
  BY <1>1, <1>2, <1>3, <1>4, <1>5

-----------------------------------------------------------------------------
(* Every step keeps the types.                                             *)
LEMMA RoundType ==
  ASSUME TypeOK, NEW loop, NEW next, NextRound(loop, next),
         next \in {"wait", "print", "detach"}, loop \in {"fork", "wait", "print"}
  PROVE  /\ pc' \in {"fork", "wait", "print", "detach", "exit", "failed"}
         /\ node' \in Node
         /\ UNCHANGED <<graph, autoReap, regionVars>>
BY NAssumption DEF TypeOK, NextRound, Node

LEMMA BehindType ==
  ASSUME NEW isCut, NEW lines \in Seq(Line)
  PROVE  Behind(isCut, lines) \in Seq(Line)
<1>1. CASE isCut /\ lines # <<>>
  <2>1. Head(lines) \in Line /\ Tail(lines) \in Seq(Line)
    BY <1>1, HeadTailProperties
  <2>2. Wrong(Head(lines)) \in Line
    <3>1. ASSUME NEW l \in Line, NEW i \in Int PROVE [l EXCEPT !.sum = i] \in Line
      BY DEF Line
    <3>2. -1 \in Int
      OBVIOUS
    <3> QED
      BY <2>1, <3>1, <3>2 DEF Wrong
  <2>3. <<Wrong(Head(lines))>> \in Seq(Line)
    BY <2>2
  <2> QED
    BY <1>1, <2>1, <2>3, ConcatProperties DEF Behind
<1> QED
  BY <1>1 DEF Behind

LEMMA TypeStep == TypeOK /\ [Next]_vars => TypeOK'
<1> SUFFICES ASSUME TypeOK, [Next]_vars PROVE TypeOK'
  OBVIOUS
<1> USE DEF ProcState, regionVars
<1>1. CASE Fork
  <2>1. /\ pc' \in {"fork", "wait", "print", "detach", "exit", "failed"}
        /\ node' \in Node
        /\ UNCHANGED <<graph, autoReap, regionVars>>
    BY <1>1, RoundType DEF Fork
  <2> QED
    BY <1>1, <2>1 DEF Fork, TypeOK
<1>2. CASE StartFails
  BY <1>2 DEF StartFails, TypeOK
<1>3. ASSUME NEW n \in Node, WaitReap(n) PROVE TypeOK'
  <2>1. /\ pc' \in {"fork", "wait", "print", "detach", "exit", "failed"}
        /\ node' \in Node
        /\ UNCHANGED <<graph, autoReap, regionVars>>
    BY <1>3, RoundType DEF WaitReap
  <2> QED
    BY <1>3, <2>1 DEF WaitReap, TypeOK
<1>4. CASE WaitFails
  <2>1. /\ pc' \in {"fork", "wait", "print", "detach", "exit", "failed"}
        /\ node' \in Node
        /\ UNCHANGED <<graph, autoReap, regionVars>>
    BY <1>4, RoundType DEF WaitFails
  <2> QED
    BY <1>4, <2>1 DEF WaitFails, TypeOK
<1>5. CASE PrintRegion
  <2>1. /\ pc' \in {"fork", "wait", "print", "detach", "exit", "failed"}
        /\ node' \in Node
        /\ UNCHANGED <<graph, autoReap, regionVars>>
    BY <1>5, RoundType DEF PrintRegion
  <2>2. printed' \in Seq(Line)
    <3>1. Behind(cut, region[node]) \in Seq(Line) /\ printed \in Seq(Line)
      BY BehindType DEF TypeOK
    <3> QED
      BY <1>5, <3>1, ConcatProperties DEF PrintRegion
  <2>3. cut' \in BOOLEAN
    BY <1>5 DEF PrintRegion
  <2> QED
    BY <1>5, <2>1, <2>2, <2>3 DEF PrintRegion, TypeOK
<1>16. CASE PrintPastPage
  <2>1. CASE pc = "print" /\ pc' = "failed" /\ UNCHANGED <<printed, cut>>
    BY <1>16, <2>1 DEF PrintPastPage, NextRound, TypeOK
  <2>2. ASSUME NEW next \in {region[n] : n \in Node} \cup {<<>>},
               printed' = printed \o Behind(cut, region[node]) \o Behind(TRUE, next),
               cut' \in BOOLEAN, NextRound("print", "detach")
        PROVE  TypeOK'
    <3>1. /\ pc' \in {"fork", "wait", "print", "detach", "exit", "failed"}
          /\ node' \in Node
          /\ UNCHANGED <<graph, autoReap, regionVars>>
      BY <2>2, RoundType
    <3>2. next \in Seq(Line)
      <4>1. <<>> \in Seq(Line) /\ \A n \in Node : region[n] \in Seq(Line)
        BY DEF TypeOK
      <4> QED
        BY <4>1
    <3>3. /\ Behind(cut, region[node]) \in Seq(Line) /\ printed \in Seq(Line)
          /\ Behind(TRUE, next) \in Seq(Line)
      BY <3>2, BehindType DEF TypeOK
    <3>4. printed' \in Seq(Line)
      BY <2>2, <3>3, ConcatProperties
    <3> QED
      BY <1>16, <2>2, <3>1, <3>4 DEF PrintPastPage, TypeOK
  <2> QED
    BY <1>16, <2>1, <2>2 DEF PrintPastPage
<1>6. CASE Exit
  BY <1>6 DEF Exit, TypeOK
<1>7. ASSUME NEW n \in Node, Exec(n) PROVE TypeOK'
  <2>1. Results(graph, n) \in Seq(Line)
    BY SearchIsComplete DEF TypeOK
  <2> QED
    BY <1>7, <2>1 DEF Exec, Searcher, mainVars, regionVars, TypeOK
<1>8. ASSUME NEW n \in Node, ExecFails(n) PROVE TypeOK'
  BY <1>8 DEF ExecFails, Fails, Searcher, mainVars, Dies, TypeOK
<1>9. ASSUME NEW n \in Node, Killed(n) PROVE TypeOK'
  BY <1>9 DEF Killed, Fails, Searcher, mainVars, Dies, TypeOK
<1>17. ASSUME NEW n \in Node, KilledWriting(n) PROVE TypeOK'
  BY <1>17 DEF KilledWriting, Fails, Searcher, mainVars, Dies, TypeOK
<1>10. ASSUME NEW n \in Node, todo[n] # <<>>
       PROVE  /\ Head(todo[n]) \in Line /\ Tail(todo[n]) \in Seq(Line)
              /\ Append(region[n], Head(todo[n])) \in Seq(Line)
              /\ Append(region[n], Wrong(Head(todo[n]))) \in Seq(Line)
  <2>1. region[n] \in Seq(Line) /\ todo[n] \in Seq(Line)
    BY DEF TypeOK
  <2>2. Head(todo[n]) \in Line /\ Tail(todo[n]) \in Seq(Line)
    BY <1>10, <2>1, HeadTailProperties
  <2>3. Wrong(Head(todo[n])) \in Line
    <3>1. ASSUME NEW l \in Line, NEW i \in Int PROVE [l EXCEPT !.sum = i] \in Line
      BY DEF Line
    <3>2. -1 \in Int
      OBVIOUS
    <3> QED
      BY <2>2, <3>1, <3>2 DEF Wrong
  <2> QED
    BY <2>1, <2>2, <2>3, AppendProperties
<1>11. ASSUME NEW n \in Node, Write(n) PROVE TypeOK'
  <2>1. todo[n] # <<>> /\ todo' = [todo EXCEPT ![n] = Tail(todo[n])]
        /\ region' = [region EXCEPT ![n] = Append(region[n], Head(todo[n]))]
    BY <1>11 DEF Write, Finds, Adds
  <2>2. todo' \in [Node -> Seq(Line)] /\ region' \in [Node -> Seq(Line)]
    BY <1>10, <2>1 DEF TypeOK
  <2> QED
    BY <1>11, <2>2 DEF Write, Finds, Searcher, mainVars, regionVars, TypeOK
<1>12. ASSUME NEW n \in Node, Overflow(n) PROVE TypeOK'
  <2>1. <<>> \in Seq(Line)
    OBVIOUS
  <2>2. todo' \in [Node -> Seq(Line)]
    BY <1>10, <1>12, <2>1 DEF Overflow, Finds, Fails, TypeOK
  <2> QED
    BY <1>12, <2>2 DEF Overflow, Finds, Fails, Searcher, mainVars, Dies, TypeOK
<1>13. ASSUME NEW n \in Node, WriteSpoiled(n) PROVE TypeOK'
  <2>1. todo[n] # <<>> /\ todo' = [todo EXCEPT ![n] = Tail(todo[n])]
    BY <1>13 DEF WriteSpoiled, Finds
  <2>2. todo' \in [Node -> Seq(Line)]
    BY <1>10, <2>1 DEF TypeOK
  <2>3. region' \in [Node -> Seq(Line)]
    BY <1>10, <1>13, <2>1 DEF WriteSpoiled, Adds, TypeOK
  <2> QED
    BY <1>13, <2>2, <2>3 DEF WriteSpoiled, Finds, Searcher, mainVars, regionVars, TypeOK
<1>14. ASSUME NEW n \in Node, Ends(n) PROVE TypeOK'
  BY <1>14 DEF Ends, Searcher, mainVars, regionVars, Dies, TypeOK
<1>15. CASE UNCHANGED vars
  BY <1>15 DEF vars, mainVars, regionVars, TypeOK
<1> QED
  BY <1>1, <1>2, <1>3, <1>4, <1>5, <1>6, <1>7, <1>8, <1>9, <1>11, <1>12, <1>13,
     <1>14, <1>15, <1>16, <1>17 DEF Next, Main, Runs

(* Every part of the state of tsp_p and its searchers has its type.        *)
THEOREM TypeCorrect == Spec => []TypeOK
<1>1. Init => TypeOK
  <2> SUFFICES ASSUME Init PROVE TypeOK
    OBVIOUS
  <2>1. graph \in Matrix
    BY GraphsAssumption DEF Init
  <2>2. 0 \in Node /\ <<>> \in Seq(Line)
    BY NAssumption DEF Node
  <2> QED
    BY <2>1, <2>2 DEF Init, TypeOK, ProcState
<1> QED
  BY <1>1, TypeStep, PTL DEF Spec

-----------------------------------------------------------------------------
(* The regions.  A node's searcher has not been born yet, or its lines are *)
(* split between its region and what it has still to find; unless it was   *)
(* lost it leaves the region full.                                         *)
RegionIs(r, rest, state, isLost, all) ==
  /\ state \in {"none", "forked"} => r = <<>>
  /\ Front(r, all)
  /\ state = "running" => r \o rest = all
  /\ state \in {"zombie", "gone"} /\ ~isLost => r = all

RegionOK(n) ==
  RegionIs(region[n], todo[n], proc[n], n \in lost, Results(graph, n))

RegionsRight == ~spoiled => \A n \in Node : RegionOK(n)

Unborn == pc = "fork" => \A n \in Node : n >= node => proc[n] = "none"

(* No region is too small.                                                 *)
AllFit == \A n \in Node : Cardinality(TourLinesFrom(graph, n)) <= PageLines

NoneSpoils == AllFit => ~spoiled

(* Only a searcher that was killed leaves a part of a line, and not where  *)
(* the page ends.                                                          *)
TornOK ==
  ~spoiled => \A n \in torn : n \in lost /\ Fits(n) /\ proc[n] \in {"zombie", "gone"}

LEMMA UnbornStep == TypeOK /\ Unborn /\ [Next]_vars => Unborn'
<1> SUFFICES ASSUME TypeOK, Unborn, [Next]_vars PROVE Unborn'
  OBVIOUS
<1>1. CASE Fork
  <2>1. pc = "fork" /\ node \in Node /\ proc' = [proc EXCEPT ![node] = "forked"]
        /\ (pc' = "fork" => node' = node + 1)
    BY <1>1 DEF Fork, NextRound, regionVars, TypeOK
  <2> QED
    BY <2>1 DEF Unborn, Node, TypeOK
<1>2. CASE StartFails \/ Exit
  BY <1>2 DEF StartFails, Exit, Unborn
<1>3. CASE WaitFails \/ PrintRegion \/ PrintPastPage \/ \E n \in Node : WaitReap(n)
  BY <1>3 DEF WaitFails, WaitReap, PrintRegion, PrintPastPage, NextRound, Unborn
<1>4. ASSUME NEW n \in Node, Runs(n) \/ ExecFails(n) \/ Killed(n) \/ KilledWriting(n)
      PROVE  Unborn'
  <2>1. proc[n] # "none" /\ UNCHANGED <<pc, node>>
    BY <1>4 DEF Runs, ExecFails, Killed, KilledWriting, Fails, Exec, Write, Overflow,
       WriteSpoiled, Ends,
                Finds, Searcher, mainVars, regionVars
  <2>2. \E state \in {"running", "zombie", "gone"} :
          proc' = proc \/ proc' = [proc EXCEPT ![n] = state]
    BY <1>4 DEF Runs, ExecFails, Killed, KilledWriting, Fails, Exec, Write, Overflow,
       WriteSpoiled, Ends,
                Finds, Dies
  <2> QED
    BY <2>1, <2>2 DEF Unborn, TypeOK
<1>5. CASE UNCHANGED vars
  BY <1>5 DEF vars, mainVars, regionVars, Unborn
<1> QED
  BY <1>1, <1>2, <1>3, <1>4, <1>5 DEF Next, Main

(* A step of one searcher n leaves the other regions as they are.          *)
LEMMA OthersRegions ==
  ASSUME TypeOK, RegionsRight, NEW n \in Node,
         Runs(n) \/ ExecFails(n) \/ Killed(n) \/ KilledWriting(n), ~spoiled
  PROVE  graph' = graph /\ \A m \in Node : m # n => RegionOK(m)'
<1>1. graph' = graph
  BY DEF Runs, ExecFails, Killed, KilledWriting, Fails, Exec, Write, Overflow,
     WriteSpoiled, Ends, Finds,
         Searcher
<1>2. ASSUME NEW m \in Node, m # n
      PROVE  /\ region'[m] = region[m] /\ todo'[m] = todo[m] /\ proc'[m] = proc[m]
             /\ (m \in lost') = (m \in lost)
  <2>1. region'[m] = region[m]
    BY <1>2 DEF Runs, ExecFails, Killed, KilledWriting, Fails, Exec, Write, Overflow,
       WriteSpoiled, Ends,
                Adds, regionVars, TypeOK
  <2>2. todo'[m] = todo[m]
    BY <1>2 DEF Runs, ExecFails, Killed, KilledWriting, Fails, Exec, Write, Overflow,
       WriteSpoiled, Ends,
                Finds, regionVars, TypeOK
  <2>3. proc'[m] = proc[m]
    BY <1>2 DEF Runs, ExecFails, Killed, KilledWriting, Fails, Exec, Write, Overflow,
       WriteSpoiled, Ends,
                Finds, Dies, regionVars, TypeOK
  <2>4. lost' = lost \/ lost' = lost \cup {n}
    BY DEF Runs, ExecFails, Killed, KilledWriting, Fails, Exec, Write, Overflow,
       WriteSpoiled, Ends, Finds,
       regionVars
  <2> QED
    BY <1>2, <2>1, <2>2, <2>3, <2>4
<1>3. ASSUME NEW m \in Node, m # n PROVE RegionOK(m)'
  <2>1. RegionIs(region[m], todo[m], proc[m], m \in lost, Results(graph, m))
    BY DEF RegionsRight, RegionOK
  <2>2. Results(graph, m)' = Results(graph, m)
    BY <1>1
  <2> QED
    BY <1>2, <1>3, <2>1, <2>2 DEF RegionOK
<1> QED
  BY <1>1, <1>3

(* The searcher's own region.                                              *)
LEMMA OwnRegion ==
  ASSUME TypeOK, RegionsRight, NEW n \in Node,
         Runs(n) \/ ExecFails(n) \/ Killed(n) \/ KilledWriting(n), ~spoiled, ~spoiled'
  PROVE  RegionOK(n)'
<1> DEFINE R == Results(graph, n)
<1>1. /\ graph' = graph
      /\ RegionIs(region[n], todo[n], proc[n], n \in lost, R)
  BY DEF RegionsRight, RegionOK, Runs, ExecFails, Killed, KilledWriting, Fails, Exec,
     Write, Overflow,
         WriteSpoiled, Ends, Finds, Searcher
<1>2. /\ region[n] \in Seq(Line) /\ todo[n] \in Seq(Line) /\ R \in Seq(Line)
  BY SearchIsComplete DEF TypeOK
<1>3. Results(graph, n)' = R
  BY <1>1
<1> HIDE DEF R
<1>4. Front(<<>>, R) /\ <<>> \o R = R
  <2>1. Len(<<>>) = 0 /\ Len(R) \in Nat
    BY <1>2, LenProperties
  <2> QED
    BY <1>2, <2>1, ConcatEmptySeq DEF Front
<1>5. SUFFICES RegionIs(region'[n], todo'[n], proc'[n], n \in lost', R)
  BY <1>3 DEF RegionOK
<1>6. CASE Exec(n)
  <2>1. /\ region[n] = <<>> /\ region'[n] = region[n]
        /\ proc'[n] = "running" /\ todo'[n] = Results(graph, n)
    BY <1>1, <1>6 DEF Exec, Searcher, RegionIs, TypeOK
  <2> QED
    BY <1>4, <2>1 DEF RegionIs, R
<1>7. CASE ExecFails(n) \/ Killed(n) \/ KilledWriting(n)
  <2>1. region'[n] = region[n] /\ proc'[n] \in {"zombie", "gone"} /\ n \in lost'
    BY <1>7 DEF ExecFails, Killed, KilledWriting, Fails, Dies, TypeOK
  <2> QED
    BY <1>1, <2>1 DEF RegionIs
<1>8. CASE Write(n)
  <2>1. /\ todo[n] # <<>> /\ proc'[n] = proc[n] /\ proc[n] = "running"
        /\ todo'[n] = Tail(todo[n])
        /\ region'[n] = Append(region[n], Head(todo[n]))
    BY <1>8 DEF Write, Finds, Searcher, Adds, regionVars, TypeOK
  <2>4. region[n] \o todo[n] = R
    BY <1>1, <2>1 DEF RegionIs
  <2>5. /\ Head(todo[n]) \in Line /\ Tail(todo[n]) \in Seq(Line)
        /\ Append(region[n], Head(todo[n])) \in Seq(Line)
        /\ Append(region[n], Head(todo[n])) \o Tail(todo[n]) = region[n] \o todo[n]
    <3>1. \A a, b \in Seq(Line) : b # <<>> =>
            /\ Head(b) \in Line /\ Tail(b) \in Seq(Line)
            /\ Append(a, Head(b)) \in Seq(Line)
            /\ Append(a, Head(b)) \o Tail(b) = a \o b
      BY Moved
    <3> QED
      BY <1>2, <2>1, <3>1
  <2>2. /\ region'[n] \o todo'[n] = R
        /\ region'[n] \in Seq(Line) /\ todo'[n] \in Seq(Line)
    BY <2>1, <2>4, <2>5
  <2>3. Front(region'[n], R)
    BY <2>2, FrontOfJoin
  <2> QED
    BY <2>1, <2>2, <2>3 DEF RegionIs
<1>9. CASE Overflow(n)
  BY <1>9 DEF Overflow
<1>10. CASE WriteSpoiled(n)
  BY <1>10 DEF WriteSpoiled
<1>11. CASE Ends(n)
  <2>1. /\ region'[n] = region[n] /\ proc'[n] \in {"zombie", "gone"}
        /\ proc[n] = "running" /\ todo[n] = <<>>
    BY <1>11 DEF Ends, Searcher, Dies, regionVars, TypeOK
  <2>2. region[n] = R
    BY <1>1, <1>2, <2>1, ConcatEmptySeq DEF RegionIs
  <2> QED
    BY <1>1, <2>1, <2>2 DEF RegionIs
<1> QED
  BY <1>6, <1>7, <1>8, <1>9, <1>10, <1>11 DEF Runs

LEMMA RegionsStep ==
  TypeOK /\ Unborn /\ RegionsRight /\ [Next]_vars => RegionsRight'
<1> SUFFICES ASSUME TypeOK, Unborn, RegionsRight, [Next]_vars, ~spoiled'
             PROVE  \A n \in Node : RegionOK(n)'
  BY DEF RegionsRight
<1>1. ASSUME NEW n \in Node, Runs(n) \/ ExecFails(n) \/ Killed(n) \/ KilledWriting(n)
      PROVE  \A m \in Node : RegionOK(m)'
  <2>1. ~spoiled
    BY <1>1 DEF Runs, ExecFails, Killed, KilledWriting, Fails, Exec, Write, Overflow,
       WriteSpoiled, Ends,
                regionVars
  <2> QED
    BY <1>1, <2>1, OthersRegions, OwnRegion
<1>2. ASSUME UNCHANGED <<graph, region, todo, lost, spoiled>>,
             \A n \in Node : \/ proc'[n] = proc[n]
                             \/ proc[n] = "none" /\ proc'[n] = "forked"
                             \/ proc[n] = "zombie" /\ proc'[n] = "gone"
      PROVE  \A n \in Node : RegionOK(n)'
  <2> SUFFICES ASSUME NEW n \in Node PROVE RegionOK(n)'
    OBVIOUS
  <2>1. RegionIs(region[n], todo[n], proc[n], n \in lost, Results(graph, n))
    BY <1>2 DEF RegionsRight, RegionOK
  <2>2. Results(graph, n)' = Results(graph, n)
    BY <1>2
  <2>3. RegionIs(region[n], todo[n], proc'[n], n \in lost, Results(graph, n))
    BY <1>2, <2>1 DEF RegionIs
  <2> QED
    BY <1>2, <2>2, <2>3 DEF RegionOK
<1>3. CASE Fork
  <2>1. pc = "fork" /\ node \in Node /\ proc' = [proc EXCEPT ![node] = "forked"]
        /\ UNCHANGED <<graph, region, todo, lost, spoiled>>
    BY <1>3 DEF Fork, NextRound, regionVars, TypeOK
  <2>2. proc[node] = "none"
    BY <2>1 DEF Unborn, Node
  <2> QED
    BY <1>2, <2>1, <2>2 DEF TypeOK
<1>4. ASSUME NEW n \in Node, WaitReap(n) PROVE \A m \in Node : RegionOK(m)'
  BY <1>2, <1>4 DEF WaitReap, NextRound, regionVars, TypeOK
<1>5. CASE StartFails \/ WaitFails \/ PrintRegion \/ PrintPastPage \/ Exit
  BY <1>2, <1>5 DEF StartFails, WaitFails, PrintRegion, PrintPastPage, Exit, NextRound,
                      regionVars
<1>6. CASE UNCHANGED vars
  BY <1>2, <1>6 DEF vars, mainVars, regionVars
<1> QED
  BY <1>1, <1>3, <1>4, <1>5, <1>6 DEF Next, Main

(* A region that is full when one more line comes belongs to a node with   *)
(* more tours than fit.                                                    *)
LEMMA NoneSpoilsStep ==
  TypeOK /\ RegionsRight /\ NoneSpoils /\ [Next]_vars => NoneSpoils'
<1> SUFFICES ASSUME TypeOK, RegionsRight, NoneSpoils, [Next]_vars, AllFit', spoiled'
             PROVE  FALSE
  BY DEF NoneSpoils
<1>1. graph' = graph
  BY DEF Next, Main, Fork, StartFails, WaitFails, WaitReap, PrintRegion, PrintPastPage,
     Exit,
         NextRound, regionVars, Runs, ExecFails, Killed, KilledWriting, Fails, Exec,
         Write, Overflow, WriteSpoiled,
         Ends, Finds, Searcher, vars
<1>2. AllFit
  BY <1>1 DEF AllFit
<1>3. ~spoiled
  BY <1>2 DEF NoneSpoils
<1>4. PICK n \in Node : ~Fits(n) /\ Searcher(n, "running") /\ todo[n] # <<>>
  BY <1>3 DEF Next, Main, Fork, StartFails, WaitFails, WaitReap, PrintRegion,
     PrintPastPage, Exit,
         NextRound, regionVars, Runs, ExecFails, Killed, KilledWriting, Fails, Exec,
         Write, Overflow, WriteSpoiled,
         Ends, vars
<1> DEFINE R == Results(graph, n)
<1>5. /\ R \in Seq(Line) /\ Distinct(R) /\ Elements(R) = TourLinesFrom(graph, n)
  BY SearchIsComplete DEF TypeOK
<1> HIDE DEF R
<1>6. Len(R) <= PageLines
  BY <1>2, <1>5, ListLength DEF AllFit
<1>7. /\ region[n] \in Seq(Line) /\ todo[n] \in Seq(Line) /\ todo[n] # <<>>
      /\ region[n] \o todo[n] = R
  BY <1>3, <1>4 DEF TypeOK, Searcher, RegionsRight, RegionOK, RegionIs, R
<1>8. /\ Len(region[n]) \in Nat /\ Len(todo[n]) \in Nat /\ Len(todo[n]) # 0
      /\ Len(R) = Len(region[n]) + Len(todo[n])
  BY <1>7, ConcatProperties, LenProperties, EmptySeq
<1>9. Len(region[n]) >= PageLines
  BY <1>4, <1>8, PageAssumption DEF Fits
<1> DEFINE a == Len(region[n])
           b == Len(todo[n])
           c == Len(R)
<1>10. a \in Nat /\ b \in Nat /\ b # 0 /\ c = a + b /\ c <= PageLines /\ a >= PageLines
  BY <1>6, <1>8, <1>9
<1> HIDE DEF a, b, c
<1> QED
  BY <1>10, PageAssumption

LEMMA TornStep == TypeOK /\ Unborn /\ TornOK /\ [Next]_vars => TornOK'
<1> SUFFICES ASSUME TypeOK, Unborn, TornOK, [Next]_vars, ~spoiled', NEW m \in torn'
             PROVE  m \in lost' /\ Fits(m)' /\ proc'[m] \in {"zombie", "gone"}
  BY DEF TornOK
<1>1. ASSUME NEW n \in Node, Runs(n) \/ ExecFails(n) \/ Killed(n) \/ KilledWriting(n)
      PROVE  m \in lost' /\ Fits(m)' /\ proc'[m] \in {"zombie", "gone"}
  <2>1. ~spoiled /\ ~Overflow(n) /\ proc[n] \in {"forked", "running"}
    BY <1>1 DEF Runs, ExecFails, Killed, KilledWriting, Exec, Write, Overflow,
                WriteSpoiled, Ends, Finds, Searcher, regionVars
  <2>2. CASE m \in torn
    <3>1. m \in lost /\ Fits(m) /\ proc[m] \in {"zombie", "gone"} /\ m # n
      BY <2>1, <2>2 DEF TornOK
    <3>2. region'[m] = region[m] /\ proc'[m] = proc[m] /\ m \in Node
      BY <1>1, <2>1, <2>2, <3>1 DEF Runs, ExecFails, Killed, KilledWriting, Fails, Exec,
         Write, WriteSpoiled, Ends, Finds, Adds, Dies, regionVars, TypeOK
    <3>3. lost \subseteq lost'
      BY <1>1, <2>1 DEF Runs, ExecFails, Killed, KilledWriting, Fails, Exec, Write,
         WriteSpoiled, Ends, Finds, regionVars
    <3> QED
      BY <3>1, <3>2, <3>3 DEF Fits
  <2>3. CASE m \notin torn
    <3>1. KilledWriting(n) /\ m = n
      BY <1>1, <2>1, <2>3 DEF Runs, ExecFails, Killed, KilledWriting, Exec, Write,
         WriteSpoiled, Ends, regionVars
    <3> QED
      BY <3>1 DEF KilledWriting, Fails, Dies, Fits, TypeOK
  <2> QED
    BY <2>2, <2>3
<1>2. ASSUME UNCHANGED <<torn, spoiled, lost, region>>,
             \A n \in Node : \/ proc'[n] = proc[n]
                             \/ proc[n] = "none"
                             \/ proc[n] = "zombie" /\ proc'[n] = "gone"
      PROVE  m \in lost' /\ Fits(m)' /\ proc'[m] \in {"zombie", "gone"}
  <2>1. m \in torn /\ m \in lost /\ Fits(m) /\ proc[m] \in {"zombie", "gone"}
    BY <1>2 DEF TornOK
  <2> QED
    BY <1>2, <2>1 DEF Fits, TypeOK
<1>3. CASE Fork
  <2>1. pc = "fork" /\ node \in Node /\ proc' = [proc EXCEPT ![node] = "forked"]
        /\ UNCHANGED <<torn, spoiled, lost, region>>
    BY <1>3 DEF Fork, NextRound, regionVars, TypeOK
  <2>2. proc[node] = "none"
    BY <2>1 DEF Unborn, Node
  <2> QED
    BY <1>2, <2>1, <2>2 DEF TypeOK
<1>4. ASSUME NEW n \in Node, WaitReap(n)
      PROVE  m \in lost' /\ Fits(m)' /\ proc'[m] \in {"zombie", "gone"}
  BY <1>2, <1>4 DEF WaitReap, NextRound, regionVars, TypeOK
<1>5. CASE StartFails \/ WaitFails \/ PrintRegion \/ PrintPastPage \/ Exit
  BY <1>2, <1>5 DEF StartFails, WaitFails, PrintRegion, PrintPastPage, Exit, NextRound,
                    regionVars
<1>6. CASE UNCHANGED vars
  BY <1>2, <1>6 DEF vars, mainVars, regionVars
<1> QED
  BY <1>1, <1>3, <1>4, <1>5, <1>6 DEF Next, Main

-----------------------------------------------------------------------------
(* What is on stdout: the regions of the nodes below Shown, in order; one  *)
(* behind a part of a line has lost its first line to that part.           *)
Shown ==
  IF pc = "print" THEN node ELSE IF pc \in {"detach", "exit"} THEN N ELSE 0

PrintedIs(out, k, regions) ==
  /\ Distinct(out)
  /\ \A a \in DOMAIN out :
       /\ out[a].start \in Node /\ out[a].start < k
       /\ out[a] \in Elements(regions[out[a].start])
  /\ \A a, b \in DOMAIN out : a < b => out[a].start <= out[b].start
  /\ \A n \in Node : n < k => Elements(regions[n]) \subseteq Elements(out)

TornBelow(n) == \E m \in torn : m < n

(* What the text of every printed node came out as.                        *)
ShownAs(k, texts) ==
  \A n \in Node : n < k =>
    texts[n] = region[n] \/ (TornBelow(n) /\ texts[n] = Behind(TRUE, region[n]))

PrintedRight ==
  ~spoiled =>
    /\ Shown = 0 => printed = <<>> /\ ~cut
    /\ cut => TornBelow(Shown)
    /\ \E texts \in [Node -> Seq(Line)] :
         ShownAs(Shown, texts) /\ PrintedIs(printed, Shown, texts)

ProcsInv ==
  /\ TypeOK /\ CountInv /\ Unborn
  /\ RegionsRight /\ TornOK /\ NoneSpoils /\ PrintedRight

(* What is in a region are lines of tours of its node.                     *)
LEMMA RegionLines ==
  ASSUME TypeOK, RegionsRight, ~spoiled, NEW n \in Node
  PROVE  /\ region[n] \in Seq(Line) /\ Distinct(region[n])
         /\ Elements(region[n]) \subseteq TourLinesFrom(graph, n)
<1> DEFINE R == Results(graph, n)
<1>1. /\ R \in Seq(Line) /\ Distinct(R) /\ Elements(R) = TourLinesFrom(graph, n)
  BY SearchIsComplete DEF TypeOK
<1>2. region[n] \in Seq(Line) /\ Front(region[n], R)
  BY DEF TypeOK, RegionsRight, RegionOK, RegionIs
<1> HIDE DEF R
<1>3. Distinct(region[n]) /\ Elements(region[n]) \subseteq Elements(R)
  BY <1>1, <1>2, FrontElements
<1> QED
  BY <1>1, <1>2, <1>3

(* The lines of a node's tours, also where the first of them has lost its  *)
(* sum: the walk alone tells two of them apart.                            *)
LEMMA BehindLines ==
  ASSUME NEW g, NEW n \in Node, NEW r \in Seq(Line), Distinct(r),
         Elements(r) \subseteq TourLinesFrom(g, n), NEW isCut
  PROVE  /\ Behind(isCut, r) \in Seq(Line) /\ Distinct(Behind(isCut, r))
         /\ \A l \in Elements(Behind(isCut, r)) :
              l.start = n /\ (l \in Elements(r) \/ l.sum = -1)
         /\ \A k, l \in Elements(r) \ Elements(Behind(isCut, r)) : k = l
<1> DEFINE b == Behind(isCut, r)
<1>1. b \in Seq(Line)
  BY BehindType
<1>2. \A l \in Elements(r) : l.start = n
  BY DEF TourLinesFrom
<1>3. \A k, l \in Elements(r) : k.path = l.path => k = l
  BY DEF TourLinesFrom
<1>4. CASE b = r
  BY <1>1, <1>2, <1>4
<1>5. CASE b # r
  <2>1. r # <<>> /\ b = <<Wrong(Head(r))>> \o Tail(r)
    BY <1>5 DEF Behind
  <2>2. /\ Len(r) \in Nat /\ Len(r) # 0 /\ Head(r) = r[1] /\ DOMAIN r = 1 .. Len(r)
        /\ Tail(r) \in Seq(Line) /\ Len(Tail(r)) = Len(r) - 1
        /\ \A i \in 1 .. Len(r) - 1 : Tail(r)[i] = r[i + 1]
    BY <2>1, HeadTailProperties, LenProperties, EmptySeq
  <2>3. r[1] \in Elements(r) /\ r[1] \in Line
    BY <2>2, ElementOfSeq DEF Elements
  <2>4. /\ Wrong(r[1]).sum = -1 /\ Wrong(r[1]).start = r[1].start
        /\ Wrong(r[1]).path = r[1].path /\ Wrong(r[1]) \in Line
    <3>1. ASSUME NEW l \in Line, NEW i \in Int
          PROVE  /\ [l EXCEPT !.sum = i] \in Line /\ [l EXCEPT !.sum = i].sum = i
                 /\ [l EXCEPT !.sum = i].start = l.start
                 /\ [l EXCEPT !.sum = i].path = l.path
      BY DEF Line
    <3>2. -1 \in Int
      OBVIOUS
    <3> QED
      BY <2>3, <3>1, <3>2 DEF Wrong
  <2>5. /\ <<Wrong(r[1])>> \in Seq(Line) /\ Len(<<Wrong(r[1])>>) = 1
        /\ <<Wrong(r[1])>>[1] = Wrong(r[1])
    BY <2>4
  <2>6. /\ Len(b) = Len(r)
        /\ \A i \in 1 .. Len(r) : b[i] = IF i <= 1 THEN <<Wrong(r[1])>>[i]
                                        ELSE Tail(r)[i - 1]
    <3>1. /\ Len(b) = 1 + (Len(r) - 1)
          /\ \A i \in 1 .. 1 + (Len(r) - 1) : b[i] = IF i <= 1 THEN <<Wrong(r[1])>>[i]
                                                   ELSE Tail(r)[i - 1]
      BY <2>1, <2>2, <2>5, ConcatProperties
    <3>2. 1 + (Len(r) - 1) = Len(r)
      BY <2>2
    <3> QED
      BY <3>1, <3>2
  <2>7. /\ DOMAIN b = 1 .. Len(r)
        /\ \A i \in 1 .. Len(r) : b[i] = IF i = 1 THEN Wrong(r[1]) ELSE r[i]
    <3>1. DOMAIN b = 1 .. Len(r)
      BY <1>1, <2>6, LenProperties
    <3>2. b[1] = Wrong(r[1])
      BY <2>2, <2>5, <2>6
    <3>3. ASSUME NEW i \in 1 .. Len(r), i # 1 PROVE b[i] = r[i]
      <4>1. ~(i <= 1) /\ i - 1 \in 1 .. Len(r) - 1 /\ (i - 1) + 1 = i
        BY <2>2, <3>3
      <4>2. b[i] = Tail(r)[i - 1] /\ Tail(r)[i - 1] = r[(i - 1) + 1]
        BY <2>2, <2>6, <4>1
      <4> QED
        BY <4>1, <4>2
    <3> QED
      BY <3>1, <3>2, <3>3
  <2> HIDE DEF b
  <2>8. \A i \in 1 .. Len(r) : r[i] \in Elements(r)
    BY <2>2 DEF Elements
  <2>9. \A i, j \in 1 .. Len(r) : i # j => r[i] # r[j]
    BY <2>2 DEF Distinct
  <2>10. \A i \in 1 .. Len(r) : b[i].path = r[i].path
    BY <2>4, <2>7
  <2>11. Distinct(b)
    <3>1. \A i, j \in 1 .. Len(r) : i # j => r[i].path # r[j].path
      BY <1>3, <2>8, <2>9
    <3>2. \A i, j \in 1 .. Len(r) : i # j => b[i] # b[j]
      BY <2>10, <3>1
    <3> QED
      BY <2>7, <3>2 DEF Distinct
  <2>12. \A l \in Elements(b) : l.start = n /\ (l \in Elements(r) \/ l.sum = -1)
    <3>1. \A i \in 1 .. Len(r) :
            b[i].start = n /\ (b[i] \in Elements(r) \/ b[i].sum = -1)
      BY <1>2, <2>3, <2>4, <2>7, <2>8
    <3> QED
      BY <2>7, <3>1 DEF Elements
  <2>13. ASSUME NEW l \in Elements(r), l \notin Elements(b) PROVE l = r[1]
    <3>1. PICK i \in 1 .. Len(r) : l = r[i]
      BY <2>2 DEF Elements
    <3>2. i # 1 => l \in Elements(b)
      BY <2>7, <3>1 DEF Elements
    <3> QED
      BY <2>13, <3>1, <3>2
  <2> QED
    BY <1>1, <2>11, <2>12, <2>13 DEF b
<1> QED
  BY <1>4, <1>5

(* Before the first region is printed nothing is.                          *)
LEMMA NothingPrinted ==
  ASSUME NEW k \in {0}, NEW regions
  PROVE  PrintedIs(<<>>, k, regions)
<1>1. \A n \in Node : ~(n < k)
  BY DEF Node
<1>2. DOMAIN <<>> = {}
  OBVIOUS
<1> QED
  BY <1>1, <1>2 DEF PrintedIs, Distinct

(* One more region is printed.                                             *)
LEMMA PrintOne ==
  ASSUME NEW out \in Seq(Line), NEW k \in Node, NEW regions \in [Node -> Seq(Line)],
         PrintedIs(out, k, regions), Distinct(regions[k]),
         \A l \in Elements(regions[k]) : l.start = k
  PROVE  PrintedIs(out \o regions[k], k + 1, regions)
<1> DEFINE r == regions[k]
           new == out \o r
<1>1. r \in Seq(Line) /\ Len(out) \in Nat /\ Len(r) \in Nat
      /\ DOMAIN out = 1 .. Len(out) /\ DOMAIN r = 1 .. Len(r)
  BY LenProperties
<1>2. Elements(out) \cap Elements(r) = {}
  <2>1. \A l \in Elements(out) : l.start \in Node /\ l.start < k
    BY DEF PrintedIs, Elements
  <2>2. \A l \in Elements(r) : ~(l.start < k)
    <3>1. \A l \in Elements(r) : l.start = k
      OBVIOUS
    <3>2. ~(k < k)
      BY DEF Node
    <3> QED
      BY <3>1, <3>2
  <2> QED
    BY <2>1, <2>2
<1>3. /\ new \in Seq(Line)
      /\ Elements(new) = Elements(out) \cup Elements(r)
      /\ Distinct(new)
  BY <1>1, <1>2, Joined DEF PrintedIs
<1>4. /\ Len(new) = Len(out) + Len(r)
      /\ \A i \in 1 .. Len(out) + Len(r) :
           new[i] = IF i <= Len(out) THEN out[i] ELSE r[i - Len(out)]
  BY <1>1, ConcatProperties
<1>5. DOMAIN new = 1 .. Len(out) + Len(r)
  BY <1>3, <1>4, LenProperties
<1>6. \A l \in Elements(r) : l.start = k
  OBVIOUS
<1> HIDE DEF new, r
<1>7. \A i \in DOMAIN new :
        \/ i \in DOMAIN out /\ new[i] = out[i]
        \/ i > Len(out) /\ new[i] \in Elements(r) /\ new[i].start = k
  <2> SUFFICES ASSUME NEW i \in DOMAIN new, ~(i \in DOMAIN out /\ new[i] = out[i])
               PROVE  i > Len(out) /\ new[i] \in Elements(r) /\ new[i].start = k
    OBVIOUS
  <2>1. i > Len(out) /\ new[i] = r[i - Len(out)] /\ i - Len(out) \in DOMAIN r
    BY <1>1, <1>4, <1>5
  <2>2. new[i] \in Elements(r)
    BY <2>1 DEF Elements
  <2> QED
    BY <1>6, <2>1, <2>2
<1>8. \A a \in DOMAIN out :
        /\ out[a].start \in Node /\ out[a].start < k
        /\ out[a] \in Elements(regions[out[a].start])
  BY DEF PrintedIs
<1>9. k \in Int /\ k < k + 1 /\ (\A n \in Node : n < k => n < k + 1)
      /\ (\A n \in Node : n < k + 1 => n < k \/ n = k)
  BY DEF Node
<1>10. ASSUME NEW a \in DOMAIN new
       PROVE  /\ new[a].start \in Node /\ new[a].start < k + 1
              /\ new[a] \in Elements(regions[new[a].start])
  <2>1. CASE a \in DOMAIN out /\ new[a] = out[a]
    BY <1>8, <1>9, <2>1
  <2>2. CASE new[a] \in Elements(r) /\ new[a].start = k
    BY <1>9, <2>2 DEF r
  <2> QED
    BY <1>7, <2>1, <2>2
<1>11. ASSUME NEW a \in DOMAIN new, NEW b \in DOMAIN new, a < b
       PROVE  new[a].start <= new[b].start
  <2>1. CASE b \in DOMAIN out /\ new[b] = out[b]
    <3>1. a \in DOMAIN out /\ new[a] = out[a]
      BY <1>1, <1>5, <1>7, <1>11, <2>1
    <3> QED
      BY <1>11, <2>1, <3>1 DEF PrintedIs
  <2>2. CASE new[b].start = k
    <3>1. new[a].start \in Node /\ new[a].start < k + 1
      BY <1>10
    <3> QED
      BY <2>2, <3>1 DEF Node
  <2> QED
    BY <1>7, <2>1, <2>2
<1>12. ASSUME NEW n \in Node, n < k + 1
       PROVE  Elements(regions[n]) \subseteq Elements(new)
  <2>1. CASE n < k
    BY <1>3, <2>1 DEF PrintedIs
  <2>2. CASE n = k
    BY <1>3, <2>2 DEF r
  <2> QED
    BY <1>9, <1>12, <2>1, <2>2
<1>13. PrintedIs(new, k + 1, regions)
  BY <1>3, <1>10, <1>11, <1>12 DEF PrintedIs
<1> QED
  BY <1>13 DEF new, r

(* The texts matter only as far as they are printed.                       *)
LEMMA PrintedSame ==
  ASSUME NEW out, NEW k, NEW texts, NEW others, PrintedIs(out, k, texts),
         \A n \in Node : n < k => others[n] = texts[n]
  PROVE  PrintedIs(out, k, others)
BY DEF PrintedIs

LEMMA PrintRegionRight ==
  ASSUME ProcsInv, PrintRegion, ~spoiled
  PROVE  /\ cut' => TornBelow(node + 1)
         /\ \E texts \in [Node -> Seq(Line)] :
              ShownAs(node + 1, texts) /\ PrintedIs(printed', node + 1, texts)
<1> DEFINE text == Behind(cut, region[node])
<1>1. /\ pc = "print" /\ node \in Node /\ printed' = printed \o text
      /\ printed \in Seq(Line) /\ region[node] \in Seq(Line) /\ torn \subseteq Node
      /\ cut \in BOOLEAN /\ cut' = (node \in torn \/ (cut /\ region[node] = <<>>))
  BY DEF ProcsInv, TypeOK, PrintRegion, NextRound
<1>2. cut => TornBelow(node)
  BY <1>1 DEF ProcsInv, PrintedRight, Shown
<1>3. PICK texts \in [Node -> Seq(Line)] :
        ShownAs(node, texts) /\ PrintedIs(printed, node, texts)
  BY <1>1 DEF ProcsInv, PrintedRight, Shown
<1> DEFINE new == [texts EXCEPT ![node] = text]
<1>4. /\ node < node + 1 /\ (\A m \in Node : m < node => m < node + 1 /\ m # node)
      /\ (\A n \in Node : n < node + 1 => n < node \/ n = node)
  BY <1>1 DEF Node
<1>5. cut' => TornBelow(node + 1)
  BY <1>1, <1>2, <1>4 DEF TornBelow
<1>6. /\ text \in Seq(Line) /\ Distinct(text)
      /\ \A l \in Elements(text) : l.start = node
  BY <1>1, RegionLines, BehindLines DEF ProcsInv
<1>7. /\ new \in [Node -> Seq(Line)] /\ new[node] = text
      /\ \A n \in Node : n < node => new[n] = texts[n]
  BY <1>1, <1>4, <1>6
<1>8. ShownAs(node + 1, new)
  <2>1. text = region[node] \/ (TornBelow(node) /\ text = Behind(TRUE, region[node]))
    BY <1>2 DEF Behind
  <2> HIDE DEF text, new
  <2> QED
    BY <1>3, <1>4, <1>7, <2>1 DEF ShownAs
<1>9. PrintedIs(printed, node, new)
  BY <1>3, <1>7, PrintedSame
<1> HIDE DEF new, text
<1>10. PrintedIs(printed \o new[node], node + 1, new)
  BY <1>1, <1>6, <1>7, <1>9, PrintOne
<1> QED
  BY <1>1, <1>5, <1>7, <1>8, <1>10

LEMMA PrintedStep == ProcsInv /\ [Next]_vars => PrintedRight'
<1> SUFFICES ASSUME ProcsInv, [Next]_vars, ~spoiled' PROVE PrintedRight'
  BY DEF PrintedRight
<1>0. ~spoiled
  BY DEF Next, Main, Fork, StartFails, WaitFails, WaitReap, PrintRegion, PrintPastPage,
         Exit, NextRound, Runs, ExecFails, Killed, KilledWriting, Exec, Write, Overflow,
         WriteSpoiled, Ends, regionVars, vars
<1>1. ASSUME printed' = <<>>, ~cut', Shown' = 0 PROVE PrintedRight'
  <2> DEFINE texts == [n \in Node |-> <<>>]
  <2>1. <<>> \in Seq(Line)
    OBVIOUS
  <2>2. texts \in [Node -> Seq(Line)]
    BY <2>1
  <2>3. PrintedIs(<<>>, 0, texts)
    BY NothingPrinted
  <2>4. ShownAs(0, texts)'
    BY DEF ShownAs, Node
  <2> HIDE DEF texts
  <2> QED
    BY <1>1, <2>2, <2>3, <2>4 DEF PrintedRight
<1>2. ASSUME UNCHANGED <<printed, cut, torn, region, spoiled>>, Shown' = Shown
      PROVE  PrintedRight'
  <2>1. PrintedRight
    BY DEF ProcsInv
  <2> QED
    BY <1>2, <2>1 DEF PrintedRight, ShownAs, TornBelow
<1>3. pc \in {"fork", "wait", "failed"} => printed = <<>> /\ ~cut
  BY <1>0 DEF ProcsInv, PrintedRight, Shown
<1>4. CASE Fork \/ StartFails
  BY <1>1, <1>3, <1>4 DEF Fork, StartFails, NextRound, Shown
<1>5. CASE WaitFails \/ \E n \in Node : WaitReap(n)
  BY <1>1, <1>3, <1>5 DEF WaitFails, WaitReap, NextRound, Shown
<1>6. CASE PrintRegion
  <2>1. /\ pc = "print" /\ node \in Node /\ UNCHANGED <<torn, region, spoiled>>
    BY <1>6 DEF ProcsInv, TypeOK, PrintRegion, NextRound, regionVars
  <2>2. Shown' = node + 1 /\ node + 1 # 0
    BY <1>6, <2>1, NAssumption DEF PrintRegion, NextRound, Shown, Node
  <2>3. ~spoiled =>
          /\ cut' => TornBelow(node + 1)
          /\ \E texts \in [Node -> Seq(Line)] :
               ShownAs(node + 1, texts) /\ PrintedIs(printed', node + 1, texts)
    BY <1>0, <1>6, PrintRegionRight
  <2> QED
    BY <2>1, <2>2, <2>3 DEF PrintedRight, ShownAs, TornBelow
<1>7. CASE Exit
  BY <1>2, <1>7 DEF Exit, regionVars, Shown
<1>8. ASSUME NEW n \in Node, Runs(n) \/ ExecFails(n) \/ Killed(n) \/ KilledWriting(n)
      PROVE  PrintedRight'
  <2>1. proc[n] \in {"forked", "running"} /\ UNCHANGED <<pc, node, printed, cut>>
    BY <1>8 DEF Runs, ExecFails, Killed, KilledWriting, Fails, Exec, Write, Overflow,
                WriteSpoiled, Ends, Finds, Searcher, mainVars, regionVars
  <2>2. pc \notin {"print", "detach", "exit"}
    BY <2>1 DEF ProcsInv, CountInv, WaitsCounted, ReadAfterAllEnded
  <2>3. Shown = 0 /\ Shown' = 0
    BY <2>1, <2>2 DEF Shown
  <2> QED
    BY <1>0, <1>1, <2>1, <2>3 DEF ProcsInv, PrintedRight
<1>9. CASE UNCHANGED vars
  BY <1>2, <1>9 DEF vars, mainVars, regionVars, Shown
<1>10. CASE PrintPastPage
  BY <1>0, <1>10 DEF ProcsInv, TornOK, PrintPastPage, Unterminated
<1> QED
  BY <1>4, <1>5, <1>6, <1>7, <1>8, <1>9, <1>10 DEF Next, Main

LEMMA ProcsInvHolds == Spec => []ProcsInv
<1>1. Init => ProcsInv
  <2> SUFFICES ASSUME Init PROVE ProcsInv
    OBVIOUS
  <2>1. graph \in Matrix /\ 0 \in Node /\ <<>> \in Seq(Line)
    BY GraphsAssumption, NAssumption DEF Init, Node
  <2>2. TypeOK
    BY <2>1 DEF Init, TypeOK, ProcState
  <2>3. CountInv
    BY NAssumption DEF Init, CountInv, MainTypeOK, WaitsCounted, ReadAfterAllEnded,
                       ProcState, Node
  <2>4. Unborn /\ NoneSpoils /\ TornOK
    BY DEF Init, Unborn, NoneSpoils, TornOK
  <2>5. RegionsRight
    <3> SUFFICES ASSUME NEW n \in Node
                 PROVE  RegionIs(<<>>, <<>>, "none", n \in {}, Results(graph, n))
      BY DEF Init, RegionsRight, RegionOK
    <3>1. Results(graph, n) \in Seq(Line)
      BY <2>1, SearchIsComplete
    <3>2. Len(<<>>) = 0 /\ Len(Results(graph, n)) \in Nat
      BY <3>1, LenProperties
    <3> QED
      BY <3>2 DEF RegionIs, Front
  <2>6. PrintedRight
    <3>1. Shown = 0 /\ printed = <<>> /\ ~cut /\ region \in [Node -> Seq(Line)]
      BY <2>2 DEF Init, Shown, TypeOK
    <3>2. PrintedIs(<<>>, 0, region) /\ ShownAs(0, region)
      BY NothingPrinted DEF ShownAs
    <3> QED
      BY <3>1, <3>2 DEF PrintedRight
  <2> QED
    BY <2>2, <2>3, <2>4, <2>5, <2>6 DEF ProcsInv
<1>2. ProcsInv /\ [Next]_vars => ProcsInv'
  BY TypeStep, CountStep, UnbornStep, RegionsStep, TornStep, NoneSpoilsStep, PrintedStep
     DEF ProcsInv
<1> QED
  BY <1>1, <1>2, PTL DEF Spec

(* What the invariant says of the output.                                  *)
LEMMA SoundWhenInv == ProcsInv => OutputSound
<1> SUFFICES ASSUME ProcsInv, ~spoiled PROVE OutputSound
  BY DEF OutputSound
<1>1. PICK texts \in [Node -> Seq(Line)] :
        ShownAs(Shown, texts) /\ PrintedIs(printed, Shown, texts)
  BY DEF ProcsInv, PrintedRight
<1>2. ASSUME NEW a \in DOMAIN printed
      PROVE  \/ printed[a] \in TourLines(graph)
             \/ printed[a].sum = -1 /\ \E m \in torn : m < printed[a].start
  <2> DEFINE n == printed[a].start
  <2>1. /\ n \in Node /\ n < Shown
        /\ printed[a] \in Elements(texts[n])
    BY <1>1 DEF PrintedIs
  <2> HIDE DEF n
  <2>2. /\ region[n] \in Seq(Line) /\ Distinct(region[n])
        /\ Elements(region[n]) \subseteq TourLinesFrom(graph, n)
    BY <2>1, RegionLines DEF ProcsInv
  <2>3. \/ texts[n] = region[n]
        \/ TornBelow(n) /\ texts[n] = Behind(TRUE, region[n])
    BY <1>1, <2>1 DEF ShownAs
  <2>4. printed[a] \in Elements(region[n]) \/ (TornBelow(n) /\ printed[a].sum = -1)
    <3>1. \A l \in Elements(Behind(TRUE, region[n])) :
            l \in Elements(region[n]) \/ l.sum = -1
      <4>1. n \in Node
        BY <2>1
      <4>2. \A l \in Elements(Behind(TRUE, region[n])) :
              l.start = n /\ (l \in Elements(region[n]) \/ l.sum = -1)
        BY ONLY <2>2, <4>1, BehindLines
      <4> QED
        BY <4>2
    <3> QED
      BY <2>1, <2>3, <3>1
  <2>5. Elements(region[n]) \subseteq TourLines(graph)
    BY <2>1, <2>2 DEF TourLines
  <2> QED
    BY <2>4, <2>5 DEF TornBelow, n
<1> QED
  BY <1>1, <1>2 DEF PrintedIs, OutputSound

(* find_paths.c:57, tsp_p.c:90-93: as long as no region has overflown,     *)
(* what tsp_p prints are tours with their lengths, but for lines behind    *)
(* what a searcher killed within strcat has left; none is there twice, and *)
(* the nodes come in their order, whichever searchers fail and however     *)
(* they interleave.                                                        *)
THEOREM OutputIsSound == Spec => []OutputSound
BY SoundWhenInv, ProcsInvHolds, PTL

(* When every searcher is gone a node whose searcher was not lost has all  *)
(* its tours printed, but for the first if a part of a line is before it.  *)
LEMMA NodeComplete ==
  ASSUME ProcsInv, ~spoiled, pc \in {"detach", "exit"}, NEW n \in Node, n \notin lost
  PROVE  /\ \A k, l \in Missing(n) : k = l
         /\ Missing(n) # {} => \E m \in torn : m < n
<1>1. proc[n] = "gone"
  BY DEF ProcsInv, CountInv, WaitsCounted, ReadAfterAllEnded
<1>2. region[n] = Results(graph, n)
  BY <1>1 DEF ProcsInv, RegionsRight, RegionOK, RegionIs
<1>3. /\ Elements(region[n]) = TourLinesFrom(graph, n)
      /\ region[n] \in Seq(Line) /\ Distinct(region[n])
  BY <1>2, SearchIsComplete DEF ProcsInv, TypeOK
<1>4. Shown = N /\ n < N
  BY NAssumption DEF Shown, Node
<1>5. PICK texts \in [Node -> Seq(Line)] :
        ShownAs(Shown, texts) /\ PrintedIs(printed, Shown, texts)
  BY DEF ProcsInv, PrintedRight
<1>6. Elements(texts[n]) \subseteq Elements(printed)
  BY <1>4, <1>5 DEF PrintedIs
<1>7. CASE texts[n] = region[n]
  BY <1>3, <1>6, <1>7 DEF Missing
<1>8. CASE TornBelow(n) /\ texts[n] = Behind(TRUE, region[n])
  <2>1. \A k, l \in Elements(region[n]) \ Elements(texts[n]) : k = l
    <3>1. /\ Distinct(region[n]) /\ region[n] \in Seq(Line)
          /\ Elements(region[n]) \subseteq TourLinesFrom(graph, n)
      BY <1>3
    <3>2. \A k, l \in Elements(region[n]) \ Elements(Behind(TRUE, region[n])) : k = l
      BY <3>1, BehindLines
    <3> QED
      BY <1>8, <3>2
  <2> QED
    BY <1>3, <1>6, <1>8, <2>1 DEF Missing, TornBelow
<1> QED
  BY <1>4, <1>5, <1>7, <1>8 DEF ShownAs

(* tsp_p.c:85-93: if every node's tours fit into its page, the nodes whose *)
(* searchers did not fail have all their tours printed at the end, but for *)
(* the one behind what a searcher killed within strcat has left.           *)
THEOREM HealthyAreComplete == Spec => []HealthyNodesComplete
<1>1. ProcsInv => HealthyNodesComplete
  BY NodeComplete DEF ProcsInv, NoneSpoils, AllFit, HealthyNodesComplete
<1> QED
  BY <1>1, ProcsInvHolds, PTL

-----------------------------------------------------------------------------
(* The instance of TourSpec speaks of the same tours.                      *)
LEMMA PromiseTours ==
  /\ \A g : Promise!TourLines(g) = TourLines(g)
  /\ \A s : Promise!Elements(s) = Elements(s) /\ (Promise!Distinct(s) <=> Distinct(s))
BY DEF Promise!TourLines, TourLines, Promise!TourLinesFrom, TourLinesFrom,
       Promise!IsTour, IsTour, Promise!IsPath, IsPath, Promise!Edge, Edge,
       Promise!Last, Last, Promise!Weight, Weight, Promise!Elements, Elements,
       Promise!Distinct, Distinct, Promise!Node, Node

(* One step after the other, while no region has overflown and no searcher *)
(* was lost: a region with lines is a report, the exit is the end, and the *)
(* rest is invisible.                                                      *)
THEOREM AllToursArePrinted == Spec => PrintsAllTours
<1>1. Init => Promise!SpecInit
  BY DEF Init, Promise!SpecInit
<1>2. ProcsInv /\ OutputSound' /\ [Next]_vars
        => [~spoiled' /\ lost' = {} => Promise!SpecNext]_(Promise!specVars)
  <2> SUFFICES ASSUME ProcsInv, OutputSound', [Next]_vars, ~spoiled', lost' = {},
                      ~(UNCHANGED Promise!specVars)
               PROVE  Promise!SpecNext
    OBVIOUS
  <2> USE DEF regionVars
  <2>8. torn' = {}
    <3>1. TornOK'
      BY TornStep DEF ProcsInv
    <3> QED
      BY <3>1 DEF TornOK
  <2>1. ASSUME UNCHANGED <<graph, printed>>, (pc' = "exit") <=> (pc = "exit")
        PROVE  FALSE
    BY <2>1 DEF Promise!specVars
  <2>2. CASE PrintRegion
    <3>1. /\ pc = "print" /\ pc' # "exit" /\ graph' = graph /\ node \in Node
          /\ printed' = printed \o region[node] /\ ~spoiled
          /\ printed \in Seq(Line) /\ region[node] \in Seq(Line)
      <4>1. ~spoiled /\ torn = {}
        BY <2>2, <2>8 DEF PrintRegion, NextRound
      <4>2. ~cut
        BY <4>1 DEF ProcsInv, PrintedRight, TornBelow
      <4> QED
        BY <2>2, <4>1, <4>2 DEF PrintRegion, NextRound, ProcsInv, TypeOK, Behind
    <3>2. region[node] # <<>>
      BY <2>1, <3>1, ConcatEmptySeq
    <3>3. /\ Len(printed) \in Nat /\ Len(region[node]) \in Nat /\ Len(region[node]) # 0
          /\ Len(printed') = Len(printed) + Len(region[node])
      BY <3>1, <3>2, ConcatProperties, LenProperties, EmptySeq
    <3>4. SubSeq(printed', 1, Len(printed)) = printed
      BY <3>1, SubSeqOfConcat1, SubSeqFull
    <3>5. Distinct(printed') /\ Elements(printed') \subseteq TourLines(graph)
      <4>1. /\ Distinct(printed')
            /\ \A a \in DOMAIN printed' : printed'[a] \in TourLines(graph)'
        BY <2>8 DEF OutputSound
      <4>2. TourLines(graph)' = TourLines(graph)
        BY <3>1
      <4> QED
        BY <4>1, <4>2 DEF Elements
    <3>6. Len(printed) < Len(printed')
      BY <3>3
    <3>7. Promise!Report
      BY <3>1, <3>4, <3>5, <3>6, PromiseTours DEF Promise!Report
    <3> QED
      BY <3>7 DEF Promise!SpecNext
  <2>3. CASE Exit
    <3>1. /\ pc = "detach" /\ pc' = "exit" /\ UNCHANGED <<graph, printed>>
          /\ ~spoiled /\ lost = {}
      BY <2>3 DEF Exit
    <3>2. Elements(printed) = TourLines(graph)
      <4>1. \A n \in Node : TourLinesFrom(graph, n) \subseteq Elements(printed)
        BY <2>3, <2>8, <3>1, NodeComplete DEF Exit, Missing
      <4>2. Elements(printed) \subseteq TourLines(graph)
        BY <2>3, <2>8, <3>1, SoundWhenInv DEF Exit, OutputSound, Elements
      <4> QED
        BY <4>1, <4>2 DEF TourLines
    <3>3. Promise!End
      BY <3>1, <3>2, PromiseTours DEF Promise!End
    <3> QED
      BY <3>3 DEF Promise!SpecNext
  <2>4. CASE Fork \/ StartFails
    BY <2>1, <2>4 DEF Fork, StartFails, NextRound, regionVars
  <2>5. CASE WaitFails \/ \E n \in Node : WaitReap(n)
    BY <2>1, <2>5 DEF WaitFails, WaitReap, NextRound, regionVars
  <2>6. ASSUME NEW n \in Node, Runs(n) \/ ExecFails(n) \/ Killed(n) \/ KilledWriting(n)
        PROVE  FALSE
    BY <2>1, <2>6 DEF Runs, ExecFails, Killed, KilledWriting, Fails, Exec, Write,
       Overflow, WriteSpoiled,
                      Ends, Finds, Searcher, mainVars, regionVars
  <2>7. CASE UNCHANGED vars
    BY <2>1, <2>7 DEF vars, mainVars
  <2>9. CASE PrintPastPage
    BY <2>8, <2>9 DEF PrintPastPage, NextRound, Unterminated
  <2> QED
    BY <2>2, <2>3, <2>4, <2>5, <2>6, <2>7, <2>9 DEF Next, Main
<1> QED
  BY <1>1, <1>2, ProcsInvHolds, OutputIsSound, PTL DEF Spec, PrintsAllTours
=============================================================================
