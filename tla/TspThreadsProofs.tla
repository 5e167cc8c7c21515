-------------------------- MODULE TspThreadsProofs --------------------------
(***************************************************************************)
(* Proofs about tsp_t for any number of nodes and any matrices.            *)
(*   - The state is well typed and the calls on every stack stay consistent*)
(*     across the context switches.                                        *)
(*   - Every line printed is a tour with its length, and no line is printed*)
(*     twice.                                                              *)
(*   - The threads take turns: none is ever more than one tour ahead of    *)
(*     another.                                                            *)
(*   - Although the first thread to return ends the process, all tours have*)
(*     been printed by then, as every node has equally many of them; tsp_t *)
(*     keeps the promise of TourSpec.                                      *)
(***************************************************************************)
EXTENDS TspThreads, SequenceTheorems, FiniteSetTheorems, WellFoundedInduction, TLAPS

(* The running thread always has a call on its stack.                      *)
LEMMA TopType ==
  ASSUME TypeOK, pc = "run", NEW t \in Node
  PROVE  /\ Len(stack[t]) \in Nat \ {0}
         /\ Len(stack[t]) \in DOMAIN stack[t]
         /\ DOMAIN stack[t] = 1 .. Len(stack[t])
         /\ Top(t) \in Frame
<1>1. stack[t] \in Seq(Frame) /\ stack[t] # <<>>
  BY DEF TypeOK
<1>2. Len(stack[t]) \in Nat \ {0} /\ DOMAIN stack[t] = 1 .. Len(stack[t])
  BY <1>1, EmptySeq, LenProperties
<1> QED
  BY <1>1, <1>2, ElementOfSeq DEF Top

(* j++ changes nothing but the loop variable of the innermost call.        *)
LEMMA AdvancedType ==
  ASSUME TypeOK, pc = "run", NEW t \in Node, Top(t).j < N
  PROVE  /\ Advanced(t) \in Seq(Frame)
         /\ Len(Advanced(t)) = Len(stack[t])
         /\ \A d \in 1 .. Len(stack[t]) :
              Advanced(t)[d] = IF d = Len(stack[t])
                               THEN [Top(t) EXCEPT !.j = @ + 1] ELSE stack[t][d]
<1> DEFINE e == [Top(t) EXCEPT !.j = @ + 1]
<1>1. e \in Frame
  BY TopType, NAssumption DEF Frame
<1>2. Advanced(t) = [stack[t] EXCEPT ![Len(stack[t])] = e]
  BY DEF Advanced, Top
<1>3. stack[t] \in Seq(Frame) /\ Len(stack[t]) \in 1 .. Len(stack[t])
  BY TopType DEF TypeOK
<1> HIDE DEF e
<1>4. \A d \in 1 .. Len(stack[t]) :
        Advanced(t)[d] = IF d = Len(stack[t]) THEN e ELSE stack[t][d]
  BY <1>1, <1>2, <1>3, ExceptSeq
<1> QED
  BY <1>1, <1>2, <1>3, <1>4, ExceptSeq DEF e

(* The running sum stays a number.                                         *)
LEMMA SumType ==
  ASSUME TypeOK, NEW f \in Frame, f.j < N
  PROVE  SumUpd(f) \in Int /\ f.j \in Node
<1>1. f.i \in Node /\ f.j \in Node /\ f.sum \in Int
  BY NAssumption DEF Frame, Node
<1>2. graph[f.i][f.j] \in Int
  BY <1>1 DEF TypeOK, Matrix
<1> QED
  BY <1>1, <1>2 DEF SumUpd

(* A non-empty list keeps its type and its head when it loses its last.    *)
LEMMA PopType ==
  ASSUME NEW S, NEW s \in Seq(S), Len(s) > 1
  PROVE  /\ SubSeq(s, 1, Len(s) - 1) \in Seq(S)
         /\ Len(SubSeq(s, 1, Len(s) - 1)) = Len(s) - 1
         /\ SubSeq(s, 1, Len(s) - 1) # <<>>
         /\ \A d \in 1 .. Len(s) - 1 : SubSeq(s, 1, Len(s) - 1)[d] = s[d]
<1>1. Len(s) \in Nat /\ \A d \in 1 .. Len(s) - 1 : s[d] \in S
  BY LenProperties, ElementOfSeq
<1>2. /\ SubSeq(s, 1, Len(s) - 1) \in Seq(S)
      /\ Len(SubSeq(s, 1, Len(s) - 1)) = Len(s) - 1
      /\ \A d \in 1 .. (Len(s) - 1) - 1 + 1 : SubSeq(s, 1, Len(s) - 1)[d] = s[1 + d - 1]
  BY <1>1, SubSeqProperties
<1>3. ASSUME NEW d \in 1 .. Len(s) - 1
      PROVE  SubSeq(s, 1, Len(s) - 1)[d] = s[d]
  <2>1. d \in 1 .. (Len(s) - 1) - 1 + 1 /\ 1 + d - 1 = d
    BY <1>1
  <2> QED
    BY <1>2, <2>1
<1>4. SubSeq(s, 1, Len(s) - 1) # <<>>
  <2> DEFINE u == SubSeq(s, 1, Len(s) - 1)
  <2>1. Len(u) > 0
    BY <1>1, <1>2
  <2>2. Len(<<>>) = 0
    OBVIOUS
  <2> HIDE DEF u
  <2>3. u # <<>>
    BY <2>1, <2>2
  <2> QED
    BY <2>3 DEF u
<1> QED
  BY <1>2, <1>3, <1>4

(* Every step keeps the types.                                            *)
LEMMA TypePreserved == TypeOK /\ [Next]_vars => TypeOK'
<1> SUFFICES ASSUME TypeOK, [Next]_vars PROVE TypeOK'
  OBVIOUS
<1>1. CASE Start
  BY <1>1 DEF Start, TypeOK
<1>2. ASSUME NEW t \in Node, PrintTour(t) PROVE TypeOK'
  <2>1. pc = "run" /\ Top(t).j < N
    BY <1>2 DEF PrintTour, Running
  <2>2. Advanced(t) \in Seq(Frame) /\ Advanced(t) # <<>>
    BY <2>1, AdvancedType, TopType, EmptySeq
  <2>3. stack' \in [Node -> Seq(Frame)] /\ \A u \in Node : stack'[u] # <<>>
    BY <1>2, <2>1, <2>2 DEF PrintTour, TypeOK
  <2>4. [start |-> t, path |-> Top(t).path, sum |-> SumUpd(Top(t))] \in Line
    BY <2>1, TopType, SumType DEF Frame, Line
  <2>5. printed' \in Seq(Line)
    BY <1>2, <2>4, AppendProperties DEF PrintTour, TypeOK
  <2>6. cur' \in Node
    BY <1>2, NAssumption DEF PrintTour, NextThread, Node
  <2> QED
    BY <1>2, <2>1, <2>3, <2>5, <2>6 DEF PrintTour, Running, TypeOK
<1>3. ASSUME NEW t \in Node, Call(t) PROVE TypeOK'
  <2> DEFINE f == Top(t)
             callee == [i |-> f.j, j |-> 0, visited |-> f.visited \cup {f.j},
                        path |-> Append(f.path, f.j), sum |-> SumUpd(f)]
  <2>1. pc = "run" /\ f.j < N
    BY <1>3 DEF Call, Running
  <2>2. f \in Frame /\ f.j \in Node /\ SumUpd(f) \in Int
    BY <2>1, TopType, SumType
  <2>3. Append(f.path, f.j) \in Seq(Node)
    BY <2>2, AppendProperties DEF Frame
  <2>4. callee \in Frame
    BY <2>2, <2>3, NAssumption DEF Frame
  <2>5. stack' = [stack EXCEPT ![t] = Append(Advanced(t), callee)]
    BY <1>3 DEF Call
  <2> HIDE DEF callee
  <2>6. Append(Advanced(t), callee) \in Seq(Frame) /\ Append(Advanced(t), callee) # <<>>
    BY <2>1, <2>4, AdvancedType, AppendProperties
  <2>7. stack' \in [Node -> Seq(Frame)] /\ \A u \in Node : stack'[u] # <<>>
    BY <2>1, <2>5, <2>6 DEF TypeOK
  <2> QED
    BY <1>3, <2>1, <2>7 DEF Call, Running, TypeOK
<1>4. ASSUME NEW t \in Node, Skip(t) PROVE TypeOK'
  <2>1. pc = "run" /\ Top(t).j < N
    BY <1>4 DEF Skip, Running
  <2>2. Advanced(t) \in Seq(Frame) /\ Advanced(t) # <<>>
    BY <2>1, AdvancedType, TopType, EmptySeq
  <2> QED
    BY <1>4, <2>1, <2>2 DEF Skip, Running, TypeOK
<1>5. ASSUME NEW t \in Node, Return(t) PROVE TypeOK'
  <2>1. pc = "run" /\ stack[t] \in Seq(Frame) /\ Len(stack[t]) > 1
    BY <1>5 DEF Return, Running, TypeOK
  <2>2. stack' = [stack EXCEPT ![t] = SubSeq(stack[t], 1, Len(stack[t]) - 1)]
    BY <1>5 DEF Return
  <2>3. stack' \in [Node -> Seq(Frame)] /\ \A u \in Node : stack'[u] # <<>>
    BY <2>1, <2>2, PopType DEF TypeOK
  <2> QED
    BY <1>5, <2>1, <2>3 DEF Return, Running, TypeOK
<1>6. ASSUME NEW t \in Node, Finish(t) PROVE TypeOK'
  BY <1>6 DEF Finish, Running, TypeOK
<1>7. CASE UNCHANGED vars
  BY <1>7 DEF TypeOK, vars
<1> QED
  BY <1>1, <1>2, <1>3, <1>4, <1>5, <1>6, <1>7 DEF Next, Thread

(* Every part of the state of tsp_t has its type, and no thread loses its  *)
(* last call before the process ends.                                      *)
THEOREM TypeCorrect == Spec => []TypeOK
<1>1. Init => TypeOK
  <2> SUFFICES ASSUME Init PROVE TypeOK
    OBVIOUS
  <2>1. graph \in Matrix
    BY GraphsAssumption DEF Init
  <2>2. ASSUME NEW t \in Node
        PROVE  <<FirstCall(t)>> \in Seq(Frame) /\ <<FirstCall(t)>> # <<>>
    <3>1. <<>> \in Seq(Node)
      OBVIOUS
    <3>2. FirstCall(t) \in Frame
      BY <3>1, NAssumption DEF FirstCall, Frame
    <3> QED
      BY <3>2
  <2>3. stack \in [Node -> Seq(Frame)] /\ \A t \in Node : stack[t] # <<>>
    BY <2>2 DEF Init
  <2>4. printed \in Seq(Line)
    BY DEF Init
  <2> QED
    BY <2>1, <2>3, <2>4, NAssumption DEF Init, TypeOK, Node
<1> QED
  BY <1>1, TypePreserved, PTL DEF Spec

-----------------------------------------------------------------------------
(* One more node makes a longer path when an edge leads to it and it is    *)
(* neither the start nor on the path already.                              *)
LEMMA PathExtends ==
  ASSUME NEW g, NEW s \in Node, NEW p, IsPath(g, s, p),
         NEW v \in Node \ {s}, v \notin Elements(p), Edge(g, Last(s, p), v)
  PROVE  /\ IsPath(g, s, Append(p, v))
         /\ Len(Append(p, v)) = Len(p) + 1
         /\ Elements(Append(p, v)) = Elements(p) \cup {v}
         /\ Last(s, Append(p, v)) = v
<1> DEFINE q == Append(p, v)
<1>1. p \in Seq(Node \ {s}) /\ Len(p) \in Nat /\ DOMAIN p = 1 .. Len(p)
  BY LenProperties DEF IsPath
<1>2. /\ q \in Seq(Node \ {s}) /\ q # <<>> /\ Len(q) = Len(p) + 1
      /\ \A k \in 1 .. Len(p) : q[k] = p[k]
      /\ q[Len(p) + 1] = v
      /\ DOMAIN q = 1 .. Len(p) + 1
  BY <1>1, AppendProperties, LenProperties
<1>3. \A k \in 1 .. Len(p) : p[k] \in Elements(p)
  BY <1>1 DEF Elements
<1> HIDE DEF q
<1>4. Distinct(q)
  BY <1>1, <1>2, <1>3 DEF Distinct, IsPath
<1>5. Elements(q) = Elements(p) \cup {v}
  <2>1. Elements(q) \subseteq Elements(p) \cup {v}
    BY <1>1, <1>2, <1>3 DEF Elements
  <2>2. v \in Elements(q)
    BY <1>1, <1>2 DEF Elements
  <2>3. \A k \in 1 .. Len(p) : p[k] \in Elements(q)
    <3>1. \A k \in 1 .. Len(p) : k \in DOMAIN q /\ q[k] = p[k]
      BY <1>1, <1>2
    <3> QED
      BY <3>1 DEF Elements
  <2>4. Elements(p) \subseteq Elements(q)
    BY <1>1, <2>3 DEF Elements
  <2> QED
    BY <2>1, <2>2, <2>4
<1>6. Last(s, q) = v
  BY <1>2 DEF Last
<1>7. ASSUME NEW k \in 1 .. Len(q)
      PROVE  Edge(g, IF k = 1 THEN s ELSE q[k - 1], q[k])
  <2>1. CASE k \in 1 .. Len(p)
    <3>1. Edge(g, IF k = 1 THEN s ELSE p[k - 1], p[k])
      BY <2>1 DEF IsPath
    <3>2. q[k] = p[k] /\ (k # 1 => q[k - 1] = p[k - 1])
      BY <1>1, <1>2, <2>1
    <3> QED
      BY <3>1, <3>2
  <2>2. CASE k = Len(p) + 1
    <3>1. q[k] = v
      BY <1>2, <2>2
    <3>2. Last(s, p) = IF k = 1 THEN s ELSE q[k - 1]
      <4>1. CASE p = <<>>
        <5>1. Len(p) = 0
          BY <4>1
        <5> QED
          BY <2>2, <4>1, <5>1 DEF Last
      <4>2. CASE p # <<>>
        <5>1. Len(p) \in 1 .. Len(p)
          BY <1>1, <4>2, EmptySeq
        <5>2. k # 1 /\ k - 1 = Len(p)
          BY <1>1, <2>2, <5>1
        <5> QED
          BY <1>2, <4>2, <5>1, <5>2 DEF Last
      <4> QED
        BY <4>1, <4>2
    <3> QED
      BY <3>1, <3>2
  <2> QED
    BY <1>1, <1>2, <2>1, <2>2
<1> QED
  BY <1>2, <1>4, <1>5, <1>6, <1>7 DEF IsPath, q

(* A path that misses the start and visits nothing twice is shorter than   *)
(* the matrix is wide.                                                     *)
LEMMA PathLength ==
  ASSUME NEW g, NEW s \in Node, NEW p, IsPath(g, s, p)
  PROVE  Len(p) <= N - 1
<1>1. p \in Seq(Node \ {s}) /\ Len(p) \in Nat
  BY LenProperties DEF IsPath
<1>2. p \in [1 .. Len(p) -> Node \ {s}]
  BY <1>1, LenProperties
<1>3. IsFiniteSet(Node) /\ Cardinality(Node) = N
  BY FS_Interval, NAssumption DEF Node
<1>4. IsFiniteSet(Node \ {s}) /\ Cardinality(Node \ {s}) = N - 1
  BY <1>3, FS_RemoveElement
<1>5. IsFiniteSet(1 .. Len(p)) /\ Cardinality(1 .. Len(p)) = Len(p)
  BY <1>1, FS_Interval
<1>6. CASE Len(p) > N - 1
  <2>1. PICK a, b \in 1 .. Len(p) : a # b /\ p[a] = p[b]
    BY <1>2, <1>4, <1>5, <1>6, FS_PigeonHole
  <2>2. DOMAIN p = 1 .. Len(p)
    BY <1>1, LenProperties
  <2> QED
    BY <2>1, <2>2 DEF IsPath, Distinct
<1> QED
  BY <1>1, <1>6, NAssumption

(* What is claimed of the call at depth d on the stack of thread t.        *)
CallOK(g, t, d, f) ==
  /\ Len(f.path) = d - 1 /\ IsPath(g, t, f.path)
  /\ f.visited = Elements(f.path) /\ f.i = Last(t, f.path)

(* The loop variable plays no part in it.                                  *)
LEMMA CallsAfterAdvance ==
  ASSUME TypeOK, CallsConsistent, pc = "run", NEW t \in Node, Top(t).j < N
  PROVE  \A d \in 1 .. Len(stack[t]) : CallOK(graph, t, d, Advanced(t)[d])
<1>1. \A d \in 1 .. Len(stack[t]) : CallOK(graph, t, d, stack[t][d])
  BY TopType DEF CallsConsistent, CallOK
<1>2. Top(t) = stack[t][Len(stack[t])] /\ Top(t) \in Frame
  BY TopType DEF Top
<1>3. LET e == [Top(t) EXCEPT !.j = @ + 1]
      IN /\ e.path = Top(t).path /\ e.visited = Top(t).visited
         /\ e.i = Top(t).i
  BY <1>2 DEF Frame
<1>4. ASSUME NEW d \in 1 .. Len(stack[t])
      PROVE  CallOK(graph, t, d, Advanced(t)[d])
  <2>1. CASE d = Len(stack[t])
    <3>1. Advanced(t)[d] = [Top(t) EXCEPT !.j = @ + 1]
      BY <2>1, AdvancedType
    <3>2. CallOK(graph, t, d, Top(t))
      BY <1>1, <1>2, <2>1
    <3> QED
      BY <1>3, <3>1, <3>2 DEF CallOK
  <2>2. CASE d # Len(stack[t])
    <3>1. Advanced(t)[d] = stack[t][d]
      BY <2>2, AdvancedType
    <3> QED
      BY <1>1, <3>1
  <2> QED
    BY <2>1, <2>2
<1> QED
  BY <1>4

(* The inductive step, one action after the other; only Call has something *)
(* to show, that the path of the callee is one node longer.                *)
LEMMA CallsStep ==
  TypeOK /\ CallsConsistent /\ [Next]_vars => CallsConsistent'
<1> SUFFICES ASSUME TypeOK, CallsConsistent, [Next]_vars
             PROVE  CallsConsistent'
  OBVIOUS
<1>1. CASE Start
  BY <1>1 DEF Start, CallsConsistent
<1>2. ASSUME NEW t \in Node, PrintTour(t) \/ Skip(t) PROVE CallsConsistent'
  <2>1. /\ pc = "run" /\ Top(t).j < N /\ graph' = graph
        /\ stack' = [stack EXCEPT ![t] = Advanced(t)]
    BY <1>2 DEF PrintTour, Skip, Running
  <2>2. DOMAIN Advanced(t) = 1 .. Len(stack[t])
    BY <2>1, AdvancedType, LenProperties
  <2>3. \A d \in DOMAIN Advanced(t) : CallOK(graph, t, d, Advanced(t)[d])
    BY <2>1, <2>2, CallsAfterAdvance
  <2> QED
    BY <2>1, <2>3 DEF CallsConsistent, CallOK, TypeOK
<1>3. ASSUME NEW t \in Node, Call(t) PROVE CallsConsistent'
  <2> DEFINE f == Top(t)
             callee == [i |-> f.j, j |-> 0, visited |-> f.visited \cup {f.j},
                        path |-> Append(f.path, f.j), sum |-> SumUpd(f)]
             s == Append(Advanced(t), callee)
             n == Len(stack[t])
  <2>1. pc = "run" /\ f.j < N /\ graph' = graph /\ Descends(t, f)
    BY <1>3 DEF Call, Running
  <2>2. stack' = [stack EXCEPT ![t] = s]
    BY <1>3 DEF Call
  <2>3. f \in Frame /\ f.j \in Node /\ n \in Nat \ {0}
    BY <2>1, TopType, SumType
  <2>4. CallOK(graph, t, n, f)
    BY <2>1, TopType DEF CallsConsistent, CallOK, Top
  <2>5. /\ IsPath(graph, t, Append(f.path, f.j))
        /\ Len(Append(f.path, f.j)) = Len(f.path) + 1
        /\ Elements(Append(f.path, f.j)) = Elements(f.path) \cup {f.j}
        /\ Last(t, Append(f.path, f.j)) = f.j
    BY <2>1, <2>3, <2>4, PathExtends DEF CallOK, Descends
  <2>6. CallOK(graph, t, n + 1, callee)
    BY <2>3, <2>4, <2>5 DEF CallOK
  <2> HIDE DEF callee
  <2>7. /\ DOMAIN s = 1 .. n + 1 /\ s[n + 1] = callee
        /\ \A d \in 1 .. n : s[d] = Advanced(t)[d]
    <3>1. Advanced(t) \in Seq(Frame \cup {callee}) /\ Len(Advanced(t)) = n
      BY <2>1, AdvancedType, SeqMonotonic
    <3>2. callee \in Frame \cup {callee}
      OBVIOUS
    <3>3. /\ s \in Seq(Frame \cup {callee}) /\ Len(s) = n + 1
          /\ s[n + 1] = callee /\ \A d \in 1 .. n : s[d] = Advanced(t)[d]
      BY <3>1, <3>2, AppendProperties
    <3> QED
      BY <3>3, LenProperties
  <2>8. \A d \in DOMAIN s : CallOK(graph, t, d, s[d])
    BY <2>1, <2>3, <2>6, <2>7, CallsAfterAdvance
  <2> HIDE DEF s
  <2> QED
    BY <2>1, <2>2, <2>8 DEF CallsConsistent, CallOK, TypeOK
<1>4. ASSUME NEW t \in Node, Return(t) PROVE CallsConsistent'
  <2> DEFINE s == SubSeq(stack[t], 1, Len(stack[t]) - 1)
  <2>1. /\ graph' = graph /\ stack' = [stack EXCEPT ![t] = s]
        /\ stack[t] \in Seq(Frame) /\ Len(stack[t]) > 1
    BY <1>4 DEF Return, Running, TypeOK
  <2>2. DOMAIN s = 1 .. Len(stack[t]) - 1 /\ DOMAIN stack[t] = 1 .. Len(stack[t])
    BY <2>1, PopType, LenProperties
  <2>3. \A d \in DOMAIN s : d \in DOMAIN stack[t] /\ s[d] = stack[t][d]
    BY <2>1, <2>2, PopType, LenProperties
  <2> HIDE DEF s
  <2> QED
    BY <2>1, <2>3 DEF CallsConsistent, TypeOK
<1>5. ASSUME NEW t \in Node, Finish(t) PROVE CallsConsistent'
  BY <1>5 DEF Finish, Running, CallsConsistent, TypeOK
<1>6. CASE UNCHANGED vars
  BY <1>6 DEF CallsConsistent, vars
<1> QED
  BY <1>1, <1>2, <1>3, <1>4, <1>5, <1>6 DEF Next, Thread

(* path, visited and i agree in every call on every stack, at any moment   *)
(* and whichever thread runs.                                              *)
THEOREM CallsStayConsistent == Spec => []CallsConsistent
<1>1. Init => CallsConsistent
  <2> SUFFICES ASSUME Init, NEW t \in Node
               PROVE  CallOK(graph, t, 1, FirstCall(t))
    BY DEF Init, CallsConsistent, CallOK
  <2>1. Elements(<<>>) = {} /\ Distinct(<<>>)
    BY DEF Elements, Distinct
  <2>2. IsPath(graph, t, <<>>) /\ Last(t, <<>>) = t
    BY <2>1 DEF IsPath, Last
  <2> QED
    BY <2>1, <2>2 DEF CallOK, FirstCall
<1> QED
  BY <1>1, CallsStep, TypeCorrect, PTL DEF Spec

(* No thread recurses deeper than the matrix has nodes.                    *)
THEOREM DepthStaysBounded == Spec => []DepthBounded
<1>1. TypeOK /\ CallsConsistent => DepthBounded
  <2> SUFFICES ASSUME TypeOK, CallsConsistent, NEW t \in Node
               PROVE  Len(stack[t]) <= N
    BY DEF DepthBounded
  <2> DEFINE n == Len(stack[t])
  <2>1. stack[t] \in Seq(Frame) /\ n \in Nat /\ DOMAIN stack[t] = 1 .. n
    BY LenProperties DEF TypeOK
  <2>2. CASE n = 0
    BY <2>2, NAssumption
  <2>3. CASE n # 0
    <3>1. n \in DOMAIN stack[t]
      BY <2>1, <2>3
    <3>2. Len(stack[t][n].path) = n - 1 /\ IsPath(graph, t, stack[t][n].path)
      BY <3>1 DEF CallsConsistent
    <3>3. n - 1 <= N - 1
      BY <3>2, PathLength
    <3> QED
      BY <2>1, <3>3, NAssumption
  <2> QED
    BY <2>2, <2>3
<1> QED
  BY <1>1, CallsStayConsistent, TypeCorrect, PTL

(* A line is printed only for a closed tour through all nodes.             *)
LEMMA OutputStep ==
  TypeOK /\ CallsConsistent /\ OutputSound /\ [Next]_vars => OutputSound'
<1> SUFFICES ASSUME TypeOK, CallsConsistent, OutputSound, [Next]_vars
             PROVE  OutputSound'
  OBVIOUS
<1>1. ASSUME NEW t \in Node, PrintTour(t) PROVE OutputSound'
  <2> DEFINE f == Top(t)
             l == [start |-> t, path |-> f.path, sum |-> SumUpd(f)]
  <2>1. /\ pc = "run" /\ f.j < N /\ Found(t, f) /\ graph' = graph
        /\ printed' = Append(printed, l)
    BY <1>1 DEF PrintTour, Running
  <2>2. CallOK(graph, t, Len(stack[t]), f) /\ f \in Frame
    BY <2>1, TopType DEF CallsConsistent, CallOK, Top
  <2>3. IsTour(graph, t, f.path)
    <3>1. Elements(f.path) \subseteq Node \ {t}
      BY <2>2, ElementOfSeq, LenProperties DEF CallOK, IsPath, Elements
    <3> QED
      BY <2>1, <2>2, <3>1 DEF CallOK, Found, IsTour
  <2>4. IsTour(graph, l.start, l.path)
    BY <2>3
  <2>5. l \in Line
    BY <2>1, <2>2, SumType DEF Frame, Line
  <2> HIDE DEF l
  <2>6. /\ DOMAIN printed' = 1 .. Len(printed) + 1
        /\ DOMAIN printed = 1 .. Len(printed) /\ Len(printed) \in Nat
        /\ printed'[Len(printed) + 1] = l
        /\ \A n \in 1 .. Len(printed) : printed'[n] = printed[n]
    BY <2>1, <2>5, AppendProperties, LenProperties DEF TypeOK
  <2> QED
    BY <2>1, <2>4, <2>6 DEF OutputSound
<1>2. UNCHANGED <<graph, printed>> => OutputSound'
  BY DEF OutputSound
<1>3. ASSUME NEW t \in Node, Call(t) \/ Skip(t) \/ Return(t) \/ Finish(t)
      PROVE  OutputSound'
  BY <1>2, <1>3 DEF Call, Skip, Return, Finish, Running
<1>4. CASE Start \/ UNCHANGED vars
  BY <1>2, <1>4 DEF Start, vars
<1> QED
  BY <1>1, <1>3, <1>4 DEF Next, Thread

(* Whatever tsp_t prints, for any matrix, is a tour of it.                 *)
THEOREM OutputIsSound == Spec => []OutputSound
<1>1. Init => OutputSound
  BY DEF Init, OutputSound
<1> QED
  BY <1>1, OutputStep, CallsStayConsistent, TypeCorrect, PTL DEF Spec

-----------------------------------------------------------------------------
(* A set of numbers that contains 0 and with a number the next one, up to  *)
(* a bound, contains all of them.                                          *)
LEMMA UpTo ==
  ASSUME NEW n \in Nat, NEW S, 0 \in S,
         \A k \in 0 .. n - 1 : k \in S => k + 1 \in S
  PROVE  0 .. n \subseteq S
<1> DEFINE R == {ss \in Nat \X Nat : ss[1] < ss[2]}
           F == (0 .. n) \ S
<1>1. IsWellFoundedOn(R, Nat)
  BY NatLessThanWellFounded, Zenon DEF OpToRel
<1>2. CASE F # {}
  <2>1. F \subseteq Nat
    OBVIOUS
  <2> HIDE DEF F
  <2>2. PICK k \in F : \A m \in F : <<m, k>> \notin R
    <3> HIDE DEF R
    <3> QED
      BY <1>1, <1>2, <2>1, WFMin
  <2>3. k \in 0 .. n /\ k \notin S
    BY DEF F
  <2>4. k # 0 /\ k - 1 \in 0 .. n - 1
    BY <2>3
  <2>5. k - 1 \notin S
    BY <2>3, <2>4
  <2>6. k - 1 \in F /\ <<k - 1, k>> \in R
    BY <2>3, <2>4, <2>5 DEF F
  <2> QED
    BY <2>2, <2>6
<1> QED
  BY <1>2

(* Sums(w, n): the partial sums of w up to n.                              *)
IsSum(f, w, n) == f = [k \in 0 .. n |-> IF k = 0 THEN 0 ELSE f[k - 1] + w[k]]

(* Every sequence of numbers has its partial sums.                         *)
LEMMA SumExists ==
  ASSUME NEW n \in Nat, NEW w \in [1 .. n -> Int]
  PROVE  \E f \in [0 .. n -> Int] : IsSum(f, w, n)
<1> DEFINE S == {m \in 0 .. n : \E f \in [0 .. m -> Int] : IsSum(f, w, m)}
<1>1. 0 \in S
  <2> DEFINE f == [k \in 0 .. 0 |-> 0]
  <2>1. f \in [0 .. 0 -> Int] /\ IsSum(f, w, 0)
    BY DEF IsSum
  <2> QED
    BY <2>1
<1>2. ASSUME NEW m \in 0 .. n - 1, m \in S PROVE m + 1 \in S
  <2>1. PICK f \in [0 .. m -> Int] : IsSum(f, w, m)
    BY <1>2
  <2> DEFINE h == [k \in 0 .. m + 1 |-> IF k = m + 1 THEN f[m] + w[m + 1] ELSE f[k]]
  <2>2. f[m] \in Int /\ w[m + 1] \in Int
    OBVIOUS
  <2>3. h \in [0 .. m + 1 -> Int]
    BY <2>2
  <2>4. \A k \in 0 .. m + 1 : h[k] = IF k = 0 THEN 0 ELSE h[k - 1] + w[k]
    <3> SUFFICES ASSUME NEW k \in 0 .. m + 1
                 PROVE  h[k] = IF k = 0 THEN 0 ELSE h[k - 1] + w[k]
      OBVIOUS
    <3>1. CASE k = m + 1
      <4>1. k # 0 /\ k - 1 = m /\ h[k] = f[m] + w[m + 1] /\ h[m] = f[m]
        BY <3>1
      <4> QED
        BY <3>1, <4>1
    <3>2. CASE k # m + 1
      <4>1. k \in 0 .. m /\ h[k] = f[k]
        BY <3>2
      <4>2. k # 0 => h[k - 1] = f[k - 1]
        BY <4>1
      <4>3. f[k] = IF k = 0 THEN 0 ELSE f[k - 1] + w[k]
        BY <2>1, <4>1 DEF IsSum
      <4> QED
        BY <4>1, <4>2, <4>3
    <3> QED
      BY <3>1, <3>2
  <2> HIDE DEF h
  <2>5. IsSum(h, w, m + 1)
    BY <2>3, <2>4 DEF IsSum
  <2> QED
    BY <2>3, <2>5
<1> HIDE DEF S
<1>3. 0 .. n \subseteq S
  BY <1>1, <1>2, UpTo
<1>4. n \in S
  BY <1>3
<1> QED
  BY <1>4 DEF S

(* Partial sums depend only on the numbers they are of.                    *)
LEMMA SumAgrees ==
  ASSUME NEW n \in Nat, NEW m \in Nat, NEW v, NEW w, NEW f, NEW h,
         n <= m, IsSum(f, v, n), IsSum(h, w, m),
         \A k \in 1 .. n : v[k] = w[k]
  PROVE  \A k \in 0 .. n : f[k] = h[k]
<1> DEFINE S == {k \in 0 .. n : f[k] = h[k]}
<1>1. 0 \in S
  BY DEF IsSum
<1>2. ASSUME NEW k \in 0 .. n - 1, k \in S PROVE k + 1 \in S
  <2>1. k + 1 \in 0 .. n /\ k + 1 \in 0 .. m /\ k + 1 # 0 /\ (k + 1) - 1 = k /\ k + 1 \in 1 .. n
    OBVIOUS
  <2>2. f[k + 1] = f[k] + v[k + 1]
    BY <2>1 DEF IsSum
  <2>3. h[k + 1] = h[k] + w[k + 1]
    BY <2>1 DEF IsSum
  <2> QED
    BY <1>2, <2>1, <2>2, <2>3
<1> HIDE DEF S
<1>3. 0 .. n \subseteq S
  BY <1>1, <1>2, UpTo
<1> QED
  BY <1>3 DEF S

Step(g, s, p) == [k \in 1 .. Len(p) |-> g[IF k = 1 THEN s ELSE p[k - 1]][p[k]]]

(* The weight of a path is the last of its partial sums.                   *)
LEMMA WeightIsSum ==
  ASSUME NEW g \in Matrix, NEW s \in Node, NEW p \in Seq(Node)
  PROVE  \E f \in [0 .. Len(p) -> Int] : IsSum(f, Step(g, s, p), Len(p)) /\ Weight(g, s, p) = f[Len(p)]
<1> DEFINE w == Step(g, s, p)
           n == Len(p)
           Is(f) == f = [k \in 0 .. Len(p) |-> IF k = 0 THEN 0 ELSE f[k - 1] + g[IF k = 1 THEN s ELSE p[k - 1]][p[k]]]
<1>1. n \in Nat /\ \A k \in 1 .. n : p[k] \in Node
  BY LenProperties, ElementOfSeq
<1>2. w \in [1 .. n -> Int]
  <2>1. ASSUME NEW k \in 1 .. n PROVE g[IF k = 1 THEN s ELSE p[k - 1]][p[k]] \in Int
    <3>1. (IF k = 1 THEN s ELSE p[k - 1]) \in Node
      BY <1>1
    <3> QED
      BY <1>1, <3>1 DEF Matrix
  <2> QED
    BY <2>1 DEF Step
<1>3. \A f : Is(f) <=> IsSum(f, w, n)
  <2> SUFFICES ASSUME NEW f PROVE Is(f) <=> IsSum(f, w, n)
    OBVIOUS
  <2>1. \A k \in 0 .. n : k # 0 => w[k] = g[IF k = 1 THEN s ELSE p[k - 1]][p[k]]
    BY <1>1 DEF Step
  <2> DEFINE a == [k \in 0 .. n |-> IF k = 0 THEN 0
                                   ELSE f[k - 1] + g[IF k = 1 THEN s ELSE p[k - 1]][p[k]]]
             b == [k \in 0 .. n |-> IF k = 0 THEN 0 ELSE f[k - 1] + w[k]]
  <2>2. a = b
    <3> HIDE DEF w
    <3>1. \A k \in 0 .. n : a[k] = b[k]
      BY <2>1
    <3> QED
      BY <3>1
  <2> QED
    BY <2>2 DEF IsSum
<1>4. PICK h \in [0 .. n -> Int] : IsSum(h, w, n)
  BY <1>1, <1>2, SumExists
<1>5. Is(CHOOSE f : Is(f))
  <2> HIDE DEF Is
  <2> QED
  BY <1>3, <1>4
<1>6. Weight(g, s, p) = (CHOOSE f : Is(f))[n]
  BY DEF Weight
<1>7. IsSum(CHOOSE f : Is(f), w, n)
  BY <1>3, <1>5
<1> HIDE DEF Is
<1>8. \A k \in 0 .. n : (CHOOSE f : Is(f))[k] = h[k]
  BY <1>1, <1>4, <1>7, SumAgrees
<1> QED
  BY <1>1, <1>4, <1>6, <1>8

LEMMA SumAgreesNext ==
  ASSUME NEW n \in Nat, NEW a, NEW b, NEW f, NEW h,
         IsSum(f, a, n), IsSum(h, b, n + 1),
         \A k \in 1 .. n : a[k] = b[k]
  PROVE  f[n] = h[n]
<1>1. n + 1 \in Nat /\ n <= n + 1 /\ n \in 0 .. n
  OBVIOUS
<1>2. \A k \in 0 .. n : f[k] = h[k]
  BY <1>1, SumAgrees
<1> QED
  BY <1>1, <1>2

(* A path that goes on to v weighs the edge to v more.                     *)
LEMMA WeightExtends ==
  ASSUME NEW g \in Matrix, NEW s \in Node, NEW p \in Seq(Node), NEW v \in Node
  PROVE  /\ Weight(g, s, <<>>) = 0
         /\ Weight(g, s, p) \in Int
         /\ Weight(g, s, Append(p, v)) = Weight(g, s, p) + g[Last(s, p)][v]
<1> DEFINE q == Append(p, v)
           n == Len(p)
<1>1. /\ n \in Nat /\ q \in Seq(Node) /\ Len(q) = n + 1 /\ q[n + 1] = v
      /\ \A k \in 1 .. n : q[k] = p[k]
  BY LenProperties, AppendProperties
<1>2. PICK f : f \in [0 .. n -> Int] /\ IsSum(f, Step(g, s, p), n) /\ Weight(g, s, p) = f[n]
  BY WeightIsSum
<1>3. PICK h : h \in [0 .. n + 1 -> Int] /\
        IsSum(h, Step(g, s, q), n + 1) /\ Weight(g, s, q) = h[n + 1]
  <2> HIDE DEF q
  <2> QED
    BY <1>1, WeightIsSum
<1>4. \A k \in 1 .. n : Step(g, s, p)[k] = Step(g, s, q)[k]
  <2> SUFFICES ASSUME NEW k \in 1 .. n PROVE Step(g, s, p)[k] = Step(g, s, q)[k]
    OBVIOUS
  <2>1. q[k] = p[k] /\ (k # 1 => q[k - 1] = p[k - 1]) /\ k \in 1 .. Len(q)
    BY <1>1
  <2> HIDE DEF q
  <2> QED
    BY <2>1 DEF Step
<1>5. f[n] = h[n]
  <2>1. n \in Nat /\ IsSum(f, Step(g, s, p), n) /\ IsSum(h, Step(g, s, q), n + 1)
    BY <1>1, <1>2, <1>3
  <2> HIDE DEF q, n
  <2> QED
    BY <1>4, <2>1, SumAgreesNext
<1>6. Step(g, s, q)[n + 1] = g[Last(s, p)][v]
  <2>1. n + 1 \in 1 .. Len(q)
    BY <1>1
  <2>2. (IF n + 1 = 1 THEN s ELSE q[(n + 1) - 1]) = Last(s, p)
    <3>1. CASE p = <<>>
      BY <3>1 DEF Last
    <3>2. CASE p # <<>>
      <4>1. n \in 1 .. n /\ (n + 1) - 1 = n /\ n + 1 # 1
        BY <1>1, <3>2, EmptySeq
      <4> QED
        BY <1>1, <3>2, <4>1 DEF Last
    <3> QED
      BY <3>1, <3>2
  <2> HIDE DEF q
  <2> QED
    BY <1>1, <2>1, <2>2 DEF Step
<1>7. h[n + 1] = h[n] + Step(g, s, q)[n + 1]
  <2>1. n + 1 \in 0 .. n + 1 /\ n + 1 # 0 /\ (n + 1) - 1 = n
    BY <1>1
  <2> HIDE DEF q, n
  <2> QED
    BY <1>3, <2>1 DEF IsSum
<1>8. Weight(g, s, <<>>) = 0
  <2>1. <<>> \in Seq(Node) /\ Len(<<>>) = 0
    OBVIOUS
  <2>2. PICK e \in [0 .. 0 -> Int] : IsSum(e, Step(g, s, <<>>), 0) /\ Weight(g, s, <<>>) = e[0]
    BY <2>1, WeightIsSum
  <2> QED
    BY <2>2 DEF IsSum
<1>9. f[n] \in Int
  BY <1>1, <1>2
<1> QED
  BY <1>2, <1>3, <1>5, <1>6, <1>7, <1>8, <1>9

-----------------------------------------------------------------------------
(* A closed tour without a first node.                                     *)
IsCycle(g, c) ==
  /\ c \in [0 .. N - 1 -> Node]
  /\ \A a, b \in 0 .. N - 1 : c[a] = c[b] => a = b
  /\ \A k \in 0 .. N - 1 : Edge(g, c[k], c[IF k = N - 1 THEN 0 ELSE k + 1])

ToursFrom(g, s) == {p \in [1 .. N - 1 -> Node \ {s}] : IsTour(g, s, p)}

Closed(s, p) == [k \in 0 .. N - 1 |-> IF k = 0 THEN s ELSE p[k]]
Opened(c) == [k \in 1 .. N - 1 |-> c[k]]

(* What it takes for a path to be a tour from s.                           *)
LEMMA TourShape ==
  ASSUME NEW g, NEW s \in Node, NEW p \in ToursFrom(g, s)
  PROVE  /\ p \in Seq(Node \ {s}) /\ Len(p) = N - 1 /\ DOMAIN p = 1 .. N - 1
         /\ \A k \in 1 .. N - 1 : p[k] \in Node /\ p[k] # s
         /\ \A a, b \in 1 .. N - 1 : p[a] = p[b] => a = b
         /\ \A k \in 1 .. N - 1 : Edge(g, IF k = 1 THEN s ELSE p[k - 1], p[k])
         /\ Edge(g, IF N = 1 THEN s ELSE p[N - 1], s)
<1>1. p \in [1 .. N - 1 -> Node \ {s}] /\ IsTour(g, s, p)
  BY DEF ToursFrom
<1>2. p \in Seq(Node \ {s}) /\ DOMAIN p = 1 .. N - 1
  BY <1>1 DEF IsTour, IsPath
<1>3. Len(p) = N - 1
  BY <1>2, LenProperties, NAssumption
<1>4. \A k \in 1 .. N - 1 : p[k] \in Node /\ p[k] # s
  BY <1>1
<1>5. \A a, b \in 1 .. N - 1 : p[a] = p[b] => a = b
  BY <1>1, <1>2 DEF IsTour, IsPath, Distinct
<1>6. \A k \in 1 .. N - 1 : Edge(g, IF k = 1 THEN s ELSE p[k - 1], p[k])
  BY <1>1, <1>3 DEF IsTour, IsPath
<1>7. Last(s, p) = IF N = 1 THEN s ELSE p[N - 1]
  <2>1. p = <<>> <=> N = 1
    BY <1>2, <1>3, EmptySeq, NAssumption
  <2> QED
    BY <2>1, <1>3 DEF Last
<1>8. Edge(g, Last(s, p), s)
  BY <1>1 DEF IsTour
<1> QED
  BY <1>2, <1>3, <1>4, <1>5, <1>6, <1>7, <1>8

(* A tour closed at its start is a cycle through all nodes,                *)
LEMMA TourIsCycle ==
  ASSUME NEW g, NEW s \in Node, NEW p \in ToursFrom(g, s)
  PROVE  /\ IsCycle(g, Closed(s, p)) /\ Closed(s, p)[0] = s
         /\ \A k \in 1 .. N - 1 : Closed(s, p)[k] = p[k]
<1> DEFINE c == Closed(s, p)
<1>0. /\ p \in Seq(Node \ {s}) /\ Len(p) = N - 1 /\ DOMAIN p = 1 .. N - 1
      /\ \A k \in 1 .. N - 1 : p[k] \in Node /\ p[k] # s
      /\ \A a, b \in 1 .. N - 1 : p[a] = p[b] => a = b
      /\ \A k \in 1 .. N - 1 : Edge(g, IF k = 1 THEN s ELSE p[k - 1], p[k])
      /\ Edge(g, IF N = 1 THEN s ELSE p[N - 1], s)
  BY TourShape, Zenon
<1>1. /\ c \in [0 .. N - 1 -> Node] /\ c[0] = s
      /\ \A k \in 1 .. N - 1 : c[k] = p[k]
  <2>1. \A k \in 0 .. N - 1 : k # 0 => k \in 1 .. N - 1
    OBVIOUS
  <2>2. \A k \in 1 .. N - 1 : k \in 0 .. N - 1 /\ k # 0
    OBVIOUS
  <2>3. 0 \in 0 .. N - 1
    BY NAssumption
  <2>4. \A k \in 0 .. N - 1 : (IF k = 0 THEN s ELSE p[k]) \in Node
    BY <1>0, <2>1
  <2> QED
    BY <2>2, <2>3, <2>4 DEF Closed
<1> HIDE DEF c
<1>2. ASSUME NEW a \in 0 .. N - 1, NEW b \in 0 .. N - 1, c[a] = c[b]
      PROVE  a = b
  <2>1. CASE a = 0 /\ b # 0
    BY <1>0, <1>1, <1>2, <2>1
  <2>2. CASE a # 0 /\ b = 0
    BY <1>0, <1>1, <1>2, <2>2
  <2>3. CASE a # 0 /\ b # 0
    BY <1>0, <1>1, <1>2, <2>3
  <2> QED
    BY <2>1, <2>2, <2>3
<1>3. ASSUME NEW k \in 0 .. N - 1
      PROVE  Edge(g, c[k], c[IF k = N - 1 THEN 0 ELSE k + 1])
  <2>1. CASE k = N - 1
    <3>1. c[k] = IF N = 1 THEN s ELSE p[N - 1]
      BY <1>1, <2>1, NAssumption
    <3> QED
      BY <1>0, <1>1, <2>1, <3>1
  <2>2. CASE k # N - 1
    <3>1. k + 1 \in 1 .. N - 1 /\ (k + 1) - 1 = k /\ (k + 1 = 1 <=> k = 0)
      BY <2>2, NAssumption
    <3>2. c[k + 1] = p[k + 1]
      BY <1>1, <3>1
    <3>3. c[k] = IF k + 1 = 1 THEN s ELSE p[(k + 1) - 1]
      BY <1>1, <3>1
    <3>4. Edge(g, IF k + 1 = 1 THEN s ELSE p[(k + 1) - 1], p[k + 1])
      BY <1>0, <3>1
    <3> QED
      BY <2>2, <3>2, <3>3, <3>4
  <2> QED
    BY <2>1, <2>2
<1>4. IsCycle(g, c)
  BY <1>1, <1>2, <1>3 DEF IsCycle
<1> QED
  BY <1>1, <1>4 DEF c

(* A cycle visits every node.                                              *)
LEMMA CycleCovers ==
  ASSUME NEW g, NEW c, IsCycle(g, c), NEW v \in Node
  PROVE  \E k \in 0 .. N - 1 : c[k] = v
<1>1. c \in Injection(0 .. N - 1, Node)
  BY DEF IsCycle, Injection, IsInjective
<1>2. IsFiniteSet(Node)
  BY FS_Interval, NAssumption DEF Node
<1>3. c \in Surjection(0 .. N - 1, Node)
  <2>1. Cardinality(0 .. N - 1) = Cardinality(Node)
    BY DEF Node
  <2> QED
    BY <1>1, <1>2, <2>1, FS_Injection
<1> QED
  BY <1>3 DEF Surjection

(* and a cycle opened at its start is a tour again.                        *)
LEMMA CycleIsTour ==
  ASSUME NEW g, NEW c, IsCycle(g, c)
  PROVE  Opened(c) \in ToursFrom(g, c[0])
<1> DEFINE p == Opened(c)
           s == c[0]
<1>1. /\ c \in [0 .. N - 1 -> Node] /\ s \in Node
      /\ \A a, b \in 0 .. N - 1 : c[a] = c[b] => a = b
      /\ \A k \in 0 .. N - 1 : Edge(g, c[k], c[IF k = N - 1 THEN 0 ELSE k + 1])
  BY NAssumption DEF IsCycle
<1>2. p \in [1 .. N - 1 -> Node \ {s}] /\ \A k \in 1 .. N - 1 : p[k] = c[k]
  <2>1. \A k \in 1 .. N - 1 : k \in 0 .. N - 1 /\ k # 0
    OBVIOUS
  <2>2. 0 \in 0 .. N - 1
    BY NAssumption
  <2>3. \A k \in 1 .. N - 1 : c[k] \in Node /\ c[k] # c[0]
    BY <1>1, <2>1, <2>2
  <2> QED
    BY <2>3 DEF Opened
<1> HIDE DEF p
<1>3. p \in Seq(Node \ {s}) /\ Len(p) = N - 1 /\ DOMAIN p = 1 .. N - 1
  <2>1. N - 1 \in Nat
    BY NAssumption
  <2>2. p \in Seq(Node \ {s})
    BY <1>2, <2>1, SeqDef
  <2>3. DOMAIN p = 1 .. N - 1
    BY <1>2
  <2> HIDE DEF s
  <2> QED
    BY <2>1, <2>2, <2>3, LenProperties
<1>4. Distinct(p)
  <2>1. \A a, b \in 1 .. N - 1 : a \in 0 .. N - 1 /\ b \in 0 .. N - 1
    OBVIOUS
  <2> QED
    BY <1>1, <1>2, <1>3, <2>1 DEF Distinct
<1>5. ASSUME NEW k \in 1 .. Len(p)
      PROVE  Edge(g, IF k = 1 THEN s ELSE p[k - 1], p[k])
  <2>1. k \in 1 .. N - 1 /\ k - 1 \in 0 .. N - 1 /\ k - 1 # N - 1 /\ (k - 1) + 1 = k
    BY <1>3, NAssumption
  <2>2. Edge(g, c[k - 1], c[k])
    BY <1>1, <2>1
  <2>3. CASE k = 1
    BY <1>2, <2>1, <2>2, <2>3
  <2>4. CASE k # 1
    <3>1. k - 1 \in 1 .. N - 1
      BY <2>1, <2>4
    <3> QED
    BY <1>2, <2>1, <2>2, <2>4, <3>1
  <2> QED
    BY <2>3, <2>4
<1>6. Elements(p) = Node \ {s}
  <2>1. Elements(p) \subseteq Node \ {s}
    BY <1>2, <1>3 DEF Elements
  <2>2. ASSUME NEW v \in Node \ {s} PROVE v \in Elements(p)
    <3>1. PICK k \in 0 .. N - 1 : c[k] = v
      BY CycleCovers
    <3>2. k \in 1 .. N - 1
      BY <3>1
    <3> QED
      BY <1>2, <1>3, <3>1, <3>2 DEF Elements
  <2> QED
    BY <2>1, <2>2
<1>7. Edge(g, Last(s, p), s)
  <2>1. N - 1 \in 0 .. N - 1
    BY NAssumption
  <2>2. Edge(g, c[N - 1], c[0])
    BY <1>1, <2>1
  <2>3. CASE N = 1
    <3>1. p = <<>>
      BY <1>3, <2>3, EmptySeq
    <3> QED
      BY <2>2, <2>3, <3>1 DEF Last
  <2>4. CASE N # 1
    <3>1. N - 1 \in 1 .. N - 1
      BY <2>4, NAssumption
    <3>2. p # <<>>
      <4>1. Len(p) # 0 /\ Len(<<>>) = 0
        BY <1>3, <3>1
      <4> QED
        BY <4>1
    <3> QED
      BY <1>2, <1>3, <2>2, <3>1, <3>2 DEF Last
  <2> QED
    BY <2>3, <2>4
<1>8. IsPath(g, s, p)
  BY <1>3, <1>4, <1>5 DEF IsPath
<1>9. IsTour(g, s, p)
  BY <1>6, <1>7, <1>8 DEF IsTour
<1> QED
  BY <1>2, <1>9 DEF ToursFrom, p

(* The same cycle, begun m nodes later.                                    *)
Turned(c, m) == [k \in 0 .. N - 1 |-> c[IF m + k < N THEN m + k ELSE m + k - N]]

(* A cycle started m nodes later is still a cycle: so the tours from one   *)
(* node are as many as those from another.                                 *)
LEMMA TurnedIsCycle ==
  ASSUME NEW g, NEW c, IsCycle(g, c), NEW m \in 0 .. N - 1
  PROVE  IsCycle(g, Turned(c, m)) /\ Turned(c, m)[0] = c[m]
<1> DEFINE at(k) == IF m + k < N THEN m + k ELSE m + k - N
           d == Turned(c, m)
<1>1. /\ c \in [0 .. N - 1 -> Node]
      /\ \A a, b \in 0 .. N - 1 : c[a] = c[b] => a = b
      /\ \A k \in 0 .. N - 1 : Edge(g, c[k], c[IF k = N - 1 THEN 0 ELSE k + 1])
  BY DEF IsCycle
<1>2. \A k \in 0 .. N - 1 : at(k) \in 0 .. N - 1
  BY NAssumption
<1>3. \A k \in 0 .. N - 1 : d[k] = c[at(k)]
  BY DEF Turned
<1>4. d \in [0 .. N - 1 -> Node]
  BY <1>1, <1>2 DEF Turned
<1>5. \A a, b \in 0 .. N - 1 : at(a) = at(b) => a = b
  BY NAssumption
<1>6. \A k \in 0 .. N - 1 :
        at(IF k = N - 1 THEN 0 ELSE k + 1) = IF at(k) = N - 1 THEN 0 ELSE at(k) + 1
  BY NAssumption
<1>7. at(0) = m /\ 0 \in 0 .. N - 1
  BY NAssumption
<1> HIDE DEF at, d
<1>8. \A a, b \in 0 .. N - 1 : d[a] = d[b] => a = b
  BY <1>1, <1>2, <1>3, <1>5
<1>9. ASSUME NEW k \in 0 .. N - 1
      PROVE  Edge(g, d[k], d[IF k = N - 1 THEN 0 ELSE k + 1])
  <2> DEFINE n == IF k = N - 1 THEN 0 ELSE k + 1
  <2>1. n \in 0 .. N - 1
    BY NAssumption
  <2>2. Edge(g, c[at(k)], c[IF at(k) = N - 1 THEN 0 ELSE at(k) + 1])
    BY <1>1, <1>2
  <2>3. d[n] = c[IF at(k) = N - 1 THEN 0 ELSE at(k) + 1]
    BY <1>3, <1>6, <2>1
  <2> QED
    BY <1>3, <2>2, <2>3
<1> QED
  BY <1>3, <1>4, <1>7, <1>8, <1>9 DEF IsCycle, d

(* Turning to one node keeps different cycles from one node different.     *)
LEMMA TurnedDiffers ==
  ASSUME NEW g, NEW c, NEW d, IsCycle(g, c), IsCycle(g, d), c[0] = d[0],
         NEW m \in 0 .. N - 1, NEW n \in 0 .. N - 1, Turned(c, m) = Turned(d, n)
  PROVE  c = d
<1>1. /\ c \in [0 .. N - 1 -> Node] /\ d \in [0 .. N - 1 -> Node]
      /\ \A a, b \in 0 .. N - 1 : d[a] = d[b] => a = b
  BY DEF IsCycle
<1>2. \A k \in 0 .. N - 1 : c[IF m + k < N THEN m + k ELSE m + k - N]
                            = d[IF n + k < N THEN n + k ELSE n + k - N]
  BY DEF Turned
<1>3. m = n
  <2> DEFINE k == IF m = 0 THEN 0 ELSE N - m
             b == IF n + k < N THEN n + k ELSE n + k - N
  <2>1. k \in 0 .. N - 1 /\ b \in 0 .. N - 1 /\ 0 \in 0 .. N - 1
    BY NAssumption
  <2>2. (IF m + k < N THEN m + k ELSE m + k - N) = 0
    BY NAssumption
  <2>3. d[b] = d[0]
    BY <1>2, <2>1, <2>2
  <2>4. b = 0
    BY <1>1, <2>1, <2>3
  <2> QED
    BY <2>4, NAssumption
<1>4. ASSUME NEW e \in 0 .. N - 1 PROVE c[e] = d[e]
  <2> DEFINE k == IF e >= m THEN e - m ELSE e - m + N
  <2>1. k \in 0 .. N - 1 /\ (IF m + k < N THEN m + k ELSE m + k - N) = e
    BY NAssumption
  <2> QED
    BY <1>2, <1>3, <2>1
<1> QED
  <2>1. c = [k \in 0 .. N - 1 |-> c[k]] /\ d = [k \in 0 .. N - 1 |-> d[k]]
    BY <1>1
  <2> QED
    BY <1>4, <2>1

(* The tour p from s, begun at t.                                          *)
FromThere(s, p, t) ==
  Opened(Turned(Closed(s, p), CHOOSE m \in 0 .. N - 1 : Closed(s, p)[m] = t))

(* As many tours leave one node as another: every tour passes every node.  *)
LEMMA ToursMove ==
  ASSUME NEW g, NEW s \in Node, NEW t \in Node
  PROVE  /\ \A p \in ToursFrom(g, s) : FromThere(s, p, t) \in ToursFrom(g, t)
         /\ \A p, q \in ToursFrom(g, s) :
              FromThere(s, p, t) = FromThere(s, q, t) => p = q
<1> DEFINE at(p) == CHOOSE m \in 0 .. N - 1 : Closed(s, p)[m] = t
           d(p) == Turned(Closed(s, p), at(p))
<1>1. ASSUME NEW p \in ToursFrom(g, s)
      PROVE  /\ at(p) \in 0 .. N - 1 /\ IsCycle(g, d(p)) /\ d(p)[0] = t
             /\ IsCycle(g, Closed(s, p))
  <2>1. IsCycle(g, Closed(s, p))
    BY TourIsCycle
  <2>2. \E m \in 0 .. N - 1 : Closed(s, p)[m] = t
    BY <2>1, CycleCovers
  <2>3. at(p) \in 0 .. N - 1 /\ Closed(s, p)[at(p)] = t
    BY <2>2
  <2> HIDE DEF at
  <2> QED
    BY <2>1, <2>3, TurnedIsCycle
<1>2. \A p : FromThere(s, p, t) = Opened(d(p))
  BY DEF FromThere
<1> HIDE DEF at, d
<1>3. ASSUME NEW p \in ToursFrom(g, s) PROVE FromThere(s, p, t) \in ToursFrom(g, t)
  BY <1>1, <1>2, CycleIsTour
<1>4. ASSUME NEW p \in ToursFrom(g, s), NEW q \in ToursFrom(g, s),
             FromThere(s, p, t) = FromThere(s, q, t)
      PROVE  p = q
  <2>1. Opened(d(p)) = Opened(d(q))
    BY <1>2, <1>4
  <2>2. d(p) \in [0 .. N - 1 -> Node] /\ d(q) \in [0 .. N - 1 -> Node]
    BY <1>1 DEF IsCycle
  <2>3. ASSUME NEW k \in 0 .. N - 1 PROVE d(p)[k] = d(q)[k]
    <3>1. CASE k = 0
      BY <1>1, <3>1
    <3>2. CASE k # 0
      <4>1. k \in 1 .. N - 1
        BY <3>2
      <4>2. Opened(d(p))[k] = d(p)[k] /\ Opened(d(q))[k] = d(q)[k]
        BY <4>1 DEF Opened
      <4> QED
        BY <2>1, <4>2
    <3> QED
      BY <3>1, <3>2
  <2>4. d(p) = d(q)
    <3> DEFINE u == d(p)
               v == d(q)
    <3>1. u = [k \in 0 .. N - 1 |-> u[k]] /\ v = [k \in 0 .. N - 1 |-> v[k]]
      BY <2>2
    <3>2. \A k \in 0 .. N - 1 : u[k] = v[k]
      BY <2>3
    <3> HIDE DEF u, v
    <3>3. u = v
      BY <3>1, <3>2
    <3> QED
      BY <3>3 DEF u, v
  <2>5. Closed(s, p)[0] = s /\ Closed(s, q)[0] = s
    BY TourIsCycle
  <2>6. Turned(Closed(s, p), at(p)) = Turned(Closed(s, q), at(q))
    BY <2>4 DEF d
  <2>7. Closed(s, p) = Closed(s, q)
    BY <1>1, <2>5, <2>6, TurnedDiffers
  <2>8. \A k \in 1 .. N - 1 : p[k] = q[k]
    BY <2>7, TourIsCycle
  <2>9. p \in [1 .. N - 1 -> Node \ {s}] /\ q \in [1 .. N - 1 -> Node \ {s}]
    BY DEF ToursFrom
  <2>10. p = [k \in 1 .. N - 1 |-> p[k]] /\ q = [k \in 1 .. N - 1 |-> q[k]]
    BY <2>9
  <2> QED
    BY <2>8, <2>10
<1> QED
  BY <1>3, <1>4

(* n + 1 different tours from s cannot face n tours from t.                *)
LEMMA NoMoreTours ==
  ASSUME NEW g, NEW s \in Node, NEW t \in Node, NEW n \in Nat,
         NEW f \in [0 .. n -> ToursFrom(g, s)],
         \A a, b \in 0 .. n : f[a] = f[b] => a = b,
         NEW h, \A p \in ToursFrom(g, t) : \E k \in 0 .. n - 1 : h[k] = p
  PROVE  FALSE
<1> DEFINE moved(k) == FromThere(s, f[k], t)
           e == [k \in 0 .. n |-> CHOOSE m \in 0 .. n - 1 : h[m] = moved(k)]
<1>1. \A k \in 0 .. n : moved(k) \in ToursFrom(g, t)
  BY ToursMove
<1>2. \A a, b \in 0 .. n : moved(a) = moved(b) => a = b
  BY ToursMove
<1> HIDE DEF moved
<1>3. \A k \in 0 .. n : e[k] \in 0 .. n - 1 /\ h[e[k]] = moved(k)
  <2> SUFFICES ASSUME NEW k \in 0 .. n
               PROVE  e[k] \in 0 .. n - 1 /\ h[e[k]] = moved(k)
    OBVIOUS
  <2>1. \E m \in 0 .. n - 1 : h[m] = moved(k)
    BY <1>1
  <2> QED
    BY <2>1
<1>4. e \in [0 .. n -> 0 .. n - 1]
  BY <1>3
<1> HIDE DEF e
<1>5. /\ IsFiniteSet(0 .. n) /\ Cardinality(0 .. n) = n + 1
      /\ IsFiniteSet(0 .. n - 1) /\ Cardinality(0 .. n - 1) = n
  <2>1. n \in Int /\ 0 \in Int /\ n - 1 \in Int /\ n - 0 + 1 = n + 1 /\ (n - 1) - 0 + 1 = n
    OBVIOUS
  <2>2. IsFiniteSet(0 .. n) /\ Cardinality(0 .. n) = IF 0 > n THEN 0 ELSE n - 0 + 1
    BY <2>1, FS_Interval
  <2>3. IsFiniteSet(0 .. n - 1) /\ Cardinality(0 .. n - 1) = IF 0 > n - 1 THEN 0 ELSE (n - 1) - 0 + 1
    BY <2>1, FS_Interval
  <2> QED
    BY <2>2, <2>3
<1>6. Cardinality(0 .. n - 1) < Cardinality(0 .. n)
  BY <1>5
<1>7. PICK a, b \in 0 .. n : a # b /\ e[a] = e[b]
  BY <1>4, <1>5, <1>6, FS_PigeonHole
<1> QED
  BY <1>2, <1>3, <1>7

-----------------------------------------------------------------------------
(* What a step of thread t does to the stacks.                             *)
LEMMA AdvanceShape ==
  ASSUME TypeOK, CallsConsistent, NEW t \in Node, PrintTour(t) \/ Skip(t) \/ Call(t)
  PROVE  /\ pc = "run" /\ cur = t /\ graph' = graph /\ pc' = "run"
         /\ Top(t) \in Frame /\ Top(t).j \in Node /\ Len(stack[t]) \in Nat \ {0}
         /\ DOMAIN stack[t] = 1 .. Len(stack[t])
         /\ Top(t) = stack[t][Len(stack[t])]
         /\ Advanced(t) \in Seq(Frame) /\ DOMAIN Advanced(t) = 1 .. Len(stack[t])
         /\ \A d \in 1 .. Len(stack[t]) :
              /\ stack[t][d] \in Frame
              /\ Advanced(t)[d].path = stack[t][d].path
              /\ Advanced(t)[d].sum = stack[t][d].sum
              /\ d # Len(stack[t]) => Advanced(t)[d] = stack[t][d]
         /\ Advanced(t)[Len(stack[t])].j = Top(t).j + 1
<1>1. /\ pc = "run" /\ cur = t /\ graph' = graph /\ pc' = "run" /\ Top(t).j < N
  BY DEF PrintTour, Skip, Call, Running
<1>2. /\ Top(t) \in Frame /\ Len(stack[t]) \in Nat \ {0}
      /\ DOMAIN stack[t] = 1 .. Len(stack[t])
  BY <1>1, TopType
<1>3. Top(t).j \in Node
  BY <1>1, <1>2, SumType
<1>4. /\ Advanced(t) \in Seq(Frame) /\ Len(Advanced(t)) = Len(stack[t])
      /\ \A d \in 1 .. Len(stack[t]) :
           Advanced(t)[d] = IF d = Len(stack[t])
                            THEN [Top(t) EXCEPT !.j = @ + 1] ELSE stack[t][d]
  BY <1>1, AdvancedType
<1>5. DOMAIN Advanced(t) = 1 .. Len(stack[t])
  BY <1>4, LenProperties
<1>6. \A d \in 1 .. Len(stack[t]) : stack[t][d] \in Frame
  <2>1. stack[t] \in Seq(Frame)
    BY DEF TypeOK
  <2> QED
    BY <2>1, ElementOfSeq
<1>7. Top(t) = stack[t][Len(stack[t])]
  BY DEF Top
<1> DEFINE e == [Top(t) EXCEPT !.j = @ + 1]
<1>8. e.path = Top(t).path /\ e.sum = Top(t).sum /\ e.j = Top(t).j + 1
  BY <1>2 DEF Frame
<1>9. Advanced(t)[Len(stack[t])] = e
  BY <1>2, <1>4
<1> HIDE DEF e
<1>10. \A d \in 1 .. Len(stack[t]) :
         d # Len(stack[t]) => Advanced(t)[d] = stack[t][d]
  BY <1>4
<1>11. ASSUME NEW d \in 1 .. Len(stack[t])
       PROVE  /\ Advanced(t)[d].path = stack[t][d].path
              /\ Advanced(t)[d].sum = stack[t][d].sum
  BY <1>7, <1>8, <1>9, <1>10
<1> QED
  BY <1>1, <1>2, <1>3, <1>4, <1>5, <1>6, <1>7, <1>8, <1>9, <1>10, <1>11

LEMMA AdvanceStack ==
  ASSUME TypeOK, NEW t \in Node, PrintTour(t) \/ Skip(t)
  PROVE  stack'[t] = Advanced(t) /\ \A u \in Node : u # t => stack'[u] = stack[u]
BY DEF TypeOK, PrintTour, Skip

(* A recursive call: one frame more, the caller advanced, nothing          *)
(* printed.                                                                *)
LEMMA CallShape ==
  ASSUME TypeOK, CallsConsistent, NEW t \in Node, Call(t)
  PROVE  LET n == Len(stack[t])
         IN /\ Descends(t, Top(t))
            /\ \A u \in Node : u # t => stack'[u] = stack[u]
            /\ printed' = printed /\ cur' = cur
            /\ DOMAIN stack'[t] = 1 .. n + 1
            /\ \A d \in 1 .. n : stack'[t][d] = Advanced(t)[d]
            /\ stack'[t][n + 1].path = Append(Top(t).path, Top(t).j)
            /\ stack'[t][n + 1].sum = SumUpd(Top(t))
            /\ stack'[t][n + 1].j = 0
<1> DEFINE f == Top(t)
           n == Len(stack[t])
           callee == [i |-> f.j, j |-> 0, visited |-> f.visited \cup {f.j},
                      path |-> Append(f.path, f.j), sum |-> SumUpd(f)]
           s == Append(Advanced(t), callee)
<1>1. Advanced(t) \in Seq(Frame) /\ DOMAIN Advanced(t) = 1 .. n /\ n \in Nat
  BY AdvanceShape
<1>2. stack' = [stack EXCEPT ![t] = s] /\ Descends(t, f) /\ printed' = printed /\ cur' = cur
  BY DEF Call
<1>3. callee.path = Append(f.path, f.j) /\ callee.sum = SumUpd(f) /\ callee.j = 0
  OBVIOUS
<1> HIDE DEF callee
<1>4. /\ DOMAIN s = 1 .. n + 1 /\ s[n + 1] = callee
      /\ \A d \in 1 .. n : s[d] = Advanced(t)[d]
  <2>1. Advanced(t) \in Seq(Frame \cup {callee}) /\ Len(Advanced(t)) = n
    BY <1>1, SeqMonotonic, LenProperties
  <2>2. callee \in Frame \cup {callee}
    OBVIOUS
  <2>3. /\ s \in Seq(Frame \cup {callee}) /\ Len(s) = n + 1
        /\ s[n + 1] = callee /\ \A d \in 1 .. n : s[d] = Advanced(t)[d]
    BY <2>1, <2>2, AppendProperties
  <2> QED
    BY <2>3, LenProperties
<1> HIDE DEF s
<1>5. stack'[t] = s /\ \A u \in Node : u # t => stack'[u] = stack[u]
  BY <1>2 DEF TypeOK
<1> QED
  BY <1>2, <1>3, <1>4, <1>5

(* A return: the innermost frame is gone, nothing is printed.              *)
LEMMA ReturnShape ==
  ASSUME TypeOK, NEW t \in Node, Return(t)
  PROVE  LET n == Len(stack[t])
         IN /\ pc = "run" /\ cur = t /\ graph' = graph /\ pc' = "run"
            /\ printed' = printed /\ cur' = cur
            /\ n \in Nat \ {0} /\ stack[t][n].j = N
            /\ DOMAIN stack[t] = 1 .. n
            /\ \A u \in Node : u # t => stack'[u] = stack[u]
            /\ DOMAIN stack'[t] = 1 .. n - 1
            /\ \A d \in 1 .. n - 1 : stack'[t][d] = stack[t][d]
<1> DEFINE n == Len(stack[t])
           s == SubSeq(stack[t], 1, n - 1)
<1>1. /\ pc = "run" /\ cur = t /\ graph' = graph /\ pc' = "run"
      /\ printed' = printed /\ cur' = cur /\ stack[t][n].j = N /\ n > 1
      /\ stack' = [stack EXCEPT ![t] = s]
  BY DEF Return, Running, Top
<1>2. stack[t] \in Seq(Frame)
  BY DEF TypeOK
<1>3. n \in Nat /\ DOMAIN stack[t] = 1 .. n
  BY <1>2, LenProperties
<1>4. s \in Seq(Frame) /\ Len(s) = n - 1 /\ \A d \in 1 .. n - 1 : s[d] = stack[t][d]
  BY <1>1, <1>2, PopType
<1>5. DOMAIN s = 1 .. n - 1
  BY <1>4, LenProperties
<1> HIDE DEF s
<1>6. stack'[t] = s /\ \A u \in Node : u # t => stack'[u] = stack[u]
  BY <1>1 DEF TypeOK
<1> QED
  BY <1>1, <1>3, <1>4, <1>5, <1>6

-----------------------------------------------------------------------------
(* The sums.                                                               *)
SumsRight ==
  \A t \in Node : \A d \in DOMAIN stack[t] :
    stack[t][d].sum = Weight(graph, t, stack[t][d].path)

(* While a call runs, its caller's loop is one past the node it was called *)
(* for.                                                                    *)
CallersWait ==
  \A t \in Node : \A e \in DOMAIN stack[t] : \A d \in 1 .. e - 1 :
    stack[t][e].path[d] = stack[t][d].j - 1

LEMMA SumsStep ==
  TypeOK /\ CallsConsistent /\ SumsRight /\ [Next]_vars => SumsRight'
<1> SUFFICES ASSUME TypeOK, CallsConsistent, SumsRight, [Next]_vars PROVE SumsRight'
  OBVIOUS
<1>1. CASE Start \/ UNCHANGED vars
  <2>1. stack' = stack /\ graph' = graph
    BY <1>1 DEF Start, vars
  <2> QED
    BY <2>1 DEF SumsRight
<1>2. ASSUME NEW t \in Node, PrintTour(t) \/ Skip(t) PROVE SumsRight'
  <2>1. stack'[t] = Advanced(t) /\ \A u \in Node : u # t => stack'[u] = stack[u]
    BY <1>2, AdvanceStack
  <2>2. /\ graph' = graph /\ DOMAIN Advanced(t) = DOMAIN stack[t]
        /\ \A d \in DOMAIN stack[t] : /\ Advanced(t)[d].path = stack[t][d].path
                                      /\ Advanced(t)[d].sum = stack[t][d].sum
    BY <1>2, AdvanceShape
  <2> QED
    BY <2>1, <2>2 DEF SumsRight
<1>3. ASSUME NEW t \in Node, Call(t) PROVE SumsRight'
  <2> DEFINE n == Len(stack[t])
             f == Top(t)
  <2>1. /\ graph' = graph /\ DOMAIN stack[t] = 1 .. n /\ n \in Nat \ {0}
        /\ f \in Frame /\ f.j \in Node /\ f = stack[t][n]
        /\ \A d \in 1 .. n : /\ Advanced(t)[d].path = stack[t][d].path
                             /\ Advanced(t)[d].sum = stack[t][d].sum
    BY <1>3, AdvanceShape
  <2>2. /\ \A u \in Node : u # t => stack'[u] = stack[u]
        /\ DOMAIN stack'[t] = 1 .. n + 1
        /\ \A d \in 1 .. n : stack'[t][d] = Advanced(t)[d]
        /\ stack'[t][n + 1].path = Append(f.path, f.j)
        /\ stack'[t][n + 1].sum = SumUpd(f)
    BY <1>3, CallShape
  <2>3. f.sum = Weight(graph, t, f.path) /\ f.i = Last(t, f.path)
    <3>1. n \in DOMAIN stack[t]
      BY <2>1
    <3> QED
      BY <2>1, <3>1 DEF SumsRight, CallsConsistent
  <2>4. graph \in Matrix /\ f.path \in Seq(Node)
    BY <2>1 DEF TypeOK, Frame
  <2>5. Weight(graph, t, Append(f.path, f.j)) = Weight(graph, t, f.path) + graph[Last(t, f.path)][f.j]
    BY <2>1, <2>4, WeightExtends
  <2>6. SumUpd(f) = Weight(graph, t, Append(f.path, f.j))
    BY <2>3, <2>5 DEF SumUpd
  <2> HIDE DEF f, n
  <2>7. ASSUME NEW d \in DOMAIN stack'[t]
        PROVE  stack'[t][d].sum = Weight(graph, t, stack'[t][d].path)
    <3>1. CASE d = n + 1
      BY <2>2, <2>6, <3>1
    <3>2. CASE d # n + 1
      <4>1. d \in 1 .. n
        BY <2>1, <2>2, <3>2
      <4>2. stack[t][d].sum = Weight(graph, t, stack[t][d].path)
        BY <2>1, <4>1 DEF SumsRight
      <4> QED
        BY <2>1, <2>2, <4>1, <4>2
    <3> QED
      BY <3>1, <3>2
  <2>8. ASSUME NEW u \in Node, u # t
        PROVE  \A d \in DOMAIN stack'[u] :
                 stack'[u][d].sum = Weight(graph, u, stack'[u][d].path)
    <3>1. stack'[u] = stack[u]
      BY <2>2, <2>8
    <3> QED
      BY <3>1 DEF SumsRight
  <2>9. graph' = graph
    BY <2>1
  <2> QED
    BY <2>7, <2>8, <2>9 DEF SumsRight
<1>4. ASSUME NEW t \in Node, Return(t) PROVE SumsRight'
  <2> DEFINE n == Len(stack[t])
  <2>1. /\ graph' = graph /\ n \in Nat /\ DOMAIN stack[t] = 1 .. n
        /\ \A u \in Node : u # t => stack'[u] = stack[u]
        /\ DOMAIN stack'[t] = 1 .. n - 1
        /\ \A d \in 1 .. n - 1 : stack'[t][d] = stack[t][d]
    BY <1>4, ReturnShape
  <2>2. \A d \in 1 .. n - 1 : d \in 1 .. n
    BY <2>1
  <2> HIDE DEF n
  <2> QED
    BY <2>1, <2>2 DEF SumsRight
<1>5. ASSUME NEW t \in Node, Finish(t) PROVE SumsRight'
  BY <1>5 DEF Finish, Running, SumsRight, TypeOK
<1> QED
  BY <1>1, <1>2, <1>3, <1>4, <1>5 DEF Next, Thread

LEMMA CallersStep ==
  TypeOK /\ CallsConsistent /\ CallersWait /\ [Next]_vars => CallersWait'
<1> SUFFICES ASSUME TypeOK, CallsConsistent, CallersWait, [Next]_vars PROVE CallersWait'
  OBVIOUS
<1>1. CASE Start \/ UNCHANGED vars
  <2>1. stack' = stack
    BY <1>1 DEF Start, vars
  <2> QED
    BY <2>1 DEF CallersWait
<1>2. ASSUME NEW t \in Node, PrintTour(t) \/ Skip(t) PROVE CallersWait'
  <2> DEFINE n == Len(stack[t])
  <2>1. stack'[t] = Advanced(t) /\ \A u \in Node : u # t => stack'[u] = stack[u]
    BY <1>2, AdvanceStack
  <2>2. /\ n \in Nat \ {0} /\ DOMAIN stack[t] = 1 .. n /\ DOMAIN Advanced(t) = 1 .. n
        /\ \A d \in 1 .. n : /\ Advanced(t)[d].path = stack[t][d].path
                             /\ d # n => Advanced(t)[d] = stack[t][d]
    BY <1>2, AdvanceShape
  <2>3. ASSUME NEW e \in 1 .. n, NEW d \in 1 .. e - 1
        PROVE  Advanced(t)[e].path[d] = Advanced(t)[d].j - 1
    <3>1. d \in 1 .. n /\ d # n
      BY <2>2
    <3>2. stack[t][e].path[d] = stack[t][d].j - 1
      BY <2>2 DEF CallersWait
    <3> QED
      BY <2>2, <3>1, <3>2
  <2> HIDE DEF n
  <2> QED
    BY <2>1, <2>2, <2>3 DEF CallersWait
<1>3. ASSUME NEW t \in Node, Call(t) PROVE CallersWait'
  <2> DEFINE n == Len(stack[t])
             f == Top(t)
  <2>1. /\ DOMAIN stack[t] = 1 .. n /\ n \in Nat \ {0}
        /\ f \in Frame /\ f.j \in Node /\ f = stack[t][n]
        /\ \A d \in 1 .. n : /\ Advanced(t)[d].path = stack[t][d].path
                             /\ d # n => Advanced(t)[d] = stack[t][d]
        /\ Advanced(t)[n].j = f.j + 1
    BY <1>3, AdvanceShape
  <2>2. /\ \A u \in Node : u # t => stack'[u] = stack[u]
        /\ DOMAIN stack'[t] = 1 .. n + 1
        /\ \A d \in 1 .. n : stack'[t][d] = Advanced(t)[d]
        /\ stack'[t][n + 1].path = Append(f.path, f.j)
    BY <1>3, CallShape
  <2>3. Len(f.path) = n - 1
    <3>1. n \in DOMAIN stack[t]
      BY <2>1
    <3> QED
      BY <2>1, <3>1 DEF CallsConsistent
  <2>4. /\ \A k \in 1 .. n - 1 : Append(f.path, f.j)[k] = f.path[k]
        /\ Append(f.path, f.j)[n] = f.j
    <3>1. f.path \in Seq(Node)
      BY <2>1 DEF Frame
    <3>2. /\ \A k \in 1 .. Len(f.path) : Append(f.path, f.j)[k] = f.path[k]
          /\ Append(f.path, f.j)[Len(f.path) + 1] = f.j
      BY <2>1, <3>1, AppendProperties
    <3>3. Len(f.path) + 1 = n
      BY <2>1, <2>3
    <3> QED
      BY <2>3, <3>2, <3>3
  <2>5. ASSUME NEW e \in 1 .. n + 1, NEW d \in 1 .. e - 1
        PROVE  stack'[t][e].path[d] = stack'[t][d].j - 1
    <3>1. d \in 1 .. n /\ stack'[t][d] = Advanced(t)[d]
      BY <2>1, <2>2
    <3>2. CASE e = n + 1 /\ d = n
      <4>1. stack'[t][e].path[d] = f.j
        BY <2>2, <2>4, <3>2
      <4>2. stack'[t][d].j = f.j + 1
        BY <2>1, <3>1, <3>2
      <4>3. f.j \in Int
        BY <2>1, NAssumption DEF Node
      <4> QED
        BY <4>1, <4>2, <4>3
    <3>3. CASE e = n + 1 /\ d # n
      <4>1. d \in 1 .. n - 1 /\ n \in 1 .. n
        BY <2>1, <3>1, <3>3
      <4>2. stack'[t][e].path[d] = stack[t][n].path[d]
        BY <2>1, <2>2, <2>4, <3>3, <4>1
      <4>3. stack[t][n].path[d] = stack[t][d].j - 1
        BY <2>1, <4>1 DEF CallersWait
      <4> QED
        BY <2>1, <3>1, <3>3, <4>2, <4>3
    <3>4. CASE e # n + 1
      <4>1. e \in 1 .. n /\ d # n
        BY <2>1, <3>4
      <4>2. stack[t][e].path[d] = stack[t][d].j - 1
        BY <2>1, <4>1 DEF CallersWait
      <4>3. stack'[t][e].path = stack[t][e].path /\ stack'[t][d] = stack[t][d]
        BY <2>1, <2>2, <3>1, <4>1
      <4> QED
        BY <4>2, <4>3
    <3> QED
      BY <3>2, <3>3, <3>4
  <2> HIDE DEF f, n
  <2>6. ASSUME NEW u \in Node, u # t, NEW e \in DOMAIN stack'[u], NEW d \in 1 .. e - 1
        PROVE  stack'[u][e].path[d] = stack'[u][d].j - 1
    <3>1. stack'[u] = stack[u]
      BY <2>2, <2>6
    <3> QED
      BY <3>1 DEF CallersWait
  <2>7. \A e \in DOMAIN stack'[t] : \A d \in 1 .. e - 1 :
          stack'[t][e].path[d] = stack'[t][d].j - 1
    BY <2>2, <2>5
  <2> QED
    BY <2>6, <2>7 DEF CallersWait
<1>4. ASSUME NEW t \in Node, Return(t) PROVE CallersWait'
  <2> DEFINE n == Len(stack[t])
  <2>1. /\ n \in Nat /\ DOMAIN stack[t] = 1 .. n
        /\ \A u \in Node : u # t => stack'[u] = stack[u]
        /\ DOMAIN stack'[t] = 1 .. n - 1
        /\ \A d \in 1 .. n - 1 : stack'[t][d] = stack[t][d]
    BY <1>4, ReturnShape
  <2>2. \A e \in 1 .. n - 1 : e \in 1 .. n /\ \A d \in 1 .. e - 1 : d \in 1 .. n - 1
    BY <2>1
  <2> HIDE DEF n
  <2> QED
    BY <2>1, <2>2 DEF CallersWait
<1>5. ASSUME NEW t \in Node, Finish(t) PROVE CallersWait'
  BY <1>5 DEF Finish, Running, CallersWait, TypeOK
<1> QED
  BY <1>1, <1>2, <1>3, <1>4, <1>5 DEF Next, Thread

PrintedBy(t, p) == \E n \in DOMAIN printed : printed[n].start = t /\ printed[n].path = p

(* The node the tour p from t goes to in step d.                           *)
At(t, p, d) == IF d < N THEN p[d] ELSE t

(* The call f at depth d is on the way of p and has not tried its next     *)
(* node.                                                                   *)
OnWay(p, d, f) == \A k \in 1 .. d - 1 : p[k] = f.path[k]
Pending(t, p, s) == \E d \in DOMAIN s : OnWay(p, d, s[d]) /\ s[d].j <= At(t, p, d)

SearchRight ==
  pc # "exit" => \A t \in Node : \A p \in ToursFrom(graph, t) :
                   PrintedBy(t, p) <=> ~Pending(t, p, stack[t])

LinesRight == \A n \in DOMAIN printed : printed[n] \in TourLinesFrom(graph, printed[n].start)

LEMMA AtNode ==
  ASSUME NEW g, NEW t \in Node, NEW p \in ToursFrom(g, t), NEW d \in 1 .. N
  PROVE  At(t, p, d) \in Node
<1>1. p \in [1 .. N - 1 -> Node \ {t}]
  BY DEF ToursFrom
<1>2. CASE d < N
  <2>1. d \in 1 .. N - 1
    BY <1>2, NAssumption
  <2> QED
    BY <1>1, <1>2, <2>1 DEF At
<1>3. CASE ~(d < N)
  BY <1>3 DEF At
<1> QED
  BY <1>2, <1>3

(* A call on the way of a tour makes the next step of it when its loop     *)
(* comes to that node.                                                     *)
LEMMA TakesTheWay ==
  ASSUME graph \in Matrix, NEW t \in Node, NEW p \in ToursFrom(graph, t),
         NEW d \in 1 .. N, NEW f, CallOK(graph, t, d, f), OnWay(p, d, f),
         At(t, p, d) = f.j
  PROVE  \/ d < N /\ Descends(t, f) /\ f.j # t
         \/ d = N /\ Found(t, f) /\ p = f.path /\ f.j = t
<1>1. /\ p \in Seq(Node \ {t}) /\ Len(p) = N - 1 /\ DOMAIN p = 1 .. N - 1
      /\ \A k \in 1 .. N - 1 : p[k] \in Node /\ p[k] # t
      /\ \A a, b \in 1 .. N - 1 : p[a] = p[b] => a = b
      /\ \A k \in 1 .. N - 1 : Edge(graph, IF k = 1 THEN t ELSE p[k - 1], p[k])
      /\ Edge(graph, IF N = 1 THEN t ELSE p[N - 1], t)
  BY TourShape, Zenon
<1>2. /\ Len(f.path) = d - 1 /\ f.path \in Seq(Node \ {t})
      /\ f.visited = Elements(f.path) /\ f.i = Last(t, f.path)
  BY DEF CallOK, IsPath
<1>3. DOMAIN f.path = 1 .. d - 1
  BY <1>2, LenProperties
<1>4. f.i = IF d = 1 THEN t ELSE p[d - 1]
  <2>1. CASE d = 1
    <3>1. f.path = <<>>
      BY <1>2, <2>1, EmptySeq
    <3> QED
      BY <1>2, <2>1, <3>1 DEF Last
  <2>2. CASE d # 1
    <3>1. f.path # <<>> /\ d - 1 \in 1 .. d - 1
      <4>1. Len(f.path) # 0 /\ Len(<<>>) = 0
        BY <1>2, <2>2
      <4> QED
        BY <2>2, <4>1
    <3>2. f.i = f.path[d - 1]
      BY <1>2, <3>1 DEF Last
    <3> QED
      BY <2>2, <3>1, <3>2 DEF OnWay
  <2> QED
    BY <2>1, <2>2
<1>5. Elements(f.path) = {p[k] : k \in 1 .. d - 1}
  BY <1>3 DEF Elements, OnWay
<1>6. CASE d < N
  <2>1. d \in 1 .. N - 1 /\ f.j = p[d]
    BY <1>6, NAssumption DEF At
  <2>2. f.j # t /\ Edge(graph, f.i, f.j)
    BY <1>1, <1>4, <2>1
  <2>3. ASSUME NEW k \in 1 .. d - 1 PROVE p[k] # f.j
    <3>1. k \in 1 .. N - 1 /\ k # d
      BY <2>1, NAssumption
    <3>2. p[k] = p[d] => k = d
      BY <1>1, <2>1, <3>1
    <3> QED
      BY <2>1, <3>1, <3>2
  <2>4. f.j \notin f.visited
    BY <1>2, <1>5, <2>3
  <2> QED
    BY <1>6, <2>2, <2>4 DEF Descends
<1>7. CASE ~(d < N)
  <2>1. d = N /\ f.j = t
    BY <1>7, NAssumption DEF At
  <2>2. Edge(graph, f.i, f.j)
    BY <1>1, <1>4, <2>1
  <2>3. p = f.path
    <3>1. p = [k \in 1 .. N - 1 |-> p[k]] /\ f.path = [k \in 1 .. N - 1 |-> f.path[k]]
      <4>1. f.path = [k \in 1 .. Len(f.path) |-> f.path[k]] /\ p = [k \in 1 .. Len(p) |-> p[k]]
        BY <1>1, <1>2, LenProperties
      <4> QED
        BY <1>1, <1>2, <2>1, <4>1
    <3>2. \A k \in 1 .. N - 1 : p[k] = f.path[k]
      BY <2>1 DEF OnWay
    <3> QED
      BY <3>1, <3>2
  <2>4. Node \ {t} \subseteq f.visited
    <3>1. Elements(p) = Node \ {t}
      BY DEF ToursFrom, IsTour
    <3> QED
      BY <1>2, <2>3, <3>1
  <2> QED
    BY <2>1, <2>2, <2>3, <2>4 DEF Found
<1> QED
  BY <1>6, <1>7

(* A path that visits all the others has one entry for each.               *)
LEMMA FullPath ==
  ASSUME NEW g, NEW t \in Node, NEW p, IsTour(g, t, p)
  PROVE  Len(p) = N - 1 /\ p \in ToursFrom(g, t)
<1>1. p \in Seq(Node \ {t}) /\ IsPath(g, t, p) /\ Elements(p) = Node \ {t}
  BY DEF IsTour, IsPath
<1>2. Len(p) \in Nat /\ p \in [1 .. Len(p) -> Node \ {t}]
  BY <1>1, LenProperties
<1>3. p \in Surjection(1 .. Len(p), Node \ {t})
  <2>1. \A v \in Node \ {t} : \E k \in 1 .. Len(p) : p[k] = v
    <3>1. DOMAIN p = 1 .. Len(p)
      BY <1>2
    <3> QED
      BY <1>1, <3>1 DEF Elements
  <2> QED
    BY <1>2, <2>1 DEF Surjection
<1>4. IsFiniteSet(Node) /\ Cardinality(Node) = N
  BY FS_Interval, NAssumption DEF Node
<1>5. Cardinality(Node \ {t}) = N - 1
  BY <1>4, FS_RemoveElement
<1>6. IsFiniteSet(1 .. Len(p)) /\ Cardinality(1 .. Len(p)) = Len(p)
  BY <1>2, FS_Interval
<1>7. N - 1 <= Len(p)
  BY <1>3, <1>5, <1>6, FS_Surjection
<1>8. Len(p) <= N - 1
  BY <1>1, PathLength
<1>9. Len(p) = N - 1
  BY <1>2, <1>7, <1>8, NAssumption
<1> QED
  BY <1>2, <1>9 DEF ToursFrom

(* What a thread knows when it prints.                                     *)
LEMMA PrintShape ==
  ASSUME TypeOK, CallsConsistent, SumsRight, NEW t \in Node, PrintTour(t)
  PROVE  LET f == Top(t)
             l == [start |-> t, path |-> f.path, sum |-> SumUpd(f)]
         IN /\ Found(t, f) /\ f.path \in ToursFrom(graph, t) /\ f.j = t
            /\ Len(stack[t]) = N
            /\ l \in TourLinesFrom(graph, t)
            /\ printed' = Append(printed, l)
            /\ Len(printed) \in Nat /\ DOMAIN printed = 1 .. Len(printed)
            /\ DOMAIN printed' = 1 .. Len(printed) + 1
            /\ printed'[Len(printed) + 1] = l
            /\ \A n \in 1 .. Len(printed) : printed'[n] = printed[n]
            /\ SubSeq(printed', 1, Len(printed)) = printed
            /\ Len(printed') = Len(printed) + 1
            /\ cur' = NextThread(t)
<1> DEFINE f == Top(t)
           l == [start |-> t, path |-> f.path, sum |-> SumUpd(f)]
           n == Len(stack[t])
<1>1. Found(t, f) /\ printed' = Append(printed, l) /\ cur' = NextThread(t)
  BY DEF PrintTour
<1>2. /\ f \in Frame /\ f.j \in Node /\ n \in DOMAIN stack[t] /\ f = stack[t][n]
      /\ n \in Nat
  BY AdvanceShape
<1>3. CallOK(graph, t, n, f) /\ f.sum = Weight(graph, t, f.path)
  BY <1>2 DEF CallsConsistent, CallOK, SumsRight
<1>4. IsTour(graph, t, f.path)
  <2>1. Elements(f.path) \subseteq Node \ {t}
    BY <1>3, ElementOfSeq, LenProperties DEF CallOK, IsPath, Elements
  <2> QED
    BY <1>1, <1>3, <2>1 DEF CallOK, Found, IsTour
<1>5. Len(f.path) = N - 1 /\ f.path \in ToursFrom(graph, t)
  BY <1>4, FullPath
<1>6. n = N
  BY <1>2, <1>3, <1>5, NAssumption DEF CallOK
<1>7. f.j = t
  BY <1>1 DEF Found
<1>8. l = [start |-> t, path |-> f.path,
           sum |-> Weight(graph, t, f.path) + graph[Last(t, f.path)][t]]
  BY <1>3, <1>7 DEF CallOK, SumUpd
<1>9. l \in TourLinesFrom(graph, t)
  <2> HIDE DEF f, l
  <2> QED
    BY <1>5, <1>8 DEF TourLinesFrom, ToursFrom
<1>10. l \in Line
  <2>1. SumUpd(f) \in Int
    BY <1>2, SumType, NAssumption DEF Node
  <2> QED
    BY <1>2, <2>1 DEF Frame, Line
<1> HIDE DEF l
<1>11. printed \in Seq(Line)
  BY DEF TypeOK
<1>12. /\ Len(printed) \in Nat /\ DOMAIN printed = 1 .. Len(printed)
       /\ printed' \in Seq(Line) /\ Len(printed') = Len(printed) + 1
       /\ DOMAIN printed' = 1 .. Len(printed) + 1
       /\ printed'[Len(printed) + 1] = l
       /\ \A k \in 1 .. Len(printed) : printed'[k] = printed[k]
  BY <1>1, <1>10, <1>11, AppendProperties, LenProperties
<1>13. SubSeq(printed', 1, Len(printed)) = printed
  <2> DEFINE u == SubSeq(printed', 1, Len(printed))
  <2>1. /\ u \in Seq(Line) /\ Len(u) = Len(printed)
        /\ \A k \in 1 .. Len(printed) : u[k] = printed'[k]
    BY <1>12, SubSeqProperties
  <2> HIDE DEF u
  <2>2. u = printed
    BY <1>11, <1>12, <2>1, SeqEqual
  <2> QED
    BY <2>2 DEF u
<1> QED
  BY <1>1, <1>5, <1>6, <1>7, <1>9, <1>12, <1>13 DEF l

(* The innermost call stops to be ahead of a tour only where it has come   *)
(* to the tour's next node.                                                *)
LEMMA AdvancePending ==
  ASSUME TypeOK, CallsConsistent, NEW t \in Node, PrintTour(t) \/ Skip(t) \/ Call(t),
         NEW p \in ToursFrom(graph, t)
  PROVE  LET n == Len(stack[t])
             f == Top(t)
         IN /\ n \in 1 .. N /\ CallOK(graph, t, n, f)
            /\ Pending(t, p, stack[t])
                 <=> \/ Pending(t, p, Advanced(t))
                     \/ OnWay(p, n, f) /\ At(t, p, n) = f.j
<1> DEFINE n == Len(stack[t])
           f == Top(t)
           a == Advanced(t)
           s == stack[t]
<1>1. /\ f.j \in Node /\ n \in Nat \ {0} /\ DOMAIN s = 1 .. n /\ f = s[n]
      /\ DOMAIN a = 1 .. n
      /\ \A d \in 1 .. n : a[d].path = s[d].path /\ (d # n => a[d] = s[d])
      /\ a[n].j = f.j + 1
  BY AdvanceShape
<1>2. CallOK(graph, t, n, f)
  <2>1. n \in DOMAIN s
    BY <1>1
  <2> QED
    BY <1>1, <2>1 DEF CallsConsistent, CallOK
<1>3. n \in 1 .. N
  <2>1. Len(f.path) = n - 1 /\ Len(f.path) <= N - 1
    BY <1>2, PathLength DEF CallOK
  <2> QED
    BY <1>1, <2>1, NAssumption
<1>4. At(t, p, n) \in Int /\ f.j \in Int
  BY <1>1, <1>3, AtNode, NAssumption DEF Node
<1> HIDE DEF n, f, a, s
<1>5. \A d \in 1 .. n : OnWay(p, d, a[d]) <=> OnWay(p, d, s[d])
  BY <1>1 DEF OnWay
<1>6. s[n].j <= At(t, p, n) <=> a[n].j <= At(t, p, n) \/ At(t, p, n) = f.j
  BY <1>1, <1>4
<1>7. \A d \in 1 .. n : d # n => (s[d].j <= At(t, p, d) <=> a[d].j <= At(t, p, d))
  BY <1>1
<1>8. Pending(t, p, s) <=> Pending(t, p, a) \/ (OnWay(p, n, f) /\ At(t, p, n) = f.j)
  <2>1. n \in 1 .. n
    BY <1>1
  <2>2. Pending(t, p, s) <=> \E d \in 1 .. n : OnWay(p, d, s[d]) /\ s[d].j <= At(t, p, d)
    BY <1>1 DEF Pending
  <2>3. Pending(t, p, a) <=> \E d \in 1 .. n : OnWay(p, d, a[d]) /\ a[d].j <= At(t, p, d)
    BY <1>1 DEF Pending
  <2>4. OnWay(p, n, f) <=> OnWay(p, n, s[n])
    BY <1>1
  <2>5. ASSUME Pending(t, p, s)
        PROVE  Pending(t, p, a) \/ (OnWay(p, n, f) /\ At(t, p, n) = f.j)
    <3>1. PICK d \in 1 .. n : OnWay(p, d, s[d]) /\ s[d].j <= At(t, p, d)
      BY <2>2, <2>5
    <3>2. CASE d = n
      BY <1>5, <1>6, <2>1, <2>3, <2>4, <3>1, <3>2
    <3>3. CASE d # n
      BY <1>5, <1>7, <2>3, <3>1, <3>3
    <3> QED
      BY <3>2, <3>3
  <2>6. ASSUME Pending(t, p, a) PROVE Pending(t, p, s)
    <3>1. PICK d \in 1 .. n : OnWay(p, d, a[d]) /\ a[d].j <= At(t, p, d)
      BY <2>3, <2>6
    <3>2. CASE d = n
      BY <1>5, <1>6, <2>1, <2>2, <3>1, <3>2
    <3>3. CASE d # n
      BY <1>5, <1>7, <2>2, <3>1, <3>3
    <3> QED
      BY <3>2, <3>3
  <2>7. OnWay(p, n, f) /\ At(t, p, n) = f.j => Pending(t, p, s)
    BY <1>6, <2>1, <2>2, <2>4
  <2> QED
    BY <2>5, <2>6, <2>7
<1> QED
  BY <1>2, <1>3, <1>8 DEF n, f, a, s

(* A tour just printed is behind every call of its thread.                 *)
LEMMA PrintedIsBehind ==
  ASSUME TypeOK, CallsConsistent, SumsRight, CallersWait, NEW t \in Node, PrintTour(t)
  PROVE  /\ Pending(t, Top(t).path, stack[t])
         /\ ~Pending(t, Top(t).path, Advanced(t))
         /\ \A p \in ToursFrom(graph, t) :
              p # Top(t).path => (Pending(t, p, Advanced(t)) <=> Pending(t, p, stack[t]))
<1> DEFINE n == Len(stack[t])
           f == Top(t)
           a == Advanced(t)
           s == stack[t]
           p0 == f.path
<1>1. /\ n \in Nat \ {0} /\ DOMAIN s = 1 .. n /\ f = s[n]
      /\ DOMAIN a = 1 .. n
      /\ \A d \in 1 .. n : a[d].path = s[d].path /\ (d # n => a[d] = s[d])
      /\ a[n].j = f.j + 1
      /\ \A d \in 1 .. n : s[d] \in Frame
  BY AdvanceShape
<1>2. n = N /\ f.j = t /\ p0 \in ToursFrom(graph, t)
  BY PrintShape
<1>3. At(t, p0, n) = f.j
  BY <1>2, NAssumption DEF At
<1>4. \A p \in ToursFrom(graph, t) :
        Pending(t, p, s) <=> Pending(t, p, a) \/ (OnWay(p, n, f) /\ At(t, p, n) = f.j)
  BY AdvancePending
<1>5. OnWay(p0, n, f)
  BY DEF OnWay
<1>6. ASSUME NEW d \in 1 .. n, a[d].j <= At(t, p0, d) PROVE FALSE
  <2>1. CASE d = n
    <3>1. f.j \in Int
      BY <1>2, NAssumption DEF Node
    <3> HIDE DEF f, a
    <3> QED
      BY <1>1, <1>3, <1>6, <2>1, <3>1
  <2>2. CASE d # n
    <3>1. d \in 1 .. n - 1 /\ d < N /\ n \in 1 .. n
      BY <1>1, <1>2, <2>2
    <3>2. s[n].path[d] = s[d].j - 1
      BY <1>1, <3>1 DEF CallersWait
    <3>3. At(t, p0, d) = s[d].j - 1
      BY <1>1, <3>1, <3>2 DEF At
    <3>4. a[d].j = s[d].j
      BY <1>1, <2>2
    <3>5. s[d].j \in Int
      BY <1>1, NAssumption DEF Frame
    <3> HIDE DEF s, a
    <3> QED
      BY <1>6, <3>3, <3>4, <3>5
  <2> QED
    BY <2>1, <2>2
<1>7. ~Pending(t, p0, a)
  BY <1>1, <1>6 DEF Pending
<1>8. ASSUME NEW p \in ToursFrom(graph, t), OnWay(p, n, f), At(t, p, n) = f.j
      PROVE  p = p0
  <2>1. graph \in Matrix /\ n \in 1 .. N /\ CallOK(graph, t, n, f)
    BY <1>8, AdvancePending DEF TypeOK
  <2> HIDE DEF n, f
  <2>2. p = f.path
    BY <1>2, <1>8, <2>1, TakesTheWay, NAssumption
  <2> QED
    BY <2>2
<1> HIDE DEF n, f, a, s
<1>9. Pending(t, p0, s)
  BY <1>2, <1>3, <1>4, <1>5
<1>10. \A p \in ToursFrom(graph, t) : p # p0 => (Pending(t, p, a) <=> Pending(t, p, s))
  BY <1>4, <1>8
<1> QED
  BY <1>7, <1>9, <1>10 DEF f, a, s

(* A step that skips a node skips no tour.                                 *)
LEMMA SkipPending ==
  ASSUME TypeOK, CallsConsistent, NEW t \in Node, Skip(t), NEW p \in ToursFrom(graph, t)
  PROVE  Pending(t, p, Advanced(t)) <=> Pending(t, p, stack[t])
<1> DEFINE n == Len(stack[t])
           f == Top(t)
<1>1. /\ n \in 1 .. N /\ CallOK(graph, t, n, f)
      /\ Pending(t, p, stack[t])
           <=> Pending(t, p, Advanced(t)) \/ (OnWay(p, n, f) /\ At(t, p, n) = f.j)
  BY AdvancePending
<1>2. ~Found(t, f) /\ ~Descends(t, f) /\ graph \in Matrix
  BY DEF Skip, TypeOK
<1> HIDE DEF n, f
<1>3. ~(OnWay(p, n, f) /\ At(t, p, n) = f.j)
  BY <1>1, <1>2, TakesTheWay
<1> QED
  BY <1>1, <1>3

(* A call takes over the tours its caller was about to reach.              *)
LEMMA CallPending ==
  ASSUME TypeOK, CallsConsistent, NEW t \in Node, Call(t), NEW p \in ToursFrom(graph, t)
  PROVE  Pending(t, p, stack'[t]) <=> Pending(t, p, stack[t])
<1> DEFINE n == Len(stack[t])
           f == Top(t)
           s == stack'[t]
           a == Advanced(t)
<1>1. /\ n \in 1 .. N /\ CallOK(graph, t, n, f)
      /\ Pending(t, p, stack[t])
           <=> Pending(t, p, a) \/ (OnWay(p, n, f) /\ At(t, p, n) = f.j)
  BY AdvancePending
<1>2. /\ DOMAIN a = 1 .. n /\ f \in Frame /\ f.j \in Node
  BY AdvanceShape
<1>3. /\ DOMAIN s = 1 .. n + 1 /\ \A d \in 1 .. n : s[d] = a[d]
      /\ s[n + 1].path = Append(f.path, f.j) /\ s[n + 1].j = 0
      /\ Descends(t, f)
  BY CallShape
<1>4. /\ \A k \in 1 .. n - 1 : s[n + 1].path[k] = f.path[k]
      /\ s[n + 1].path[n] = f.j
  <2>1. f.path \in Seq(Node) /\ Len(f.path) = n - 1
    BY <1>1, <1>2 DEF Frame, CallOK
  <2>2. /\ \A k \in 1 .. Len(f.path) : Append(f.path, f.j)[k] = f.path[k]
        /\ Append(f.path, f.j)[Len(f.path) + 1] = f.j
    BY <1>2, <2>1, AppendProperties
  <2>3. Len(f.path) + 1 = n
    BY <1>1, <2>1
  <2> QED
    BY <1>3, <2>1, <2>2, <2>3
<1>5. n < N
  <2>1. /\ f.j \in Node \ {t} /\ f.j \notin Elements(f.path) /\ Edge(graph, Last(t, f.path), f.j)
        /\ IsPath(graph, t, f.path) /\ Len(f.path) = n - 1
    BY <1>1, <1>2, <1>3 DEF CallOK, Descends
  <2>2. IsPath(graph, t, Append(f.path, f.j)) /\ Len(Append(f.path, f.j)) = Len(f.path) + 1
    BY <2>1, PathExtends
  <2>3. Len(Append(f.path, f.j)) <= N - 1
    BY <2>2, PathLength
  <2> QED
    BY <1>1, <2>1, <2>2, <2>3, NAssumption
<1> HIDE DEF n, f, s, a
<1>6. OnWay(p, n + 1, s[n + 1]) <=> OnWay(p, n, f) /\ At(t, p, n) = f.j
  <2>1. At(t, p, n) = p[n]
    BY <1>5 DEF At
  <2>2. OnWay(p, n + 1, s[n + 1]) <=> \A k \in 1 .. n : p[k] = s[n + 1].path[k]
    <3>1. (n + 1) - 1 = n
      BY <1>1
    <3> QED
      BY <3>1 DEF OnWay
  <2>3. n \in 1 .. n /\ \A k \in 1 .. n - 1 : k \in 1 .. n
    BY <1>1
  <2>4. \A k \in 1 .. n : k # n => k \in 1 .. n - 1
    BY <1>1
  <2> QED
    BY <1>4, <2>1, <2>2, <2>3, <2>4 DEF OnWay
<1>7. s[n + 1].j <= At(t, p, n + 1)
  <2>1. n + 1 \in 1 .. N
    BY <1>1, <1>5, NAssumption
  <2>2. At(t, p, n + 1) \in Node
    BY <2>1, AtNode
  <2> QED
    BY <1>3, <2>2, NAssumption DEF Node
<1>8. Pending(t, p, s) <=> Pending(t, p, a) \/ OnWay(p, n + 1, s[n + 1])
  <2>1. Pending(t, p, s) <=> \E d \in 1 .. n + 1 : OnWay(p, d, s[d]) /\ s[d].j <= At(t, p, d)
    BY <1>3 DEF Pending
  <2>2. Pending(t, p, a) <=> \E d \in 1 .. n : OnWay(p, d, s[d]) /\ s[d].j <= At(t, p, d)
    BY <1>2, <1>3 DEF Pending
  <2>3. n + 1 \in 1 .. n + 1 /\ \A d \in 1 .. n : d \in 1 .. n + 1
    BY <1>1
  <2>4. \A d \in 1 .. n + 1 : d # n + 1 => d \in 1 .. n
    BY <1>1
  <2> QED
    BY <1>7, <2>1, <2>2, <2>3, <2>4
<1> QED
  BY <1>1, <1>6, <1>8 DEF s

(* A call whose loop is over has nothing to take back.                     *)
LEMMA ReturnPending ==
  ASSUME TypeOK, CallsConsistent, NEW t \in Node, Return(t), NEW p \in ToursFrom(graph, t)
  PROVE  Pending(t, p, stack'[t]) <=> Pending(t, p, stack[t])
<1> DEFINE n == Len(stack[t])
           s == stack[t]
           u == stack'[t]
<1>1. /\ n \in Nat \ {0} /\ s[n].j = N /\ DOMAIN s = 1 .. n /\ DOMAIN u = 1 .. n - 1
      /\ \A d \in 1 .. n - 1 : u[d] = s[d]
  BY ReturnShape
<1>2. n \in 1 .. N
  <2>1. n \in DOMAIN s
    BY <1>1
  <2>2. Len(s[n].path) = n - 1 /\ IsPath(graph, t, s[n].path)
    BY <2>1 DEF CallsConsistent
  <2>3. Len(s[n].path) <= N - 1
    BY <2>2, PathLength
  <2> QED
    BY <1>1, <2>2, <2>3, NAssumption
<1>3. At(t, p, n) < N
  BY <1>2, AtNode, NAssumption DEF Node
<1>4. At(t, p, n) \in Int
  BY <1>2, AtNode, NAssumption DEF Node
<1> HIDE DEF n, s, u
<1>5. ~(s[n].j <= At(t, p, n))
  BY <1>1, <1>3, <1>4, NAssumption
<1>6. Pending(t, p, s) <=> \E d \in 1 .. n : OnWay(p, d, s[d]) /\ s[d].j <= At(t, p, d)
  BY <1>1 DEF Pending
<1>7. Pending(t, p, u) <=> \E d \in 1 .. n - 1 : OnWay(p, d, s[d]) /\ s[d].j <= At(t, p, d)
  BY <1>1 DEF Pending
<1>8. \A d \in 1 .. n : d # n => d \in 1 .. n - 1
  BY <1>1
<1>9. \A d \in 1 .. n - 1 : d \in 1 .. n
  BY <1>1
<1>10. Pending(t, p, u) <=> Pending(t, p, s)
  BY <1>5, <1>6, <1>7, <1>8, <1>9
<1> QED
  BY <1>10 DEF s, u

(* When the outermost loop is over, every tour of the thread is printed.   *)
LEMMA FinishPending ==
  ASSUME TypeOK, CallsConsistent, NEW t \in Node, Finish(t), NEW p \in ToursFrom(graph, t)
  PROVE  ~Pending(t, p, stack[t])
<1>1. Len(stack[t]) = 1 /\ stack[t][1].j = N
  BY DEF Finish, Top
<1>2. DOMAIN stack[t] = 1 .. 1
  BY <1>1, LenProperties DEF TypeOK
<1>3. At(t, p, 1) \in Node
  BY AtNode, NAssumption
<1>4. ~(stack[t][1].j <= At(t, p, 1))
  BY <1>1, <1>3, NAssumption DEF Node
<1> QED
  BY <1>2, <1>4 DEF Pending

(* A thread that prints adds just the path of its innermost call to what   *)
(* it has printed.                                                         *)
LEMMA PrintedByGrows ==
  ASSUME TypeOK, CallsConsistent, SumsRight, NEW t \in Node, PrintTour(t), NEW u, NEW p
  PROVE  PrintedBy(u, p)' <=> PrintedBy(u, p) \/ (u = t /\ p = Top(t).path)
<1> DEFINE f == Top(t)
           l == [start |-> t, path |-> f.path, sum |-> SumUpd(f)]
           n == Len(printed)
<1>1. /\ n \in Nat /\ DOMAIN printed = 1 .. n
      /\ DOMAIN printed' = 1 .. n + 1 /\ printed'[n + 1] = l
      /\ \A k \in 1 .. n : printed'[k] = printed[k]
  BY PrintShape
<1>2. l.start = t /\ l.path = f.path
  OBVIOUS
<1>3. n + 1 \in 1 .. n + 1 /\ (\A k \in 1 .. n : k \in 1 .. n + 1)
  BY <1>1
<1>4. \A k \in 1 .. n + 1 : k # n + 1 => k \in 1 .. n
  BY <1>1
<1> HIDE DEF l, n, f
<1>5. PrintedBy(u, p)' <=> \E k \in 1 .. n + 1 : printed'[k].start = u /\ printed'[k].path = p
  BY <1>1 DEF PrintedBy
<1>6. PrintedBy(u, p) <=> \E k \in 1 .. n : printed[k].start = u /\ printed[k].path = p
  BY <1>1 DEF PrintedBy
<1> QED
  BY <1>1, <1>2, <1>3, <1>4, <1>5, <1>6 DEF f

LEMMA SearchStep ==
  TypeOK /\ CallsConsistent /\ SumsRight /\ CallersWait /\ SearchRight /\ [Next]_vars
    => SearchRight'
<1> SUFFICES ASSUME TypeOK, CallsConsistent, SumsRight, CallersWait, SearchRight,
                    [Next]_vars, pc' # "exit"
             PROVE  graph' = graph
                    /\ \A u \in Node : \A p \in ToursFrom(graph, u) :
                         PrintedBy(u, p)' <=> ~Pending(u, p, stack'[u])
  BY DEF SearchRight
<1> DEFINE Same(u) == \A p \in ToursFrom(graph, u) : PrintedBy(u, p)' <=> ~Pending(u, p, stack'[u])
<1>1. CASE Start \/ UNCHANGED vars
  <2>1. /\ stack' = stack /\ graph' = graph /\ pc # "exit"
        /\ \A u, p : PrintedBy(u, p)' <=> PrintedBy(u, p)
    BY <1>1 DEF Start, vars, PrintedBy
  <2> QED
    BY <2>1 DEF SearchRight
<1>2. ASSUME NEW t \in Node, PrintTour(t) PROVE graph' = graph /\ \A u \in Node : Same(u)
  <2>1. pc = "run" /\ graph' = graph
    BY <1>2, AdvanceShape
  <2>2. stack'[t] = Advanced(t) /\ \A u \in Node : u # t => stack'[u] = stack[u]
    BY <1>2, AdvanceStack
  <2>3. \A u, p : PrintedBy(u, p)' <=> PrintedBy(u, p) \/ (u = t /\ p = Top(t).path)
    BY <1>2, PrintedByGrows
  <2>4. /\ Pending(t, Top(t).path, stack[t])
        /\ ~Pending(t, Top(t).path, Advanced(t))
        /\ \A p \in ToursFrom(graph, t) :
             p # Top(t).path => (Pending(t, p, Advanced(t)) <=> Pending(t, p, stack[t]))
    BY <1>2, PrintedIsBehind
  <2>5. \A u \in Node : \A p \in ToursFrom(graph, u) : PrintedBy(u, p) <=> ~Pending(u, p, stack[u])
    BY <2>1 DEF SearchRight
  <2>6. ASSUME NEW u \in Node, NEW p \in ToursFrom(graph, u)
        PROVE  PrintedBy(u, p)' <=> ~Pending(u, p, stack'[u])
    <3>1. CASE u # t
      <4>1. (PrintedBy(u, p)' <=> PrintedBy(u, p)) /\ stack'[u] = stack[u]
        BY <2>2, <2>3, <3>1
      <4> QED
        BY <2>5, <4>1
    <3>2. CASE u = t /\ p = Top(t).path
      BY <2>2, <2>3, <2>4, <3>2
    <3>3. CASE u = t /\ p # Top(t).path
      <4>1. PrintedBy(u, p)' <=> PrintedBy(u, p)
        BY <2>3, <3>3
      <4>2. Pending(u, p, stack'[u]) <=> Pending(u, p, stack[u])
        BY <2>2, <2>4, <3>3
      <4> QED
        BY <2>5, <4>1, <4>2
    <3> QED
      BY <3>1, <3>2, <3>3
  <2> QED
    BY <2>1, <2>6
<1>3. ASSUME NEW t \in Node, Skip(t) \/ Call(t) \/ Return(t)
      PROVE  graph' = graph /\ \A u \in Node : Same(u)
  <2>1. pc = "run" /\ graph' = graph /\ printed' = printed
    BY <1>3 DEF Skip, Call, Return, Running
  <2>2. \A u \in Node : u # t => stack'[u] = stack[u]
    BY <1>3, AdvanceStack, CallShape, ReturnShape
  <2>3. \A p \in ToursFrom(graph, t) : Pending(t, p, stack'[t]) <=> Pending(t, p, stack[t])
    <3>1. CASE Skip(t)
      <4>1. stack'[t] = Advanced(t)
        BY <3>1, AdvanceStack
      <4> QED
        BY <3>1, <4>1, SkipPending
    <3>2. CASE Call(t)
      BY <3>2, CallPending
    <3>3. CASE Return(t)
      BY <3>3, ReturnPending
    <3> QED
      BY <1>3, <3>1, <3>2, <3>3
  <2>4. \A u, p : PrintedBy(u, p)' <=> PrintedBy(u, p)
    BY <2>1 DEF PrintedBy
  <2>5. \A u \in Node : \A p \in ToursFrom(graph, u) : PrintedBy(u, p) <=> ~Pending(u, p, stack[u])
    BY <2>1 DEF SearchRight
  <2>6. ASSUME NEW u \in Node, NEW p \in ToursFrom(graph, u)
        PROVE  Pending(u, p, stack'[u]) <=> Pending(u, p, stack[u])
    BY <2>2, <2>3
  <2> QED
    BY <2>1, <2>4, <2>5, <2>6
<1>4. ASSUME NEW t \in Node, Finish(t) PROVE FALSE
  BY <1>4 DEF Finish
<1> HIDE DEF Same
<1>5. CASE \E t \in Node : Thread(t)
  <2>1. graph' = graph /\ \A u \in Node : Same(u)
    BY <1>2, <1>3, <1>4, <1>5 DEF Thread
  <2> QED
    BY <2>1 DEF Same
<1> QED
  BY <1>1, <1>5 DEF Next

(* What has been printed is right and is printed once.                     *)
LinesOnce == Distinct(printed)

LEMMA LinesStep ==
  TypeOK /\ CallsConsistent /\ SumsRight /\ CallersWait /\ SearchRight
    /\ LinesRight /\ LinesOnce /\ [Next]_vars
    => LinesRight' /\ LinesOnce'
<1> SUFFICES ASSUME TypeOK, CallsConsistent, SumsRight, CallersWait, SearchRight,
                    LinesRight, LinesOnce, [Next]_vars
             PROVE  LinesRight' /\ LinesOnce'
  OBVIOUS
<1>1. ASSUME graph' = graph, printed' = printed PROVE LinesRight' /\ LinesOnce'
  BY <1>1 DEF LinesRight, LinesOnce
<1>2. ASSUME NEW t \in Node, PrintTour(t) PROVE LinesRight' /\ LinesOnce'
  <2> DEFINE f == Top(t)
             l == [start |-> t, path |-> f.path, sum |-> SumUpd(f)]
             n == Len(printed)
  <2>1. /\ f.path \in ToursFrom(graph, t) /\ l \in TourLinesFrom(graph, t)
        /\ n \in Nat /\ DOMAIN printed = 1 .. n
        /\ DOMAIN printed' = 1 .. n + 1 /\ printed'[n + 1] = l
        /\ \A k \in 1 .. n : printed'[k] = printed[k]
    BY <1>2, PrintShape
  <2>2. graph' = graph /\ pc = "run"
    BY <1>2, AdvanceShape
  <2>3. ~PrintedBy(t, f.path)
    <3>1. Pending(t, f.path, stack[t])
      BY <1>2, PrintedIsBehind
    <3> QED
      BY <2>1, <2>2, <3>1 DEF SearchRight
  <2>4. l.start = t /\ l.path = f.path
    OBVIOUS
  <2>5. \A k \in 1 .. n + 1 : k # n + 1 => k \in 1 .. n
    BY <2>1
  <2> HIDE DEF f, l, n
  <2>6. \A k \in 1 .. n : printed[k] # l
    BY <2>1, <2>3, <2>4 DEF PrintedBy
  <2>7. \A a, b \in 1 .. n : printed[a] = printed[b] => a = b
    BY <2>1 DEF LinesOnce, Distinct
  <2>8. \A a, b \in 1 .. n + 1 : printed'[a] = printed'[b] => a = b
    BY <2>1, <2>5, <2>6, <2>7
  <2>9. LinesOnce'
    BY <2>1, <2>8 DEF LinesOnce, Distinct
  <2>10. \A k \in 1 .. n + 1 : printed'[k] \in TourLinesFrom(graph, printed'[k].start)
    <3>1. \A k \in 1 .. n : printed[k] \in TourLinesFrom(graph, printed[k].start)
      BY <2>1 DEF LinesRight
    <3> QED
      BY <2>1, <2>4, <2>5, <3>1
  <2>11. LinesRight'
    BY <2>1, <2>2, <2>10 DEF LinesRight
  <2> QED
    BY <2>9, <2>11
<1>3. ASSUME NEW t \in Node, Skip(t) \/ Call(t) \/ Return(t) \/ Finish(t)
      PROVE  LinesRight' /\ LinesOnce'
  <2>1. graph' = graph /\ printed' = printed
    BY <1>3 DEF Skip, Call, Return, Finish, Running
  <2> QED
    BY <1>1, <2>1
<1>4. CASE Start \/ UNCHANGED vars
  <2>1. graph' = graph /\ printed' = printed
    BY <1>4 DEF Start, vars
  <2> QED
    BY <1>1, <2>1
<1> QED
  BY <1>2, <1>3, <1>4 DEF Next, Thread

-----------------------------------------------------------------------------
(* The threads take turns.                                                 *)
TurnsInv ==
  /\ \E q \in Nat : Len(printed) = q * N + cur
  /\ \A n \in DOMAIN printed : \E k \in Nat : n - 1 = k * N + printed[n].start

LEMMA Remainder ==
  ASSUME NEW k \in Nat, NEW r \in Node
  PROVE  (k * N + r) % N = r /\ k * N \in Nat
BY NAssumption DEF Node

LEMMA TurnsStep ==
  TypeOK /\ CallsConsistent /\ SumsRight /\ TurnsInv /\ [Next]_vars => TurnsInv'
<1> SUFFICES ASSUME TypeOK, CallsConsistent, SumsRight, TurnsInv, [Next]_vars PROVE TurnsInv'
  OBVIOUS
<1>1. ASSUME printed' = printed, cur' = cur PROVE TurnsInv'
  BY <1>1 DEF TurnsInv
<1>2. ASSUME NEW t \in Node, PrintTour(t) PROVE TurnsInv'
  <2> DEFINE l == [start |-> t, path |-> Top(t).path, sum |-> SumUpd(Top(t))]
             n == Len(printed)
  <2>1. /\ n \in Nat /\ DOMAIN printed = 1 .. n
        /\ DOMAIN printed' = 1 .. n + 1 /\ printed'[n + 1] = l
        /\ \A k \in 1 .. n : printed'[k] = printed[k]
        /\ Len(printed') = n + 1 /\ cur' = NextThread(t)
    BY <1>2, PrintShape
  <2>2. cur = t
    BY <1>2, AdvanceShape
  <2>3. PICK q \in Nat : n = q * N + t
    BY <2>2 DEF TurnsInv
  <2>4. l.start = t
    OBVIOUS
  <2> HIDE DEF l, n
  <2>5. \E r \in Nat : Len(printed') = r * N + cur'
    <3>1. q * N \in Nat /\ (q + 1) * N = q * N + N
      BY NAssumption
    <3>2. CASE t = N - 1
      <4>1. cur' = 0
        BY <2>1, <3>2, NAssumption DEF NextThread
      <4>2. Len(printed') = (q + 1) * N + cur'
        BY <2>1, <2>3, <3>1, <3>2, <4>1, NAssumption
      <4> QED
        BY <4>2
    <3>3. CASE t # N - 1
      <4>1. cur' = t + 1
        BY <2>1, <3>3, NAssumption DEF NextThread, Node
      <4>2. Len(printed') = q * N + cur'
        BY <2>1, <2>3, <3>1, <4>1, NAssumption DEF Node
      <4> QED
        BY <4>2
    <3> QED
      BY <3>2, <3>3
  <2>6. ASSUME NEW m \in 1 .. n + 1
        PROVE  \E k \in Nat : m - 1 = k * N + printed'[m].start
    <3>1. CASE m = n + 1
      <4>1. m - 1 = q * N + t
        BY <2>1, <2>3, <3>1
      <4> QED
        BY <2>1, <2>4, <3>1, <4>1
    <3>2. CASE m # n + 1
      <4>1. m \in 1 .. n
        BY <2>1, <3>2
      <4> QED
        BY <2>1, <4>1 DEF TurnsInv
    <3> QED
      BY <3>1, <3>2
  <2> QED
    BY <2>1, <2>5, <2>6 DEF TurnsInv
<1>3. ASSUME NEW t \in Node, Skip(t) \/ Call(t) \/ Return(t) \/ Finish(t) PROVE TurnsInv'
  <2>1. printed' = printed /\ cur' = cur
    BY <1>3 DEF Skip, Call, Return, Finish
  <2> QED
    BY <1>1, <2>1
<1>4. CASE Start \/ UNCHANGED vars
  <2>1. printed' = printed /\ cur' = cur
    BY <1>4 DEF Start, vars
  <2> QED
    BY <1>1, <2>1
<1> QED
  BY <1>2, <1>3, <1>4 DEF Next, Thread

LEMMA TurnsAreRound == TypeOK /\ TurnsInv => RoundRobin
<1> SUFFICES ASSUME TypeOK, TurnsInv, NEW n \in DOMAIN printed
             PROVE  printed[n].start = (n - 1) % N
  BY DEF RoundRobin
<1>1. PICK k \in Nat : n - 1 = k * N + printed[n].start
  BY DEF TurnsInv
<1>2. printed[n].start \in Node
  <2>1. printed \in Seq(Line)
    BY DEF TypeOK
  <2>2. printed[n] \in Line
    BY <2>1, ElementOfSeq, LenProperties
  <2> QED
    BY <2>2 DEF Line
<1> QED
  BY <1>1, <1>2, Remainder

(* Where the k-th line of thread u is, when every thread has printed q.    *)
LEMMA LineIndex ==
  ASSUME NEW q \in Nat, NEW u \in Node, NEW k \in 0 .. q - 1
  PROVE  /\ k * N + u + 1 \in 1 .. q * N /\ q * N \in Nat
         /\ \A m \in 0 .. q - 1 : k * N + u + 1 = m * N + u + 1 => k = m
<1>1. N \in Nat \ {0} /\ u \in 0 .. N - 1
  BY NAssumption DEF Node
<1>2. k * N \in Nat /\ q * N \in Nat /\ (k + 1) * N = k * N + N
  BY <1>1
<1>3. (k + 1) * N <= q * N
  <2>1. k + 1 \in Nat /\ k + 1 <= q
    OBVIOUS
  <2> QED
    BY <1>1, <2>1
<1>4. ASSUME NEW m \in 0 .. q - 1, k * N + u + 1 = m * N + u + 1 PROVE k = m
  <2>1. k * N = m * N
    BY <1>1, <1>2, <1>4
  <2> QED
    BY <1>1, <2>1
<1> QED
  BY <1>1, <1>2, <1>3, <1>4

(* When the first thread returns, every thread has printed all its tours:  *)
(* the returning one has, no other has printed fewer, and none has more.   *)
LEMMA NothingLeft ==
  ASSUME TypeOK, CallsConsistent, SearchRight, LinesRight, LinesOnce, TurnsInv,
         NEW t \in Node, Finish(t), NEW u \in Node, NEW p \in ToursFrom(graph, u)
  PROVE  PrintedBy(u, p)
<1> SUFFICES ASSUME ~PrintedBy(u, p) PROVE FALSE
  OBVIOUS
<1>1. pc = "run" /\ cur = t
  BY DEF Finish, Running
<1>2. PICK q \in Nat : Len(printed) = q * N + t
  BY <1>1 DEF TurnsInv
<1>3. /\ printed \in Seq(Line) /\ Len(printed) \in Nat
      /\ DOMAIN printed = 1 .. Len(printed)
      /\ \A n \in 1 .. Len(printed) : printed[n] \in Line
  <2>1. printed \in Seq(Line)
    BY DEF TypeOK
  <2> QED
    BY <2>1, LenProperties, ElementOfSeq
<1>4. t \in Nat /\ N \in Nat \ {0} /\ q * N \in Nat
  BY NAssumption DEF Node
<1>5. \A n \in 1 .. Len(printed) : printed[n].start = (n - 1) % N
  BY <1>3, TurnsAreRound DEF RoundRobin
<1> DEFINE at(k, v) == k * N + v + 1
<1>6. \A v \in Node : \A k \in 0 .. q - 1 :
        /\ at(k, v) \in 1 .. Len(printed)
        /\ \A m \in 0 .. q - 1 : at(k, v) = at(m, v) => k = m
  <2> SUFFICES ASSUME NEW v \in Node, NEW k \in 0 .. q - 1
               PROVE  /\ at(k, v) \in 1 .. Len(printed)
                      /\ \A m \in 0 .. q - 1 : at(k, v) = at(m, v) => k = m
    OBVIOUS
  <2>1. at(k, v) \in 1 .. q * N /\ q * N \in Nat
    BY LineIndex
  <2>2. \A m \in 0 .. q - 1 : at(k, v) = at(m, v) => k = m
    BY LineIndex
  <2> HIDE DEF at
  <2> QED
    BY <1>2, <1>4, <2>1, <2>2
<1>7. \A v \in Node : \A k \in 0 .. q - 1 : printed[at(k, v)].start = v
  <2> SUFFICES ASSUME NEW v \in Node, NEW k \in 0 .. q - 1
               PROVE  printed[at(k, v)].start = v
    OBVIOUS
  <2>1. at(k, v) \in 1 .. Len(printed)
    BY <1>6
  <2>2. (k * N + v) % N = v /\ k * N \in Nat
    BY Remainder
  <2>3. at(k, v) - 1 = k * N + v
    BY <2>2 DEF Node
  <2>4. printed[at(k, v)].start = (at(k, v) - 1) % N
    BY <1>5, <2>1
  <2> HIDE DEF at
  <2> QED
    BY <2>2, <2>3, <2>4
<1>8. \A n \in 1 .. Len(printed) :
        printed[n].start = t => \E k \in 0 .. q - 1 : n = at(k, t)
  <2> SUFFICES ASSUME NEW n \in 1 .. Len(printed), printed[n].start = t
               PROVE  \E k \in 0 .. q - 1 : n = at(k, t)
    OBVIOUS
  <2>1. PICK k \in Nat : n - 1 = k * N + t
    BY <1>3 DEF TurnsInv
  <2>2. k * N \in Nat /\ k * N < q * N
    BY <1>2, <1>3, <1>4, <2>1
  <2>3. k < q
    <3>1. CASE k >= q
      <4>1. k * N >= q * N
        BY <1>4, <3>1
      <4> QED
        BY <1>4, <2>2, <4>1
    <3> QED
      BY <3>1
  <2>4. n = at(k, t)
    BY <1>3, <1>4, <2>1, <2>2
  <2> QED
    BY <2>3, <2>4
<1>9. \A n \in 1 .. Len(printed) :
        /\ printed[n].path \in ToursFrom(graph, printed[n].start)
        /\ printed[n].start \in Node
        /\ printed[n] = [start |-> printed[n].start, path |-> printed[n].path,
                         sum |-> Weight(graph, printed[n].start, printed[n].path)
                                   + graph[Last(printed[n].start, printed[n].path)][printed[n].start]]
  <2> SUFFICES ASSUME NEW n \in 1 .. Len(printed)
               PROVE  /\ printed[n].path \in ToursFrom(graph, printed[n].start)
                      /\ printed[n].start \in Node
                      /\ printed[n] = [start |-> printed[n].start, path |-> printed[n].path,
                         sum |-> Weight(graph, printed[n].start, printed[n].path)
                                   + graph[Last(printed[n].start, printed[n].path)][printed[n].start]]
    OBVIOUS
  <2> DEFINE v == printed[n].start
  <2>1. v \in Node
    BY <1>3 DEF Line
  <2>2. printed[n] \in TourLinesFrom(graph, v)
    BY <1>3 DEF LinesRight
  <2>3. PICK r : /\ r \in ToursFrom(graph, v)
                 /\ printed[n] = [start |-> v, path |-> r,
                                  sum |-> Weight(graph, v, r) + graph[Last(v, r)][v]]
    BY <2>2 DEF TourLinesFrom, ToursFrom
  <2>4. printed[n].path = r
    BY <2>3
  <2> HIDE DEF v
  <2>5. printed[n] = [start |-> v, path |-> printed[n].path,
                      sum |-> Weight(graph, v, printed[n].path) + graph[Last(v, printed[n].path)][v]]
    BY <2>3, <2>4
  <2> QED
    BY <2>1, <2>3, <2>4, <2>5 DEF v
<1> DEFINE h == [k \in 0 .. q - 1 |-> printed[at(k, t)].path]
           f == [k \in 0 .. q |-> IF k = q THEN p ELSE printed[at(k, u)].path]
<1> HIDE DEF at
<1>10. ASSUME NEW r \in ToursFrom(graph, t) PROVE \E k \in 0 .. q - 1 : h[k] = r
  <2>1. PrintedBy(t, r)
    BY <1>1, FinishPending DEF SearchRight
  <2>2. PICK n \in 1 .. Len(printed) : printed[n].start = t /\ printed[n].path = r
    BY <1>3, <2>1 DEF PrintedBy
  <2>3. PICK k \in 0 .. q - 1 : n = at(k, t)
    BY <1>8, <2>2
  <2> QED
    BY <2>2, <2>3
<1>11. \A k \in 0 .. q : k # q => k \in 0 .. q - 1
  OBVIOUS
<1>12. f \in [0 .. q -> ToursFrom(graph, u)]
  <2>1. ASSUME NEW k \in 0 .. q
        PROVE  (IF k = q THEN p ELSE printed[at(k, u)].path) \in ToursFrom(graph, u)
    <3>1. CASE k = q
      BY <3>1
    <3>2. CASE k # q
      <4>1. k \in 0 .. q - 1
        BY <1>11, <3>2
      <4>2. at(k, u) \in 1 .. Len(printed) /\ printed[at(k, u)].start = u
        BY <1>6, <1>7, <4>1
      <4> QED
        BY <1>9, <3>2, <4>2
    <3> QED
      BY <3>1, <3>2
  <2> QED
    BY <2>1
<1>13. \A k \in 0 .. q - 1 : printed[at(k, u)].path # p
  BY <1>3, <1>6, <1>7 DEF PrintedBy
<1>14. \A k, m \in 0 .. q - 1 :
         printed[at(k, u)].path = printed[at(m, u)].path => k = m
  <2> SUFFICES ASSUME NEW k \in 0 .. q - 1, NEW m \in 0 .. q - 1,
                      printed[at(k, u)].path = printed[at(m, u)].path
               PROVE  k = m
    OBVIOUS
  <2>1. /\ at(k, u) \in 1 .. Len(printed) /\ printed[at(k, u)].start = u
        /\ at(m, u) \in 1 .. Len(printed) /\ printed[at(m, u)].start = u
    BY <1>6, <1>7
  <2> DEFINE x == printed[at(k, u)]
             y == printed[at(m, u)]
  <2>2. /\ x = [start |-> u, path |-> x.path,
                sum |-> Weight(graph, u, x.path) + graph[Last(u, x.path)][u]]
        /\ y = [start |-> u, path |-> y.path,
                sum |-> Weight(graph, u, y.path) + graph[Last(u, y.path)][u]]
    BY <1>9, <2>1
  <2>3. x.path = y.path
    OBVIOUS
  <2> HIDE DEF x, y
  <2>4. x = y
    BY <2>2, <2>3
  <2>5. at(k, u) = at(m, u)
    BY <1>3, <2>1, <2>4 DEF x, y, LinesOnce, Distinct
  <2> QED
    BY <1>6, <2>5
<1>15. \A a, b \in 0 .. q : f[a] = f[b] => a = b
  <2>1. \A k \in 0 .. q : f[k] = IF k = q THEN p ELSE printed[at(k, u)].path
    OBVIOUS
  <2> HIDE DEF f
  <2> QED
    BY <1>11, <1>13, <1>14, <2>1
<1> HIDE DEF h, f
<1> QED
  BY <1>10, <1>12, <1>15, NoMoreTours

(* When the first thread returns from its search every thread has printed  *)
(* its last tour.                                                          *)
LEMMA AllPrinted ==
  ASSUME TypeOK, CallsConsistent, SearchRight, LinesRight, LinesOnce, TurnsInv,
         NEW t \in Node, Finish(t)
  PROVE  Elements(printed) = TourLines(graph)
<1>1. printed \in Seq(Line) /\ \A n \in DOMAIN printed : printed[n].start \in Node
  <2>1. printed \in Seq(Line)
    BY DEF TypeOK
  <2>2. \A n \in DOMAIN printed : printed[n] \in Line
    BY <2>1, LenProperties, ElementOfSeq
  <2> QED
    BY <2>1, <2>2 DEF Line
<1>2. Elements(printed) \subseteq TourLines(graph)
  BY <1>1 DEF Elements, LinesRight, TourLines
<1>3. ASSUME NEW u \in Node, NEW l \in TourLinesFrom(graph, u) PROVE l \in Elements(printed)
  <2> DEFINE line(p) == [start |-> u, path |-> p,
                         sum |-> Weight(graph, u, p) + graph[Last(u, p)][u]]
  <2>1. \A x \in TourLinesFrom(graph, u) : \E p \in ToursFrom(graph, u) : x = line(p)
    BY DEF TourLinesFrom, ToursFrom
  <2>2. PICK p \in ToursFrom(graph, u) : l = line(p)
    BY <2>1
  <2>3. PICK n \in DOMAIN printed : printed[n].start = u /\ printed[n].path = p
    BY NothingLeft DEF PrintedBy
  <2>4. printed[n] \in TourLinesFrom(graph, u)
    BY <2>3 DEF LinesRight
  <2>5. PICK r \in ToursFrom(graph, u) : printed[n] = line(r)
    BY <2>1, <2>4
  <2>6. line(r).path = r
    OBVIOUS
  <2> HIDE DEF line
  <2>7. r = p
    BY <2>3, <2>5, <2>6
  <2>8. printed[n] = l
    BY <2>2, <2>5, <2>7
  <2> QED
    BY <2>8 DEF Elements
<1>4. TourLines(graph) \subseteq Elements(printed)
  BY <1>3 DEF TourLines
<1> QED
  BY <1>2, <1>4

-----------------------------------------------------------------------------
TspInv ==
  /\ TypeOK /\ CallsConsistent /\ SumsRight /\ CallersWait
  /\ SearchRight /\ LinesRight /\ LinesOnce /\ TurnsInv

LEMMA TspInvHolds == Spec => []TspInv
<1>1. Init => SumsRight /\ CallersWait
  <2> SUFFICES ASSUME Init PROVE SumsRight /\ CallersWait
    OBVIOUS
  <2>1. ASSUME NEW t \in Node
        PROVE  /\ DOMAIN stack[t] = 1 .. 1 /\ stack[t][1].path = <<>>
               /\ stack[t][1].sum = 0
    BY DEF Init, FirstCall
  <2>2. ASSUME NEW t \in Node PROVE Weight(graph, t, <<>>) = 0
    <3>1. graph \in Matrix /\ <<>> \in Seq(Node)
      BY GraphsAssumption DEF Init
    <3> QED
      BY <3>1, WeightExtends
  <2> QED
    BY <2>1, <2>2 DEF SumsRight, CallersWait
<1>2. Init => SearchRight
  <2> SUFFICES ASSUME Init, NEW t \in Node, NEW p \in ToursFrom(graph, t)
               PROVE  ~PrintedBy(t, p) /\ Pending(t, p, stack[t])
    BY DEF SearchRight
  <2>1. ~PrintedBy(t, p)
    BY DEF Init, PrintedBy
  <2>2. 1 \in DOMAIN stack[t] /\ stack[t][1].j = 0
    BY DEF Init, FirstCall
  <2>3. At(t, p, 1) \in Node
    BY AtNode, NAssumption
  <2>4. 0 <= At(t, p, 1)
    BY <2>3, NAssumption DEF Node
  <2>5. OnWay(p, 1, stack[t][1])
    BY DEF OnWay
  <2> QED
    BY <2>1, <2>2, <2>4, <2>5 DEF Pending
<1>3. Init => LinesRight /\ LinesOnce /\ TurnsInv
  <2> SUFFICES ASSUME Init PROVE LinesRight /\ LinesOnce /\ TurnsInv
    OBVIOUS
  <2>1. printed = <<>> /\ DOMAIN printed = {} /\ Len(printed) = 0 /\ cur = 0
    BY DEF Init
  <2>2. 0 = 0 * N + 0
    BY NAssumption
  <2> QED
    BY <2>1, <2>2 DEF LinesRight, LinesOnce, TurnsInv, Distinct
<1> DEFINE Rest == SumsRight /\ CallersWait /\ SearchRight /\ LinesRight /\ LinesOnce /\ TurnsInv
<1>4. Init => Rest
  BY <1>1, <1>2, <1>3
<1>5. TypeOK /\ CallsConsistent /\ Rest /\ [Next]_vars => Rest'
  BY SumsStep, CallersStep, SearchStep, LinesStep, TurnsStep
<1>6. TypeOK /\ CallsConsistent /\ Rest => TspInv
  BY DEF TspInv
<1> HIDE DEF Rest
<1> QED
  BY <1>4, <1>5, <1>6, TypeCorrect, CallsStayConsistent, PTL DEF Spec

(* swtch_pth (tsp_t.c) gives the processor to the next thread after every  *)
(* tour, so no thread is ever more than one tour ahead of another.         *)
THEOREM ThreadsTakeTurns == Spec => []RoundRobin
<1>1. TspInv => RoundRobin
  BY TurnsAreRound DEF TspInv
<1> QED
  BY <1>1, TspInvHolds, PTL

(* The specification instantiates the same definitions under its own name. *)
LEMMA PromiseTours ==
  /\ \A s : Promise!Distinct(s) <=> Distinct(s)
  /\ \A s : Promise!Elements(s) = Elements(s)
  /\ \A g : Promise!TourLines(g) = TourLines(g)
<1>1. \A s : Promise!Distinct(s) <=> Distinct(s)
  BY DEF Promise!Distinct, Distinct
<1>2. \A s : Promise!Elements(s) = Elements(s)
  BY DEF Promise!Elements, Elements
<1>3. Promise!Node = Node
  BY DEF Promise!Node, Node
<1>4. \A g, i, j : Promise!Edge(g, i, j) <=> Edge(g, i, j)
  BY DEF Promise!Edge, Edge
<1>5. \A s, p : Promise!Last(s, p) = Last(s, p)
  BY DEF Promise!Last, Last
<1>6. \A g, s, p : Promise!IsPath(g, s, p) <=> IsPath(g, s, p)
  BY <1>1, <1>3, <1>4 DEF Promise!IsPath, IsPath
<1>7. \A g, s, p : Promise!IsTour(g, s, p) <=> IsTour(g, s, p)
  BY <1>2, <1>3, <1>4, <1>5, <1>6 DEF Promise!IsTour, IsTour
<1>8. \A g, s, p : Promise!Weight(g, s, p) = Weight(g, s, p)
  BY DEF Promise!Weight, Weight
<1>9. \A g, s : Promise!TourLinesFrom(g, s) = TourLinesFrom(g, s)
  BY <1>3, <1>5, <1>7, <1>8 DEF Promise!TourLinesFrom, TourLinesFrom
<1> QED
  BY <1>1, <1>2, <1>3, <1>9 DEF Promise!TourLines, TourLines

(* tsp_t keeps the promise of TourSpec: it prints lines of tours, none     *)
(* twice, and although the first thread to return ends the process, by     *)
(* then all of them.                                                       *)
THEOREM AllToursArePrinted == Spec => PrintsAllTours
<1>1. Init => Promise!SpecInit
  BY DEF Init, Promise!SpecInit
<1>2. TspInv /\ [Next]_vars => [Promise!SpecNext]_Promise!specVars
  <2> SUFFICES ASSUME TspInv, [Next]_vars PROVE [Promise!SpecNext]_Promise!specVars
    OBVIOUS
  <2> USE DEF TspInv
  <2>1. ASSUME NEW t \in Node, PrintTour(t) PROVE Promise!Report
    <3>1. pc # "exit" /\ pc' # "exit" /\ graph' = graph
      BY <2>1, AdvanceShape
    <3>2. /\ Len(printed) < Len(printed')
          /\ SubSeq(printed', 1, Len(printed)) = printed
      <4> DEFINE l == [start |-> t, path |-> Top(t).path, sum |-> SumUpd(Top(t))]
      <4>1. /\ Len(printed) \in Nat /\ Len(printed') = Len(printed) + 1
            /\ SubSeq(printed', 1, Len(printed)) = printed
        BY <2>1, PrintShape
      <4> QED
        BY <4>1
    <3>3. LinesRight' /\ LinesOnce' /\ TypeOK'
      <4>1. LinesRight' /\ LinesOnce'
        BY LinesStep
      <4>2. TypeOK'
        BY TypePreserved
      <4> QED
        BY <4>1, <4>2
    <3>4. Elements(printed') \subseteq TourLines(graph)
      <4>1. \A n \in DOMAIN printed' : printed'[n] \in Line
        BY <3>3, LenProperties, ElementOfSeq DEF TypeOK
      <4>2. \A n \in DOMAIN printed' : printed'[n].start \in Node
        BY <4>1 DEF Line
      <4> QED
        BY <3>1, <3>3, <4>2 DEF LinesRight, Elements, TourLines
    <3>5. Distinct(printed')
      BY <3>3 DEF LinesOnce
    <3> QED
      BY <3>1, <3>2, <3>4, <3>5, PromiseTours DEF Promise!Report
  <2>2. ASSUME NEW t \in Node, Finish(t) PROVE Promise!End
    <3>1. pc = "run" /\ pc' = "exit" /\ graph' = graph /\ printed' = printed
      BY <2>2 DEF Finish, Running
    <3>2. Elements(printed) = TourLines(graph)
      BY <2>2, AllPrinted
    <3> QED
      BY <3>1, <3>2, PromiseTours DEF Promise!End
  <2>3. ASSUME NEW t \in Node, Skip(t) \/ Call(t) \/ Return(t)
        PROVE  UNCHANGED Promise!specVars
    <3>1. pc' = pc /\ graph' = graph /\ printed' = printed
      BY <2>3 DEF Skip, Call, Return, Running
    <3> QED
      BY <3>1 DEF Promise!specVars
  <2>4. CASE Start \/ UNCHANGED vars
    <3>1. graph' = graph /\ printed' = printed /\ (pc' = "exit" <=> pc = "exit")
      BY <2>4 DEF Start, vars
    <3> QED
      BY <3>1 DEF Promise!specVars
  <2> QED
    BY <2>1, <2>2, <2>3, <2>4 DEF Next, Thread, Promise!SpecNext
<1> QED
  BY <1>1, <1>2, TspInvHolds, PTL DEF Spec, PrintsAllTours, Promise!AllToursSpec
=============================================================================
