---------------------------- MODULE TspThreads ----------------------------
(***************************************************************************)
(* a2/tsp_t.c: one user-level thread per starting node, each a recursive   *)
(* depth-first search (find_paths) on a stack of its own.  A thread gives  *)
(* the processor away only after it has printed a tour (swapcontext to the *)
(* next thread), and a thread whose function returns continues in the      *)
(* parent context (uc_link), where main returns and the process ends.      *)
(***************************************************************************)
EXTENDS Tours

VARIABLES
  graph,    \* the matrix, read before the threads are created
  pc,       \* "main" before the first switch, "run", "exit"
  cur,      \* the running thread
  stack,    \* the call stack of find_paths of every thread
  printed   \* the lines on stdout

vars == <<graph, pc, cur, stack, printed>>

(* One call of find_paths: its parameters and its loop variable.           *)
Frame ==
  [i : Node, j : 0 .. N, visited : SUBSET Node, path : Seq(Node), sum : Int]

(* find_paths_wrapper: the outermost call.                                 *)
FirstCall(start) ==
  [i |-> start, j |-> 0, visited |-> {}, path |-> <<>>, sum |-> 0]

Init ==
  /\ graph \in Graphs
  /\ pc = "main" /\ cur = 0
  /\ stack = [t \in Node |-> <<FirstCall(t)>>]
  /\ printed = <<>>

Top(t) == stack[t][Len(stack[t])]
Mut_NotAdvanced(t) == stack[t]
Advanced(t) == [stack[t] EXCEPT ![Len(stack[t])].j = @ + 1]

(* sumUpd *)
SumUpd(f) == f.sum + graph[f.i][f.j]

(* The two conditions in the loop of find_paths.                           *)
Mut_AnyReturn(t, f) == f.j = t /\ Edge(graph, f.i, f.j)
Found(t, f) == f.j = t /\ Edge(graph, f.i, f.j) /\ Node \ {t} \subseteq f.visited

Mut_Revisits(t, f) == f.j # t /\ Edge(graph, f.i, f.j)
Descends(t, f) == f.j # t /\ Edge(graph, f.i, f.j) /\ f.j \notin f.visited

(* main: swapcontext(&parent, &child[0]).                                  *)
Start ==
  /\ pc = "main" /\ pc' = "run"
  /\ UNCHANGED <<graph, cur, stack, printed>>

Running(t) == pc = "run" /\ cur = t /\ UNCHANGED graph

(* The thread that runs next.                                              *)
Mut_SameThread(t) == t
NextThread(t) == (t + 1) % N

PrintTour(t) ==
  LET f == Top(t)
  IN /\ Running(t) /\ f.j < N /\ Found(t, f)
     /\ printed' = Append(printed,
                          [start |-> t, path |-> f.path, sum |-> SumUpd(f)])
     /\ stack' = [stack EXCEPT ![t] = Advanced(t)]
     /\ cur' = NextThread(t)
     /\ pc' = pc

Call(t) ==
  LET f == Top(t)
      callee == [i |-> f.j, j |-> 0, visited |-> f.visited \cup {f.j},
                 path |-> Append(f.path, f.j), sum |-> SumUpd(f)]
  IN /\ Running(t) /\ f.j < N /\ Descends(t, f)
     /\ stack' = [stack EXCEPT ![t] = Append(Advanced(t), callee)]
     /\ UNCHANGED <<pc, cur, printed>>

Skip(t) ==
  /\ Running(t) /\ Top(t).j < N
  /\ ~Found(t, Top(t)) /\ ~Descends(t, Top(t))
  /\ stack' = [stack EXCEPT ![t] = Advanced(t)]
  /\ UNCHANGED <<pc, cur, printed>>

Return(t) ==
  /\ Running(t) /\ Top(t).j = N /\ Len(stack[t]) > 1
  /\ stack' = [stack EXCEPT ![t] = SubSeq(@, 1, Len(@) - 1)]
  /\ UNCHANGED <<pc, cur, printed>>

(* The outermost call returns: uc_link resumes main, which returns 0.      *)
Finish(t) ==
  /\ Running(t) /\ Top(t).j = N /\ Len(stack[t]) = 1
  /\ stack' = [stack EXCEPT ![t] = <<>>]
  /\ pc' = "exit"
  /\ UNCHANGED <<cur, printed>>

Thread(t) == PrintTour(t) \/ Call(t) \/ Skip(t) \/ Return(t) \/ Finish(t)

Next == Start \/ \E t \in Node : Thread(t)

Spec == Init /\ [][Next]_vars

(* One processor, nothing to wait for: the process runs on.                *)
FairSpec == Spec /\ WF_vars(Next)

-----------------------------------------------------------------------------
TypeOK ==
  /\ graph \in Matrix
  /\ pc \in {"main", "run", "exit"}
  /\ cur \in Node
  /\ stack \in [Node -> Seq(Frame)]
  /\ pc # "exit" => \A t \in Node : stack[t] # <<>>
  /\ printed \in Seq(Line)

(* What every call on every stack knows is right, across all the switches: *)
(* a call at depth d has a path of d - 1 different nodes that starts at    *)
(* the thread's node, visited holds exactly these, and the call works on   *)
(* the last of them.                                                       *)
CallsConsistent ==
  \A t \in Node : \A d \in DOMAIN stack[t] :
    LET f == stack[t][d]
    IN /\ Len(f.path) = d - 1 /\ IsPath(graph, t, f.path)
       /\ f.visited = Elements(f.path) /\ f.i = Last(t, f.path)

(* The recursion of a thread is never deeper than there are nodes, so the  *)
(* fixed stacks and path[80] are sized by the matrix alone.                *)
DepthBounded == \A t \in Node : Len(stack[t]) <= N

(* Every line on stdout is a closed tour through all nodes.                *)
OutputSound ==
  \A n \in DOMAIN printed : IsTour(graph, printed[n].start, printed[n].path)

(* The threads take turns, one line each: line n comes from thread         *)
(* (n - 1) mod N, so no thread is ever two lines ahead of another.         *)
RoundRobin == \A n \in DOMAIN printed : printed[n].start = (n - 1) % N

(* The process ends when the first thread returns from find_paths.  All    *)
(* tours are on stdout by then although the other threads never return:    *)
(* each tour passes every node once, so all threads find equally many.     *)
Promise == INSTANCE TourSpec WITH over <- (pc = "exit")
PrintsAllTours == Promise!AllToursSpec

Terminates == <>(pc = "exit")
=============================================================================
