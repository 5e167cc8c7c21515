------------------------------ MODULE TspProcs ------------------------------
(***************************************************************************)
(* a2/tsp_p.c with a2/find_paths.c: the parent puts the matrix and one     *)
(* empty result region per node into shared memory, starts one searcher    *)
(* process per starting node, waits as often as it started one, and prints *)
(* the regions.  A searcher appends its lines to its region with strcat,   *)
(* which knows nothing of the end of the page.                             *)
(***************************************************************************)
EXTENDS Tours, FiniteSets

CONSTANTS
  PageLines,  \* lines that fit into a region of one page
  Faulty      \* nodes whose searcher may fail to start or be killed

ASSUME PageAssumption == PageLines \in Nat
ASSUME FaultyAssumption == Faulty \subseteq Node

VARIABLES
  graph,    \* the matrix
  pc,       \* "fork", "wait", "print", "detach"; final: "exit" (0), or
            \*   "failed", by exit(1) or by a signal
  node,     \* loop variable of main's three loops
  autoReap, \* SIGCHLD was ignored when tsp_p was started: no zombies
  proc,     \* the searcher of every node
  todo,     \* lines it has still to find
  region,   \* the result regions
  torn,     \* nodes whose region ends in a part of a line
  spoiled,  \* a region has overflown into the memory behind it
  lost,     \* history: nodes whose searcher failed
  printed,  \* the lines on stdout
  cut       \* stdout ends in a part of a line

mainVars == <<pc, node, printed, cut>>
regionVars == <<todo, region, torn, spoiled, lost>>
vars == <<graph, mainVars, autoReap, proc, regionVars>>

ProcState == {"none", "forked", "running", "zombie", "gone"}
Alive == {n \in Node : proc[n] \in {"forked", "running"}}

-----------------------------------------------------------------------------
(* The base case of find_paths: the line appended when the walk p can be   *)
(* closed to a tour.                                                       *)
Mut_ClosesAnyway(g, s, p) ==
  IF Node \ {s} \subseteq Elements(p)
  THEN <<[start |-> s, path |-> p, sum |-> Weight(g, s, p) + g[Last(s, p)][s]]>>
  ELSE <<>>

Closed(g, s, p) ==
  IF Edge(g, Last(s, p), s) /\ Node \ {s} \subseteq Elements(p)
  THEN <<[start |-> s, path |-> p, sum |-> Weight(g, s, p) + g[Last(s, p)][s]]>>
  ELSE <<>>

(* find_paths: everything the search from s appends.  from[<<p, j>>] is    *)
(* what the call that has walked p appends from round j of its loop on.    *)
Results(g, s) ==
  LET Walk == {p \in UNION {[1 .. n -> Node \ {s}] : n \in 0 .. N - 1} : Distinct(p)}
      from[w \in Walk \X (0 .. N)] ==
        LET p == w[1]
            j == w[2]
            round == IF j = s THEN Closed(g, s, p)
                     ELSE IF Edge(g, Last(s, p), j) /\ j \notin Elements(p)
                     THEN from[<<Append(p, j), 0>>]
                     ELSE <<>>
        IN IF j = N THEN <<>> ELSE round \o from[<<p, j + 1>>]
  IN from[<<<<>>, 0>>]

-----------------------------------------------------------------------------
Init ==
  /\ graph \in Graphs
  /\ pc = "fork" /\ node = 0
  /\ autoReap \in BOOLEAN
  /\ proc = [n \in Node |-> "none"]
  /\ todo = [n \in Node |-> <<>>]
  /\ region = [n \in Node |-> <<>>]
  /\ torn = {} /\ spoiled = FALSE /\ lost = {} /\ printed = <<>> /\ cut = FALSE

(* The next round of a loop of main, or the loop behind it.                *)
Mut_OneRoundMore(loop, next) ==
  /\ pc = loop
  /\ IF node < N THEN pc' = loop /\ node' = node + 1
     ELSE pc' = next /\ node' = 0
  /\ UNCHANGED <<graph, autoReap, regionVars>>

NextRound(loop, next) ==
  /\ pc = loop
  /\ IF node + 1 < N THEN pc' = loop /\ node' = node + 1
     ELSE pc' = next /\ node' = 0
  /\ UNCHANGED <<graph, autoReap, regionVars>>

Fork ==
  /\ NextRound("fork", "wait")
  /\ proc' = [proc EXCEPT ![node] = "forked"]
  /\ UNCHANGED <<printed, cut>>

(* shmget or fork fails: exit(1), and the searchers go on by themselves.   *)
StartFails ==
  /\ pc = "fork" /\ pc' = "failed"
  /\ UNCHANGED <<graph, node, printed, cut, autoReap, proc, regionVars>>

(* waitpid(-1, NULL, 0): whichever child is dead ...                       *)
WaitReap(n) ==
  /\ NextRound("wait", "print")
  /\ proc[n] = "zombie"
  /\ proc' = [proc EXCEPT ![n] = "gone"]
  /\ UNCHANGED <<printed, cut>>

(* ... or an error, when no child is left to wait for.                     *)
Mut_DoesNotBlock ==
  /\ NextRound("wait", "print")
  /\ \A n \in Node : proc[n] # "zombie"
  /\ UNCHANGED <<proc, printed, cut>>

WaitFails ==
  /\ NextRound("wait", "print")
  /\ Alive = {} /\ \A n \in Node : proc[n] # "zombie"
  /\ UNCHANGED <<proc, printed, cut>>

(* A line whose sum is not the length of its tour, or whose text is no     *)
(* line because it stands behind a part of another: its sum is written -1. *)
Wrong(line) == [line EXCEPT !.sum = -1]

(* What stdout shows of a text of whole lines that is printed behind a     *)
(* part of a line, or not.                                                 *)
Behind(isCut, lines) ==
  IF isCut /\ lines # <<>> THEN <<Wrong(Head(lines))>> \o Tail(lines) ELSE lines

(* A page full of text, with no NUL in it.                                 *)
Fits(n) == Len(region[n]) < PageLines
Unterminated(n) == n \in torn /\ ~Fits(n)

PrintRegion ==
  /\ NextRound("print", "detach") /\ ~Unterminated(node)
  /\ printed' = printed \o Behind(cut, region[node])
  /\ cut' = (node \in torn \/ (cut /\ region[node] = <<>>))
  /\ UNCHANGED proc

(* printf runs on behind the page: it shows what is mapped there, perhaps  *)
(* another region, or ends main with a signal.                             *)
PrintPastPage ==
  /\ Unterminated(node)
  /\ \/ /\ NextRound("print", "detach")
        /\ \E next \in {region[n] : n \in Node} \cup {<<>>} :
             printed' = printed \o Behind(cut, region[node]) \o Behind(TRUE, next)
        /\ cut' \in BOOLEAN
     \/ /\ pc = "print" /\ pc' = "failed"
        /\ UNCHANGED <<graph, node, printed, cut, autoReap, regionVars>>
  /\ UNCHANGED proc

(* shmdt and return; no segment is removed.                                *)
Exit ==
  /\ pc = "detach" /\ pc' = "exit"
  /\ UNCHANGED <<graph, node, printed, cut, autoReap, proc, regionVars>>

-----------------------------------------------------------------------------
Searcher(n, state) ==
  proc[n] = state /\ UNCHANGED <<graph, mainVars, autoReap>>

Mut_LastArguments(n) ==
  /\ Searcher(n, "forked")
  /\ proc' = [proc EXCEPT ![n] = "running"]
  /\ todo' = [todo EXCEPT ![n] = Results(graph, N - 1)]
  /\ UNCHANGED <<region, torn, spoiled, lost>>

(* The search between two calls of strcat reads only the matrix, so its    *)
(* result is fixed when it starts as long as nothing is spoiled.           *)
Exec(n) ==
  /\ Searcher(n, "forked")
  /\ proc' = [proc EXCEPT ![n] = "running"]
  /\ todo' = [todo EXCEPT ![n] = Results(graph, n)]
  /\ UNCHANGED <<region, torn, spoiled, lost>>

Dies(n) == proc' = [proc EXCEPT ![n] = IF autoReap THEN "gone" ELSE "zombie"]

(* A searcher ends before its search does.                                 *)
Fails(n) ==
  Dies(n) /\ todo' = [todo EXCEPT ![n] = <<>>] /\ lost' = lost \cup {n}

ExecFails(n) ==
  n \in Faulty /\ Searcher(n, "forked") /\ Fails(n) /\ UNCHANGED <<region, torn, spoiled>>

Killed(n) ==
  n \in Faulty /\ Searcher(n, "running") /\ Fails(n) /\ UNCHANGED <<region, torn, spoiled>>

(* Within strcat: a part of the line is in the region, and behind it the   *)
(* zeros that shmget left there.                                           *)
KilledWriting(n) ==
  /\ n \in Faulty /\ Searcher(n, "running") /\ todo[n] # <<>> /\ Fits(n)
  /\ Fails(n) /\ torn' = torn \cup {n}
  /\ UNCHANGED <<region, spoiled>>

Finds(n) ==
  /\ Searcher(n, "running") /\ todo[n] # <<>>
  /\ todo' = [todo EXCEPT ![n] = Tail(@)]
  /\ UNCHANGED <<proc, lost>>

Adds(n, line) == region' = [region EXCEPT ![n] = Append(@, line)]

Write(n) ==
  Finds(n) /\ ~spoiled /\ Fits(n) /\ Adds(n, Head(todo[n])) /\ UNCHANGED <<torn, spoiled>>

(* strcat runs past the page: into the matrix of all searchers, or into    *)
(* nothing, which kills the searcher.  The page itself is full.            *)
Overflow(n) ==
  /\ ~Fits(n) /\ Searcher(n, "running") /\ todo[n] # <<>>
  /\ Finds(n) \/ Fails(n)
  /\ torn' = torn \cup {n} /\ spoiled' = TRUE
  /\ UNCHANGED region

(* From then on a line comes out right, with a wrong sum, or not at all.   *)
WriteSpoiled(n) ==
  /\ Finds(n) /\ spoiled /\ Fits(n) /\ UNCHANGED <<torn, spoiled>>
  /\ \/ Adds(n, Head(todo[n]))
     \/ Adds(n, Wrong(Head(todo[n])))
     \/ UNCHANGED region

Mut_DoesNotExit(n) ==
  /\ Searcher(n, "running") /\ todo[n] = <<>>
  /\ UNCHANGED <<proc, regionVars>>

Ends(n) ==
  /\ Searcher(n, "running") /\ todo[n] = <<>> /\ Dies(n)
  /\ UNCHANGED regionVars

-----------------------------------------------------------------------------
Main ==
  \/ Fork \/ StartFails
  \/ WaitFails \/ (\E n \in Node : WaitReap(n))
  \/ PrintRegion \/ PrintPastPage \/ Exit

Runs(n) == Exec(n) \/ Write(n) \/ Overflow(n) \/ WriteSpoiled(n) \/ Ends(n)

Next ==
  \/ Main
  \/ \E n \in Node : Runs(n) \/ ExecFails(n) \/ Killed(n) \/ KilledWriting(n)

Spec == Init /\ [][Next]_vars

(* The kernel runs the parent and every searcher.                          *)
FairSpec == Spec /\ WF_vars(Main) /\ \A n \in Node : WF_vars(Runs(n))

-----------------------------------------------------------------------------
TypeOK ==
  /\ graph \in Matrix
  /\ pc \in {"fork", "wait", "print", "detach", "exit", "failed"}
  /\ node \in Node
  /\ autoReap \in BOOLEAN /\ spoiled \in BOOLEAN /\ cut \in BOOLEAN
  /\ proc \in [Node -> ProcState]
  /\ todo \in [Node -> Seq(Line)] /\ region \in [Node -> Seq(Line)]
  /\ torn \subseteq Node /\ lost \subseteq Node
  /\ printed \in Seq(Line)

(* tsp_p.c:85: the regions are read when no searcher can write to them any *)
(* more, in whatever order the searchers ended, although main only counts  *)
(* its calls of waitpid and looks at none of their results.                *)
ReadAfterAllEnded ==
  pc \in {"print", "detach", "exit"} => \A n \in Node : proc[n] = "gone"

(* find_paths.c:57, tsp_p.c:92: while nothing has overflown, every line on *)
(* stdout is a tour with its length, unless a searcher of an earlier node  *)
(* was killed within strcat and the line stands behind what it left; none  *)
(* is there twice, and the nodes come in their order.                      *)
OutputSound ==
  ~spoiled =>
    /\ \A a \in DOMAIN printed :
         \/ printed[a] \in TourLines(graph)
         \/ printed[a].sum = -1 /\ \E m \in torn : m < printed[a].start
    /\ Distinct(printed)
    /\ \A a, b \in DOMAIN printed : a < b => printed[a].start <= printed[b].start

(* If no node has more tours than a region has room for, every node whose  *)
(* searcher did not fail has all its tours on stdout, but for the one that *)
(* stands behind what a searcher killed within strcat has left.            *)
Missing(n) == TourLinesFrom(graph, n) \ Elements(printed)

HealthyNodesComplete ==
  pc = "exit" /\ (\A n \in Node : Cardinality(TourLinesFrom(graph, n)) <= PageLines) =>
    \A n \in Node \ lost :
      /\ \A k, l \in Missing(n) : k = l
      /\ Missing(n) # {} => \E m \in torn : m < n

(* As long as no searcher fails and no region overflows, every step keeps  *)
(* the same promise as tsp_t: what is printed are tours, none twice, and   *)
(* the exit comes when none is left.                                       *)
Promise == INSTANCE TourSpec WITH over <- (pc = "exit")
PrintsAllTours ==
  /\ Promise!SpecInit
  /\ [][~spoiled' /\ lost' = {} => Promise!SpecNext]_(Promise!specVars)

(* main comes to its end: no wait is one too many.                         *)
Terminates == <>(pc \in {"exit", "failed"})

(* a2/README.txt, of tsp_p: "Output: Valid paths and summed weight of all  *)
(* edges traversed".                                                       *)
LinesAreTours == Elements(printed) \subseteq TourLines(graph)
=============================================================================
