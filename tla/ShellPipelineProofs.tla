------------------------ MODULE ShellPipelineProofs ------------------------
(***************************************************************************)
(* Proofs about the descriptors of myshell's pipelines, for any number of  *)
(* pipelines, any limit on open descriptors and any command lines: the     *)
(* state is well typed, a pipeline leaks exactly two descriptors, every    *)
(* stage gets the pipe ends that are meant for it, and end of file can     *)
(* reach the stage the shell waits for.                                    *)
(***************************************************************************)
EXTENDS ShellPipeline, SequenceTheorems, FiniteSetTheorems,
        WellFoundedInduction, TLAPS

(* The ends of different pipes differ, and no end is a terminal or a file. *)
LEMMA ObjectsApart ==
  /\ \A i, j : R(i) # W(j) /\ (R(i) = R(j) => i = j) /\ (W(i) = W(j) => i = j)
  /\ \A i : R(i) \notin {Tty, File, Closed} /\ W(i) \notin {Tty, File, Closed}
  /\ Tty # File /\ Tty # Closed /\ File # Closed
  BY DEF R, W, Tty, File, Closed

(* A non-empty set of numbers has a lowest one.                            *)
LEMMA LowestExists ==
  ASSUME NEW S \in SUBSET Nat, S # {}
  PROVE  LowestIn(S) \in S /\ \A m \in S : LowestIn(S) <= m
<1> DEFINE less == {ss \in Nat \X Nat : ss[1] < ss[2]}
<1>1. IsWellFoundedOn(less, Nat)
  BY NatLessThanWellFounded, Zenon DEF OpToRel
<1>2. PICK n \in S : \A m \in S : <<m, n>> \notin less
  <2> HIDE DEF less
  <2> QED
    BY <1>1, WFMin
<1>3. ASSUME NEW m \in S PROVE n <= m
  <2>1. m \in Nat /\ n \in Nat /\ ~(m < n)
    BY <1>2
  <2> QED
    BY <2>1
<1> QED
  BY <1>3 DEF LowestIn

(* The free numbers of a descriptor table.                                 *)
LEMMA FreeNumbers ==
  ASSUME NEW t
  PROVE  /\ FreeFds(t) \in SUBSET Fd /\ IsFiniteSet(FreeFds(t))
         /\ Cardinality(FreeFds(t)) \in Nat
         /\ FreeFds(t) # {} => LowestIn(FreeFds(t)) \in FreeFds(t)
         /\ Cardinality(FreeFds(t)) >= 2 =>
              /\ LowestIn(FreeFds(t)) \in FreeFds(t)
              /\ LowestIn(FreeFds(t) \ {LowestIn(FreeFds(t))})
                   \in FreeFds(t) \ {LowestIn(FreeFds(t))}
<1> DEFINE F == FreeFds(t)
<1>1. F \in SUBSET Fd /\ Fd \in SUBSET Nat
  BY BoundsAssumption DEF FreeFds, Fd
<1>2. IsFiniteSet(F) /\ Cardinality(F) \in Nat
  <2>1. IsFiniteSet(Fd)
    BY FS_Interval, BoundsAssumption DEF Fd
  <2> QED
    BY <1>1, <2>1, FS_Subset, FS_CardinalityType
<1> HIDE DEF F
<1>3. F # {} => LowestIn(F) \in F
  BY <1>1, LowestExists
<1>4. ASSUME Cardinality(F) >= 2
      PROVE  LowestIn(F) \in F /\ LowestIn(F \ {LowestIn(F)}) \in F \ {LowestIn(F)}
  <2>1. F # {}
    BY <1>4, FS_EmptySet
  <2>2. Cardinality(F \ {LowestIn(F)}) = Cardinality(F) - 1
        /\ IsFiniteSet(F \ {LowestIn(F)})
    BY <1>2, <1>3, <2>1, FS_RemoveElement
  <2>3. F \ {LowestIn(F)} # {}
    BY <1>2, <1>4, <2>2, FS_EmptySet
  <2>4. F \ {LowestIn(F)} \in SUBSET Nat
    BY <1>1
  <2> HIDE DEF LowestIn
  <2> QED
    BY <1>3, <2>1, <2>3, <2>4, LowestExists
<1> QED
  BY <1>1, <1>2, <1>3, <1>4 DEF F

Table == [Fd -> Object]
Ends2 == [r : Fd, w : Fd]

(* pipe either fails and changes nothing, or makes one pipe whose ends are *)
(* put at two free numbers.                                                *)
LEMMA PipeResult ==
  ASSUME NEW t \in Table, NEW ends \in Ends2, NEW n \in Nat, n + 1 \in PipeId
  PROVE  LET p == Pipe(t, ends, n)
         IN /\ p.table \in Table /\ p.ends \in Ends2
            /\ \/ p.table = t /\ p.ends = ends /\ p.made = n
               \/ /\ p.made = n + 1 /\ p.ends.r # p.ends.w
                  /\ t[p.ends.r] = Closed /\ t[p.ends.w] = Closed
                  /\ p.table = [t EXCEPT ![p.ends.r] = R(n + 1),
                                         ![p.ends.w] = W(n + 1)]
<1> DEFINE F == FreeFds(t)
           r == LowestIn(F)
           w == LowestIn(F \ {r})
           p == Pipe(t, ends, n)
<1>1. CASE Cardinality(F) >= 2
  <2>1. /\ p.table = [t EXCEPT ![r] = R(n + 1), ![w] = W(n + 1)]
        /\ p.ends = [r |-> r, w |-> w] /\ p.made = n + 1
    BY <1>1 DEF Pipe
  <2>2. r \in F /\ w \in F \ {r}
    BY <1>1, FreeNumbers
  <2>3. r \in Fd /\ w \in Fd /\ r # w /\ t[r] = Closed /\ t[w] = Closed
    BY <2>2 DEF FreeFds
  <2>4. R(n + 1) \in Object /\ W(n + 1) \in Object
    BY DEF Object
  <2> HIDE DEF r, w, p
  <2> QED
    BY <2>1, <2>3, <2>4 DEF Table, Ends2, p
<1>2. CASE ~(Cardinality(F) >= 2)
  BY <1>2 DEF Pipe
<1> QED
  BY <1>1, <1>2

(* close, dup2 and open keep a table a table.                              *)
LEMMA TableSteps ==
  ASSUME NEW t \in Table, NEW a \in Fd, NEW b \in Fd
  PROVE  Close(t, a) \in Table /\ Dup2(t, a, b) \in Table /\ OpenTo(t, b) \in Table
<1>1. Closed \in Object /\ File \in Object
  BY DEF Object
<1>2. Close(t, a) \in Table
  BY <1>1 DEF Close, Table
<1>3. \A u \in Table, c \in Fd : Dup2(u, c, b) \in Table
  BY DEF Dup2, Table
<1>4. OpenTo(t, b) \in Table
  <2>1. CASE FreeFds(t) = {}
    BY <2>1 DEF OpenTo
  <2>2. CASE FreeFds(t) # {}
    <3>1. LowestIn(FreeFds(t)) \in Fd
      BY <2>2, FreeNumbers
    <3>2. [t EXCEPT ![LowestIn(FreeFds(t))] = File] \in Table
      BY <1>1 DEF Table
    <3> QED
      BY <2>2, <1>3, <3>1, <3>2 DEF OpenTo
  <2> QED
    BY <2>1, <2>2
<1> QED
  BY <1>2, <1>3, <1>4

-----------------------------------------------------------------------------
(* The line that is run is one that was typed, and k one of its stages.    *)
LineInv ==
  pc # "idle" => line \in Pipelines /\ k \in 1 .. Len(line) /\ ran \in 1 .. MaxPipelines

(* The stage the shell is at exists and has one of the four roles.         *)
LEMMA StageType ==
  ASSUME LineInv, pc # "idle"
  PROVE  /\ line \in Seq(Stage) /\ Len(line) \in {2, 3}
         /\ k \in 1 .. Len(line) /\ k \in 1 .. 3
         /\ line[k] \in Stage /\ <<ran, k>> \in Proc
         /\ Role(Len(line), k) \in {"pord1", "pord2", "pord2c", "pord3"}
<1>1. line \in Seq(Stage) /\ Len(line) \in {2, 3} /\ k \in 1 .. Len(line)
      /\ ran \in 1 .. MaxPipelines
  BY PipelinesAssumption DEF LineInv
<1>2. k \in {1, 2, 3} /\ k \in 1 .. 3
  <2>1. CASE Len(line) = 2
    BY <1>1, <2>1
  <2>2. CASE Len(line) = 3
    BY <1>1, <2>2
  <2> QED
    BY <1>1, <2>1, <2>2
<1>3. line[k] \in Stage
  BY <1>1, ElementOfSeq
<1> QED
  BY <1>1, <1>2, <1>3 DEF Role, Proc

LEMMA StagesAreProcs ==
  ASSUME LineInv, pc # "idle", NEW j \in 1 .. Len(line)
  PROVE  <<ran, j>> \in Proc /\ j \in 1 .. 3
<1>1. Len(line) \in {2, 3} /\ ran \in 1 .. MaxPipelines
  BY StageType DEF LineInv
<1>2. j \in 1 .. 3
  <2>1. CASE Len(line) = 2
    BY <2>1
  <2>2. CASE Len(line) = 3
    BY <2>2
  <2> QED
    BY <1>1, <2>1, <2>2
<1> QED
  BY <1>1, <1>2 DEF Proc

(* What run_process does with the table of a child and with its own.       *)
LEMMA WireType ==
  ASSUME TypeOK, NEW role \in {"pord1", "pord2", "pord2c", "pord3"},
         NEW stage \in Stage
  PROVE  /\ Redirect(Wire(fd, role), stage) \in Table
         /\ ParentCloses(fd, role) \in Table
<1>1. /\ fd \in Table /\ pipe1.r \in Fd /\ pipe1.w \in Fd
      /\ pipe2.r \in Fd /\ pipe2.w \in Fd /\ 0 \in Fd /\ 1 \in Fd
  BY BoundsAssumption DEF TypeOK, Table, Fd
<1>2. /\ \A t \in Table, a, b \in Fd : Close(t, a) \in Table /\ Dup2(t, a, b) \in Table
      /\ \A t \in Table, b \in Fd : OpenTo(t, b) \in Table
  BY <1>1, TableSteps
<1>3. Wire(fd, role) \in Table
  BY <1>1, <1>2 DEF Wire
<1>4. stage.redir \in {"no", "in", "out"}
  BY DEF Stage
<1>5. Redirect(Wire(fd, role), stage) \in Table
  BY <1>1, <1>2, <1>3, <1>4 DEF Redirect
<1>6. ParentCloses(fd, role) \in Table
  BY <1>1, <1>2 DEF ParentCloses
<1> QED
  BY <1>5, <1>6

ProcRecord ==
  [live : BOOLEAN, in : Object, out : Object, held : SUBSET Object,
   reads : {"none", "one", "all"}, want : Nat]

LEMMA ForkedType ==
  ASSUME TypeOK, LineInv, ForkStage
  PROVE  proc' \in [Proc -> ProcRecord]
<1> DEFINE t == Redirect(Wire(fd, Role(Len(line), k)), line[k])
           r == [live |-> TRUE, in |-> t[0], out |-> t[1],
                 held |-> {t[n] : n \in Fd} \ {Tty, File, Closed},
                 reads |-> line[k].reads, want |-> line[k].emits]
<1>1. pc # "idle" /\ proc' = [proc EXCEPT ![<<ran, k>>] = r]
  BY DEF ForkStage
<1>2. t \in Table
  BY <1>1, StageType, WireType
<1>3. line[k].reads \in {"none", "one", "all"} /\ line[k].emits \in Nat
  BY <1>1, StageType DEF Stage
<1>4. 0 \in Fd /\ 1 \in Fd
  BY BoundsAssumption DEF Fd
<1> HIDE DEF t
<1>5. r \in ProcRecord
  BY <1>2, <1>3, <1>4 DEF ProcRecord, Table
<1> HIDE DEF r
<1> QED
  BY <1>1, <1>5 DEF TypeOK, ProcRecord

(* What a step of a program may do to the processes and the pipes.         *)
LEMMA ProgramType ==
  ASSUME TypeOK, NEW p \in Proc, Runs(p)
  PROVE  proc' \in [Proc -> ProcRecord] /\ buf' \in [PipeId -> 0 .. Cap]
<1> USE DEF Runs, Program, Writes, Wrote, Reads
<1>1. /\ proc \in [Proc -> ProcRecord] /\ buf \in [PipeId -> 0 .. Cap]
      /\ Cap \in Nat
  BY BoundsAssumption DEF TypeOK, ProcRecord
<1>2. Gone \in ProcRecord
  BY DEF Gone, ProcRecord, Object
<1>3. CASE WriteOut(p)
  BY <1>1, <1>3 DEF WriteOut, ProcRecord
<1>4. CASE WriteFails(p)
  BY <1>1, <1>2, <1>4 DEF WriteFails
<1>5. CASE ReadEnds(p)
  BY <1>1, <1>5 DEF ReadEnds, ProcRecord
<1>6. CASE Ends(p)
  BY <1>1, <1>2, <1>6 DEF Ends
<1>7. ASSUME NEW i \in PipeId, WritePipe(p, i)
      PROVE  proc' \in [Proc -> ProcRecord] /\ buf' \in [PipeId -> 0 .. Cap]
  BY <1>1, <1>7 DEF WritePipe, ProcRecord
<1>8. ASSUME NEW i \in PipeId, ReadPipe(p, i)
      PROVE  proc' \in [Proc -> ProcRecord] /\ buf' \in [PipeId -> 0 .. Cap]
  <2> DEFINE r == [proc[p] EXCEPT !.want = 1,
                                  !.reads = IF @ = "one" THEN "none" ELSE @]
  <2>1. proc' = [proc EXCEPT ![p] = r]
    BY <1>8 DEF ReadPipe
  <2>2. r \in ProcRecord
    BY <1>1 DEF ProcRecord
  <2>3. proc' \in [Proc -> ProcRecord]
    BY <1>1, <2>1, <2>2
  <2>4. buf' \in [PipeId -> 0 .. Cap]
    BY <1>1, <1>8 DEF ReadPipe
  <2> QED
    BY <2>3, <2>4
<1> QED
  BY <1>3, <1>4, <1>5, <1>6, <1>7, <1>8

(* The two calls of pipe() in setup_pipes.                                 *)
LEMMA OpenedPipes ==
  ASSUME TypeOK, NEW l \in Pipelines, OpenPipes(l)
  PROVE  LET a == Pipe(fd, pipe1, made)
             b == Pipe(a.table, pipe2, a.made)
         IN /\ a.table \in Table /\ a.ends \in Ends2 /\ a.made \in made .. made + 1
            /\ b.table \in Table /\ b.ends \in Ends2 /\ b.made \in a.made .. a.made + 1
            /\ made + 1 \in PipeId /\ a.made + 1 \in PipeId /\ made \in Nat
            /\ fd' = b.table /\ pipe1' = a.ends /\ pipe2' = b.ends /\ made' = b.made
<1> DEFINE a == Pipe(fd, pipe1, made)
           b == Pipe(a.table, pipe2, a.made)
<1>1. /\ fd \in Table /\ pipe1 \in Ends2 /\ pipe2 \in Ends2 /\ made \in 0 .. 2 * ran
      /\ ran \in 0 .. MaxPipelines /\ ran < MaxPipelines /\ MaxPipelines \in Nat
  BY BoundsAssumption DEF TypeOK, Table, Ends2, OpenPipes
<1>2. made + 1 \in PipeId /\ made + 2 \in PipeId /\ made \in Nat
  BY <1>1 DEF PipeId
<1>3. fd' = b.table /\ pipe1' = a.ends /\ pipe2' = b.ends /\ made' = b.made
  BY DEF OpenPipes
<1>4. a.table \in Table /\ a.ends \in Ends2 /\ a.made \in {made, made + 1}
  BY <1>1, <1>2, PipeResult
<1> HIDE DEF a
<1>5. a.made \in Nat /\ a.made + 1 \in PipeId /\ a.made \in made .. made + 1
  BY <1>2, <1>4
<1>6. b.table \in Table /\ b.ends \in Ends2 /\ b.made \in {a.made, a.made + 1}
  <2>1. a.table \in Table /\ pipe2 \in Ends2 /\ a.made \in Nat /\ a.made + 1 \in PipeId
    BY <1>1, <1>4, <1>5
  <2> QED
    BY <2>1, PipeResult
<1> HIDE DEF b
<1>7. b.made \in a.made .. a.made + 1
  BY <1>5, <1>6
<1> QED
  BY <1>2, <1>3, <1>4, <1>5, <1>6, <1>7 DEF a, b

LEMMA NextStageType ==
  ASSUME TypeOK, LineInv, pc # "idle", NextStage, UNCHANGED ran
  PROVE  /\ pc' \in {"idle", "fork", "close", "wait"}
         /\ line' \in Seq(Stage) /\ k' \in 1 .. 3 /\ LineInv'
<1>1. line \in Seq(Stage) /\ Len(line) \in {2, 3} /\ k \in 1 .. Len(line)
      /\ line \in Pipelines /\ ran \in 1 .. MaxPipelines
  BY StageType DEF LineInv
<1>2. CASE k < Len(line)
  <2>1. pc' = "fork" /\ k' = k + 1 /\ line' = line
    BY <1>2 DEF NextStage
  <2>2. k + 1 \in 1 .. Len(line) /\ k + 1 \in 1 .. 3
    <3>1. CASE Len(line) = 2
      BY <1>1, <1>2, <3>1
    <3>2. CASE Len(line) = 3
      BY <1>1, <1>2, <3>2
    <3> QED
      BY <1>1, <3>1, <3>2
  <2> QED
    BY <1>1, <2>1, <2>2 DEF LineInv
<1>3. CASE ~(k < Len(line))
  BY <1>3, EmptySeq DEF NextStage, LineInv
<1> QED
  BY <1>2, <1>3

LEMMA TypeStep == TypeOK /\ LineInv /\ [Next]_vars => TypeOK' /\ LineInv'
<1> SUFFICES ASSUME TypeOK, LineInv, [Next]_vars PROVE TypeOK' /\ LineInv'
  OBVIOUS
<1>1. ASSUME NEW l \in Pipelines, OpenPipes(l) PROVE TypeOK' /\ LineInv'
  <2>1. /\ fd' \in Table /\ pipe1' \in Ends2 /\ pipe2' \in Ends2
        /\ made' \in made .. made + 2
    BY <1>1, OpenedPipes
  <2>2. /\ l \in Seq(Stage) /\ Len(l) \in {2, 3} /\ 1 \in 1 .. Len(l)
    BY PipelinesAssumption
  <2>3. made' \in 0 .. 2 * ran' /\ ran' \in 0 .. MaxPipelines /\ ran' \in 1 .. MaxPipelines
    BY <1>1, <2>1, BoundsAssumption DEF OpenPipes, TypeOK
  <2> QED
    BY <1>1, <2>1, <2>2, <2>3 DEF OpenPipes, TypeOK, LineInv, Table, Ends2
<1>2. CASE ForkStage
  <2>1. proc' \in [Proc -> ProcRecord]
    BY <1>2, ForkedType
  <2> QED
    BY <1>2, <2>1 DEF ForkStage, TypeOK, LineInv, ProcRecord
<1>3. CASE CloseEnds
  <2>1. fd' \in Table
    BY <1>3, StageType, WireType DEF CloseEnds
  <2>2. CASE line[k].bg
    BY <1>3, <2>1, <2>2, NextStageType DEF CloseEnds, TypeOK, Table
  <2>3. CASE ~line[k].bg
    BY <1>3, <2>1, <2>3 DEF CloseEnds, TypeOK, LineInv, Table
  <2> QED
    BY <2>2, <2>3
<1>4. CASE Wait
  BY <1>4, NextStageType DEF Wait, TypeOK
<1>5. ASSUME NEW p \in Proc, Runs(p) PROVE TypeOK' /\ LineInv'
  <2>1. UNCHANGED <<pc, line, k, fd, pipe1, pipe2, made, ran>>
    BY <1>5 DEF Runs, WriteOut, WriteFails, ReadEnds, Ends, WritePipe, ReadPipe,
                Writes, Reads, Program
  <2> QED
    BY <1>5, <2>1, ProgramType DEF TypeOK, LineInv, ProcRecord
<1>6. CASE UNCHANGED vars
  BY <1>6 DEF vars, TypeOK, LineInv
<1> QED
  BY <1>1, <1>2, <1>3, <1>4, <1>5, <1>6 DEF Next, Shell

LEMMA TypeInit == Init => TypeOK /\ LineInv
<1> SUFFICES ASSUME Init PROVE TypeOK /\ LineInv
  OBVIOUS
<1>1. 0 \in Fd /\ Tty \in Object /\ Closed \in Object
  BY BoundsAssumption DEF Fd, Object
<1>2. Gone \in ProcRecord
  BY DEF Gone, ProcRecord, Object
<1>3. fd \in [Fd -> Object] /\ proc \in [Proc -> ProcRecord]
  BY <1>1, <1>2 DEF Init
<1>4. line \in Seq(Stage)
  BY DEF Init
<1> QED
  BY <1>1, <1>3, <1>4, BoundsAssumption DEF Init, TypeOK, LineInv, ProcRecord

(* The descriptor table, the numbers kept in pipe1 and pipe2, the pipes    *)
(* and the processes are well typed; no call runs past the table although  *)
(* stale numbers are used when a pipe() has failed.                        *)
THEOREM TypeCorrect == Spec => []TypeOK
<1> QED
  BY TypeInit, TypeStep, PTL DEF Spec

-----------------------------------------------------------------------------
(* What the three properties rest on.  First, what can stand in a table:   *)
(* the shell's holds its terminal and ends of pipes made so far, each once,*)
(* and a child holds ends of pipes that were made before it was forked.    *)
Known(t, n) ==
  /\ \A m \in Fd : t[m] \notin {Tty, Closed} => \E i \in 1 .. n : t[m] \in {R(i), W(i)}
  /\ \A a, b \in Fd : t[a] = t[b] /\ t[a] \notin {Tty, Closed} => a = b

TableKnown ==
  /\ Known(fd, made)
  /\ \A p \in Proc : \A obj \in proc[p].held :
       \E i \in 1 .. 2 * p[1] : obj \in {R(i), W(i)}

(* Stages to come have not been started.                                   *)
ToCome(p) ==
  \/ p[1] > ran
  \/ p[1] = ran /\ pc # "idle" /\ (p[2] > k \/ (p[2] = k /\ pc = "fork"))
NotStartedYet == \A p \in Proc : ToCome(p) => ~proc[p].live

(* The two pipes of the line, and how far run_process has come with the    *)
(* ends it closes after each stage.                                        *)
First == 2 * ran - 1
Second == 2 * ran
Through(j) == j < k \/ (j = k /\ pc = "wait")

Apart ==
  /\ {pipe1.r, pipe1.w, pipe2.r, pipe2.w} \cap {0, 1, 2} = {}
  /\ pipe1.r # pipe1.w /\ pipe1.r # pipe2.r /\ pipe1.r # pipe2.w
  /\ pipe1.w # pipe2.r /\ pipe1.w # pipe2.w /\ pipe2.r # pipe2.w

PipesInPlace ==
  /\ Apart
  /\ IF Len(line) = 2 /\ Through(2) THEN fd[pipe1.r] = Closed ELSE fd[pipe1.r] = R(First)
  /\ fd[pipe2.r] = R(Second)
  /\ IF Through(1) THEN fd[pipe1.w] = Closed /\ ~ShellHolds(W(First))
     ELSE fd[pipe1.w] = W(First)
  /\ IF Len(line) = 3 /\ Through(2) THEN fd[pipe2.w] = Closed /\ ~ShellHolds(W(Second))
     ELSE fd[pipe2.w] = W(Second)

(* The stages of the line that run.                                        *)
StageInPlace(j) ==
  LET s == proc[<<ran, j>>]
  IN /\ \/ s.in = IF j = 1 THEN Tty ELSE R(2 * ran - 3 + j)
        \/ line[j].redir = "in" /\ s.in = File
     /\ \/ s.out = IF j = Len(line) THEN Tty ELSE W(2 * ran - 2 + j)
        \/ line[j].redir = "out" /\ s.out = File
     /\ W(First) \in s.held => j = 1
     /\ W(Second) \in s.held => j <= 2
     /\ j < k => line[j].bg

(* The open descriptors: three, two for every earlier line, and four minus *)
(* those that have been closed.                                            *)
ClosedSoFar ==
  (IF Through(1) THEN 1 ELSE 0) + (IF Through(2) THEN 1 ELSE 0)
OpenNow ==
  IF pc = "idle" THEN 3 + 2 * ran ELSE 5 + 2 * ran - ClosedSoFar

WhenAllMade ==
  AllPipesMade =>
    /\ \A n \in {0, 1, 2} : fd[n] = Tty
    /\ Cardinality(Fd \ FreeFds(fd)) = OpenNow
    /\ pc # "idle" => PipesInPlace
    /\ pc # "idle" => \A j \in 1 .. Len(line) :
                        proc[<<ran, j>>].live => StageInPlace(j)

PipesInv == TypeOK /\ LineInv /\ TableKnown /\ NotStartedYet /\ WhenAllMade

-----------------------------------------------------------------------------
(* A number more or less in use.                                           *)
LEMMA OpenCounts ==
  ASSUME NEW t \in Table, NEW n \in Fd
  PROVE  /\ Cardinality(Fd \ FreeFds(t)) \in Nat
         /\ \A obj \in Object \ {Closed} : t[n] = Closed =>
              Cardinality(Fd \ FreeFds([t EXCEPT ![n] = obj]))
                = Cardinality(Fd \ FreeFds(t)) + 1
         /\ t[n] # Closed =>
              Cardinality(Fd \ FreeFds(Close(t, n))) = Cardinality(Fd \ FreeFds(t)) - 1
<1> DEFINE open == Fd \ FreeFds(t)
<1>1. IsFiniteSet(open) /\ Cardinality(open) \in Nat
  <2>1. IsFiniteSet(Fd)
    BY FS_Interval, BoundsAssumption DEF Fd
  <2>2. open \in SUBSET Fd
    OBVIOUS
  <2> QED
    BY <2>1, <2>2, FS_Subset, FS_CardinalityType
<1>2. ASSUME NEW obj \in Object \ {Closed}, t[n] = Closed
      PROVE  Cardinality(Fd \ FreeFds([t EXCEPT ![n] = obj])) = Cardinality(open) + 1
  <2>1. Fd \ FreeFds([t EXCEPT ![n] = obj]) = open \cup {n} /\ n \notin open
    BY <1>2 DEF FreeFds, Table
  <2> HIDE DEF open
  <2> QED
    BY <1>1, <2>1, FS_AddElement
<1>3. ASSUME t[n] # Closed
      PROVE  Cardinality(Fd \ FreeFds(Close(t, n))) = Cardinality(open) - 1
  <2>1. Fd \ FreeFds(Close(t, n)) = open \ {n} /\ n \in open
    BY <1>3 DEF FreeFds, Table, Close
  <2> HIDE DEF open
  <2> QED
    BY <1>1, <2>1, FS_RemoveElement
<1> QED
  BY <1>1, <1>2, <1>3

(* pipe and close keep what is known about a table.                        *)
LEMMA KnownSteps ==
  ASSUME NEW t \in Table, NEW n \in Nat, Known(t, n)
  PROVE  /\ \A e \in Ends2 :
              n + 1 \in PipeId => Known(Pipe(t, e, n).table, Pipe(t, e, n).made)
         /\ \A m \in Fd : Known(Close(t, m), n)
<1>1. ASSUME NEW e \in Ends2, n + 1 \in PipeId
      PROVE  Known(Pipe(t, e, n).table, Pipe(t, e, n).made)
  <2> DEFINE p == Pipe(t, e, n)
  <2>1. /\ p.ends \in Ends2
        /\ \/ p.table = t /\ p.ends = e /\ p.made = n
           \/ /\ p.made = n + 1 /\ p.ends.r # p.ends.w
              /\ t[p.ends.r] = Closed /\ t[p.ends.w] = Closed
              /\ p.table = [t EXCEPT ![p.ends.r] = R(n + 1), ![p.ends.w] = W(n + 1)]
    BY <1>1, PipeResult
  <2> HIDE DEF p
  <2>2. ASSUME p.table = t, p.made = n PROVE Known(p.table, p.made)
    BY <2>2
  <2>3. ASSUME p.made = n + 1, p.ends.r # p.ends.w,
               p.table = [t EXCEPT ![p.ends.r] = R(n + 1), ![p.ends.w] = W(n + 1)]
        PROVE  Known(p.table, p.made)
    <3>1. p.ends.r \in Fd /\ p.ends.w \in Fd
      BY <2>1 DEF Ends2
    <3>2. \A m \in Fd : p.table[m] = IF m = p.ends.r THEN R(n + 1)
                                     ELSE IF m = p.ends.w THEN W(n + 1) ELSE t[m]
      BY <2>3, <3>1 DEF Table
    <3>3. \A m \in Fd : t[m] # R(n + 1) /\ t[m] # W(n + 1)
      <4> SUFFICES ASSUME NEW m \in Fd, t[m] \in {R(n + 1), W(n + 1)} PROVE FALSE
        OBVIOUS
      <4>1. t[m] \notin {Tty, Closed}
        BY ObjectsApart
      <4>2. PICK i \in 1 .. n : t[m] \in {R(i), W(i)}
        BY <4>1 DEF Known
      <4>3. i = n + 1
        BY <4>2, ObjectsApart
      <4> QED
        BY <4>3
    <3>4. \A m \in Fd : p.table[m] \notin {Tty, Closed} =>
                          \E i \in 1 .. n + 1 : p.table[m] \in {R(i), W(i)}
      <4>1. n + 1 \in 1 .. n + 1 /\ \A i \in 1 .. n : i \in 1 .. n + 1
        OBVIOUS
      <4> QED
        BY <3>2, <4>1 DEF Known
    <3>5. \A a, b \in Fd : p.table[a] = p.table[b] /\ p.table[a] \notin {Tty, Closed} => a = b
      BY <3>2, <3>3, ObjectsApart DEF Known
    <3> QED
      BY <2>3, <3>4, <3>5 DEF Known
  <2> QED
    BY <2>1, <2>2, <2>3 DEF p
<1>2. ASSUME NEW m \in Fd PROVE Known(Close(t, m), n)
  <2>1. \A a \in Fd : Close(t, m)[a] = IF a = m THEN Closed ELSE t[a]
    BY DEF Close, Table
  <2> QED
    BY <2>1 DEF Known
<1> QED
  BY <1>1, <1>2

(* setup_pipes: when both calls of pipe() succeed, four free numbers come  *)
(* into use.                                                               *)
LEMMA BothMade ==
  ASSUME PipesInv, NEW l \in Pipelines, OpenPipes(l), AllPipesMade'
  PROVE  /\ AllPipesMade /\ Apart' /\ made = 2 * ran
         /\ pipe1'.r \in Fd /\ pipe1'.w \in Fd /\ pipe2'.r \in Fd /\ pipe2'.w \in Fd
         /\ \A n \in {pipe1'.r, pipe1'.w, pipe2'.r, pipe2'.w} : fd[n] = Closed
         /\ fd' = [fd EXCEPT ![pipe1'.r] = R(made + 1), ![pipe1'.w] = W(made + 1),
                             ![pipe2'.r] = R(made + 2), ![pipe2'.w] = W(made + 2)]
         /\ Cardinality(Fd \ FreeFds(fd')) = Cardinality(Fd \ FreeFds(fd)) + 4
<1> DEFINE a == Pipe(fd, pipe1, made)
           b == Pipe(a.table, pipe2, a.made)
<1>1. /\ a.table \in Table /\ a.ends \in Ends2 /\ a.made \in made .. made + 1
      /\ b.table \in Table /\ b.ends \in Ends2 /\ b.made \in a.made .. a.made + 1
      /\ made + 1 \in PipeId /\ a.made + 1 \in PipeId /\ made \in Nat
      /\ fd' = b.table /\ pipe1' = a.ends /\ pipe2' = b.ends /\ made' = b.made
  BY OpenedPipes DEF PipesInv
<1>2. made \in 0 .. 2 * ran /\ ran \in Nat /\ ran' = ran + 1 /\ made' = 2 * (ran + 1)
  BY BoundsAssumption DEF PipesInv, TypeOK, OpenPipes, AllPipesMade
<1>3. /\ fd \in Table /\ pipe1 \in Ends2 /\ pipe2 \in Ends2
  BY DEF PipesInv, TypeOK, Table, Ends2
<1>4. \/ a.table = fd /\ a.ends = pipe1 /\ a.made = made
      \/ /\ a.made = made + 1 /\ a.ends.r # a.ends.w
         /\ fd[a.ends.r] = Closed /\ fd[a.ends.w] = Closed
         /\ a.table = [fd EXCEPT ![a.ends.r] = R(made + 1), ![a.ends.w] = W(made + 1)]
  <2>1. fd \in Table /\ pipe1 \in Ends2 /\ made \in Nat /\ made + 1 \in PipeId
    BY <1>1, <1>3
  <2> QED
    BY <2>1, PipeResult
<1> HIDE DEF a
<1>5. \/ b.table = a.table /\ b.ends = pipe2 /\ b.made = a.made
      \/ /\ b.made = a.made + 1 /\ b.ends.r # b.ends.w
         /\ a.table[b.ends.r] = Closed /\ a.table[b.ends.w] = Closed
         /\ b.table = [a.table EXCEPT ![b.ends.r] = R(a.made + 1),
                                      ![b.ends.w] = W(a.made + 1)]
  <2>1. a.made \in Nat
    BY <1>1
  <2> QED
    BY <1>1, <1>3, <2>1, PipeResult
<1> HIDE DEF b
<1>6. made = 2 * ran /\ a.made = made + 1 /\ b.made = a.made + 1
  BY <1>1, <1>2
<1>7. /\ a.ends.r # a.ends.w /\ fd[a.ends.r] = Closed /\ fd[a.ends.w] = Closed
      /\ a.table = [fd EXCEPT ![a.ends.r] = R(made + 1), ![a.ends.w] = W(made + 1)]
      /\ b.ends.r # b.ends.w
      /\ a.table[b.ends.r] = Closed /\ a.table[b.ends.w] = Closed
      /\ b.table = [a.table EXCEPT ![b.ends.r] = R(made + 2), ![b.ends.w] = W(made + 2)]
  BY <1>1, <1>4, <1>5, <1>6
<1>8. a.ends.r \in Fd /\ a.ends.w \in Fd /\ b.ends.r \in Fd /\ b.ends.w \in Fd
  BY <1>1 DEF Ends2
<1>9. \A i : R(i) # Closed /\ W(i) # Closed
  BY ObjectsApart
<1>10. \A n \in Fd : a.table[n] = IF n = a.ends.r THEN R(made + 1)
                                  ELSE IF n = a.ends.w THEN W(made + 1) ELSE fd[n]
  BY <1>3, <1>7, <1>8 DEF Table
<1>11. /\ {b.ends.r, b.ends.w} \cap {a.ends.r, a.ends.w} = {}
       /\ fd[b.ends.r] = Closed /\ fd[b.ends.w] = Closed
  BY <1>7, <1>8, <1>9, <1>10
<1>12. fd[0] = Tty /\ fd[1] = Tty /\ fd[2] = Tty /\ Tty # Closed
  BY <1>6, ObjectsApart DEF PipesInv, WhenAllMade, AllPipesMade
<1>13. Cardinality(Fd \ FreeFds(b.table)) = Cardinality(Fd \ FreeFds(fd)) + 4
  <2> DEFINE t1 == [fd EXCEPT ![a.ends.r] = R(made + 1)]
             t2 == [t1 EXCEPT ![a.ends.w] = W(made + 1)]
             t3 == [t2 EXCEPT ![b.ends.r] = R(made + 2)]
             t4 == [t3 EXCEPT ![b.ends.w] = W(made + 2)]
             count(t) == Cardinality(Fd \ FreeFds(t))
  <2>1. /\ R(made + 1) \in Object \ {Closed} /\ W(made + 1) \in Object \ {Closed}
        /\ R(made + 2) \in Object \ {Closed} /\ W(made + 2) \in Object \ {Closed}
    <3>1. made + 2 \in PipeId
      BY <1>1, <1>6
    <3> QED
      BY <1>1, <1>9, <3>1 DEF Object
  <2>2. t1 \in Table /\ t2 \in Table /\ t3 \in Table /\ t4 = b.table
    BY <1>3, <1>7, <2>1 DEF Table
  <2>3. t1[a.ends.w] = Closed /\ t2[b.ends.r] = Closed /\ t3[b.ends.w] = Closed
    BY <1>3, <1>7, <1>8, <1>11 DEF Table
  <2>4. count(t1) = count(fd) + 1
    BY <1>3, <1>7, <1>8, <2>1, OpenCounts
  <2>5. count(t2) = count(t1) + 1
    <3> HIDE DEF t1
    <3> QED
      BY <1>8, <2>1, <2>2, <2>3, OpenCounts
  <2>6. count(t3) = count(t2) + 1
    <3> HIDE DEF t2
    <3> QED
      BY <1>8, <2>1, <2>2, <2>3, OpenCounts
  <2>7. count(t4) = count(t3) + 1
    <3> HIDE DEF t3
    <3> QED
      BY <1>8, <2>1, <2>2, <2>3, OpenCounts
  <2>8. count(fd) \in Nat
    BY <1>3, <1>8, OpenCounts
  <2> HIDE DEF count, t1, t2, t3, t4
  <2>9. count(t4) = count(fd) + 4
    BY <2>4, <2>5, <2>6, <2>7, <2>8
  <2> QED
    BY <2>2, <2>9 DEF count
<1>14. AllPipesMade
  BY <1>6 DEF AllPipesMade
<1>15. Apart'
  BY <1>1, <1>7, <1>11, <1>12 DEF Apart
<1>16. b.table = [fd EXCEPT ![a.ends.r] = R(made + 1), ![a.ends.w] = W(made + 1),
                            ![b.ends.r] = R(made + 2), ![b.ends.w] = W(made + 2)]
  BY <1>7
<1> QED
  BY <1>1, <1>6, <1>7, <1>8, <1>11, <1>13, <1>14, <1>15, <1>16

LEMMA OpenPipesKeeps ==
  ASSUME PipesInv, NEW l \in Pipelines, OpenPipes(l), TypeOK', LineInv'
  PROVE  PipesInv'
<1>1. TableKnown'
  <2> DEFINE a == Pipe(fd, pipe1, made)
             b == Pipe(a.table, pipe2, a.made)
  <2>1. /\ a.table \in Table /\ a.ends \in Ends2 /\ a.made \in made .. made + 1
        /\ made + 1 \in PipeId /\ a.made + 1 \in PipeId /\ made \in Nat
        /\ fd' = b.table /\ made' = b.made
    BY OpenedPipes DEF PipesInv
  <2>2. /\ fd \in Table /\ pipe1 \in Ends2 /\ pipe2 \in Ends2 /\ Known(fd, made)
    BY DEF PipesInv, TypeOK, TableKnown, Table, Ends2
  <2>3. Known(a.table, a.made)
    BY <2>1, <2>2, KnownSteps
  <2> HIDE DEF a
  <2>4. a.made \in Nat
    BY <2>1
  <2>5. Known(b.table, b.made)
    BY <2>1, <2>2, <2>3, <2>4, KnownSteps
  <2>6. proc' = proc
    BY DEF OpenPipes
  <2> HIDE DEF b
  <2> QED
    BY <2>1, <2>5, <2>6 DEF PipesInv, TableKnown
<1>2. NotStartedYet'
  <2>1. /\ pc = "idle" /\ ran' = ran + 1 /\ proc' = proc /\ ran \in Nat
    BY BoundsAssumption DEF OpenPipes, PipesInv, TypeOK
  <2>2. \A p \in Proc : ToCome(p)' => ToCome(p)
    BY <2>1 DEF ToCome, Proc
  <2> QED
    BY <2>1, <2>2 DEF PipesInv, NotStartedYet, Live
<1>3. WhenAllMade'
  <2> SUFFICES ASSUME AllPipesMade'
               PROVE  /\ \A n \in {0, 1, 2} : fd'[n] = Tty
                      /\ Cardinality(Fd \ FreeFds(fd')) = OpenNow'
                      /\ PipesInPlace'
                      /\ \A j \in 1 .. Len(line') : ~proc'[<<ran', j>>].live
    BY DEF WhenAllMade
  <2>1. /\ pc = "idle" /\ pc' = "fork" /\ k' = 1 /\ ran' = ran + 1 /\ line' = l
        /\ proc' = proc /\ ran < MaxPipelines /\ ran \in Nat /\ MaxPipelines \in Nat
    BY BoundsAssumption DEF OpenPipes, PipesInv, TypeOK
  <2>2. /\ AllPipesMade /\ Apart' /\ made = 2 * ran
        /\ pipe1'.r \in Fd /\ pipe1'.w \in Fd /\ pipe2'.r \in Fd /\ pipe2'.w \in Fd
        /\ \A n \in {pipe1'.r, pipe1'.w, pipe2'.r, pipe2'.w} : fd[n] = Closed
        /\ fd' = [fd EXCEPT ![pipe1'.r] = R(made + 1), ![pipe1'.w] = W(made + 1),
                            ![pipe2'.r] = R(made + 2), ![pipe2'.w] = W(made + 2)]
        /\ Cardinality(Fd \ FreeFds(fd')) = Cardinality(Fd \ FreeFds(fd)) + 4
    BY BothMade
  <2>3. fd \in [Fd -> Object] /\ 0 \in Fd /\ 1 \in Fd /\ 2 \in Fd
    BY BoundsAssumption DEF PipesInv, TypeOK, Fd
  <2>4. \A n \in {0, 1, 2} : fd'[n] = Tty
    <3>1. \A n \in {0, 1, 2} : fd[n] = Tty /\ Tty # Closed
      BY <2>2, ObjectsApart DEF PipesInv, WhenAllMade
    <3> QED
      BY <2>2, <2>3, <3>1
  <2>5. Cardinality(Fd \ FreeFds(fd')) = OpenNow'
    <3>1. Cardinality(Fd \ FreeFds(fd)) = 3 + 2 * ran
      BY <2>1, <2>2 DEF PipesInv, WhenAllMade, OpenNow
    <3>2. OpenNow' = 5 + 2 * (ran + 1)
      BY <2>1 DEF OpenNow, ClosedSoFar, Through
    <3> QED
      BY <2>1, <2>2, <3>1, <3>2
  <2>6. PipesInPlace'
    <3>1. /\ fd'[pipe1'.r] = R(made + 1) /\ fd'[pipe1'.w] = W(made + 1)
          /\ fd'[pipe2'.r] = R(made + 2) /\ fd'[pipe2'.w] = W(made + 2)
      BY <2>2, <2>3 DEF Apart
    <3>2. First' = made + 1 /\ Second' = made + 2
      BY <2>1, <2>2 DEF First, Second
    <3> QED
      BY <2>1, <2>2, <3>1, <3>2 DEF PipesInPlace, Through
  <2>7. \A j \in 1 .. Len(line') : ~proc'[<<ran', j>>].live
    <3>1. \A j \in 1 .. Len(line') : <<ran + 1, j>> \in Proc /\ ToCome(<<ran + 1, j>>)
      <4>1. Len(l) \in {2, 3} /\ ran + 1 \in 1 .. MaxPipelines
        BY <2>1, PipelinesAssumption
      <4>2. \A j \in 1 .. Len(l) : j \in 1 .. 3
        <5>1. CASE Len(l) = 2
          BY <5>1
        <5>2. CASE Len(l) = 3
          BY <5>2
        <5> QED
          BY <4>1, <5>1, <5>2
      <4> QED
        BY <2>1, <4>1, <4>2 DEF Proc, ToCome
    <3> QED
      BY <2>1, <3>1 DEF PipesInv, NotStartedYet
  <2> QED
    BY <2>4, <2>5, <2>6, <2>7
<1> QED
  BY <1>1, <1>2, <1>3 DEF PipesInv

-----------------------------------------------------------------------------
(* A redirection puts the file where it should go, or changes nothing that *)
(* was open.                                                               *)
LEMMA RedirectResult ==
  ASSUME NEW t \in Table, NEW stage \in Stage
  PROVE  LET u == Redirect(t, stage)
         IN /\ \A m \in Fd : u[m] \in {t[m], File}
            /\ t[0] # Closed => u[0] = t[0] \/ (stage.redir = "in" /\ u[0] = File)
            /\ t[1] # Closed => u[1] = t[1] \/ (stage.redir = "out" /\ u[1] = File)
<1>1. 0 \in Fd /\ 1 \in Fd /\ stage.redir \in {"no", "in", "out"}
  BY BoundsAssumption DEF Fd, Stage
<1>2. ASSUME NEW to \in Fd
      PROVE  /\ OpenTo(t, to) \in Table
             /\ \A m \in Fd : \/ OpenTo(t, to)[m] = t[m]
                              \/ OpenTo(t, to)[m] = File /\ (m = to \/ t[m] = Closed)
  <2>1. CASE FreeFds(t) = {}
    BY <2>1 DEF OpenTo
  <2>2. CASE FreeFds(t) # {}
    <3> DEFINE n == LowestIn(FreeFds(t))
               v == [t EXCEPT ![n] = File]
    <3>1. n \in Fd /\ t[n] = Closed
      BY <2>2, FreeNumbers DEF FreeFds
    <3>2. OpenTo(t, to) = Dup2(v, n, to)
      BY <2>2 DEF OpenTo
    <3> HIDE DEF n
    <3>3. \A m \in Fd : v[m] = IF m = n THEN File ELSE t[m]
      BY <3>1 DEF Table
    <3>4. v \in Table
      BY <3>1 DEF Table, Object
    <3> HIDE DEF v
    <3>5. Dup2(v, n, to) = [v EXCEPT ![to] = File]
      BY <3>1, <3>3, ObjectsApart DEF Dup2
    <3> QED
      BY <3>1, <3>2, <3>3, <3>4, <3>5, TableSteps DEF Table
  <2> QED
    BY <2>1, <2>2
<1> DEFINE u == Redirect(t, stage)
<1>3. CASE stage.redir = "no"
  <2>1. u = t
    BY <1>3 DEF Redirect
  <2> HIDE DEF u
  <2>2. \A m \in Fd : u[m] \in {t[m], File}
    BY <2>1
  <2> QED
    BY <2>1, <2>2 DEF u
<1>4. CASE stage.redir = "in"
  <2>1. u = OpenTo(t, 0)
    BY <1>4 DEF Redirect
  <2> HIDE DEF u
  <2>2. \A m \in Fd : u[m] = t[m] \/ (u[m] = File /\ (m = 0 \/ t[m] = Closed))
    BY <1>1, <1>2, <2>1
  <2>3. \A m \in Fd : u[m] \in {t[m], File}
    BY <2>2
  <2>4. /\ t[0] # Closed => u[0] = t[0] \/ (stage.redir = "in" /\ u[0] = File)
        /\ t[1] # Closed => u[1] = t[1] \/ (stage.redir = "out" /\ u[1] = File)
    BY <1>1, <1>4, <2>2
  <2> QED
    BY <2>3, <2>4 DEF u
<1>5. CASE stage.redir = "out"
  <2>1. u = OpenTo(t, 1)
    BY <1>5 DEF Redirect
  <2> HIDE DEF u
  <2>2. \A m \in Fd : u[m] = t[m] \/ (u[m] = File /\ (m = 1 \/ t[m] = Closed))
    BY <1>1, <1>2, <2>1
  <2>3. \A m \in Fd : u[m] \in {t[m], File}
    BY <2>2
  <2>4. /\ t[0] # Closed => u[0] = t[0] \/ (stage.redir = "in" /\ u[0] = File)
        /\ t[1] # Closed => u[1] = t[1] \/ (stage.redir = "out" /\ u[1] = File)
    BY <1>1, <1>5, <2>2
  <2> QED
    BY <2>3, <2>4 DEF u
<1> QED
  BY <1>1, <1>3, <1>4, <1>5

(* The tables that close and dup2 build hold nothing new.                  *)
LEMMA NothingNew ==
  ASSUME NEW s, NEW t \in Table, NEW a \in Fd, NEW b \in Fd,
         \A m \in Fd : t[m] = Closed \/ \E n \in Fd : t[m] = s[n]
  PROVE  /\ \A m \in Fd : Close(t, a)[m] = Closed \/ \E n \in Fd : Close(t, a)[m] = s[n]
         /\ \A m \in Fd : Dup2(t, a, b)[m] = Closed \/ \E n \in Fd : Dup2(t, a, b)[m] = s[n]
<1>1. \A m \in Fd : Close(t, a)[m] = IF m = a THEN Closed ELSE t[m]
  BY DEF Close, Table
<1>2. \A m \in Fd : Dup2(t, a, b)[m] \in {t[m], t[a]}
  BY DEF Dup2, Table
<1> QED
  BY <1>1, <1>2

(* dup2 and close give a child no file its table did not hold.             *)
LEMMA WireHoldsNothingNew ==
  ASSUME TypeOK, NEW role \in {"pord1", "pord2", "pord2c", "pord3"}
  PROVE  /\ Wire(fd, role) \in Table
         /\ \A m \in Fd : \/ Wire(fd, role)[m] = Closed
                          \/ \E n \in Fd : Wire(fd, role)[m] = fd[n]
<1> DEFINE Old(t) == /\ t \in Table
                     /\ \A m \in Fd : t[m] = Closed \/ \E n \in Fd : t[m] = fd[n]
<1>1. /\ fd \in Table /\ pipe1.r \in Fd /\ pipe1.w \in Fd
      /\ pipe2.r \in Fd /\ pipe2.w \in Fd /\ 0 \in Fd /\ 1 \in Fd
  BY BoundsAssumption DEF TypeOK, Table, Fd
<1>2. \A t, a : Old(t) /\ a \in Fd => Old(Close(t, a))
  <2> SUFFICES ASSUME NEW t, NEW a, Old(t), a \in Fd PROVE Old(Close(t, a))
    OBVIOUS
  <2>1. t \in Table /\ \A m \in Fd : t[m] = Closed \/ \E n \in Fd : t[m] = fd[n]
    OBVIOUS
  <2>2. Close(t, a) \in Table
    BY <2>1, TableSteps
  <2>3. \A m \in Fd : Close(t, a)[m] = Closed \/ \E n \in Fd : Close(t, a)[m] = fd[n]
    <3> HIDE DEF Old
    <3> QED
      BY <2>1, NothingNew
  <2> QED
    BY <2>2, <2>3
<1>3. \A t, a, b : Old(t) /\ a \in Fd /\ b \in Fd => Old(Dup2(t, a, b))
  <2> SUFFICES ASSUME NEW t, NEW a, NEW b, Old(t), a \in Fd, b \in Fd
               PROVE  Old(Dup2(t, a, b))
    OBVIOUS
  <2>1. t \in Table /\ \A m \in Fd : t[m] = Closed \/ \E n \in Fd : t[m] = fd[n]
    OBVIOUS
  <2>2. Dup2(t, a, b) \in Table
    BY <2>1, TableSteps
  <2>3. \A m \in Fd : Dup2(t, a, b)[m] = Closed \/ \E n \in Fd : Dup2(t, a, b)[m] = fd[n]
    <3> HIDE DEF Old
    <3> QED
      BY <2>1, NothingNew
  <2> QED
    BY <2>2, <2>3
<1>4. Old(fd)
  BY <1>1
<1> HIDE DEF Old
<1>5. Old(Wire(fd, role))
  BY <1>1, <1>2, <1>3, <1>4 DEF Wire
<1> QED
  BY <1>5 DEF Old

(* The table a child gets when all pipes were made.                        *)
LEMMA WireResult ==
  ASSUME PipesInv, AllPipesMade, pc = "fork"
  PROVE  LET t == Wire(fd, Role(Len(line), k))
         IN /\ t[0] = IF k = 1 THEN Tty ELSE R(2 * ran - 3 + k)
            /\ t[1] = IF k = Len(line) THEN Tty ELSE W(2 * ran - 2 + k)
            /\ \A m \in Fd : (t[m] = W(First) => k = 1) /\ (t[m] = W(Second) => k <= 2)
<1> DEFINE t == Wire(fd, Role(Len(line), k))
<1>1. /\ line \in Seq(Stage) /\ Len(line) \in {2, 3} /\ k \in 1 .. Len(line) /\ k \in 1 .. 3
      /\ ran \in 1 .. MaxPipelines /\ ran \in Nat
  BY StageType DEF PipesInv, LineInv
<1>2. /\ fd \in [Fd -> Object] /\ pipe1.r \in Fd /\ pipe1.w \in Fd
      /\ pipe2.r \in Fd /\ pipe2.w \in Fd /\ 0 \in Fd /\ 1 \in Fd
  BY BoundsAssumption DEF PipesInv, TypeOK, Table, Fd
<1>3. PipesInPlace /\ fd[0] = Tty /\ fd[1] = Tty
  BY DEF PipesInv, WhenAllMade
<1>4. \A i : R(i) # Closed /\ W(i) # Closed
  BY ObjectsApart
<1>5. Role(Len(line), k) \in {"pord1", "pord2", "pord2c", "pord3"}
  BY StageType DEF PipesInv
<1>6. \A m \in Fd : t[m] = Closed \/ \E n \in Fd : t[m] = fd[n]
  BY <1>5, WireHoldsNothingNew DEF PipesInv
<1>7. CASE k = 1
  <2>1. /\ t = Close(Dup2(fd, pipe1.w, 1), pipe1.r) /\ fd[pipe1.w] = W(First)
        /\ First = 2 * ran - 2 + k /\ k # Len(line)
    <3>1. Role(Len(line), k) = "pord1"
      BY <1>7 DEF Role
    <3>2. t = Close(Dup2(fd, pipe1.w, 1), pipe1.r)
      BY <3>1 DEF Wire
    <3>3. fd[pipe1.w] = W(First)
      <4>1. ~Through(1)
        BY <1>1, <1>7 DEF Through
      <4> QED
        BY <1>3, <4>1 DEF PipesInPlace
    <3>4. First = 2 * ran - 2 + k
      BY <1>1, <1>7 DEF First
    <3>5. k # Len(line)
      <4>1. Len(line) \in {2, 3}
        BY <1>1
      <4> QED
        BY <1>7, <4>1
    <3> QED
      BY <3>2, <3>3, <3>4, <3>5
  <2>2. t[0] = Tty /\ t[1] = W(First)
    <3> DEFINE v == [fd EXCEPT ![1] = W(First)]
    <3>1. Dup2(fd, pipe1.w, 1) = v
      BY <1>4, <2>1 DEF Dup2
    <3>2. v[0] = Tty /\ v[1] = W(First) /\ DOMAIN v = Fd
      BY <1>2, <1>3
    <3> HIDE DEF v
    <3>3. pipe1.r \notin {0, 1}
      BY <1>3 DEF PipesInPlace, Apart
    <3> QED
      BY <1>2, <2>1, <3>1, <3>2, <3>3 DEF Close
  <2> QED
    BY <1>7, <2>1, <2>2
<1>8. ASSUME k = 2
      PROVE  \A m \in Fd : (t[m] = W(First) => k = 1) /\ (t[m] = W(Second) => k <= 2)
  <2>1. ~ShellHolds(W(First))
    BY <1>3, <1>8 DEF PipesInPlace, Through
  <2> QED
    BY <1>4, <1>6, <1>8, <2>1 DEF ShellHolds
<1>9. CASE k = 2 /\ Len(line) = 2
  <2>1. /\ t = Close(Dup2(fd, pipe1.r, 0), pipe1.w) /\ fd[pipe1.r] = R(First)
        /\ First = 2 * ran - 3 + k /\ k = Len(line) /\ k # 1
    <3>1. Role(Len(line), k) = "pord2"
      BY <1>9 DEF Role
    <3>2. t = Close(Dup2(fd, pipe1.r, 0), pipe1.w)
      BY <3>1 DEF Wire
    <3>3. fd[pipe1.r] = R(First)
      BY <1>3, <1>9 DEF PipesInPlace, Through
    <3> QED
      BY <1>1, <1>9, <3>2, <3>3 DEF First
  <2>2. t[0] = R(First) /\ t[1] = Tty
    <3> DEFINE v == [fd EXCEPT ![0] = R(First)]
    <3>1. Dup2(fd, pipe1.r, 0) = v
      BY <1>4, <2>1 DEF Dup2
    <3>2. v[0] = R(First) /\ v[1] = Tty /\ DOMAIN v = Fd
      BY <1>2, <1>3
    <3> HIDE DEF v
    <3>3. pipe1.w \notin {0, 1}
      BY <1>3 DEF PipesInPlace, Apart
    <3> QED
      BY <1>2, <2>1, <3>1, <3>2, <3>3 DEF Close
  <2> QED
    BY <1>8, <1>9, <2>1, <2>2
<1>10. CASE k = 2 /\ Len(line) = 3
  <2>1. /\ t = Close(Close(Dup2(Dup2(fd, pipe1.r, 0), pipe2.w, 1), pipe1.w), pipe2.r)
        /\ fd[pipe1.r] = R(First) /\ fd[pipe2.w] = W(Second)
        /\ First = 2 * ran - 3 + k /\ Second = 2 * ran - 2 + k /\ k # Len(line) /\ k # 1
    BY <1>1, <1>3, <1>10 DEF Wire, Role, PipesInPlace, Through, First, Second
  <2>2. t[0] = R(First) /\ t[1] = W(Second)
    <3> DEFINE v == [fd EXCEPT ![0] = R(First)]
    <3>1. Dup2(fd, pipe1.r, 0) = v
      BY <1>4, <2>1 DEF Dup2
    <3>2. v[pipe2.w] = W(Second) /\ v[0] = R(First) /\ DOMAIN v = Fd
      BY <1>2, <1>3, <2>1 DEF PipesInPlace, Apart
    <3> HIDE DEF v
    <3>3. Dup2(v, pipe2.w, 1) = [v EXCEPT ![1] = W(Second)]
      BY <1>4, <3>2 DEF Dup2
    <3> QED
      BY <1>2, <1>3, <2>1, <3>1, <3>2, <3>3 DEF Close, PipesInPlace, Apart
  <2> QED
    BY <1>8, <1>10, <2>1, <2>2
<1>11. CASE k = 3
  <2>1. k = Len(line) /\ k # 1 /\ Len(line) = 3
    BY <1>1, <1>11
  <2>2. /\ t = Close(Close(Close(Dup2(fd, pipe2.r, 0), pipe1.r), pipe1.w), pipe2.w)
        /\ fd[pipe2.r] = R(Second) /\ Second = 2 * ran - 3 + k
    BY <1>1, <1>3, <1>11, <2>1 DEF Wire, Role, PipesInPlace, Second
  <2>3. t[0] = R(Second) /\ t[1] = Tty
    <3> DEFINE v == [fd EXCEPT ![0] = R(Second)]
    <3>1. Dup2(fd, pipe2.r, 0) = v
      BY <1>4, <2>2 DEF Dup2
    <3>2. v[0] = R(Second) /\ v[1] = Tty /\ DOMAIN v = Fd
      BY <1>2, <1>3
    <3> HIDE DEF v
    <3>3. /\ pipe1.r \notin {0, 1} /\ pipe1.w \notin {0, 1} /\ pipe2.w \notin {0, 1}
      BY <1>3 DEF PipesInPlace, Apart
    <3> QED
      BY <1>2, <2>2, <3>1, <3>2, <3>3 DEF Close
  <2>4. ~ShellHolds(W(First)) /\ ~ShellHolds(W(Second))
    BY <1>3, <1>11, <2>1 DEF PipesInPlace, Through
  <2> QED
    BY <1>4, <1>6, <2>1, <2>2, <2>3, <2>4 DEF ShellHolds
<1>12. k \in {1, 2, 3}
  BY <1>1
<1> QED
  BY <1>1, <1>7, <1>9, <1>10, <1>11, <1>12

LEMMA ForkStageKeeps ==
  ASSUME PipesInv, ForkStage, TypeOK', LineInv'
  PROVE  PipesInv'
<1> DEFINE role == Role(Len(line), k)
           t == Wire(fd, role)
           u == Redirect(t, line[k])
           held == {u[n] : n \in Fd} \ {Tty, File, Closed}
<1>1. /\ pc = "fork" /\ pc' = "close"
      /\ UNCHANGED <<line, k, fd, pipe1, pipe2, made, ran, buf>>
      /\ proc' = [proc EXCEPT ![<<ran, k>>] =
                    [live |-> TRUE, in |-> u[0], out |-> u[1], held |-> held,
                     reads |-> line[k].reads, want |-> line[k].emits]]
  BY DEF ForkStage
<1>2. /\ k \in 1 .. 3 /\ k \in 1 .. Len(line) /\ <<ran, k>> \in Proc /\ line[k] \in Stage
      /\ role \in {"pord1", "pord2", "pord2c", "pord3"}
  BY <1>1, StageType DEF PipesInv
<1>3. /\ 0 \in Fd /\ 1 \in Fd /\ proc \in [Proc -> ProcRecord]
      /\ made \in 0 .. 2 * ran /\ ran \in 0 .. MaxPipelines /\ MaxPipelines \in Nat
  BY BoundsAssumption DEF PipesInv, TypeOK, ProcRecord, Fd
<1>4. t \in Table /\ \A m \in Fd : t[m] = Closed \/ \E n \in Fd : t[m] = fd[n]
  BY <1>2, WireHoldsNothingNew DEF PipesInv
<1>5. /\ \A m \in Fd : u[m] \in {t[m], File}
      /\ t[0] # Closed => u[0] = t[0] \/ (line[k].redir = "in" /\ u[0] = File)
      /\ t[1] # Closed => u[1] = t[1] \/ (line[k].redir = "out" /\ u[1] = File)
  <2> HIDE DEF t
  <2> QED
    BY <1>2, <1>4, RedirectResult
<1>6. AllPipesMade => 
        /\ t[0] = IF k = 1 THEN Tty ELSE R(2 * ran - 3 + k)
        /\ t[1] = IF k = Len(line) THEN Tty ELSE W(2 * ran - 2 + k)
        /\ \A m \in Fd : (t[m] = W(First) => k = 1) /\ (t[m] = W(Second) => k <= 2)
  BY <1>1, WireResult
<1> HIDE DEF role, t, u
<1>7. \A obj \in held : \E m \in Fd, n \in Fd : obj = t[m] /\ obj = fd[n]
  BY <1>4, <1>5
<1>8. /\ proc'[<<ran, k>>].live /\ proc'[<<ran, k>>].in = u[0]
      /\ proc'[<<ran, k>>].out = u[1] /\ proc'[<<ran, k>>].held = held
      /\ \A p \in Proc : p # <<ran, k>> => proc'[p] = proc[p]
  BY <1>1, <1>2, <1>3
<1>9. TableKnown'
  <2>1. \A obj \in held : \E i \in 1 .. 2 * ran : obj \in {R(i), W(i)}
    <3> SUFFICES ASSUME NEW obj \in held PROVE \E i \in 1 .. 2 * ran : obj \in {R(i), W(i)}
      OBVIOUS
    <3>1. PICK n \in Fd : obj = fd[n]
      BY <1>7
    <3>2. PICK i \in 1 .. made : fd[n] \in {R(i), W(i)}
      BY <3>1 DEF PipesInv, TableKnown, Known
    <3>3. i \in 1 .. 2 * ran
      BY <1>3
    <3> QED
      BY <3>1, <3>2, <3>3
  <2> HIDE DEF held
  <2>2. \A p \in Proc : \A obj \in proc'[p].held : \E i \in 1 .. 2 * p[1] : obj \in {R(i), W(i)}
    <3> SUFFICES ASSUME NEW p \in Proc, NEW obj \in proc'[p].held
                 PROVE  \E i \in 1 .. 2 * p[1] : obj \in {R(i), W(i)}
      OBVIOUS
    <3>1. CASE p = <<ran, k>>
      BY <1>8, <2>1, <3>1
    <3>2. CASE p # <<ran, k>>
      BY <1>8, <3>2 DEF PipesInv, TableKnown
    <3> QED
      BY <3>1, <3>2
  <2>3. Known(fd, made)' 
    BY <1>1 DEF PipesInv, TableKnown, Known
  <2> QED
    BY <2>2, <2>3 DEF TableKnown
<1>10. NotStartedYet'
  <2> SUFFICES ASSUME NEW p \in Proc, ToCome(p)' PROVE ~proc'[p].live
    BY DEF NotStartedYet
  <2>1. p[1] \in Nat /\ p[2] \in Nat /\ ran \in Nat /\ k \in Nat
    BY <1>2, <1>3 DEF Proc
  <2>2. ToCome(p) /\ ~(p[1] = ran /\ p[2] = k)
    BY <1>1, <2>1 DEF ToCome
  <2>3. p # <<ran, k>>
    BY <2>2
  <2> QED
    BY <1>8, <2>2, <2>3 DEF PipesInv, NotStartedYet
<1>11. WhenAllMade'
  <2> SUFFICES ASSUME AllPipesMade' PROVE WhenAllMade'
    BY DEF WhenAllMade
  <2>1. AllPipesMade
    BY <1>1 DEF AllPipesMade
  <2>2. \A j : Through(j)' = Through(j)
    BY <1>1 DEF Through
  <2>3. PipesInPlace /\ PipesInPlace'
    BY <1>1, <2>1, <2>2 DEF PipesInv, WhenAllMade, PipesInPlace, Apart, First, Second, ShellHolds
  <2>4. OpenNow' = OpenNow
    BY <1>1, <2>2 DEF OpenNow, ClosedSoFar
  <2>5. ASSUME NEW j \in 1 .. Len(line), proc'[<<ran, j>>].live PROVE StageInPlace(j)'
    <3>1. CASE j = k
      <4>1. Tty # Closed /\ \A i : R(i) # Closed /\ W(i) # Closed
        BY ObjectsApart
      <4>2. t[0] # Closed /\ t[1] # Closed
        BY <1>6, <2>1, <4>1
      <4>3. /\ u[0] = (IF k = 1 THEN Tty ELSE R(2 * ran - 3 + k))
                \/ (line[k].redir = "in" /\ u[0] = File)
            /\ u[1] = (IF k = Len(line) THEN Tty ELSE W(2 * ran - 2 + k))
                \/ (line[k].redir = "out" /\ u[1] = File)
        BY <1>5, <1>6, <2>1, <4>2
      <4>4. (W(First) \in held => k = 1) /\ (W(Second) \in held => k <= 2)
        BY <1>6, <1>7, <2>1
      <4>5. ~(k < k)
        BY <1>2
      <4> HIDE DEF held
      <4>6. First' = First /\ Second' = Second /\ line' = line /\ k' = k /\ ran' = ran
        BY <1>1 DEF First, Second
      <4> QED
        BY <1>8, <3>1, <4>3, <4>4, <4>5, <4>6 DEF StageInPlace
    <3>2. CASE j # k
      <4>1. <<ran, j>> \in Proc
        BY <1>1, StagesAreProcs DEF PipesInv
      <4>2. <<ran, j>> # <<ran, k>>
        BY <3>2
      <4>3. proc'[<<ran, j>>] = proc[<<ran, j>>]
        BY <1>8, <4>1, <4>2
      <4>4. StageInPlace(j)
        BY <1>1, <2>1, <2>5, <4>3 DEF PipesInv, WhenAllMade
      <4>5. First' = First /\ Second' = Second /\ line' = line /\ k' = k /\ ran' = ran
        BY <1>1 DEF First, Second
      <4> QED
        BY <4>3, <4>4, <4>5 DEF StageInPlace
    <3> QED
      BY <3>1, <3>2
  <2>6. /\ \A n \in {0, 1, 2} : fd[n] = Tty
        /\ Cardinality(Fd \ FreeFds(fd)) = OpenNow
    BY <2>1 DEF PipesInv, WhenAllMade
  <2> QED
    BY <1>1, <2>3, <2>4, <2>5, <2>6 DEF WhenAllMade
<1> QED
  BY <1>9, <1>10, <1>11 DEF PipesInv

-----------------------------------------------------------------------------
(* What a table is once the shell is done with stage k, whether it waits   *)
(* for it or not.                                                          *)
PastStage(t) ==
  /\ \A n \in {0, 1, 2} : t[n] = Tty
  /\ IF Len(line) = 2 /\ 2 <= k THEN t[pipe1.r] = Closed ELSE t[pipe1.r] = R(First)
  /\ t[pipe2.r] = R(Second)
  /\ t[pipe1.w] = Closed /\ \A n \in Fd : t[n] # W(First)
  /\ IF Len(line) = 3 /\ 2 <= k
     THEN t[pipe2.w] = Closed /\ \A n \in Fd : t[n] # W(Second)
     ELSE t[pipe2.w] = W(Second)
  /\ Cardinality(Fd \ FreeFds(t)) = IF k = 1 THEN 4 + 2 * ran ELSE 3 + 2 * ran

(* The shell goes on to wait, to the next stage or to the next line.       *)
LEMMA MovesOn ==
  ASSUME PipesInv, pc \in {"close", "wait"}, TypeOK', LineInv',
         UNCHANGED <<pipe1, pipe2, made, ran, buf, proc>>,
         NextStage \/ (pc' = "wait" /\ UNCHANGED <<line, k>>),
         NextStage => line[k].bg \/ ~proc[<<ran, k>>].live,
         Known(fd', made), AllPipesMade => PastStage(fd')
  PROVE  PipesInv'
<1>1. /\ k \in 1 .. 3 /\ k \in 1 .. Len(line) /\ Len(line) \in {2, 3}
      /\ ran \in Nat /\ k \in Nat /\ Len(line) \in Nat
  <2>1. ran \in Nat
    BY BoundsAssumption DEF PipesInv, TypeOK
  <2>2. k \in 1 .. 3 /\ k \in 1 .. Len(line) /\ Len(line) \in {2, 3}
    BY StageType DEF PipesInv
  <2> QED
    BY <2>1, <2>2
<1>2. \/ pc' = "wait" /\ k' = k /\ line' = line
      \/ pc' = "fork" /\ k' = k + 1 /\ line' = line /\ NextStage
      \/ pc' = "idle" /\ k = Len(line)
  BY <1>1 DEF NextStage
<1>3. TableKnown'
  BY DEF PipesInv, TableKnown, Known
<1>4. NotStartedYet'
  <2> SUFFICES ASSUME NEW p \in Proc, ToCome(p)' PROVE ~proc'[p].live
    BY DEF NotStartedYet
  <2>1. p[1] \in Nat /\ p[2] \in Nat
    BY DEF Proc
  <2>2. ToCome(p)
    BY <1>1, <1>2, <2>1 DEF ToCome
  <2> QED
    BY <2>2 DEF PipesInv, NotStartedYet
<1>5. WhenAllMade'
  <2> SUFFICES ASSUME AllPipesMade' PROVE WhenAllMade'
    BY DEF WhenAllMade
  <2>1. AllPipesMade /\ PastStage(fd')
    BY DEF AllPipesMade
  <2>2. CASE pc' = "idle"
    <3>1. k # 1
      <4>1. Len(line) # 1
        BY <1>1
      <4> QED
        BY <1>2, <2>2, <4>1
    <3>2. OpenNow' = 3 + 2 * ran
      BY <2>2 DEF OpenNow
    <3> QED
      BY <2>1, <2>2, <3>1, <3>2 DEF WhenAllMade, PastStage
  <2>3. CASE pc' # "idle"
    <3>1. line' = line /\ \A j \in Nat : Through(j)' <=> j <= k
      BY <1>1, <1>2, <2>3 DEF Through
    <3>2. (Through(1)' <=> TRUE) /\ (Through(2)' <=> k # 1)
      BY <1>1, <3>1
    <3>3. Apart
      BY <2>1 DEF PipesInv, WhenAllMade, PipesInPlace
    <3>4. PipesInPlace'
      <4>1. First' = First /\ Second' = Second /\ (2 <= k <=> k # 1)
        BY <1>1 DEF First, Second
      <4>2. Apart'
        BY <3>3 DEF Apart
      <4> QED
        BY <2>1, <3>1, <3>2, <4>1, <4>2 DEF PipesInPlace, PastStage, ShellHolds
    <3>5. OpenNow' = IF k = 1 THEN 4 + 2 * ran ELSE 3 + 2 * ran
      BY <1>1, <2>3, <3>2 DEF OpenNow, ClosedSoFar
    <3>6. ASSUME NEW j \in 1 .. Len(line), proc[<<ran, j>>].live PROVE StageInPlace(j)'
      <4>1. StageInPlace(j)
        BY <2>1, <3>6 DEF PipesInv, WhenAllMade
      <4>2. First' = First /\ Second' = Second
        BY DEF First, Second
      <4>3. j < k' => line[j].bg
        <5>1. CASE pc' = "wait"
          BY <1>2, <4>1, <5>1 DEF StageInPlace
        <5>2. CASE pc' = "fork"
          <6>1. j < k' => j < k \/ j = k
            BY <1>1, <1>2, <5>2
          <6> QED
            BY <1>2, <3>6, <4>1, <5>2, <6>1 DEF StageInPlace
        <5> QED
          BY <1>2, <2>3, <5>1, <5>2
      <4> QED
        BY <3>1, <4>1, <4>2, <4>3 DEF StageInPlace
    <3> QED
      BY <2>1, <3>1, <3>4, <3>5, <3>6 DEF WhenAllMade, PastStage
  <2> QED
    BY <2>2, <2>3
<1> QED
  BY <1>3, <1>4, <1>5 DEF PipesInv

LEMMA WaitKeeps ==
  ASSUME PipesInv, Wait, TypeOK', LineInv'
  PROVE  PipesInv'
<1>1. /\ pc = "wait" /\ ~proc[<<ran, k>>].live /\ NextStage
      /\ UNCHANGED <<fd, pipe1, pipe2, made, ran, buf, proc>>
  BY DEF Wait
<1>2. Known(fd', made)
  BY <1>1 DEF PipesInv, TableKnown, Known
<1>3. AllPipesMade => PastStage(fd')
  <2> SUFFICES ASSUME AllPipesMade PROVE PastStage(fd)
    BY <1>1
  <2>1. k \in 1 .. 3 /\ ran \in Nat
    BY <1>1, StageType, BoundsAssumption DEF PipesInv, TypeOK
  <2>2. (Through(1) <=> TRUE) /\ (Through(2) <=> k # 1) /\ (2 <= k <=> k # 1)
    BY <1>1, <2>1 DEF Through
  <2>3. OpenNow = IF k = 1 THEN 4 + 2 * ran ELSE 3 + 2 * ran
    BY <1>1, <2>1, <2>2 DEF OpenNow, ClosedSoFar
  <2> QED
    BY <1>1, <2>2, <2>3 DEF PipesInv, WhenAllMade, PipesInPlace, PastStage, ShellHolds
<1> QED
  BY <1>1, <1>2, <1>3, MovesOn

(* The end that run_process closes is the right one, the shell has no      *)
(* other copy of it, and no end is closed twice.                           *)
LEMMA ClosesRightEnd ==
  ASSUME PipesInv, AllPipesMade, pc = "close"
  PROVE  PastStage(ParentCloses(fd, Role(Len(line), k)))
<1> DEFINE t == ParentCloses(fd, Role(Len(line), k))
<1>1. /\ Len(line) \in {2, 3} /\ k \in 1 .. Len(line) /\ k \in 1 .. 3
      /\ ran \in Nat /\ k \in {1, 2, 3}
  <2>1. Len(line) \in {2, 3} /\ k \in 1 .. Len(line) /\ k \in 1 .. 3 /\ ran \in Nat
    BY StageType, BoundsAssumption DEF PipesInv, TypeOK
  <2> QED
    BY <2>1
<1>2. /\ fd \in Table /\ pipe1.r \in Fd /\ pipe1.w \in Fd
      /\ pipe2.r \in Fd /\ pipe2.w \in Fd
  BY DEF PipesInv, TypeOK, Table
<1>3. /\ PipesInPlace /\ Apart /\ \A n \in {0, 1, 2} : fd[n] = Tty
      /\ Cardinality(Fd \ FreeFds(fd)) = OpenNow
  BY DEF PipesInv, WhenAllMade, PipesInPlace
<1>4. /\ Cardinality(Fd \ FreeFds(fd)) \in Nat
      /\ \A n \in Fd : /\ \A m \in Fd : Close(fd, n)[m] = IF m = n THEN Closed ELSE fd[m]
                       /\ fd[n] # Closed =>
                            Cardinality(Fd \ FreeFds(Close(fd, n))) = OpenNow - 1
  BY <1>2, <1>3, OpenCounts DEF Close, Table
<1>5. \A a, b \in Fd : fd[a] = fd[b] /\ fd[a] \notin {Tty, Closed} => a = b
  BY DEF PipesInv, TableKnown, Known
<1>6. \A i, j : R(i) # W(j) /\ R(i) \notin {Tty, Closed} /\ W(i) \notin {Tty, Closed}
  BY ObjectsApart
<1>7. 0 \in Fd /\ 1 \in Fd /\ 2 \in Fd
  BY BoundsAssumption DEF Fd
<1>8. CASE k = 1
  <2>1. ~Through(1) /\ ~Through(2) /\ ~(2 <= k)
    BY <1>8 DEF Through
  <2>2. t = Close(fd, pipe1.w) /\ fd[pipe1.w] = W(First)
    <3>1. Role(Len(line), k) = "pord1"
      BY <1>8 DEF Role
    <3> QED
      BY <1>3, <2>1, <3>1 DEF ParentCloses, PipesInPlace
  <2>3. OpenNow = 5 + 2 * ran
    BY <1>1, <2>1 DEF OpenNow, ClosedSoFar
  <2> HIDE DEF t
  <2>4. \A m \in Fd : t[m] = IF m = pipe1.w THEN Closed ELSE fd[m]
    BY <1>2, <1>4, <2>2
  <2>5. Cardinality(Fd \ FreeFds(t)) = 4 + 2 * ran
    <3>1. \A n \in Fd : fd[n] # Closed =>
                         Cardinality(Fd \ FreeFds(Close(fd, n))) = OpenNow - 1
      BY <1>4
    <3>2. Cardinality(Fd \ FreeFds(t)) = OpenNow - 1
      BY <1>2, <1>6, <2>2, <3>1
    <3> QED
      BY <1>1, <2>3, <3>2
  <2>6. t[pipe1.w] = Closed /\ \A m \in Fd : t[m] # W(First)
    BY <1>2, <1>5, <1>6, <2>2, <2>4
  <2>7. /\ \A n \in {0, 1, 2} : t[n] = Tty
        /\ t[pipe1.r] = R(First) /\ t[pipe2.r] = R(Second) /\ t[pipe2.w] = W(Second)
    BY <1>2, <1>3, <1>7, <2>1, <2>4 DEF PipesInPlace, Apart
  <2>8. PastStage(t)
    BY <1>8, <2>1, <2>5, <2>6, <2>7 DEF PastStage
  <2> QED
    BY <2>8 DEF t
<1>9. CASE k = 2 /\ Len(line) = 2
  <2>1. Through(1) /\ ~Through(2) /\ 2 <= k /\ k # 1
    BY <1>9 DEF Through
  <2>2. t = Close(fd, pipe1.r) /\ fd[pipe1.r] = R(First)
    <3>1. Role(Len(line), k) = "pord2"
      BY <1>9 DEF Role
    <3> QED
      BY <1>3, <2>1, <3>1 DEF ParentCloses, PipesInPlace
  <2>3. OpenNow = 4 + 2 * ran
    BY <1>1, <2>1 DEF OpenNow, ClosedSoFar
  <2> HIDE DEF t
  <2>4. \A m \in Fd : t[m] = IF m = pipe1.r THEN Closed ELSE fd[m]
    BY <1>2, <1>4, <2>2
  <2>5. Cardinality(Fd \ FreeFds(t)) = 3 + 2 * ran
    <3>1. \A n \in Fd : fd[n] # Closed =>
                         Cardinality(Fd \ FreeFds(Close(fd, n))) = OpenNow - 1
      BY <1>4
    <3>2. Cardinality(Fd \ FreeFds(t)) = OpenNow - 1
      BY <1>2, <1>6, <2>2, <3>1
    <3> QED
      BY <1>1, <2>3, <3>2
  <2>6. /\ fd[pipe1.w] = Closed /\ \A m \in Fd : fd[m] # W(First)
        /\ fd[pipe2.r] = R(Second) /\ fd[pipe2.w] = W(Second)
    BY <1>3, <1>9, <2>1 DEF PipesInPlace, ShellHolds
  <2>7. /\ \A n \in {0, 1, 2} : t[n] = Tty
        /\ t[pipe1.r] = Closed /\ t[pipe2.r] = R(Second) /\ t[pipe2.w] = W(Second)
        /\ t[pipe1.w] = Closed /\ \A m \in Fd : t[m] # W(First)
    BY <1>2, <1>3, <1>6, <1>7, <2>4, <2>6 DEF Apart
  <2>8. PastStage(t)
    BY <1>9, <2>1, <2>5, <2>7 DEF PastStage
  <2> QED
    BY <2>8 DEF t
<1>10. CASE k = 2 /\ Len(line) = 3
  <2>1. Through(1) /\ ~Through(2) /\ 2 <= k /\ k # 1 /\ Len(line) # 2
    BY <1>10 DEF Through
  <2>2. t = Close(fd, pipe2.w) /\ fd[pipe2.w] = W(Second)
    <3>1. Role(Len(line), k) = "pord2c"
      BY <1>10 DEF Role
    <3> QED
      BY <1>3, <2>1, <3>1 DEF ParentCloses, PipesInPlace
  <2>3. OpenNow = 4 + 2 * ran
    BY <1>1, <2>1 DEF OpenNow, ClosedSoFar
  <2> HIDE DEF t
  <2>4. \A m \in Fd : t[m] = IF m = pipe2.w THEN Closed ELSE fd[m]
    BY <1>2, <1>4, <2>2
  <2>5. Cardinality(Fd \ FreeFds(t)) = 3 + 2 * ran
    <3>1. \A n \in Fd : fd[n] # Closed =>
                         Cardinality(Fd \ FreeFds(Close(fd, n))) = OpenNow - 1
      BY <1>4
    <3>2. Cardinality(Fd \ FreeFds(t)) = OpenNow - 1
      BY <1>2, <1>6, <2>2, <3>1
    <3> QED
      BY <1>1, <2>3, <3>2
  <2>6. /\ fd[pipe1.w] = Closed /\ \A m \in Fd : fd[m] # W(First)
        /\ fd[pipe1.r] = R(First) /\ fd[pipe2.r] = R(Second)
    BY <1>3, <1>10, <2>1 DEF PipesInPlace, ShellHolds
  <2>7. /\ \A n \in {0, 1, 2} : t[n] = Tty
        /\ t[pipe1.r] = R(First) /\ t[pipe2.r] = R(Second) /\ t[pipe1.w] = Closed
        /\ \A m \in Fd : t[m] # W(First)
    BY <1>2, <1>3, <1>6, <1>7, <2>4, <2>6 DEF Apart
  <2>8. t[pipe2.w] = Closed /\ \A m \in Fd : t[m] # W(Second)
    BY <1>2, <1>5, <1>6, <2>2, <2>4
  <2>9. PastStage(t)
    BY <1>10, <2>1, <2>5, <2>7, <2>8 DEF PastStage
  <2> QED
    BY <2>9 DEF t
<1>11. CASE k = 3
  <2>1. Through(1) /\ Through(2) /\ 2 <= k /\ k # 1
    BY <1>11 DEF Through
  <2>2. Len(line) = 3 /\ Len(line) # 2
    <3>1. CASE Len(line) = 2
      BY <1>1, <1>11, <3>1
    <3>2. CASE Len(line) = 3
      BY <3>2
    <3> QED
      BY <1>1, <3>1, <3>2
  <2>3. t = fd
    <3>1. Role(Len(line), k) = "pord3"
      BY <1>11 DEF Role
    <3> QED
      BY <3>1 DEF ParentCloses
  <2>4. OpenNow = 3 + 2 * ran
    BY <1>1, <2>1 DEF OpenNow, ClosedSoFar
  <2> HIDE DEF t
  <2>5. PastStage(fd)
    BY <1>3, <2>1, <2>2, <2>4 DEF PastStage, PipesInPlace, ShellHolds
  <2> QED
    BY <2>3, <2>5 DEF t
<1> QED
  BY <1>1, <1>8, <1>9, <1>10, <1>11

LEMMA CloseEndsKeeps ==
  ASSUME PipesInv, CloseEnds, TypeOK', LineInv'
  PROVE  PipesInv'
<1> DEFINE role == Role(Len(line), k)
<1>1. /\ pc = "close" /\ fd' = ParentCloses(fd, role)
      /\ UNCHANGED <<pipe1, pipe2, made, ran, buf, proc>>
      /\ (line[k].bg /\ NextStage) \/ (pc' = "wait" /\ UNCHANGED <<line, k>>)
  BY DEF CloseEnds
<1>2. role \in {"pord1", "pord2", "pord2c", "pord3"}
  BY <1>1, StageType DEF PipesInv
<1>3. Known(fd', made)
  <2>1. /\ fd \in Table /\ pipe1.r \in Fd /\ pipe1.w \in Fd /\ pipe2.w \in Fd
        /\ Known(fd, made) /\ made \in Nat
    BY BoundsAssumption DEF PipesInv, TypeOK, Table, TableKnown
  <2>2. \A n \in Fd : Known(Close(fd, n), made)
    BY <2>1, KnownSteps
  <2> HIDE DEF role
  <2>3. \/ fd' = Close(fd, pipe1.w) \/ fd' = Close(fd, pipe1.r)
        \/ fd' = Close(fd, pipe2.w) \/ fd' = fd
    BY <1>1, <1>2 DEF ParentCloses
  <2> QED
    BY <2>1, <2>2, <2>3
<1>4. AllPipesMade => PastStage(fd')
  BY <1>1, ClosesRightEnd
<1>5. NextStage => pc' # "wait"
  BY DEF NextStage
<1>6. NextStage => line[k].bg \/ ~proc[<<ran, k>>].live
  BY <1>1, <1>5
<1> HIDE DEF role
<1> QED
  BY <1>1, <1>3, <1>4, <1>6, MovesOn

(* A program writes, reads, fails or ends: its descriptors stay or go.     *)
LEMMA RunsKeeps ==
  ASSUME PipesInv, NEW p \in Proc, Runs(p), TypeOK', LineInv'
  PROVE  PipesInv'
<1>1. /\ UNCHANGED <<pc, line, k, fd, pipe1, pipe2, made, ran>> /\ proc[p].live
      /\ \E r : /\ proc' = [proc EXCEPT ![p] = r]
                /\ \/ r.live /\ r.in = proc[p].in /\ r.out = proc[p].out
                      /\ r.held = proc[p].held
                   \/ ~r.live /\ r.held = {}
  <2>1. UNCHANGED <<pc, line, k, fd, pipe1, pipe2, made, ran>> /\ proc[p].live
    BY DEF Runs, WriteOut, WriteFails, ReadEnds, Ends, WritePipe, ReadPipe,
           Writes, Reads, Program, Live
  <2>2. /\ proc[p] \in ProcRecord /\ ~Gone.live /\ Gone.held = {}
    BY DEF PipesInv, TypeOK, ProcRecord, Gone
  <2> DEFINE Stays(r) == /\ r.live /\ r.in = proc[p].in /\ r.out = proc[p].out
                         /\ r.held = proc[p].held
  <2>3. \A w : Stays([proc[p] EXCEPT !.want = w])
    BY <2>1, <2>2 DEF ProcRecord
  <2>4. \A w : Stays([proc[p] EXCEPT !.reads = w])
    BY <2>1, <2>2 DEF ProcRecord
  <2>5. \A v, w : Stays([proc[p] EXCEPT !.want = v, !.reads = w])
    BY <2>1, <2>2 DEF ProcRecord
  <2> HIDE DEF Stays
  <2>6. \/ \E r : proc' = [proc EXCEPT ![p] = r] /\ Stays(r)
        \/ proc' = [proc EXCEPT ![p] = Gone]
    <3>1. CASE WriteOut(p)
      BY <2>3, <3>1 DEF WriteOut, Wrote
    <3>2. CASE WriteFails(p) \/ Ends(p)
      BY <3>2 DEF WriteFails, Ends
    <3>3. CASE ReadEnds(p)
      BY <2>4, <3>3 DEF ReadEnds
    <3>4. CASE \E i \in PipeId : WritePipe(p, i)
      BY <2>3, <3>4 DEF WritePipe, Wrote
    <3>5. CASE \E i \in PipeId : ReadPipe(p, i)
      <4> DEFINE w == IF proc[p].reads = "one" THEN "none" ELSE proc[p].reads
      <4>1. proc' = [proc EXCEPT ![p] = [proc[p] EXCEPT !.want = 1, !.reads = w]]
        BY <3>5 DEF ReadPipe, PipesInv, TypeOK
      <4> HIDE DEF w
      <4> QED
        BY <2>5, <4>1
    <3> QED
      BY <3>1, <3>2, <3>3, <3>4, <3>5 DEF Runs
  <2> QED
    BY <2>1, <2>2, <2>6 DEF Stays
<1>2. \A q \in Proc :
        /\ proc'[q].live => proc[q].live
        /\ \A obj \in proc'[q].held : obj \in proc[q].held
        /\ proc'[q].live => proc'[q].in = proc[q].in /\ proc'[q].out = proc[q].out
                            /\ proc'[q].held = proc[q].held
  <2>1. DOMAIN proc = Proc
    BY DEF PipesInv, TypeOK
  <2> QED
    BY <1>1, <2>1
<1>3. TableKnown'
  <2>1. Known(fd, made)'
    BY <1>1 DEF PipesInv, TableKnown, Known
  <2> QED
    BY <1>2, <2>1 DEF PipesInv, TableKnown
<1>4. NotStartedYet'
  <2>1. \A q : ToCome(q)' = ToCome(q)
    BY <1>1 DEF ToCome
  <2> QED
    BY <1>2, <2>1 DEF PipesInv, NotStartedYet
<1>5. WhenAllMade'
  <2> SUFFICES ASSUME AllPipesMade' PROVE WhenAllMade'
    BY DEF WhenAllMade
  <2>1. AllPipesMade /\ First' = First /\ Second' = Second /\ \A j : Through(j)' = Through(j)
    BY <1>1 DEF AllPipesMade, First, Second, Through
  <2>2. OpenNow' = OpenNow
    BY <1>1, <2>1 DEF OpenNow, ClosedSoFar
  <2>3. PipesInPlace => PipesInPlace'
    BY <1>1, <2>1 DEF PipesInPlace, Apart, ShellHolds
  <2>4. ASSUME pc # "idle", NEW j \in 1 .. Len(line), proc'[<<ran, j>>].live
        PROVE  StageInPlace(j)'
    <3>1. <<ran, j>> \in Proc
      BY <2>4, StagesAreProcs DEF PipesInv
    <3>2. StageInPlace(j)
      BY <1>2, <2>1, <2>4, <3>1 DEF PipesInv, WhenAllMade
    <3> QED
      BY <1>1, <1>2, <2>1, <2>4, <3>1, <3>2 DEF StageInPlace
  <2> QED
    BY <1>1, <2>1, <2>2, <2>3, <2>4 DEF PipesInv, WhenAllMade
<1> QED
  BY <1>3, <1>4, <1>5 DEF PipesInv

LEMMA PipesStep == PipesInv /\ [Next]_vars => PipesInv'
<1> SUFFICES ASSUME PipesInv, [Next]_vars PROVE PipesInv'
  OBVIOUS
<1>1. TypeOK' /\ LineInv'
  BY TypeStep DEF PipesInv
<1>2. ASSUME NEW l \in Pipelines, OpenPipes(l) PROVE PipesInv'
  BY <1>1, <1>2, OpenPipesKeeps
<1>3. CASE ForkStage
  BY <1>1, <1>3, ForkStageKeeps
<1>4. CASE CloseEnds
  BY <1>1, <1>4, CloseEndsKeeps
<1>5. CASE Wait
  BY <1>1, <1>5, WaitKeeps
<1>6. ASSUME NEW p \in Proc, Runs(p) PROVE PipesInv'
  BY <1>1, <1>6, RunsKeeps
<1>7. CASE UNCHANGED vars
  <2>1. TableKnown' /\ NotStartedYet'
    BY <1>7 DEF vars, PipesInv, TableKnown, Known, NotStartedYet, ToCome
  <2>2. WhenAllMade'
    <3>1. /\ First' = First /\ Second' = Second /\ \A j : Through(j)' = Through(j)
      BY <1>7 DEF vars, First, Second, Through
    <3>2. OpenNow' = OpenNow /\ AllPipesMade' = AllPipesMade
      BY <1>7, <3>1 DEF vars, OpenNow, ClosedSoFar, AllPipesMade
    <3>3. PipesInPlace => PipesInPlace'
      BY <1>7, <3>1 DEF vars, PipesInPlace, Apart, ShellHolds
    <3>4. \A j : StageInPlace(j) => StageInPlace(j)'
      BY <1>7, <3>1 DEF vars, StageInPlace
    <3> QED
      BY <1>7, <3>1, <3>2, <3>3, <3>4 DEF vars, PipesInv, WhenAllMade
  <2> QED
    BY <1>1, <2>1, <2>2 DEF PipesInv
<1> QED
  BY <1>2, <1>3, <1>4, <1>5, <1>6, <1>7 DEF Next, Shell

LEMMA PipesInit == Init => PipesInv
<1> SUFFICES ASSUME Init PROVE PipesInv
  OBVIOUS
<1>1. TypeOK /\ LineInv
  BY TypeInit
<1>2. /\ pc = "idle" /\ ran = 0 /\ made = 0 /\ proc = [p \in Proc |-> Gone]
      /\ fd = [n \in Fd |-> IF n <= 2 THEN Tty ELSE Closed]
  BY DEF Init
<1>3. TableKnown
  BY <1>2 DEF TableKnown, Known, Gone
<1>4. NotStartedYet
  BY <1>2 DEF NotStartedYet, Gone
<1>5. Fd \ FreeFds(fd) = {0, 1, 2} /\ 0 \in Fd /\ 1 \in Fd /\ 2 \in Fd
  <2>1. Tty # Closed
    BY ObjectsApart
  <2> QED
    BY <1>2, <2>1, BoundsAssumption DEF FreeFds, Fd
<1>6. Cardinality({0, 1, 2}) = 3
  <2>1. Cardinality({0}) = 1 /\ IsFiniteSet({0})
    BY FS_Singleton
  <2>2. Cardinality({0} \cup {1}) = 2 /\ IsFiniteSet({0} \cup {1})
    BY <2>1, FS_AddElement
  <2>3. Cardinality(({0} \cup {1}) \cup {2}) = 3
    BY <2>2, FS_AddElement
  <2>4. ({0} \cup {1}) \cup {2} = {0, 1, 2}
    OBVIOUS
  <2> QED
    BY <2>3, <2>4
<1>7. WhenAllMade
  BY <1>2, <1>5, <1>6 DEF WhenAllMade, OpenNow
<1> QED
  BY <1>1, <1>3, <1>4, <1>7 DEF PipesInv

LEMMA PipesInvariant == Spec => []PipesInv
<1> QED
  BY PipesInit, PipesStep, PTL DEF Spec

(* As long as every pipe() succeeds, setup_pipes opens four descriptors a  *)
(* line and run_process closes two of them, for two stages as for three:   *)
(* two more are open after every line, whatever the lines are.             *)
THEOREM TwoLeaked == Spec => []TwoLeakedPerPipeline
<1>1. PipesInv => TwoLeakedPerPipeline
  BY DEF PipesInv, WhenAllMade, OpenNow, TwoLeakedPerPipeline
<1> QED
  BY <1>1, PipesInvariant, PTL

(* Whatever was leaked before and however few descriptors are left, the    *)
(* numbers in pipe1 and pipe2 are right when a child uses them.            *)
THEOREM Connected == Spec => []StagesConnected
<1>1. PipesInv => StagesConnected
  <2> SUFFICES ASSUME PipesInv, AllPipesMade, pc # "idle",
                      NEW j \in 1 .. Len(line), proc[<<ran, j>>].live
               PROVE  /\ line[j].redir # "in" =>
                           proc[<<ran, j>>].in = IF j = 1 THEN Tty ELSE R(2 * ran - 3 + j)
                      /\ line[j].redir # "out" =>
                           proc[<<ran, j>>].out =
                             IF j = Len(line) THEN Tty ELSE W(2 * ran - 2 + j)
    BY DEF StagesConnected
  <2>1. StageInPlace(j)
    BY DEF PipesInv, WhenAllMade
  <2> QED
    BY <2>1 DEF StageInPlace
<1> QED
  BY <1>1, PipesInvariant, PTL

(* The stage the shell waits for can see the end of its input: every       *)
(* holder of the write end of the pipe it reads is an earlier stage of the *)
(* same line in the background.                                            *)
THEOREM EndOfFile == Spec => []EndOfFileReachable
<1>1. PipesInv => EndOfFileReachable
  <2> SUFFICES ASSUME PipesInv, AllPipesMade, pc = "wait", NEW i \in PipeId,
                      proc[<<ran, k>>].live, proc[<<ran, k>>].in = R(i)
               PROVE  /\ ~ShellHolds(W(i))
                      /\ \A p \in Holders(W(i)) :
                           p[1] = ran /\ p[2] < k /\ line[p[2]].bg
    BY DEF EndOfFileReachable
  <2>1. /\ k \in 1 .. Len(line) /\ k \in {1, 2, 3} /\ Len(line) \in {2, 3}
        /\ line \in Seq(Stage) /\ ran \in Nat /\ MaxPipelines \in Nat
    <3>1. k \in 1 .. Len(line) /\ k \in 1 .. 3 /\ Len(line) \in {2, 3}
          /\ line \in Seq(Stage) /\ ran \in Nat /\ MaxPipelines \in Nat
      BY StageType, BoundsAssumption DEF PipesInv, TypeOK
    <3> QED
      BY <3>1
  <2>2. StageInPlace(k) /\ PipesInPlace
    BY <2>1 DEF PipesInv, WhenAllMade
  <2>3. \A a : R(a) # Tty /\ R(a) # File /\ \A b : R(a) = R(b) => a = b
    BY ObjectsApart
  <2>4. k # 1 /\ i = 2 * ran - 3 + k
    BY <2>2, <2>3 DEF StageInPlace
  <2>5. \/ k = 2 /\ i = First
        \/ k = 3 /\ i = Second /\ Len(line) = 3
    <3>1. CASE k = 2
      BY <2>1, <2>4, <3>1 DEF First
    <3>2. CASE k = 3
      <4>1. Len(line) = 3
        <5>1. CASE Len(line) = 2
          BY <2>1, <3>2, <5>1
        <5> QED
          BY <2>1, <5>1
      <4> QED
        BY <2>1, <2>4, <3>2, <4>1 DEF Second
    <3> QED
      BY <2>1, <2>4, <3>1, <3>2
  <2>6. ~ShellHolds(W(i))
    <3>1. Through(1) /\ (k = 3 => Through(2))
      BY <2>5 DEF Through
    <3> QED
      BY <2>2, <2>5, <3>1 DEF PipesInPlace
  <2>7. ASSUME NEW p \in Holders(W(i)) PROVE p[1] = ran /\ p[2] < k /\ line[p[2]].bg
    <3>1. p \in Proc /\ proc[p].live /\ W(i) \in proc[p].held
      BY DEF Holders, Live
    <3>2. p[1] \in Nat /\ p[2] \in 1 .. 3 /\ p = <<p[1], p[2]>>
      BY <3>1 DEF Proc
    <3>3. PICK x \in 1 .. 2 * p[1] : W(i) \in {R(x), W(x)}
      BY <3>1 DEF PipesInv, TableKnown
    <3>4. i <= 2 * p[1]
      BY <3>2, <3>3, ObjectsApart
    <3>5. ~ToCome(p)
      BY <3>1 DEF PipesInv, NotStartedYet
    <3>6. p[1] = ran /\ p[2] <= k
      <4>1. ~(p[1] > ran) /\ ~(p[1] = ran /\ p[2] > k)
        BY <3>5 DEF ToCome
      <4>2. i > 2 * ran - 2
        BY <2>1, <2>4
      <4> QED
        BY <2>1, <2>4, <3>2, <3>4, <4>1, <4>2
    <3>7. p[2] \in 1 .. Len(line)
      BY <2>1, <3>2, <3>6
    <3>8. StageInPlace(p[2])
      BY <3>1, <3>2, <3>6, <3>7 DEF PipesInv, WhenAllMade
    <3>9. p[2] < k
      <4>1. CASE k = 2
        BY <2>5, <3>1, <3>2, <3>6, <3>8, <4>1 DEF StageInPlace
      <4>2. CASE k = 3
        BY <2>5, <3>1, <3>2, <3>6, <3>8, <4>2 DEF StageInPlace
      <4> QED
        BY <2>5, <4>1, <4>2
    <3> QED
      BY <3>6, <3>8, <3>9 DEF StageInPlace
  <2> QED
    BY <2>6, <2>7
<1> QED
  BY <1>1, PipesInvariant, PTL

=============================================================================
