--------------------------- MODULE ShellPipeline ---------------------------
(***************************************************************************)
(* The descriptors and the data of myshell's pipelines: setup_pipes and    *)
(* the part of run_process that wires a child and closes the shell's own   *)
(* ends (a2/myshell.c).  Every command line here is one pipeline of two or *)
(* three stages; interrupts, stops and the job table are module MyShell's. *)
(*                                                                         *)
(* The shell keeps descriptor NUMBERS in the globals pipe1 and pipe2 and   *)
(* ignores the result of pipe(), so what a number denotes when a child is  *)
(* wired depends on everything the shell opened, leaked and closed before. *)
(* Data are counted in units; a stage emits a number of units of its own   *)
(* and passes on every unit it reads.                                      *)
(***************************************************************************)
EXTENDS Integers, Sequences, FiniteSets

CONSTANTS
  Cap,           \* units a pipe holds before write() blocks
  MaxFd,         \* descriptors a process may have open (RLIMIT_NOFILE)
  MaxPipelines,  \* bound on the pipelines of one session
  Pipelines      \* the pipelines that may be typed

Stage == [reads : {"none", "one", "all"}, emits : Nat, bg : BOOLEAN,
          redir : {"no", "in", "out"}]

ASSUME BoundsAssumption ==
  Cap \in Nat \ {0} /\ MaxFd \in Nat /\ MaxFd >= 7 /\ MaxPipelines \in Nat
ASSUME PipelinesAssumption ==
  \A line \in Pipelines : line \in Seq(Stage) /\ Len(line) \in {2, 3}

VARIABLES
  pc,           \* where the shell stands: "idle", "fork", "close", "wait"
  line, k,      \* the pipeline being run and its current stage
  fd,           \* the shell's descriptor table
  pipe1, pipe2, \* the globals: two descriptor numbers each
  made, ran,    \* pipes created and pipelines started so far
  buf,          \* units in every pipe
  proc          \* the stages of all pipelines, as processes

vars == <<pc, line, k, fd, pipe1, pipe2, made, ran, buf, proc>>

-----------------------------------------------------------------------------
Fd == 0 .. MaxFd - 1
PipeId == 1 .. 2 * MaxPipelines
Proc == (1 .. MaxPipelines) \X (1 .. 3)

Tty == <<"tty", 0>>
File == <<"file", 0>>
Closed == <<"closed", 0>>
R(i) == <<"r", i>>
W(i) == <<"w", i>>
Object ==
  {Tty, File, Closed} \cup {R(i) : i \in PipeId} \cup {W(i) : i \in PipeId}

(* close, dup2, open and pipe on a descriptor table; open and pipe take    *)
(* the lowest free numbers, and a failing call changes nothing.            *)
Close(t, n) == [t EXCEPT ![n] = Closed]
Dup2(t, from, to) == IF t[from] = Closed THEN t ELSE [t EXCEPT ![to] = t[from]]

FreeFds(t) == {n \in Fd : t[n] = Closed}
LowestIn(S) == CHOOSE n \in S : \A m \in S : n <= m

OpenTo(t, to) ==
  IF FreeFds(t) = {} THEN t
  ELSE Dup2([t EXCEPT ![LowestIn(FreeFds(t))] = File], LowestIn(FreeFds(t)), to)

(* pipe(ends): the new table, the numbers stored and the pipes created;    *)
(* when it fails with EMFILE the old numbers stay in "ends".               *)
Mut_PipeFailsAsMinusOne(t, ends, n) ==
  LET r == LowestIn(FreeFds(t))
      w == LowestIn(FreeFds(t) \ {r})
  IN IF Cardinality(FreeFds(t)) >= 2
     THEN [table |-> [t EXCEPT ![r] = R(n + 1), ![w] = W(n + 1)],
           ends |-> [r |-> r, w |-> w], made |-> n + 1]
     ELSE [table |-> t, ends |-> [r |-> -1, w |-> -1], made |-> n]

Pipe(t, ends, n) ==
  LET r == LowestIn(FreeFds(t))
      w == LowestIn(FreeFds(t) \ {r})
  IN IF Cardinality(FreeFds(t)) >= 2
     THEN [table |-> [t EXCEPT ![r] = R(n + 1), ![w] = W(n + 1)],
           ends |-> [r |-> r, w |-> w], made |-> n + 1]
     ELSE [table |-> t, ends |-> ends, made |-> n]

(* The pord flags setup_pipes sets for stage j of a pipeline of a length.  *)
Role(len, j) ==
  CASE j = 1 -> "pord1"
    [] j = 2 -> IF len = 2 THEN "pord2" ELSE "pord2c"
    [] j = 3 -> "pord3"

(* The child between fork and exec: pipe ends to 0 and 1, then closes.     *)
Mut_WireFirstPipe(t, role) ==
  CASE role = "pord1" -> Close(Dup2(t, pipe1.w, 1), pipe1.r)
    [] role = "pord2" -> Close(Dup2(t, pipe1.r, 0), pipe1.w)
    [] role = "pord2c" -> Close(Close(Dup2(Dup2(t, pipe1.r, 0), pipe2.w, 1),
                                      pipe1.w), pipe2.r)
    [] role = "pord3" -> Close(Dup2(t, pipe1.r, 0), pipe2.w)

Wire(t, role) ==
  CASE role = "pord1" -> Close(Dup2(t, pipe1.w, 1), pipe1.r)
    [] role = "pord2" -> Close(Dup2(t, pipe1.r, 0), pipe1.w)
    [] role = "pord2c" -> Close(Close(Dup2(Dup2(t, pipe1.r, 0), pipe2.w, 1),
                                      pipe1.w), pipe2.r)
    [] role = "pord3" -> Close(Close(Close(Dup2(t, pipe2.r, 0), pipe1.r),
                                     pipe1.w), pipe2.w)

(* A redirection is opened after the pipe ends are in place and wins.      *)
Redirect(t, stage) ==
  CASE stage.redir = "no" -> t
    [] stage.redir = "in" -> OpenTo(t, 0)
    [] stage.redir = "out" -> OpenTo(t, 1)

(* The shell's own end that is closed after a stage was forked.            *)
Mut_KeepsFirstWriteEnd(t, role) ==
  CASE role = "pord2" -> Close(t, pipe1.r)
    [] role = "pord2c" -> Close(t, pipe2.w)
    [] OTHER -> t

Mut_KeepsSecondWriteEnd(t, role) ==
  CASE role = "pord1" -> Close(t, pipe1.w)
    [] role = "pord2" -> Close(t, pipe1.r)
    [] OTHER -> t

ParentCloses(t, role) ==
  CASE role = "pord1" -> Close(t, pipe1.w)
    [] role = "pord2" -> Close(t, pipe1.r)
    [] role = "pord2c" -> Close(t, pipe2.w)
    [] OTHER -> t

-----------------------------------------------------------------------------
Gone == [live |-> FALSE, in |-> Closed, out |-> Closed, held |-> {},
         reads |-> "none", want |-> 0]

Live == {p \in Proc : proc[p].live}
ShellHolds(obj) == \E n \in Fd : fd[n] = obj
Holders(obj) == {p \in Live : obj \in proc[p].held}
Held(obj) == ShellHolds(obj) \/ Holders(obj) # {}

Init ==
  /\ pc = "idle" /\ line = <<>> /\ k = 1
  /\ fd = [n \in Fd |-> IF n <= 2 THEN Tty ELSE Closed]
  /\ pipe1 = [r |-> 0, w |-> 0] /\ pipe2 = [r |-> 0, w |-> 0]
  /\ made = 0 /\ ran = 0
  /\ buf = [i \in PipeId |-> 0]
  /\ proc = [p \in Proc |-> Gone]

(* The head of setup_pipes; neither result is looked at.                   *)
OpenPipes(l) ==
  LET a == Pipe(fd, pipe1, made)
      b == Pipe(a.table, pipe2, a.made)
  IN /\ pc = "idle" /\ ran < MaxPipelines
     /\ pc' = "fork" /\ line' = l /\ k' = 1
     /\ fd' = b.table /\ pipe1' = a.ends /\ pipe2' = b.ends /\ made' = b.made
     /\ ran' = ran + 1
     /\ UNCHANGED <<buf, proc>>

ForkStage ==
  LET role == Role(Len(line), k)
      t == Redirect(Wire(fd, role), line[k])
  IN /\ pc = "fork" /\ pc' = "close"
     /\ proc' = [proc EXCEPT ![<<ran, k>>] =
                   [live |-> TRUE, in |-> t[0], out |-> t[1],
                    held |-> {t[n] : n \in Fd} \ {Tty, File, Closed},
                    reads |-> line[k].reads, want |-> line[k].emits]]
     /\ UNCHANGED <<line, k, fd, pipe1, pipe2, made, ran, buf>>

NextStage ==
  IF k < Len(line) THEN pc' = "fork" /\ k' = k + 1 /\ line' = line
  ELSE pc' = "idle" /\ k' = 1 /\ line' = <<>>

CloseEnds ==
  /\ pc = "close"
  /\ fd' = ParentCloses(fd, Role(Len(line), k))
  /\ IF line[k].bg THEN NextStage ELSE pc' = "wait" /\ UNCHANGED <<line, k>>
  /\ UNCHANGED <<pipe1, pipe2, made, ran, buf, proc>>

(* waitpid of the foreground stage returns before the next one is forked.  *)
Wait ==
  /\ pc = "wait" /\ ~proc[<<ran, k>>].live
  /\ NextStage
  /\ UNCHANGED <<fd, pipe1, pipe2, made, ran, buf, proc>>

-----------------------------------------------------------------------------
(* The programs: they write what they have before they read on, and end    *)
(* when nothing is left to do.  A program passes on every unit it reads.   *)
Program(p) ==
  p \in Live /\ UNCHANGED <<pc, line, k, fd, pipe1, pipe2, made, ran>>

Writes(p) == Program(p) /\ proc[p].want > 0
Wrote(p) == proc' = [proc EXCEPT ![p].want = @ - 1]

WriteOut(p) ==
  /\ Writes(p) /\ proc[p].out \in {Tty, File}
  /\ Wrote(p) /\ UNCHANGED buf

WritePipe(p, i) ==
  /\ Writes(p) /\ proc[p].out = W(i)
  /\ Held(R(i)) /\ buf[i] < Cap
  /\ Wrote(p) /\ buf' = [buf EXCEPT ![i] = @ + 1]

(* SIGPIPE, or EBADF on a descriptor that is no output.                    *)
WriteFails(p) ==
  /\ Writes(p) /\ proc[p].out \notin {Tty, File}
  /\ \A i \in PipeId : proc[p].out = W(i) => ~Held(R(i))
  /\ proc' = [proc EXCEPT ![p] = Gone] /\ UNCHANGED buf

Reads(p) == Program(p) /\ proc[p].want = 0 /\ proc[p].reads # "none"

ReadPipe(p, i) ==
  /\ Reads(p) /\ proc[p].in = R(i) /\ buf[i] > 0
  /\ proc' = [proc EXCEPT ![p].want = 1,
                          ![p].reads = IF @ = "one" THEN "none" ELSE @]
  /\ buf' = [buf EXCEPT ![i] = @ - 1]

(* End of file: no data and nobody left who could write any.  What comes   *)
(* from the terminal or a file always ends.                                *)
ReadEnds(p) ==
  /\ Reads(p)
  /\ \A i \in PipeId : proc[p].in = R(i) => buf[i] = 0 /\ ~Held(W(i))
  /\ proc' = [proc EXCEPT ![p].reads = "none"] /\ UNCHANGED buf

Ends(p) ==
  /\ Program(p) /\ proc[p].want = 0 /\ proc[p].reads = "none"
  /\ proc' = [proc EXCEPT ![p] = Gone] /\ UNCHANGED buf

Runs(p) ==
  \/ WriteOut(p) \/ WriteFails(p) \/ ReadEnds(p) \/ Ends(p)
  \/ \E i \in PipeId : WritePipe(p, i) \/ ReadPipe(p, i)

Shell == ForkStage \/ CloseEnds \/ Wait

Next ==
  \/ \E l \in Pipelines : OpenPipes(l)
  \/ Shell
  \/ \E p \in Proc : Runs(p)

Spec == Init /\ [][Next]_vars

(* The kernel runs the shell and every program that can run.               *)
Fairness == WF_vars(Shell) /\ \A p \in Proc : WF_vars(Runs(p))
FairSpec == Spec /\ Fairness

-----------------------------------------------------------------------------
TypeOK ==
  /\ pc \in {"idle", "fork", "close", "wait"}
  /\ line \in Seq(Stage) /\ k \in 1 .. 3
  /\ fd \in [Fd -> Object]
  /\ pipe1 \in [r : Fd, w : Fd] /\ pipe2 \in [r : Fd, w : Fd]
  /\ made \in 0 .. 2 * ran /\ ran \in 0 .. MaxPipelines
  /\ buf \in [PipeId -> 0 .. Cap]
  /\ proc \in [Proc -> [live : BOOLEAN, in : Object, out : Object,
                        held : SUBSET Object, reads : {"none", "one", "all"},
                        want : Nat]]

(* Every pipe() of the session has succeeded so far.                       *)
AllPipesMade == made = 2 * ran

(* Between two pipelines the shell has its three standard descriptors open *)
(* and two more for every pipeline it ever ran: setup_pipes opens four and *)
(* run_process closes two, whatever the number of stages.                  *)
TwoLeakedPerPipeline ==
  pc = "idle" /\ AllPipesMade => Cardinality(Fd \ FreeFds(fd)) = 3 + 2 * ran

(* The numbers in pipe1 and pipe2 are right when a child uses them, even   *)
(* with the leaks of earlier pipelines around: a stage writes to the pipe  *)
(* the next one reads, the first reads and the last writes the terminal.   *)
StagesConnected ==
  AllPipesMade /\ pc # "idle" =>
    \A j \in 1 .. Len(line) :
      LET s == proc[<<ran, j>>]
      IN s.live =>
           /\ line[j].redir # "in" =>
                s.in = IF j = 1 THEN Tty ELSE R(2 * ran - 3 + j)
           /\ line[j].redir # "out" =>
                s.out = IF j = Len(line) THEN Tty ELSE W(2 * ran - 2 + j)

(* End of file can reach the stage that is waited for: the write end of    *)
(* the pipe it reads is held neither by the shell nor by the stage itself, *)
(* only by earlier stages in the background.                               *)
EndOfFileReachable ==
  AllPipesMade /\ pc = "wait" =>
    \A i \in PipeId :
      proc[<<ran, k>>].live /\ proc[<<ran, k>>].in = R(i)
        => /\ ~ShellHolds(W(i))
           /\ \A p \in Holders(W(i)) :
                p[1] = ran /\ p[2] < k /\ line[p[2]].bg

(* A writer that can neither go on nor be killed by SIGPIPE: the pipe is   *)
(* full, nobody reads it, and the shell's own read end keeps it open.      *)
StuckBehindShell(p) ==
  /\ p \in Live /\ proc[p].want > 0
  /\ \E i \in PipeId : /\ proc[p].out = W(i) /\ buf[i] = Cap /\ ShellHolds(R(i))
                       /\ \A q \in Live : proc[q].in # R(i)

(* The one way to hang: a stage of the line stuck behind the shell's read  *)
(* end, either the stage the shell waits for or a background stage that    *)
(* keeps the end of file from the stage the shell waits for.               *)
LineEndsOrSticks ==
  pc # "idle" ~> (pc = "idle" \/ \E j \in 1 .. 3 : StuckBehindShell(<<ran, j>>))

(* A line ends if everything its stages but the last emit fits one pipe,   *)
(* although the shell waits for every stage before it starts the next, and *)
(* even when a pipe() has failed and stale numbers are used in its place.  *)
Emitted(l) == l[1].emits + IF Len(l) = 3 THEN l[2].emits ELSE 0

SmallLineEnds ==
  (pc = "fork" /\ k = 1 /\ Emitted(line) <= Cap) ~> pc = "idle"
=============================================================================
