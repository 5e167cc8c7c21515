------------------------------ MODULE MyShell ------------------------------
(***************************************************************************)
(* The job control of a2/myshell.c: the prompt loop of main, run_process   *)
(* (fork, record in cpids, wait), the SIGINT and SIGCHLD handlers, and the *)
(* part of the child that still runs the shell's own code (before exec).   *)
(*                                                                         *)
(* A command line is abstracted to what job control tells apart: for every *)
(* ";"-separated command, whether it contains "|" and, for every stage,    *)
(* whether it is a foreground command, ends in "&", or is a redirection    *)
(* without program or file name.  Descriptors and data are the subject of  *)
(* module ShellPipeline.                                                   *)
(***************************************************************************)
EXTENDS Integers, Sequences, FiniteSets

CONSTANTS
  Pid,          \* process identifiers the kernel can hand out
  NoPid,        \* the -1 of an unused cpids entry
  NSlot,        \* length of cpids (50)
  MaxCommands,  \* MAX_COMMANDS (20)
  Lines         \* the non-blank lines that may be typed

StageKind == {"fg", "bg", "bad"}
Command == [piped : BOOLEAN, stages : Seq(StageKind)]

ASSUME NoPidAssumption == NoPid \notin Pid
ASSUME BoundsAssumption == NSlot \in Nat \ {0} /\ MaxCommands \in Nat \ {0}
ASSUME LinesAssumption == \A l \in Lines : l \in Seq(Command)

VARIABLES
  pc,           \* where main stands; "exit" and "crash" are final
  cmds, pos,    \* the commands of the current line and the one being run
  todo,         \* stages of that command not yet forked and recorded
  child,        \* pid returned by the last fork
  status,       \* what the local "status" of run_process decodes to
  table,        \* cpids
  shellInt,     \* SIGINT pending for the shell
  chldPending,  \* SIGCHLD pending for the shell
  reaping,      \* sigchld_handler is running
  chldHoldsInt, \* the uninitialised sa_mask of sigchld_action blocks SIGINT
  proc,         \* state of every process
  bg,           \* processes started with fmt8 set
  intr,         \* processes with a pending SIGINT
  snap,         \* the copy of cpids a forked child inherited
  signalled,    \* history: children the shell's own SIGINT handler signalled
  missed        \* history: children forked but not recorded when it ran

mainVars == <<cmds, pos, todo, child, status>>
sigVars  == <<shellInt, chldPending, reaping>>
procVars == <<proc, bg, intr, snap>>
histVars == <<signalled, missed>>
vars == <<pc, mainVars, table, sigVars, chldHoldsInt, procVars, histVars>>

-----------------------------------------------------------------------------
Slot == 1 .. NSlot
NoTable == [k \in Slot |-> NoPid]
ProcState == {"free", "forked", "running", "stopped", "zombie", "clone"}
Up == pc \notin {"exit", "crash"}

Living == {p \in Pid : proc[p] \notin {"free", "zombie"}}

(* Processes a SIGINT can still do something to.                           *)
Hittable == {p \in Pid : proc[p] \in {"forked", "running", "stopped"}}

(* cpids entries whose process no longer exists: kill would return -1.     *)
Stale(t) == {k \in Slot : t[k] # NoPid /\ proc[t[k]] = "free"}

(* The pids sigint_handler signals: every entry in front of the first      *)
(* stale one, at which it gives up and calls exit(1).                      *)
Reached(t) == {t[k] : k \in {m \in Slot : /\ t[m] # NoPid
                                          /\ \A n \in Stale(t) : m < n}}

(* setup_pipes: two stages run as they are; any other number falls into    *)
(* the branch "else if (size = 3)", an assignment, which runs three        *)
(* entries of pipeline[], the first missing one being a null pointer.      *)
Stages(cmd) ==
  IF ~cmd.piped \/ Len(cmd.stages) = 2
  THEN cmd.stages
  ELSE SubSeq(cmd.stages \o <<"null", "null", "null">>, 1, 3)

(* main keeps at most MAX_COMMANDS tokens of the line.                     *)
FirstCommands(line) ==
  SubSeq(line, 1, IF Len(line) <= MaxCommands THEN Len(line) ELSE MaxCommands)

(* freeslot(): the first entry of cpids that is -1, or -1 when none is.    *)
Free(t) == {k \in Slot : t[k] = NoPid}

Mut_LastFree(t) ==
  IF Free(t) = {} THEN -1 ELSE CHOOSE k \in Free(t) : \A n \in Free(t) : n <= k

FreeSlot(t) ==
  IF Free(t) = {} THEN -1 ELSE CHOOSE k \in Free(t) : \A n \in Free(t) : k <= n

(* The exit condition of the do-while around waitpid: exited or killed.    *)
Mut_StoppedFinishes(s) == s \in {"done", "undone"}
Finished(s) == s = "done"

-----------------------------------------------------------------------------
Init ==
  /\ pc = "setup"
  /\ cmds = <<>> /\ pos = 1 /\ todo = <<>>
  /\ child = NoPid /\ status = "done"
  /\ table = NoTable
  /\ shellInt = FALSE /\ chldPending = FALSE /\ reaping = FALSE
  /\ chldHoldsInt \in BOOLEAN
  /\ proc = [p \in Pid |-> "free"]
  /\ bg = {} /\ intr = {}
  /\ snap = [p \in Pid |-> NoTable]
  /\ signalled = {} /\ missed = {}

(* A statement of main: it runs only while no handler does.                *)
Main(from, to) ==
  /\ ~reaping /\ pc = from /\ pc' = to
  /\ UNCHANGED <<sigVars, chldHoldsInt>>

Goto(from, to) ==
  Main(from, to) /\ UNCHANGED <<mainVars, table, procVars, histVars>>

(* A statement that assigns local variables of main or run_process.        *)
Local(from, to) == Main(from, to) /\ UNCHANGED <<table, procVars, histVars>>

SetJump == Goto("setup", "top")

(* The head of the prompt loop: cpids is cleared before every getline.     *)
Clears(value) ==
  /\ Main("top", "read")
  /\ table' = [k \in Slot |-> value]
  /\ UNCHANGED <<mainVars, procVars, histVars>>

Mut_PromptKeepsTable == Goto("top", "read")
Prompt == Clears(NoPid)

ReadEOF == Goto("read", "exit")
ReadBlank == Goto("read", "top")

ReadLine(line) ==
  /\ Local("read", "next")
  /\ cmds' = FirstCommands(line) /\ pos' = 1
  /\ UNCHANGED <<todo, child, status>>

NextCommand ==
  /\ Local("next", "stage")
  /\ pos <= Len(cmds)
  /\ todo' = Stages(cmds[pos])
  /\ UNCHANGED <<cmds, pos, child, status>>

EndLine ==
  /\ Local("next", "top")
  /\ pos > Len(cmds)
  /\ cmds' = <<>> /\ pos' = 1
  /\ UNCHANGED <<todo, child, status>>

EndCommand ==
  /\ Local("stage", "next")
  /\ todo = <<>>
  /\ pos' = pos + 1
  /\ UNCHANGED <<cmds, todo, child, status>>

StageIs(kinds) == todo # <<>> /\ Head(todo) \in kinds

(* run_command: a redirection without program or file name ends the shell. *)
BadStage == StageIs({"bad"}) /\ Goto("stage", "exit")

(* run_command(NULL): strstr dereferences the null pointer.                *)
NullStage == StageIs({"null"}) /\ Goto("stage", "crash")

Fork(p) ==
  /\ Main("stage", "record")
  /\ StageIs({"fg", "bg"})
  /\ proc[p] = "free"
  /\ proc' = [proc EXCEPT ![p] = "forked"]
  /\ bg' = IF Head(todo) = "bg" THEN bg \cup {p} ELSE bg
  /\ snap' = [snap EXCEPT ![p] = table]
  /\ child' = p
  /\ status' \in {"done", "undone"}      \* "int status;" is not initialised
  /\ UNCHANGED <<cmds, pos, todo, table, intr, histVars>>

ForkFails == StageIs({"fg", "bg"}) /\ Goto("stage", "exit")

(* run_process returns; its locals are gone.                               *)
Returns == child' = NoPid /\ status' = "done"

(* cpids[freeslot()] = pid; a background child is not waited for.          *)
Record ==
  /\ Main("record", IF Head(todo) = "bg" THEN "stage" ELSE "wait")
  /\ FreeSlot(table) # -1
  /\ IF Head(todo) = "bg" THEN Returns ELSE UNCHANGED <<child, status>>
  /\ table' = [table EXCEPT ![FreeSlot(table)] = child]
  /\ todo' = Tail(todo)
  /\ UNCHANGED <<cmds, pos, procVars, histVars>>

Mut_NoSlotRetried == FreeSlot(table) = -1 /\ Goto("record", "record")
NoSlot == FreeSlot(table) = -1 /\ Goto("record", "exit")

(* waitpid(pid, &status, WUNTRACED) collects the dead child ...            *)
WaitReap ==
  /\ Main("wait", "stage")
  /\ proc[child] = "zombie"
  /\ proc' = [proc EXCEPT ![child] = "free"]
  /\ Returns
  /\ UNCHANGED <<cmds, pos, todo, table, bg, intr, snap, histVars>>

(* ... or reports a stopped one, which does not end the loop ...           *)
WaitStopped ==
  /\ Local("wait", IF Finished("undone") THEN "stage" ELSE "wait")
  /\ proc[child] = "stopped"
  /\ status' = "undone"
  /\ UNCHANGED <<cmds, pos, todo, child>>

(* ... or fails with ECHILD when sigchld_handler was first, in which case  *)
(* status keeps its old or indeterminate value and decides alone.          *)
WaitGone ==
  /\ Local("wait", "stage")
  /\ proc[child] = "free" /\ Finished(status)
  /\ Returns
  /\ UNCHANGED <<cmds, pos, todo>>

-----------------------------------------------------------------------------
(* sigchld_handler: "while( waitpid(-1, &status, WNOHANG) > 0 )".          *)
Handler ==
  Up /\ UNCHANGED <<pc, mainVars, table, shellInt, chldHoldsInt, histVars>>

ChldEnter ==
  /\ Handler /\ chldPending /\ ~reaping
  /\ chldPending' = FALSE /\ reaping' = TRUE
  /\ UNCHANGED procVars

ChldReap(p) ==
  /\ Handler /\ reaping
  /\ proc[p] = "zombie"
  /\ proc' = [proc EXCEPT ![p] = "free"]
  /\ UNCHANGED <<chldPending, reaping, bg, intr, snap>>

Leaves ==
  /\ Handler /\ reaping
  /\ reaping' = FALSE
  /\ UNCHANGED <<chldPending, procVars>>

Mut_ReapOnlyOne == Leaves
ChldReturn == Leaves /\ \A p \in Pid : proc[p] # "zombie"

(* SIGINT is delivered at any point of main once the handler is installed, *)
(* and inside sigchld_handler unless that handler's mask holds it back.    *)
IntDelivered ==
  /\ Up /\ shellInt /\ ~(reaping /\ chldHoldsInt)
  /\ shellInt' = FALSE
  /\ UNCHANGED <<chldPending, chldHoldsInt, proc, bg, snap>>

(* Before sigsetjmp: siglongjmp on a buffer that was never filled.         *)
IntBeforeSetJump ==
  /\ IntDelivered /\ pc = "setup"
  /\ pc' = "crash"
  /\ UNCHANGED <<mainVars, table, reaping, intr, histVars>>

(* The loop over cpids: every entry up to the first stale one is signalled.*)
SignalsTable ==
  /\ IntDelivered /\ pc # "setup"
  /\ intr' = intr \cup (Reached(table) \cap Hittable)
  /\ signalled' = signalled \cup (Reached(table) \cap Living)

(* siglongjmp to the prompt, abandoning whatever main or sigchld_handler   *)
(* was doing.                                                              *)
IntToPrompt ==
  /\ SignalsTable /\ Stale(table) = {}
  /\ missed' = IF pc = "record" THEN missed \cup ({child} \cap Living) ELSE missed
  /\ table' = NoTable
  /\ reaping' = FALSE
  /\ pc' = "top" /\ cmds' = <<>> /\ pos' = 1 /\ todo' = <<>>
  /\ Returns

(* One recorded child has been reaped already: kill fails with ESRCH and   *)
(* the handler ends the shell.                                             *)
IntKillFails ==
  /\ SignalsTable /\ Stale(table) # {}
  /\ pc' = "exit"
  /\ UNCHANGED <<mainVars, table, reaping, missed>>

-----------------------------------------------------------------------------
(* The children.  SA_NOCLDSTOP: only a death raises SIGCHLD.  What is kept *)
(* about a living process is dropped with it.                              *)
ChildIn(p, states) ==
  /\ Up /\ proc[p] \in states
  /\ UNCHANGED <<pc, mainVars, table, shellInt, reaping, chldHoldsInt>>

Becomes(p, state) ==
  /\ proc' = [proc EXCEPT ![p] = state]
  /\ UNCHANGED <<chldPending, bg, histVars>>

(* Death, after signalling the processes in "hit".                         *)
Dies(p, hit) ==
  /\ proc' = [proc EXCEPT ![p] = "zombie"]
  /\ snap' = [snap EXCEPT ![p] = NoTable]
  /\ bg' = bg \ {p} /\ intr' = (intr \cup hit) \ {p}
  /\ signalled' = signalled \ {p} /\ missed' = missed \ {p}
  /\ chldPending' = TRUE

Exec(p) ==
  /\ ChildIn(p, {"forked"}) /\ Becomes(p, "running")
  /\ snap' = [snap EXCEPT ![p] = NoTable]
  /\ UNCHANGED intr

ExecFails(p) == ChildIn(p, {"forked"}) /\ Dies(p, {})
Exit(p) == ChildIn(p, {"running", "stopped", "clone"}) /\ Dies(p, {})

Moves(p, from, to) ==
  ChildIn(p, {from}) /\ Becomes(p, to) /\ UNCHANGED <<intr, snap>>

Stop(p) == Moves(p, "running", "stopped")
Continue(p) == Moves(p, "stopped", "running")

(* An executed program dies of SIGINT or handles it.                       *)
IntKills(p) == p \in intr /\ ChildIn(p, {"running"}) /\ Dies(p, {})

IntSurvived(p) ==
  /\ p \in intr /\ ChildIn(p, {"running"}) /\ Becomes(p, "running")
  /\ intr' = intr \ {p}
  /\ UNCHANGED snap

(* A child that has not executed its program yet still has the shell's     *)
(* handler: it signals the siblings in its copy of cpids and jumps to the  *)
(* prompt, a second shell on the same terminal ("clone", opaque from here  *)
(* on), unless a sibling is gone and its own kill fails.                   *)
IntClones(p) ==
  /\ p \in intr /\ ChildIn(p, {"forked"}) /\ Stale(snap[p]) = {}
  /\ Becomes(p, "clone")
  /\ intr' = (intr \cup (Reached(snap[p]) \cap Hittable)) \ {p}
  /\ snap' = [snap EXCEPT ![p] = NoTable]

IntChildKillFails(p) ==
  /\ p \in intr /\ ChildIn(p, {"forked"}) /\ Stale(snap[p]) # {}
  /\ Dies(p, Reached(snap[p]) \cap Hittable)

-----------------------------------------------------------------------------
(* The terminal sends SIGINT to the whole foreground process group, kill   *)
(* from another terminal to the shell alone.                               *)
Interrupt(hit) ==
  /\ Up /\ shellInt' = TRUE
  /\ intr' = intr \cup hit
  /\ UNCHANGED <<pc, mainVars, table, chldPending, reaping, chldHoldsInt, proc,
                 bg, snap, histVars>>

KeyboardInterrupt == Interrupt(Hittable)
DirectInterrupt == Interrupt({})

-----------------------------------------------------------------------------
MainStep ==
  \/ SetJump \/ Prompt \/ NextCommand \/ EndLine \/ EndCommand
  \/ BadStage \/ NullStage \/ ForkFails \/ (\E p \in Pid : Fork(p))
  \/ Record \/ NoSlot
  \/ WaitReap \/ WaitStopped \/ WaitGone

Input == ReadEOF \/ ReadBlank \/ (\E line \in Lines : ReadLine(line))

SigChld == ChldEnter \/ ChldReturn \/ (\E p \in Pid : ChldReap(p))

SigInt == IntBeforeSetJump \/ IntToPrompt \/ IntKillFails

Child(p) ==
  \/ Exec(p) \/ ExecFails(p) \/ Exit(p) \/ Stop(p) \/ Continue(p)
  \/ IntKills(p) \/ IntSurvived(p) \/ IntClones(p) \/ IntChildKillFails(p)

Next ==
  \/ MainStep \/ Input \/ SigChld \/ SigInt
  \/ \E p \in Pid : Child(p)
  \/ KeyboardInterrupt \/ DirectInterrupt

Spec == Init /\ [][Next]_vars

(* The kernel schedules the shell and delivers what is pending; a child    *)
(* reaches its exec, and every program ends some day (the environment's    *)
(* part: a program that never ends keeps the shell waiting for good).      *)
Fairness ==
  /\ WF_vars(MainStep) /\ WF_vars(SigChld) /\ WF_vars(SigInt)
  /\ \A p \in Pid : WF_vars(Exec(p) \/ ExecFails(p)) /\ WF_vars(Exit(p))

FairSpec == Spec /\ Fairness

-----------------------------------------------------------------------------
(* Types of the state; "null" is the missing stage of a malformed pipeline.*)
TypeOK ==
  /\ pc \in {"setup", "top", "read", "next", "stage", "record", "wait",
             "exit", "crash"}
  /\ cmds \in Seq(Command)
  /\ pos \in Nat \ {0}
  /\ todo \in Seq(StageKind \cup {"null"})
  /\ pc = "record" => todo # <<>>
  /\ child \in Pid \cup {NoPid}
  /\ status \in {"done", "undone"}
  /\ table \in [Slot -> Pid \cup {NoPid}]
  /\ shellInt \in BOOLEAN /\ chldPending \in BOOLEAN /\ reaping \in BOOLEAN
  /\ chldHoldsInt \in BOOLEAN
  /\ proc \in [Pid -> ProcState]
  /\ bg \subseteq Pid /\ intr \subseteq Pid
  /\ snap \in [Pid -> [Slot -> Pid \cup {NoPid}]]
  /\ signalled \subseteq Pid /\ missed \subseteq Pid

(* A dead child is never forgotten: as long as one is uncollected, either  *)
(* SIGCHLD is pending or sigchld_handler is still in its loop.  SIGCHLD is *)
(* not queued, so this is what the loop over waitpid in the handler is for.*)
ZombieCovered ==
  \A p \in Pid : proc[p] = "zombie" => chldPending \/ reaping

(* The same, for the builds in which SIGINT cannot break into the handler: *)
(* the mask of sigchld_action is whatever was on the stack.                *)
ZombieCoveredIfHeld == Up /\ chldHoldsInt => ZombieCovered

(* Foreground discipline of run_process: a living child that was not       *)
(* started with "&" is the one being waited for, or one the user's         *)
(* interrupt abandoned; and an abandoned one was signalled, unless the     *)
(* interrupt fell between fork and the assignment to cpids.                *)
ForegroundOwned ==
  Up => \A p \in Pid :
          p \in Living /\ p \notin bg
            => \/ pc \in {"record", "wait"} /\ child = p
               \/ p \in signalled \cup missed

(* The children of this line that have been recorded, as command/stage     *)
(* positions derived from main's program counter alone.                    *)
RecordedOf(c) ==
  IF c < pos THEN 1 .. Len(Stages(cmds[c]))
  ELSE IF c = pos /\ pc \in {"stage", "record", "wait"}
  THEN 1 .. (Len(Stages(cmds[c])) - Len(todo))
  ELSE {}

Recorded == UNION {{c} \X RecordedOf(c) : c \in 1 .. Len(cmds)}

(* Slots are used in the order of the stages and never given back while a  *)
(* line runs: cpids holds one entry per stage started since the prompt, so *)
(* a line runs out of slots exactly when it starts more than NSlot stages. *)
TableAccounts ==
  Up /\ pc # "setup" /\ pc # "top" =>
    {k \in Slot : table[k] # NoPid} = 1 .. Cardinality(Recorded)

(* An interrupt at the idle prompt leads back to the prompt: the shell     *)
(* survives it and signals nobody, whatever ran on earlier lines.          *)
IdleInterruptHarmless ==
  [][pc = "read" /\ shellInt /\ ~shellInt'
       => pc' = "top" /\ signalled' = signalled]_vars

(* The do-while of run_process cannot leave: waitpid fails with ECHILD and *)
(* the indeterminate or stale status says "not finished".                  *)
Spinning == pc = "wait" /\ proc[child] = "free" /\ ~Finished(status)

(* A line that was accepted is finished: the shell comes back to the       *)
(* prompt or ends, and the only thing that can keep it is the spin above.  *)
LineFinishes ==
  pc \in {"next", "stage", "record", "wait"}
    ~> (pc \in {"top", "exit", "crash"} \/ Spinning)

(* Every dead child is collected in the end while the shell lives, where   *)
(* SIGINT cannot break into sigchld_handler.                               *)
ZombiesCollected ==
  \A p \in Pid :
    (chldHoldsInt /\ proc[p] = "zombie") ~> (proc[p] # "zombie" \/ ~Up)

-----------------------------------------------------------------------------
(* What the source says of itself, and does not do.                        *)

(* myshell.c:208, "error: need 2 or 3 commands to pipe": another number of *)
(* stages starts no process.                                               *)
PipeSizeRefused ==
  pc = "record" /\ cmds[pos].piped => Len(cmds[pos].stages) \in {2, 3}
=============================================================================
