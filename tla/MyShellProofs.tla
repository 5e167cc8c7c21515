--------------------------- MODULE MyShellProofs ---------------------------
(***************************************************************************)
(* Proofs about the job control of myshell, for any number of processes,   *)
(* slots, commands and any set of lines: type correctness, the collection  *)
(* of dead children, the foreground discipline of run_process and the      *)
(* harmlessness of an interrupt at the idle prompt.                        *)
(***************************************************************************)
EXTENDS MyShell, SequenceTheorems, FiniteSetTheorems, WellFoundedInduction,
        TLAPS

(* A command typed by the user yields well-typed stages, missing ones      *)
(* included (setup_pipes).                                                 *)
LEMMA StagesType ==
  ASSUME NEW cmd \in Command
  PROVE  Stages(cmd) \in Seq(StageKind \cup {"null"})
<1> DEFINE T == StageKind \cup {"null"}
<1>1. cmd.stages \in Seq(T)
  <2>1. cmd.stages \in Seq(StageKind)
    BY DEF Command
  <2> QED
    BY <2>1, SeqMonotonic
<1>2. <<"null", "null", "null">> \in Seq(T)
  OBVIOUS
<1>3. /\ cmd.stages \o <<"null", "null", "null">> \in Seq(T)
      /\ Len(cmd.stages \o <<"null", "null", "null">>) = Len(cmd.stages) + 3
  BY <1>1, <1>2, ConcatProperties
<1>4. SubSeq(cmd.stages \o <<"null", "null", "null">>, 1, 3) \in Seq(T)
  <2> DEFINE s == cmd.stages \o <<"null", "null", "null">>
  <2>1. Len(cmd.stages) \in Nat
    BY <1>1, LenProperties
  <2>2. \A i \in 1 .. 3 : s[i] \in T
    BY <1>3, <2>1, ElementOfSeq
  <2> QED
    BY <2>2, SubSeqProperties
<1> QED
  BY <1>1, <1>4 DEF Stages

(* main keeps a well-typed prefix of the line.                             *)
LEMMA FirstCommandsType ==
  ASSUME NEW line \in Lines
  PROVE  FirstCommands(line) \in Seq(Command)
<1>1. line \in Seq(Command) /\ Len(line) \in Nat
  BY LinesAssumption, LenProperties
<1> DEFINE n == IF Len(line) <= MaxCommands THEN Len(line) ELSE MaxCommands
<1>2. n \in Nat /\ n <= Len(line)
  BY <1>1, BoundsAssumption
<1>3. \A i \in 1 .. n : line[i] \in Command
  BY <1>1, <1>2, ElementOfSeq
<1> HIDE DEF n
<1>4. SubSeq(line, 1, n) \in Seq(Command)
  BY <1>2, <1>3, SubSeqProperties
<1> QED
  BY <1>4 DEF FirstCommands, n

(* freeslot returns -1 exactly when no entry of cpids is -1, and otherwise *)
(* a free entry with no free entry in front of it.                         *)
LEMMA FreeSlotIsFirst ==
  ASSUME NEW t \in [Slot -> Pid \cup {NoPid}]
  PROVE  \/ FreeSlot(t) = -1 /\ \A k \in Slot : t[k] # NoPid
         \/ /\ FreeSlot(t) \in Slot /\ t[FreeSlot(t)] = NoPid
            /\ \A n \in Slot : t[n] = NoPid => FreeSlot(t) <= n
<1> DEFINE F == Free(t)
<1>1. CASE F = {}
  BY <1>1 DEF FreeSlot, Free
<1>2. CASE F # {}
  <2>1. F \subseteq Nat /\ F \subseteq Slot
    BY BoundsAssumption DEF Slot, Free
  <2> HIDE DEF F
  <2> DEFINE R == {ss \in Nat \X Nat : ss[1] < ss[2]}
  <2>a. IsWellFoundedOn(R, Nat)
    BY NatLessThanWellFounded, Zenon DEF OpToRel
  <2>2. PICK k \in F : \A n \in F : <<n, k>> \notin R
    <3> HIDE DEF R
    <3> QED
      BY <1>2, <2>1, <2>a, WFMin
  <2>3. ASSUME NEW n \in F PROVE k <= n
    <3>1. n \in Nat /\ k \in Nat
      BY <2>1
    <3>2. ~(n < k)
      BY <2>2, <3>1
    <3> QED
      BY <3>1, <3>2
  <2>4. FreeSlot(t) = CHOOSE m \in F : \A n \in F : m <= n
    BY <1>2 DEF FreeSlot, F
  <2>5. FreeSlot(t) \in F /\ \A n \in F : FreeSlot(t) <= n
    BY <2>3, <2>4
  <2> QED
    BY <2>5 DEF F, Free
<1> QED
  BY <1>1, <1>2

-----------------------------------------------------------------------------
(* The state stays well typed under every step of main ...                 *)
LEMMA MainStepType ==
  TypeOK /\ MainStep => TypeOK'
<1> SUFFICES ASSUME TypeOK, MainStep
             PROVE  TypeOK'
  OBVIOUS
<1>1. CASE SetJump
  BY <1>1 DEF SetJump, Main, Goto, TypeOK, mainVars, sigVars, procVars,
     histVars
<1>2. CASE Prompt
  BY <1>2 DEF Prompt, Clears, Main, NoTable, TypeOK, mainVars, sigVars,
     procVars, histVars
<1>3. CASE NextCommand
  <2>1. cmds[pos] \in Command
    BY <1>3, ElementOfSeq DEF NextCommand, Main, Local, TypeOK
  <2>2. todo' \in Seq(StageKind \cup {"null"})
    BY <1>3, <2>1, StagesType DEF NextCommand, Main, Local
  <2> QED
    BY <1>3, <2>2 DEF NextCommand, Main, Local, TypeOK, mainVars, sigVars,
       procVars, histVars
<1>4. CASE EndLine
  <2>1. cmds' \in Seq(Command) /\ pos' \in Nat \ {0}
    BY <1>4 DEF EndLine, Main, Local
  <2> QED
    BY <1>4, <2>1 DEF EndLine, Main, Local, TypeOK, mainVars, sigVars,
       procVars, histVars
<1>5. CASE EndCommand
  BY <1>5 DEF EndCommand, Main, Local, TypeOK, mainVars, sigVars, procVars,
     histVars
<1>6. CASE BadStage
  BY <1>6 DEF BadStage, StageIs, Main, Goto, TypeOK, mainVars, sigVars,
     procVars, histVars
<1>7. CASE NullStage
  BY <1>7 DEF NullStage, StageIs, Main, Goto, TypeOK, mainVars, sigVars,
     procVars, histVars
<1>8. CASE ForkFails
  BY <1>8 DEF ForkFails, StageIs, Main, Goto, TypeOK, mainVars, sigVars,
     procVars, histVars
<1>9. CASE \E p \in Pid : Fork(p)
  BY <1>9 DEF Fork, StageIs, Main, ProcState, TypeOK, mainVars, sigVars,
     procVars, histVars
<1>10. CASE Record
  <2>1. todo' \in Seq(StageKind \cup {"null"})
    BY <1>10, HeadTailProperties DEF Record, Main, Returns, TypeOK
  <2> QED
    BY <1>10, <2>1 DEF Record, Main, Returns, TypeOK, mainVars, sigVars,
       procVars, histVars
<1>11. CASE NoSlot
  BY <1>11 DEF NoSlot, Main, Goto, TypeOK, mainVars, sigVars, procVars,
     histVars
<1>12. CASE WaitReap
  BY <1>12 DEF WaitReap, Main, Returns, ProcState, TypeOK, mainVars, sigVars,
     procVars, histVars
<1>13. CASE WaitStopped
  BY <1>13 DEF WaitStopped, Main, Local, TypeOK, mainVars, sigVars, procVars,
     histVars
<1>14. CASE WaitGone
  BY <1>14 DEF WaitGone, Main, Local, Returns, TypeOK, mainVars, sigVars,
     procVars, histVars
<1> QED
  BY <1>1, <1>2, <1>3, <1>4, <1>5, <1>6, <1>7, <1>8, <1>9, <1>10, <1>11,
     <1>12, <1>13, <1>14 DEF MainStep

(* ... of the input, of the two handlers and of the keyboard ...           *)
LEMMA SignalStepType ==
  TypeOK /\ (Input \/ SigChld \/ SigInt \/ KeyboardInterrupt \/ DirectInterrupt)
    => TypeOK'
<1> SUFFICES ASSUME TypeOK,
                    Input \/ SigChld \/ SigInt \/ KeyboardInterrupt \/ DirectInterrupt
             PROVE  TypeOK'
  OBVIOUS
<1>1. CASE ReadEOF
  BY <1>1 DEF ReadEOF, Main, Goto, TypeOK, mainVars, sigVars, procVars,
     histVars
<1>2. CASE ReadBlank
  BY <1>2 DEF ReadBlank, Main, Goto, TypeOK, mainVars, sigVars, procVars,
     histVars
<1>3. CASE \E line \in Lines : ReadLine(line)
  BY <1>3, FirstCommandsType DEF ReadLine, Main, Local, TypeOK, mainVars,
     sigVars, procVars, histVars
<1>4. CASE ChldEnter
  BY <1>4 DEF ChldEnter, Handler, TypeOK, mainVars, sigVars, procVars,
     histVars
<1>5. CASE ChldReturn
  BY <1>5 DEF ChldReturn, Leaves, Handler, TypeOK, mainVars, sigVars,
     procVars, histVars
<1>6. CASE \E p \in Pid : ChldReap(p)
  BY <1>6 DEF ChldReap, Handler, ProcState, TypeOK, mainVars, sigVars,
     procVars, histVars
<1>7. CASE IntBeforeSetJump
  BY <1>7 DEF IntBeforeSetJump, IntDelivered, TypeOK, mainVars, sigVars,
     procVars, histVars
<1>8. CASE IntToPrompt
  <2>1. cmds' \in Seq(Command) /\ todo' \in Seq(StageKind \cup {"null"})
    BY <1>8 DEF IntToPrompt, SignalsTable, IntDelivered, Returns
  <2>2. table' \in [Slot -> Pid \cup {NoPid}]
    BY <1>8 DEF IntToPrompt, SignalsTable, IntDelivered, Returns, NoTable
  <2>3. intr' \subseteq Pid /\ signalled' \subseteq Pid /\ missed' \subseteq Pid
    BY <1>8 DEF IntToPrompt, SignalsTable, IntDelivered, Returns, Hittable,
       Living, TypeOK
  <2>4. /\ pc' = "top" /\ pos' \in Nat \ {0} /\ child' = NoPid /\ status' = "done"
        /\ reaping' = FALSE /\ shellInt' = FALSE
    BY <1>8 DEF IntToPrompt, SignalsTable, IntDelivered, Returns
  <2>5. UNCHANGED <<chldPending, chldHoldsInt, proc, bg, snap>>
    BY <1>8 DEF IntToPrompt, SignalsTable, IntDelivered, Returns
  <2> QED
    BY <2>1, <2>2, <2>3, <2>4, <2>5 DEF TypeOK
<1>9. CASE IntKillFails
  BY <1>9 DEF IntKillFails, SignalsTable, IntDelivered, Hittable, Living,
     TypeOK, mainVars, sigVars, procVars, histVars
<1>10. CASE KeyboardInterrupt
  BY <1>10 DEF KeyboardInterrupt, Interrupt, Hittable, TypeOK, mainVars,
     sigVars, procVars, histVars
<1>11. CASE DirectInterrupt
  BY <1>11 DEF DirectInterrupt, Interrupt, TypeOK, mainVars, sigVars,
     procVars, histVars
<1> QED
  BY <1>1, <1>2, <1>3, <1>4, <1>5, <1>6, <1>7, <1>8, <1>9, <1>10, <1>11 DEF
     Input, SigChld, SigInt

(* ... and of the children.                                                *)
LEMMA ChildStepType ==
  TypeOK /\ (\E p \in Pid : Child(p)) => TypeOK'
<1> SUFFICES ASSUME TypeOK, (\E p \in Pid : Child(p))
             PROVE  TypeOK'
  OBVIOUS
<1>1. CASE \E p \in Pid : Exec(p)
  BY <1>1 DEF Exec, ChildIn, Becomes, NoTable, ProcState, TypeOK, mainVars,
     sigVars, procVars, histVars
<1>2. CASE \E p \in Pid : ExecFails(p)
  BY <1>2 DEF ExecFails, ChildIn, Dies, NoTable, ProcState, TypeOK, mainVars,
     sigVars, procVars, histVars
<1>3. CASE \E p \in Pid : Exit(p)
  BY <1>3 DEF Exit, ChildIn, Dies, NoTable, ProcState, TypeOK, mainVars,
     sigVars, procVars, histVars
<1>4. CASE \E p \in Pid : Stop(p)
  BY <1>4 DEF Stop, Moves, ChildIn, Becomes, ProcState, TypeOK, mainVars,
     sigVars, procVars, histVars
<1>5. CASE \E p \in Pid : Continue(p)
  BY <1>5 DEF Continue, Moves, ChildIn, Becomes, ProcState, TypeOK, mainVars,
     sigVars, procVars, histVars
<1>6. CASE \E p \in Pid : IntKills(p)
  BY <1>6 DEF IntKills, ChildIn, Dies, NoTable, ProcState, TypeOK, mainVars,
     sigVars, procVars, histVars
<1>7. CASE \E p \in Pid : IntSurvived(p)
  BY <1>7 DEF IntSurvived, ChildIn, Becomes, TypeOK, mainVars, sigVars,
     procVars, histVars
<1>8. CASE \E p \in Pid : IntClones(p)
  BY <1>8 DEF IntClones, ChildIn, Becomes, Hittable, NoTable, ProcState,
     TypeOK, mainVars, sigVars, procVars, histVars
<1>9. CASE \E p \in Pid : IntChildKillFails(p)
  BY <1>9 DEF IntChildKillFails, ChildIn, Dies, Hittable, NoTable, ProcState,
     TypeOK, mainVars, sigVars, procVars, histVars
<1> QED
  BY <1>1, <1>2, <1>3, <1>4, <1>5, <1>6, <1>7, <1>8, <1>9 DEF Child

(* The state of the shell, of its handlers and of its children is well     *)
(* typed; a forked child always belongs to a stage that is not recorded.   *)
THEOREM TypeCorrect == Spec => []TypeOK
<1>1. Init => TypeOK
  <2> SUFFICES ASSUME Init PROVE TypeOK
    OBVIOUS
  <2>1. cmds \in Seq(Command) /\ todo \in Seq(StageKind \cup {"null"})
    BY DEF Init
  <2>2. /\ table \in [Slot -> Pid \cup {NoPid}]
        /\ snap \in [Pid -> [Slot -> Pid \cup {NoPid}]]
        /\ proc \in [Pid -> ProcState]
    BY DEF Init, NoTable, ProcState
  <2>3. pc = "setup" /\ pos \in Nat \ {0} /\ child = NoPid /\ status = "done"
    BY DEF Init
  <2>4. /\ shellInt = FALSE /\ chldPending = FALSE /\ reaping = FALSE
        /\ chldHoldsInt \in BOOLEAN
        /\ bg = {} /\ intr = {} /\ signalled = {} /\ missed = {}
    BY DEF Init
  <2> QED
    BY <2>1, <2>2, <2>3, <2>4 DEF TypeOK
<1>2. TypeOK /\ [Next]_vars => TypeOK'
  <2>1. TypeOK /\ UNCHANGED vars => TypeOK'
    BY DEF TypeOK, vars, mainVars, sigVars, procVars, histVars
  <2> QED
    BY <2>1, MainStepType, SignalStepType, ChildStepType DEF Next
<1> QED
  BY <1>1, <1>2, PTL DEF Spec

-----------------------------------------------------------------------------
(* Dead children: an uncollected one has SIGCHLD pending or the handler at *)
(* work, as long as SIGINT cannot leave the handler half way.              *)
LEMMA ZombieStep ==
  TypeOK /\ ZombieCoveredIfHeld /\ [Next]_vars => ZombieCoveredIfHeld'
<1> SUFFICES ASSUME TypeOK, ZombieCoveredIfHeld, [Next]_vars
             PROVE  ZombieCoveredIfHeld'
  OBVIOUS
<1> USE DEF TypeOK, ZombieCoveredIfHeld, ZombieCovered, Up, mainVars, sigVars,
           procVars, histVars
<1>1. CASE SetJump
  BY <1>1 DEF SetJump, Main, Goto
<1>2. CASE Prompt
  BY <1>2 DEF Prompt, Clears, Main
<1>3. CASE NextCommand
  BY <1>3 DEF NextCommand, Main, Local
<1>4. CASE EndLine
  BY <1>4 DEF EndLine, Main, Local
<1>5. CASE EndCommand
  BY <1>5 DEF EndCommand, Main, Local
<1>6. CASE BadStage
  BY <1>6 DEF BadStage, StageIs, Main, Goto
<1>7. CASE NullStage
  BY <1>7 DEF NullStage, StageIs, Main, Goto
<1>8. CASE ForkFails
  BY <1>8 DEF ForkFails, StageIs, Main, Goto
<1>9. CASE \E p \in Pid : Fork(p)
  BY <1>9 DEF Fork, StageIs, Main
<1>10. CASE Record
  BY <1>10 DEF Record, Main, Returns
<1>11. CASE NoSlot
  BY <1>11 DEF NoSlot, Main, Goto
<1>12. CASE WaitReap
  BY <1>12 DEF WaitReap, Main, Returns
<1>13. CASE WaitStopped
  BY <1>13 DEF WaitStopped, Main, Local, Finished
<1>14. CASE WaitGone
  BY <1>14 DEF WaitGone, Main, Local, Returns
<1>15. CASE ReadEOF
  BY <1>15 DEF ReadEOF, Main, Goto
<1>16. CASE ReadBlank
  BY <1>16 DEF ReadBlank, Main, Goto
<1>17. CASE \E line \in Lines : ReadLine(line)
  BY <1>17 DEF ReadLine, Main, Local
<1>18. CASE ChldEnter
  BY <1>18 DEF ChldEnter, Handler
<1>19. CASE ChldReturn
  BY <1>19 DEF ChldReturn, Leaves, Handler
<1>20. CASE \E p \in Pid : ChldReap(p)
  BY <1>20 DEF ChldReap, Handler
<1>21. CASE IntBeforeSetJump
  BY <1>21 DEF IntBeforeSetJump, IntDelivered
<1>22. CASE IntToPrompt
  BY <1>22 DEF IntToPrompt, SignalsTable, IntDelivered, Returns
<1>23. CASE IntKillFails
  BY <1>23 DEF IntKillFails, SignalsTable, IntDelivered
<1>24. CASE KeyboardInterrupt
  BY <1>24 DEF KeyboardInterrupt, Interrupt
<1>25. CASE DirectInterrupt
  BY <1>25 DEF DirectInterrupt, Interrupt
<1>26. CASE \E p \in Pid : Exec(p)
  BY <1>26 DEF Exec, ChildIn, Becomes
<1>27. CASE \E p \in Pid : ExecFails(p)
  BY <1>27 DEF ExecFails, ChildIn, Dies
<1>28. CASE \E p \in Pid : Exit(p)
  BY <1>28 DEF Exit, ChildIn, Dies
<1>29. CASE \E p \in Pid : Stop(p)
  BY <1>29 DEF Stop, Moves, ChildIn, Becomes
<1>30. CASE \E p \in Pid : Continue(p)
  BY <1>30 DEF Continue, Moves, ChildIn, Becomes
<1>31. CASE \E p \in Pid : IntKills(p)
  BY <1>31 DEF IntKills, ChildIn, Dies
<1>32. CASE \E p \in Pid : IntSurvived(p)
  BY <1>32 DEF IntSurvived, ChildIn, Becomes
<1>33. CASE \E p \in Pid : IntClones(p)
  BY <1>33 DEF IntClones, ChildIn, Becomes
<1>34. CASE \E p \in Pid : IntChildKillFails(p)
  BY <1>34 DEF IntChildKillFails, ChildIn, Dies
<1>35. CASE UNCHANGED vars
  BY <1>35 DEF vars
<1> QED
  BY <1>1, <1>2, <1>3, <1>4, <1>5, <1>6, <1>7, <1>8, <1>9, <1>10, <1>11,
     <1>12, <1>13, <1>14, <1>15, <1>16, <1>17, <1>18, <1>19, <1>20, <1>21,
     <1>22, <1>23, <1>24, <1>25, <1>26, <1>27, <1>28, <1>29, <1>30, <1>31,
     <1>32, <1>33, <1>34, <1>35 DEF Next, MainStep, Input, SigChld, SigInt,
     Child

(* sigchld_handler never forgets a dead child unless an interrupt breaks   *)
(* into it.                                                                *)
THEOREM ZombiesNotForgotten == Spec => []ZombieCoveredIfHeld
<1>1. Init => ZombieCoveredIfHeld
  BY DEF Init, ZombieCoveredIfHeld, ZombieCovered
<1> QED
  BY <1>1, ZombieStep, TypeCorrect, PTL DEF Spec

-----------------------------------------------------------------------------
(* The foreground discipline is not inductive: an interrupt taken inside   *)
(* waitpid signals the awaited child only because it is in cpids, and a    *)
(* child that is not waited for was started with "&".                      *)
WaitedRecorded ==
  /\ pc \in {"record", "wait"} => child \in Pid
  /\ pc = "wait" => \E k \in Slot : table[k] = child

UnwaitedIsBackground ==
  pc = "record" /\ Head(todo) = "bg" /\ child \in Living => child \in bg

ForegroundInv == ForegroundOwned /\ WaitedRecorded /\ UnwaitedIsBackground

LEMMA ForegroundStep ==
  TypeOK /\ ForegroundInv /\ [Next]_vars => ForegroundInv'
<1> SUFFICES ASSUME TypeOK, ForegroundInv, [Next]_vars
             PROVE  ForegroundInv'
  OBVIOUS
<1> USE DEF TypeOK, ForegroundInv, ForegroundOwned, WaitedRecorded,
           UnwaitedIsBackground, Living, Up, mainVars, sigVars, procVars,
           histVars
<1>1. CASE SetJump
  BY <1>1 DEF SetJump, Main, Goto
<1>2. CASE Prompt
  BY <1>2 DEF Prompt, Clears, Main
<1>3. CASE NextCommand
  BY <1>3 DEF NextCommand, Main, Local
<1>4. CASE EndLine
  BY <1>4 DEF EndLine, Main, Local
<1>5. CASE EndCommand
  BY <1>5 DEF EndCommand, Main, Local
<1>6. CASE BadStage
  BY <1>6 DEF BadStage, StageIs, Main, Goto
<1>7. CASE NullStage
  BY <1>7 DEF NullStage, StageIs, Main, Goto
<1>8. CASE ForkFails
  BY <1>8 DEF ForkFails, StageIs, Main, Goto
<1>9. CASE \E p \in Pid : Fork(p)
  BY <1>9 DEF Fork, StageIs, Main
<1>10. CASE Record
  <2>1. FreeSlot(table) \in Slot
    BY <1>10, FreeSlotIsFirst DEF Record, Main, Returns
  <2>2. table'[FreeSlot(table)] = child
    BY <1>10, <2>1 DEF Record, Main, Returns
  <2> QED
    BY <1>10, <2>1, <2>2 DEF Record, Main, Returns
<1>11. CASE NoSlot
  BY <1>11 DEF NoSlot, Main, Goto
<1>12. CASE WaitReap
  BY <1>12 DEF WaitReap, Main, Returns
<1>13. CASE WaitStopped
  BY <1>13 DEF WaitStopped, Main, Local, Finished
<1>14. CASE WaitGone
  BY <1>14 DEF WaitGone, Main, Local, Returns
<1>15. CASE ReadEOF
  BY <1>15 DEF ReadEOF, Main, Goto
<1>16. CASE ReadBlank
  BY <1>16 DEF ReadBlank, Main, Goto
<1>17. CASE \E line \in Lines : ReadLine(line)
  BY <1>17 DEF ReadLine, Main, Local
<1>18. CASE ChldEnter
  BY <1>18 DEF ChldEnter, Handler
<1>19. CASE ChldReturn
  BY <1>19 DEF ChldReturn, Leaves, Handler
<1>20. CASE \E p \in Pid : ChldReap(p)
  BY <1>20 DEF ChldReap, Handler
<1>21. CASE IntBeforeSetJump
  BY <1>21 DEF IntBeforeSetJump, IntDelivered
<1>22. CASE IntToPrompt
  <2>1. ASSUME NEW k \in Slot, table[k] \in Living PROVE table[k] \in signalled'
    BY <1>22, <2>1, NoPidAssumption DEF IntToPrompt, SignalsTable,
       IntDelivered, Returns, Reached
  <2>2. \A p \in signalled \cup missed : p \in signalled' \cup missed'
    BY <1>22 DEF IntToPrompt, SignalsTable, IntDelivered, Returns
  <2>3. pc = "record" /\ child \in Living => child \in missed'
    BY <1>22 DEF IntToPrompt, SignalsTable, IntDelivered, Returns
  <2>4. pc' = "top" /\ proc' = proc /\ bg' = bg /\ Up
    BY <1>22 DEF IntToPrompt, SignalsTable, IntDelivered, Returns
  <2> QED
    BY <2>1, <2>2, <2>3, <2>4
<1>23. CASE IntKillFails
  BY <1>23 DEF IntKillFails, SignalsTable, IntDelivered
<1>24. CASE KeyboardInterrupt
  BY <1>24 DEF KeyboardInterrupt, Interrupt
<1>25. CASE DirectInterrupt
  BY <1>25 DEF DirectInterrupt, Interrupt
<1>26. CASE \E p \in Pid : Exec(p)
  BY <1>26 DEF Exec, ChildIn, Becomes
<1>27. CASE \E p \in Pid : ExecFails(p)
  BY <1>27 DEF ExecFails, ChildIn, Dies
<1>28. CASE \E p \in Pid : Exit(p)
  BY <1>28 DEF Exit, ChildIn, Dies
<1>29. CASE \E p \in Pid : Stop(p)
  BY <1>29 DEF Stop, Moves, ChildIn, Becomes
<1>30. CASE \E p \in Pid : Continue(p)
  BY <1>30 DEF Continue, Moves, ChildIn, Becomes
<1>31. CASE \E p \in Pid : IntKills(p)
  BY <1>31 DEF IntKills, ChildIn, Dies
<1>32. CASE \E p \in Pid : IntSurvived(p)
  BY <1>32 DEF IntSurvived, ChildIn, Becomes
<1>33. CASE \E p \in Pid : IntClones(p)
  BY <1>33 DEF IntClones, ChildIn, Becomes
<1>34. CASE \E p \in Pid : IntChildKillFails(p)
  BY <1>34 DEF IntChildKillFails, ChildIn, Dies
<1>35. CASE UNCHANGED vars
  BY <1>35 DEF vars
<1> QED
  BY <1>1, <1>2, <1>3, <1>4, <1>5, <1>6, <1>7, <1>8, <1>9, <1>10, <1>11,
     <1>12, <1>13, <1>14, <1>15, <1>16, <1>17, <1>18, <1>19, <1>20, <1>21,
     <1>22, <1>23, <1>24, <1>25, <1>26, <1>27, <1>28, <1>29, <1>30, <1>31,
     <1>32, <1>33, <1>34, <1>35 DEF Next, MainStep, Input, SigChld, SigInt,
     Child

(* A living child that was not started with "&" is the one run_process     *)
(* waits for, or one that the user's interrupt abandoned and either        *)
(* signalled or missed between fork and its recording.                     *)
THEOREM ForegroundDiscipline == Spec => []ForegroundOwned
<1>1. Init => ForegroundInv
  BY DEF Init, ForegroundInv, ForegroundOwned, WaitedRecorded,
     UnwaitedIsBackground, Living
<1>2. ForegroundInv => ForegroundOwned
  BY DEF ForegroundInv
<1> QED
  BY <1>1, <1>2, ForegroundStep, TypeCorrect, PTL DEF Spec

-----------------------------------------------------------------------------
(* The shell is at the prompt with an empty table.                         *)
IdleTable == pc = "read" => table = NoTable

LEMMA IdleStep ==
  IdleTable /\ [Next]_vars => IdleTable'
<1> SUFFICES ASSUME IdleTable, [Next]_vars
             PROVE  IdleTable'
  OBVIOUS
<1> USE DEF IdleTable, NoTable, mainVars, sigVars, procVars, histVars
<1>1. CASE SetJump
  BY <1>1 DEF SetJump, Main, Goto
<1>2. CASE Prompt
  BY <1>2 DEF Prompt, Clears, Main
<1>3. CASE NextCommand
  BY <1>3 DEF NextCommand, Main, Local
<1>4. CASE EndLine
  BY <1>4 DEF EndLine, Main, Local
<1>5. CASE EndCommand
  BY <1>5 DEF EndCommand, Main, Local
<1>6. CASE BadStage
  BY <1>6 DEF BadStage, StageIs, Main, Goto
<1>7. CASE NullStage
  BY <1>7 DEF NullStage, StageIs, Main, Goto
<1>8. CASE ForkFails
  BY <1>8 DEF ForkFails, StageIs, Main, Goto
<1>9. CASE \E p \in Pid : Fork(p)
  BY <1>9 DEF Fork, StageIs, Main
<1>10. CASE Record
  BY <1>10 DEF Record, Main, Returns
<1>11. CASE NoSlot
  BY <1>11 DEF NoSlot, Main, Goto
<1>12. CASE WaitReap
  BY <1>12 DEF WaitReap, Main, Returns
<1>13. CASE WaitStopped
  BY <1>13 DEF WaitStopped, Main, Local, Finished
<1>14. CASE WaitGone
  BY <1>14 DEF WaitGone, Main, Local, Returns
<1>15. CASE ReadEOF
  BY <1>15 DEF ReadEOF, Main, Goto
<1>16. CASE ReadBlank
  BY <1>16 DEF ReadBlank, Main, Goto
<1>17. CASE \E line \in Lines : ReadLine(line)
  BY <1>17 DEF ReadLine, Main, Local
<1>18. CASE ChldEnter
  BY <1>18 DEF ChldEnter, Handler
<1>19. CASE ChldReturn
  BY <1>19 DEF ChldReturn, Leaves, Handler
<1>20. CASE \E p \in Pid : ChldReap(p)
  BY <1>20 DEF ChldReap, Handler
<1>21. CASE IntBeforeSetJump
  BY <1>21 DEF IntBeforeSetJump, IntDelivered
<1>22. CASE IntToPrompt
  BY <1>22 DEF IntToPrompt, SignalsTable, IntDelivered, Returns
<1>23. CASE IntKillFails
  BY <1>23 DEF IntKillFails, SignalsTable, IntDelivered
<1>24. CASE KeyboardInterrupt
  BY <1>24 DEF KeyboardInterrupt, Interrupt
<1>25. CASE DirectInterrupt
  BY <1>25 DEF DirectInterrupt, Interrupt
<1>26. CASE \E p \in Pid : Exec(p)
  BY <1>26 DEF Exec, ChildIn, Becomes
<1>27. CASE \E p \in Pid : ExecFails(p)
  BY <1>27 DEF ExecFails, ChildIn, Dies
<1>28. CASE \E p \in Pid : Exit(p)
  BY <1>28 DEF Exit, ChildIn, Dies
<1>29. CASE \E p \in Pid : Stop(p)
  BY <1>29 DEF Stop, Moves, ChildIn, Becomes
<1>30. CASE \E p \in Pid : Continue(p)
  BY <1>30 DEF Continue, Moves, ChildIn, Becomes
<1>31. CASE \E p \in Pid : IntKills(p)
  BY <1>31 DEF IntKills, ChildIn, Dies
<1>32. CASE \E p \in Pid : IntSurvived(p)
  BY <1>32 DEF IntSurvived, ChildIn, Becomes
<1>33. CASE \E p \in Pid : IntClones(p)
  BY <1>33 DEF IntClones, ChildIn, Becomes
<1>34. CASE \E p \in Pid : IntChildKillFails(p)
  BY <1>34 DEF IntChildKillFails, ChildIn, Dies
<1>35. CASE UNCHANGED vars
  BY <1>35 DEF vars
<1> QED
  BY <1>1, <1>2, <1>3, <1>4, <1>5, <1>6, <1>7, <1>8, <1>9, <1>10, <1>11,
     <1>12, <1>13, <1>14, <1>15, <1>16, <1>17, <1>18, <1>19, <1>20, <1>21,
     <1>22, <1>23, <1>24, <1>25, <1>26, <1>27, <1>28, <1>29, <1>30, <1>31,
     <1>32, <1>33, <1>34, <1>35 DEF Next, MainStep, Input, SigChld, SigInt,
     Child

(* What an interrupt at the prompt does.                                   *)
LEMMA IdleInterrupt ==
  TypeOK /\ IdleTable /\ [Next]_vars =>
    (pc = "read" /\ shellInt /\ ~shellInt' => pc' = "top" /\ signalled' = signalled)
<1> SUFFICES ASSUME TypeOK, IdleTable, [Next]_vars,
                    pc = "read", shellInt, ~shellInt'
             PROVE  pc' = "top" /\ signalled' = signalled
  OBVIOUS
<1>1. Stale(table) = {} /\ Reached(table) = {}
  BY DEF IdleTable, NoTable, Stale, Reached
<1>2. CASE SigInt
  BY <1>1, <1>2 DEF IntBeforeSetJump, IntToPrompt, IntKillFails, IntDelivered,
     SignalsTable, Returns, SigInt
<1>3. ~SigInt => UNCHANGED shellInt \/ shellInt' = TRUE
  BY DEF SetJump, Prompt, NextCommand, EndLine, EndCommand, BadStage,
     NullStage, ForkFails, Fork, Record, NoSlot, WaitReap, WaitStopped,
     WaitGone, ReadEOF, ReadBlank, ReadLine, ChldEnter, ChldReturn, ChldReap,
     Exec, ExecFails, Exit, Stop, Continue, IntKills, IntSurvived, IntClones,
     IntChildKillFails, KeyboardInterrupt, DirectInterrupt, Main, Goto,
     Clears, Local, StageIs, Returns, Handler, Leaves, ChildIn, Becomes, Dies,
     Moves, Interrupt, Next, MainStep, Input, SigChld, Child, sigVars, vars
<1> QED
  BY <1>2, <1>3

(* An interrupt at the idle prompt returns to the prompt and signals no    *)
(* process, whatever ran before.                                           *)
THEOREM IdleInterruptSafe == Spec => IdleInterruptHarmless
<1>1. Init => IdleTable
  BY DEF Init, IdleTable
<1> QED
  BY <1>1, IdleStep, IdleInterrupt, TypeCorrect, PTL DEF Spec,
     IdleInterruptHarmless

-----------------------------------------------------------------------------
(* The table counts the stages started on the line.  The count is not      *)
(* inductive by itself: between lines nothing is recorded because main has *)
(* dropped the commands, and inside a command what is still to do is a     *)
(* part of its stages.                                                     *)
InCommand == pc \in {"stage", "record", "wait"}

LineAccounts ==
  Up => /\ pc \in {"setup", "top", "read"} => cmds = <<>>
        /\ InCommand => /\ pos \in 1 .. Len(cmds)
                        /\ Len(todo) <= Len(Stages(cmds[pos]))
        /\ IsFiniteSet(Recorded)

AccountsInv == TableAccounts /\ LineAccounts

(* What is recorded depends on main's control state alone.                 *)
LEMMA RecordedSame ==
  ASSUME UNCHANGED <<cmds, pos, todo>>, InCommand' = InCommand
  PROVE  Recorded' = Recorded
<1>1. \A c : RecordedOf(c)' = RecordedOf(c)
  BY DEF RecordedOf, InCommand
<1> QED
  BY <1>1 DEF Recorded

(* A step that leaves the line, the loop variable and cpids alone keeps    *)
(* the count.                                                              *)
LEMMA AccountsSame ==
  ASSUME AccountsInv, UNCHANGED <<cmds, pos, todo, table>>,
         pc' = pc \/ (InCommand /\ InCommand')
  PROVE  AccountsInv'
<1>1. InCommand' = InCommand
  BY DEF InCommand
<1>2. Recorded' = Recorded
  BY <1>1, RecordedSame
<1>3. Up' = Up
  BY DEF Up, InCommand
<1> QED
  BY <1>1, <1>2, <1>3 DEF AccountsInv, TableAccounts, LineAccounts, InCommand

(* A line without commands has no stages.                                  *)
LEMMA NothingRecorded ==
  cmds = <<>> => Recorded = {} /\ IsFiniteSet(Recorded) /\ Cardinality(Recorded) = 0
  BY FS_EmptySet DEF Recorded

(* A stage that is forked and recorded is the next one of the command that *)
(* runs, and freeslot finds the slot behind those in use.                  *)
LEMMA RecordAccounts ==
  ASSUME TypeOK, AccountsInv, Record, child \in Pid
  PROVE  AccountsInv'
<1> DEFINE slot == FreeSlot(table)
           all == Len(Stages(cmds[pos]))
           next == <<pos, all - Len(todo) + 1>>
           n == Cardinality(Recorded)
<1>1. /\ pc = "record" /\ InCommand /\ InCommand' /\ Up /\ Up' /\ todo # <<>>
      /\ slot # -1 /\ table' = [table EXCEPT ![slot] = child] /\ todo' = Tail(todo)
      /\ UNCHANGED <<cmds, pos>>
  BY DEF Record, Main, InCommand, Up, TypeOK
<1>2. /\ todo \in Seq(StageKind \cup {"null"}) /\ cmds \in Seq(Command)
      /\ table \in [Slot -> Pid \cup {NoPid}] /\ pos \in 1 .. Len(cmds)
  BY <1>1 DEF TypeOK, AccountsInv, LineAccounts
<1>3. /\ Len(todo) \in Nat \ {0} /\ Len(todo') = Len(todo) - 1
  BY <1>1, <1>2, EmptySeq, HeadTailProperties, LenProperties
<1>4. /\ all \in Nat /\ Len(todo) <= all
  <2>1. cmds[pos] \in Command
    BY <1>2, ElementOfSeq
  <2>2. Stages(cmds[pos]) \in Seq(StageKind \cup {"null"})
    BY <2>1, StagesType
  <2> QED
    BY <1>1, <2>2, LenProperties DEF AccountsInv, LineAccounts
<1>5. IsFiniteSet(Recorded) /\ n \in Nat
  BY <1>1, FS_CardinalityType DEF AccountsInv, LineAccounts
<1>6. {m \in Slot : table[m] # NoPid} = 1 .. n
  BY <1>1 DEF AccountsInv, TableAccounts
<1>7. Recorded' = Recorded \cup {next} /\ next \notin Recorded
  <2>1. \A c \in 1 .. Len(cmds) : c # pos => RecordedOf(c)' = RecordedOf(c)
    BY <1>1 DEF RecordedOf
  <2>2. \A c : c = pos => /\ RecordedOf(c) = 1 .. (all - Len(todo))
                          /\ RecordedOf(c)' = 1 .. (all - Len(todo'))
    BY <1>1, <1>2 DEF RecordedOf, InCommand
  <2> HIDE DEF all
  <2>3. 1 .. (all - Len(todo')) = 1 .. (all - Len(todo)) \cup {all - Len(todo) + 1}
    BY <1>3, <1>4
  <2>4. all - Len(todo) + 1 \notin 1 .. (all - Len(todo))
    BY <1>3, <1>4
  <2>5. \A c, j : <<c, j>> \in Recorded <=> c \in 1 .. Len(cmds) /\ j \in RecordedOf(c)
    BY DEF Recorded
  <2>6. \A c, j : <<c, j>> \in Recorded' <=> c \in 1 .. Len(cmds) /\ j \in RecordedOf(c)'
    BY <1>1 DEF Recorded
  <2>7. \A x : x \in Recorded \cup Recorded' => \E c, j : x = <<c, j>>
    BY DEF Recorded
  <2>8. \A c, j : <<c, j>> \in Recorded' <=> <<c, j>> \in Recorded \/ <<c, j>> = next
    <3> SUFFICES ASSUME NEW c, NEW j
                 PROVE  <<c, j>> \in Recorded' <=> <<c, j>> \in Recorded \/ <<c, j>> = next
      OBVIOUS
    <3>1. CASE c = pos
      <4>1. j \in RecordedOf(c)' <=> j \in RecordedOf(c) \/ j = all - Len(todo) + 1
        <5>1. /\ RecordedOf(c) = 1 .. (all - Len(todo))
              /\ RecordedOf(c)' = 1 .. (all - Len(todo'))
          BY <2>2, <3>1
        <5>2. RecordedOf(c)' = RecordedOf(c) \cup {all - Len(todo) + 1}
          BY <2>3, <5>1, Zenon
        <5> QED
          BY <5>2, Zenon
      <4>2. <<c, j>> = next <=> j = all - Len(todo) + 1
        BY <3>1
      <4> QED
        BY <1>2, <2>5, <2>6, <3>1, <4>1, <4>2
    <3>2. CASE c # pos
      BY <2>1, <2>5, <2>6, <3>2
    <3> QED
      BY <3>1, <3>2
  <2>9. next \notin Recorded
    BY <2>2, <2>4, <2>5
  <2> HIDE DEF next
  <2> QED
    BY <2>7, <2>8, <2>9 DEF next
<1>8. IsFiniteSet(Recorded') /\ Cardinality(Recorded') = n + 1
  <2> HIDE DEF next
  <2> QED
    BY <1>5, <1>7, FS_AddElement
<1>9. slot = n + 1 /\ slot \in Slot
  <2>1. /\ slot \in Slot /\ table[slot] = NoPid
        /\ \A m \in Slot : table[m] = NoPid => slot <= m
    BY <1>1, <1>2, FreeSlotIsFirst
  <2> HIDE DEF slot, n
  <2>2. slot \notin 1 .. n /\ \A m \in Slot : m \notin 1 .. n => slot <= m
    BY <1>6, <2>1
  <2>3. slot \in 1 .. NSlot /\ NSlot \in Nat
    BY <2>1, BoundsAssumption DEF Slot
  <2>4. slot > n
    BY <1>5, <2>2, <2>3
  <2>5. n + 1 \in Slot /\ n + 1 \notin 1 .. n
    BY <1>5, <2>3, <2>4 DEF Slot
  <2> QED
    BY <1>5, <2>1, <2>2, <2>3, <2>4, <2>5
<1>10. {m \in Slot : table'[m] # NoPid} = 1 .. n + 1
  <2>1. \A m \in Slot : table'[m] = IF m = slot THEN child ELSE table[m]
    BY <1>1, <1>2
  <2>2. child # NoPid
    BY NoPidAssumption
  <2> HIDE DEF slot, n
  <2>3. {m \in Slot : table'[m] # NoPid} = {m \in Slot : table[m] # NoPid} \cup {slot}
    BY <1>9, <2>1, <2>2
  <2> QED
    BY <1>5, <1>6, <1>9, <2>3
<1>11. TableAccounts'
  BY <1>8, <1>10 DEF TableAccounts
<1>12. LineAccounts'
  BY <1>1, <1>2, <1>3, <1>4, <1>8 DEF LineAccounts, InCommand
<1> QED
  BY <1>11, <1>12 DEF AccountsInv

LEMMA AccountsStep ==
  TypeOK /\ AccountsInv /\ WaitedRecorded /\ [Next]_vars => AccountsInv'
<1> SUFFICES ASSUME TypeOK, AccountsInv, WaitedRecorded, [Next]_vars
             PROVE  AccountsInv'
  OBVIOUS
<1> USE DEF mainVars, sigVars, procVars, histVars
<1>1. ASSUME ~Up' PROVE AccountsInv'
  BY <1>1 DEF AccountsInv, TableAccounts, LineAccounts
<1>2. CASE ReadEOF \/ BadStage \/ NullStage \/ ForkFails \/ NoSlot
           \/ IntBeforeSetJump \/ IntKillFails
  <2>1. ~Up'
    BY <1>2 DEF ReadEOF, BadStage, NullStage, ForkFails, NoSlot, IntBeforeSetJump,
                IntKillFails, Goto, Main, Up
  <2> QED
    BY <1>1, <2>1
<1>3. ASSUME pc' \in {"top", "setup"}, cmds' = <<>> PROVE AccountsInv'
  <2>1. IsFiniteSet(Recorded')
    BY <1>3, FS_EmptySet DEF Recorded
  <2> QED
    BY <1>3, <2>1 DEF AccountsInv, TableAccounts, LineAccounts, InCommand
<1>4. CASE SetJump \/ ReadBlank \/ EndLine \/ IntToPrompt
  <2>1. pc' = "top" /\ cmds' = <<>>
    BY <1>4 DEF SetJump, ReadBlank, EndLine, IntToPrompt, Goto, Local, Main,
                AccountsInv, LineAccounts, Up
  <2> QED
    BY <1>3, <2>1
<1>5. CASE WaitStopped \/ ChldEnter \/ ChldReturn \/ (\E p \in Pid : ChldReap(p))
           \/ KeyboardInterrupt \/ DirectInterrupt \/ (\E p \in Pid : Child(p))
           \/ UNCHANGED vars
  <2>1. pc' = pc /\ UNCHANGED <<cmds, pos, todo, table>>
    BY <1>5 DEF WaitStopped, Local, Main, Finished, ChldEnter, ChldReturn, ChldReap,
                Leaves, Handler, KeyboardInterrupt, DirectInterrupt, Interrupt, Child,
                Exec, ExecFails, Exit, Stop, Continue, Moves, IntKills, IntSurvived,
                IntClones, IntChildKillFails, ChildIn, vars
  <2> QED
    BY <2>1, AccountsSame
<1>6. CASE (\E p \in Pid : Fork(p)) \/ WaitReap \/ WaitGone
  <2>1. InCommand /\ InCommand' /\ UNCHANGED <<cmds, pos, todo, table>>
    BY <1>6 DEF Fork, WaitReap, WaitGone, Local, Main, InCommand
  <2> QED
    BY <2>1, AccountsSame
<1>7. CASE Prompt
  <2>1. /\ pc = "top" /\ pc' = "read" /\ cmds' = cmds /\ table' = NoTable /\ cmds = <<>>
    BY <1>7 DEF Prompt, Clears, Main, NoTable, AccountsInv, LineAccounts, Up
  <2>2. Recorded' = {} /\ IsFiniteSet(Recorded') /\ Cardinality(Recorded') = 0
    BY <2>1, FS_EmptySet DEF Recorded
  <2>3. {m \in Slot : table'[m] # NoPid} = {} /\ 1 .. 0 = {}
    BY <2>1 DEF NoTable
  <2> QED
    BY <2>1, <2>2, <2>3 DEF AccountsInv, TableAccounts, LineAccounts, InCommand
<1>8. CASE \E line \in Lines : ReadLine(line)
  <2>1. /\ pc = "read" /\ pc' = "next" /\ pos' = 1 /\ table' = table /\ cmds = <<>> /\ Up
    BY <1>8 DEF ReadLine, Local, Main, AccountsInv, LineAccounts, Up
  <2>2. {m \in Slot : table[m] # NoPid} = 1 .. 0
    BY <2>1, NothingRecorded DEF AccountsInv, TableAccounts
  <2>3. Recorded' = {}
    <3>1. \A c \in 1 .. Len(cmds') : RecordedOf(c)' = {}
      <4>1. cmds' \in Seq(Command)
        BY <1>8, FirstCommandsType DEF ReadLine
      <4> QED
        BY <2>1, <4>1 DEF RecordedOf
    <3> QED
      BY <3>1 DEF Recorded
  <2>4. IsFiniteSet(Recorded') /\ Cardinality(Recorded') = 0
    BY <2>3, FS_EmptySet
  <2> QED
    BY <2>1, <2>2, <2>4 DEF AccountsInv, TableAccounts, LineAccounts, InCommand
<1>9. CASE NextCommand
  <2>1. /\ pc = "next" /\ pc' = "stage" /\ pos <= Len(cmds) /\ todo' = Stages(cmds[pos])
        /\ UNCHANGED <<cmds, pos, table>> /\ Up /\ Up' /\ InCommand'
        /\ pos \in 1 .. Len(cmds) /\ cmds \in Seq(Command)
    BY <1>9 DEF NextCommand, Local, Main, Up, TypeOK, InCommand
  <2>2. Len(Stages(cmds[pos])) \in Nat
    BY <2>1, ElementOfSeq, StagesType, LenProperties
  <2>3. \A c \in 1 .. Len(cmds) : RecordedOf(c)' = RecordedOf(c)
    <3> SUFFICES ASSUME NEW c \in 1 .. Len(cmds) PROVE RecordedOf(c)' = RecordedOf(c)
      OBVIOUS
    <3>1. CASE c = pos
      <4>1. RecordedOf(c)' = 1 .. (Len(Stages(cmds[c])) - Len(Stages(cmds[c])))
        BY <2>1, <3>1 DEF RecordedOf
      <4>2. RecordedOf(c) = {}
        BY <2>1, <3>1 DEF RecordedOf
      <4> QED
        BY <2>2, <3>1, <4>1, <4>2
    <3>2. CASE c # pos
      BY <2>1, <3>2 DEF RecordedOf
    <3> QED
      BY <3>1, <3>2
  <2>4. Recorded' = Recorded
    BY <2>1, <2>3 DEF Recorded
  <2> QED
    BY <2>1, <2>2, <2>4 DEF AccountsInv, TableAccounts, LineAccounts
<1>10. CASE EndCommand
  <2>1. /\ pc = "stage" /\ pc' = "next" /\ todo = <<>> /\ pos' = pos + 1
        /\ UNCHANGED <<cmds, todo, table>> /\ Up /\ Up' /\ ~InCommand'
        /\ pos \in Nat /\ cmds \in Seq(Command) /\ pos \in 1 .. Len(cmds)
    BY <1>10 DEF EndCommand, Local, Main, Up, TypeOK, InCommand, AccountsInv, LineAccounts
  <2>2. Len(Stages(cmds[pos])) \in Nat
    BY <2>1, ElementOfSeq, StagesType, LenProperties
  <2>3. \A c \in 1 .. Len(cmds) : RecordedOf(c)' = RecordedOf(c)
    <3> SUFFICES ASSUME NEW c \in 1 .. Len(cmds) PROVE RecordedOf(c)' = RecordedOf(c)
      OBVIOUS
    <3>1. CASE c = pos
      BY <2>1, <2>2, <3>1 DEF RecordedOf
    <3>2. CASE c < pos
      BY <2>1, <3>2 DEF RecordedOf
    <3>3. CASE c > pos
      BY <2>1, <3>3 DEF RecordedOf
    <3> QED
      BY <2>1, <3>1, <3>2, <3>3
  <2>4. Recorded' = Recorded
    BY <2>1, <2>3 DEF Recorded
  <2> QED
    BY <2>1, <2>4 DEF AccountsInv, TableAccounts, LineAccounts
<1>11. CASE Record
  <2>1. child \in Pid
    BY <1>11 DEF Record, Main, WaitedRecorded
  <2> QED
    BY <1>11, <2>1, RecordAccounts
<1> QED
  BY <1>2, <1>4, <1>5, <1>6, <1>7, <1>8, <1>9, <1>10, <1>11 DEF Next, MainStep, Input,
     SigChld, SigInt

(* While a line runs, cpids holds exactly the stages started since the     *)
(* prompt, in consecutive slots from the first: a line runs out of slots   *)
(* exactly when it starts more than NSlot stages, whatever ended meanwhile.*)
THEOREM TableCounts == Spec => []TableAccounts
<1>1. Init => AccountsInv /\ ForegroundInv
  <2> SUFFICES ASSUME Init PROVE AccountsInv /\ ForegroundInv
    OBVIOUS
  <2>1. AccountsInv
    BY NothingRecorded DEF Init, AccountsInv, TableAccounts, LineAccounts, InCommand
  <2>2. ForegroundInv
    BY DEF Init, ForegroundInv, ForegroundOwned, WaitedRecorded,
       UnwaitedIsBackground, Living
  <2> QED
    BY <2>1, <2>2
<1>2. ForegroundInv => WaitedRecorded
  BY DEF ForegroundInv
<1>3. AccountsInv => TableAccounts
  BY DEF AccountsInv
<1> QED
  BY <1>1, <1>2, <1>3, AccountsStep, ForegroundStep, TypeCorrect, PTL DEF Spec
=============================================================================
