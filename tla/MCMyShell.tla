----------------------------- MODULE MCMyShell -----------------------------
(* Small instances of MyShell: which lines are typed, and the symmetry of  *)
(* the process identifiers.                                                *)
EXTENDS MyShell, TLC

Plain(kind) == [piped |-> FALSE, stages |-> <<kind>>]
Pipe(kinds) == [piped |-> TRUE, stages |-> kinds]

(* Every way a line can go on: sequential, background, pipelines of two,   *)
(* three and four stages, a pipeline with a missing stage, a redirection   *)
(* without a file name, and one command more than MaxCommands keeps.       *)
MCLines ==
  { <<Plain("fg")>>,
    <<Plain("bg"), Plain("fg")>>,
    <<Plain("bg"), Pipe(<<"fg", "bg">>)>>,
    <<Pipe(<<"bg", "fg", "fg">>)>>,
    <<Pipe(<<"fg", "fg", "fg", "fg">>)>>,
    <<Pipe(<<"fg">>)>>,
    <<Plain("fg"), Plain("bad")>>,
    <<Plain("fg"), Plain("bg"), Plain("fg")>> }

(* Lines for the liveness run, where symmetry cannot be used; the second   *)
(* one starts a stage more than the two slots of that run can hold.        *)
LiveLines ==
  { <<Plain("bg"), Plain("fg")>>, <<Pipe(<<"fg", "fg">>), Plain("bg")>> }

PidSymmetry == Permutations(Pid)
=============================================================================
