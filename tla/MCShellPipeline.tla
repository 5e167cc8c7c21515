-------------------------- MODULE MCShellPipeline --------------------------
(* Small instances of ShellPipeline: the pipelines that are typed.         *)
EXTENDS ShellPipeline

Program4(reads, emits, bg, redir) ==
  [reads |-> reads, emits |-> emits, bg |-> bg, redir |-> redir]

Source(n) == Program4("none", n, FALSE, "no")
SourceInBackground(n) == Program4("none", n, TRUE, "no")
Filter == Program4("all", 0, FALSE, "no")
FilterInBackground == Program4("all", 0, TRUE, "no")
HeadOne == Program4("one", 0, FALSE, "no")

(* Outputs that fit and that do not, early readers, background stages in   *)
(* every position, and redirections that override a pipe end.              *)
MCPipelines ==
  { <<Source(Cap), Filter>>,
    <<Source(Cap + 1), Filter>>,
    <<SourceInBackground(Cap + 2), HeadOne>>,
    <<Source(1), FilterInBackground>>,
    <<Program4("none", Cap + 1, FALSE, "out"), Filter>>,
    <<Source(Cap), Filter, Filter>>,
    <<SourceInBackground(Cap + 2), HeadOne, Filter>>,
    <<SourceInBackground(Cap + 1), FilterInBackground, Filter>>,
    <<Source(1), Program4("all", Cap, FALSE, "no"), Filter>>,
    <<Source(1), Program4("all", 1, FALSE, "in"), Filter>> }
=============================================================================
