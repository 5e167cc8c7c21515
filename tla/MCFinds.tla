------------------------------ MODULE MCFinds ------------------------------
(* Searches for Finds: a few trees with every option, and one file with    *)
(* many contents and patterns.                                             *)
EXTENDS Finds

Hit == <<"a", "newline">>

(* Types and first dots of the names; ExtTwo has the names "x.b.c" and     *)
(* ExtDotted a directory "sub.d".                                          *)
Type == [top |-> "none", sub |-> "none", d |-> "none", x |-> "none", back |-> "none",
         xc |-> "c", xh |-> "h", xS |-> "S", xo |-> "o"]
Ext == Type
ExtDotted == [Ext EXCEPT !.sub = "d"]
ExtTwo == [Ext EXCEPT !.xc = "b.c"]

Tree(kind, num, entries, target, content, locked, unstable, ext) ==
  [root |-> "r", name |-> "top", kind |-> kind, num |-> num, entries |-> entries,
   target |-> target, content |-> content,
   locked |-> locked, unstable |-> unstable, ext |-> ext, type |-> Type]

(* Two directories, a file with two names, links to a file, back to the    *)
(* top and to nowhere; the file h may be on another file system.           *)
Linked(numOfH, locked, unstable, ext) ==
  Tree([r |-> "dir", s |-> "dir", f |-> "reg", h |-> "reg", l |-> "link", m |-> "link",
        k |-> "link"],
       [r |-> 1, s |-> 2, f |-> 3, h |-> numOfH, l |-> 5, m |-> 6, k |-> 7],
       [r |-> << <<"sub", "s">>, <<"back", "l">>, <<"xc", "f">>, <<"d", "k">> >>,
        s |-> << <<"xo", "f">>, <<"back", "l">>, <<"xh", "m">>, <<"x", "h">> >>],
       [l |-> "r", m |-> "h", k |-> None],
       [f |-> Hit, h |-> Hit], locked, unstable, ext)

Options ==
  [links : BOOLEAN, f : {FALSE}, types : {{}}] \cup
  [links : BOOLEAN, f : {TRUE}, types : {{"c"}, {"h", "S"}}]

TreeInputs ==
  {[tree |-> Linked(num, lock, gone, ext), pattern |-> <<"a">>, opts |-> o] :
     num \in {3, 4}, lock \in SUBSET {"s", "f"}, gone \in SUBSET {"s", "h"},
     ext \in {Ext, ExtDotted, ExtTwo}, o \in Options}

(* One file, which may also be a FIFO.                                     *)
Single(kind, text) ==
  Tree([r |-> "dir", f |-> kind], [r |-> 1, f |-> 2], [r |-> << <<"xc", "f">> >>],
       [l |-> "r"], [f |-> text], {}, {}, Ext)

(* The path given may lead to a file.                                      *)
FileInputs ==
  {[tree |-> [Single("reg", Hit) EXCEPT !.root = "f", !.name = name, !.locked = lock],
    pattern |-> <<"a">>, opts |-> o] :
     name \in {"top", "xc"}, lock \in {{}, {"f"}}, o \in Options}

Texts == UNION {[1 .. n -> {"a", "b", "newline"}] : n \in 0 .. 5}
         \cup { <<"a", "space", "b", "newline">>, <<"a", "newline", "high", "b", "newline">>,
                <<"a", "a", "b", "a", "newline">>, <<"b", "a", "a", "b", "newline">>,
                <<"space", "b", "a", "newline", "a">>,
                <<"b", NUL, "a", "newline">>, <<"a", NUL, "b", "newline", "b">>,
                <<NUL, "a", "b", "a", "b", "newline">> }
Patterns ==
  { <<"a">>, <<"a", "b">>, <<".">>, <<".", "b">>, <<"a", ".", "a">>,
    <<"a", "*", "b">>, <<"a", "?", "b">>, <<"a", "*", "a">>, <<"a", "b", "?">>,
    <<"b", "?", "a", "*", "b">>, <<"a", "*">>, <<"*">>, <<".", "*">>, <<"a", "?", "*">> }

TextInputs ==
  {[tree |-> Single("reg", text), pattern |-> p,
    opts |-> [links |-> FALSE, f |-> FALSE, types |-> {}]] : text \in Texts, p \in Patterns}
  \cup {[tree |-> Single("fifo", <<>>), pattern |-> <<"a">>,
         opts |-> [links |-> FALSE, f |-> FALSE, types |-> {}]]}

MCInputs == TreeInputs \cup FileInputs \cup TextInputs
=============================================================================
