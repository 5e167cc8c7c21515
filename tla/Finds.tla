------------------------------- MODULE Finds -------------------------------
(***************************************************************************)
(* a1/finds.c: dopath goes down a directory tree and calls readfile for    *)
(* every file it has not seen; readfile takes the file apart into lines    *)
(* and gives each to mygrep.  One buffer, fullpath, holds the path of the  *)
(* whole recursion.  Files may disappear between readdir and lstat.        *)
(***************************************************************************)
EXTENDS MyGrep, FiniteSets, SequencesExt

CONSTANTS
  Inputs,   \* the searches: a tree, a pattern and the options
  LineMax   \* LINE_MAX, the size of linebuf

None == "none"  \* no i-node
Char == Letter \cup {NUL, "newline", "space", "high"}  \* the bytes of a file

(* A tree has a kind ("dir", "reg", "link", "fifo") for every i-node, the  *)
(* number that stat shows for it, its entries <<name, i-node>>, the target *)
(* and content where there is one, the i-nodes that may not be read, and   *)
(* those that may disappear.  Only within one file system do i-nodes       *)
(* differ in their numbers.  Of a name, ext is what follows its first dot  *)
(* and type what follows its last ("none" if it has no dot).  The target   *)
(* is where stat comes to at last; realpath has resolved the root.         *)
IsTree(t) ==
  LET ino == DOMAIN t.kind
      names == DOMAIN t.ext \ {""}
  IN /\ IsFiniteSet(ino) /\ None \notin ino /\ t.num \in [ino -> Nat]
     /\ t.root \in ino /\ t.kind[t.root] # "link" /\ t.name \in names
     /\ t.locked \subseteq ino /\ t.unstable \subseteq ino
     /\ \A n \in names : t.ext[n] \in {"c", "h", "S"} => t.type[n] = t.ext[n]
     /\ \A i \in ino :
          /\ t.kind[i] = "dir" =>
               /\ t.entries[i] \in Seq(names \X ino)
               /\ \A j, k \in DOMAIN t.entries[i] :
                    t.entries[i][j][1] = t.entries[i][k][1] => j = k
          /\ t.kind[i] = "link" => t.target[i] \in ino \cup {None}
          /\ t.kind[i] = "reg" => t.content[i] \in Seq(Char)

ASSUME LineMaxAssumption == LineMax \in Nat \ {0, 1}
ASSUME InputsAssumption ==
  \A in \in Inputs :
    /\ IsTree(in.tree) /\ in.pattern \in Seq(Letter \cup {".", "*", "?"})
    /\ in.opts \in [links : BOOLEAN, f : BOOLEAN, types : SUBSET {"c", "h", "S"}]

VARIABLES
  tree, pattern,
  opts,      \* links: -l; f: -f was given; types: the endings it allows
  pc,        \* "call", "read", "grep", "loop"; final: "done", and
             \*   "stuck" in the open of a FIFO
  stack,     \* one frame per directory being read: its i-node, the length
             \*   of its path, and the position of the directory stream
  path,      \* fullpath, by components; "" stands for a trailing slash
  visited,   \* the numbers in the list behind root
  file, pos, \* of readfile: the file opened and the bytes read
  linebuf,   \* the bytes of a line; for mygrep, the string they are
  g,         \* the search of mygrep in linebuf
  out,       \* the lines printed, each with its path
  searched,  \* history: the files given to readfile
  failed     \* history: an lstat has failed

input == <<tree, pattern, opts>>
reading == <<file, pos, linebuf, g>>
history == <<out, searched, failed>>
vars == <<input, pc, stack, path, visited, reading, history>>

Ino == DOMAIN tree.kind
Kind(i) == IF i = None THEN "none" ELSE tree.kind[i]

(* stat instead of lstat.                                                  *)
Follow(i) == IF Kind(i) = "link" THEN tree.target[i] ELSE i

(* The i-node a path leads to, symbolic links on the way followed.         *)
Entry(dir, name) ==
  LET hits == {e \in ToSet(tree.entries[dir]) : e[1] = name}
  IN IF hits = {} THEN None ELSE (CHOOSE e \in hits : TRUE)[2]
Lookup(p) ==
  LET at[n \in 1 .. Len(p)] ==
        IF n = 1 THEN tree.root
        ELSE LET dir == Follow(at[n - 1])
             IN IF Kind(dir) # "dir" THEN None
                ELSE IF p[n] = "" THEN dir ELSE Entry(dir, p[n])
  IN at[Len(p)]

(* The i-node whose data dopath works with: a link that leads nowhere      *)
(* leaves statbuf as lstat filled it.                                      *)
Data(i) == IF opts.links /\ Follow(i) # None THEN Follow(i) ELSE i
Stat(p) == Data(Lookup(p))

(* checkEnding: what follows the first dot of the whole path.              *)
Ending(name) == IF name = "" THEN "none" ELSE tree.ext[name]
CheckEnding(c, p) ==
  /\ Ending(p[Len(p)]) = c
  /\ \A j \in 1 .. Len(p) - 1 : Ending(p[j]) = "none"

SkippedByType(p) ==
  opts.f /\ \A c \in {"c", "h", "S"} : CheckEnding(c, p) => c \notin opts.types

-----------------------------------------------------------------------------
Init ==
  /\ \E in \in Inputs : tree = in.tree /\ pattern = in.pattern /\ opts = in.opts
  /\ pc = "call" /\ stack = <<>> /\ path = <<tree.name>> /\ visited = {}
  /\ file = None /\ pos = 0 /\ linebuf = <<>> /\ g = Start
  /\ out = <<>> /\ searched = <<>> /\ failed = FALSE

(* dopath returns: to the loop of the directory above, or to main.         *)
Return == pc' = IF stack = <<>> THEN "done" ELSE "loop"

Unchanging(vs) == UNCHANGED <<input, vs>>

(* A link without -l, a number seen before, a file of another type.        *)
Mut_MarksSkipped ==
  LET i == Stat(path)
  IN /\ pc = "call" /\ i # None
     /\ \/ Kind(i) = "link" /\ ~opts.links
        \/ tree.num[i] \in visited
        \/ Kind(i) # "dir" /\ SkippedByType(path)
     /\ Return /\ visited' = visited \cup {tree.num[i]}
     /\ Unchanging(<<stack, path, reading, history>>)

Skip ==
  LET i == Stat(path)
  IN /\ pc = "call" /\ i # None
     /\ \/ Kind(i) = "link" /\ ~opts.links
        \/ tree.num[i] \in visited
        \/ Kind(i) # "dir" /\ SkippedByType(path)
     /\ Return
     /\ Unchanging(<<stack, path, visited, reading, history>>)

Mut_MarksDirectories(i) ==
  /\ pc = "call" /\ i # None /\ tree.num[i] \notin visited
  /\ Kind(i) = "link" => opts.links
  /\ visited' = IF Kind(i) = "dir" THEN visited \cup {tree.num[i]} ELSE visited

Visit(i) ==
  /\ pc = "call" /\ i # None /\ tree.num[i] \notin visited
  /\ Kind(i) = "link" => opts.links
  /\ visited' = visited \cup {tree.num[i]}

(* open or opendir fails, always or because the file has just gone.        *)
MayFail(i) == i \in tree.locked \cup tree.unstable

(* A file: open it; a link that leads nowhere gives no byte.               *)
VisitFile ==
  LET i == Stat(path)
  IN /\ Visit(i) /\ Kind(i) # "dir" /\ ~SkippedByType(path)
     /\ \/ MayFail(i) /\ file' = None
        \/ i \notin tree.locked /\ file' = i
     /\ pc' = IF Kind(file') = "fifo" THEN "stuck" ELSE "read"
     /\ pos' = 0 /\ linebuf' = <<>>
     /\ searched' = Append(searched, i)
     /\ failed' = (failed \/ (file' = None /\ i \in tree.unstable))
     /\ Unchanging(<<stack, path, g, out>>)

(* A directory: readfile reads nothing from it, then opendir and the loop. *)
VisitDir ==
  LET i == Stat(path)
  IN /\ Visit(i) /\ Kind(i) = "dir" /\ i \notin tree.locked
     /\ path' = Append(path, "")
     /\ pc' = "loop"
     /\ stack' = Append(stack, [dir |-> i, base |-> Len(path), next |-> 1])
     /\ Unchanging(<<reading, history>>)

(* opendir fails: the return leaves the slash behind.                      *)
VisitUnreadable ==
  LET i == Stat(path)
  IN /\ Visit(i) /\ Kind(i) = "dir" /\ MayFail(i)
     /\ path' = Append(path, "")
     /\ Return
     /\ failed' = (failed \/ i \in tree.unstable)
     /\ Unchanging(<<stack, reading, out, searched>>)

(* The file is gone, or the path leads nowhere: lstat fails, and dopath    *)
(* goes on with a statbuf that was never filled in.  Whatever it says,     *)
(* nothing can be opened; but the number it says may be marked, and the    *)
(* path gets a slash if it says that it is a directory.                    *)
LstatFails ==
  /\ pc = "call" /\ stack # <<>> /\ Lookup(path) \in tree.unstable \cup {None}
  /\ failed' = TRUE /\ Return
  /\ \/ UNCHANGED <<visited, path>>
     \/ /\ \E i \in Ino : visited' = visited \cup {tree.num[i]}
        /\ path' \in {path, Append(path, "")}
  /\ Unchanging(<<stack, reading, out, searched>>)

Top == stack[Len(stack)]

(* readdir; the name goes behind the slash of this directory's path.       *)
Mut_AppendsName ==
  /\ pc = "loop" /\ Top.next <= Len(tree.entries[Top.dir])
  /\ path' = Append(path, tree.entries[Top.dir][Top.next][1])
  /\ stack' = [stack EXCEPT ![Len(stack)].next = @ + 1]
  /\ pc' = "call"
  /\ Unchanging(<<visited, reading, history>>)

NextEntry ==
  /\ pc = "loop" /\ Top.next <= Len(tree.entries[Top.dir])
  /\ path' = Append(SubSeq(path, 1, Top.base), tree.entries[Top.dir][Top.next][1])
  /\ stack' = [stack EXCEPT ![Len(stack)].next = @ + 1]
  /\ pc' = "call"
  /\ Unchanging(<<visited, reading, history>>)

CloseDir ==
  /\ pc = "loop" /\ Top.next > Len(tree.entries[Top.dir])
  /\ path' = SubSeq(path, 1, Top.base)
  /\ stack' = Front(stack)
  /\ pc' = IF Len(stack) = 1 THEN "done" ELSE "loop"
  /\ Unchanging(<<visited, reading, history>>)

-----------------------------------------------------------------------------
(* readfile, one byte at a time.                                           *)
Content == IF Kind(file) = "reg" THEN tree.content[file] ELSE <<>>
ASCII(b) == b # "high"
Byte == Content[pos + 1]

ReadByte ==
  /\ pc = "read" /\ pos < Len(Content) /\ ASCII(Byte)
  /\ pos' = pos + 1
  /\ UNCHANGED <<input, stack, path, visited, file, history>>

Mut_FillsBuffer == Byte = "newline" \/ Len(linebuf) > LineMax - 1
LineEnds == Byte = "newline" \/ Len(linebuf) >= LineMax - 1

Store == ReadByte /\ ~LineEnds /\ linebuf' = Append(linebuf, Byte) /\ UNCHANGED <<pc, g>>

(* strlen, and the string in a buffer: a NUL in a line cuts it short.      *)
StrLen(s) ==
  CHOOSE n \in 0 .. Len(s) : At(s, n) = NUL /\ \A k \in 0 .. n - 1 : At(s, k) # NUL
CString(s) == SubSeq(s, 1, StrLen(s))

SearchLine ==
  /\ ReadByte /\ LineEnds /\ pc' = "grep" /\ g' = Start
  /\ linebuf' = CString(linebuf)

(* The end of the file, or a byte that is not ASCII, with which the rest   *)
(* of the file is left: what is in linebuf is never searched.              *)
CloseFile ==
  /\ pc = "read"
  /\ pos < Len(Content) => ~ASCII(Byte)
  /\ Return
  /\ Unchanging(<<stack, path, visited, reading, history>>)

Grep ==
  /\ pc = "grep"
  /\ UNCHANGED <<input, stack, path, visited, file, pos, searched, failed>>

GrepRound ==
  /\ Grep /\ ~Found(pattern, linebuf, g) /\ ~NotFound(linebuf, g)
  /\ g' = Round(pattern, linebuf, g)
  /\ UNCHANGED <<pc, linebuf, out>>

Mut_KeepsLine ==
  /\ Grep /\ (Found(pattern, linebuf, g) \/ NotFound(linebuf, g))
  /\ out' = IF Found(pattern, linebuf, g) THEN Append(out, <<path, linebuf>>) ELSE out
  /\ pc' = "read" /\ UNCHANGED <<g, linebuf>>

GrepEnds ==
  /\ Grep /\ (Found(pattern, linebuf, g) \/ NotFound(linebuf, g))
  /\ out' = IF Found(pattern, linebuf, g) THEN Append(out, <<path, linebuf>>) ELSE out
  /\ pc' = "read" /\ linebuf' = <<>> /\ UNCHANGED g

Next ==
  \/ Skip \/ VisitFile \/ VisitDir \/ VisitUnreadable \/ LstatFails \/ NextEntry \/ CloseDir
  \/ Store \/ SearchLine \/ CloseFile \/ GrepRound \/ GrepEnds

Spec == Init /\ [][Next]_vars

(* One process, which the kernel runs.                                     *)
FairSpec == Spec /\ WF_vars(Next)
-----------------------------------------------------------------------------
TypeOK ==
  /\ pc \in {"call", "read", "grep", "loop", "done", "stuck"}
  /\ \A k \in DOMAIN stack :
       /\ stack[k].dir \in Ino
       /\ stack[k].base \in 1 .. Len(path) - 1
       /\ stack[k].next \in 1 .. Len(tree.entries[stack[k].dir]) + 1
  /\ visited \subseteq {tree.num[i] : i \in Ino} /\ file \in Ino \cup {None}
  /\ pos \in 0 .. Len(Content) /\ Len(linebuf) < LineMax
  /\ g.sspos \in 0 .. Len(pattern) /\ g.i \in g.linepos .. LineMax

(* finds.c:215-231: the one buffer always holds what its user needs.  The  *)
(* file being read is the one its path leads to, and below the slash of    *)
(* every directory in progress is that directory's path, also after an     *)
(* opendir or lstat that failed left something behind.                     *)
PathRight ==
  /\ pc = "call" => Lookup(path) # None
  /\ pc \in {"read", "grep"} => file \in {None, Stat(path)}
  /\ \A k \in DOMAIN stack :
       Follow(Lookup(SubSeq(path, 1, stack[k].base))) = stack[k].dir

(* a1/README.txt, "files are only searched for ONCE", however many links,  *)
(* names and cycles of links lead to them, and whatever fails.             *)
OnceEach == IsInjective(searched)

(* What the given path and the entries of a set of directories name.       *)
Named(dirs) ==
  {<<tree.name, tree.root>>} \cup
  {<<e[1], Data(e[2])>> : e \in UNION {ToSet(tree.entries[d]) : d \in dirs}}

(* Within n steps from the top, and at all.                                *)
OpenDirs == {i \in Ino : Kind(i) = "dir" /\ i \notin tree.locked}
ReachedDirs ==
  LET within[n \in 0 .. Cardinality(Ino)] ==
        IF n = 0 THEN {} ELSE {e[2] : e \in Named(within[n - 1])} \cap OpenDirs
  IN within[Cardinality(Ino)]

(* A file that is asked for: its type is what follows the last dot of its  *)
(* name.                                                                   *)
Wanted(e) ==
  /\ Kind(e[2]) # "dir" /\ (Kind(e[2]) = "link" => opts.links)
  /\ opts.f => tree.type[e[1]] \in opts.types
WantedFiles == {e[2] : e \in {n \in Named(ReachedDirs) : Wanted(n)}}

OneFileSystem == \A i, j \in Ino : tree.num[i] = tree.num[j] => i = j
OneDot == \A n \in DOMAIN tree.ext : tree.type[n] = tree.ext[n]
DotlessDirs ==
  \A e \in Named({i \in Ino : Kind(i) = "dir"}) : Kind(e[2]) = "dir" => tree.ext[e[1]] = "none"

(* finds.c:178-230: nothing is searched but files that can be reached and  *)
(* are asked for; and at the end all of them have been, within one file    *)
(* system, whose i-node numbers alone alreadyVisited compares, and, with   *)
(* -f, if names have no dot but the one before the type, as checkEnding    *)
(* looks at the first dot of the whole path.                               *)
AllSearched ==
  /\ ToSet(searched) \subseteq WantedFiles
  /\ pc = "done" /\ ~failed /\ OneFileSystem /\ (opts.f => DotlessDirs /\ OneDot) =>
       WantedFiles \subseteq ToSet(searched)

(* The bytes after a up to b are a line with its newline, in a text that   *)
(* is ASCII so far.                                                        *)
IsLine(text, a, b) ==
  /\ a < b /\ text[b] = "newline" /\ (a = 0 \/ text[a] = "newline")
  /\ \A k \in a + 1 .. b - 1 : text[k] # "newline"
  /\ \A k \in 1 .. b : ASCII(text[k])

Lines(text) ==
  {SubSeq(text, ab[1] + 1, ab[2] - 1) :
     ab \in {x \in (0 .. Len(text)) \X (1 .. Len(text)) : IsLine(text, x[1], x[2])}}

(* finds.c:255-278 with mygrep.  Every line printed stands in the file of  *)
(* that path and matches the pattern, where the pattern has a meaning; and *)
(* no such line of a file that was read is missed, if linebuf can hold all *)
(* of them and the pattern says one thing only.  Of a line with a NUL that *)
(* is what stands before it.                                               *)
OutputTrue ==
  \A k \in DOMAIN out :
    LET text == tree.content[Stat(out[k][1])]
        line == out[k][2]
    IN /\ \E a \in 0 .. Len(text) - Len(line) : SubSeq(text, a + 1, a + Len(line)) = line
       /\ WellFormed(pattern) => RegexMatches(pattern, line)

LinesFound ==
  pc \in {"loop", "done"} /\ OneWay(pattern) =>
    \A i \in ToSet(searched) \ (tree.locked \cup tree.unstable) :
      Kind(i) = "reg" /\ (\A l \in Lines(tree.content[i]) : Len(l) < LineMax) =>
        \A l \in Lines(tree.content[i]) :
          RegexMatches(pattern, CString(l)) =>
            \E o \in ToSet(out) : Stat(o[1]) = i /\ o[2] = CString(l)

OutputExact == OutputTrue /\ LinesFound

(* The search ends, whatever cycles links make, if the pattern has a       *)
(* meaning and no file blocks the open.                                    *)
Terminates ==
  WellFormed(pattern) /\ (\A i \in Ino : Kind(i) # "fifo") ~> pc = "done"
=============================================================================
