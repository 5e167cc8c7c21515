# A verification project for cs410

The repository holds the assignments of an operating-systems course: a small
shell, three solvers of the travelling-salesman problem (threads, processes, a
sorter), a web server with CGI scripts, a file searcher with its own regular
expressions, a temperature station, and some ELF listings. The programs are
small, but most of them are about exactly what is hard to test: signals that
arrive anywhere, processes that end in any order, pipes that fill, descriptors
that leak, results read from shared memory.

This directory models them in TLA+, checks the models with TLC and proves the
most important properties with TLAPS. `PROJECT.json` holds the same information
in tabular form: components, runs, mutants, the map from definitions to source
lines, findings, hazards and theorems.

## 1. Inventory

| component | state it keeps | operations | hard behaviour |
|---|---|---|---|
| `a2/myshell.c`, job control | `cpids[50]`, `prompt_buf`, locals of `run_process` | prompt loop, `fork`/record/`waitpid`, `sigint_handler`, `sigchld_handler` | handlers interrupt `main` and each other; `waitpid` in two places; `siglongjmp` out of anything |
| `a2/myshell.c`, pipelines | `pipe1`, `pipe2`, the descriptor table | `setup_pipes`, `dup2`/`close` in parent and child | leaked ends, failed `pipe()`, stages run one after another |
| `a2/myshell.c`, parsing | `cmds`, `pipeline`, `argtokens`, `FlagOpts` | `run_command`, `tokenize_cmd`, `check_*` | `strtok` state, array bounds, `size = 3` |
| `a2/tsp_t.c` | one context and stack per start node | `my_thr_create`, `find_paths`, `swapcontext` | switch in the middle of a recursion, end at the first return |
| `a2/tsp_p.c`, `a2/find_paths.c` | shared segments for the matrix and for each result | fork n searchers, wait n times, print | children that fail, one-page regions, segments never removed |
| `a2/tspsort.c` | `printed`, `distance`, `line` | selection by smallest distance | the role of index 0 |
| matrix input (twice) | `mtx`, `pos`, `nsize` | `process_matrix_input` | rows of other lengths, blanks at line ends |
| `a3/webserv.c` (= `a3_optional/webserv.c`) | socket, one process per connection | accept, fork, parse, answer by file type | zombies, failing fork and popen, code that runs on after a 404, requests cut short, clients that stop reading or leave, picture sizes |
| `a3/my-histogram.c`, `runhistplot.cgi`, `rawdatahtml.cgi` | the file `plotresult.jpeg` | `grep`/`wc` per pattern, gnuplot | two requests plot into one file |
| `a1/finds.c`, traversal | `fullpath`, list of visited i-nodes | `dopath`, `markVisited`, `readfile` | links, cycles, one global path buffer, errors |
| `a1/finds.c`, `mygrep` | positions in pattern and line | matcher for `.`, `*`, `?` | rounds that do not advance |
| `a1/my_printf.c` | none | conversions | negative numbers |
| `a3_optional/arduinoGetTemp.c`, `tempStation.ino` | serial line, `readTempMode`, digits | command/answer over a serial line | stale bytes, lost commands, waiting for good |
| `a0` | libbfd's | ELF listings | none: straight-line library calls, not modelled |

How they interact: `myshell` starts programs and is connected to them by pipes,
the terminal and signals. `tsp_p` starts `find_paths` and shares memory with it;
the output of `tsp_p` and `tsp_t` is the input of `tspsort`. `webserv` runs the
CGI scripts, which run `my-histogram`, gnuplot and `arduinoGetTemp`; the latter
talks to the board that runs `tempStation.ino`.

What makes each correct:

* job control: no dead child is forgotten, no foreground child is left behind,
  every line ends, an interrupt at the prompt is harmless, the table of pids is
  used as it is meant to be;
* pipelines: a stage reads what the previous one writes, end of file can arrive,
  a line ends unless its data do not fit, a known number of descriptors leaks;
* the solvers: every printed line is a closed tour through all nodes with its
  length, and all tours are printed;
* the web server: every connection ends, whatever fails, and is open in no
  process of another one; a proper request gets its whole answer; a picture has
  the announced length; a browser sees its own plot;
* `finds`: every reachable file of the types asked for is searched once (within one
  file system), the path buffer names it while it is, matching lines are printed and
  no others, and the search ends;
* the temperature station: no digit of the display flashes its neighbour's segments
  and each shows its number in the pause after it, a request gets one reading, and it
  ends if the device is there.

## 2. Plan

Modules, in the order they were written. "Done" means modelled, run,
and with every property's mutant.

1. `MyShell` (job control) - done; every safety property proved in
   `MyShellProofs`.
2. `ShellPipeline` (descriptors and data) - done; every safety property proved in
   `ShellPipelineProofs`.
3. `Tours`, `TourSpec` (what a solver promises), `TspThreads` (`tsp_t.c`) - done;
   every safety property and the refinement of `TourSpec` proved in
   `TspThreadsProofs`.
4. `TspProcs` (`tsp_p.c` with `find_paths.c`), the second implementation of
   `TourSpec` - done; every safety property, what the recursive search computes and
   the refinement proved in `TspProcsProofs`.
5. `MatrixInput`, `TspSort`, the input and output sides of the solvers - done;
   every safety property proved in `TspTextProofs`.
6. `WebServer` with the plotting script - done; every safety property proved in
   `WebServerProofs`.
7. `MyGrep` and `Finds` - done; every safety property proved in `FindsProofs`.
8. `TempStation` with `arduinoGetTemp` - done; every safety property proved in
   `TempStationProofs`.
9. Not planned further: `MyPrintf` and `ShellParse`, conversions and word
   splitting without state of their own.

No module that is proved about declares a `RECURSIVE` operator; parameters are
`CONSTANTS` with named assumptions.

## 3. The modules and the code

### `MyShell`

`pc` is the place in `main`: `setup` (between the two `sigaction` calls and
`sigsetjmp`), `top` and `read` (prompt loop before and in `getline`), `next` (the
loop over `cmds`), `stage` (about to call `run_command` for the next stage),
`record` (parent, after `fork`), `wait` (the `do`-`while` of `run_process`), and
the final `exit` and `crash`. `table` is `cpids`, `child` and `status` are locals
of `run_process`; `status` is reduced to whether it decodes to an end. The kernel
is the environment: `proc` gives every process one of the states `forked` (still
the shell's code), `running`, `stopped`, `zombie`, `clone` (a child that went to
the shell's prompt) or `free` (pid not in use); pids are handed out again.

One action is one statement or one system call of the code: `Fork` is the call
only, `Record` the assignment to `cpids` after it, so that signals and children
come in between. `sigchld_handler` is three actions (entry, one `waitpid`, end)
because SIGINT can break into it; whether it can is `chldHoldsInt`, chosen once,
since `sigchld_action.sa_mask` is an uninitialised local. `sigint_handler` is one
action: nothing that happens during its loop over `cpids` could change what it
does except the death of a child, and that is the same as the death just before.
A command line is a sequence of commands, each with its stages of kind `fg`, `bg`
or `bad`; `Stages` applies the `size = 3` branch, including the null entry.

Not in the model: descriptors (next module); stops before `execvp`; what a
`clone` does after it took the prompt; an unrelated process that got an old pid;
`stdin` shared with a child whose `execvp` failed.

### `ShellPipeline`

The shell's descriptor table, the two globals `pipe1` and `pipe2` as pairs of
NUMBERS, the pipes with the units in them, and the stages as processes that emit
and pass on units. `OpenPipes` is the head of `setup_pipes` with both `pipe()`
calls, of which either may fail and leave the old numbers; `ForkStage` is the
fork with everything the child does up to `execvp` (`Wire`, `Redirect`);
`CloseEnds` is what the parent closes; `Wait` is the return of `waitpid`. The
child's own calls are taken in one step: between fork and its closes a child
holds more pipe ends for a moment, which can delay an end of file, never cause
one. Programs write all they have before they read on.

### `Tours`, `TourSpec`, `TspThreads`

`Tours` has the problem: matrices, walks, tours and the lines a correct run
prints. `TourSpec` is the promise: lines are added, each a tour with its length,
none twice, and the end comes when all are there. `TspThreads` has one stack of
`find_paths` calls per thread; `PrintTour` is the base case with the output and
`swapcontext`, `Call` the recursive case, `Skip` an iteration that does neither,
`Return` and `Finish` the end of an inner and of the outermost call; `Finish`
ends the process because of `uc_link`. `visited`, `path` and `sum` are carried
separately, as in the code, and `CallsConsistent` says that they agree.

### `TspProcs`

`pc` and `node` follow the three loops of `tsp_p.c`: fork, wait, print. A searcher
is `forked` (before `execvp`), `running`, `zombie` or `gone`. What one searcher
computes (`Results`) is `find_paths` as one recursive function of the walk so far
and the loop variable j, which closes a tour, calls itself, or goes to the next
round: between two calls of `strcat` a search touches nothing but the matrix, so
only the order of the `strcat` calls of different searchers, and when they happen,
is left to the steps (`Write`). A region holds `PageLines` lines; the call that does
not fit is `Overflow`: `strcat` fills the page and runs into whatever is mapped
behind it (in the searchers that is the matrix) or ends the searcher. Either way
`spoiled` holds from then on and every line may come out right, with a wrong sum
(written -1), or not at all; on the complete graph of seven nodes all three happen.
`Faulty` are the nodes whose searcher may fail to start (`ExecFails`) or be killed,
between two lines (`Killed`) or within `strcat` (`KilledWriting`). A searcher that
ends within `strcat` leaves a part of a line: its node is in `torn`. What `main`
prints of such a region ends in the middle of a line (`cut`), and the next line
printed stands behind it and is no line any more (`Behind`; its sum is written -1,
too). A torn region that is full has no null byte, and `printf` runs on into what is
mapped behind the page, another region perhaps, or ends `main` with a signal
(`PrintPastPage`); this needs an overflow before it. `autoReap` is the disposition
of SIGCHLD `tsp_p` was started with: when it is ignored there are no zombies, and
every `waitpid` blocks until all children are gone and fails (`WaitFails`).
`StartFails` stands for a failing `shmget` or `fork`; the parent exits and leaves
its searchers behind.

### `MatrixInput`, `TspSort`

`MatrixInput` is `process_matrix_input`, line by line; a line is a sequence of
numbers and possibly a blank before its newline, which makes one more token. Some of
its names begin with `input` so that one module can reason about both. Words that
are no numbers and an empty input are left out. `TspSort` reads lines of which only
the distance is kept, then makes one action of every round of the outer loop;
`Smallest` is the inner loop. Blank lines are skipped by the code and do not appear.

### `MyGrep`, `Finds`

`MyGrep` is the matcher: a search is a record of the three positions of `mygrep`,
and `Round` one round of its loop; `RegexMatches` says what a pattern means,
independently of how the code looks for it. `Finds` extends it with `dopath` and
`readfile`. `path` is `fullpath` by components (a trailing slash is an empty one),
`stack` the directories being read, each with the place of `ptr` and of `dirp`,
`visited` the list behind `root`. One action is a call of `dopath` with one outcome
(`Skip`, `VisitFile`, `VisitDir`, `VisitUnreadable`, `LstatFails`), one round of the
`readdir` loop or its end, one byte of `readfile`, or one round of `mygrep`. The
system is the tree: names to i-nodes, so that links, second names and cycles are
possible, and the top may be a file; an i-node may be unreadable, or may vanish
between `readdir` and `lstat` or before `open`. `tree.num` is the number `stat`
shows for an i-node, which is all that `markVisited` and `alreadyVisited` keep and
compare: two files on different file systems may have the same one, since `st_dev`
is never looked at. After a failing `lstat` the model marks any number at all, or
none, since `statbuf` was not filled in. A FIFO blocks the open (`stuck`); of the
other special files none is a kind (a character device gives bytes without end or
none, which depends on the device). Of a name two things are kept: what follows its
first dot, which is what `checkEnding` looks at, and what follows its last, which is
the type a reader of the options would expect and what `Wanted` says. A byte is a
letter, a blank, a newline, the null byte or one above 127; `isASCII` lets the null
byte pass, it is stored, and `strlen` then cuts the line there (`CString`).

What the model shows beside the properties, each a condition of one of them: a last
line without a newline is never searched, and neither is what follows a byte that is
not ASCII (the comment at `finds.c:260` says "contains non-ascii char, skip file",
but the lines before that byte have been searched and printed by then); what stands
behind a null byte in a line is neither searched nor printed; a file whose number
another file system has used before is not searched; the byte that finds `linebuf`
full is lost; `*` and `?` take all they can and never give back, so that `a*a` does
not find "aa", and a pattern whose end is a repetition does not match at the end of
a word; a pattern that begins with `*` or contains `.*` never ends; with `-f`, a dot
in the name of a directory hides all files below it, and a second dot in its own
name hides a file.

### `TempStation`

The board is `setup`, then `loop` and `serialEvent` in turn. `loop` is one step
because nothing it reads is written by anyone else. `leds` holds the display's pins
between two loops; what they go through during one is a function of them and of the
digits kept: `Frame(d, k, ...)` is the display after the k-th of the twenty calls of
`digitalWrite` for digit d (eight of `clearLEDs`, five of `pickDigit`, seven of
`pickNumber`), and `Display` strings the four digits together. While a digit is being
cleared or built up it shows a part of its number, which may look like another number
(a part of 8 is 0, or 7); this is a matter of microseconds, and `DisplayRight` does not
say that it never happens. It says that these are always segments of the right number
at the right digit, and that in the pause after each digit the number is complete.
The first two digits always show 0, and of a reading of 100 degrees or more the last two
digits: 102 is shown as 0002, where `a3_optional/README:21-23` speaks of "the two most
significant digits". Which pin is wired to what is not modelled (segment a and the
serial port share pin 1). The line consists of `toBoard`, `wire` and the
host's `inbuf`; an answer is two parts of text and the delimiter, so that parts
can get lost or mixed. A reader goes from `open` through the flush and the command to
its reading loop, and back to `open` when it executes itself (`again`). How an
earlier program left the terminal (`tty`) is chosen once: canonical mode, which
`arduinoGetTemp` means to switch off but clears in the wrong word (line 54); the
translation of carriage returns; whether the first open resets the board.
`LostInSetup` is what the boot loader swallows. The device may be missing from the
start or go at any time (`Unplug`, which also takes the board's power and what is on
the line; nobody plugs it in again). The result of `open` is not looked at, nor that
of any call after it, so the reader then repeats a failing `read` for good (`spin`;
`OpenFails`) until the user ends it. Requests come one at a time:
two readers at once take each other's bytes, and neither could be promised
anything. `execvp` finds the program. Nothing drives pin 13 (line 106); while it
is LOW no reading is due, and `RawReaderEnds` needs it HIGH.

### `WebServer`

The server's loop is `Accept`, `Fork` or `ForkFails`, `Close`. A handler is one
record `h[k]`: `pc` and the locals that matter. `read`, `parse_get_request` and
`stat` are one step, since nobody else is involved; then one step per `write`,
`popen` and `pclose`. The handler calls `read` once, and what has come by then may
be a part of the request: `req[k]` is what the browser asks for, `got[k]` what its
handler reads, the whole or one of `Pieces`, and it answers that. `Writes` waits
while the client's buffers are full (`net` is "full": a client that has stopped
reading, `Stall`, and may go on, `Resume`, or leave), and has the outcome that
SIGPIPE ends a handler whose client has left. `open[k]` is the set of processes that
have connection k open; `fork` and `popen` pass on whatever the parent has
(`Inherits`), so the programs that a handler starts hold its connection too. After a
404 `path_stat` has any type. A request without a second word crashes in
`parse_get_request` (`ReadNothing`), an argument without "=" where `token2` is used
(`BadArgument`), a page or picture that cannot be opened at the first use of
`regfile` (`Unusable`), another file at `fclose`. The `strrchr` that looks for the
extension always finds a dot, because `parse_get_request` puts one in front: a name
without an extension is one that is not supported and gets a 501 (`Unsupported`). A
script is `begun` and ends, or plots in between: `gnuplot` empties the picture file
when it opens it, and the script closes it before it prints the page. A browser that
wanted a plot asks for the picture afterwards, over a connection of its own. The
sizes a picture seems to have while it is being written are arbitrary; each chunk is
taken from the file as it is then, which allows more than the buffer of `stdio`
does. A picture smaller than a chunk leaves a negative `leftover`, which `fread`
takes for a huge size: if a plot has grown meanwhile that runs over `binarybuf`
(`Grown`). gnuplot is taken to succeed, and the output of a script to fit its pipe
while its handler waits for the client. Handlers that end stay as zombies and count
against `procLimit`; so do handlers and shells that run. The other descriptors
(listening socket, pipes of `popen`) and the lengths of names are left out.

## 4. The runs

| run | checks | instance |
|---|---|---|
| `myshell_safety` | `ZombieCoveredIfHeld`, `ForegroundOwned`, `TableAccounts`, `IdleInterruptHarmless` | 2 pids, 2 slots, at most 2 commands, 8 lines |
| `myshell_live` | `LineFinishes`, `ZombiesCollected` | 2 pids, 2 slots, 2 lines, no symmetry |
| `myshell_pipesize` | finding: `PipeSizeRefused` | 3 slots |
| `pipeline_all` | `TypeOK`, `TwoLeakedPerPipeline`, `StagesConnected`, `EndOfFileReachable`, `LineEndsOrSticks`, `SmallLineEnds` | pipe of 2 units, 9 descriptors, 3 pipelines, 10 kinds |
| `tspthreads_all` | `CallsConsistent`, `DepthBounded`, `OutputSound`, `RoundRobin`, `PrintsAllTours`, `Terminates` | all 4096 directed graphs of 4 nodes |
| `tspprocs_faults` | `TypeOK`, `ReadAfterAllEnded`, `OutputSound`, `HealthyNodesComplete`, `PrintsAllTours`, `Terminates` | all 64 graphs of 3 nodes, regions of 1 line, every searcher may fail |
| `tspprocs_page` | finding: `LinesAreTours` | complete graph of 3 nodes, regions of 1 line |
| `tspsort_sorted` | `SortedOutput` | all inputs of up to 5 lines, 4 distances |
| `matrix_read` | `SquareReadRight` | all inputs of up to 3 lines of up to 3 numbers |
| `finds_search` | `TypeOK`, `PathRight`, `OnceEach`, `AllSearched`, `OutputExact`, `Terminates` | one tree of 7 i-nodes with all options and failures, two files of which may have the same number; a file as the top; one file, all contents of up to 5 characters and 8 longer ones or with a null byte, 14 patterns |
| `tempstation_request` | `DisplayRight`, `OneReading`, `RawReaderEnds` | 2 requests, 32 ways the line, pin 13 and the device may be |
| `webserver_requests` | `Isolated`, `AnswerRight`, `LengthHonoured`, `OwnPlotShown`, `ConnectionEnds` | 2 browsers, 9 requests, cut in two ways or whole, at most 3 or 7 processes |

The type invariants of `MyShell`, `TspThreads`, `TspSort`, `MatrixInput`,
`TempStation` and `WebServer` are proved (section 5) and need no run; those of
`ShellPipeline`, `TspProcs` and `Finds` are checked and proved. The one of `Finds`
says more than types: no byte is written behind `linebuf`, and the matcher never
looks behind its pattern.

**Bounds.** Two pids are enough for job control: one child that is waited for and
one in the background, or two in a pipeline; since pids are reused, any number of
children follow one another. Two slots make the table run out with a three-stage
pipeline, and let a reaped entry stand in front of a live one. The lines contain
every kind of stage, of pipeline size (1 to 4) and more commands than are kept. The
liveness run takes fewer lines because symmetry cannot be used there. A pipe of two
units distinguishes empty, partly full and full; outputs of `Cap` and of `Cap + 1`
and `Cap + 2` units are on both sides of the limit; in one line it is the second of
three stages that writes most. Nine descriptors let two pipelines have all their
pipes, the second of them among the descriptors the first has leaked, and leave two
for the third, so that a `pipe()` of it fails and stale numbers are used while older
pipes are still open. Four nodes give every thread up to six tours and three levels
of calls, and with all 4096 edge sets there are threads with dead ends at every
depth; weights differ from edge to edge so that a wrong sum shows. For `tsp_p` three
nodes are enough for three searchers in any order; the complete graph of three nodes
has two tours per node, one more than a region of that run holds, and the others at
most one. Three lines of three numbers contain 1, 2 and 3 square matrices with and
without blanks; five lines of four distances contain ties, and an INT_MAX. The
sensor shows one value only, 62 (86 degrees, two different digits), since two would
make the run of the temperature station sixteen times as large; the theorems cover
all values. A read of the browsers' requests may get nothing of the name or a part
of it that names another file. Which browser asks for which of two requests makes no
difference, so that the run takes one order of them (`MCAsks`). Three processes are
enough for a handler with its script, then for one without, then for none; seven for
both requests of both browsers and a script each.

**What the findings show.** (1) `else if (size = 3)` makes the refusal of other
pipeline sizes unreachable: four stages run three, one stage crashes. (2)
`find_paths` writes past its page of results when a node has too many tours, and
`tsp_p` prints lines that are no tours.

**Behaviour without a run of its own** that the models contain: `tsp_t` ends with
its first thread, although a comment (`tsp_t.c:43-44`) says that threads go on until
all are finished; `PrintsAllTours` shows that nothing is lost by it, because every
tour passes every start node and so all threads find equally many. SIGINT can leave
`sigchld_handler` with dead children uncollected and no signal pending, because its
mask is uninitialised (`ZombieCoveredIfHeld` has the condition); the 50 slots of
`cpids` do not suffice for 20 pipelines of three, and the shell then exits
(`NoSlot`); `tspsort` chooses no line whose distance is INT_MAX and prints
`line[-1]` (the condition of `SortedOutput`); `process_matrix_input` never returns
the -1 its comment promises; a foreground child reaped by the handler leaves
`run_process` deciding on a stale `status` (`LineFinishes` names the spin as the
only way not to finish); a SIGINT before `sigsetjmp` crashes the shell; a SIGINT
while a reaped child is in `cpids` ends it; a file smaller than 80 bytes is sent as
a picture of 80; a missing file may be answered with a 404 and a listing; once
zombies have used up the processes, connections are closed without an answer; a
request that the network cuts is answered as the part that came; a client that sends
nothing or stops reading keeps its handler for good; a searcher killed within
`strcat` spoils the line printed behind its own; a reader of the temperature without
a device never ends by itself, and neither does one on a line in canonical mode; a
writer can stick behind the shell's own read end (`LineEndsOrSticks`).

**Fairness.** `MyShell`: the shell's own steps, its two handlers, a child's way to
`execvp` and the end of a program are weakly fair: the kernel schedules them, and a
program that never ends keeps a shell waiting by design. Input, stops and interrupts
are not fair. `ShellPipeline`: the shell and each program are weakly fair; whether a
program CAN go on is decided by the pipes. `TspThreads`: weak fairness of the whole,
a single process that never waits. `TspProcs`: the parent and each searcher are
weakly fair; failures are not. `Finds`: weak fairness of one process. `TempStation`:
board, line and readers are weakly fair, and `Setup` by itself, so that the board's
start ends; that a user gives up is not. That the device stays is not assumed
either: `RawReaderEnds` names its going as the other outcome. `WebServer`: the
server, each handler and each script are weakly fair. Nobody has to connect, to
send, to read or to leave: a browser that never sends keeps its handler in `read`
for good, since there is no timeout, and one that stops reading in `write`.
`ConnectionEnds` therefore begins when the client has sent something or has left,
and names the waiting `write` as the only way for a connection not to end.

Deadlock is not checked where the system may really stop: a shell that has
exited, a pipeline that sticks, a solver that is done.

## 5. The proofs

Every safety property of section 4 and both refinements of `TourSpec` are theorems:
they hold for every value of the constants, where the runs show a small instance.
Where a property is not inductive the proof module defines the invariant it follows
from.

**`MyShellProofs`** (any number of pids and slots, any set of lines):

* `TypeCorrect`: `TypeOK` is inductive. The steps are grouped by actor
  (`MainStepType`, `SignalStepType`, `ChildStepType`); the lemmas `StagesType`,
  `FirstCommandsType` and `FreeSlotIsFirst` say what the helpers return, the last
  one by well-founded choice of a least element.
* `ZombiesNotForgotten`: `ZombieCoveredIfHeld` is inductive relative to the type
  invariant (`ZombieStep`): a death sets the pending signal, the signal becomes
  the running handler, and the handler ends only when there is no zombie.
* `ForegroundDiscipline`: `ForegroundOwned` is not inductive, because an
  interrupt signals what is in the table and nothing says that the awaited child
  is there. `ForegroundInv` adds that the awaited child is in `cpids`
  (`WaitedRecorded`) and that a living child about to be recorded but not waited
  for is a background one (`UnwaitedIsBackground`).
* `TableCounts`: `TableAccounts` counts the stages recorded so far from the place
  `main` has reached in the line. `AccountsInv` adds that between lines no command
  is left and that inside a command what is still to do is a part of its stages
  (`LineAccounts`); recording one more stage then adds one to the count and takes
  the first free slot, which is the next one.
* `IdleInterruptSafe`: at `read` the table is empty (`IdleStep`), so the loop of
  the handler signals nobody and finds no stale entry.

**`ShellPipelineProofs`** (any number of descriptors, any capacity, any lines of
two or three stages): `TypeCorrect`, and `TwoLeaked`, `Connected` and `EndOfFile`
from one invariant, `PipesInv`. The shell works with descriptor NUMBERS, so the
invariant has to say where they point: while a line is run `pipe1` and `pipe2` are
four different numbers above 2 (`Apart`) and each of them is still the end it was
made as or has been closed, depending on how many stages have been started
(`PipesInPlace`); what a running stage reads, writes and holds (`StageInPlace`);
how many descriptors are open at every place of `run_process` (`OpenNow`); and that
nobody holds an end of a pipe not yet made (`TableKnown`), without which a new pipe
would not be new. `WireHoldsNothingNew` keeps `dup2` from giving a child anything
its table did not have. The part about numbers is conditioned on `AllPipesMade`, as
the three properties are: after a failing `pipe()` the old numbers are used again,
which is what the third pipeline of the run explores.

**`TspThreadsProofs`** (any number of nodes, any matrices):

* `TypeCorrect`, then `CallsStayConsistent`: `CallsConsistent` is inductive with
  the type invariant; pushing a call needs `PathExtends` (a walk extended by an
  unvisited neighbour is a walk), advancing `j` disturbs nothing.
* `DepthStaysBounded`: a walk of different nodes without the start has at most
  N - 1 nodes (`PathLength`, by cardinality), and the depth is one more.
* `OutputIsSound`: what `PrintTour` appends is the path of a consistent call that
  has visited everything and has an edge back.
* `ThreadsTakeTurns` and `AllToursArePrinted` follow from `TspInv`. `SumsRight`:
  the sum of every call is the weight of its path; weights are defined by recursion
  over the path, and `WeightIsSum` turns that into the last of the partial sums, of
  which one more edge is one more (`WeightExtends`). `SearchRight`: a thread has
  printed a tour exactly when no call on its stack is still on the way to it, which
  needs to know where the callers are (`CallersWait`). `LinesOnce` follows.
  `TurnsInv`: line n is one of the thread n - 1 modulo N. That nothing is missing
  when the first thread returns (`AllPrinted`) is the argument the code leaves
  unsaid: a tour is a cycle through all nodes, and turning it to another start
  maps the tours of one node one-to-one to those of another (`TourIsCycle`,
  `TurnedIsCycle`, `CycleIsTour`), so all threads have equally many; the one that
  returns has printed all of its own, and the threads took turns.

**`TspProcsProofs`** (any number of nodes, any matrices, any size of a region, any
failures):

* `RegionsReadWhenQuiet`: `main` only counts its calls of `waitpid`, so the
  invariant (`CountInv`) is about numbers: while it waits, no searcher is unborn
  and at least `node` of them are gone. A wait that returns a child adds one to the
  gone; one that fails finds them all gone; after N waits the gone are N of N
  nodes, hence all (`NodeSets`, `WaitRound`).
* `SearchIsComplete`: what `find_paths` appends for a start node are the lines of
  its tours, each once. The library's induction rules are not available for the
  recursion, so both halves go through a rank that every round and every call
  lowers (`Rank`, `RankDrops`): by `UpTo`, a set of numbers that has 0 and with
  each its successor has them all. `SearchExists` gives a function that satisfies
  the equation of `Results`, and then the call that has walked p finds, from round
  j on, exactly the tours that go on from p to j or a later node (`RoundFinds`,
  `CallFinds`).
* `TypeCorrect` needs that the lines found are lines.
* `OutputIsSound`, `HealthyAreComplete` and `AllToursArePrinted` follow from
  `ProcsInv`. What main prints is right only because of what is in the regions, and
  that because of what the searchers have still to do: the lines of a running
  searcher are split between its region and its rest; a searcher that ended and was
  not lost has left all of them; every region is a front of what its searcher was
  to find (`RegionsRight`). What is printed are the regions of the nodes main has
  passed, and the lines of different nodes are different (`PrintedRight`). Half a line
  is left only by a searcher that was lost, in a page that is not full (`TornOK`), and
  `main` can stand behind half a line only if a node it has passed has left one; that
  costs the next line its start and no other line anything (`ShownAs`).
  `NoneSpoils`: if the tours of every node fit its region, nothing overflows.

**`TspTextProofs`** (any numbers, any sizes): the text the solvers read and the text
the sorter writes.

* `SortsStably`: `SortInv` says that after round c, `printed[1..c]` holds the first
  c lines of the sorted output (`Placed`). That a round finds a line at all is a
  pigeonhole argument (`SomethingLeft`), and that a smallest one exists uses the
  well-foundedness of the naturals twice (`Least`, `SmallestIsFirst`), for which
  distances must have a lower bound, INT_MIN.
* `SquaresReadRight`: `ReadInv` says that as long as all lines have as many tokens
  as the first (`Even`), the entries read are those many per line, and entry (i, j)
  is token j of line i (`EntriesPlaced`); `EntryBefore` is the arithmetic of
  i * nsize + j.

**`TempStationProofs`** (any readings, any number of requests):

* `DisplayAlwaysRight`: between two loops the pins are those of the last digit, or
  of the start (`Written`). In a loop every digit begins with the pins the one before
  has left, and a call of `digitalWrite` only takes segments away from an old number
  or adds some of the new one where it belongs (`FrameRight`): all segments are off
  while the digit changes. The last call completes the number (`LastFrame`), which
  `SegmentsTell` distinguishes from every other.
* `ReadingAlwaysOne`: a reader decides on what it reads, so `LineInv` is about what
  is still to come, the host's buffer and the line together (`Stream`): every byte
  is one the board sends, the one after it the next of the same message or the
  first of a new one, and the last one ends a message (`Sound`). This holds
  whatever is flushed or lost in front. Half of an answer printed is then continued
  by its own other half (`Printing`), and a reader that found all at rest begins
  with the beginning (`FromTheStart`).

**`WebServerProofs`** (any finite set of browsers, any requests, any limit):

* `TypeCorrect`: `TypeOK` is inductive; `Stepping` treats all the ways a handler
  goes on or ends at once.
* `IsolatedAlways`: `Isolated` is not inductive, since a fork passes on whatever
  the server has open; `IsolatedInv` adds that this is at most the connection of
  `cur`, and none when it accepts. Every step either belongs to the server or is
  one of three kinds (nothing opened, a process ends, a handler starts a script),
  which `ServerApart` treats once for all.
* `LengthAlwaysHonoured`: `Counted` says that in the loop the bytes sent and those
  left make up the length; it starts from zero because a connection is accepted
  with a new handler.
* `OwnPlotAlwaysShown`: `PlotInv` links the picture file, the script and the
  handler of one browser: who is `alone` owns the file, which is whole once the
  script has plotted (`Tracked`); and no script of this browser runs any more when
  it asks for the picture, because the page it is asked from is only complete at
  the script's end (`NoOutput`).
* `AnswersAreRight`: `AnswerRight` is conditioned on a process limit above three per
  browser, which is worth something only if no fork fails then. `ProcessInv` bounds
  the handlers that run or are zombies by the requests tried, one of each browser
  and one more for its picture, and scripts are one per handler at most; so `fork`
  and `popen` succeed. `AnswerInv` then says at every place of a handler what it
  has sent so far and that the request belongs there (`OnWay`, `Headed`), for a client
  that is still there (`Present`) and a request that was read whole and can be served
  (`Whole`).

**`FindsProofs`** (any finite tree, any pattern, any options, any size of the line
buffer):

* `TypeCorrect`, `PathKept` and `SearchedOnce` follow from `CoreInv`. Its part
  `StackInv` says that the directory at depth k has a path of k components, that
  this beginning of `path` leads to it, and that the component behind it is the entry
  taken last, for every directory but the innermost, whose remainder may be what a
  failed call left behind. `Lookup` is a recursive function on paths; `Recursion` shows
  that such functions exist, and then two paths with the same beginning lead to the
  same places (`SamePrefix`). `ReadRight` says which part of the file `linebuf`
  holds and keeps the matcher's positions in bounds: only a letter of the line
  advances one, so none passes the end. `Once`: what has been searched is in
  `visited`, and a search begins only for what is not.
* `PrintedRight`: what a pattern means is a recursive function too
  (`MatchesFrom`), and `RoundRight` says what a round of `mygrep` does about it. An
  attempt is sound if, should the rest of the pattern match from here, all of it
  matches from where the attempt began; it is complete if no earlier place matches
  and, should the pattern match from where it began, the rest matches from here. A
  round keeps the first for every well-formed pattern, the second only for those
  that say one thing (`OneWay`), because a repetition takes all it can:
  `RunMatched` shows that nothing is lost by that if what follows is another
  character. `LinesRight` follows each line of a searched file from before `pos`
  has reached it, when it must lie whole in front of the reader, through `linebuf`,
  which then is the line up to its first null byte (`CStringIs`), to `out`
  (`LineStep`).
* `SearchedAll`: nothing else is searched because whatever `dopath` is called on is
  an entry of a directory that is reached (`NoneElse`). Nothing is left out, where a
  number is one file's only and names have no dots but the one before the type
  (`Plain`): every entry of a directory in `visited` is settled, or lies ahead of
  the stream of a directory on the stack, or is the one `dopath` has just been
  called on (`NoneLeft`). At the end the stack is empty, so the directories gone
  through are closed under what they name, and `ReachedDirs`, which counts steps
  from the top up to the number of i-nodes, is the least such set (`ReachedLeast`, a
  pigeonhole argument): cycles of links cost nothing and hide nothing.

**Assumptions** are those of the modules: `NoPid` is no pid, there is a slot and a
command, lines are sequences of commands; N is positive and matrices are square;
there are finitely many browsers; the sensor shows 0 to 1023; a type `-f` can ask
for that stands behind the first dot of a name is also what stands behind its last;
the special characters of patterns are no letters; a tree has finitely many i-nodes,
no name twice in a directory, links whose target is what `stat` comes to, and a top
that is no link, because `main` gives `dopath` what `realpath` returned. TLC
evaluates them on every run.

**What the proofs changed.** The cases of `Answer` overlapped: for a missing file
with the name of a script both the 404 and the script's output matched, and a `CASE`
does not say which it takes; the cases now exclude each other. `Results` had two
nested recursions over walks that may repeat nodes, for which no measure decreases;
it is one recursion over walks without repetition and the loop variable, and that
its equation has a solution is part of `SearchIsComplete`. `AllSearched` was false
where the path given is a file, which no run had tried: it now starts from the path
given and not from the entries of a top directory, and the run of `Finds` contains
such searches. It was false, too, for two file systems, and for names with two dots,
which only showed when `Wanted` was stated without the code's own `checkEnding`.
`DisplayRight` was a statement about one frame per digit; with every `digitalWrite`
a step, it is one about which segments may be lit on the way. `OutputSound` had
taken `strcat` for one step.

**Only model-checked:** everything under fairness (`LineFinishes`,
`ZombiesCollected`, `LineEndsOrSticks`, `SmallLineEnds`, `Terminates`,
`RawReaderEnds`, `ConnectionEnds`), which is beyond the prover, as is `ENABLED`.

## 6. Not modelled

Word splitting and quoting of the shell; memory outside an array (too many words,
stages, nodes); `stdio` buffers, in particular the effect of a failing `execvp` on a
shell that reads a file; the contents of programs. `my_printf` (conversions without
state; `my_errprintf` sends the text of `%d`, `%s` and `%x` to stdout, because the
helpers always write to descriptor 1); `my-histogram` and `rawdatahtml.cgi`, which
only pass on what other programs print; `a0`, calls of libbfd in a row; two readers
of the temperature at once, a device that is plugged in again; how the display is
wired; requests and names longer than the buffers of `webserv`, and the output of a
script that fills its pipe; PATH_MAX, names that are not ASCII, devices as files;
the shared memory segments that earlier runs of `tsp_p` left behind.
