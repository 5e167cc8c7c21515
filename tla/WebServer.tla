----------------------------- MODULE WebServer -----------------------------
(***************************************************************************)
(* a3/webserv.c, with the plotting script a3/runhistplot.cgi.  The server  *)
(* forks a handler for every connection it accepts and never waits for     *)
(* one; a handler reads one request, answers it with a listing, a file or  *)
(* the output of a script, and exits.  A browser that asks for a plot gets *)
(* a page from the script and then asks for the picture in it, a file that *)
(* all plots share.                                                        *)
(***************************************************************************)
EXTENDS Integers, Sequences, FiniteSets

CONSTANTS
  Client,       \* browsers
  Request,      \* what they may ask for
  Asks,         \* what each of them asks for, one function per case
  Pieces,       \* what the first part of a request, cut off by the network, asks for
  ProcLimit,    \* numbers of processes the system may allow
  Chunk,        \* bytes of a picture sent at a time, 80
  PlotSize      \* bytes of a plot

(* A request is a name with an extension, and what stat and fopen find     *)
(* under it; "nothing" is one that has no second word, and "badcgi" one    *)
(* for a script with an argument without "=".  A name without an extension *)
(* is an "other", for the handler puts a "." in front.                     *)
ASSUME RequestAssumption ==
  Request \cup Pieces \subseteq
    [ext : {"nothing", "image", "html", "cgi", "badcgi", "plot", "other"},
     file : {"missing", "dir", "reg", "special"}, readable : BOOLEAN, size : Nat]
ASSUME AsksAssumption == Asks \subseteq [Client -> Request]
ASSUME ClientAssumption == IsFiniteSet(Client)
ASSUME NumberAssumption ==
  ProcLimit \subseteq Nat \ {0} /\ Chunk \in Nat \ {0} /\ PlotSize \in Nat

VARIABLES
  procLimit, first,  \* chosen once: the limit and what each client asks for
  spc, cur,          \* the server: "accept", "fork" or "close", with cur's connection
  net,               \* client: "new", "queued", "waiting", "asked", "full", "gone", "done"
  req,               \* what it asks for now
  got,               \* what of that its handler reads
  open,              \* the processes that have its connection open
  h,                 \* its handler
  script,            \* what popen runs for it: "none", "begun", "plotting", "plotted", "over"
  zombies,           \* dead handlers, which nobody waits for
  plot,              \* the picture file: whose plot it is and whether it is whole
  alone              \* history: nobody plotted while it did or after

fixed == <<procLimit, first>>
server == <<spc, cur>>
clients == <<net, req, got>>
plots == <<plot, alone>>
vars == <<fixed, server, clients, open, h, script, zombies, plots>>

Server == <<"server">>
Handler(k) == <<"handler", k>>
Script(k) == <<"script", k>>

(* The handler: path_stat.st_mode, the parts of the answer sent, leftover, *)
(* the Content-Length and the bytes sent, and the states of the picture    *)
(* file that went into them.                                               *)
NoHandler ==
  [pc |-> "none", type |-> "unset", sent |-> <<>>, left |-> 0, length |-> 0,
   body |-> 0, seen |-> {}]

Init ==
  /\ procLimit \in ProcLimit /\ first \in Asks
  /\ spc = "accept" /\ cur \in Client
  /\ net = [k \in Client |-> "new"] /\ req = first /\ got = first
  /\ open = [k \in Client |-> {}] /\ h = [k \in Client |-> NoHandler]
  /\ script = [k \in Client |-> "none"] /\ zombies = 0
  /\ plot = [by |-> {}, whole |-> TRUE] /\ alone = [k \in Client |-> FALSE]

(* There may be one process more.                                          *)
Running == {k \in Client : h[k].pc # "none"}
Scripted == {k \in Client : script[k] # "none"}
Room == 1 + Cardinality(Running) + Cardinality(Scripted) + zombies < procLimit

(* A new process gets every connection that p has open.                    *)
Inherits(new, p) ==
  open' = [k \in Client |-> IF p \in open[k] THEN open[k] \cup {new} ELSE open[k]]
Drops(p) == open' = [k \in Client |-> open[k] \ {p}]

-----------------------------------------------------------------------------
(* The client.  The answer is over when nobody has the connection open.    *)
ClientStep(k, from, to) ==
  /\ net[k] \in from /\ net' = [net EXCEPT ![k] = to]
  /\ UNCHANGED <<fixed, server, open, script, zombies, plots>>

Ended(k) == net[k] \in {"waiting", "asked", "gone"} /\ open[k] = {}
HasPage(k) ==
  /\ req[k].ext = "plot" /\ got[k] = req[k]
  /\ net[k] = "asked" /\ h[k].sent = <<"200", "output">>
Picture == [ext |-> "image", file |-> "reg", readable |-> TRUE, size |-> PlotSize]

Connect(k) == ClientStep(k, {"new"}, "queued") /\ UNCHANGED <<req, got, h>>
Leave(k) == ClientStep(k, {"asked", "full"}, "gone") /\ UNCHANGED <<req, got, h>>
Finish(k) ==
  /\ Ended(k) /\ ~HasPage(k)
  /\ ClientStep(k, {net[k]}, "done") /\ UNCHANGED <<req, got, h>>

(* One read is all the handler does, and it may get only a part.           *)
Ask(k) ==
  /\ ClientStep(k, {"waiting"}, "asked") /\ UNCHANGED <<req, h>>
  /\ \E r \in Pieces \cup {req[k]} : got' = [got EXCEPT ![k] = r]

(* A client that reads no more lets the socket buffer fill up.             *)
Stall(k) ==
  /\ h[k].sent # <<>> /\ ClientStep(k, {"asked"}, "full") /\ UNCHANGED <<req, got, h>>
Resume(k) == ClientStep(k, {"full"}, "asked") /\ UNCHANGED <<req, got, h>>

AskPicture(k) ==
  /\ Ended(k) /\ HasPage(k) /\ ClientStep(k, {"asked"}, "new")
  /\ req' = [req EXCEPT ![k] = Picture] /\ got' = [got EXCEPT ![k] = Picture]
  /\ h' = [h EXCEPT ![k] = NoHandler]

-----------------------------------------------------------------------------
(* main's loop.                                                            *)
ServerStep(from, to) ==
  spc = from /\ spc' = to /\ UNCHANGED <<fixed, req, got, script, zombies, plots>>

Accept(k) ==
  /\ ServerStep("accept", "fork") /\ net[k] = "queued"
  /\ cur' = k /\ net' = [net EXCEPT ![k] = "waiting"]
  /\ open' = [open EXCEPT ![k] = {Server}] /\ UNCHANGED h

Fork ==
  /\ ServerStep("fork", "close") /\ Room
  /\ h' = [h EXCEPT ![cur].pc = "read"] /\ Inherits(Handler(cur), Server)
  /\ UNCHANGED <<cur, net>>

Mut_Continues ==
  ServerStep("fork", "accept") /\ ~Room /\ UNCHANGED <<cur, net, h, open>>
ForkFails ==
  ServerStep("fork", "close") /\ ~Room /\ UNCHANGED <<cur, net, h, open>>

Mut_ChildrenOnly ==
  /\ ServerStep("close", "accept") /\ UNCHANGED <<cur, net, h, open>>
Close ==
  /\ ServerStep("close", "accept")
  /\ open' = [open EXCEPT ![cur] = @ \ {Server}] /\ UNCHANGED <<cur, net, h>>

-----------------------------------------------------------------------------
(* The handler goes on as r, or it ends, by exit, a signal or a crash.     *)
HandlerStep(k, from) == h[k].pc = from /\ UNCHANGED <<fixed, server, clients, plots>>

Goes(k, from, r) ==
  /\ HandlerStep(k, from) /\ h' = [h EXCEPT ![k] = r]
  /\ UNCHANGED <<open, zombies>>

Ends(k, from) ==
  /\ HandlerStep(k, from) /\ h' = [h EXCEPT ![k].pc = "none"]
  /\ zombies' = zombies + 1 /\ Drops(Handler(k))

Crash(k, from) ==
  /\ Ends(k, from)
  /\ script' = [script EXCEPT ![k] = IF @ = "over" THEN "none" ELSE @]

(* write waits while the socket buffer is full; the client may have left,  *)
(* and SIGPIPE ends the handler.                                           *)
Writes(k, from, r) ==
  \/ net[k] # "full" /\ Goes(k, from, r) /\ UNCHANGED script
  \/ net[k] = "gone" /\ Crash(k, from)

Part(k, p, to) == [h[k] EXCEPT !.sent = Append(@, p), !.pc = to]

(* read, parse_get_request and stat.  After the 404 the handler goes on    *)
(* with a path_stat that was never filled in.                              *)
Typed(r, type) ==
  [r EXCEPT !.type = type, !.pc = IF type \in {"dir", "reg"} THEN type ELSE "end"]

ReadNothing(k) ==
  net[k] \in {"asked", "gone"} /\ got[k].ext = "nothing" /\ Crash(k, "read")

Found(k) ==
  /\ net[k] \in {"asked", "gone"} /\ got[k].ext # "nothing" /\ got[k].file # "missing"
  /\ Goes(k, "read", Typed(h[k], got[k].file)) /\ UNCHANGED script

Mut_TypeFirst(k) ==
  /\ net[k] \in {"asked", "gone"} /\ got[k].ext # "nothing" /\ got[k].file = "missing"
  /\ \E type \in {"dir", "reg", "special"} : Goes(k, "read", Typed(h[k], type))
  /\ UNCHANGED script
NotFound(k) ==
  /\ net[k] \in {"asked", "gone"} /\ got[k].ext # "nothing" /\ got[k].file = "missing"
  /\ \E type \in {"dir", "reg", "special"} :
       Writes(k, "read", Typed(Part(k, "404", "end"), type))

(* popen, for a directory or a script: the shell gets the connection too,  *)
(* and the handler sends on what it prints and waits for its end.          *)
Popens(k) ==
  h[k].pc = "dir" \/ (h[k].pc = "reg" /\ got[k].ext \in {"cgi", "plot"})

(* token2 is null when an argument has no "=".                             *)
BadArgument(k) == got[k].ext = "badcgi" /\ Crash(k, "reg")

Popen(k) ==
  /\ Popens(k) /\ Room /\ HandlerStep(k, h[k].pc)
  /\ h' = [h EXCEPT ![k].pc = "header"] /\ script' = [script EXCEPT ![k] = "begun"]
  /\ Inherits(Script(k), Handler(k)) /\ UNCHANGED zombies

PopenFails(k) == Popens(k) /\ ~Room /\ Crash(k, h[k].pc)

RunHeader(k) == Writes(k, "header", Part(k, "200", "forward"))

ForwardFails(k) == net[k] = "gone" /\ Crash(k, "forward")

Pclose(k) ==
  /\ net[k] # "full" /\ script[k] = "over" /\ script' = [script EXCEPT ![k] = "none"]
  /\ Goes(k, "forward", Part(k, "output", IF h[k].type = "dir" THEN "end" ELSE "fclose"))

(* What fopen returned is used without a look at it.                       *)
Readable(k) == got[k].file = "reg" /\ got[k].readable

Unusable(k) == got[k].ext \in {"image", "html"} /\ ~Readable(k) /\ Crash(k, "reg")

FcloseNull(k) == ~Readable(k) /\ Crash(k, "fclose")

Fclose(k) ==
  Readable(k) /\ Goes(k, "fclose", [h[k] EXCEPT !.pc = "end"]) /\ UNCHANGED script

Unsupported(k) == got[k].ext = "other" /\ Writes(k, "reg", Part(k, "501", "fclose"))

(* A whole page is put into resfilled, which holds one of size 0 only.     *)
Html(k) ==
  got[k].ext = "html" /\ Readable(k) /\ Writes(k, "reg", Part(k, "page", "fclose"))

HtmlOverflows(k) ==
  got[k].ext = "html" /\ Readable(k) /\ got[k].size > 0 /\ Crash(k, "reg")

(* A picture: its size is taken once, then its bytes as they are by then.  *)
(* The picture of a plot may change meanwhile.                             *)
Shared(k) == first[k].ext = "plot" /\ got[k] = Picture

Sizes(k) ==
  IF ~Shared(k) THEN {got[k].size}
  ELSE IF plot.whole THEN {PlotSize} ELSE 0 .. PlotSize

PictureHeader(k) ==
  /\ got[k].ext = "image" /\ Readable(k)
  /\ \E n \in Sizes(k) :
       Writes(k, "reg", [Part(k, "200", "first") EXCEPT !.left = n, !.length = n])

(* fread and write n bytes; a write of a negative number fails.            *)
Copied(k, n, to) ==
  [h[k] EXCEPT !.pc = to, !.left = @ - n, !.body = IF n < 0 THEN @ ELSE @ + n,
               !.seen = IF Shared(k) THEN @ \cup {plot} ELSE @]

FirstChunk(k) == Writes(k, "first", Copied(k, Chunk, "loop"))
Mut_OneMore(k) == h[k].left > 0 /\ Writes(k, "loop", Copied(k, Chunk, "loop"))
NextChunk(k) == h[k].left > Chunk /\ Writes(k, "loop", Copied(k, Chunk, "loop"))
LastChunk(k) == h[k].left <= Chunk /\ Writes(k, "loop", Copied(k, h[k].left, "fclose"))

(* A negative number is a huge one to fread, which then reads all that was *)
(* added to the file into a buffer of one chunk.                           *)
Grown(k) == h[k].left < 0 /\ Shared(k) /\ Crash(k, "loop")

Exit(k) == Ends(k, "end") /\ UNCHANGED script

Handles(k) ==
  \/ ReadNothing(k) \/ Found(k) \/ NotFound(k)
  \/ BadArgument(k) \/ Popen(k) \/ PopenFails(k) \/ RunHeader(k) \/ ForwardFails(k) \/ Pclose(k)
  \/ Unusable(k) \/ Unsupported(k) \/ Html(k) \/ HtmlOverflows(k)
  \/ PictureHeader(k) \/ FirstChunk(k) \/ NextChunk(k) \/ LastChunk(k) \/ Grown(k)
  \/ Fclose(k) \/ FcloseNull(k) \/ Exit(k)

-----------------------------------------------------------------------------
(* What popen runs.  gnuplot empties the picture file when it begins, and  *)
(* two that write at once leave a mixture; the page comes after the plot.  *)
ScriptStep(k, from, to) ==
  /\ script[k] = from /\ script' = [script EXCEPT ![k] = to]
  /\ UNCHANGED <<fixed, server, clients, h, zombies>>

Plots(k) == got[k].ext = "plot" /\ h[k].type = "reg"
Plotting == {k \in Client : script[k] = "plotting"}

BeginPlot(k) ==
  /\ Plots(k) /\ ScriptStep(k, "begun", "plotting")
  /\ plot' = [by |-> Plotting \cup {k}, whole |-> FALSE]
  /\ alone' = [j \in Client |-> j = k /\ Plotting = {}] /\ UNCHANGED open

Mut_PageFirst(k) ==
  /\ ScriptStep(k, "plotting", "plotted") /\ UNCHANGED <<open, plots>>
EndPlot(k) ==
  /\ ScriptStep(k, "plotting", "plotted")
  /\ plot' = [plot EXCEPT !.whole = Plotting = {k}] /\ UNCHANGED <<open, alone>>

(* Its parent waits for it, or is dead.                                    *)
ScriptEnds(k) ==
  /\ ScriptStep(k, IF Plots(k) THEN "plotted" ELSE "begun",
                IF k \in Running THEN "over" ELSE "none")
  /\ Drops(Script(k)) /\ UNCHANGED plots

Scripts(k) == BeginPlot(k) \/ EndPlot(k) \/ ScriptEnds(k)

-----------------------------------------------------------------------------
Next ==
  \/ Fork \/ ForkFails \/ Close
  \/ \E k \in Client :
       \/ Connect(k) \/ Ask(k) \/ Stall(k) \/ Resume(k) \/ Leave(k)
       \/ Finish(k) \/ AskPicture(k)
       \/ Accept(k) \/ Handles(k) \/ Scripts(k)

Spec == Init /\ [][Next]_vars

(* Every process runs, and scripts end; no client has to connect, to send  *)
(* its request, to read the answer or to leave.                            *)
FairSpec ==
  /\ Spec /\ WF_vars(Fork \/ ForkFails \/ Close)
  /\ \A k \in Client : WF_vars(Handles(k)) /\ WF_vars(Scripts(k))

-----------------------------------------------------------------------------
PlotState == [by : SUBSET Client, whole : BOOLEAN]
HandlerState ==
  [pc : {"none", "read", "dir", "reg", "header", "forward", "first", "loop", "fclose", "end"},
   type : {"unset", "dir", "reg", "special"},
   sent : Seq({"404", "501", "200", "output", "page"}),
   left : Int, length : Nat, body : Nat, seen : SUBSET PlotState]

TypeOK ==
  /\ spc \in {"accept", "fork", "close"} /\ cur \in Client
  /\ first \in [Client -> Request] /\ req \in [Client -> Request \cup {Picture}]
  /\ got \in [Client -> Request \cup Pieces \cup {Picture}]
  /\ net \in [Client -> {"new", "queued", "waiting", "asked", "full", "gone", "done"}]
  /\ h \in [Client -> HandlerState]
  /\ script \in [Client -> {"none", "begun", "plotting", "plotted", "over"}]
  /\ zombies \in Nat /\ plot \in PlotState

(* webserv.c:150-342: a connection is open in the server, its own handler  *)
(* and what that runs, and in no process of another connection, which      *)
(* would keep it from ending.                                              *)
Isolated ==
  \A k \in Client : open[k] \subseteq {Server, Handler(k), Script(k)}

(* webserv.c:152-338: a client that stays, and whose request is read whole *)
(* in one go, gets exactly the answer that it calls for, and after a 404   *)
(* perhaps more; provided the system allows a process for each request     *)
(* that was ever made, none of which the server waits for, and one for     *)
(* each script.  What the handler cannot serve at all is left out: a       *)
(* request without a name, a special file, a script's argument without     *)
(* "=", a page or picture that cannot be opened, and a page that is longer *)
(* than its buffer.                                                        *)
Enough == procLimit > 3 * Cardinality(Client)

Proper(k) ==
  /\ req[k].ext # "nothing" /\ req[k].file # "special"
  /\ req[k].file = "reg" =>
       /\ req[k].ext # "badcgi"
       /\ req[k].ext \in {"image", "html"} => req[k].readable
       /\ req[k].ext = "html" => req[k].size = 0

Answer(k) ==
  LET e == IF req[k].file = "reg" THEN req[k].ext ELSE req[k].file IN
  CASE e = "missing" -> <<"404">>
    [] e \in {"dir", "cgi", "plot"} -> <<"200", "output">>
    [] e = "image" -> <<"200">>
    [] e = "html" -> <<"page">>
    [] OTHER -> <<"501">>

AnswerRight ==
  \A k \in Client :
    Enough /\ Ended(k) /\ net[k] = "asked" /\ got[k] = req[k] /\ Proper(k) =>
      \/ h[k].sent = Answer(k)
      \/ req[k].file = "missing" /\ h[k].sent # <<>> /\ Head(h[k].sent) = "404"

(* webserv.c:247-260: a picture of at least one chunk is sent with exactly *)
(* the Content-Length announced, even if the file changes meanwhile.       *)
LengthHonoured ==
  \A k \in Client :
    h[k].pc \in {"fclose", "end"} /\ h[k].length >= Chunk => h[k].body = h[k].length

(* runhistplot.cgi:14-46: a browser that gets a plot's page and then its   *)
(* picture sees its own plot, whole, if nobody plotted while it did or     *)
(* after.                                                                  *)
OwnPlotShown ==
  \A k \in Client :
    h[k].seen # {} /\ alone[k] => h[k].seen = {[by |-> {k}, whole |-> TRUE]}

(* webserv.c:138-345: a connection ends once the client has sent something *)
(* or has left, also when fork or popen fails, or the handler crashes; or  *)
(* the client stops reading, and the handler's write waits for it.         *)
ConnectionEnds ==
  \A k \in Client :
    open[k] # {} /\ net[k] \in {"asked", "gone"} ~> open[k] = {} \/ net[k] = "full"
=============================================================================
