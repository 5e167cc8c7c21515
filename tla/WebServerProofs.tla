-------------------------- MODULE WebServerProofs --------------------------
(***************************************************************************)
(* For any number of browsers, requests and processes: no connection is    *)
(* ever open in a process of another one, a client that stays gets the     *)
(* answer that its request calls for, a picture has the length that was    *)
(* announced, and a browser that nobody disturbs sees its own plot.        *)
(***************************************************************************)
EXTENDS WebServer, SequenceTheorems, FiniteSetTheorems, TLAPS

Parts(k) == {Server, Handler(k), Script(k)}

(* What a client does while its request lasts.                             *)
ClientMoves(k) ==
  Connect(k) \/ Ask(k) \/ Stall(k) \/ Resume(k) \/ Leave(k) \/ Finish(k)

(* What Isolated rests on: the server has one connection open at most, the *)
(* one it is busy with, so that a fork passes on no other.                 *)
IsolatedInv ==
  /\ open \in [Client -> SUBSET UNION {Parts(k) : k \in Client}]
  /\ cur \in Client
  /\ Isolated
  /\ \A k \in Client : Server \in open[k] => spc # "accept" /\ cur = k

(* The names of processes are all different.                               *)
LEMMA Names ==
  ASSUME NEW j, NEW k
  PROVE  /\ Handler(k) # Server /\ Script(k) # Server /\ Handler(k) # Script(j)
         /\ Handler(j) = Handler(k) => j = k
         /\ Script(j) = Script(k) => j = k
<1>1. /\ Len(<<"server">>) # Len(<<"handler", k>>) /\ Len(<<"server">>) # Len(<<"script", k>>)
  OBVIOUS
<1>2. <<"handler", k>>[1] # <<"script", j>>[1]
  OBVIOUS
<1>3. <<"handler", j>>[2] = j /\ <<"handler", k>>[2] = k /\ <<"script", j>>[2] = j /\ <<"script", k>>[2] = k
  OBVIOUS
<1> QED
  BY <1>1, <1>2, <1>3 DEF Handler, Script, Server

(* A new process that inherits from the server, or a handler, gets only    *)
(* the connection that it is for.                                          *)
LEMMA Inherited ==
  ASSUME IsolatedInv, NEW k \in Client, NEW new, NEW p,
         new \in {Handler(k), Script(k)},
         \A j \in Client : p \in open[j] => j = k,
         Inherits(new, p)
  PROVE  /\ open' \in [Client -> SUBSET UNION {Parts(j) : j \in Client}]
         /\ Isolated'
         /\ \A j \in Client : Server \in open'[j] => Server \in open[j]
<1>1. \A j \in Client : open'[j] \subseteq open[j] \cup (IF j = k THEN {new} ELSE {})
  BY DEF Inherits
<1>2. new # Server
  BY Names
<1> QED
  BY <1>1, <1>2 DEF IsolatedInv, Isolated, Parts, Inherits

(* A process that ends drops what it had.                                  *)
LEMMA Dropped ==
  ASSUME IsolatedInv, NEW p, Drops(p)
  PROVE  /\ open' \in [Client -> SUBSET UNION {Parts(j) : j \in Client}]
         /\ Isolated'
         /\ \A j \in Client : Server \in open'[j] => Server \in open[j]
BY DEF IsolatedInv, Isolated, Drops

(* A step that leaves the server alone and opens nothing for it.           *)
LEMMA ServerApart ==
  ASSUME IsolatedInv, UNCHANGED server,
         \/ UNCHANGED open
         \/ \E p : Drops(p)
         \/ \E k \in Client : Inherits(Script(k), Handler(k))
  PROVE  IsolatedInv'
<1>1. CASE UNCHANGED open
  BY <1>1 DEF IsolatedInv, Isolated, server, Server, Handler, Script, Parts
<1>2. CASE \E p : Drops(p)
  BY <1>2, Dropped DEF IsolatedInv, server
<1>3. ASSUME NEW k \in Client, Inherits(Script(k), Handler(k))
      PROVE  IsolatedInv'
  <2>1. \A j \in Client : Handler(k) \in open[j] => j = k
    BY Names DEF IsolatedInv, Isolated
  <2> QED
    BY <1>3, <2>1, Inherited DEF IsolatedInv, server
<1> QED
  BY <1>1, <1>2, <1>3

LEMMA IsolatedStep == IsolatedInv /\ [Next]_vars => IsolatedInv'
<1> SUFFICES ASSUME IsolatedInv, [Next]_vars
             PROVE  IsolatedInv'
  OBVIOUS
<1>1. CASE Fork
  <2>1. \A j \in Client : Server \in open[j] => j = cur
    BY DEF IsolatedInv
  <2>2. cur \in Client /\ Inherits(Handler(cur), Server) /\ cur' = cur /\ spc' = "close"
    BY <1>1 DEF Fork, ServerStep, IsolatedInv
  <2> QED
    BY <2>1, <2>2, Inherited DEF IsolatedInv
<1>2. CASE ForkFails
  BY <1>2 DEF ForkFails, ServerStep, IsolatedInv, Isolated, Server, Handler, Script, Parts
<1>3. CASE Close
  <2>1. \A j \in Client : open'[j] = open[j] \ (IF j = cur THEN {Server} ELSE {})
    BY <1>3 DEF Close, IsolatedInv
  <2>2. open' \in [Client -> SUBSET UNION {Parts(j) : j \in Client}] /\ cur' = cur
    BY <1>3 DEF Close, IsolatedInv
  <2> QED
    BY <2>1, <2>2 DEF IsolatedInv, Isolated
<1>4. ASSUME NEW k \in Client, Accept(k)
      PROVE  IsolatedInv'
  <2>1. spc = "accept" /\ spc' = "fork" /\ cur' = k /\ open' = [open EXCEPT ![k] = {Server}]
    BY <1>4 DEF Accept, ServerStep
  <2>2. Server \in UNION {Parts(j) : j \in Client}
    BY DEF Parts
  <2> QED
    BY <2>1, <2>2 DEF IsolatedInv, Isolated
<1>5. ASSUME NEW k \in Client,
             ClientMoves(k) \/ AskPicture(k)
      PROVE  IsolatedInv'
  BY <1>5, ServerApart DEF ClientMoves, Connect, Ask, Stall, Resume, Leave, Finish, AskPicture, ClientStep
<1>6. ASSUME NEW k \in Client, Scripts(k)
      PROVE  IsolatedInv'
  BY <1>6, ServerApart DEF Scripts, BeginPlot, EndPlot, ScriptEnds, ScriptStep
<1>7. ASSUME NEW k \in Client, Handles(k)
      PROVE  IsolatedInv'
  <2>1. ASSUME NEW from, Crash(k, from) \/ Ends(k, from)
        PROVE  IsolatedInv'
    BY <2>1, ServerApart DEF Crash, Ends, HandlerStep
  <2>2. ASSUME NEW from, NEW r, Goes(k, from, r) \/ Writes(k, from, r)
        PROVE  IsolatedInv'
    BY <2>1, <2>2, ServerApart DEF Writes, Goes, HandlerStep
  <2>3. CASE Popen(k)
    BY <2>3, ServerApart DEF Popen, HandlerStep
  <2>4. CASE ReadNothing(k) \/ PopenFails(k) \/ ForwardFails(k) \/ Unusable(k)
             \/ HtmlOverflows(k) \/ FcloseNull(k) \/ BadArgument(k) \/ Grown(k) \/ Exit(k)
    BY <2>1, <2>4 DEF ReadNothing, PopenFails, ForwardFails, Unusable, HtmlOverflows,
                      FcloseNull,
     BadArgument, Grown, Exit
  <2>5. CASE Found(k) \/ NotFound(k) \/ RunHeader(k) \/ Pclose(k) \/ Fclose(k)
    BY <2>2, <2>5 DEF Found, NotFound, RunHeader, Pclose, Fclose
  <2>6. CASE Unsupported(k) \/ Html(k) \/ PictureHeader(k) \/ FirstChunk(k)
             \/ NextChunk(k) \/ LastChunk(k)
    BY <2>2, <2>6 DEF Unsupported, Html, PictureHeader, FirstChunk, NextChunk, LastChunk
  <2> QED
    BY <1>7, <2>3, <2>4, <2>5, <2>6 DEF Handles
<1>8. CASE UNCHANGED vars
  BY <1>8, ServerApart DEF vars
<1> QED
  BY <1>1, <1>2, <1>3, <1>4, <1>5, <1>6, <1>7, <1>8 DEF Next, ClientMoves

-----------------------------------------------------------------------------
LEMMA StateTypes ==
  /\ NoHandler \in HandlerState
  /\ \A r \in Request \cup Pieces \cup {Picture} :
       r.size \in Nat /\ r.file \in {"missing", "dir", "reg", "special"}
BY RequestAssumption, NumberAssumption DEF NoHandler, HandlerState, Picture

(* A handler's new state by each way of changing it.                       *)
LEMMA PartType ==
  ASSUME TypeOK, NEW k \in Client,
         NEW p \in {"404", "501", "200", "output", "page"},
         NEW to \in {"end", "forward", "fclose", "first"}
  PROVE  Part(k, p, to) \in HandlerState
<1>1. h[k] \in HandlerState
  BY DEF TypeOK
<1>2. Append(h[k].sent, p) \in Seq({"404", "501", "200", "output", "page"})
  BY <1>1 DEF HandlerState
<1> QED
  BY <1>1, <1>2 DEF Part, HandlerState

LEMMA TypedType ==
  ASSUME NEW r \in HandlerState, NEW type \in {"dir", "reg", "special"}
  PROVE  Typed(r, type) \in HandlerState
BY DEF Typed, HandlerState

LEMMA CopiedType ==
  ASSUME TypeOK, NEW k \in Client, NEW n \in Int, NEW to \in {"loop", "fclose"}
  PROVE  Copied(k, n, to) \in HandlerState
<1>1. h[k] \in HandlerState /\ plot \in PlotState
  BY DEF TypeOK
<1>2. h[k].left - n \in Int /\ (IF n < 0 THEN h[k].body ELSE h[k].body + n) \in Nat
  BY <1>1 DEF HandlerState
<1>3. (IF Shared(k) THEN h[k].seen \cup {plot} ELSE h[k].seen) \in SUBSET PlotState
  BY <1>1 DEF HandlerState
<1> QED
  BY <1>1, <1>2, <1>3 DEF Copied, HandlerState

(* A handler's step keeps the types when the handler's new state is        *)
(* typed.                                                                  *)
LEMMA Stepping ==
  ASSUME TypeOK, NEW k \in Client, NEW from, NEW r \in HandlerState,
         \/ Goes(k, from, r) /\ UNCHANGED script
         \/ Writes(k, from, r)
         \/ Crash(k, from)
         \/ Ends(k, from) /\ UNCHANGED script
  PROVE  TypeOK'
<1>1. CASE Goes(k, from, r) /\ UNCHANGED script
  BY <1>1 DEF Goes, HandlerStep, TypeOK, fixed, server, clients, plots, PlotState
<1>2. ASSUME Ends(k, from), script' \in [Client -> {"none", "begun", "plotting", "plotted", "over"}]
      PROVE  TypeOK'
  <2>1. [h[k] EXCEPT !.pc = "none"] \in HandlerState
    BY DEF TypeOK, HandlerState
  <2>2. h' \in [Client -> HandlerState]
    BY <1>2, <2>1 DEF Ends, TypeOK
  <2> QED
    BY <1>2, <2>2 DEF Ends, HandlerStep, TypeOK, fixed, server, clients, plots
<1>3. CASE Crash(k, from)
  BY <1>2, <1>3 DEF Crash, TypeOK
<1>4. CASE Ends(k, from) /\ UNCHANGED script
  BY <1>2, <1>4 DEF TypeOK
<1> QED
  BY <1>1, <1>3, <1>4 DEF Writes

LEMMA HandlerTypes ==
  ASSUME TypeOK, NEW k \in Client, Handles(k)
  PROVE  TypeOK'
<1>1. h[k] \in HandlerState
  BY DEF TypeOK
<1>2. CASE ReadNothing(k) \/ PopenFails(k) \/ ForwardFails(k) \/ Unusable(k)
           \/ HtmlOverflows(k) \/ FcloseNull(k) \/ BadArgument(k) \/ Grown(k) \/ Exit(k)
  BY <1>1, <1>2, Stepping DEF ReadNothing, PopenFails, ForwardFails, Unusable,
     HtmlOverflows, FcloseNull,
     BadArgument, Grown, Exit
<1>3. CASE Found(k)
  <2>1. got[k].file \in {"dir", "reg", "special"}
    BY <1>3, StateTypes DEF Found, TypeOK
  <2> QED
    BY <1>1, <1>3, <2>1, TypedType, Stepping DEF Found
<1>4. CASE NotFound(k)
  <2>1. PICK type \in {"dir", "reg", "special"} :
          Writes(k, "read", Typed(Part(k, "404", "end"), type))
    BY <1>4 DEF NotFound
  <2>2. Typed(Part(k, "404", "end"), type) \in HandlerState
    BY PartType, TypedType
  <2> QED
    BY <2>1, <2>2, Stepping
<1>5. CASE Popen(k)
  <2>1. [h[k] EXCEPT !.pc = "header"] \in HandlerState
    BY <1>1 DEF HandlerState
  <2> QED
    BY <1>5, <2>1 DEF Popen, HandlerStep, TypeOK, fixed, server, clients, plots
<1>6. CASE RunHeader(k)
  BY <1>6, PartType, Stepping DEF RunHeader
<1>7. CASE Pclose(k)
  <2>1. \A r \in HandlerState : Goes(k, "forward", r) => h' \in [Client -> HandlerState]
    BY DEF Goes, TypeOK
  <2>2. h' \in [Client -> HandlerState]
    BY <1>7, <2>1, PartType DEF Pclose
  <2>3. script' \in [Client -> {"none", "begun", "plotting", "plotted", "over"}]
    BY <1>7 DEF Pclose, TypeOK
  <2> QED
    BY <1>7, <2>2, <2>3 DEF Pclose, Goes, HandlerStep, TypeOK, fixed, server, clients, plots
<1>8. CASE Fclose(k)
  <2>1. [h[k] EXCEPT !.pc = "end"] \in HandlerState
    BY <1>1 DEF HandlerState
  <2> QED
    BY <1>8, <2>1, Stepping DEF Fclose
<1>9. CASE Unsupported(k) \/ Html(k)
  BY <1>9, PartType, Stepping DEF Unsupported, Html
<1>10. CASE PictureHeader(k)
  <2>1. PICK n \in Sizes(k) :
          Writes(k, "reg", [Part(k, "200", "first") EXCEPT !.left = n, !.length = n])
    BY <1>10 DEF PictureHeader
  <2>2. n \in Nat
    BY StateTypes, NumberAssumption DEF Sizes, TypeOK
  <2>3. [Part(k, "200", "first") EXCEPT !.left = n, !.length = n] \in HandlerState
    <3>1. Part(k, "200", "first") \in HandlerState
      BY PartType
    <3>2. n \in Int /\ n \in Nat
      BY <2>2
    <3>3. \A r \in HandlerState : [r EXCEPT !.left = n, !.length = n] \in HandlerState
      BY <3>2 DEF HandlerState
    <3> QED
      BY <3>1, <3>3
  <2> QED
    BY <2>1, <2>3, Stepping
<1>11. CASE FirstChunk(k) \/ NextChunk(k)
  BY <1>11, CopiedType, Stepping, NumberAssumption DEF FirstChunk, NextChunk
<1>12. CASE LastChunk(k)
  <2>1. h[k].left \in Int
    BY <1>1 DEF HandlerState
  <2> QED
    BY <1>12, <2>1, CopiedType, Stepping DEF LastChunk
<1> QED
  BY <1>2, <1>3, <1>4, <1>5, <1>6, <1>7, <1>8, <1>9, <1>10, <1>11, <1>12 DEF Handles

LEMMA TypeStep == TypeOK /\ [Next]_vars => TypeOK'
<1> SUFFICES ASSUME TypeOK, [Next]_vars PROVE TypeOK'
  OBVIOUS
<1>1. CASE Fork
  <2>1. [h[cur] EXCEPT !.pc = "read"] \in HandlerState
    BY DEF TypeOK, HandlerState
  <2> QED
    BY <1>1, <2>1 DEF Fork, ServerStep, TypeOK, fixed, plots
<1>2. CASE ForkFails \/ Close
  BY <1>2 DEF ForkFails, Close, ServerStep, TypeOK, fixed, plots
<1>3. ASSUME NEW k \in Client, Accept(k) PROVE TypeOK'
  BY <1>3 DEF Accept, ServerStep, TypeOK, fixed, plots
<1>4. ASSUME NEW k \in Client, ClientMoves(k) PROVE TypeOK'
  <2>1. UNCHANGED <<fixed, server, open, script, zombies, plots, req, h>>
    BY <1>4 DEF ClientMoves, Connect, Ask, Stall, Resume, Leave, Finish, ClientStep
  <2>2. net' \in [Client -> {"new", "queued", "waiting", "asked", "full", "gone", "done"}]
    BY <1>4 DEF ClientMoves, Connect, Ask, Stall, Resume, Leave, Finish, ClientStep, TypeOK
  <2>3. got' \in [Client -> Request \cup Pieces \cup {Picture}]
    BY <1>4 DEF ClientMoves, Connect, Ask, Stall, Resume, Leave, Finish, TypeOK
  <2> QED
    BY <2>1, <2>2, <2>3 DEF TypeOK, fixed, server, plots
<1>5. ASSUME NEW k \in Client, AskPicture(k) PROVE TypeOK'
  BY <1>5, StateTypes DEF AskPicture, ClientStep, TypeOK, fixed, server, plots
<1>6. ASSUME NEW k \in Client, Handles(k) PROVE TypeOK'
  BY <1>6, HandlerTypes
<1>7. ASSUME NEW k \in Client, Scripts(k) PROVE TypeOK'
  <2>1. plot' \in PlotState
    <3>1. CASE BeginPlot(k)
      BY <3>1 DEF BeginPlot, Plotting, PlotState
    <3>2. CASE EndPlot(k)
      <4>1. plot \in PlotState /\ (Plotting = {k}) \in BOOLEAN
        BY DEF TypeOK
      <4> QED
        BY <3>2, <4>1 DEF EndPlot, PlotState
    <3>3. CASE ScriptEnds(k)
      BY <3>3 DEF ScriptEnds, plots, TypeOK
    <3> QED
      BY <1>7, <3>1, <3>2, <3>3 DEF Scripts
  <2>2. script' \in [Client -> {"none", "begun", "plotting", "plotted", "over"}]
    BY <1>7 DEF Scripts, BeginPlot, EndPlot, ScriptEnds, ScriptStep, TypeOK
  <2> QED
    BY <1>7, <2>1, <2>2 DEF Scripts, BeginPlot, EndPlot, ScriptEnds, ScriptStep, TypeOK,
       fixed, server, clients
<1>8. CASE UNCHANGED vars
  BY <1>8 DEF vars, fixed, server, clients, plots, TypeOK
<1> QED
  BY <1>1, <1>2, <1>3, <1>4, <1>5, <1>6, <1>7, <1>8 DEF Next, ClientMoves

(* Type correctness of the server, its handlers and clients, for any       *)
(* number of each and any requests.                                        *)
THEOREM TypeCorrect == Spec => []TypeOK
<1>1. Init => TypeOK
  BY StateTypes, AsksAssumption DEF Init, TypeOK, PlotState
<1> QED
  BY <1>1, TypeStep, PTL DEF Spec

(* webserv.c:138-342: a connection is only ever open in the server, its    *)
(* own handler and what that runs, however many connections there are, and *)
(* however many times fork or popen fails.                                 *)
THEOREM IsolatedAlways == Spec => []Isolated
<1>1. Init => IsolatedInv
  BY DEF Init, IsolatedInv, Isolated
<1>2. IsolatedInv => Isolated
  BY DEF IsolatedInv
<1> QED
  BY <1>1, <1>2, IsolatedStep, PTL DEF Spec

-----------------------------------------------------------------------------
(* What LengthHonoured rests on: a connection starts with a handler that   *)
(* has sent nothing, and while the loop runs the bytes sent and those left *)
(* are those announced, unless they are fewer than one chunk.              *)
Counted(r) ==
  /\ r.pc \in {"read", "dir", "reg", "header", "forward"} => r.length = 0 /\ r.body = 0
  /\ r.pc = "first" => r.left = r.length /\ r.body = 0
  /\ r.pc = "loop" /\ r.length >= Chunk => r.left >= 0 /\ r.left + r.body = r.length
  /\ r.pc \in {"fclose", "end"} /\ r.length >= Chunk => r.body = r.length

LengthInv ==
  /\ TypeOK
  /\ \A k \in Client : Counted(h[k]) /\ (net[k] \in {"new", "queued"} => h[k] = NoHandler)
  /\ spc = "fork" => h[cur] = NoHandler /\ net[cur] \notin {"new", "queued"}

(* A handler's step that keeps its own count.                              *)
LEMMA CountKept ==
  ASSUME LengthInv, TypeOK', NEW k \in Client, h[k].pc # "none", NEW r \in HandlerState,
         h' = [h EXCEPT ![k] = r], Counted(r), UNCHANGED <<net, server>>
  PROVE  LengthInv'
<1>1. h[k] # NoHandler
  BY DEF NoHandler
<1>2. spc' = "fork" => cur' = cur /\ cur # k /\ h'[cur] = h[cur]
  BY <1>1 DEF LengthInv, TypeOK, server
<1>3. h'[k] = r /\ \A j \in Client : j # k => h'[j] = h[j]
  BY DEF LengthInv, TypeOK
<1>4. \A j \in Client :
        Counted(h'[j]) /\ (net'[j] \in {"new", "queued"} => h'[j] = NoHandler)
  BY <1>1, <1>3 DEF LengthInv
<1> QED
  BY <1>2, <1>4 DEF LengthInv, server, Counted

LEMMA CountEnds ==
  ASSUME LengthInv, TypeOK', NEW k \in Client, NEW from \in {"read", "dir", "reg", "header",
           "forward", "first", "loop", "fclose", "end"}, Ends(k, from) \/ Crash(k, from)
  PROVE  LengthInv'
<1> DEFINE r == [h[k] EXCEPT !.pc = "none"]
<1>1. h[k] \in HandlerState /\ h[k].pc = from
  BY DEF LengthInv, TypeOK, Ends, Crash, HandlerStep
<1>2. r \in HandlerState /\ Counted(r)
  BY <1>1 DEF HandlerState, Counted
<1> QED
  BY <1>1, <1>2, CountKept DEF Ends, Crash, HandlerStep, clients, server

LEMMA CountGoes ==
  ASSUME LengthInv, TypeOK', NEW k \in Client, NEW from \in {"read", "dir", "reg", "header",
           "forward", "first", "loop", "fclose", "end"},
         NEW r \in HandlerState, Goes(k, from, r) \/ Writes(k, from, r), Counted(r)
  PROVE  LengthInv'
<1>1. CASE Goes(k, from, r)
  BY <1>1, CountKept DEF Goes, HandlerStep, clients, server
<1>2. CASE Crash(k, from)
  BY <1>2, CountEnds
<1> QED
  BY <1>1, <1>2 DEF Writes

LEMMA CountHandles ==
  ASSUME LengthInv, TypeOK', NEW k \in Client, Handles(k)
  PROVE  LengthInv'
<1>1. TypeOK /\ h[k] \in HandlerState /\ Counted(h[k]) /\ Chunk \in Nat \ {0}
  BY NumberAssumption DEF LengthInv, TypeOK
<1>2. CASE ReadNothing(k) \/ ForwardFails(k) \/ Unusable(k)
           \/ HtmlOverflows(k) \/ FcloseNull(k) \/ BadArgument(k) \/ Grown(k) \/ Exit(k)
  BY <1>2, CountEnds DEF ReadNothing, ForwardFails, Unusable, HtmlOverflows, FcloseNull,
     BadArgument, Grown, Exit
<1>3. CASE PopenFails(k)
  BY <1>3, CountEnds DEF PopenFails, Popens
<1>4. CASE Found(k)
  <2>1. got[k].file \in {"dir", "reg", "special"}
    BY <1>1, <1>4, StateTypes DEF Found, TypeOK
  <2>2. h[k].pc = "read"
    BY <1>4 DEF Found, Goes, HandlerStep
  <2>3. Counted(Typed(h[k], got[k].file))
    BY <1>1, <2>1, <2>2 DEF Counted, Typed, HandlerState
  <2> QED
    BY <1>1, <1>4, <2>1, <2>3, TypedType, CountGoes DEF Found
<1>5. CASE NotFound(k)
  <2>1. PICK type \in {"dir", "reg", "special"} :
          Writes(k, "read", Typed(Part(k, "404", "end"), type))
    BY <1>5 DEF NotFound
  <2>2. h[k].pc = "read"
    BY <2>1 DEF Writes, Goes, Crash, Ends, HandlerStep
  <2>3. Counted(Typed(Part(k, "404", "end"), type))
    BY <1>1, <2>2 DEF Counted, Typed, Part, HandlerState
  <2>4. Typed(Part(k, "404", "end"), type) \in HandlerState
    BY <1>1, PartType, TypedType
  <2> QED
    BY <2>1, <2>3, <2>4, CountGoes
<1>6. CASE Popen(k)
  <2>1. h[k].pc \in {"dir", "reg"}
    BY <1>6 DEF Popen, Popens
  <2>2. /\ [h[k] EXCEPT !.pc = "header"] \in HandlerState
        /\ Counted([h[k] EXCEPT !.pc = "header"])
    BY <1>1, <2>1 DEF HandlerState, Counted
  <2> QED
    BY <1>6, <2>1, <2>2, CountKept DEF Popen, HandlerStep, clients, server
<1>7. CASE RunHeader(k)
  <2>1. h[k].pc = "header"
    BY <1>7 DEF RunHeader, Writes, Goes, Crash, Ends, HandlerStep
  <2>2. Counted(Part(k, "200", "forward"))
    BY <1>1, <2>1 DEF Counted, Part, HandlerState
  <2> QED
    BY <1>1, <1>7, <2>2, PartType, CountGoes DEF RunHeader
<1>8. CASE Pclose(k)
  <2>1. PICK to \in {"end", "fclose"} : Goes(k, "forward", Part(k, "output", to))
    BY <1>8 DEF Pclose
  <2>2. h[k].pc = "forward"
    BY <2>1 DEF Goes, HandlerStep
  <2>3. Counted(Part(k, "output", to))
    BY <1>1, <2>2 DEF Counted, Part, HandlerState
  <2> QED
    BY <1>1, <2>1, <2>3, PartType, CountGoes
<1>9. CASE Fclose(k)
  <2>1. h[k].pc = "fclose"
    BY <1>9 DEF Fclose, Goes, HandlerStep
  <2>2. /\ [h[k] EXCEPT !.pc = "end"] \in HandlerState
        /\ Counted([h[k] EXCEPT !.pc = "end"])
    BY <1>1, <2>1 DEF HandlerState, Counted
  <2> QED
    BY <1>9, <2>2, CountGoes DEF Fclose
<1>10. CASE Unsupported(k) \/ Html(k)
  <2>1. PICK p \in {"501", "page"} : Writes(k, "reg", Part(k, p, "fclose"))
    BY <1>10 DEF Unsupported, Html
  <2>2. h[k].pc = "reg"
    BY <2>1 DEF Writes, Goes, Crash, Ends, HandlerStep
  <2>3. Counted(Part(k, p, "fclose"))
    BY <1>1, <2>2 DEF Counted, Part, HandlerState
  <2> QED
    BY <1>1, <2>1, <2>3, PartType, CountGoes
<1>11. CASE PictureHeader(k)
  <2> DEFINE r(n) == [Part(k, "200", "first") EXCEPT !.left = n, !.length = n]
  <2>1. PICK n \in Sizes(k) : Writes(k, "reg", r(n))
    BY <1>11 DEF PictureHeader
  <2>2. n \in Nat /\ n \in Int
    BY <1>1, StateTypes, NumberAssumption DEF Sizes, TypeOK
  <2>3. h[k].pc = "reg"
    BY <2>1 DEF Writes, Goes, Crash, Ends, HandlerStep
  <2>4. /\ Part(k, "200", "first") \in HandlerState
        /\ Part(k, "200", "first").body = 0 /\ Part(k, "200", "first").pc = "first"
    <3>1. Part(k, "200", "first") \in HandlerState
      BY <1>1, PartType
    <3>2. h[k].body = 0
      BY <1>1, <2>3 DEF Counted
    <3>3. Part(k, "200", "first").body = 0 /\ Part(k, "200", "first").pc = "first"
      BY <1>1, <3>2 DEF Part, HandlerState
    <3> QED
      BY <3>1, <3>3
  <2>5. \A q \in HandlerState : q.pc = "first" /\ q.body = 0 =>
          /\ [q EXCEPT !.left = n, !.length = n] \in HandlerState
          /\ Counted([q EXCEPT !.left = n, !.length = n])
    BY <2>2 DEF HandlerState, Counted
  <2>6. r(n) \in HandlerState /\ Counted(r(n))
    BY <2>4, <2>5
  <2> QED
    BY <2>1, <2>6, CountGoes
<1>12. CASE FirstChunk(k)
  <2>1. h[k].pc = "first"
    BY <1>12 DEF FirstChunk, Writes, Goes, Crash, Ends, HandlerStep
  <2>2. Counted(Copied(k, Chunk, "loop"))
    BY <1>1, <2>1 DEF Counted, Copied, HandlerState
  <2> QED
    BY <1>1, <1>12, <2>2, CopiedType, CountGoes DEF FirstChunk
<1>13. CASE NextChunk(k)
  <2>1. h[k].pc = "loop" /\ h[k].left > Chunk
    BY <1>13 DEF NextChunk, Writes, Goes, Crash, Ends, HandlerStep
  <2>2. Counted(Copied(k, Chunk, "loop"))
    BY <1>1, <2>1 DEF Counted, Copied, HandlerState
  <2> QED
    BY <1>1, <1>13, <2>2, CopiedType, CountGoes DEF NextChunk
<1>14. CASE LastChunk(k)
  <2>1. h[k].pc = "loop" /\ h[k].left \in Int
    BY <1>1, <1>14 DEF LastChunk, Writes, Goes, Crash, Ends, HandlerStep, HandlerState
  <2>2. Counted(Copied(k, h[k].left, "fclose"))
    BY <1>1, <2>1 DEF Counted, Copied, HandlerState
  <2> QED
    BY <1>1, <1>14, <2>1, <2>2, CopiedType, CountGoes DEF LastChunk
<1> QED
  BY <1>2, <1>3, <1>4, <1>5, <1>6, <1>7, <1>8, <1>9, <1>10, <1>11, <1>12, <1>13, <1>14
     DEF Handles

LEMMA LengthStep == LengthInv /\ [Next]_vars => LengthInv'
<1> SUFFICES ASSUME LengthInv, [Next]_vars PROVE LengthInv'
  OBVIOUS
<1>1. TypeOK /\ TypeOK'
  BY TypeStep DEF LengthInv
<1>2. CASE Fork
  <2>1. h[cur] = NoHandler /\ net[cur] \notin {"new", "queued"} /\ cur \in Client
    BY <1>1, <1>2 DEF Fork, ServerStep, LengthInv, TypeOK
  <2>2. Counted([h[cur] EXCEPT !.pc = "read"])
    BY <2>1 DEF Counted, NoHandler
  <2>3. UNCHANGED net /\ spc' = "close" /\ h' = [h EXCEPT ![cur].pc = "read"]
    BY <1>2 DEF Fork, ServerStep
  <2> QED
    BY <1>1, <2>1, <2>2, <2>3 DEF LengthInv, TypeOK
<1>3. CASE ForkFails \/ Close
  BY <1>1, <1>3 DEF ForkFails, Close, ServerStep, LengthInv
<1>4. ASSUME NEW k \in Client, Accept(k) PROVE LengthInv'
  BY <1>1, <1>4 DEF Accept, ServerStep, LengthInv, TypeOK
<1>5. ASSUME NEW k \in Client, ClientMoves(k) PROVE LengthInv'
  BY <1>1, <1>5 DEF ClientMoves, Connect, Ask, Stall, Resume, Leave, Finish, ClientStep, LengthInv, TypeOK, server
<1>6. ASSUME NEW k \in Client, AskPicture(k) PROVE LengthInv'
  <2>1. Counted(NoHandler) /\ NoHandler.sent # <<"200", "output">>
    BY DEF NoHandler, Counted
  <2>2. spc = "fork" => k # cur
    BY <1>6, <2>1 DEF AskPicture, HasPage, LengthInv
  <2> QED
    BY <1>1, <1>6, <2>1, <2>2 DEF AskPicture, ClientStep, LengthInv, TypeOK, server
<1>7. ASSUME NEW k \in Client, Handles(k) PROVE LengthInv'
  BY <1>1, <1>7, CountHandles
<1>8. ASSUME NEW k \in Client, Scripts(k) PROVE LengthInv'
  BY <1>1, <1>8 DEF Scripts, BeginPlot, EndPlot, ScriptEnds, ScriptStep, LengthInv, server,
     clients
<1>9. CASE UNCHANGED vars
  BY <1>1, <1>9 DEF vars, server, clients, LengthInv
<1> QED
  BY <1>2, <1>3, <1>4, <1>5, <1>6, <1>7, <1>8, <1>9 DEF Next, ClientMoves

(* webserv.c:247-260: a picture of at least one chunk is sent with exactly *)
(* the bytes that were announced, whatever its size, for any chunk.        *)
THEOREM LengthAlwaysHonoured == Spec => []LengthHonoured
<1>1. Init => LengthInv
  <2>1. Init => TypeOK
    BY StateTypes, AsksAssumption DEF Init, TypeOK, PlotState
  <2>2. Counted(NoHandler)
    BY DEF NoHandler, Counted
  <2> QED
    BY <2>1, <2>2 DEF Init, LengthInv
<1>2. LengthInv => LengthHonoured
  BY DEF LengthInv, LengthHonoured, Counted
<1> QED
  BY <1>1, <1>2, LengthStep, PTL DEF Spec

-----------------------------------------------------------------------------
(* What OwnPlotShown rests on.  A browser that has plotted undisturbed is  *)
(* alone with the picture file, which is whole once its script is through. *)
(* The picture is asked for only when the script is over, because the page *)
(* comes with the end of the script.                                       *)
Early == {"read", "dir", "reg", "header", "forward"}
ScriptState == {"none", "begun", "plotting", "plotted", "over"}
NoOutput(sent) == \A i \in DOMAIN sent : sent[i] # "output"
Own(k) == [by |-> {k}, whole |-> TRUE]

Tracked(k, r, s) ==
  /\ s # "none" => r.pc \in {"none", "header", "forward"} /\ NoOutput(r.sent) /\ r.seen = {}
  /\ r.pc \in Early => NoOutput(r.sent) /\ r.seen = {}
  /\ alone[k] => plot.by = {k} /\ (s = "plotting" \/ plot.whole) /\ r.seen \subseteq {Own(k)}

PlotInv ==
  /\ TypeOK /\ alone \in [Client -> BOOLEAN]
  /\ \A k \in Client :
       /\ Tracked(k, h[k], script[k])
       /\ alone[k] => Plotting \subseteq {k}
       /\ net[k] \in {"new", "queued"} => h[k] = NoHandler /\ script[k] = "none"
  /\ spc = "fork" =>
       h[cur] = NoHandler /\ script[cur] = "none" /\ net[cur] \notin {"new", "queued"}

(* A handler's step that keeps track, with what it does to its script.     *)
LEMMA TrackKept ==
  ASSUME PlotInv, TypeOK', NEW k \in Client, h[k].pc # "none",
         NEW r \in HandlerState, NEW v \in ScriptState, v = "plotting" => script[k] = "plotting",
         h' = [h EXCEPT ![k] = r], script' = [script EXCEPT ![k] = v],
         Tracked(k, r, v), UNCHANGED <<net, server, plots>>
  PROVE  PlotInv'
<1>1. h[k] # NoHandler
  BY DEF NoHandler
<1>2. /\ h'[k] = r /\ script'[k] = v
      /\ \A j \in Client : j # k => h'[j] = h[j] /\ script'[j] = script[j]
  BY DEF PlotInv, TypeOK
<1>3. spc' = "fork" => cur' = cur /\ cur # k
  BY <1>1 DEF PlotInv, server
<1>4. Plotting' \subseteq Plotting
  BY <1>2 DEF Plotting
<1>5. ASSUME NEW j \in Client PROVE Tracked(j, h[j], script[j])' /\ (alone'[j] => Plotting' \subseteq {j})
  <2>1. Tracked(j, h'[j], script'[j])
    BY <1>2 DEF PlotInv
  <2> QED
    BY <1>4, <2>1 DEF PlotInv, Tracked, plots
<1>6. ASSUME NEW j \in Client, net'[j] \in {"new", "queued"}
      PROVE  h'[j] = NoHandler /\ script'[j] = "none"
  BY <1>1, <1>2, <1>6 DEF PlotInv
<1>7. spc' = "fork" => h'[cur'] = NoHandler /\ script'[cur'] = "none" /\ net'[cur'] \notin {"new", "queued"}
  BY <1>2, <1>3 DEF PlotInv, TypeOK, server
<1> QED
  BY <1>5, <1>6, <1>7 DEF PlotInv, plots

LEMMA TrackEnds ==
  ASSUME PlotInv, TypeOK', NEW k \in Client, NEW from, from # "none",
         (Ends(k, from) /\ UNCHANGED script) \/ Crash(k, from)
  PROVE  PlotInv'
<1> DEFINE r == [h[k] EXCEPT !.pc = "none"]
<1>1. h[k] \in HandlerState /\ h[k].pc # "none" /\ Tracked(k, h[k], script[k])
  BY DEF PlotInv, TypeOK, Ends, Crash, HandlerStep
<1>2. r \in HandlerState /\ r.pc = "none" /\ r.sent = h[k].sent /\ r.seen = h[k].seen
  BY <1>1 DEF HandlerState
<1>3. \A v \in {script[k], "none"} : (v = "none" => script[k] \in {"over", "none"}) => Tracked(k, r, v)
  BY <1>1, <1>2 DEF Tracked, Early
<1>4. PICK v \in {script[k], "none"} :
        script' = [script EXCEPT ![k] = v] /\ (v = "none" => script[k] \in {"over", "none"})
  BY DEF Ends, Crash, PlotInv, TypeOK
<1>5. v \in ScriptState /\ (v = "plotting" => script[k] = "plotting")
  BY <1>4 DEF PlotInv, TypeOK, ScriptState
<1>6. h' = [h EXCEPT ![k] = r] /\ UNCHANGED <<net, server, plots>>
  BY <1>1 DEF Ends, Crash, HandlerStep, clients
<1> QED
  BY <1>1, <1>2, <1>3, <1>4, <1>5, <1>6, TrackKept

LEMMA TrackGoes ==
  ASSUME PlotInv, TypeOK', NEW k \in Client, NEW from, from # "none",
         NEW r \in HandlerState, Tracked(k, r, script[k]),
         (Goes(k, from, r) /\ UNCHANGED script) \/ Writes(k, from, r)
  PROVE  PlotInv'
<1>1. CASE Goes(k, from, r) /\ UNCHANGED script
  <2>1. script' = [script EXCEPT ![k] = script[k]] /\ script[k] \in ScriptState
    BY <1>1 DEF PlotInv, TypeOK, ScriptState
  <2> QED
    BY <1>1, <2>1, TrackKept DEF Goes, HandlerStep, clients
<1>2. CASE Crash(k, from)
  BY <1>2, TrackEnds
<1> QED
  BY <1>1, <1>2 DEF Writes

(* A handler that has no script to wait for, and appends a part that is no *)
(* output or none at all, keeps track.                                     *)
LEMMA TrackParts ==
  ASSUME PlotInv, NEW k \in Client, NEW r \in HandlerState, h[k].pc \in Early,
         script[k] # "none" => r.pc = "forward",
         \/ r.sent = h[k].sent
         \/ \E p \in {"404", "501", "200", "page"} : r.sent = Append(h[k].sent, p),
         r.seen = h[k].seen
  PROVE  Tracked(k, r, script[k])
<1>1. h[k] \in HandlerState /\ Tracked(k, h[k], script[k])
  BY DEF PlotInv, TypeOK
<1>2. NoOutput(h[k].sent) /\ h[k].seen = {}
  BY <1>1 DEF Tracked
<1>3. ASSUME NEW p \in {"404", "501", "200", "page"} PROVE NoOutput(Append(h[k].sent, p))
  <2>1. h[k].sent \in Seq({"404", "501", "200", "output", "page"})
    BY <1>1 DEF HandlerState
  <2> QED
    BY <1>2, <2>1 DEF NoOutput
<1>4. NoOutput(r.sent)
  BY <1>2, <1>3
<1> QED
  BY <1>1, <1>2, <1>4 DEF Tracked

LEMMA TrackHandles ==
  ASSUME PlotInv, TypeOK', NEW k \in Client, Handles(k)
  PROVE  PlotInv'
<1>1. TypeOK /\ h[k] \in HandlerState /\ Tracked(k, h[k], script[k])
  BY DEF PlotInv, TypeOK
<1>2. CASE ReadNothing(k) \/ ForwardFails(k) \/ Unusable(k)
           \/ HtmlOverflows(k) \/ FcloseNull(k) \/ BadArgument(k) \/ Grown(k) \/ Exit(k)
  BY <1>2, TrackEnds DEF ReadNothing, ForwardFails, Unusable, HtmlOverflows, FcloseNull,
     BadArgument, Grown, Exit
<1>3. CASE PopenFails(k)
  BY <1>3, TrackEnds DEF PopenFails, Popens
<1>4. CASE Found(k)
  <2>1. got[k].file \in {"dir", "reg", "special"} /\ h[k].pc = "read"
    BY <1>1, <1>4, StateTypes DEF Found, Goes, HandlerStep, TypeOK
  <2>2. Typed(h[k], got[k].file) \in HandlerState
    BY <1>1, <2>1, TypedType
  <2>3. /\ Typed(h[k], got[k].file).sent = h[k].sent
        /\ Typed(h[k], got[k].file).seen = h[k].seen
    BY <1>1 DEF Typed, HandlerState
  <2>4. Tracked(k, Typed(h[k], got[k].file), script[k])
    BY <1>1, <2>1, <2>2, <2>3, TrackParts DEF Tracked, Early
  <2> QED
    BY <1>4, <2>2, <2>4, TrackGoes DEF Found
<1>5. CASE NotFound(k)
  <2>1. PICK type \in {"dir", "reg", "special"} :
          Writes(k, "read", Typed(Part(k, "404", "end"), type))
    BY <1>5 DEF NotFound
  <2> DEFINE r == Typed(Part(k, "404", "end"), type)
  <2>2. h[k].pc = "read"
    BY <2>1 DEF Writes, Goes, Crash, Ends, HandlerStep
  <2>3. r \in HandlerState
    BY <1>1, PartType, TypedType
  <2>4. r.sent = Append(h[k].sent, "404") /\ r.seen = h[k].seen
    BY <1>1 DEF Typed, Part, HandlerState
  <2>5. Tracked(k, r, script[k])
    BY <1>1, <2>2, <2>3, <2>4, TrackParts DEF Tracked, Early
  <2> QED
    BY <2>1, <2>3, <2>5, TrackGoes
<1>6. CASE Popen(k)
  <2> DEFINE r == [h[k] EXCEPT !.pc = "header"]
  <2>1. h[k].pc \in {"dir", "reg"}
    BY <1>6 DEF Popen, Popens
  <2>2. r \in HandlerState /\ r.pc = "header" /\ r.sent = h[k].sent /\ r.seen = h[k].seen
    BY <1>1 DEF HandlerState
  <2>3. Tracked(k, r, "begun")
    BY <1>1, <2>1, <2>2 DEF Tracked, Early
  <2>4. h' = [h EXCEPT ![k] = r] /\ script' = [script EXCEPT ![k] = "begun"]
        /\ UNCHANGED <<net, server, plots>>
    BY <1>6 DEF Popen, HandlerStep, clients
  <2> QED
    BY <2>1, <2>2, <2>3, <2>4, TrackKept DEF ScriptState
<1>7. CASE RunHeader(k)
  <2> DEFINE r == Part(k, "200", "forward")
  <2>1. h[k].pc = "header"
    BY <1>7 DEF RunHeader, Writes, Goes, Crash, Ends, HandlerStep
  <2>2. r \in HandlerState
    BY <1>1, PartType
  <2>3. r.pc = "forward" /\ r.sent = Append(h[k].sent, "200") /\ r.seen = h[k].seen
    BY <1>1 DEF Part, HandlerState
  <2>4. Tracked(k, r, script[k])
    BY <2>1, <2>2, <2>3, TrackParts DEF Early
  <2> QED
    BY <1>7, <2>2, <2>4, TrackGoes DEF RunHeader
<1>8. CASE Pclose(k)
  <2>1. PICK to \in {"end", "fclose"} : Goes(k, "forward", Part(k, "output", to))
    BY <1>8 DEF Pclose
  <2> DEFINE r == Part(k, "output", to)
  <2>2. h[k].pc = "forward" /\ script[k] = "over" /\ script' = [script EXCEPT ![k] = "none"]
    BY <1>8, <2>1 DEF Pclose, Goes, HandlerStep
  <2>3. r \in HandlerState
    BY <1>1, PartType
  <2>4. r.pc = to /\ r.seen = h[k].seen
    BY <1>1 DEF Part, HandlerState
  <2>5. Tracked(k, r, "none")
    BY <1>1, <2>2, <2>4 DEF Tracked, Early
  <2> QED
    BY <2>1, <2>2, <2>3, <2>5, TrackKept DEF Goes, HandlerStep, clients, ScriptState
<1>9. CASE Fclose(k)
  <2> DEFINE r == [h[k] EXCEPT !.pc = "end"]
  <2>1. h[k].pc = "fclose"
    BY <1>9 DEF Fclose, Goes, HandlerStep
  <2>2. r \in HandlerState /\ r.pc = "end" /\ r.seen = h[k].seen
    BY <1>1 DEF HandlerState
  <2>3. Tracked(k, r, script[k])
    BY <1>1, <2>1, <2>2 DEF Tracked, Early
  <2> QED
    BY <1>9, <2>2, <2>3, TrackGoes DEF Fclose
<1>10. CASE Unsupported(k) \/ Html(k)
  <2>1. PICK p \in {"501", "page"} : Writes(k, "reg", Part(k, p, "fclose"))
    BY <1>10 DEF Unsupported, Html
  <2> DEFINE r == Part(k, p, "fclose")
  <2>2. h[k].pc = "reg"
    BY <2>1 DEF Writes, Goes, Crash, Ends, HandlerStep
  <2>3. r \in HandlerState
    BY <1>1, PartType
  <2>4. r.sent = Append(h[k].sent, p) /\ r.seen = h[k].seen
    BY <1>1 DEF Part, HandlerState
  <2>5. Tracked(k, r, script[k])
    BY <1>1, <2>2, <2>3, <2>4, TrackParts DEF Tracked, Early
  <2> QED
    BY <2>1, <2>3, <2>5, TrackGoes
<1>11. CASE PictureHeader(k)
  <2> DEFINE r(n) == [Part(k, "200", "first") EXCEPT !.left = n, !.length = n]
  <2>1. PICK n \in Sizes(k) : Writes(k, "reg", r(n))
    BY <1>11 DEF PictureHeader
  <2>2. n \in Nat /\ n \in Int
    BY <1>1, StateTypes, NumberAssumption DEF Sizes, TypeOK
  <2>3. h[k].pc = "reg"
    BY <2>1 DEF Writes, Goes, Crash, Ends, HandlerStep
  <2>4. Part(k, "200", "first") \in HandlerState
    BY <1>1, PartType
  <2>5. /\ Part(k, "200", "first").sent = Append(h[k].sent, "200")
        /\ Part(k, "200", "first").seen = h[k].seen
    BY <1>1 DEF Part, HandlerState
  <2>6. \A q \in HandlerState :
          /\ [q EXCEPT !.left = n, !.length = n] \in HandlerState
          /\ [q EXCEPT !.left = n, !.length = n].sent = q.sent
          /\ [q EXCEPT !.left = n, !.length = n].seen = q.seen
    BY <2>2 DEF HandlerState
  <2>7. r(n) \in HandlerState /\ r(n).sent = Append(h[k].sent, "200") /\ r(n).seen = h[k].seen
    BY <2>4, <2>5, <2>6
  <2>8. Tracked(k, r(n), script[k])
    BY <1>1, <2>3, <2>7, TrackParts DEF Tracked, Early
  <2> QED
    BY <2>1, <2>7, <2>8, TrackGoes
<1>12. CASE FirstChunk(k) \/ NextChunk(k) \/ LastChunk(k)
  <2>1. h[k].left \in Int /\ Chunk \in Int
    BY <1>1, NumberAssumption DEF HandlerState
  <2>2. PICK n \in Int, to \in {"loop", "fclose"}, from \in {"first", "loop"} :
          Writes(k, from, Copied(k, n, to))
    BY <1>12, <2>1 DEF FirstChunk, NextChunk, LastChunk
  <2> DEFINE r == Copied(k, n, to)
  <2>3. h[k].pc = from
    BY <2>2 DEF Writes, Goes, Crash, Ends, HandlerStep
  <2>4. r \in HandlerState
    BY <1>1, CopiedType
  <2>5. r.pc = to /\ r.seen \subseteq h[k].seen \cup {plot}
    BY <1>1 DEF Copied, HandlerState
  <2>6. script[k] = "none"
    BY <1>1, <2>3 DEF Tracked
  <2>7. alone[k] => plot = Own(k)
    BY <1>1, <2>6 DEF Tracked, Own, TypeOK, PlotState
  <2>8. Tracked(k, r, script[k])
    BY <1>1, <2>5, <2>6, <2>7 DEF Tracked, Early
  <2> QED
    BY <2>2, <2>4, <2>8, TrackGoes
<1> QED
  BY <1>2, <1>3, <1>4, <1>5, <1>6, <1>7, <1>8, <1>9, <1>10, <1>11, <1>12 DEF Handles

LEMMA TrackScripts ==
  ASSUME PlotInv, TypeOK', NEW k \in Client, Scripts(k)
  PROVE  PlotInv'
<1>1. UNCHANGED <<h, net, spc, cur>> /\ TypeOK
  BY DEF Scripts, BeginPlot, EndPlot, ScriptEnds, ScriptStep, server, clients, PlotInv
<1>2. PICK v \in ScriptState :
        script' = [script EXCEPT ![k] = v] /\ script[k] # "none"
  BY DEF Scripts, BeginPlot, EndPlot, ScriptEnds, ScriptStep, Plots, ScriptState
<1>3. script'[k] = v /\ \A j \in Client : j # k => script'[j] = script[j]
  BY <1>1, <1>2 DEF TypeOK
<1>4. net[k] \notin {"new", "queued"} /\ (spc = "fork" => cur # k)
  BY <1>2 DEF PlotInv
<1>5. \A j \in Client : net'[j] \in {"new", "queued"} => h'[j] = NoHandler /\ script'[j] = "none"
  BY <1>1, <1>3, <1>4 DEF PlotInv
<1>6. spc' = "fork" => h'[cur'] = NoHandler /\ script'[cur'] = "none" /\ net'[cur'] \notin {"new", "queued"}
  BY <1>1, <1>3, <1>4 DEF PlotInv, TypeOK
<1>7. h[k].pc \in {"none", "header", "forward"} /\ NoOutput(h[k].sent) /\ h[k].seen = {}
  BY <1>2 DEF PlotInv, Tracked
<1>8. CASE BeginPlot(k)
  <2>1. alone' = [j \in Client |-> j = k /\ Plotting = {}] /\ plot'.by = Plotting \cup {k}
        /\ v = "plotting"
    BY <1>1, <1>2, <1>3, <1>8 DEF BeginPlot, ScriptStep, TypeOK
  <2>2. Plotting' = Plotting \cup {k}
    BY <1>3, <2>1 DEF Plotting
  <2>3. ASSUME NEW j \in Client
        PROVE  Tracked(j, h[j], script[j])' /\ (alone'[j] => Plotting' \subseteq {j})
    BY <1>1, <1>3, <1>7, <2>1, <2>2 DEF PlotInv, Tracked
  <2> QED
    BY <1>5, <1>6, <2>1, <2>3 DEF PlotInv
<1>9. CASE EndPlot(k)
  <2>1. alone' = alone /\ script[k] = "plotting" /\ v = "plotted" /\ k \in Plotting
        /\ plot' = [plot EXCEPT !.whole = (Plotting = {k})] /\ plot \in PlotState
    BY <1>1, <1>2, <1>3, <1>9 DEF EndPlot, ScriptStep, Plotting, TypeOK
  <2>2. plot'.by = plot.by /\ plot'.whole = (Plotting = {k})
    BY <2>1 DEF PlotState
  <2>3. Plotting' \subseteq Plotting
    BY <1>3, <2>1 DEF Plotting
  <2>4. \A j \in Client : alone[j] => j = k /\ plot'.whole
    BY <2>1, <2>2 DEF PlotInv
  <2>5. ASSUME NEW j \in Client
        PROVE  Tracked(j, h[j], script[j])' /\ (alone'[j] => Plotting' \subseteq {j})
    BY <1>1, <1>3, <1>7, <2>1, <2>2, <2>3, <2>4 DEF PlotInv, Tracked
  <2> QED
    BY <1>5, <1>6, <2>1, <2>5 DEF PlotInv
<1>10. CASE ScriptEnds(k)
  <2>1. UNCHANGED plots /\ script[k] # "plotting" /\ v \in {"none", "over"}
    BY <1>1, <1>2, <1>3, <1>10 DEF ScriptEnds, ScriptStep, TypeOK
  <2>2. Plotting' \subseteq Plotting
    BY <1>3, <2>1 DEF Plotting
  <2>3. ASSUME NEW j \in Client
        PROVE  Tracked(j, h[j], script[j])' /\ (alone'[j] => Plotting' \subseteq {j})
    BY <1>1, <1>3, <1>7, <2>1, <2>2 DEF PlotInv, Tracked, plots
  <2> QED
    BY <1>5, <1>6, <2>1, <2>3 DEF PlotInv, plots
<1> QED
  BY <1>8, <1>9, <1>10 DEF Scripts

LEMMA PlotStep == PlotInv /\ [Next]_vars => PlotInv'
<1> SUFFICES ASSUME PlotInv, [Next]_vars PROVE PlotInv'
  OBVIOUS
<1>1. TypeOK /\ TypeOK'
  BY TypeStep DEF PlotInv
<1>2. CASE Fork
  <2>1. /\ h[cur] = NoHandler /\ script[cur] = "none" /\ net[cur] \notin {"new", "queued"}
        /\ cur \in Client
    BY <1>1, <1>2 DEF Fork, ServerStep, PlotInv, TypeOK
  <2>2. UNCHANGED <<net, script, plots>> /\ spc' = "close" /\ h' = [h EXCEPT ![cur].pc = "read"]
    BY <1>2 DEF Fork, ServerStep
  <2>3. Tracked(cur, [NoHandler EXCEPT !.pc = "read"], "none")
    BY <2>1 DEF PlotInv, Tracked, NoHandler, NoOutput
  <2>4. ASSUME NEW j \in Client PROVE Tracked(j, h[j], script[j])'
    BY <1>1, <2>1, <2>2, <2>3 DEF PlotInv, TypeOK, Tracked, plots
  <2> QED
    BY <1>1, <2>1, <2>2, <2>4 DEF PlotInv, TypeOK, Plotting, plots
<1>3. CASE ForkFails \/ Close
  BY <1>1, <1>3 DEF ForkFails, Close, ServerStep, PlotInv, Tracked, Plotting, plots
<1>4. ASSUME NEW k \in Client, Accept(k) PROVE PlotInv'
  BY <1>1, <1>4 DEF Accept, ServerStep, PlotInv, TypeOK, Tracked, Plotting, plots
<1>5. ASSUME NEW k \in Client, ClientMoves(k) PROVE PlotInv'
  <2>1. UNCHANGED <<spc, cur, h, script, plots>>
    BY <1>5 DEF ClientMoves, Connect, Ask, Stall, Resume, Leave, Finish, ClientStep, server
  <2>2. \A j \in Client : net'[j] \in {"new", "queued"} => net[j] \in {"new", "queued"}
    BY <1>1, <1>5 DEF ClientMoves, Connect, Ask, Stall, Resume, Leave, Finish, ClientStep, TypeOK
  <2> QED
    BY <1>1, <2>1, <2>2 DEF PlotInv, TypeOK, Tracked, Plotting, plots
<1>6. ASSUME NEW k \in Client, AskPicture(k) PROVE PlotInv'
  <2>1. h[k].sent = <<"200", "output">>
    BY <1>6 DEF AskPicture, HasPage
  <2>2. script[k] = "none" /\ h[k] # NoHandler
    BY <2>1 DEF PlotInv, Tracked, NoOutput, NoHandler
  <2>3. UNCHANGED <<spc, cur, script, plots>> /\ h' = [h EXCEPT ![k] = NoHandler]
        /\ net' = [net EXCEPT ![k] = "new"]
    BY <1>6 DEF AskPicture, ClientStep, server
  <2>4. Tracked(k, NoHandler, "none")
    BY <2>2 DEF PlotInv, Tracked, NoHandler, Early
  <2>5. spc = "fork" => k # cur
    BY <2>2 DEF PlotInv
  <2>6. ASSUME NEW j \in Client PROVE Tracked(j, h[j], script[j])'
    BY <1>1, <2>2, <2>3, <2>4 DEF PlotInv, TypeOK, Tracked, plots
  <2> QED
    BY <1>1, <2>2, <2>3, <2>5, <2>6 DEF PlotInv, TypeOK, Plotting, plots
<1>7. ASSUME NEW k \in Client, Handles(k) PROVE PlotInv'
  BY <1>1, <1>7, TrackHandles
<1>8. ASSUME NEW k \in Client, Scripts(k) PROVE PlotInv'
  BY <1>1, <1>8, TrackScripts
<1>9. CASE UNCHANGED vars
  BY <1>1, <1>9 DEF vars, server, clients, plots, PlotInv, Tracked, Plotting
<1> QED
  BY <1>2, <1>3, <1>4, <1>5, <1>6, <1>7, <1>8, <1>9 DEF Next, ClientMoves

(* runhistplot.cgi:14-46 with webserv.c: a browser that asks for a plot    *)
(* and then its picture sees its own plot, whole, if nobody else plotted   *)
(* meanwhile, for any number of browsers and whatever else they ask for.   *)
THEOREM OwnPlotAlwaysShown == Spec => []OwnPlotShown
<1>1. Init => PlotInv
  <2> SUFFICES ASSUME Init PROVE PlotInv
    OBVIOUS
  <2>1. TypeOK
    BY StateTypes, AsksAssumption DEF Init, TypeOK, PlotState
  <2>2. ASSUME NEW k \in Client PROVE Tracked(k, h[k], script[k])
    BY DEF Init, Tracked, NoHandler, Early
  <2> QED
    BY <2>1, <2>2 DEF Init, PlotInv, Plotting
<1>2. PlotInv => OwnPlotShown
  <2>1. ASSUME PlotInv, NEW k \in Client, h[k].seen # {}, alone[k]
        PROVE  h[k].seen = {Own(k)}
    <3>1. h[k].seen \subseteq {Own(k)}
      BY <2>1 DEF PlotInv, Tracked
    <3> QED
      BY <2>1, <3>1
  <2> QED
    BY <2>1 DEF OwnPlotShown, Own
<1> QED
  BY <1>1, <1>2, PlotStep, PTL DEF Spec
-----------------------------------------------------------------------------
(* The connection that the server is about to fork for, those it has       *)
(* forked for, and those whose browser asks for its picture by now.        *)
Forking(k) == spc = "fork" /\ cur = k
Tried == {k \in Client : net[k] \notin {"new", "queued"} /\ ~Forking(k)}
Again == {k \in Client : req[k] # first[k]}

(* A handler has its connection open, and no more of them have begun than  *)
(* requests were tried: one of each browser, and one more for its picture. *)
ProcessInv ==
  /\ PlotInv /\ IsolatedInv /\ procLimit \in Nat
  /\ \A k \in Again : req[k].ext # "plot"
  /\ spc = "fork" => Server \in open[cur]
  /\ \A k \in Running : Handler(k) \in open[k]
  /\ Cardinality(Running) + zombies <= Cardinality(Tried) + Cardinality(Again)

(* How far a handler r has come with k's request, which is proper and was  *)
(* read whole, while the client stays.                                     *)
Present(k) == net[k] \in {"waiting", "asked", "full"}
Whole(k) == got[k] = req[k] /\ Proper(k)
ByScript(k) == req[k].file = "dir" \/ req[k].ext \in {"cgi", "plot"}
Headed(r) == r.sent # <<>> /\ Head(r.sent) = "404"

OnWay(k, r) ==
  /\ r.pc = "dir" => r.sent = <<>> /\ r.type = "dir" /\ req[k].file = "dir"
  /\ r.pc = "reg" => r.sent = <<>> /\ r.type = "reg" /\ req[k].file = "reg"
  /\ r.pc = "header" => r.sent = <<>> /\ r.type = req[k].file /\ ByScript(k)
  /\ r.pc = "forward" => r.sent = <<"200">> /\ r.type = req[k].file /\ ByScript(k)
  /\ r.pc \in {"first", "loop"} =>
       r.sent = <<"200">> /\ req[k].file = "reg" /\ req[k].ext = "image"
  /\ r.pc = "fclose" => r.sent = Answer(k) /\ req[k].file = "reg"
  /\ r.pc \in {"end", "none"} => r.sent = Answer(k)

Answering(k, r) ==
  /\ net[k] = "waiting" => r.pc = "read"
  /\ r.pc = "read" => r.sent = <<>>
  /\ Whole(k) /\ r.pc # "read" =>
       IF req[k].file = "missing" THEN Headed(r) ELSE OnWay(k, r)

AnswerInv ==
  /\ ProcessInv
  /\ Enough => \A k \in Tried : Present(k) => Answering(k, h[k])

(* Numbers of browsers.                                                    *)
LEMMA Numbers ==
  ASSUME NEW S \in SUBSET Client
  PROVE  /\ IsFiniteSet(S) /\ Cardinality(S) \in Nat
         /\ Cardinality(Client) \in Nat /\ Cardinality(S) <= Cardinality(Client)
BY ClientAssumption, FS_Subset, FS_CardinalityType

(* Counting processes that start and end.                                  *)
LEMMA OneMore ==
  ASSUME NEW S \in SUBSET Client, NEW k \in Client, k \notin S
  PROVE  Cardinality(S \cup {k}) = Cardinality(S) + 1
BY Numbers, FS_AddElement

LEMMA OneFewer ==
  ASSUME NEW S \in SUBSET Client, NEW k \in S
  PROVE  Cardinality(S \ {k}) = Cardinality(S) - 1
BY Numbers, FS_RemoveElement

(* If the system allows enough processes there is one for every request    *)
(* and for every script.                                                   *)
LEMMA RoomForAll ==
  ASSUME ProcessInv, Enough, NEW k \in Client, script[k] = "none"
  PROVE  Room
<1> DEFINE c == Cardinality(Client)
<1>1. c \in Nat /\ zombies \in Nat /\ procLimit \in Nat /\ 3 * c < procLimit
  BY Numbers DEF ProcessInv, PlotInv, TypeOK, Enough
<1>2. /\ Cardinality(Running) \in Nat
      /\ Cardinality(Tried) \in Nat /\ Cardinality(Tried) <= c
      /\ Cardinality(Again) \in Nat /\ Cardinality(Again) <= c
  BY Numbers DEF Running, Tried, Again
<1>3. Cardinality(Scripted) \in Nat /\ Cardinality(Scripted) + 1 <= c
  <2>1. Scripted \in SUBSET Client /\ Scripted \cup {k} \in SUBSET Client /\ k \notin Scripted
    BY DEF Scripted
  <2>2. Cardinality(Scripted \cup {k}) = Cardinality(Scripted) + 1
    BY <2>1, OneMore
  <2> QED
    BY <2>1, <2>2, Numbers
<1>4. Cardinality(Running) + zombies <= Cardinality(Tried) + Cardinality(Again)
  BY DEF ProcessInv
<1> HIDE DEF c
<1> QED
  BY <1>1, <1>2, <1>3, <1>4 DEF Room

(* What a handler's step does to its processes.                            *)
GoesOn(k, r) ==
  /\ r.pc # "none" /\ h' = [h EXCEPT ![k] = r] /\ zombies' = zombies
  /\ open' = open \/ Inherits(Script(k), Handler(k))

(* A handler's step changes its own state and script or ends it, leaving   *)
(* one zombie.                                                             *)
LEMMA HandlerShape ==
  ASSUME TypeOK, NEW k \in Client, Handles(k)
  PROVE  /\ h[k].pc # "none" /\ UNCHANGED <<fixed, server, clients, plots>>
         /\ \/ \E r : GoesOn(k, r)
            \/ h' = [h EXCEPT ![k].pc = "none"] /\ zombies' = zombies + 1 /\ Drops(Handler(k))
<1> DEFINE P == /\ h[k].pc # "none" /\ UNCHANGED <<fixed, server, clients, plots>>
                /\ \/ \E r : GoesOn(k, r)
                   \/ /\ h' = [h EXCEPT ![k].pc = "none"] /\ zombies' = zombies + 1
                      /\ Drops(Handler(k))
<1> SUFFICES P
  OBVIOUS
<1>1. h[k] \in HandlerState
  BY DEF TypeOK
<1>2. ASSUME NEW from, from # "none", Ends(k, from) \/ Crash(k, from) PROVE P
  BY <1>2 DEF Ends, Crash, HandlerStep
<1>3. ASSUME NEW from, from # "none", NEW r, r.pc # "none", Goes(k, from, r) \/ Writes(k, from, r)
      PROVE  P
  BY <1>2, <1>3 DEF Goes, Writes, GoesOn, HandlerStep
<1>4. \A p, to : Part(k, p, to).pc = to
  BY <1>1 DEF Part, HandlerState
<1>5. \A n, to : Copied(k, n, to).pc = to
  BY <1>1 DEF Copied, HandlerState
<1>6. ASSUME NEW r \in HandlerState, NEW type PROVE Typed(r, type).pc # "none"
  BY DEF Typed, HandlerState
<1> HIDE DEF P
<1>7. CASE ReadNothing(k) \/ ForwardFails(k) \/ Unusable(k) \/ HtmlOverflows(k)
           \/ FcloseNull(k) \/ BadArgument(k) \/ Grown(k) \/ Exit(k)
  BY <1>2, <1>7 DEF ReadNothing, ForwardFails, Unusable, HtmlOverflows, FcloseNull,
     BadArgument, Grown, Exit
<1>8. CASE PopenFails(k)
  BY <1>2, <1>8 DEF PopenFails, Popens
<1>9. CASE Found(k)
  BY <1>1, <1>3, <1>6, <1>9 DEF Found
<1>10. CASE NotFound(k)
  <2>1. PICK type \in {"dir", "reg", "special"} :
          Writes(k, "read", Typed(Part(k, "404", "end"), type))
    BY <1>10 DEF NotFound
  <2> QED
    BY <1>3, <1>6, <2>1, PartType
<1>11. CASE Popen(k)
  <2>1. [h[k] EXCEPT !.pc = "header"].pc = "header" /\ h[k].pc # "none"
    BY <1>1, <1>11 DEF Popen, Popens, HandlerState
  <2> QED
    BY <1>11, <2>1 DEF Popen, HandlerStep, GoesOn, P
<1>12. CASE RunHeader(k) \/ Pclose(k) \/ Unsupported(k) \/ Html(k)
  BY <1>3, <1>4, <1>12 DEF RunHeader, Pclose, Unsupported, Html
<1>13. CASE Fclose(k)
  <2>1. [h[k] EXCEPT !.pc = "end"].pc = "end"
    BY <1>1 DEF HandlerState
  <2> QED
    BY <1>3, <1>13, <2>1 DEF Fclose
<1>14. CASE PictureHeader(k)
  <2>1. PICK n \in Sizes(k) :
          Writes(k, "reg", [Part(k, "200", "first") EXCEPT !.left = n, !.length = n])
    BY <1>14 DEF PictureHeader
  <2>2. [Part(k, "200", "first") EXCEPT !.left = n, !.length = n].pc = "first"
    <3>1. Part(k, "200", "first") \in HandlerState /\ Part(k, "200", "first").pc = "first"
      BY <1>4, PartType
    <3>2. \A q \in HandlerState : [q EXCEPT !.left = n, !.length = n].pc = q.pc
      BY DEF HandlerState
    <3> QED
      BY <3>1, <3>2
  <2> QED
    BY <1>3, <2>1, <2>2
<1>15. CASE FirstChunk(k) \/ NextChunk(k) \/ LastChunk(k)
  BY <1>3, <1>5, <1>15 DEF FirstChunk, NextChunk, LastChunk
<1> QED
  BY <1>7, <1>8, <1>9, <1>10, <1>11, <1>12, <1>13, <1>14, <1>15 DEF Handles

(* A handler's step, if it ends, trades a process for a zombie.            *)
LEMMA HandlerProcesses ==
  ASSUME ProcessInv, PlotInv', IsolatedInv', NEW k \in Client, Handles(k)
  PROVE  ProcessInv'
<1>1. TypeOK /\ TypeOK' /\ open \in [Client -> SUBSET UNION {Parts(j) : j \in Client}]
  BY DEF ProcessInv, PlotInv, IsolatedInv
<1>2. h[k].pc # "none" /\ UNCHANGED <<procLimit, first, spc, cur, net, req>>
  BY <1>1, HandlerShape DEF fixed, server, clients
<1>3. Tried' = Tried /\ Again' = Again /\ procLimit' \in Nat
      /\ \A j \in Again' : req'[j].ext # "plot"
  BY <1>2 DEF Tried, Again, Forking, ProcessInv
<1>4. k \in Running /\ Running \in SUBSET Client /\ zombies \in Nat
  BY <1>1, <1>2 DEF Running, TypeOK
<1>5. CASE \E r : GoesOn(k, r)
  <2>1. PICK r : GoesOn(k, r)
    BY <1>5
  <2>2. \A j \in Client : open[j] \subseteq open'[j]
    BY <1>1, <2>1 DEF GoesOn, Inherits
  <2>3. Running' = Running /\ zombies' = zombies
    <3>1. h'[k].pc # "none" /\ \A j \in Client : j # k => h'[j] = h[j]
      BY <1>1, <2>1 DEF GoesOn, TypeOK
    <3>2. \A j \in Client : h'[j].pc # "none" <=> h[j].pc # "none"
      BY <1>2, <3>1
    <3> QED
      BY <2>1, <3>2 DEF GoesOn, Running
  <2>4. \A j \in Running' : Handler(j) \in open'[j]
    BY <1>4, <2>2, <2>3 DEF ProcessInv
  <2>5. spc' = "fork" => Server \in open'[cur']
    BY <1>1, <1>2, <2>2 DEF ProcessInv, TypeOK
  <2>6. Cardinality(Running') + zombies' <= Cardinality(Tried') + Cardinality(Again')
    BY <1>3, <2>3 DEF ProcessInv
  <2> QED
    BY <1>3, <2>4, <2>5, <2>6 DEF ProcessInv
<1>6. CASE /\ h' = [h EXCEPT ![k].pc = "none"] /\ zombies' = zombies + 1 /\ Drops(Handler(k))
  <2>1. h'[k].pc = "none" /\ \A j \in Client : j # k => h'[j] = h[j]
    BY <1>1, <1>6 DEF TypeOK, HandlerState
  <2>2. Running' = Running \ {k}
    BY <2>1 DEF Running
  <2>3. Cardinality(Running') + zombies' = Cardinality(Running) + zombies
    <3>1. Cardinality(Running) \in Nat /\ Cardinality(Running') = Cardinality(Running) - 1
      BY <1>4, <2>2, OneFewer, Numbers
    <3> QED
      BY <1>4, <1>6, <3>1
  <2>4. \A j \in Client : open'[j] = open[j] \ {Handler(k)}
    BY <1>6 DEF Drops
  <2>5. \A j \in Running' : Handler(j) \in open'[j]
    BY <2>2, <2>4, Names DEF ProcessInv, Running
  <2>6. spc' = "fork" => Server \in open'[cur']
    BY <1>1, <1>2, <2>4, Names DEF ProcessInv, TypeOK
  <2> QED
    BY <1>2, <1>3, <2>3, <2>5, <2>6 DEF ProcessInv
<1> QED
  BY <1>1, <1>5, <1>6, HandlerShape

LEMMA ProcessStep == ProcessInv /\ [Next]_vars => ProcessInv'
<1> SUFFICES ASSUME ProcessInv, [Next]_vars PROVE ProcessInv'
  OBVIOUS
<1>1. TypeOK /\ TypeOK' /\ PlotInv /\ PlotInv' /\ IsolatedInv /\ IsolatedInv'
  BY TypeStep, PlotStep, IsolatedStep DEF ProcessInv, PlotInv
<1>2. open \in [Client -> SUBSET UNION {Parts(j) : j \in Client}]
  BY <1>1 DEF IsolatedInv
<1>3. /\ Running \in SUBSET Client /\ Tried \in SUBSET Client /\ Again \in SUBSET Client
      /\ zombies \in Nat /\ Cardinality(Running) \in Nat
      /\ Cardinality(Tried) \in Nat /\ Cardinality(Again) \in Nat
  BY <1>1, Numbers DEF Running, Tried, Again, TypeOK
<1>4. Cardinality(Running) + zombies <= Cardinality(Tried) + Cardinality(Again)
  BY DEF ProcessInv
<1>5. CASE Fork \/ ForkFails
  <2>1. /\ spc = "fork" /\ spc' = "close" /\ UNCHANGED <<procLimit, first, net, cur, req, zombies>>
        /\ cur \in Client
    BY <1>1, <1>5 DEF Fork, ForkFails, ServerStep, fixed, TypeOK
  <2>2. net[cur] \notin {"new", "queued"} /\ cur \notin Running
    BY <1>1, <2>1 DEF PlotInv, Running, NoHandler
  <2>3. Tried' = Tried \cup {cur} /\ cur \notin Tried /\ Again' = Again
    BY <2>1, <2>2 DEF Tried, Again, Forking
  <2>4. Cardinality(Tried') = Cardinality(Tried) + 1
    BY <1>3, <2>1, <2>3, OneMore
  <2>5. /\ Cardinality(Running') \in {Cardinality(Running), Cardinality(Running) + 1}
        /\ \A j \in Running' : Handler(j) \in open'[j]
    <3>1. CASE Fork
      <4>1. h' = [h EXCEPT ![cur].pc = "read"] /\ Inherits(Handler(cur), Server)
        BY <3>1 DEF Fork
      <4>2. Running' = Running \cup {cur}
        BY <1>1, <2>1, <4>1 DEF Running, TypeOK, HandlerState
      <4>3. Cardinality(Running') = Cardinality(Running) + 1
        BY <1>3, <2>1, <2>2, <4>2, OneMore
      <4>4. Server \in open[cur] /\ \A j \in Client : open[j] \subseteq open'[j]
        BY <2>1, <4>1 DEF ProcessInv, Inherits
      <4>5. Handler(cur) \in open'[cur]
        BY <2>1, <4>1, <4>4 DEF Inherits
      <4> QED
        BY <4>2, <4>3, <4>4, <4>5 DEF ProcessInv, Running
    <3>2. CASE ForkFails
      BY <3>2 DEF ForkFails, Running, ProcessInv
    <3> QED
      BY <1>5, <3>1, <3>2
  <2>6. Cardinality(Running') + zombies' <= Cardinality(Tried') + Cardinality(Again')
    BY <1>3, <1>4, <2>1, <2>3, <2>4, <2>5
  <2> QED
    BY <1>1, <2>1, <2>3, <2>5, <2>6 DEF ProcessInv
<1>6. CASE Close
  <2>1. /\ spc = "close" /\ spc' = "accept"
        /\ UNCHANGED <<procLimit, first, net, cur, req, h, zombies>>
        /\ \A j \in Client : open[j] \subseteq open'[j] \cup {Server}
    BY <1>2, <1>6 DEF Close, ServerStep, fixed
  <2>2. Tried' = Tried /\ Again' = Again /\ Running' = Running
    BY <2>1 DEF Tried, Again, Running, Forking
  <2>3. \A j \in Running : Handler(j) \in open'[j]
    BY <2>1, Names DEF ProcessInv, Running
  <2> QED
    BY <1>1, <1>4, <2>1, <2>2, <2>3 DEF ProcessInv
<1>7. ASSUME NEW k \in Client, Accept(k) PROVE ProcessInv'
  <2>1. /\ spc = "accept" /\ spc' = "fork" /\ cur' = k /\ net[k] = "queued"
        /\ net' = [net EXCEPT ![k] = "waiting"] /\ open' = [open EXCEPT ![k] = {Server}]
        /\ UNCHANGED <<procLimit, first, req, h, zombies>>
    BY <1>7 DEF Accept, ServerStep, fixed
  <2>2. Again' = Again /\ Running' = Running /\ k \notin Running
    BY <1>1, <2>1 DEF Again, Running, PlotInv, NoHandler
  <2>3. Tried' = Tried
    <3>1. \A j \in Client : j # k => (j \in Tried' <=> j \in Tried)
      BY <1>1, <2>1 DEF Tried, Forking, TypeOK
    <3>2. k \notin Tried /\ k \notin Tried'
      BY <2>1 DEF Tried, Forking
    <3> QED
      BY <3>1, <3>2 DEF Tried
  <2>4. \A j \in Running : Handler(j) \in open'[j]
    BY <1>2, <2>1, <2>2 DEF ProcessInv, Running
  <2>5. Server \in open'[cur']
    BY <1>2, <2>1
  <2> QED
    BY <1>1, <1>4, <2>1, <2>2, <2>3, <2>4, <2>5 DEF ProcessInv
<1>8. ASSUME NEW k \in Client, ClientMoves(k) PROVE ProcessInv'
  <2>1. UNCHANGED <<procLimit, first, spc, cur, req, h, open, zombies>>
    BY <1>8 DEF ClientMoves, Connect, Ask, Stall, Resume, Leave, Finish, ClientStep, fixed, server
  <2>2. \A j \in Client : net'[j] \in {"new", "queued"} <=> net[j] \in {"new", "queued"}
    BY <1>1, <1>8 DEF ClientMoves, Connect, Ask, Stall, Resume, Leave, Finish, Ended, ClientStep, TypeOK
  <2>3. Tried' = Tried /\ Again' = Again /\ Running' = Running
    BY <2>1, <2>2 DEF Tried, Again, Running, Forking
  <2> QED
    BY <1>1, <1>4, <2>1, <2>3 DEF ProcessInv
<1>9. ASSUME NEW k \in Client, AskPicture(k) PROVE ProcessInv'
  <2>1. /\ UNCHANGED <<procLimit, first, spc, cur, open, zombies>>
        /\ net[k] = "asked" /\ net' = [net EXCEPT ![k] = "new"]
        /\ req[k].ext = "plot" /\ req' = [req EXCEPT ![k] = Picture]
        /\ open[k] = {} /\ h' = [h EXCEPT ![k] = NoHandler]
    BY <1>9 DEF AskPicture, ClientStep, Ended, HasPage, fixed, server
  <2>2. k \in Tried /\ k \notin Running /\ k \notin Again /\ req[k] = first[k]
    BY <2>1 DEF ProcessInv, Tried, Running, Again, Forking
  <2>3. Running' = Running
    BY <1>1, <2>1, <2>2 DEF Running, TypeOK, NoHandler
  <2>4. Tried' = Tried \ {k}
    BY <1>1, <2>1 DEF Tried, Forking, TypeOK
  <2>5. Again' = Again \cup {k} /\ \A j \in Again' : req'[j].ext # "plot"
    <3>1. Picture.ext = "image" /\ req'[k] = Picture /\ first'[k].ext = "plot"
      BY <1>1, <2>1, <2>2 DEF Picture, TypeOK
    <3>2. \A j \in Client : j # k => req'[j] = req[j]
      BY <1>1, <2>1 DEF TypeOK
    <3> QED
      BY <2>1, <3>1, <3>2 DEF Again, ProcessInv
  <2>6. Cardinality(Tried') = Cardinality(Tried) - 1 /\ Cardinality(Again') = Cardinality(Again) + 1
    BY <1>3, <2>2, <2>4, <2>5, OneMore, OneFewer
  <2>7. Cardinality(Running') + zombies' <= Cardinality(Tried') + Cardinality(Again')
    BY <1>3, <1>4, <2>1, <2>3, <2>6
  <2> QED
    BY <1>1, <2>1, <2>3, <2>5, <2>7 DEF ProcessInv
<1>10. ASSUME NEW k \in Client, Handles(k) PROVE ProcessInv'
  BY <1>1, <1>10, HandlerProcesses
<1>11. ASSUME NEW k \in Client, Scripts(k) PROVE ProcessInv'
  <2>1. UNCHANGED <<procLimit, first, spc, cur, net, req, h, zombies>>
    BY <1>11 DEF Scripts, BeginPlot, EndPlot, ScriptEnds, ScriptStep, fixed, server, clients
  <2>2. \A j \in Client : open[j] \subseteq open'[j] \cup {Script(k)}
    BY <1>2, <1>11 DEF Scripts, BeginPlot, EndPlot, ScriptEnds, Drops
  <2>3. Tried' = Tried /\ Again' = Again /\ Running' = Running
    BY <2>1 DEF Tried, Again, Running, Forking
  <2>4. /\ \A j \in Running : Handler(j) \in open'[j]
        /\ spc' = "fork" => Server \in open'[cur']
    BY <1>1, <2>1, <2>2, Names DEF ProcessInv, Running, TypeOK
  <2> QED
    BY <1>1, <1>4, <2>1, <2>3, <2>4 DEF ProcessInv
<1>12. CASE UNCHANGED vars
  <2>1. Tried' = Tried /\ Again' = Again /\ Running' = Running
    BY <1>12 DEF vars, fixed, server, clients, Tried, Again, Running, Forking
  <2> QED
    BY <1>1, <1>4, <1>12, <2>1 DEF vars, fixed, server, clients, ProcessInv
<1> QED
  BY <1>5, <1>6, <1>7, <1>8, <1>9, <1>10, <1>11, <1>12 DEF Next, ClientMoves

(* An answer of one part, and of two.                                      *)
LEMMA ShortAnswers ==
  ASSUME NEW S, NEW p \in S, NEW q \in S
  PROVE  Append(<<>>, p) = <<p>> /\ Append(<<q>>, p) = <<q, p>>
<1>1. /\ Append(<<>>, p) \in Seq(S) /\ <<p>> \in Seq(S)
      /\ Append(<<q>>, p) \in Seq(S) /\ <<q, p>> \in Seq(S)
  OBVIOUS
<1>2. /\ Len(Append(<<>>, p)) = 1 /\ Len(<<p>>) = 1
      /\ Len(Append(<<q>>, p)) = 2 /\ Len(<<q, p>>) = 2
  OBVIOUS
<1>3. /\ \A i \in 1 .. 1 : Append(<<>>, p)[i] = <<p>>[i]
      /\ \A i \in 1 .. 2 : Append(<<q>>, p)[i] = <<q, p>>[i]
  OBVIOUS
<1> QED
  BY <1>1, <1>2, <1>3, SeqEqual

(* A handler's step keeps an honest answer on its way.                     *)
LEMMA AnswerHandles ==
  ASSUME ProcessInv, Enough, NEW k \in Client, Handles(k), Answering(k, h[k]),
         Present(k)
  PROVE  Answering(k, h'[k])
<1> DEFINE P == Answering(k, h'[k])
<1> SUFFICES P
  OBVIOUS
<1>1. TypeOK /\ PlotInv /\ h[k] \in HandlerState /\ h[k].sent \in Seq({"404", "501", "200", "output", "page"})
  BY DEF ProcessInv, PlotInv, TypeOK, HandlerState
<1>2. ASSUME NEW from, Crash(k, from) PROVE h'[k] = [h[k] EXCEPT !.pc = "none"]
  BY <1>1, <1>2 DEF Crash, Ends, TypeOK
<1>3. ASSUME NEW from, NEW r, Goes(k, from, r) \/ Writes(k, from, r) PROVE h[k].pc = from /\ h'[k] = r
  BY <1>1, <1>3 DEF Goes, Writes, Crash, Ends, HandlerStep, TypeOK, Present
<1>4. \A p, to : /\ Part(k, p, to).pc = to /\ Part(k, p, to).type = h[k].type
                 /\ Part(k, p, to).sent = Append(h[k].sent, p)
  BY <1>1 DEF Part, HandlerState
<1>5. h[k].pc \in {"dir", "reg", "header", "forward", "first", "loop", "fclose", "end"} \/ h[k].pc = "read"
  BY <1>1, HandlerShape DEF HandlerState
<1>6. got[k].file \in {"missing", "dir", "reg", "special"}
  BY <1>1, StateTypes, RequestAssumption DEF TypeOK
<1>7. \A p \in {"404", "501", "200", "output", "page"} :
        Append(<<>>, p) = <<p>> /\ Append(<<"200">>, p) = <<"200", p>>
  BY ShortAnswers
(* After a 404 anything that is sent comes behind it.                      *)
<1>8. ASSUME h[k].sent # <<>> /\ Head(h[k].sent) = "404", NEW p \in {"404", "501", "200", "output", "page"}
      PROVE  Append(h[k].sent, p) # <<>> /\ Head(Append(h[k].sent, p)) = "404"
  BY <1>1, <1>8
<1>9. CASE ReadNothing(k) \/ ForwardFails(k) \/ HtmlOverflows(k) \/ Unusable(k) \/ FcloseNull(k)
           \/ BadArgument(k) \/ Grown(k)
  <2>1. PICK from : Crash(k, from) /\ h[k].pc = from /\ from \in {"read", "forward", "reg", "fclose", "loop"}
    BY <1>9 DEF ReadNothing, ForwardFails, HtmlOverflows, Unusable, FcloseNull, BadArgument,
       Grown, Crash, Ends, HandlerStep
  <2>2. h'[k].pc = "none" /\ h'[k].sent = h[k].sent
    BY <1>1, <1>2, <2>1 DEF HandlerState
  <2>3. net[k] # "waiting"
    BY <1>9 DEF ReadNothing, ForwardFails, HtmlOverflows, Unusable, FcloseNull, BadArgument,
       Grown, Crash, Ends, HandlerStep, Answering
  <2>4. ASSUME Whole(k) PROVE h[k].pc # "read"
    BY <1>9, <2>4 DEF ReadNothing, ForwardFails, HtmlOverflows, Unusable, FcloseNull, BadArgument,
       Grown, Crash, Ends, HandlerStep, Whole, Proper
  <2>5. CASE Whole(k) /\ req[k].file = "missing"
    BY <2>2, <2>3, <2>4, <2>5 DEF Answering, Headed
  <2>6. CASE Whole(k) /\ req[k].file # "missing"
    <3>1. OnWay(k, h[k])
      BY <2>4, <2>6 DEF Answering
    <3>2. h[k].pc \in {"fclose", "loop"}
      BY <1>9, <2>4, <2>6, <3>1 DEF Present, ReadNothing, ForwardFails, HtmlOverflows, Unusable,
         FcloseNull, BadArgument, Grown, Crash, Ends, HandlerStep, Whole, Proper, Readable, OnWay
    <3>3. h[k].sent = Answer(k)
      <4>1. CASE h[k].pc = "fclose"
        BY <3>1, <4>1 DEF OnWay
      <4>2. CASE h[k].pc = "loop"
        <5>1. h[k].sent = <<"200">> /\ req[k].file = "reg" /\ req[k].ext = "image"
          BY <3>1, <4>2 DEF OnWay
        <5>2. Answer(k) = <<"200">>
          BY <5>1 DEF Answer
        <5> QED
          BY <5>1, <5>2
      <4> QED
        BY <3>2, <4>1, <4>2
    <3>4. OnWay(k, h'[k])
      BY <2>2, <3>3 DEF OnWay
    <3> QED
      BY <2>2, <2>3, <2>6, <3>4 DEF Answering
  <2>7. CASE ~Whole(k)
    BY <2>2, <2>3, <2>7 DEF Answering
  <2> QED
    BY <2>5, <2>6, <2>7
<1>10. CASE PopenFails(k)
  <2>1. script[k] = "none"
    BY <1>10 DEF PopenFails, Popens, ProcessInv, PlotInv, Tracked
  <2> QED
    BY <1>10, <2>1, RoomForAll DEF PopenFails
<1>11. CASE Exit(k)
  <2>1. h[k].pc = "end" /\ h'[k] = [h[k] EXCEPT !.pc = "none"]
    BY <1>1, <1>11 DEF Exit, Ends, HandlerStep, TypeOK
  <2> QED
    BY <1>1, <2>1 DEF Answering, OnWay, Headed, HandlerState
<1>12. CASE Found(k)
  <2>1. /\ net[k] = "asked" /\ got[k].file \in {"dir", "reg", "special"}
        /\ h[k].pc = "read" /\ h'[k] = Typed(h[k], got[k].file)
    BY <1>3, <1>6, <1>12 DEF Found, Present
  <2> QED
    BY <1>1, <2>1 DEF Answering, OnWay, Whole, Proper, Typed, HandlerState
<1>13. CASE NotFound(k)
  <2>1. PICK type \in {"dir", "reg", "special"} :
          Writes(k, "read", Typed(Part(k, "404", "end"), type))
    BY <1>13 DEF NotFound
  <2>2. /\ net[k] = "asked" /\ got[k].file = "missing"
        /\ h[k].pc = "read" /\ h'[k] = Typed(Part(k, "404", "end"), type)
    BY <1>3, <1>13, <2>1 DEF NotFound, Present
  <2>3. Part(k, "404", "end").sent = <<"404">>
    <3>1. h[k].sent = <<>> /\ Append(<<>>, "404") = <<"404">>
      BY <1>7, <2>2 DEF Answering
    <3> QED
      BY <1>4, <3>1
  <2>4. h'[k].sent = <<"404">> /\ h'[k].pc # "read"
    <3> DEFINE part == Part(k, "404", "end")
    <3>1. part \in HandlerState /\ part.sent = <<"404">> /\ h'[k] = Typed(part, type)
      BY <1>1, <2>2, <2>3, PartType
    <3>2. \A q \in HandlerState : Typed(q, type).sent = q.sent /\ Typed(q, type).pc # "read"
      BY DEF Typed, HandlerState
    <3> HIDE DEF part
    <3> QED
      BY <3>1, <3>2, Zenon
  <2>5. <<"404">> # <<>> /\ Head(<<"404">>) = "404"
    OBVIOUS
  <2> QED
    BY <2>2, <2>4, <2>5 DEF Answering, Headed, Whole
<1>14. CASE Popen(k)
  <2>1. h[k].pc \in {"dir", "reg"} /\ h'[k] = [h[k] EXCEPT !.pc = "header"]
    BY <1>1, <1>14 DEF Popen, Popens, TypeOK
  <2>2. Whole(k) /\ h[k].pc = "reg" => ByScript(k)
    BY <1>14 DEF Popen, Popens, ByScript, Whole
  <2>3. h'[k].sent = h[k].sent /\ h'[k].pc = "header" /\ h'[k].type = h[k].type
    BY <1>1, <2>1 DEF HandlerState
  <2> QED
    BY <2>1, <2>2, <2>3 DEF Answering, OnWay, ByScript, Headed
<1>15. CASE RunHeader(k)
  <2>1. h[k].pc = "header" /\ h'[k] = Part(k, "200", "forward")
    BY <1>3, <1>15 DEF RunHeader
  <2> QED
    BY <1>4, <1>7, <1>8, <2>1 DEF Answering, OnWay, Headed
<1>16. CASE Pclose(k)
  <2>1. /\ h[k].pc = "forward"
        /\ h'[k] = Part(k, "output", IF h[k].type = "dir" THEN "end" ELSE "fclose")
    BY <1>3, <1>16 DEF Pclose
  <2>2. /\ h'[k].pc = (IF h[k].type = "dir" THEN "end" ELSE "fclose")
        /\ h'[k].sent = Append(h[k].sent, "output")
    BY <1>4, <2>1
  <2>3. CASE req[k].file = "missing"
    BY <1>8, <2>1, <2>2, <2>3 DEF Answering, Headed
  <2>4. ASSUME req[k].file # "missing", Whole(k)
        PROVE  OnWay(k, h'[k])
    <3>1. OnWay(k, h[k])
      BY <2>1, <2>4 DEF Answering
    <3>2. h'[k].sent = <<"200", "output">> /\ h[k].type = req[k].file /\ ByScript(k)
      <4>1. h[k].sent = <<"200">> /\ h[k].type = req[k].file /\ ByScript(k)
        BY <2>1, <3>1 DEF OnWay
      <4>2. Append(<<"200">>, "output") = <<"200", "output">>
        BY <1>7
      <4>3. h'[k].sent = Append(<<"200">>, "output")
        BY <2>2, <4>1
      <4> QED
        BY <4>1, <4>2, <4>3, Zenon
    <3>3. req[k].file \in {"dir", "reg"}
      BY <1>6, <2>4 DEF Whole, Proper
    <3>4. Answer(k) = <<"200", "output">>
      BY <3>2, <3>3 DEF Answer, ByScript
    <3> QED
      BY <2>2, <3>2, <3>3, <3>4 DEF OnWay
  <2> QED
    BY <2>1, <2>2, <2>3, <2>4 DEF Answering
<1>17. CASE Fclose(k)
  <2>1. h[k].pc = "fclose" /\ h'[k] = [h[k] EXCEPT !.pc = "end"]
    BY <1>3, <1>17 DEF Fclose
  <2>2. h'[k].sent = h[k].sent /\ h'[k].pc = "end"
    BY <1>1, <2>1 DEF HandlerState
  <2> QED
    BY <2>1, <2>2 DEF Answering, OnWay, Headed
<1>18. CASE Unsupported(k) \/ Html(k)
  <2>1. PICK p \in {"501", "page"} :
          /\ p = IF got[k].ext = "other" THEN "501" ELSE "page"
          /\ got[k].ext \in {"other", "html"}
          /\ h[k].pc = "reg" /\ h'[k] = Part(k, p, "fclose")
    BY <1>3, <1>18 DEF Unsupported, Html
  <2>2. h'[k].pc = "fclose" /\ h'[k].sent = Append(h[k].sent, p)
    BY <1>4, <2>1
  <2>3. CASE req[k].file = "missing"
    BY <1>8, <2>1, <2>2, <2>3 DEF Answering, Headed
  <2>4. ASSUME req[k].file # "missing", Whole(k)
        PROVE  OnWay(k, h'[k])
    <3>1. h[k].sent = <<>> /\ req[k].file = "reg"
      BY <2>1, <2>4 DEF Answering, OnWay
    <3>2. Answer(k) = <<p>>
      BY <2>1, <2>4, <3>1 DEF Answer, Whole
    <3> QED
      BY <1>7, <2>2, <3>1, <3>2 DEF OnWay
  <2> QED
    BY <2>1, <2>2, <2>3, <2>4 DEF Answering
<1>19. CASE PictureHeader(k)
  <2>1. PICK n \in Sizes(k) :
          Writes(k, "reg", [Part(k, "200", "first") EXCEPT !.left = n, !.length = n])
    BY <1>19 DEF PictureHeader
  <2>2. /\ h[k].pc = "reg" /\ got[k].ext = "image"
        /\ h'[k] = [Part(k, "200", "first") EXCEPT !.left = n, !.length = n]
    BY <1>3, <1>19, <2>1 DEF PictureHeader
  <2>3. h'[k].pc = "first" /\ h'[k].sent = Append(h[k].sent, "200")
    <3>1. \A q \in HandlerState : /\ [q EXCEPT !.left = n, !.length = n].pc = q.pc
                                  /\ [q EXCEPT !.left = n, !.length = n].sent = q.sent
      BY DEF HandlerState
    <3> QED
      BY <1>1, <1>4, <2>2, <3>1, PartType
  <2> QED
    BY <1>7, <1>8, <2>2, <2>3 DEF Answering, OnWay, Headed, Whole
<1>20. CASE FirstChunk(k) \/ NextChunk(k) \/ LastChunk(k)
  <2>1. \E n : \E to \in {"loop", "fclose"} :
          h[k].pc \in {"first", "loop"} /\ h'[k] = Copied(k, n, to)
    BY <1>3, <1>20 DEF FirstChunk, NextChunk, LastChunk
  <2>2. h'[k].pc \in {"loop", "fclose"} /\ h'[k].sent = h[k].sent
    BY <1>1, <2>1 DEF Copied, HandlerState
  <2>3. ASSUME req[k].file # "missing", Whole(k) PROVE OnWay(k, h'[k])
    <3>1. h[k].sent = <<"200">> /\ req[k].file = "reg" /\ req[k].ext = "image"
      BY <2>1, <2>3 DEF Answering, OnWay
    <3>2. Answer(k) = <<"200">>
      BY <3>1 DEF Answer
    <3> QED
      BY <2>2, <3>1, <3>2 DEF OnWay
  <2> QED
    BY <2>1, <2>2, <2>3 DEF Answering, Headed
<1> QED
  BY <1>9, <1>10, <1>11, <1>12, <1>13, <1>14, <1>15, <1>16, <1>17, <1>18, <1>19, <1>20 DEF Handles

(* Every step keeps the answers on their way.                              *)
LEMMA AnswerStep == AnswerInv /\ [Next]_vars => AnswerInv'
<1> SUFFICES ASSUME AnswerInv, [Next]_vars PROVE AnswerInv'
  OBVIOUS
<1>1. /\ ProcessInv /\ ProcessInv' /\ PlotInv /\ PlotInv' /\ TypeOK /\ TypeOK'
      /\ procLimit' = procLimit /\ first' = first
  <2>1. ProcessInv /\ ProcessInv'
    BY ProcessStep DEF AnswerInv
  <2>2. UNCHANGED fixed
    BY HandlerShape, <2>1 DEF Next, vars, Fork, ForkFails, Close, Accept, ServerStep, Connect,
       Ask, Stall, Resume, Leave, Finish, AskPicture, ClientStep, Scripts, BeginPlot, EndPlot, ScriptEnds,
       ScriptStep, ProcessInv, PlotInv
  <2> QED
    BY <2>1, <2>2 DEF ProcessInv, PlotInv, fixed
<1> SUFFICES ASSUME Enough PROVE \A k \in Tried' : Present(k)' => Answering(k, h[k])'
  BY <1>1 DEF AnswerInv, Enough
<1>2. \A k \in Tried : Present(k) => Answering(k, h[k])
  BY DEF AnswerInv
(* A client for which nothing changes.                                     *)
<1>3. ASSUME NEW k \in Client, k \in Tried, h'[k] = h[k], req'[k] = req[k],
             Present(k)', Present(k), net'[k] = net[k] \/ net'[k] # "waiting",
             got'[k] = got[k] \/ net[k] = "waiting"
      PROVE  Answering(k, h[k])'
  <2>1. Answering(k, h[k])
    BY <1>2, <1>3
  <2>2. CASE h[k].pc = "read"
    BY <1>3, <2>1, <2>2 DEF Answering
  <2>3. CASE h[k].pc # "read" /\ got'[k] = got[k]
    BY <1>3, <2>1, <2>3 DEF Answering, OnWay, Whole, Proper, Answer, ByScript, Headed
  <2> QED
    BY <1>3, <2>1, <2>2, <2>3 DEF Answering
<1> SUFFICES ASSUME NEW j \in Client, j \in Tried', Present(j)'
             PROVE  Answering(j, h[j])'
  BY DEF Tried
<1>4. CASE Fork
  <2>1. /\ spc = "fork" /\ cur \in Client /\ h[cur] = NoHandler /\ UNCHANGED <<req, got, net>>
        /\ h' = [h EXCEPT ![cur].pc = "read"]
    BY <1>1, <1>4 DEF Fork, ServerStep, PlotInv, TypeOK
  <2>2. CASE j = cur
    <3>1. h'[j].pc = "read" /\ h'[j].sent = <<>>
      BY <1>1, <2>1, <2>2 DEF TypeOK, NoHandler
    <3> QED
      BY <3>1 DEF Answering
  <2>3. CASE j # cur
    <3>1. h'[j] = h[j] /\ j \in Tried
      BY <1>1, <2>1, <2>3 DEF TypeOK, Tried, Forking
    <3> QED
      BY <1>3, <2>1, <3>1 DEF Present
  <2> QED
    BY <2>2, <2>3
<1>5. CASE ForkFails
  <2>1. script[cur] = "none" /\ cur \in Client /\ ~Room
    BY <1>1, <1>5 DEF ForkFails, ServerStep, PlotInv, TypeOK
  <2> QED
    BY <1>1, <2>1, RoomForAll
<1>6. CASE Close
  BY <1>3, <1>6 DEF Close, ServerStep, Tried, Forking, Present
<1>7. ASSUME NEW k \in Client, Accept(k) PROVE Answering(j, h[j])'
  <2>1. /\ spc = "accept" /\ spc' = "fork" /\ cur' = k /\ UNCHANGED <<req, got, h>>
        /\ net' = [net EXCEPT ![k] = "waiting"]
    BY <1>7 DEF Accept, ServerStep
  <2>2. j # k /\ net'[j] = net[j] /\ j \in Tried
    BY <1>1, <2>1 DEF Tried, Forking, TypeOK
  <2> QED
    BY <1>3, <2>1, <2>2 DEF Present
<1>8. ASSUME NEW k \in Client, ClientMoves(k) PROVE Answering(j, h[j])'
  <2>1. UNCHANGED <<spc, cur, req, h>>
    BY <1>8 DEF ClientMoves, Connect, Ask, Stall, Resume, Leave, Finish, ClientStep, server
  <2>2. /\ Present(j) /\ (net'[j] = net[j] \/ net'[j] # "waiting")
        /\ got'[j] = got[j] \/ net[j] = "waiting"
    BY <1>1, <1>8 DEF ClientMoves, Connect, Ask, Stall, Resume, Leave, Finish, ClientStep, TypeOK,
       Present
  <2>3. j \in Tried
    BY <2>1, <2>2 DEF Tried, Forking, Present
  <2> QED
    BY <1>3, <2>1, <2>2, <2>3
<1>9. ASSUME NEW k \in Client, AskPicture(k) PROVE Answering(j, h[j])'
  <2>1. /\ UNCHANGED <<spc, cur>> /\ net' = [net EXCEPT ![k] = "new"]
        /\ req' = [req EXCEPT ![k] = Picture]
        /\ got' = [got EXCEPT ![k] = Picture] /\ h' = [h EXCEPT ![k] = NoHandler]
    BY <1>9 DEF AskPicture, ClientStep, server
  <2>2. j # k
    BY <1>1, <2>1 DEF TypeOK, Present
  <2>3. net'[j] = net[j] /\ got'[j] = got[j] /\ req'[j] = req[j] /\ h'[j] = h[j] /\ j \in Tried
    BY <1>1, <2>1, <2>2 DEF TypeOK, Tried, Forking
  <2> QED
    BY <1>3, <2>3 DEF Present
<1>10. ASSUME NEW k \in Client, Handles(k) PROVE Answering(j, h[j])'
  <2>1. /\ UNCHANGED <<spc, cur, net, req, got>> /\ \A i \in Client : i # k => h'[i] = h[i]
    BY <1>1, <1>10, HandlerShape DEF GoesOn, server, clients, TypeOK
  <2>2. j \in Tried /\ Present(j)
    BY <2>1 DEF Tried, Forking, Present
  <2>3. CASE j = k
    <3>1. Answering(k, h[k])
      BY <1>2, <2>1, <2>2, <2>3
    <3>2. Answering(k, h'[k])
      BY <1>1, <1>10, <2>2, <2>3, <3>1, AnswerHandles
    <3> QED
      BY <2>1, <2>3, <3>2 DEF Answering, OnWay, Whole, Proper, Answer, ByScript, Headed
  <2>4. CASE j # k
    BY <1>3, <2>1, <2>2, <2>4
  <2> QED
    BY <2>3, <2>4
<1>11. ASSUME NEW k \in Client, Scripts(k) PROVE Answering(j, h[j])'
  <2>1. UNCHANGED <<spc, cur, net, req, got, h>>
    BY <1>11 DEF Scripts, BeginPlot, EndPlot, ScriptEnds, ScriptStep, server, clients
  <2> QED
    BY <1>3, <2>1 DEF Tried, Forking, Present
<1>12. CASE UNCHANGED vars
  BY <1>3, <1>12 DEF vars, server, clients, Tried, Forking, Present
<1> QED
  BY <1>4, <1>5, <1>6, <1>7, <1>8, <1>9, <1>10, <1>11, <1>12 DEF Next, ClientMoves

(* webserv.c:152-338: a client that stays, and whose request is read whole *)
(* in one go, gets exactly the answer that it calls for, however many      *)
(* clients there are, whatever else they ask for, however requests are cut *)
(* and whoever stops reading, if the system allows a process for every     *)
(* request and every script: then no fork and no popen ever fails.         *)
THEOREM AnswersAreRight == Spec => []AnswerRight
<1>1. Init => AnswerInv
  <2> SUFFICES ASSUME Init PROVE AnswerInv
    OBVIOUS
  <2>1. TypeOK
    BY StateTypes, AsksAssumption DEF Init, TypeOK, PlotState
  <2>2. PlotInv
    <3>1. ASSUME NEW k \in Client PROVE Tracked(k, h[k], script[k])
      BY DEF Init, Tracked, NoHandler, Early
    <3> QED
      BY <2>1, <3>1 DEF Init, PlotInv, Plotting
  <2>3. IsolatedInv
    BY DEF Init, IsolatedInv, Isolated
  <2>4. Running = {} /\ Tried = {} /\ Again = {} /\ zombies = 0 /\ procLimit \in Nat
    BY NumberAssumption DEF Init, Running, Tried, Again, NoHandler
  <2>5. Cardinality(Running) + zombies <= Cardinality(Tried) + Cardinality(Again)
    BY <2>4, FS_EmptySet
  <2> QED
    BY <2>2, <2>3, <2>4, <2>5 DEF Init, AnswerInv, ProcessInv
<1>2. AnswerInv => AnswerRight
  <2> SUFFICES ASSUME AnswerInv, Enough, NEW k \in Client, Ended(k), net[k] = "asked",
                      got[k] = req[k], Proper(k)
               PROVE  \/ h[k].sent = Answer(k)
                      \/ req[k].file = "missing" /\ h[k].sent # <<>> /\ Head(h[k].sent) = "404"
    BY DEF AnswerRight
  <2>1. k \notin Running /\ k \in Tried
    BY DEF AnswerInv, ProcessInv, Ended, Running, Tried, Forking
  <2>2. h[k].pc = "none" /\ Answering(k, h[k])
    BY <2>1 DEF AnswerInv, Running, Present
  <2> QED
    BY <2>2 DEF Answering, OnWay, Headed, Whole
<1> QED
  BY <1>1, <1>2, AnswerStep, PTL DEF Spec
=============================================================================
