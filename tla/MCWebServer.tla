---------------------------- MODULE MCWebServer ----------------------------
(* Requests for WebServer: one of each kind that its handler tells apart.  *)
EXTENDS WebServer

CONSTANTS c1, c2

File(e, f, r, n) == [ext |-> e, file |-> f, readable |-> r, size |-> n]

Requests ==
  <<File("nothing", "missing", FALSE, 0), File("image", "missing", FALSE, 0),
    File("other", "dir", TRUE, 0), File("plot", "reg", TRUE, 0),
    File("badcgi", "reg", TRUE, 0), File("html", "reg", TRUE, 0),
    File("html", "reg", TRUE, 1), File("other", "reg", FALSE, 0),
    File("image", "reg", TRUE, 5)>>

MCRequest == {Requests[i] : i \in DOMAIN Requests}

(* A cut before the name, and one in it: the name of another file, which   *)
(* may not be read.                                                        *)
MCPieces == {File("nothing", "missing", FALSE, 0), File("other", "reg", FALSE, 0)}

(* The browsers are alike, and so one order of two requests is enough.     *)
MCAsks ==
  {[k \in {c1, c2} |-> IF k = c1 THEN Requests[i] ELSE Requests[j]] :
     <<i, j>> \in {x \in (1 .. Len(Requests)) \X (1 .. Len(Requests)) : x[1] <= x[2]}}
=============================================================================
