---------------------------- MODULE TempStation ----------------------------
(***************************************************************************)
(* a3_optional: tempStation.ino on the board, arduinoGetTemp on the host,  *)
(* and the serial line between them.  The board lights its four digits one *)
(* after the other, looks at the sensor now and then, and sends a reading  *)
(* when a "c" has come in.  arduinoGetTemp sends the "c" and prints what   *)
(* arrives up to ";"; on a newline, which the board sends when it starts,  *)
(* it executes itself again.                                               *)
(***************************************************************************)
EXTENDS Integers, FiniteSets, Sequences

CONSTANTS
  Reader,   \* processes that run arduinoGetTemp
  Analog,   \* what the sensor may show, 0 .. 1023
  Rate,     \* x, loops per reading
  Wrap      \* the readings are counted modulo this number (10 in the code)

ASSUME AnalogAssumption == Analog \subseteq 0 .. 1023
ASSUME RateAssumption == Rate \in Nat \ {0} /\ Wrap \in Nat \ {0, 1}

VARIABLES
  tty,          \* how the host's terminal line was left by its last user
  pin13,        \* pin 13, which nothing drives: HIGH all the time, or now and then LOW
  plugged,      \* the device is there and may be opened
  bpc,          \* the board: "setup", "loop" or "event"
  n, prevNum, readTempMode,
  digits,       \* digit_1 and digit_2 of the last reading
  leds,         \* the display's pins between two loops
  toBoard, wire, inbuf,  \* bytes to the board, to the host, in the host's buffer
  rpc,          \* reader: "idle", "again", "flush", "send", "read", "spin", "done", "killed"
  out,          \* what it has printed
  quiet         \* history: its request found everything at rest

board == <<bpc, n, prevNum, readTempMode, digits, leds>>
line == <<toBoard, wire, inbuf>>
readers == <<rpc, out, quiet>>
fixed == <<tty, pin13, plugged>>
vars == <<fixed, board, line, readers>>

-----------------------------------------------------------------------------
(* The sensor's 10 mV per degree, in whole degrees Fahrenheit, and the two *)
(* digits kept of it.                                                      *)
Fahrenheit(v) == 32 + (v * 900) \div 1024
Digits(v) == [tens |-> (Fahrenheit(v) \div 10) % 10, ones |-> Fahrenheit(v) % 10]

(* The segments of a number; any other than 1 .. 9 is shown as zero.       *)
Segments(x) ==
  CASE x = 1 -> {"b", "c"}
    [] x = 2 -> {"a", "b", "d", "e", "g"}
    [] x = 3 -> {"a", "b", "c", "d", "g"}
    [] x = 4 -> {"b", "c", "f", "g"}
    [] x = 5 -> {"a", "c", "d", "f", "g"}
    [] x = 6 -> {"a", "c", "d", "e", "f", "g"}
    [] x = 7 -> {"a", "b", "c"}
    [] x = 8 -> {"a", "b", "c", "d", "e", "f", "g"}
    [] x = 9 -> {"a", "b", "c", "d", "f", "g"}
    [] OTHER -> {"a", "b", "c", "d", "e", "f"}

(* What loop shows at digit d: two zeros and the two digits kept.          *)
Number(d, kept) == <<0, 0, kept.tens, kept.ones>>[d]

(* The pins of the display: the digits whose pin is LOW, which selects     *)
(* them, and the segments whose pin is HIGH.  An output starts LOW.        *)
Start == [low |-> 1 .. 4, high |-> {}]

(* The segments are written in the order of their names.                   *)
Segment == {"a", "b", "c", "d", "e", "f", "g"}
Nth == [a |-> 1, b |-> 2, c |-> 3, d |-> 4, e |-> 5, f |-> 6, g |-> 7]
First == [k \in 0 .. 8 |-> {s \in Segment : Nth[s] <= k}]

(* The pins after the k-th of the twenty calls of digitalWrite for digit d *)
(* when they were "pins" before: clearLEDs writes the segments and the     *)
(* point, pickDigit switches all digits off and d on, pickNumber writes    *)
(* the segments again.                                                     *)
Mut_PickFirst(d, k, pins, kept) ==
  CASE k <= 4  -> [pins EXCEPT !.low = @ \ 1 .. k]
    [] k = 5   -> [pins EXCEPT !.low = {d}]
    [] k <= 13 -> [low |-> {d}, high |-> pins.high \ First[k - 5]]
    [] OTHER   -> [low |-> {d}, high |-> Segments(Number(d, kept)) \cap First[k - 13]]

Frame(d, k, pins, kept) ==
  CASE k <= 8  -> [pins EXCEPT !.high = @ \ First[k]]
    [] k <= 12 -> [low |-> pins.low \ 1 .. (k - 8), high |-> {}]
    [] OTHER   -> [low |-> {d}, high |-> Segments(Number(d, kept)) \cap First[k - 13]]

(* In a loop the four digits are written in turn, each from the pins that  *)
(* the one before has left.                                                *)
Shown(d, kept) == [low |-> {d}, high |-> Segments(Number(d, kept))]

Display(d, k, pins, kept) ==
  Frame(d, k, IF d = 1 THEN pins ELSE Shown(d - 1, kept), kept)

(* What the board sends when it starts, and as an answer: the two          *)
(* temperatures computed from v, each a part of the text.                  *)
Greeting == <<<<"cr", 0>>, <<"newline", 0>>>>
Answer(v) == <<<<"celsius", v>>, <<"fahrenheit", v>>, <<"semi", 0>>>>
Text == {"cr", "celsius", "fahrenheit"} \X (Analog \cup {0})

Init ==
  /\ tty \in [canonical : BOOLEAN, crnl : BOOLEAN, hupcl : BOOLEAN]
  /\ pin13 \in {"high", "floating"} /\ plugged \in BOOLEAN
  /\ bpc = "setup" /\ n = 0 /\ prevNum = 0 /\ readTempMode = FALSE
  /\ digits = [tens |-> 0, ones |-> 0] /\ leds = Start
  /\ toBoard = <<>> /\ wire = <<>> /\ inbuf = <<>>
  /\ rpc = [r \in Reader |-> "idle"] /\ out = [r \in Reader |-> <<>>]
  /\ quiet = [r \in Reader |-> FALSE]

-----------------------------------------------------------------------------
(* The board.  What comes in while it starts is lost or, with luck, not.   *)
BoardStep(from, to) ==
  plugged /\ bpc = from /\ bpc' = to /\ UNCHANGED <<fixed, inbuf, readers>>

Setup ==
  /\ BoardStep("setup", "loop")
  /\ wire' = wire \o Greeting
  /\ UNCHANGED <<n, prevNum, readTempMode, digits, leds, toBoard>>

LostInSetup ==
  /\ BoardStep("setup", "setup")
  /\ toBoard # <<>> /\ toBoard' = Tail(toBoard)
  /\ UNCHANGED <<n, prevNum, readTempMode, digits, leds, wire>>

(* readTempAndOutput.                                                      *)
Unread == digits' = digits /\ UNCHANGED <<readTempMode, prevNum, wire>>

Reading(v) ==
  /\ prevNum' = (n \div Rate) % Wrap
  /\ digits' = Digits(v)
  /\ wire' = IF readTempMode THEN wire \o Answer(v) ELSE wire
  /\ readTempMode' = FALSE

(* loop is one step: it reads nothing that another process writes.  A LOW  *)
(* pin 13 sets the count of loops back.                                    *)
Loop ==
  /\ BoardStep("loop", "event")
  /\ IF (n \div Rate) % Wrap = prevNum THEN Unread ELSE \E v \in Analog : Reading(v)
  /\ leds' = Display(4, 20, leds, digits')
  /\ n' \in {(n + 1) % (Rate * Wrap)} \cup IF pin13 = "high" THEN {} ELSE {0}
  /\ UNCHANGED toBoard

(* serialEvent, which the runtime calls after every loop.                  *)
NoEvent ==
  /\ BoardStep("event", "loop") /\ toBoard = <<>>
  /\ UNCHANGED <<n, prevNum, readTempMode, digits, leds, toBoard, wire>>

SerialEvent ==
  /\ BoardStep("event", "loop") /\ toBoard # <<>>
  /\ toBoard' = Tail(toBoard)
  /\ readTempMode' = ((Head(toBoard) = "c" \/ readTempMode) /\ Head(toBoard) # "x")
  /\ UNCHANGED <<n, prevNum, digits, leds, wire>>

Board == Setup \/ LostInSetup \/ Loop \/ NoEvent \/ SerialEvent

-----------------------------------------------------------------------------
(* The host.  Nothing reads the line while nobody has the device open.     *)
holds == {r \in Reader : rpc[r] \in {"again", "flush", "send", "read"}}

Deliver ==
  /\ holds # {} /\ wire # <<>>
  /\ inbuf' = Append(inbuf, IF tty.crnl /\ Head(wire)[1] = "cr" THEN <<"newline", 0>> ELSE Head(wire))
  /\ wire' = Tail(wire)
  /\ UNCHANGED <<fixed, board, toBoard, readers>>

At(r, from, to) ==
  rpc[r] \in from /\ rpc' = [rpc EXCEPT ![r] = to] /\ UNCHANGED fixed

Reset ==
  /\ bpc' = "setup" /\ n' = 0 /\ prevNum' = 0 /\ readTempMode' = FALSE
  /\ digits' = [tens |-> 0, ones |-> 0] /\ leds' = Start
  /\ toBoard' = <<>>

(* The device goes, and the board has no power then: what is on the line   *)
(* is lost, and every later read of the reader that has it open returns at *)
(* once with nothing.                                                      *)
Unplug ==
  /\ plugged /\ plugged' = FALSE /\ Reset
  /\ wire' = <<>> /\ inbuf' = <<>>
  /\ rpc' = [r \in Reader |-> IF rpc[r] \in {"flush", "send", "read"} THEN "spin" ELSE rpc[r]]
  /\ UNCHANGED <<tty, pin13, out, quiet>>

(* Requests come one at a time.  The first open of the device resets the   *)
(* board unless the line was set not to, and what the board sent before    *)
(* may be lost.  An open by a program that executed itself is not the      *)
(* first, since its old descriptor is still there.                         *)
Open(r) ==
  /\ plugged /\ At(r, {"idle", "again"}, "flush") /\ holds \subseteq {r}
  /\ IF holds # {} THEN UNCHANGED <<board, toBoard, wire>>
     ELSE /\ IF tty.hupcl THEN Reset ELSE UNCHANGED <<board, toBoard>>
          /\ \E i \in 1 .. Len(wire) + 1 : wire' = SubSeq(wire, i, Len(wire))
  /\ quiet' = [x \in Reader |-> FALSE]
  /\ UNCHANGED <<inbuf, out>>

(* The result of open is not looked at, nor that of any call after it:     *)
(* read fails at once, again and again.                                    *)
OpenFails(r) ==
  /\ ~plugged /\ At(r, {"idle", "again"}, "spin") /\ holds \subseteq {r}
  /\ UNCHANGED <<board, line, out, quiet>>

(* tcsetattr clears ICANON in c_iflag, where it means something else: the  *)
(* line stays as it was.  tcflush empties the host's buffer only.          *)
Flush(r) ==
  /\ At(r, {"flush"}, "send") /\ inbuf' = <<>>
  /\ UNCHANGED <<board, toBoard, wire, out, quiet>>

AtRest(r) ==
  /\ bpc # "setup" /\ ~readTempMode /\ holds = {r}
  /\ toBoard = <<>> /\ wire = <<>> /\ inbuf = <<>>

Send(r) ==
  /\ At(r, {"send"}, "read") /\ toBoard' = Append(toBoard, "c")
  /\ quiet' = [quiet EXCEPT ![r] = AtRest(r)]
  /\ UNCHANGED <<board, wire, inbuf, out>>

(* read returns a byte, in canonical mode only of a line that is complete. *)
ReadByte(r, kinds, to) ==
  /\ At(r, {"read"}, to) /\ inbuf # <<>> /\ Head(inbuf)[1] \in kinds
  /\ tty.canonical => \E i \in DOMAIN inbuf : inbuf[i][1] = "newline"
  /\ UNCHANGED <<board, toBoard, wire>>

(* execvp; what stdio had not written yet is lost.                         *)
Mut_PrintNewline(r) ==
  /\ ReadByte(r, {"newline"}, "read")
  /\ inbuf' = Tail(inbuf) /\ UNCHANGED <<out, quiet>>

Mut_KeepOutput(r) ==
  /\ ReadByte(r, {"newline"}, "again")
  /\ inbuf' = Tail(inbuf) /\ out' = [out EXCEPT ![r] = Append(@, <<"cr", 0>>)]
  /\ UNCHANGED quiet

Newline(r) ==
  /\ ReadByte(r, {"newline"}, "again")
  /\ inbuf' = Tail(inbuf) /\ out' = [out EXCEPT ![r] = <<>>]
  /\ UNCHANGED quiet

PrintByte(r) ==
  /\ ReadByte(r, {"cr", "celsius", "fahrenheit"}, "read")
  /\ inbuf' = Tail(inbuf) /\ out' = [out EXCEPT ![r] = Append(@, Head(inbuf))]
  /\ UNCHANGED quiet

(* What is buffered goes with the last one that has the device open.       *)
Delimiter(r) ==
  /\ ReadByte(r, {"semi"}, "done") /\ inbuf' = <<>>
  /\ UNCHANGED <<out, quiet>>

(* The user gives up a program that hangs or spins.                        *)
Killed(r) ==
  /\ rpc[r] = "read" => tty.canonical
  /\ At(r, {"read", "spin"}, "killed") /\ inbuf' = <<>>
  /\ UNCHANGED <<board, toBoard, wire, out, quiet>>

Runs(r) ==
  \/ Open(r) \/ OpenFails(r) \/ Flush(r) \/ Send(r) \/ Newline(r) \/ PrintByte(r) \/ Delimiter(r)

Next ==
  \/ Board \/ Deliver \/ Unplug
  \/ \E r \in Reader : Runs(r) \/ Killed(r)

Spec == Init /\ [][Next]_vars

(* The board runs by itself, bytes arrive, the kernel runs the readers; in *)
(* the end every start of the board is over.                               *)
FairSpec ==
  /\ Spec /\ WF_vars(Setup) /\ WF_vars(Board) /\ WF_vars(Deliver)
  /\ \A r \in Reader : WF_vars(Runs(r))

-----------------------------------------------------------------------------
TypeOK ==
  /\ bpc \in {"setup", "loop", "event"}
  /\ n \in 0 .. Rate * Wrap - 1 /\ prevNum \in 0 .. Wrap - 1 /\ readTempMode \in BOOLEAN
  /\ digits \in [tens : 0 .. 9, ones : 0 .. 9]
  /\ leds \in [low : SUBSET (1 .. 4), high : SUBSET Segment]
  /\ toBoard \in Seq({"c"})
  /\ wire \in Seq(Text \cup {<<"newline", 0>>, <<"semi", 0>>})
  /\ inbuf \in Seq(Text \cup {<<"newline", 0>>, <<"semi", 0>>})
  /\ rpc \in [Reader -> {"idle", "again", "flush", "send", "read", "spin", "done", "killed"}]
  /\ out \in [Reader -> Seq(Text)]
  /\ quiet \in [Reader -> BOOLEAN]

(* tempStation.ino:84-102, 170-346: whatever single digitalWrite the board *)
(* has come to in a loop, segments are lit at one digit at most and are    *)
(* some of those of the number that belongs there, the last digit's old    *)
(* one as long as it is being cleared: no digit flashes its neighbour's    *)
(* segments.  And in the pause after each digit, exactly that digit's      *)
(* number can be read at it.                                               *)
NoGhost(pins, kept) ==
  pins.high # {} => \E d \in 1 .. 4 : pins.low = {d} /\ pins.high \subseteq Segments(Number(d, kept))

Legible(pins, d, kept) ==
  pins.low = {d} /\ {x \in 0 .. 9 : Segments(x) = pins.high} = {Number(d, kept)}

DisplayRight ==
  [][bpc = "loop" /\ bpc' = "event" => \A d \in 1 .. 4 :
       /\ \A k \in 1 .. 20 :
            NoGhost(Display(d, k, leds, digits'), IF d = 1 /\ k <= 8 THEN digits ELSE digits')
       /\ Legible(Display(d, 20, leds, digits'), d, digits')]_vars

(* arduinoGetTemp.c:87-105: whatever an earlier start or request left on   *)
(* the line, a reader prints one reading, the end of one, or nothing:      *)
(* never the board's greeting and never parts of two.  A request that      *)
(* finds the board running and nothing on the line gets the whole reading, *)
(* a3_optional/README: "Subsequent requests work as expected".             *)
OneReading ==
  \A r \in Reader : rpc[r] = "done" =>
    \E v \in Analog, i \in 1 .. 3 :
      out[r] = SubSeq(Answer(v), i, 2) /\ (quiet[r] => i = 1)

(* arduinoGetTemp.c:84-106: a reader ends although it waits without a      *)
(* timeout and the board may have lost its "c" while it started; but the   *)
(* line must be raw already, pin 13 must stay HIGH and the device must     *)
(* stay there, since a read that fails is only repeated.                   *)
RawReaderEnds ==
  \A r \in Reader :
    (rpc[r] = "flush" /\ ~tty.canonical /\ pin13 = "high")
      ~> (rpc[r] = "done" \/ ~plugged)
=============================================================================
