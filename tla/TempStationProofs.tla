------------------------- MODULE TempStationProofs -------------------------
(***************************************************************************)
(* Type correctness of the temperature station, that whatever its display  *)
(* is in the middle of no digit shows segments of its neighbour, and that  *)
(* a request prints one reading and never parts of two, for any readings,  *)
(* any rate and any number of requests.                                    *)
(***************************************************************************)
EXTENDS TempStation, SequenceTheorems, TLAPS

(* The bytes on the line.                                                  *)
Byte == Text \cup {<<"newline", 0>>, <<"semi", 0>>}
Digit == [tens : 0 .. 9, ones : 0 .. 9]
Pins == [low : SUBSET (1 .. 4), high : SUBSET Segment]

(* The display follows the digits that are kept: they change only where    *)
(* all of it is written again.                                             *)
Written == leds = Start \/ leds = Shown(4, digits)

StationInv == TypeOK /\ Written

LEMMA Remainder ==
  ASSUME NEW a \in Nat, NEW b \in Nat \ {0}
  PROVE  a % b \in 0 .. b - 1
OBVIOUS

LEMMA Counts ==
  /\ Rate * Wrap \in Nat \ {0}
  /\ 0 \in 0 .. Rate * Wrap - 1 /\ 0 \in 0 .. Wrap - 1
  /\ \A m \in Nat : (m + 1) % (Rate * Wrap) \in 0 .. Rate * Wrap - 1
  /\ \A m \in Nat : (m \div Rate) % Wrap \in 0 .. Wrap - 1
<1>1. Rate \in Nat \ {0} /\ Wrap \in Nat \ {0}
  BY RateAssumption
<1>2. Rate * Wrap \in Nat \ {0}
  BY <1>1
<1>3. ASSUME NEW m \in Nat PROVE (m + 1) % (Rate * Wrap) \in 0 .. Rate * Wrap - 1
  BY <1>2, Remainder
<1>4. ASSUME NEW m \in Nat PROVE (m \div Rate) % Wrap \in 0 .. Wrap - 1
  <2>1. m \div Rate \in Nat
    BY <1>1
  <2> QED
    BY <1>1, <2>1, Remainder
<1> QED
  BY <1>1, <1>2, <1>3, <1>4

LEMMA DigitsType == \A v \in Analog : Digits(v) \in Digit
<1> SUFFICES ASSUME NEW v \in Analog PROVE Digits(v) \in Digit
  OBVIOUS
<1>1. Fahrenheit(v) \in Nat
  BY AnalogAssumption DEF Fahrenheit
<1>2. (Fahrenheit(v) \div 10) % 10 \in 0 .. 9 /\ Fahrenheit(v) % 10 \in 0 .. 9
  BY <1>1
<1> QED
  BY <1>2 DEF Digits, Digit

LEMMA BytesSent ==
  /\ Greeting \in Seq(Byte)
  /\ \A v \in Analog : Answer(v) \in Seq(Byte)
<1>1. \A v \in Analog \cup {0}, t \in {"cr", "celsius", "fahrenheit"} : <<t, v>> \in Byte
  BY DEF Byte, Text
<1>2. <<"newline", 0>> \in Byte /\ <<"semi", 0>> \in Byte
  BY DEF Byte
<1>3. \A a, b \in Byte : <<a, b>> \in Seq(Byte)
  OBVIOUS
<1>4. \A a, b, c \in Byte : <<a, b, c>> \in Seq(Byte)
  OBVIOUS
<1>5. Greeting \in Seq(Byte)
  BY <1>1, <1>2, <1>3 DEF Greeting
<1>6. ASSUME NEW v \in Analog PROVE Answer(v) \in Seq(Byte)
  BY <1>1, <1>2, <1>4 DEF Answer
<1> QED
  BY <1>5, <1>6

(* All the numbers look different.                                         *)
LEMMA SegmentsTell ==
  \A x, y \in 0 .. 9 : Segments(x) = Segments(y) => x = y
BY DEF Segments

LEMMA NumberType ==
  ASSUME NEW d \in 1 .. 4, NEW kept \in Digit
  PROVE  Number(d, kept) \in 0 .. 9
BY DEF Number, Digit

LEMMA SegmentsType ==
  ASSUME NEW x
  PROVE  Segments(x) \subseteq Segment
BY DEF Segments, Segment

(* The last of the twenty calls leaves the whole number at the digit.      *)
LEMMA LastFrame ==
  ASSUME NEW d, NEW kept, NEW pins
  PROVE  Frame(d, 20, pins, kept) = Shown(d, kept)
<1>1. First[7] = Segment
  BY DEF First, Segment, Nth
<1>2. Segments(Number(d, kept)) \cap First[20 - 13] = Segments(Number(d, kept))
  <2>1. 20 - 13 = 7
    OBVIOUS
  <2> QED
    BY <1>1, <2>1, SegmentsType
<1>3. ~(20 <= 8) /\ ~(20 <= 12)
  OBVIOUS
<1> QED
  BY <1>2, <1>3 DEF Frame, Shown

(* A call of digitalWrite lights nothing at a digit that does not belong   *)
(* there if the pins were right before the digit was begun.                *)
LEMMA FrameRight ==
  ASSUME NEW d \in 1 .. 4, NEW k \in 1 .. 20, NEW pins \in Pins, NEW old, NEW kept,
         NoGhost(pins, old)
  PROVE  NoGhost(Frame(d, k, pins, kept), IF k <= 8 THEN old ELSE kept)
<1>1. CASE k <= 8
  <2>1. /\ Frame(d, k, pins, kept).low = pins.low
        /\ Frame(d, k, pins, kept).high \subseteq pins.high
    BY <1>1 DEF Frame, Pins
  <2> QED
    BY <1>1, <2>1 DEF NoGhost
<1>2. CASE ~(k <= 8) /\ k <= 12
  BY <1>2 DEF Frame, NoGhost
<1>3. CASE ~(k <= 8) /\ ~(k <= 12)
  BY <1>3 DEF Frame, NoGhost
<1> QED
  BY <1>1, <1>2, <1>3

LEMMA ShownType ==
  ASSUME NEW d \in 1 .. 4, NEW kept
  PROVE  Shown(d, kept) \in Pins /\ NoGhost(Shown(d, kept), kept)
BY SegmentsType DEF Shown, Pins, NoGhost

LEMMA StartType == Start \in Pins /\ \A kept : NoGhost(Start, kept)
BY DEF Start, Pins, NoGhost

LEMMA BoardTypes == TypeOK /\ Board => TypeOK'
<1> SUFFICES ASSUME TypeOK, Board PROVE TypeOK'
  OBVIOUS
<1> USE DEF board, line, readers, fixed, Byte, Digit, Pins
<1>1. CASE Setup
  BY <1>1, BytesSent DEF Setup, BoardStep, TypeOK
<1>2. CASE LostInSetup
  BY <1>2 DEF LostInSetup, BoardStep, TypeOK
<1>3. CASE Loop
  <2>1. n \in Nat
    BY Counts DEF TypeOK
  <2>2. n' \in 0 .. Rate * Wrap - 1
    BY <1>3, <2>1, Counts DEF Loop
  <2>3. /\ prevNum' \in 0 .. Wrap - 1 /\ digits' \in Digit
        /\ wire' \in Seq(Byte) /\ readTempMode' \in BOOLEAN
    <3>1. CASE Unread
      BY <3>1 DEF Unread, TypeOK
    <3>2. ASSUME NEW v \in Analog, Reading(v)
          PROVE  /\ prevNum' \in 0 .. Wrap - 1 /\ digits' \in Digit
                 /\ wire' \in Seq(Byte) /\ readTempMode' \in BOOLEAN
      <4>1. prevNum' \in 0 .. Wrap - 1
        BY <2>1, <3>2, Counts DEF Reading
      <4>2. wire' \in Seq(Byte)
        BY <3>2, BytesSent DEF Reading, TypeOK
      <4> QED
        BY <3>2, <4>1, <4>2, DigitsType DEF Reading
    <3> QED
      BY <1>3, <3>1, <3>2 DEF Loop
  <2>4. leds' \in Pins
    <3>1. leds' = Shown(4, digits')
      BY <1>3, LastFrame DEF Loop, Display
    <3> QED
      BY <3>1, ShownType
  <2> QED
    BY <1>3, <2>2, <2>3, <2>4 DEF Loop, BoardStep, TypeOK
<1>4. CASE NoEvent
  BY <1>4 DEF NoEvent, BoardStep, TypeOK
<1>5. CASE SerialEvent
  BY <1>5 DEF SerialEvent, BoardStep, TypeOK
<1> QED
  BY <1>1, <1>2, <1>3, <1>4, <1>5 DEF Board

LEMMA DeliverTypes == TypeOK /\ Deliver => TypeOK'
<1> SUFFICES ASSUME TypeOK, Deliver PROVE TypeOK'
  OBVIOUS
<1>1. wire \in Seq(Byte) /\ inbuf \in Seq(Byte) /\ wire # <<>> /\ <<"newline", 0>> \in Byte
  BY DEF TypeOK, Deliver, Byte
<1>2. Head(wire) \in Byte /\ wire' \in Seq(Byte)
  BY <1>1 DEF Deliver
<1>3. inbuf' \in Seq(Byte)
  BY <1>1, <1>2 DEF Deliver
<1> QED
  BY <1>2, <1>3 DEF Deliver, TypeOK, board, readers, Byte

LEMMA ResetTypes ==
  Reset => /\ bpc' = "setup" /\ readTempMode' = FALSE
           /\ n' \in 0 .. Rate * Wrap - 1 /\ prevNum' \in 0 .. Wrap - 1
           /\ digits' \in Digit /\ leds' \in Pins /\ toBoard' \in Seq({"c"})
BY Counts, StartType DEF Reset, Digit

LEMMA UnplugTypes == TypeOK /\ Unplug => TypeOK'
<1> SUFFICES ASSUME TypeOK, Unplug PROVE TypeOK'
  OBVIOUS
<1>1. rpc' \in [Reader -> {"idle", "again", "flush", "send", "read", "spin", "done", "killed"}]
  BY DEF Unplug, TypeOK
<1>2. wire' = <<>> /\ inbuf' = <<>> /\ UNCHANGED <<out, quiet>> /\ Reset
  BY DEF Unplug
<1>3. \A S : <<>> \in Seq(S)
  OBVIOUS
<1>4. out' \in [Reader -> Seq(Text)] /\ quiet' \in [Reader -> BOOLEAN]
  BY <1>2 DEF TypeOK
<1>5. /\ bpc' \in {"setup", "loop", "event"} /\ readTempMode' \in BOOLEAN
      /\ n' \in 0 .. Rate * Wrap - 1 /\ prevNum' \in 0 .. Wrap - 1
      /\ digits' \in Digit /\ leds' \in Pins /\ toBoard' \in Seq({"c"})
  BY <1>2, ResetTypes
<1>6. wire' \in Seq(Byte) /\ inbuf' \in Seq(Byte)
  BY <1>2, <1>3
<1> QED
  BY <1>1, <1>4, <1>5, <1>6 DEF TypeOK, Digit, Pins, Byte

LEMMA ReaderTypes ==
  ASSUME TypeOK, NEW r \in Reader, Runs(r) \/ Killed(r)
  PROVE  TypeOK'
<1> USE DEF board, Byte, At, TypeOK, Pins
<1>1. CASE Open(r)
  <2>1. wire' \in Seq(Byte)
    <3>1. \A i \in 1 .. Len(wire) + 1 : SubSeq(wire, i, Len(wire)) \in Seq(Byte)
      OBVIOUS
    <3> QED
      BY <1>1, <3>1 DEF Open
  <2>2. rpc' \in [Reader -> {"idle", "again", "flush", "send", "read", "spin", "done", "killed"}]
    BY <1>1 DEF Open
  <2>3. CASE UNCHANGED <<board, toBoard>>
    BY <1>1, <2>1, <2>2, <2>3 DEF Open
  <2>4. CASE Reset
    BY <1>1, <2>1, <2>2, <2>4, ResetTypes DEF Open, Digit
  <2> QED
    BY <1>1, <2>3, <2>4 DEF Open
<1>2. CASE Flush(r)
  BY <1>2 DEF Flush
<1>3. CASE Send(r)
  <2>1. AtRest(r) \in BOOLEAN
    BY DEF AtRest
  <2> QED
    BY <1>3, <2>1 DEF Send
<1>4. CASE Newline(r)
  BY <1>4 DEF Newline, ReadByte
<1>5. CASE PrintByte(r)
  <2>1. inbuf # <<>> /\ Head(inbuf) \in Byte /\ Head(inbuf)[1] \in {"cr", "celsius", "fahrenheit"}
    BY <1>5 DEF PrintByte, ReadByte
  <2>2. Head(inbuf) \in Text
    BY <2>1
  <2>3. out' \in [Reader -> Seq(Text)]
    BY <1>5, <2>2 DEF PrintByte
  <2> QED
    BY <1>5, <2>1, <2>3 DEF PrintByte, ReadByte
<1>6. CASE Delimiter(r)
  BY <1>6 DEF Delimiter, ReadByte
<1>7. CASE Killed(r)
  BY <1>7 DEF Killed
<1>8. CASE OpenFails(r)
  BY <1>8 DEF OpenFails, line
<1> QED
  BY <1>1, <1>2, <1>3, <1>4, <1>5, <1>6, <1>7, <1>8 DEF Runs

LEMMA WrittenStep == Written /\ [Next]_vars => Written'
<1> SUFFICES ASSUME Written, [Next]_vars PROVE Written'
  OBVIOUS
<1>1. CASE Board
  <2>1. CASE Loop
    BY <2>1, LastFrame DEF Loop, Display, Written
  <2>2. CASE Setup \/ LostInSetup \/ NoEvent \/ SerialEvent
    BY <2>2 DEF Setup, LostInSetup, NoEvent, SerialEvent, BoardStep, Written
  <2> QED
    BY <1>1, <2>1, <2>2 DEF Board
<1>2. CASE Deliver
  BY <1>2 DEF Deliver, board, Written
<1>5. CASE Unplug
  BY <1>5 DEF Unplug, Reset, Written
<1>3. ASSUME NEW r \in Reader, Runs(r) \/ Killed(r) PROVE Written'
  <2>1. UNCHANGED board \/ Reset
    BY <1>3 DEF Runs, Killed, Open, OpenFails, Flush, Send, Newline, PrintByte, Delimiter, ReadByte
  <2> QED
    BY <2>1 DEF board, Reset, Written
<1>4. CASE UNCHANGED vars
  BY <1>4 DEF vars, board, Written
<1> QED
  BY <1>1, <1>2, <1>3, <1>4, <1>5 DEF Next

LEMMA InitTypes == Init => TypeOK
<1> SUFFICES ASSUME Init PROVE TypeOK
  OBVIOUS
<1>1. n \in 0 .. Rate * Wrap - 1 /\ prevNum \in 0 .. Wrap - 1
  BY Counts DEF Init
<1>2. leds \in Pins
  BY StartType DEF Init
<1>3. rpc \in [Reader -> {"idle", "again", "flush", "send", "read", "spin", "done", "killed"}]
      /\ out \in [Reader -> Seq(Text)] /\ quiet \in [Reader -> BOOLEAN]
  BY DEF Init
<1>4. /\ digits \in Digit /\ toBoard \in Seq({"c"})
      /\ wire \in Seq(Byte) /\ inbuf \in Seq(Byte)
  BY DEF Init, Digit
<1>5. bpc = "setup" /\ readTempMode = FALSE
  BY DEF Init
<1> QED
  BY <1>1, <1>2, <1>3, <1>4, <1>5 DEF TypeOK, Byte, Digit, Pins

LEMMA TypeStep == TypeOK /\ [Next]_vars => TypeOK'
<1>1. TypeOK /\ UNCHANGED vars => TypeOK'
  BY DEF vars, fixed, board, line, readers, TypeOK
<1> QED
  BY <1>1, BoardTypes, DeliverTypes, UnplugTypes, ReaderTypes DEF Next

LEMMA StationInvariant == Spec => []StationInv
<1>1. Init => StationInv
  BY InitTypes DEF Init, StationInv, Written
<1>2. StationInv /\ [Next]_vars => StationInv'
  BY TypeStep, WrittenStep DEF StationInv
<1> QED
  BY <1>1, <1>2, PTL DEF Spec

(* Type correctness, for any number of readers and any readings.           *)
THEOREM TypeCorrect == Spec => []TypeOK
<1>1. StationInv => TypeOK
  BY DEF StationInv
<1> QED
  BY <1>1, StationInvariant, PTL

(* tempStation.ino:84-102, 170-346: after every single digitalWrite of a   *)
(* loop, what is lit belongs to the one digit selected, and in the pause   *)
(* after each digit its number can be read there, whatever is measured.    *)
THEOREM DisplayAlwaysRight == Spec => DisplayRight
<1>1. StationInv /\ StationInv' =>
        \A d \in 1 .. 4 :
          /\ \A k \in 1 .. 20 :
               NoGhost(Display(d, k, leds, digits'), IF d = 1 /\ k <= 8 THEN digits ELSE digits')
          /\ Legible(Display(d, 20, leds, digits'), d, digits')
  <2> SUFFICES ASSUME StationInv, StationInv', NEW d \in 1 .. 4
               PROVE  /\ \A k \in 1 .. 20 :
                           NoGhost(Display(d, k, leds, digits'),
                                   IF d = 1 /\ k <= 8 THEN digits ELSE digits')
                      /\ Legible(Display(d, 20, leds, digits'), d, digits')
    OBVIOUS
  <2>1. leds \in Pins /\ NoGhost(leds, digits) /\ digits' \in Digit
    BY StartType, ShownType DEF StationInv, Written, TypeOK, Pins, Digit
  <2>2. ASSUME NEW k \in 1 .. 20
        PROVE  NoGhost(Display(d, k, leds, digits'), IF d = 1 /\ k <= 8 THEN digits ELSE digits')
    <3>1. CASE d = 1
      <4>1. NoGhost(Frame(d, k, leds, digits'), IF k <= 8 THEN digits ELSE digits')
        BY <2>1, FrameRight
      <4> QED
        BY <3>1, <4>1 DEF Display
    <3>2. CASE d # 1
      <4>1. d - 1 \in 1 .. 4
        BY <3>2
      <4>2. Shown(d - 1, digits') \in Pins /\ NoGhost(Shown(d - 1, digits'), digits')
        BY <4>1, ShownType
      <4>3. NoGhost(Frame(d, k, Shown(d - 1, digits'), digits'), IF k <= 8 THEN digits' ELSE digits')
        BY <4>2, FrameRight
      <4> QED
        BY <3>2, <4>3 DEF Display
    <3> QED
      BY <3>1, <3>2
  <2>3. Display(d, 20, leds, digits') = Shown(d, digits')
    BY LastFrame DEF Display
  <2>4. Number(d, digits') \in 0 .. 9
    BY <2>1, NumberType
  <2>5. {x \in 0 .. 9 : Segments(x) = Segments(Number(d, digits'))} = {Number(d, digits')}
    BY <2>4, SegmentsTell
  <2>6. Legible(Display(d, 20, leds, digits'), d, digits')
    BY <2>3, <2>5 DEF Legible, Shown
  <2> QED
    BY <2>2, <2>6
<1> QED
  BY <1>1, StationInvariant, PTL DEF DisplayRight
-----------------------------------------------------------------------------
(* What is on its way to the host: the bytes that the board can have sent, *)
(* what comes after each, and how it ends.  A "\r" may have become a       *)
(* newline.                                                                *)
Stream == inbuf \o wire

Genuine(b) ==
  \/ b \in {<<"cr", 0>>, <<"newline", 0>>}
  \/ b \in {"celsius", "fahrenheit"} \X Analog
  \/ b = <<"semi", 0>> /\ Analog # {}

Follows(a, b) ==
  /\ a[1] = "cr" => b = <<"newline", 0>>
  /\ a[1] = "celsius" => b = <<"fahrenheit", a[2]>>
  /\ a[1] = "fahrenheit" => b = <<"semi", 0>>
  /\ a[1] \in {"newline", "semi"} => b[1] \in {"cr", "celsius", "newline"}

Sound(s) ==
  /\ \A i \in DOMAIN s : Genuine(s[i])
  /\ \A i \in DOMAIN s : i + 1 \in DOMAIN s => Follows(s[i], s[i + 1])
  /\ s # <<>> => s[Len(s)][1] \in {"newline", "semi"}

(* What a reader may have printed when s is still to come.                 *)
Printing(p, s) ==
  \/ p = <<>>
  \/ p = <<<<"cr", 0>>>> /\ s # <<>> /\ s[1] = <<"newline", 0>>
  \/ \E v \in Analog :
       \/ p = <<<<"celsius", v>>>> /\ s # <<>> /\ s[1] = <<"fahrenheit", v>>
       \/ /\ p \in {<<<<"fahrenheit", v>>>>, <<<<"celsius", v>>, <<"fahrenheit", v>>>>}
          /\ s # <<>> /\ s[1] = <<"semi", 0>>

(* Nothing comes to a request that found all at rest but its answer.       *)
FromTheStart(p, s) ==
  IF p = <<>> THEN s = <<>> \/ s[1][1] = "celsius" ELSE p[1][1] = "celsius"

Told(r) ==
  \E v \in Analog, i \in 1 .. 3 : out[r] = SubSeq(Answer(v), i, 2) /\ (quiet[r] => i = 1)

ReaderRight(r) ==
  /\ rpc[r] \in {"idle", "again", "flush", "send"} => out[r] = <<>>
  /\ rpc[r] = "read" =>
       /\ Printing(out[r], Stream)
       /\ quiet[r] => bpc # "setup" /\ FromTheStart(out[r], Stream)
  /\ rpc[r] = "done" => Told(r)

LineInv ==
  /\ TypeOK
  /\ \A r, q \in holds : r = q
  /\ holds = {} => inbuf = <<>>
  /\ Sound(Stream)
  /\ \A r \in Reader : ReaderRight(r)
  /\ ~plugged => wire = <<>> /\ inbuf = <<>>
  /\ \A r \in Reader : rpc[r] \in {"flush", "send", "read"} => plugged
  /\ \A r \in Reader : rpc[r] = "spin" => ~plugged

(* Sound bytes stay sound when the first, or some of the first, are gone.  *)
LEMMA SoundFrom ==
  ASSUME NEW s \in Seq(Byte), Sound(s), NEW i \in 1 .. Len(s) + 1
  PROVE  SubSeq(s, i, Len(s)) \in Seq(Byte) /\ Sound(SubSeq(s, i, Len(s)))
<1> DEFINE t == SubSeq(s, i, Len(s))
<1>1. /\ t \in Seq(Byte) /\ Len(t) = Len(s) - i + 1 /\ DOMAIN t = 1 .. Len(s) - i + 1
      /\ \A j \in 1 .. Len(s) - i + 1 : t[j] = s[i + j - 1]
  OBVIOUS
<1>2. Len(s) \in Nat /\ DOMAIN s = 1 .. Len(s)
  OBVIOUS
<1> HIDE DEF t
<1>3. ASSUME NEW j \in DOMAIN t PROVE Genuine(t[j])
  <2>1. i + j - 1 \in DOMAIN s /\ t[j] = s[i + j - 1]
    BY <1>1, <1>2
  <2> QED
    BY <2>1 DEF Sound
<1>4. ASSUME NEW j \in DOMAIN t, j + 1 \in DOMAIN t PROVE Follows(t[j], t[j + 1])
  <2>1. i + j - 1 \in DOMAIN s /\ (i + j - 1) + 1 \in DOMAIN s
    BY <1>1, <1>2, <1>4
  <2>2. t[j] = s[i + j - 1] /\ t[j + 1] = s[(i + j - 1) + 1]
    BY <1>1, <1>4
  <2> QED
    BY <2>1, <2>2 DEF Sound
<1>5. ASSUME t # <<>> PROVE t[Len(t)][1] \in {"newline", "semi"}
  <2>1. Len(t) # 0
    BY <1>1, <1>5
  <2>2. t[Len(t)] = s[Len(s)] /\ s # <<>>
    BY <1>1, <1>2, <2>1
  <2> QED
    BY <2>2 DEF Sound
<1>6. Sound(t)
  BY <1>3, <1>4, <1>5 DEF Sound
<1> QED
  BY <1>1, <1>6 DEF t

(* What is sent together goes behind what was sent before.                 *)
LEMMA SoundMore ==
  ASSUME NEW s \in Seq(Byte), Sound(s), NEW t \in Seq(Byte), Sound(t), t # <<>>,
         t[1][1] \in {"cr", "celsius", "newline"}
  PROVE  /\ s \o t \in Seq(Byte) /\ Sound(s \o t) /\ s \o t # <<>>
         /\ (s \o t)[1] = IF s = <<>> THEN t[1] ELSE s[1]
<1> DEFINE c == s \o t
<1>1. /\ c \in Seq(Byte) /\ Len(c) = Len(s) + Len(t) /\ DOMAIN c = 1 .. Len(s) + Len(t)
      /\ \A i \in 1 .. Len(s) + Len(t) : c[i] = IF i <= Len(s) THEN s[i] ELSE t[i - Len(s)]
  OBVIOUS
<1>2. /\ Len(s) \in Nat /\ DOMAIN s = 1 .. Len(s) /\ Len(t) \in Nat /\ DOMAIN t = 1 .. Len(t)
      /\ Len(t) # 0 /\ (Len(s) = 0 <=> s = <<>>)
  OBVIOUS
<1> HIDE DEF c
<1>3. ASSUME NEW i \in DOMAIN c PROVE Genuine(c[i])
  <2>1. CASE i <= Len(s)
    BY <1>1, <1>2, <2>1 DEF Sound
  <2>2. CASE ~(i <= Len(s))
    <3>1. i - Len(s) \in DOMAIN t /\ c[i] = t[i - Len(s)]
      BY <1>1, <1>2, <2>2
    <3> QED
      BY <3>1 DEF Sound
  <2> QED
    BY <2>1, <2>2
<1>4. ASSUME NEW i \in DOMAIN c, i + 1 \in DOMAIN c PROVE Follows(c[i], c[i + 1])
  <2>1. CASE i + 1 <= Len(s)
    <3>1. i \in DOMAIN s /\ i + 1 \in DOMAIN s /\ c[i] = s[i] /\ c[i + 1] = s[i + 1]
      BY <1>1, <1>2, <1>4, <2>1
    <3> QED
      BY <3>1 DEF Sound
  <2>2. CASE i = Len(s)
    <3>1. s # <<>> /\ c[i] = s[Len(s)] /\ c[i + 1] = t[1]
      BY <1>1, <1>2, <1>4, <2>2
    <3>2. c[i][1] \in {"newline", "semi"}
      BY <3>1 DEF Sound
    <3> QED
      BY <3>1, <3>2 DEF Follows
  <2>3. CASE i > Len(s)
    <3>1. /\ i - Len(s) \in DOMAIN t /\ (i - Len(s)) + 1 \in DOMAIN t
          /\ c[i] = t[i - Len(s)] /\ c[i + 1] = t[(i - Len(s)) + 1]
      BY <1>1, <1>2, <1>4, <2>3
    <3> QED
      BY <3>1 DEF Sound
  <2> QED
    BY <1>1, <1>2, <1>4, <2>1, <2>2, <2>3
<1>5. c[Len(c)] = t[Len(t)] /\ t[Len(t)][1] \in {"newline", "semi"}
  BY <1>1, <1>2 DEF Sound
<1>6. Sound(c)
  BY <1>3, <1>4, <1>5 DEF Sound
<1>7. c # <<>> /\ c[1] = IF s = <<>> THEN t[1] ELSE s[1]
  BY <1>1, <1>2
<1> QED
  BY <1>1, <1>6, <1>7 DEF c

(* What the board sends is sound.                                          *)
LEMMA SoundSent ==
  /\ Sound(Greeting) /\ Greeting # <<>> /\ Greeting[1] = <<"cr", 0>>
  /\ \A v \in Analog : Sound(Answer(v)) /\ Answer(v) # <<>> /\ Answer(v)[1] = <<"celsius", v>>
<1>1. Sound(Greeting) /\ Greeting # <<>> /\ Greeting[1] = <<"cr", 0>>
  BY DEF Greeting, Sound, Genuine, Follows
<1>2. ASSUME NEW v \in Analog
      PROVE  Sound(Answer(v)) /\ Answer(v) # <<>> /\ Answer(v)[1] = <<"celsius", v>>
  BY DEF Answer, Sound, Genuine, Follows
<1> QED
  BY <1>1, <1>2

(* A "\r" that becomes a newline.                                          *)
LEMMA SoundTurned ==
  ASSUME NEW s \in Seq(Byte), Sound(s), NEW k \in 1 .. Len(s), s[k][1] = "cr"
  PROVE  LET t == [s EXCEPT ![k] = <<"newline", 0>>] IN t \in Seq(Byte) /\ Sound(t) /\ Len(t) = Len(s)
<1> DEFINE e == <<"newline", 0>>
           t == [s EXCEPT ![k] = e]
<1>1. e \in Byte /\ e[1] = "newline"
  BY DEF Byte
<1>2. DOMAIN s = 1 .. Len(s) /\ Len(s) \in Nat
  OBVIOUS
<1> HIDE DEF e
<1>3. /\ t \in Seq(Byte) /\ Len(t) = Len(s) /\ DOMAIN t = 1 .. Len(s)
      /\ \A i \in 1 .. Len(s) : t[i] = IF i = k THEN e ELSE s[i]
  BY <1>1, <1>2, ExceptSeq
<1> HIDE DEF t
<1>4. \A i \in DOMAIN t : Genuine(t[i])
  BY <1>2, <1>3 DEF Sound, Genuine, e
<1>5. ASSUME NEW i \in DOMAIN t, i + 1 \in DOMAIN t PROVE Follows(t[i], t[i + 1])
  <2>1. i \in DOMAIN s /\ i + 1 \in DOMAIN s /\ Follows(s[i], s[i + 1])
    BY <1>2, <1>3, <1>5 DEF Sound
  <2>2. CASE i = k
    <3>1. t[i] = <<"newline", 0>> /\ t[i + 1] = s[i + 1] /\ s[i + 1] = <<"newline", 0>>
      BY <1>2, <1>3, <1>5, <2>1, <2>2 DEF Follows, e
    <3> QED
      BY <3>1 DEF Follows
  <2>3. CASE i + 1 = k
    <3>1. t[i] = s[i] /\ t[i + 1] = <<"newline", 0>>
      BY <1>2, <1>3, <1>5, <2>1, <2>3 DEF e
    <3>2. s[i][1] # "celsius" /\ s[i][1] # "fahrenheit"
      BY <2>1, <2>3 DEF Follows
    <3> QED
      BY <3>1, <3>2 DEF Follows
  <2>4. CASE i # k /\ i + 1 # k
    BY <1>2, <1>3, <1>5, <2>1, <2>4
  <2> QED
    BY <2>2, <2>3, <2>4
<1>6. t # <<>> /\ t[Len(t)][1] \in {"newline", "semi"}
  BY <1>1, <1>2, <1>3 DEF Sound
<1>7. Sound(t)
  BY <1>4, <1>5, <1>6 DEF Sound
<1> QED
  BY <1>3, <1>7 DEF t, e

(* A byte read, all those buffered dropped, and one delivered.             *)
LEMMA FirstRead ==
  ASSUME NEW a \in Seq(Byte), NEW b \in Seq(Byte), a # <<>>
  PROVE  LET s == a \o b IN
         /\ s \in Seq(Byte) /\ s # <<>> /\ s[1] = Head(a) /\ Len(s) \in Nat \ {0}
         /\ Tail(a) \o b = SubSeq(s, 2, Len(s))
         /\ Len(SubSeq(s, 2, Len(s))) = Len(s) - 1
         /\ Len(s) > 1 => SubSeq(s, 2, Len(s))[1] = s[2]
<1> DEFINE s == a \o b
<1>1. /\ s \in Seq(Byte) /\ Len(s) = Len(a) + Len(b)
      /\ \A i \in 1 .. Len(a) + Len(b) : s[i] = IF i <= Len(a) THEN a[i] ELSE b[i - Len(a)]
  BY ConcatProperties
<1>2. Len(a) \in Nat \ {0} /\ Len(b) \in Nat /\ Head(a) = a[1]
  BY EmptySeq, LenProperties
<1>3. /\ Tail(a) \in Seq(Byte) /\ Len(Tail(a)) = Len(a) - 1
      /\ \A i \in 1 .. Len(Tail(a)) : Tail(a)[i] = a[i + 1]
  BY HeadTailProperties
<1> DEFINE t == Tail(a) \o b
           u == SubSeq(s, 2, Len(s))
<1>4. /\ t \in Seq(Byte) /\ Len(t) = Len(a) - 1 + Len(b)
      /\ \A i \in 1 .. Len(a) - 1 + Len(b) :
           t[i] = IF i <= Len(a) - 1 THEN Tail(a)[i] ELSE b[i - (Len(a) - 1)]
  BY <1>3, ConcatProperties
<1> HIDE DEF s, t
<1>5. /\ u \in Seq(Byte) /\ Len(u) = Len(s) - 1
      /\ \A i \in 1 .. Len(s) - 1 : u[i] = s[i + 1]
  BY <1>1, <1>2
<1> HIDE DEF u
<1>6. \A i \in 1 .. Len(t) : t[i] = u[i]
  <2> SUFFICES ASSUME NEW i \in 1 .. Len(t) PROVE t[i] = u[i]
    OBVIOUS
  <2>1. u[i] = s[i + 1] /\ i \in Nat \ {0} /\ i <= Len(a) - 1 + Len(b)
    BY <1>1, <1>2, <1>4, <1>5
  <2>2. CASE i <= Len(a) - 1
    <3>1. t[i] = a[i + 1] /\ s[i + 1] = a[i + 1]
      BY <1>1, <1>2, <1>3, <1>4, <2>1, <2>2
    <3> QED
      BY <2>1, <3>1
  <2>3. CASE ~(i <= Len(a) - 1)
    <3>1. t[i] = b[i - (Len(a) - 1)] /\ s[i + 1] = b[i + 1 - Len(a)]
      BY <1>1, <1>2, <1>4, <2>1, <2>3
    <3>2. i - (Len(a) - 1) = i + 1 - Len(a)
      BY <1>2, <2>1
    <3> QED
      BY <2>1, <3>1, <3>2
  <2> QED
    BY <2>2, <2>3
<1>7. t = u
  <2>1. Len(t) = Len(u) /\ t \in Seq(Byte) /\ u \in Seq(Byte)
    BY <1>1, <1>2, <1>4, <1>5
  <2> QED
    BY <1>6, <2>1, SeqEqual
<1>8. s # <<>> /\ s[1] = Head(a) /\ Len(s) \in Nat \ {0} /\ (Len(s) > 1 => u[1] = s[2])
  BY <1>1, <1>2, <1>5
<1> QED
  BY <1>1, <1>5, <1>7, <1>8 DEF s, t, u

(* A flush leaves the end of the stream.                                   *)
LEMMA AllDropped ==
  ASSUME NEW a \in Seq(Byte), NEW b \in Seq(Byte)
  PROVE  LET s == a \o b IN
         /\ Len(a) + 1 \in 1 .. Len(s) + 1
         /\ <<>> \o b = SubSeq(s, Len(a) + 1, Len(s))
<1> DEFINE s == a \o b
           u == SubSeq(s, Len(a) + 1, Len(s))
<1>1. /\ s \in Seq(Byte) /\ Len(s) = Len(a) + Len(b)
      /\ \A i \in 1 .. Len(a) + Len(b) : s[i] = IF i <= Len(a) THEN a[i] ELSE b[i - Len(a)]
  BY ConcatProperties
<1>2. Len(a) \in Nat /\ Len(b) \in Nat /\ <<>> \o b = b
  BY LenProperties, ConcatEmptySeq
<1> HIDE DEF s
<1>3. /\ u \in Seq(Byte) /\ Len(u) = Len(b)
      /\ \A i \in 1 .. Len(b) : u[i] = s[Len(a) + i]
  BY <1>1, <1>2
<1> HIDE DEF u
<1>4. ASSUME NEW i \in 1 .. Len(b) PROVE u[i] = b[i]
  <2>1. Len(a) + i \in 1 .. Len(a) + Len(b) /\ ~(Len(a) + i <= Len(a)) /\ (Len(a) + i) - Len(a) = i
    BY <1>2
  <2>2. s[Len(a) + i] = b[(Len(a) + i) - Len(a)]
    BY <1>1, <2>1
  <2> QED
    BY <1>3, <2>1, <2>2
<1>5. u = b
  BY <1>3, <1>4, SeqEqual
<1>6. Len(a) + 1 \in 1 .. Len(s) + 1
  BY <1>1, <1>2
<1> QED
  BY <1>2, <1>5, <1>6 DEF s, u

(* Delivering a byte changes at most that byte of the stream.              *)
LEMMA OneDelivered ==
  ASSUME NEW a \in Seq(Byte), NEW b \in Seq(Byte), b # <<>>, NEW e \in Byte
  PROVE  LET s == a \o b
             k == Len(a) + 1 IN
         /\ s \in Seq(Byte) /\ k \in 1 .. Len(s) /\ s[k] = Head(b)
         /\ Append(a, e) \o Tail(b) = [s EXCEPT ![k] = e]
<1> DEFINE s == a \o b
           k == Len(a) + 1
           t == Append(a, e) \o Tail(b)
           u == [s EXCEPT ![k] = e]
<1>1. /\ s \in Seq(Byte) /\ Len(s) = Len(a) + Len(b)
      /\ \A i \in 1 .. Len(a) + Len(b) : s[i] = IF i <= Len(a) THEN a[i] ELSE b[i - Len(a)]
  BY ConcatProperties
<1>2. Len(a) \in Nat /\ Len(b) \in Nat \ {0} /\ Head(b) = b[1]
  BY EmptySeq, LenProperties
<1>3. /\ Tail(b) \in Seq(Byte) /\ Len(Tail(b)) = Len(b) - 1
      /\ \A i \in 1 .. Len(Tail(b)) : Tail(b)[i] = b[i + 1]
  BY HeadTailProperties
<1>4. /\ Append(a, e) \in Seq(Byte) /\ Len(Append(a, e)) = Len(a) + 1
      /\ \A i \in 1 .. Len(a) : Append(a, e)[i] = a[i]
      /\ Append(a, e)[Len(a) + 1] = e
  BY AppendProperties
<1>5. /\ t \in Seq(Byte) /\ Len(t) = Len(a) + Len(b)
      /\ \A i \in 1 .. Len(a) + Len(b) :
           t[i] = IF i <= Len(a) + 1 THEN Append(a, e)[i] ELSE Tail(b)[i - (Len(a) + 1)]
  <2>1. Len(Append(a, e)) + Len(Tail(b)) = Len(a) + Len(b)
    BY <1>2, <1>3, <1>4
  <2> QED
    BY <1>3, <1>4, <2>1, ConcatProperties
<1> HIDE DEF s, t
<1>6. k \in 1 .. Len(s) /\ s[k] = Head(b)
  <2>1. k \in 1 .. Len(a) + Len(b) /\ ~(k <= Len(a)) /\ k - Len(a) = 1
    BY <1>2
  <2> QED
    BY <1>1, <1>2, <2>1
<1>7. /\ u \in Seq(Byte) /\ Len(u) = Len(s)
      /\ \A i \in 1 .. Len(s) : u[i] = IF i = k THEN e ELSE s[i]
  BY <1>1, <1>6, ExceptSeq
<1> HIDE DEF u
<1>8. \A i \in 1 .. Len(t) : t[i] = u[i]
  <2> SUFFICES ASSUME NEW i \in 1 .. Len(a) + Len(b) PROVE t[i] = u[i]
    BY <1>5
  <2>1. CASE i <= Len(a)
    <3>1. i \in 1 .. Len(a) /\ i <= Len(a) + 1 /\ i # k
      BY <1>2, <2>1
    <3>2. t[i] = a[i] /\ s[i] = a[i]
      BY <1>1, <1>4, <1>5, <2>1, <3>1
    <3> QED
      BY <1>1, <1>7, <3>1, <3>2
  <2>2. CASE i = Len(a) + 1
    BY <1>1, <1>2, <1>4, <1>5, <1>7, <2>2
  <2>3. CASE i > Len(a) + 1
    <3>1. /\ t[i] = Tail(b)[i - (Len(a) + 1)] /\ i - (Len(a) + 1) \in 1 .. Len(Tail(b))
          /\ (i - (Len(a) + 1)) + 1 = i - Len(a)
      BY <1>2, <1>3, <1>5, <2>3
    <3>2. t[i] = b[i - Len(a)]
      BY <1>3, <3>1
    <3>3. u[i] = b[i - Len(a)]
      BY <1>1, <1>2, <1>7, <2>3
    <3> QED
      BY <3>2, <3>3
  <2> QED
    BY <1>2, <2>1, <2>2, <2>3
<1>9. t = u
  BY <1>1, <1>5, <1>7, <1>8, SeqEqual
<1> QED
  BY <1>1, <1>6, <1>9 DEF s, t, u

LEMMA StreamType == TypeOK => wire \in Seq(Byte) /\ inbuf \in Seq(Byte) /\ Stream \in Seq(Byte)
<1>1. TypeOK => wire \in Seq(Byte) /\ inbuf \in Seq(Byte)
  BY DEF TypeOK, Byte
<1> QED
  BY <1>1, ConcatProperties DEF Stream

(* A step of the board that sends nothing.                                 *)
LEMMA NothingSent ==
  ASSUME LineInv, TypeOK', UNCHANGED <<wire, inbuf, rpc, out, quiet, plugged>>, bpc' = "setup" => bpc = "setup"
  PROVE  LineInv'
<1>1. Stream' = Stream /\ holds' = holds
  BY DEF Stream, holds
<1>2. \A r \in Reader : ReaderRight(r)'
  BY <1>1 DEF LineInv, ReaderRight, Told
<1> QED
  BY <1>1, <1>2 DEF LineInv

(* A step that sends t behind what was sent before.                        *)
LEMMA MoreSent ==
  ASSUME LineInv, TypeOK', UNCHANGED <<inbuf, rpc, out, quiet>>, plugged, plugged',
         NEW t \in Seq(Byte), Sound(t), t # <<>>, t[1][1] \in {"cr", "celsius"},
         wire' = wire \o t, bpc' # "setup", bpc = "setup" \/ t[1][1] = "celsius"
  PROVE  LineInv'
<1>1. Stream \in Seq(Byte) /\ inbuf \in Seq(Byte) /\ wire \in Seq(Byte) /\ Sound(Stream)
  BY StreamType DEF LineInv
<1>2. Stream' = Stream \o t
  BY <1>1, ConcatAssociative DEF Stream
<1>3. /\ Sound(Stream') /\ Stream' # <<>>
      /\ Stream'[1] = IF Stream = <<>> THEN t[1] ELSE Stream[1]
  BY <1>1, <1>2, SoundMore
<1>4. holds' = holds
  BY DEF holds
<1>5. ASSUME NEW r \in Reader PROVE ReaderRight(r)'
  <2>1. ReaderRight(r)
    BY DEF LineInv
  <2>2. Printing(out[r], Stream) => Printing(out[r], Stream')
    BY <1>3 DEF Printing
  <2>3. bpc # "setup" /\ FromTheStart(out[r], Stream) => FromTheStart(out[r], Stream')
    BY <1>3 DEF FromTheStart
  <2> QED
    BY <2>1, <2>2, <2>3 DEF ReaderRight, Told
<1> QED
  BY <1>3, <1>4, <1>5 DEF LineInv

LEMMA BoardLine == LineInv /\ TypeOK' /\ Board => LineInv'
<1> SUFFICES ASSUME LineInv, TypeOK', Board PROVE LineInv'
  OBVIOUS
<1>1. CASE Setup
  <2>1. Greeting \in Seq(Byte) /\ Greeting # <<>> /\ Sound(Greeting) /\ Greeting[1][1] = "cr"
    BY BytesSent, SoundSent
  <2>2. bpc = "setup" /\ bpc' = "loop" /\ UNCHANGED <<inbuf, rpc, out, quiet>> /\ wire' = wire \o Greeting
        /\ plugged /\ plugged'
    BY <1>1 DEF Setup, BoardStep, readers, fixed
  <2> QED
    BY <2>1, <2>2, MoreSent
<1>2. CASE LostInSetup
  BY <1>2, NothingSent DEF LostInSetup, BoardStep, readers, fixed
<1>3. CASE NoEvent \/ SerialEvent
  BY <1>3, NothingSent DEF NoEvent, SerialEvent, BoardStep, readers, fixed
<1>4. CASE Loop
  <2>1. bpc' # "setup" /\ UNCHANGED <<inbuf, rpc, out, quiet, plugged>> /\ plugged
    BY <1>4 DEF Loop, BoardStep, readers, fixed
  <2>2. CASE wire' = wire
    BY <2>1, <2>2, NothingSent
  <2>3. CASE \E v \in Analog : wire' = wire \o Answer(v)
    <3>1. PICK v \in Analog : wire' = wire \o Answer(v)
      BY <2>3
    <3>2. /\ Answer(v) \in Seq(Byte) /\ Answer(v) # <<>> /\ Sound(Answer(v))
          /\ Answer(v)[1][1] = "celsius"
      BY BytesSent, SoundSent
    <3> QED
      BY <2>1, <3>1, <3>2, MoreSent
  <2> QED
    BY <1>4, <2>2, <2>3 DEF Loop, Unread, Reading
<1> QED
  BY <1>1, <1>2, <1>3, <1>4 DEF Board

LEMMA DeliverLine == LineInv /\ TypeOK' /\ Deliver => LineInv'
<1> SUFFICES ASSUME LineInv, TypeOK', Deliver PROVE LineInv'
  OBVIOUS
<1>1. Stream \in Seq(Byte) /\ inbuf \in Seq(Byte) /\ wire \in Seq(Byte) /\ Sound(Stream) /\ wire # <<>>
  BY StreamType DEF LineInv, Deliver
<1> DEFINE k == Len(inbuf) + 1
<1>2. PICK e : /\ e = Head(wire) \/ (e = <<"newline", 0>> /\ Head(wire)[1] = "cr")
               /\ inbuf' = Append(inbuf, e)
  BY DEF Deliver
<1>3. e \in Byte
  <2>1. Head(wire) \in Byte
    BY <1>1, HeadTailProperties
  <2>2. <<"newline", 0>> \in Byte
    BY DEF Byte
  <2> QED
    BY <1>2, <2>1, <2>2, Zenon
<1>4. k \in 1 .. Len(Stream) /\ Stream[k] = Head(wire) /\ Stream' = [Stream EXCEPT ![k] = e]
  <2>1. /\ Len(inbuf) + 1 \in 1 .. Len(inbuf \o wire) /\ (inbuf \o wire)[Len(inbuf) + 1] = Head(wire)
        /\ Append(inbuf, e) \o Tail(wire) = [(inbuf \o wire) EXCEPT ![Len(inbuf) + 1] = e]
    BY <1>1, <1>3, OneDelivered
  <2>2. inbuf' = Append(inbuf, e) /\ wire' = Tail(wire)
    BY <1>2 DEF Deliver
  <2> QED
    BY <2>1, <2>2 DEF Stream
<1>5. /\ UNCHANGED <<rpc, out, quiet, bpc, plugged>> /\ holds # {} /\ holds' = holds /\ plugged
  BY <1>1 DEF Deliver, board, readers, holds, fixed, LineInv
<1>6. CASE e = Head(wire)
  <2>1. Stream' = Stream
    BY <1>1, <1>4, <1>6
  <2> QED
    BY <1>5, <2>1 DEF LineInv, ReaderRight, Told
<1>7. CASE e = <<"newline", 0>> /\ Stream[k][1] = "cr"
  <2>1. Stream' \in Seq(Byte) /\ Sound(Stream') /\ Len(Stream') = Len(Stream)
    BY <1>1, <1>4, <1>7, SoundTurned
  <2>2. Stream # <<>> /\ Stream' # <<>>
    BY <1>1, <1>4, <2>1
  <2>3. Stream'[1] = IF k = 1 THEN <<"newline", 0>> ELSE Stream[1]
    BY <1>1, <1>4, <1>7
  <2>4. k = 1 => Stream[1][1] = "cr"
    BY <1>7
  <2> HIDE DEF k
  <2>5. ASSUME NEW r \in Reader PROVE ReaderRight(r)'
    <3>1. ReaderRight(r)
      BY DEF LineInv
    <3>2. Printing(out[r], Stream) => Printing(out[r], Stream')
      BY <2>2, <2>3, <2>4 DEF Printing
    <3>3. FromTheStart(out[r], Stream) => FromTheStart(out[r], Stream')
      BY <2>2, <2>3, <2>4 DEF FromTheStart
    <3> QED
      BY <1>5, <3>1, <3>2, <3>3 DEF ReaderRight, Told
  <2> QED
    BY <1>5, <2>1, <2>5 DEF LineInv
<1> QED
  BY <1>2, <1>4, <1>6, <1>7

(* A step of the one reader that has the device open, or opens it.         *)
LEMMA ReaderKept ==
  ASSUME LineInv, TypeOK', NEW r \in Reader, holds \subseteq {r}, plugged, plugged', NEW to, to # "spin",
         rpc' = [rpc EXCEPT ![r] = to],
         \A q \in Reader : q # r => out'[q] = out[q] /\ (quiet'[q] => quiet[q]),
         Sound(Stream'), to \notin {"again", "flush", "send", "read"} => inbuf' = <<>>,
         ReaderRight(r)'
  PROVE  LineInv'
<1>1. rpc'[r] = to /\ \A q \in Reader : q # r => rpc'[q] = rpc[q]
  BY DEF LineInv, TypeOK
<1>2. holds' \subseteq {r} /\ (to \in {"again", "flush", "send", "read"} => r \in holds')
  BY <1>1 DEF holds
<1>3. ASSUME NEW q \in Reader, q # r PROVE ReaderRight(q)'
  <2>1. rpc'[q] # "read"
    BY <1>1, <1>3 DEF holds
  <2>2. ReaderRight(q) /\ rpc'[q] = rpc[q] /\ out'[q] = out[q] /\ (quiet'[q] => quiet[q])
    BY <1>1, <1>3 DEF LineInv
  <2> QED
    BY <2>1, <2>2 DEF ReaderRight, Told
<1>4. holds' = {} => inbuf' = <<>>
  BY <1>2
<1>5. \A q \in Reader : ReaderRight(q)'
  BY <1>3
<1>6. \A q \in Reader : rpc'[q] # "spin"
  BY <1>1 DEF LineInv
<1> QED
  BY <1>2, <1>4, <1>5, <1>6 DEF LineInv

(* Nothing is left on the line, and a reader that cannot read spins.       *)
LEMMA LineGone ==
  ASSUME LineInv, TypeOK', ~plugged', wire' = <<>>, inbuf' = <<>>, UNCHANGED <<out, quiet>>,
         \A q \in Reader :
           rpc'[q] \in {"spin", "killed"} \/ (rpc'[q] = rpc[q] /\ rpc[q] \notin {"flush", "send", "read"})
  PROVE  LineInv'
<1>1. Stream' = <<>>
  <2>1. <<>> \o <<>> = <<>>
    BY EmptySeq, ConcatEmptySeq
  <2> QED
    BY <2>1 DEF Stream
<1>2. Sound(Stream')
  BY <1>1 DEF Sound
<1>3. holds' \subseteq holds
  BY DEF holds
<1>4. ASSUME NEW q \in Reader PROVE ReaderRight(q)'
  <2>1. ReaderRight(q)
    BY DEF LineInv
  <2>2. CASE rpc'[q] \in {"spin", "killed"}
    BY <2>2 DEF ReaderRight
  <2>3. CASE rpc'[q] = rpc[q] /\ rpc[q] \notin {"flush", "send", "read"}
    BY <2>1, <2>3 DEF ReaderRight, Told
  <2> QED
    BY <2>2, <2>3
<1>5. \A q \in Reader : rpc'[q] \notin {"flush", "send", "read"}
  OBVIOUS
<1> QED
  BY <1>2, <1>3, <1>4, <1>5 DEF LineInv

LEMMA UnplugLine == LineInv /\ TypeOK' /\ Unplug => LineInv'
<1> SUFFICES ASSUME LineInv, TypeOK', Unplug PROVE LineInv'
  OBVIOUS
<1>1. \A q \in Reader :
        rpc'[q] \in {"spin", "killed"} \/ (rpc'[q] = rpc[q] /\ rpc[q] \notin {"flush", "send", "read"})
  <2> SUFFICES ASSUME NEW q \in Reader
               PROVE  rpc'[q] \in {"spin", "killed"}
                        \/ (rpc'[q] = rpc[q] /\ rpc[q] \notin {"flush", "send", "read"})
    OBVIOUS
  <2>1. rpc'[q] = IF rpc[q] \in {"flush", "send", "read"} THEN "spin" ELSE rpc[q]
    BY DEF Unplug
  <2> QED
    BY <2>1
<1>2. ~plugged' /\ wire' = <<>> /\ inbuf' = <<>> /\ UNCHANGED <<out, quiet>>
  BY DEF Unplug
<1> QED
  BY <1>1, <1>2, LineGone

(* What a reader has printed when it takes in the next byte.               *)
LEMMA PrintNext ==
  ASSUME NEW p, NEW s \in Seq(Byte), s # <<>>, Sound(s), Printing(p, s),
         s[1][1] \in {"cr", "celsius", "fahrenheit"},
         NEW t, Len(s) > 1 => t # <<>> /\ t[1] = s[2]
  PROVE  /\ Printing(Append(p, s[1]), t)
         /\ FromTheStart(p, s) => FromTheStart(Append(p, s[1]), t)
<1>1. Len(s) \in Nat \ {0} /\ DOMAIN s = 1 .. Len(s) /\ 1 \in DOMAIN s
  BY EmptySeq, LenProperties
<1>2. Len(s) > 1 /\ t # <<>> /\ t[1] = s[2] /\ Follows(s[1], s[2]) /\ Genuine(s[1])
  <2>1. Len(s) # 1
    BY <1>1 DEF Sound
  <2>2. Len(s) > 1 /\ 1 + 1 \in DOMAIN s
    BY <1>1, <2>1
  <2>3. Follows(s[1], s[1 + 1]) /\ Genuine(s[1])
    BY <1>1, <2>2 DEF Sound
  <2>4. 1 + 1 = 2
    OBVIOUS
  <2> QED
    BY <2>2, <2>3, <2>4
<1>3. ASSUME NEW b PROVE Append(<<>>, b) = <<b>>
  OBVIOUS
<1>4. ASSUME NEW a, NEW b PROVE Append(<<a>>, b) = <<a, b>>
  <2>1. Append(<<a>>, b) \in Seq({a, b}) /\ <<a, b>> \in Seq({a, b})
    OBVIOUS
  <2>2. Len(Append(<<a>>, b)) = 2 /\ Len(<<a, b>>) = 2
    OBVIOUS
  <2>3. \A i \in 1 .. 2 : Append(<<a>>, b)[i] = <<a, b>>[i]
    OBVIOUS
  <2> QED
    BY <2>1, <2>2, <2>3, SeqEqual
<1>5. CASE p = <<>>
  <2>1. Append(p, s[1]) = <<s[1]>> /\ <<s[1]>> # <<>> /\ <<s[1]>>[1] = s[1]
    BY <1>3, <1>5
  <2>2. CASE s[1][1] = "cr"
    <3>1. s[1] = <<"cr", 0>> /\ t[1] = <<"newline", 0>>
      BY <1>2, <2>2 DEF Genuine, Follows
    <3> QED
      BY <1>2, <1>5, <2>1, <2>2, <3>1 DEF Printing, FromTheStart
  <2>3. CASE s[1][1] = "celsius"
    <3>1. PICK v \in Analog : s[1] = <<"celsius", v>>
      BY <1>2, <2>3 DEF Genuine
    <3>2. t[1] = <<"fahrenheit", v>>
      BY <1>2, <3>1 DEF Follows
    <3> QED
      BY <1>2, <2>1, <3>1, <3>2 DEF Printing, FromTheStart
  <2>4. CASE s[1][1] = "fahrenheit"
    <3>1. PICK v \in Analog : s[1] = <<"fahrenheit", v>>
      BY <1>2, <2>4 DEF Genuine
    <3>2. t[1] = <<"semi", 0>>
      BY <1>2, <3>1 DEF Follows
    <3> QED
      BY <1>2, <1>5, <2>1, <2>4, <3>1, <3>2 DEF Printing, FromTheStart
  <2> QED
    BY <2>2, <2>3, <2>4
<1>6. CASE p # <<>>
  <2>1. PICK v \in Analog : p = <<<<"celsius", v>>>> /\ s[1] = <<"fahrenheit", v>>
    BY <1>6 DEF Printing
  <2>2. Append(p, s[1]) = <<<<"celsius", v>>, <<"fahrenheit", v>>>>
    BY <1>4, <2>1
  <2>3. t[1] = <<"semi", 0>>
    BY <1>2, <2>1 DEF Follows
  <2> QED
    BY <1>2, <2>2, <2>3 DEF Printing, FromTheStart
<1> QED
  BY <1>5, <1>6

(* What it has printed when the delimiter comes.                           *)
LEMMA PrintedAll ==
  ASSUME NEW p, NEW s \in Seq(Byte), s # <<>>, Sound(s), Printing(p, s), s[1][1] = "semi"
  PROVE  \E v \in Analog, i \in 1 .. 3 :
           p = SubSeq(Answer(v), i, 2) /\ (FromTheStart(p, s) => i = 1)
<1>1. Genuine(s[1])
  BY EmptySeq, LenProperties DEF Sound
<1>2. Analog # {}
  BY <1>1 DEF Genuine
<1>3. ASSUME NEW v \in Analog
      PROVE  /\ SubSeq(Answer(v), 1, 2) = <<<<"celsius", v>>, <<"fahrenheit", v>>>>
             /\ SubSeq(Answer(v), 2, 2) = <<<<"fahrenheit", v>>>>
             /\ SubSeq(Answer(v), 3, 2) = <<>>
  <2> DEFINE c == <<"celsius", v>>
             f == <<"fahrenheit", v>>
  <2>1. /\ Answer(v) \in Seq(Byte) /\ Len(Answer(v)) = 3
        /\ Answer(v)[1] = c /\ Answer(v)[2] = f /\ c \in Byte /\ f \in Byte
    BY BytesSent DEF Answer, Byte, Text
  <2> HIDE DEF c, f
  <2>2. /\ SubSeq(Answer(v), 1, 2) \in Seq(Byte) /\ Len(SubSeq(Answer(v), 1, 2)) = 2
        /\ \A i \in 1 .. 2 : SubSeq(Answer(v), 1, 2)[i] = <<c, f>>[i]
        /\ SubSeq(Answer(v), 2, 2) \in Seq(Byte) /\ Len(SubSeq(Answer(v), 2, 2)) = 1
        /\ \A i \in 1 .. 1 : SubSeq(Answer(v), 2, 2)[i] = <<f>>[i]
    BY <2>1
  <2>3. <<c, f>> \in Seq(Byte) /\ Len(<<c, f>>) = 2 /\ <<f>> \in Seq(Byte) /\ Len(<<f>>) = 1
    BY <2>1
  <2>4. SubSeq(Answer(v), 1, 2) = <<c, f>> /\ SubSeq(Answer(v), 2, 2) = <<f>>
    BY <2>2, <2>3, SeqEqual
  <2>5. SubSeq(Answer(v), 3, 2) = <<>>
    BY SubSeqEmpty
  <2> QED
    BY <2>4, <2>5 DEF c, f
<1>4. CASE p = <<>>
  <2>1. PICK v \in Analog : TRUE
    BY <1>2
  <2>2. p = SubSeq(Answer(v), 3, 2) /\ ~FromTheStart(p, s)
    BY <1>3, <1>4 DEF FromTheStart
  <2> QED
    BY <2>2
<1>5. CASE p # <<>>
  <2>1. PICK v \in Analog : p \in {<<<<"fahrenheit", v>>>>, <<<<"celsius", v>>, <<"fahrenheit", v>>>>}
    BY <1>5 DEF Printing
  <2>2. CASE p = <<<<"fahrenheit", v>>>>
    <3>1. p = SubSeq(Answer(v), 2, 2) /\ ~FromTheStart(p, s)
      BY <1>3, <1>5, <2>2 DEF FromTheStart
    <3> QED
      BY <3>1
  <2>3. CASE p = <<<<"celsius", v>>, <<"fahrenheit", v>>>>
    <3>1. p = SubSeq(Answer(v), 1, 2)
      BY <1>3, <2>3
    <3> QED
      BY <3>1
  <2> QED
    BY <2>1, <2>2, <2>3
<1> QED
  BY <1>4, <1>5

LEMMA ReaderLine ==
  ASSUME LineInv, TypeOK', NEW r \in Reader, Runs(r) \/ Killed(r)
  PROVE  LineInv'
<1>1. /\ Stream \in Seq(Byte) /\ inbuf \in Seq(Byte) /\ wire \in Seq(Byte) /\ Sound(Stream)
      /\ TypeOK /\ ReaderRight(r) /\ Len(Stream) \in Nat
  BY StreamType, LenProperties DEF LineInv
<1>2. r \in holds => holds \subseteq {r}
  BY DEF LineInv
<1>3. \A to : rpc' = [rpc EXCEPT ![r] = to] => rpc'[r] = to
  BY <1>1 DEF TypeOK
<1> DEFINE Still == plugged /\ plugged'
<1>13. rpc[r] \in {"flush", "send", "read"} /\ UNCHANGED fixed => Still
  BY DEF LineInv, fixed
(* Everything that is in the host's buffer is dropped.                     *)
<1>4. ASSUME inbuf' = <<>>, wire' = wire PROVE Sound(Stream')
  <2>1. Stream' = SubSeq(Stream, Len(inbuf) + 1, Len(Stream)) /\ Len(inbuf) + 1 \in 1 .. Len(Stream) + 1
    BY <1>1, <1>4, AllDropped DEF Stream
  <2> QED
    BY <1>1, <2>1, SoundFrom
(* Its first byte is read.                                                 *)
<1>5. ASSUME inbuf # <<>>, inbuf' = Tail(inbuf), wire' = wire
      PROVE  /\ Stream # <<>> /\ Stream[1] = Head(inbuf) /\ Sound(Stream')
             /\ Len(Stream) > 1 => Stream' # <<>> /\ Stream'[1] = Stream[2]
  <2>1. /\ Stream # <<>> /\ Stream[1] = Head(inbuf) /\ Len(Stream) \in Nat \ {0}
        /\ Stream' = SubSeq(Stream, 2, Len(Stream)) /\ Len(Stream') = Len(Stream) - 1
        /\ Len(Stream) > 1 => Stream'[1] = Stream[2]
    BY <1>1, <1>5, FirstRead DEF Stream
  <2>2. 2 \in 1 .. Len(Stream) + 1
    BY <2>1
  <2>3. Stream' \in Seq(Byte) /\ Sound(Stream')
    BY <1>1, <2>1, <2>2, SoundFrom
  <2>4. Len(Stream) > 1 => Stream' # <<>>
    <3>1. Len(Stream) > 1 => Len(Stream') # 0
      BY <2>1
    <3>2. Len(<<>>) = 0
      OBVIOUS
    <3> QED
      BY <3>1, <3>2
  <2> QED
    BY <2>1, <2>3, <2>4
<1>6. CASE Open(r)
  <2>1. /\ rpc' = [rpc EXCEPT ![r] = "flush"] /\ rpc[r] \in {"idle", "again"} /\ holds \subseteq {r}
        /\ UNCHANGED <<inbuf, out>> /\ \A q \in Reader : ~quiet'[q]
        /\ Still
    BY <1>6 DEF Open, At, fixed
  <2>2. Sound(Stream')
    <3>1. CASE wire' = wire
      BY <1>1, <2>1, <3>1 DEF Stream
    <3>2. CASE holds = {} /\ \E i \in 1 .. Len(wire) + 1 : wire' = SubSeq(wire, i, Len(wire))
      <4>1. inbuf = <<>> /\ Stream = wire
        BY <1>1, <3>2, ConcatEmptySeq DEF LineInv, Stream
      <4>2. PICK i \in 1 .. Len(wire) + 1 : wire' = SubSeq(wire, i, Len(wire))
        BY <3>2
      <4>3. wire' \in Seq(Byte) /\ Sound(wire')
        BY <1>1, <4>1, <4>2, SoundFrom
      <4>4. Stream' = wire'
        BY <2>1, <4>1, <4>3, ConcatEmptySeq DEF Stream
      <4> QED
        BY <4>3, <4>4
    <3> QED
      BY <1>6, <3>1, <3>2 DEF Open
  <2>3. ReaderRight(r)'
    BY <1>1, <1>3, <2>1 DEF ReaderRight
  <2> QED
    BY <2>1, <2>2, <2>3, ReaderKept
<1>7. CASE Flush(r)
  <2>1. /\ rpc' = [rpc EXCEPT ![r] = "send"] /\ rpc[r] = "flush" /\ inbuf' = <<>>
        /\ UNCHANGED <<wire, out, quiet>>
        /\ UNCHANGED fixed
    BY <1>7 DEF Flush, At
  <2>2. ReaderRight(r)' /\ r \in holds
    BY <1>1, <1>3, <2>1 DEF ReaderRight, holds
  <2>9. Still
    BY <1>13, <2>1
  <2> QED
    BY <1>2, <1>4, <2>1, <2>2, <2>9, ReaderKept
<1>8. CASE Send(r)
  <2>1. /\ rpc' = [rpc EXCEPT ![r] = "read"] /\ rpc[r] = "send" /\ UNCHANGED <<wire, inbuf, out, bpc>>
        /\ quiet' = [quiet EXCEPT ![r] = AtRest(r)]
        /\ UNCHANGED fixed
    BY <1>8 DEF Send, At, board
  <2>2. /\ Stream' = Stream /\ r \in holds /\ out'[r] = <<>> /\ rpc'[r] = "read"
        /\ \A q \in Reader : q # r => quiet'[q] = quiet[q]
    BY <1>1, <1>3, <2>1 DEF ReaderRight, holds, Stream, TypeOK
  <2>3. quiet'[r] => bpc' # "setup" /\ Stream = <<>>
    <3>1. quiet'[r] <=> AtRest(r)
      BY <1>1, <2>1 DEF TypeOK
    <3>2. AtRest(r) => bpc # "setup" /\ Stream = <<>>
      BY <1>1, ConcatEmptySeq DEF AtRest, Stream
    <3> QED
      BY <2>1, <3>1, <3>2
  <2>4. ReaderRight(r)'
    BY <2>2, <2>3 DEF ReaderRight, Printing, FromTheStart
  <2>9. Still
    BY <1>13, <2>1
  <2> QED
    BY <1>1, <1>2, <2>1, <2>2, <2>4, <2>9, ReaderKept
<1>9. CASE Newline(r)
  <2>1. /\ rpc' = [rpc EXCEPT ![r] = "again"] /\ rpc[r] = "read" /\ inbuf # <<>> /\ inbuf' = Tail(inbuf)
        /\ UNCHANGED <<wire, quiet>> /\ out' = [out EXCEPT ![r] = <<>>]
        /\ UNCHANGED fixed
    BY <1>9 DEF Newline, ReadByte, At
  <2>2. /\ out'[r] = <<>> /\ \A q \in Reader : q # r => out'[q] = out[q]
    BY <1>1, <2>1 DEF TypeOK
  <2>3. ReaderRight(r)' /\ r \in holds
    BY <1>3, <2>1, <2>2 DEF ReaderRight, holds
  <2>9. Still
    BY <1>13, <2>1
  <2> QED
    BY <1>2, <1>5, <2>1, <2>2, <2>3, <2>9, ReaderKept
<1>10. CASE PrintByte(r)
  <2>1. /\ rpc' = [rpc EXCEPT ![r] = "read"] /\ rpc[r] = "read" /\ inbuf # <<>> /\ inbuf' = Tail(inbuf)
        /\ UNCHANGED <<wire, quiet, bpc>> /\ out' = [out EXCEPT ![r] = Append(@, Head(inbuf))]
        /\ Head(inbuf)[1] \in {"cr", "celsius", "fahrenheit"}
        /\ UNCHANGED fixed
    BY <1>10 DEF PrintByte, ReadByte, At, board
  <2>2. /\ out'[r] = Append(out[r], Stream[1]) /\ \A q \in Reader : q # r => out'[q] = out[q]
    BY <1>1, <1>5, <2>1 DEF TypeOK
  <2>3. /\ Printing(out'[r], Stream')
        /\ FromTheStart(out[r], Stream) => FromTheStart(out'[r], Stream')
    <3>1. /\ Stream # <<>> /\ Stream[1][1] \in {"cr", "celsius", "fahrenheit"}
          /\ Len(Stream) > 1 => Stream' # <<>> /\ Stream'[1] = Stream[2]
          /\ Printing(out[r], Stream)
      BY <1>1, <1>5, <2>1 DEF ReaderRight
    <3>2. /\ Printing(Append(out[r], Stream[1]), Stream')
          /\ FromTheStart(out[r], Stream) => FromTheStart(Append(out[r], Stream[1]), Stream')
      BY <1>1, <3>1, PrintNext
    <3> QED
      BY <2>2, <3>2
  <2>4. ReaderRight(r)' /\ r \in holds
    BY <1>1, <1>3, <2>1, <2>3 DEF ReaderRight, holds
  <2>9. Still
    BY <1>13, <2>1
  <2> QED
    BY <1>2, <1>5, <2>1, <2>2, <2>4, <2>9, ReaderKept
<1>11. CASE Delimiter(r)
  <2>1. /\ rpc' = [rpc EXCEPT ![r] = "done"] /\ rpc[r] = "read" /\ inbuf # <<>> /\ inbuf' = <<>>
        /\ UNCHANGED <<wire, out, quiet>> /\ Head(inbuf)[1] = "semi"
        /\ UNCHANGED fixed
    BY <1>11 DEF Delimiter, ReadByte, At
  <2>2. Stream # <<>> /\ Stream[1] = Head(inbuf)
    BY <1>1, <2>1, FirstRead DEF Stream
  <2>3. \E v \in Analog, i \in 1 .. 3 :
          out[r] = SubSeq(Answer(v), i, 2) /\ (FromTheStart(out[r], Stream) => i = 1)
    BY <1>1, <2>1, <2>2, PrintedAll DEF ReaderRight
  <2>4. quiet[r] => FromTheStart(out[r], Stream)
    BY <1>1, <2>1 DEF ReaderRight
  <2>5. Told(r)'
    BY <2>1, <2>3, <2>4 DEF Told
  <2>6. ReaderRight(r)' /\ r \in holds
    BY <1>3, <2>1, <2>5 DEF ReaderRight, holds
  <2>9. Still
    BY <1>13, <2>1
  <2> QED
    BY <1>2, <1>4, <2>1, <2>6, <2>9, ReaderKept
<1>12. CASE Killed(r)
  <2>1. CASE rpc[r] = "read"
    <3>1. /\ rpc' = [rpc EXCEPT ![r] = "killed"] /\ rpc[r] = "read" /\ inbuf' = <<>>
          /\ UNCHANGED <<wire, out, quiet>> /\ UNCHANGED fixed
      BY <1>12, <2>1 DEF Killed, At
    <3>2. ReaderRight(r)' /\ r \in holds
      BY <1>3, <3>1 DEF ReaderRight, holds
    <3>3. Still
      BY <1>13, <3>1
    <3> QED
      BY <1>2, <1>4, <3>1, <3>2, <3>3, ReaderKept
  <2>2. CASE rpc[r] = "spin"
    <3>1. ~plugged' /\ wire' = <<>> /\ inbuf' = <<>> /\ UNCHANGED <<out, quiet>>
      BY <1>12, <2>2 DEF Killed, At, LineInv, fixed
    <3>2. ASSUME NEW q \in Reader
          PROVE  rpc'[q] \in {"spin", "killed"} \/ (rpc'[q] = rpc[q] /\ rpc[q] \notin {"flush", "send", "read"})
      BY <1>1, <1>12, <2>2 DEF Killed, At, LineInv, TypeOK
    <3> QED
      BY <3>1, <3>2, LineGone
  <2> QED
    BY <1>12, <2>1, <2>2 DEF Killed, At
<1>14. CASE OpenFails(r)
  <2>1. ~plugged' /\ wire' = <<>> /\ inbuf' = <<>> /\ UNCHANGED <<out, quiet>>
    BY <1>14 DEF OpenFails, At, LineInv, fixed, line
  <2>2. ASSUME NEW q \in Reader
        PROVE  rpc'[q] \in {"spin", "killed"} \/ (rpc'[q] = rpc[q] /\ rpc[q] \notin {"flush", "send", "read"})
    BY <1>1, <1>14 DEF OpenFails, At, LineInv, TypeOK
  <2> QED
    BY <2>1, <2>2, LineGone
<1> QED
  BY <1>6, <1>7, <1>8, <1>9, <1>10, <1>11, <1>12, <1>14 DEF Runs

(* arduinoGetTemp.c:87-105: however many requests there are and whatever   *)
(* an earlier start or request left on the line, a reader prints one       *)
(* reading, the end of one, or nothing; all of it if it found all at rest. *)
THEOREM ReadingAlwaysOne == Spec => []OneReading
<1>1. Init => LineInv
  <2> SUFFICES ASSUME Init PROVE LineInv
    OBVIOUS
  <2>1. TypeOK
    BY InitTypes
  <2>2. Stream = <<>> /\ holds = {}
    <3>1. <<>> \o <<>> = <<>>
      BY EmptySeq, ConcatEmptySeq
    <3> QED
      BY <3>1 DEF Init, Stream, holds
  <2>3. Sound(<<>>)
    BY DEF Sound
  <2>4. \A r \in Reader : ReaderRight(r)
    BY DEF Init, ReaderRight
  <2> QED
    BY <2>1, <2>2, <2>3, <2>4 DEF Init, LineInv
<1>2. LineInv /\ [Next]_vars => LineInv'
  <2> SUFFICES ASSUME LineInv, [Next]_vars PROVE LineInv'
    OBVIOUS
  <2>1. TypeOK'
    BY TypeStep DEF LineInv
  <2>2. CASE UNCHANGED vars
    <3>1. UNCHANGED <<wire, inbuf, rpc, out, quiet, bpc, plugged>>
      BY <2>2 DEF vars, board, line, readers, fixed
    <3> QED
      BY <2>1, <3>1, NothingSent
  <2> QED
    BY <2>1, <2>2, BoardLine, DeliverLine, UnplugLine, ReaderLine DEF Next
<1>3. LineInv => OneReading
  BY DEF LineInv, ReaderRight, Told, OneReading
<1> QED
  BY <1>1, <1>2, <1>3, PTL DEF Spec
=============================================================================
