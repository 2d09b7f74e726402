------------------------------- MODULE Beast -------------------------------
(***************************************************************************)
(* The frames of the current VITURE generation (viture/beast.go), and one  *)
(* exchange of a client with a headset over HID reports: it sends a report *)
(* that this module builds, or waits, and reads the frame that comes back. *)
(*                                                                         *)
(* External is the headset, as beast.go and its tests describe it. It      *)
(* answers a write with a status and a read with a value, which it repeats *)
(* big-endian; it announces changes by itself; some answers are text. Its  *)
(* length field counts more than is there when it likes.                   *)
(***************************************************************************)
EXTENDS Viture

CONSTANTS
    Calls,      \* what the client may do: [do, mode]
    Supported,  \* the display modes that the headset's panel has
    Texts,      \* the texts it answers with
    Foreign     \* reports of other protocols that arrive on the interface

EventHeader == \h10
ReportSize  == 64

DirWrite == \h01
DirRead  == \h31
ReplyBit == \h20

StatusOK      == 0
StatusRefused == 4

KindReply  == \h50
KindNotify == \h71

MsgDisplayMode       == \h24
MsgNativeDisplayMode == \h42

\* binary.LittleEndian.Uint16 of the two bytes from offset i.
Uint16(b, i) == b[i + 1] + 256 * b[i + 2]

\* A report of n bytes: b, and nothing after it.
Padded(b, n, with) == [i \in 1..n |-> IF i <= Len(b) THEN b[i] ELSE with]

\* Bug: the value is repeated big-endian, as the headset's answers repeat it.
command_Mirrored(msg, length, value) ==
    LET dir == IF length = 3 /\ value = 0 THEN DirRead ELSE DirWrite
    IN  Padded(<<EventHeader, 0, msg, dir, length, 0>> \o LittleEndian(value)
               \o <<value \div 256, value % 256>>, ReportSize, 0)

\* The direction is worked out from the length and the value.
command(msg, length, value) ==
    LET dir == IF length = 3 /\ value = 0 THEN DirRead ELSE DirWrite
    IN  Padded(<<EventHeader, 0, msg, dir, length, 0>> \o LittleEndian(value)
               \o LittleEndian(value), ReportSize, 0)

SetDisplayMode(mode)  == command(MsgDisplayMode, 2, mode)
ReadDisplayMode       == command(MsgDisplayMode, 3, 0)
ReadNativeDisplayMode == command(MsgNativeDisplayMode, 3, 0)

\* What follows the header and the status byte, as far as the length field and
\* the report reach, without the padding at its end.
header == 9
TextEnd(b) ==
    LET end == header + Uint16(b, 4) - 1 IN IF end > Len(b) THEN Len(b) ELSE end
Trimmed(t) ==
    LET text == {i \in 1..Len(t) : t[i] \notin {0, 255}}
    IN  IF text = {} THEN <<>>
        ELSE SubSeq(t, 1, CHOOSE i \in text : \A j \in text : j <= i)
textOf(b) == IF TextEnd(b) <= header THEN <<>> ELSE Trimmed(SubSeq(b, header + 1, TextEnd(b)))

\* ParseEvent: a report is a frame of this generation, and what it says.
IsEvent(b) == Len(b) >= 8 /\ b[1] = EventHeader /\ b[6] = 0
ParseEvent(b) ==
    [Counter |-> b[2], ID |-> b[3], Kind |-> b[4], Value |-> Uint16(b, 6), Text |-> textOf(b)]

Values == 0..65535

\* Modes have sixteen bits, a text does not end like padding, and what is of another
\* protocol can be told from its first bytes.
ASSUME ExchangeAssumption ==
    /\ Supported \subseteq Values
    /\ \A a \in Calls : a.do \in {"listen", "set", "read", "readNative"} /\ a.mode \in Values
    /\ \A t \in Texts : t \in Seq(0..255) /\ (t # <<>> => t[Len(t)] \notin {0, 255})
    /\ \A f \in Foreign : ~IsEvent(f)

-----------------------------------------------------------------------------
VARIABLES
    panel,   \* the headset's display mode
    call,    \* what the client did
    query,   \* the report it sent
    frame,   \* the report that comes back
    told,    \* what the headset said with it: a record, or <<>> for a foreign one
    event,   \* what the client made of it: an Event, or <<>> when it is refused
    turn     \* whose turn it is

bvars == <<panel, call, query, frame, told, event, turn>>

BInit ==
    /\ panel \in Supported
    /\ call \in Calls
    /\ query = <<>> /\ frame = <<>> /\ told = <<>> /\ event = <<>>
    /\ turn = "client"

\* The client sends the report for its call, or just listens.
Ask ==
    /\ turn = "client"
    /\ query' = CASE call.do = "set" -> SetDisplayMode(call.mode)
                   [] call.do = "read" -> ReadDisplayMode
                   [] call.do = "readNative" -> ReadNativeDisplayMode
                   [] OTHER -> <<>>
    /\ turn' = "headset"
    /\ UNCHANGED <<panel, call, frame, told, event>>

\* The headset says value, or text, in a frame of n bytes.
Says(kind, msg, length, body, about, n) ==
    /\ frame' = Padded(<<EventHeader, 5, msg, kind, length, 0>> \o body, n, 0)
    /\ told' = [Counter |-> 5, ID |-> msg, Kind |-> kind, about |-> about]
    /\ turn' = "reader"

\* It takes a mode its panel has, written twice alike, and says so; anything else
\* it refuses and stays as it is.
Obey ==
    /\ turn = "headset" /\ query # <<>> /\ query[4] = DirWrite
    /\ LET mode == Uint16(query, 6)
           ok   == mode \in Supported /\ Uint16(query, 8) = mode
       IN  /\ panel' = IF ok THEN mode ELSE panel
           /\ LET status == IF ok THEN StatusOK ELSE StatusRefused
              IN  Says(DirWrite + ReplyBit, query[3], 1, <<status, 0, status>>, [value |-> status], 9)
    /\ UNCHANGED <<call, query, event>>

\* A read changes nothing. The native mode is answered with the mode; the other
\* with a value in "some other encoding nobody here has explained".
Tell ==
    /\ turn = "headset" /\ query # <<>> /\ query[4] = DirRead
    /\ \E v \in IF query[3] = MsgNativeDisplayMode THEN {panel} ELSE {panel, \h36} :
          Says(DirRead + ReplyBit, query[3], 3,
               LittleEndian(v) \o <<v \div 256, v % 256>>, [value |-> v], 10)
    /\ UNCHANGED <<panel, call, query, event>>

\* To somebody else's question it answers with a text, behind a checksum and a
\* status byte, padded with either byte and with a length that may be too large.
Spell ==
    /\ turn = "headset" /\ query = <<>>
    /\ \E t \in Texts, pad \in {0, 255}, n \in {12, 16}, extra \in {0, 240} :
          /\ Len(t) + header <= n
          /\ frame' = Padded(<<EventHeader, 5, 3, KindReply, Len(t) + 1 + extra, 0, 14, 4, 0>> \o t, n, pad)
          /\ told' = [Counter |-> 5, ID |-> 3, Kind |-> KindReply, about |-> [text |-> t]]
    /\ turn' = "reader"
    /\ UNCHANGED <<panel, call, query, event>>

\* The wearer presses the button.
Announce ==
    /\ turn = "headset" /\ query = <<>>
    /\ panel' \in Supported
    /\ \E n \in {8, 9, 19} :
          Says(KindNotify, MsgNativeDisplayMode, 1,
               SubSeq(LittleEndian(panel') \o LittleEndian(panel'), 1, IF n = 8 THEN 2 ELSE 4), [value |-> panel'], n)
    /\ UNCHANGED <<call, query, event>>

\* A report of another shape.
Intrude ==
    /\ turn = "headset" /\ query = <<>>
    /\ frame' \in Foreign
    /\ turn' = "reader"
    /\ UNCHANGED <<panel, call, query, told, event>>

\* The client reads the frame.
Hear ==
    /\ turn = "reader"
    /\ event' = IF IsEvent(frame) THEN ParseEvent(frame) ELSE <<>>
    /\ turn' = "done"
    /\ UNCHANGED <<panel, call, query, frame, told>>

BNext == Ask \/ Obey \/ Tell \/ Spell \/ Announce \/ Intrude \/ Hear

BSpec == BInit /\ [][BNext]_bvars
-----------------------------------------------------------------------------
\* An event says what the headset meant: a number frame its value, a text frame
\* its text without padding and without anything beyond the report, whatever its
\* length field claims; a report of another protocol is no event ("treating it as
\* the latter would invent events"). And what the client asked for has happened
\* exactly when the headset says that it took it: the value went over the wire in
\* the shape the headset accepts, and a read wrote nothing.
ExchangeIsExact ==
    turn = "done" =>
        /\ (event = <<>>) = (told = <<>>)
        /\ event # <<>> =>
             /\ \A part \in {"Counter", "ID", "Kind"} : event[part] = told[part]
             /\ "value" \in DOMAIN told.about => event.Value = told.about.value
             /\ "text" \in DOMAIN told.about => event.Text = told.about.text
        /\ call.do = "set" =>
             /\ event.Kind = DirWrite + ReplyBit
             /\ event.Value = (IF call.mode \in Supported THEN StatusOK ELSE StatusRefused)
             /\ event.Value = StatusOK => panel = call.mode
        /\ call.do \in {"read", "readNative"} => event.Kind = DirRead + ReplyBit
        /\ call.do = "readNative" => event.Value = panel
=============================================================================
