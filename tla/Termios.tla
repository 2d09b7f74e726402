------------------------------- MODULE Termios -------------------------------
(***************************************************************************)
(* The termios layer of package serial (termios.go): what Config.Termios   *)
(* asks of the kernel and what ConfigOf reads back.                        *)
(*                                                                         *)
(* A flag word is the set of its flags. CSIZE is a two-bit field: CS5 is   *)
(* neither bit, CS8 both. A word may hold flags this package has no name   *)
(* for; Flag is whatever a word can hold. Of the control characters VMIN   *)
(* and VTIME are kept apart, and the others are one value, chars.          *)
(***************************************************************************)
EXTENDS Integers

CONSTANTS Flag,   \* every flag of every word, named or not
          Chars   \* the control characters other than VMIN and VTIME

\* cfmakeraw, spelled out.
RawIflag == {"IGNBRK", "BRKINT", "PARMRK", "ISTRIP", "INLCR", "IGNCR", "ICRNL", "IXON"}
RawOflag == {"OPOST"}
RawLflag == {"ECHO", "ECHOE", "ECHOK", "ECHONL", "ICANON", "ISIG", "IEXTEN"}

CSIZE   == {"CS6", "CS7"}
CRTSCTS == {"CCTSOFLOW", "CRTSIFLOW"}

\* The control flags a Config decides.
Managed == {"CREAD", "CSTOPB", "PARENB", "PARODD", "CLOCAL", "HUPCL"} \cup CSIZE \cup CRTSCTS

ASSUME FlagAssumption == RawIflag \cup RawOflag \cup RawLflag \cup Managed \subseteq Flag

Byte == 0..255

TermiosRecord ==
    [iflag : SUBSET Flag, oflag : SUBSET Flag, cflag : SUBSET Flag, lflag : SUBSET Flag,
     vmin : Byte, vtime : Byte, chars : Chars, ispeed : Nat, ospeed : Nat]

Config ==
    [Baud : Int, DataBits : Int, StopBits : Int, Parity : Int,
     CLOCAL : BOOLEAN, HUPCL : BOOLEAN, RTSCTS : BOOLEAN,
     ReadMin : Byte, ReadTimeoutDecis : Byte]

ParityNone == 0
ParityOdd  == 1
ParityEven == 2

\* Bug: any rate.
Validate_AnyBaud(c) ==
    c.DataBits \in {0, 5, 6, 7, 8} /\ c.StopBits \in {0, 1, 2}

Validate(c) ==
    /\ c.Baud > 0
    /\ c.DataBits \in {0, 5, 6, 7, 8}
    /\ c.StopBits \in {0, 1, 2}
    /\ c.Parity \in {ParityNone, ParityOdd, ParityEven}

SizeFlags(bits) ==
    CASE bits = 5 -> {}
      [] bits = 6 -> {"CS6"}
      [] bits = 7 -> {"CS7"}
      [] OTHER    -> CSIZE

ParityFlags(p) ==
    CASE p = ParityOdd  -> {"PARENB", "PARODD"}
      [] p = ParityEven -> {"PARENB"}
      [] OTHER          -> {}

When(on, flags) == IF on THEN flags ELSE {}

ControlFlags(c) ==
    {"CREAD"} \cup SizeFlags(c.DataBits) \cup ParityFlags(c.Parity)
        \cup When(c.StopBits = 2, {"CSTOPB"})
        \cup When(c.CLOCAL, {"CLOCAL"})
        \cup When(c.HUPCL, {"HUPCL"})
        \cup When(c.RTSCTS, CRTSCTS)

\* Bug: the termios is built from zero.
FromConfig_Zero(c, cur) ==
    [cur EXCEPT !.iflag = {}, !.oflag = {}, !.lflag = {}, !.cflag = ControlFlags(c),
                !.vmin = c.ReadMin, !.vtime = c.ReadTimeoutDecis,
                !.ispeed = c.Baud, !.ospeed = c.Baud]

\* Config.Termios: the configuration applied to a copy of cur.
FromConfig(c, cur) ==
    [cur EXCEPT
        !.iflag = @ \ RawIflag,
        !.oflag = @ \ RawOflag,
        !.lflag = @ \ RawLflag,
        !.cflag = (@ \ Managed) \cup ControlFlags(c),
        !.vmin = c.ReadMin, !.vtime = c.ReadTimeoutDecis,
        !.ispeed = c.Baud, !.ospeed = c.Baud]

\* Either direction of hardware flow control reads back as RTSCTS; parity that
\* is odd but not enabled reads back as none.
ConfigOf(t) ==
    [Baud     |-> t.ospeed,
     DataBits |-> CASE t.cflag \cap CSIZE = {}      -> 5
                    [] t.cflag \cap CSIZE = {"CS6"} -> 6
                    [] t.cflag \cap CSIZE = {"CS7"} -> 7
                    [] OTHER                        -> 8,
     StopBits |-> IF "CSTOPB" \in t.cflag THEN 2 ELSE 1,
     Parity   |-> IF "PARENB" \notin t.cflag THEN ParityNone
                  ELSE IF "PARODD" \in t.cflag THEN ParityOdd ELSE ParityEven,
     CLOCAL   |-> "CLOCAL" \in t.cflag,
     HUPCL    |-> "HUPCL" \in t.cflag,
     RTSCTS   |-> t.cflag \cap CRTSCTS # {},
     ReadMin  |-> t.vmin,
     ReadTimeoutDecis |-> t.vtime]

\* A Config with its zero defaults written out: "Zero means 8", "Zero means 1".
Normal(c) ==
    [Baud     |-> c.Baud,
     DataBits |-> IF c.DataBits = 0 THEN 8 ELSE c.DataBits,
     StopBits |-> IF c.StopBits = 0 THEN 1 ELSE c.StopBits,
     Parity   |-> c.Parity,
     CLOCAL |-> c.CLOCAL, HUPCL |-> c.HUPCL, RTSCTS |-> c.RTSCTS,
     ReadMin |-> c.ReadMin, ReadTimeoutDecis |-> c.ReadTimeoutDecis]

\* What the package has no opinion about.
Untouched(t) ==
    [iflag |-> t.iflag \ RawIflag, oflag |-> t.oflag \ RawOflag,
     lflag |-> t.lflag \ RawLflag, cflag |-> t.cflag \ Managed, chars |-> t.chars]
=============================================================================
