---------------------------- MODULE UsbRequests ----------------------------
(***************************************************************************)
(* The setup packets of package usb (usb.go, cdc.go), the seven bytes of a *)
(* CDC line coding, and the deadlines that transfers get.                  *)
(***************************************************************************)
EXTENDS Integers, Sequences

CONSTANT Width   \* a deadline is a word of milliseconds: the values it has, 2^32 there
ASSUME WidthAssumption == Width \in Nat /\ Width > 1

Out == \h00
In  == \h80

Standard == \h00
Class    == \h20
Vendor   == \h40

ToDevice    == 0
ToInterface == 1

Setup(direction, type, recipient, request, value, index) ==
    [Direction |-> direction, Type |-> type, Recipient |-> recipient,
     Request |-> request, Value |-> value, Index |-> index]

\* bmRequestType: the three parts are bits of their own.
RequestType(s) == s.Direction + s.Type + s.Recipient

ReqGetDescriptor == 6
DescDevice       == 1
GetDescriptor(kind, index, lang) ==
    Setup(In, Standard, ToDevice, ReqGetDescriptor, 256 * kind + index, lang)

\* Of the standard requests, the one that is numbered zero.
GetStatus == Setup(In, Standard, ToDevice, 0, 0, 0)

ReqSetLineCoding       == \h20
ReqGetLineCoding       == \h21
ReqSetControlLineState == \h22
ControlLineDTR == 1
ControlLineRTS == 2

GetLineCoding(iface) == Setup(In, Class, ToInterface, ReqGetLineCoding, 0, iface)
SetLineCoding(iface) == Setup(Out, Class, ToInterface, ReqSetLineCoding, 0, iface)
SetControlLineState(iface, lines) ==
    Setup(Out, Class, ToInterface, ReqSetControlLineState, lines, iface)

LineCodingSize == 7
LineCoding(rate, stop, parity, bits) ==
    [Rate |-> rate, StopBits |-> stop, Parity |-> parity, DataBits |-> bits]

\* LineCoding.Bytes, and ParseLineCoding of seven bytes and whatever follows them.
LineCodingBytes(lc) ==
    <<lc.Rate % 256, (lc.Rate \div 256) % 256, (lc.Rate \div 65536) % 256,
      (lc.Rate \div 16777216) % 256, lc.StopBits, lc.Parity, lc.DataBits>>
ParseLineCoding(b) ==
    LineCoding(b[1] + 256 * b[2] + 65536 * b[3] + 16777216 * b[4], b[5], b[6], b[7])

Zero(lc) == lc = LineCoding(0, 0, 0, 0)

\* Durations are microseconds. A control transfer without one gets a default; one
\* shorter than the unit is not to become zero, which IOKit takes for no deadline.
defaultTimeout == 2000000

\* Bug: what is left of a duration is taken as it is.
ControlMS_Bare(timeout) ==
    ((IF timeout <= 0 THEN defaultTimeout ELSE timeout) \div 1000) % Width

ControlMS(timeout) ==
    LET ms == ((IF timeout <= 0 THEN defaultTimeout ELSE timeout) \div 1000) % Width
    IN  IF ms = 0 THEN 1 ELSE ms

\* That of a pipe is clamped and not cut.
timeoutMS(d) ==
    LET ms == d \div 1000
    IN  IF ms <= 0 THEN 1 ELSE IF ms > Width - 1 THEN Width - 1 ELSE ms
=============================================================================
