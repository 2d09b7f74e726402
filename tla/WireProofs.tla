----------------------------- MODULE WireProofs -----------------------------
(***************************************************************************)
(* What goes over a wire, for every value: the deadlines and setup packets *)
(* of package usb, the line coding of a CDC device, the frames of viture's *)
(* current protocol, and what serialprobe reads from a port.               *)
(***************************************************************************)
EXTENDS Beast, UsbRequests, SerialProbe, SequenceTheorems,
        WellFoundedInduction, TLAPS

-----------------------------------------------------------------------------
(* Deadlines and setup packets.                                              *)

\* No duration at all makes a transfer without a deadline, which is what zero
\* milliseconds are to IOKit, or one that does not fit the word: not one below a
\* millisecond, not a negative one, not one whose milliseconds wrap to zero
\* (darwinControl, timeoutMS).
THEOREM AlwaysADeadline ==
    \A d \in Int : ControlMS(d) \in 1..Width - 1 /\ timeoutMS(d) \in 1..Width - 1
<1> SUFFICES ASSUME NEW d \in Int
             PROVE  ControlMS(d) \in 1..Width - 1 /\ timeoutMS(d) \in 1..Width - 1
  OBVIOUS
<1>1. \A ms \in Int : ms % Width \in 0..Width - 1
  BY WidthAssumption
<1>2. ControlMS(d) \in 1..Width - 1
  <2> DEFINE t == IF d <= 0 THEN defaultTimeout ELSE d
  <2>1. t \in Int
    BY SMT DEF defaultTimeout
  <2>2. t \div 1000 \in Int
    BY <2>1
  <2> HIDE DEF t
  <2>3. (t \div 1000) % Width \in 0..Width - 1
    BY <1>1, <2>2
  <2>4. QED
    BY <2>3, WidthAssumption, SMT DEF ControlMS, t
<1>3. timeoutMS(d) \in 1..Width - 1
  BY WidthAssumption DEF timeoutMS
<1>4. QED
  BY <1>2, <1>3

\* bmRequestType tells the three parts of it apart: two setup packets that differ in
\* one of them differ on the wire (Setup.RequestType).
THEOREM RequestTypesDiffer ==
    \A d1, d2 \in {In, Out}, t1, t2 \in {Standard, Class, Vendor}, r1, r2 \in 0..31 :
        RequestType(Setup(d1, t1, r1, 0, 0, 0)) = RequestType(Setup(d2, t2, r2, 0, 0, 0)) =>
            d1 = d2 /\ t1 = t2 /\ r1 = r2
BY DEF RequestType, Setup, In, Out, Standard, Class, Vendor

Octet == 0..255

LEMMA LowByte ==
    ASSUME NEW n \in Nat
    PROVE  n \div 256 \in Nat /\ n % 256 \in Octet /\ n = 256 * (n \div 256) + (n % 256)
BY SMT DEF Octet

LEMMA ByteByByte ==
    ASSUME NEW n \in Nat
    PROVE  n \div 65536 = (n \div 256) \div 256 /\ n \div 16777216 = (n \div 65536) \div 256
<1>1. n \div 65536 = (n \div 256) \div 256
  BY SMTT(30)
<1>2. n \div 16777216 = (n \div 65536) \div 256
  BY SMTT(30)
<1>3. QED
  BY <1>1, <1>2

\* A line coding survives its seven bytes, at every rate of 32 bits, and whatever a
\* device sends after them (LineCoding.Bytes, ParseLineCoding).
THEOREM LineCodingRoundTrip ==
    \A rate \in {r \in Nat : r < 4294967296}, stop, parity, bits \in Octet, rest \in Seq(Octet) :
        LET lc == LineCoding(rate, stop, parity, bits)
        IN  /\ LineCodingBytes(lc) \in Seq(Octet)
            /\ Len(LineCodingBytes(lc)) = LineCodingSize
            /\ ParseLineCoding(LineCodingBytes(lc) \o rest) = lc
<1> SUFFICES ASSUME NEW rate \in {r \in Nat : r < 4294967296}, NEW stop \in Octet, NEW parity \in Octet,
                    NEW bits \in Octet, NEW rest \in Seq(Octet)
             PROVE  LET lc == LineCoding(rate, stop, parity, bits)
                    IN  /\ LineCodingBytes(lc) \in Seq(Octet)
                        /\ Len(LineCodingBytes(lc)) = LineCodingSize
                        /\ ParseLineCoding(LineCodingBytes(lc) \o rest) = lc
  OBVIOUS
<1> DEFINE b1 == rate % 256
           b2 == (rate \div 256) % 256
           b3 == (rate \div 65536) % 256
           q3 == rate \div 16777216
           b4 == q3 % 256
<1>1. b1 \in Octet /\ b2 \in Octet /\ b3 \in Octet /\ b4 \in Octet
  <2>1. rate \in Nat /\ rate \div 256 \in Nat /\ rate \div 65536 \in Nat /\ q3 \in Nat
    BY SMT
  <2>2. QED
    BY <2>1, LowByte
<1>2. b1 + 256 * b2 + 65536 * b3 + 16777216 * b4 = rate
  <2> DEFINE q1 == rate \div 256
             q2 == rate \div 65536
  <2>1. rate \in Nat /\ q1 \in Nat /\ q2 \in Nat
    BY SMT
  <2>2. rate = 256 * q1 + b1
    BY <2>1, LowByte
  <2>3. q1 = 256 * q2 + b2
    BY <2>1, LowByte, ByteByByte
  <2>4. q2 = 256 * b4 + b3
    <3>1. q2 = 256 * q3 + b3
      BY <2>1, LowByte, ByteByByte
    <3>2. q3 \in 0..255
      BY SMT
    <3>3. b4 = q3
      BY <3>2, SMT
    <3>4. QED
      BY <3>1, <3>3
  <2> HIDE DEF q1, q2, b1, b2, b3, b4
  <2>5. QED
    BY <1>1, <2>1, <2>2, <2>3, <2>4, SMT DEF Octet
<1>3. LineCodingBytes(LineCoding(rate, stop, parity, bits)) = <<b1, b2, b3, b4, stop, parity, bits>>
  BY SMT DEF LineCodingBytes, LineCoding
<1> DEFINE bytes == <<b1, b2, b3, b4, stop, parity, bits>>
<1> HIDE DEF b1, b2, b3, b4
<1>4. bytes \in Seq(Octet) /\ Len(bytes) = LineCodingSize
  BY <1>1 DEF LineCodingSize
<1> DEFINE sent == bytes \o rest
<1>5. \A j \in 1..7 : sent[j] = bytes[j]
  BY <1>4 DEF LineCodingSize
<1>6. /\ bytes[1] = b1 /\ bytes[2] = b2 /\ bytes[3] = b3 /\ bytes[4] = b4
      /\ bytes[5] = stop /\ bytes[6] = parity /\ bytes[7] = bits
  OBVIOUS
<1> HIDE DEF bytes, sent
<1>7. /\ sent[1] = b1 /\ sent[2] = b2 /\ sent[3] = b3 /\ sent[4] = b4
      /\ sent[5] = stop /\ sent[6] = parity /\ sent[7] = bits
  BY <1>5, <1>6
<1>8. ParseLineCoding(sent) = LineCoding(rate, stop, parity, bits)
  BY <1>2, <1>7 DEF ParseLineCoding
<1>9. QED
  BY <1>3, <1>4, <1>8 DEF bytes, sent

\* ... and seven bytes survive being read as a line coding, which is zero only if all
\* of them are (ParseLineCoding, LineCoding.Zero).
THEOREM SevenBytesRoundTrip ==
    ASSUME NEW b \in Seq(Octet), Len(b) = LineCodingSize
    PROVE  /\ LineCodingBytes(ParseLineCoding(b)) = b
           /\ Zero(ParseLineCoding(b)) => b = [j \in 1..LineCodingSize |-> 0]
<1> DEFINE b1 == b[1]
           b2 == b[2]
           b3 == b[3]
           b4 == b[4]
           rate == b1 + 256 * b2 + 65536 * b3 + 16777216 * b4
<1>1. Len(b) = 7
  BY DEF LineCodingSize
<1>2. /\ b1 \in Octet /\ b2 \in Octet /\ b3 \in Octet /\ b4 \in Octet
      /\ b = <<b1, b2, b3, b4, b[5], b[6], b[7]>>
  BY <1>1
<1> HIDE DEF b1, b2, b3, b4
<1>3. /\ rate % 256 = b1 /\ (rate \div 256) % 256 = b2
      /\ (rate \div 65536) % 256 = b3 /\ (rate \div 16777216) % 256 = b4
  <2>1. b1 \in 0..255 /\ b2 \in 0..255 /\ b3 \in 0..255 /\ b4 \in 0..255
    BY <1>2 DEF Octet
  <2> DEFINE q1 == b2 + 256 * b3 + 65536 * b4
             q2 == b3 + 256 * b4
  <2>2. rate = b1 + 256 * q1 /\ q1 = b2 + 256 * q2 /\ rate \in Nat /\ q1 \in Nat /\ q2 \in Nat
    BY <2>1, SMT
  <2>3. \A l, h \in Nat : l < 256 => (l + 256 * h) % 256 = l /\ (l + 256 * h) \div 256 = h
    BY SMT
  <2>4. rate \div 65536 = (rate \div 256) \div 256 /\ rate \div 16777216 = (rate \div 65536) \div 256
    BY <2>2, ByteByByte, SMTT(40)
  <2>5. b1 \in Nat /\ b2 \in Nat /\ b3 \in Nat /\ b4 \in Nat
        /\ b1 < 256 /\ b2 < 256 /\ b3 < 256 /\ b4 < 256
    BY <2>1
  <2>6. q2 = b3 + 256 * b4
    OBVIOUS
  <2> HIDE DEF rate, q1, q2
  <2>7. rate % 256 = b1 /\ rate \div 256 = q1
    BY <2>2, <2>3, <2>5
  <2>8. q1 % 256 = b2 /\ q1 \div 256 = q2
    BY <2>2, <2>3, <2>5
  <2>9. q2 % 256 = b3 /\ q2 \div 256 = b4
    BY <2>3, <2>5, <2>6
  <2>10. b4 % 256 = b4
    BY <2>1, SMT
  <2>11. QED
    BY <2>4, <2>7, <2>8, <2>9, <2>10
<1>4. ParseLineCoding(b) = LineCoding(rate, b[5], b[6], b[7])
  BY DEF ParseLineCoding, b1, b2, b3, b4
<1> HIDE DEF rate
<1>5. LineCodingBytes(ParseLineCoding(b)) = b
  <2> DEFINE lc == LineCoding(rate, b[5], b[6], b[7])
  <2>1. lc.Rate = rate /\ lc.StopBits = b[5] /\ lc.Parity = b[6] /\ lc.DataBits = b[7]
    BY DEF LineCoding
  <2> HIDE DEF lc
  <2>2. LineCodingBytes(lc) = <<rate % 256, (rate \div 256) % 256, (rate \div 65536) % 256,
                                (rate \div 16777216) % 256, b[5], b[6], b[7]>>
    BY <2>1 DEF LineCodingBytes
  <2>3. LineCodingBytes(lc) = <<b1, b2, b3, b4, b[5], b[6], b[7]>>
    BY <1>3, <2>2
  <2>4. ParseLineCoding(b) = lc
    BY <1>4 DEF lc
  <2>5. QED
    BY <1>2, <2>3, <2>4
<1>6. ASSUME Zero(ParseLineCoding(b))
      PROVE  b = [j \in 1..LineCodingSize |-> 0]
  <2>1. rate = 0 /\ b[5] = 0 /\ b[6] = 0 /\ b[7] = 0
    BY <1>4, <1>6 DEF Zero, LineCoding
  <2>2. 0 % 256 = 0 /\ 0 \div 256 = 0 /\ 0 \div 65536 = 0 /\ 0 \div 16777216 = 0
    BY SMT
  <2>3. b1 = 0 /\ b2 = 0 /\ b3 = 0 /\ b4 = 0
    BY <1>3, <2>1, <2>2
  <2>4. \A j \in 1..7 : b[j] = 0
    <3>1. b[1] = 0 /\ b[2] = 0 /\ b[3] = 0 /\ b[4] = 0
      BY <2>3 DEF b1, b2, b3, b4
    <3>2. QED
      BY <2>1, <3>1, SMTT(40)
  <2>5. QED
    BY <1>1, <2>4 DEF LineCodingSize
<1>7. QED
  BY <1>5, <1>6

-----------------------------------------------------------------------------
(* Frames.                                                                   *)

LEMMA PaddedIs ==
    ASSUME NEW s \in Seq(Int), NEW n \in Nat, NEW w \in Int
    PROVE  /\ Padded(s, n, w) \in Seq(Int) /\ Len(Padded(s, n, w)) = n
           /\ \A i \in 1..n : Padded(s, n, w)[i] = IF i <= Len(s) THEN s[i] ELSE w
BY DEF Padded

LEMMA Joined ==
    ASSUME NEW s \in Seq(Int), NEW t \in Seq(Int)
    PROVE  /\ s \o t \in Seq(Int) /\ Len(s \o t) = Len(s) + Len(t)
           /\ \A i \in 1..Len(s) : (s \o t)[i] = s[i]
           /\ \A i \in 1..Len(t) : (s \o t)[Len(s) + i] = t[i]
BY ConcatProperties

LEMMA Ten ==
    ASSUME NEW s \in Seq(Int), NEW t \in Seq(Int), NEW u \in Seq(Int), NEW x \in Seq(Int),
           \A i \in 1..6 : u[i] = s[i],
           \A i \in 1..2 : u[6 + i] = t[i],
           \A i \in 1..8 : x[i] = u[i],
           \A i \in 1..2 : x[8 + i] = t[i]
    PROVE  /\ x[3] = s[3] /\ x[4] = s[4]
           /\ x[7] = t[1] /\ x[8] = t[2] /\ x[9] = t[1] /\ x[10] = t[2]
<1>1. x[3] = u[3] /\ x[4] = u[4] /\ x[7] = u[7] /\ x[8] = u[8] /\ u[3] = s[3] /\ u[4] = s[4]
  OBVIOUS
<1>2. u[6 + 1] = t[1] /\ u[6 + 2] = t[2] /\ x[8 + 1] = t[1] /\ x[8 + 2] = t[2]
  OBVIOUS
<1>3. QED
  BY <1>1, <1>2

LEMMA ValuesAre == \A n \in Values : n \in Nat
<1> DEFINE top == 65535
<1>1. top \in Nat
  OBVIOUS
<1>2. Values = 0..top
  BY DEF Values
<1> HIDE DEF top
<1>3. QED
  BY <1>1, <1>2

LEMMA TwoBytes ==
    ASSUME NEW n \in Values
    PROVE  /\ LittleEndian(n) \in Seq(Int) /\ Len(LittleEndian(n)) = 2
           /\ LittleEndian(n)[1] + 256 * LittleEndian(n)[2] = n
<1>1. n \in Nat /\ n % 256 \in Int /\ n \div 256 \in Int
  BY ValuesAre
<1>2. LittleEndian(n) = <<n % 256, n \div 256>>
  BY DEF LittleEndian
<1>3. n = 256 * (n \div 256) + (n % 256)
  BY <1>1, LowByte
<1> DEFINE l == n % 256
           h == n \div 256
<1> HIDE DEF l, h
<1>4. LittleEndian(n) = <<l, h>> /\ l \in Int /\ h \in Int /\ n = 256 * h + l
  BY <1>1, <1>2, <1>3 DEF l, h
<1>5. QED
  BY <1>4

\* Whatever the value, a command carries it twice, least byte first, and goes in
\* the direction that its length and value say.
LEMMA CommandIs ==
    ASSUME NEW msg \in Int, NEW length \in Int, NEW value \in Values
    PROVE  LET q == command(msg, length, value)
           IN  /\ Len(q) = ReportSize /\ q # <<>>
               /\ q[3] = msg
               /\ q[4] = (IF length = 3 /\ value = 0 THEN DirRead ELSE DirWrite)
               /\ Uint16(q, 6) = value /\ Uint16(q, 8) = value
<1> DEFINE dir  == IF length = 3 /\ value = 0 THEN DirRead ELSE DirWrite
           v    == LittleEndian(value)
           head == <<EventHeader, 0, msg, dir, length, 0>>
           q    == command(msg, length, value)
<1>1. v \in Seq(Int) /\ Len(v) = 2 /\ v[1] + 256 * v[2] = value
  BY TwoBytes
<1>2. dir \in Int /\ EventHeader \in Int /\ head \in Seq(Int)
  BY SMT DEF DirRead, DirWrite, EventHeader
<1>3. q = Padded((head \o v) \o v, ReportSize, 0)
  BY DEF command
<1>4. Len(head) = 6 /\ head[3] = msg /\ head[4] = dir
  OBVIOUS
<1> HIDE DEF v, dir, q, head
<1> DEFINE u == head \o v
<1>5. /\ u \in Seq(Int) /\ Len(u) = 8
      /\ \A i \in 1..6 : u[i] = head[i]
      /\ \A i \in 1..2 : u[6 + i] = v[i]
  <2>1. /\ u \in Seq(Int) /\ Len(u) = Len(head) + Len(v)
        /\ \A i \in 1..Len(head) : u[i] = head[i]
        /\ \A i \in 1..Len(v) : u[Len(head) + i] = v[i]
    BY <1>1, <1>2, Joined
  <2> HIDE DEF u
  <2>2. QED
    BY <1>1, <1>4, <2>1
<1> HIDE DEF u
<1> DEFINE x == u \o v
<1>6. /\ x \in Seq(Int) /\ Len(x) = 10
      /\ \A i \in 1..8 : x[i] = u[i]
      /\ \A i \in 1..2 : x[8 + i] = v[i]
  <2>1. /\ x \in Seq(Int) /\ Len(x) = Len(u) + Len(v)
        /\ \A i \in 1..Len(u) : x[i] = u[i]
        /\ \A i \in 1..Len(v) : x[Len(u) + i] = v[i]
    BY <1>1, <1>5, Joined
  <2> HIDE DEF x
  <2>2. QED
    BY <1>1, <1>5, <2>1
<1> HIDE DEF x
<1>7. /\ x[3] = msg /\ x[4] = dir
      /\ x[7] = v[1] /\ x[8] = v[2] /\ x[9] = v[1] /\ x[10] = v[2]
  BY <1>1, <1>2, <1>4, <1>5, <1>6, Ten
<1>8. Len(q) = 64 /\ \A i \in 1..10 : q[i] = x[i]
  <2> DEFINE y == Padded(x, ReportSize, 0)
  <2>1. q = y
    BY <1>3 DEF x, u
  <2>2. ReportSize = 64
    BY SMT DEF ReportSize
  <2>3. Len(y) = ReportSize /\ \A i \in 1..ReportSize : y[i] = IF i <= Len(x) THEN x[i] ELSE 0
    <3>1. x \in Seq(Int) /\ ReportSize \in Nat /\ 0 \in Int
      BY <1>6, SMT DEF ReportSize
    <3>2. QED
      BY <3>1, PaddedIs
  <2> HIDE DEF y
  <2>4. QED
    BY <1>6, <2>1, <2>2, <2>3, SMT
<1>9. q[3] = msg /\ q[4] = dir /\ q[7] = v[1] /\ q[8] = v[2] /\ q[9] = v[1] /\ q[10] = v[2]
  BY <1>6, <1>7, <1>8, SMT
<1>10. q # <<>>
  <2>1. Len(q) = 64
    BY <1>8
  <2>2. QED
    BY <2>1, SMT
<1>11. QED
  BY <1>1, <1>8, <1>9, <1>10, SMT DEF Uint16, ReportSize, dir, q

\* Of every mode, and of zero too: setting it is a write that carries it twice alike,
\* as the headset insists, and what is only asked is a read (command and its callers).
THEOREM CommandsAreUnderstood ==
    /\ \A mode \in Values :
          LET q == SetDisplayMode(mode)
          IN  q # <<>> /\ q[3] = MsgDisplayMode /\ q[4] = DirWrite
              /\ Uint16(q, 6) = mode /\ Uint16(q, 8) = mode
    /\ \A q \in {ReadDisplayMode, ReadNativeDisplayMode} : q # <<>> /\ q[4] = DirRead
    /\ ReadDisplayMode[3] = MsgDisplayMode /\ ReadNativeDisplayMode[3] = MsgNativeDisplayMode
<1>1. MsgDisplayMode \in Int /\ MsgNativeDisplayMode \in Int /\ 0 \in Values
  BY SMT DEF MsgDisplayMode, MsgNativeDisplayMode, Values
<1>2. ASSUME NEW mode \in Values
      PROVE  LET q == SetDisplayMode(mode)
             IN  q # <<>> /\ q[3] = MsgDisplayMode /\ q[4] = DirWrite
                 /\ Uint16(q, 6) = mode /\ Uint16(q, 8) = mode
  BY <1>1, CommandIs DEF SetDisplayMode
<1>3. ReadDisplayMode # <<>> /\ ReadDisplayMode[4] = DirRead /\ ReadDisplayMode[3] = MsgDisplayMode
  BY <1>1, CommandIs DEF ReadDisplayMode
<1>4. /\ ReadNativeDisplayMode # <<>> /\ ReadNativeDisplayMode[4] = DirRead
      /\ ReadNativeDisplayMode[3] = MsgNativeDisplayMode
  BY <1>1, CommandIs DEF ReadNativeDisplayMode
<1>5. QED
  BY <1>2, <1>3, <1>4

\* A frame that says a number is an event with that number, whatever follows it.
LEMMA NumberIsHeard ==
    ASSUME NEW msg \in Int, NEW kind \in Int, NEW length \in Int,
           NEW body \in Seq(Int), Len(body) >= 2, NEW n \in Nat, n >= 8
    PROVE  LET b == Padded(<<EventHeader, 5, msg, kind, length, 0>> \o body, n, 0)
           IN  /\ IsEvent(b)
               /\ ParseEvent(b).Counter = 5 /\ ParseEvent(b).ID = msg /\ ParseEvent(b).Kind = kind
               /\ ParseEvent(b).Value = body[1] + 256 * body[2]
<1> DEFINE s == <<EventHeader, 5, msg, kind, length, 0>>
           u == s \o body
           b == Padded(u, n, 0)
<1>1. s \in Seq(Int) /\ Len(s) = 6
      /\ s[1] = EventHeader /\ s[2] = 5 /\ s[3] = msg /\ s[4] = kind /\ s[6] = 0
  BY DEF EventHeader
<1> HIDE DEF s
<1>2. /\ u \in Seq(Int) /\ Len(u) = Len(s) + Len(body)
      /\ \A i \in 1..Len(s) : u[i] = s[i]
      /\ \A i \in 1..Len(body) : u[Len(s) + i] = body[i]
  BY <1>1, Joined
<1> HIDE DEF u
<1>3. /\ Len(u) \in Nat /\ Len(u) >= 8
      /\ u[1] = s[1] /\ u[2] = s[2] /\ u[3] = s[3] /\ u[4] = s[4] /\ u[6] = s[6]
      /\ u[6 + 1] = body[1] /\ u[6 + 2] = body[2]
  <2>1. Len(u) = 6 + Len(body) /\ Len(body) \in Nat /\ Len(s) = 6
    BY <1>1, <1>2
  <2>2. \A i \in 1..6 : u[i] = s[i]
    BY <1>2, <2>1
  <2>3. \A i \in 1..2 : u[6 + i] = body[i]
    <3>1. \A i \in 1..Len(body) : u[6 + i] = body[i]
      BY <1>1, <1>2
    <3>2. \A i \in 1..2 : i \in 1..Len(body)
      BY <2>1
    <3>3. QED
      BY <3>1, <3>2
  <2>4. u[1] = s[1] /\ u[2] = s[2] /\ u[3] = s[3] /\ u[4] = s[4] /\ u[6] = s[6]
    BY <2>2
  <2>5. u[6 + 1] = body[1] /\ u[6 + 2] = body[2]
    BY <2>3
  <2>6. QED
    BY <2>1, <2>4, <2>5
<1>4. Len(b) = n /\ \A i \in 1..n : b[i] = IF i <= Len(u) THEN u[i] ELSE 0
  <2>1. u \in Seq(Int) /\ n \in Nat /\ 0 \in Int
    BY <1>2
  <2>2. QED
    BY <2>1 DEF Padded
<1> HIDE DEF b
<1>5. \A i \in 1..8 : b[i] = u[i]
  <2>1. Len(u) \in Nat /\ Len(u) >= 8
    BY <1>3
  <2>2. QED
    BY <1>4, <2>1
<1>6. b[1] = u[1] /\ b[2] = u[2] /\ b[3] = u[3] /\ b[4] = u[4] /\ b[6] = u[6] /\ b[7] = u[7] /\ b[8] = u[8]
  BY <1>5
<1>7. /\ Len(b) >= 8 /\ b[1] = EventHeader /\ b[2] = 5 /\ b[3] = msg /\ b[4] = kind /\ b[6] = 0
      /\ b[7] = body[1] /\ b[8] = body[2]
  BY <1>1, <1>3, <1>4, <1>6
<1>8. /\ IsEvent(b)
      /\ ParseEvent(b).Counter = 5 /\ ParseEvent(b).ID = msg /\ ParseEvent(b).Kind = kind
      /\ ParseEvent(b).Value = body[1] + 256 * body[2]
  BY <1>7, SMT DEF IsEvent, ParseEvent, Uint16
<1>9. QED
  BY <1>8 DEF b, u, s

Padding == {0, 255}

\* The padding is all that is trimmed off a text that does not end like it.
LEMMA TrimmedIs ==
    ASSUME NEW t \in Seq(Int), NEW w \in Seq(Int), Len(t) <= Len(w),
           \A i \in 1..Len(t) : w[i] = t[i],
           \A i \in Len(t) + 1..Len(w) : w[i] \in Padding,
           t # <<>> => t[Len(t)] \notin Padding
    PROVE  Trimmed(w) = t
<1> DEFINE text == {i \in 1..Len(w) : w[i] \notin Padding}
           last == CHOOSE i \in text : \A j \in text : j <= i
<1>1. Trimmed(w) = IF text = {} THEN <<>> ELSE SubSeq(w, 1, last)
  BY SMT DEF Trimmed, Padding
<1>2. /\ \A i \in Len(t) + 1..Len(w) : w[i] \in Padding
      /\ t # <<>> => t[Len(t)] \notin Padding
  OBVIOUS
<1>3. Len(t) \in Nat /\ Len(w) \in Nat
  OBVIOUS
<1>4. \A j \in text : j \in 1..Len(t)
  BY <1>2, <1>3
<1>5. CASE t = <<>>
  <2>1. text = {}
    BY <1>4, <1>5
  <2>2. QED
    BY <1>1, <1>5, <2>1
<1>6. CASE t # <<>>
  <2>1. Len(t) \in 1..Len(w) /\ Len(t) \in 1..Len(t)
    BY <1>3, <1>6
  <2>2. Len(t) \in text
    BY <1>2, <1>6, <2>1
  <2>3. \A j \in text : j <= Len(t)
    BY <1>3, <1>4
  <2>4. last = Len(t)
    <3>1. \A i \in text : (\A j \in text : j <= i) => i = Len(t)
      BY <1>3, <2>2, <2>3
    <3> HIDE DEF text
    <3>2. QED
      BY <2>2, <2>3, <3>1
  <2>5. Trimmed(w) = SubSeq(w, 1, Len(t))
    <3>1. text # {}
      BY <2>2
    <3> HIDE DEF text, last
    <3>2. QED
      BY <1>1, <2>4, <3>1
  <2>6. SubSeq(w, 1, Len(t)) = t
    <3>1. /\ SubSeq(w, 1, Len(t)) \in Seq(Int) /\ Len(SubSeq(w, 1, Len(t))) = Len(t)
          /\ \A i \in 1..Len(t) : SubSeq(w, 1, Len(t))[i] = w[i]
      BY <1>3, <2>1, SubSeqProperties
    <3>2. QED
      BY <3>1, SeqEqual
  <2>7. QED
    BY <2>5, <2>6
<1>7. QED
  BY <1>5, <1>6

TextFrame(t, n, pad, extra) ==
    Padded(<<EventHeader, 5, 3, KindReply, Len(t) + 1 + extra, 0, 14, 4, 0>> \o t, n, pad)

\* A frame that carries a text is an event with that text, whichever padding fills
\* the report and though its length field counts more than is there.
LEMMA TextIsHeard ==
    ASSUME NEW t \in Seq(Int), t # <<>> => t[Len(t)] \notin Padding,
           NEW pad \in Padding, NEW n \in Nat, Len(t) + header <= n, NEW extra \in Nat
    PROVE  LET b == TextFrame(t, n, pad, extra)
           IN  /\ IsEvent(b)
               /\ ParseEvent(b).Counter = 5 /\ ParseEvent(b).ID = 3 /\ ParseEvent(b).Kind = KindReply
               /\ ParseEvent(b).Text = t
<1> DEFINE s == <<EventHeader, 5, 3, KindReply, Len(t) + 1 + extra, 0, 14, 4, 0>>
           u == s \o t
           b == Padded(u, n, pad)
           L == Len(t)
<1>1. L \in Nat /\ pad \in Int /\ L + 9 <= n /\ extra \in Nat
  BY SMT DEF header, Padding
<1>2. s \in Seq(Int) /\ Len(s) = 9
      /\ s[1] = EventHeader /\ s[2] = 5 /\ s[3] = 3 /\ s[4] = KindReply /\ s[5] = L + 1 + extra /\ s[6] = 0
  BY <1>1, SMT DEF EventHeader, KindReply
<1> HIDE DEF s
<1>3. /\ u \in Seq(Int) /\ Len(u) = 9 + L
      /\ \A i \in 1..9 : u[i] = s[i]
      /\ \A i \in 1..L : u[9 + i] = t[i]
  <2>1. /\ u \in Seq(Int) /\ Len(u) = Len(s) + L
        /\ \A i \in 1..Len(s) : u[i] = s[i]
        /\ \A i \in 1..L : u[Len(s) + i] = t[i]
    BY <1>2, Joined
  <2> HIDE DEF u
  <2>2. QED
    BY <1>2, <2>1
<1> HIDE DEF u
<1>4. b \in Seq(Int) /\ Len(b) = n /\ \A i \in 1..n : b[i] = IF i <= Len(u) THEN u[i] ELSE pad
  BY <1>1, <1>3 DEF Padded
<1> HIDE DEF b, L
<1>5. \A i \in 1..9 : b[i] = s[i]
  <2>1. \A i \in 1..9 : i \in 1..n /\ i <= Len(u)
    <3>1. L \in Nat /\ L + 9 <= n /\ Len(u) = 9 + L
      BY <1>1, <1>3
    <3>2. QED
      BY <3>1
  <2>2. QED
    BY <1>3, <1>4, <2>1
<1>6. \A i \in 1..L : b[9 + i] = t[i]
  <2>1. \A i \in 1..L : 9 + i \in 1..n /\ 9 + i <= Len(u)
    BY <1>1, <1>3
  <2>2. QED
    BY <1>3, <1>4, <2>1
<1>7. \A i \in L + 1..n - 9 : b[9 + i] = pad
  <2>1. \A i \in L + 1..n - 9 : 9 + i \in 1..n /\ ~(9 + i <= Len(u))
    BY <1>1, <1>3
  <2>2. QED
    BY <1>4, <2>1
<1>8. b[1] = s[1] /\ b[2] = s[2] /\ b[3] = s[3] /\ b[4] = s[4] /\ b[5] = s[5] /\ b[6] = s[6]
  BY <1>5
<1>9. /\ IsEvent(b)
      /\ ParseEvent(b).Counter = 5 /\ ParseEvent(b).ID = 3 /\ ParseEvent(b).Kind = KindReply
      /\ ParseEvent(b).Text = textOf(b)
  BY <1>1, <1>2, <1>4, <1>8, SMT DEF IsEvent, ParseEvent
<1> DEFINE end == TextEnd(b)
<1>10. end \in Int /\ 9 + L <= end /\ end <= n /\ (L = 0 \/ end > 9)
  <2>1. Len(b) = n /\ b[4 + 1] = L + 1 + extra /\ b[4 + 2] = 0
    BY <1>2, <1>4, <1>8
  <2>2. Uint16(b, 4) = L + 1 + extra
    BY <1>1, <2>1, SMT DEF Uint16
  <2>3. QED
    BY <1>1, <2>1, <2>2, SMT DEF TextEnd, header
<1> HIDE DEF end
<1>11. CASE end <= 9
  <2>1. L = 0
    BY <1>1, <1>10, <1>11
  <2>2. t = <<>>
    BY <2>1 DEF L
  <2>3. textOf(b) = <<>>
    BY <1>11 DEF textOf, header, end
  <2>4. QED
    BY <1>9, <2>2, <2>3 DEF TextFrame, b, u, s
<1>12. CASE end > 9
  <2> DEFINE w == SubSeq(b, 10, end)
  <2>1. /\ w \in Seq(Int) /\ Len(w) = end - 9
        /\ \A i \in 1..end - 9 : w[i] = b[9 + i]
    <3>1. \A i \in 10..end : b[i] \in Int
      BY <1>4, <1>10
    <3>2. /\ w \in Seq(Int)
          /\ Len(w) = IF 10 <= end THEN end - 10 + 1 ELSE 0
          /\ \A i \in 1..end - 10 + 1 : w[i] = b[10 + i - 1]
      BY <1>10, <3>1, SubSeqProperties
    <3> HIDE DEF w
    <3>3. QED
      BY <1>10, <1>12, <3>2
  <2>2. textOf(b) = Trimmed(w)
    BY <1>10, <1>12, SMT DEF textOf, header, end
  <2> HIDE DEF w
  <2>3. \A i \in 1..L : w[i] = t[i]
    <3>1. \A i \in 1..L : i \in 1..end - 9
      BY <1>1, <1>10
    <3>2. QED
      BY <1>6, <2>1, <3>1
  <2>4. \A i \in L + 1..Len(w) : w[i] \in Padding
    <3>1. \A i \in L + 1..Len(w) : i \in 1..end - 9 /\ i \in L + 1..n - 9
      BY <1>1, <1>10, <2>1
    <3>2. \A i \in L + 1..Len(w) : w[i] = pad
      BY <1>7, <2>1, <3>1
    <3>3. QED
      BY <3>2
  <2>5. Trimmed(w) = t
    <3>1. Len(t) <= Len(w)
      BY <1>1, <1>10, <2>1 DEF L
    <3>2. w \in Seq(Int) /\ (\A i \in 1..Len(t) : w[i] = t[i]) /\ (\A i \in Len(t) + 1..Len(w) : w[i] \in Padding)
      BY <2>1, <2>3, <2>4 DEF L
    <3>3. QED
      BY <3>1, <3>2, TrimmedIs
  <2>6. QED
    BY <1>9, <2>2, <2>5 DEF TextFrame, b, u, s
<1>13. QED
  BY <1>10, <1>11, <1>12

-----------------------------------------------------------------------------
(* The exchange.                                                             *)

Heard(b) == IF IsEvent(b) THEN ParseEvent(b) ELSE <<>>

\* What ExchangeIsExact says of event e: it agrees with what the headset said, and
\* with call a and panel p.
Agrees(e, said, a, p) ==
    /\ (e = <<>>) = (said = <<>>)
    /\ e # <<>> =>
         /\ \A part \in {"Counter", "ID", "Kind"} : e[part] = said[part]
         /\ "value" \in DOMAIN said.about => e.Value = said.about.value
         /\ "text" \in DOMAIN said.about => e.Text = said.about.text
    /\ a.do = "set" =>
         /\ e.Kind = DirWrite + ReplyBit
         /\ e.Value = (IF a.mode \in Supported THEN StatusOK ELSE StatusRefused)
         /\ e.Value = StatusOK => p = a.mode
    /\ a.do \in {"read", "readNative"} => e.Kind = DirRead + ReplyBit
    /\ a.do = "readNative" => e.Value = p

QueryOf(a) == CASE a.do = "set" -> SetDisplayMode(a.mode)
                [] a.do = "read" -> ReadDisplayMode
                [] a.do = "readNative" -> ReadNativeDisplayMode
                [] OTHER -> <<>>

\* What is left to hear is already exact when the frame is sent; until then the
\* headset is about to answer the client's own question.
BInv ==
    /\ turn \in {"client", "headset", "reader", "done"}
    /\ panel \in Supported /\ call \in Calls
    /\ turn \in {"client", "headset"} => told = <<>>
    /\ turn = "headset" => query = QueryOf(call)
    /\ turn = "reader" => Agrees(Heard(frame), told, call, panel)
    /\ turn = "done" => Agrees(event, told, call, panel)

LEMMA NumberAgrees ==
    ASSUME NEW b, NEW msg, NEW kind, NEW v, NEW a, NEW p, IsEvent(b),
           ParseEvent(b).Counter = 5, ParseEvent(b).ID = msg, ParseEvent(b).Kind = kind,
           ParseEvent(b).Value = v,
           a.do = "set" =>
               /\ kind = DirWrite + ReplyBit
               /\ v = (IF a.mode \in Supported THEN StatusOK ELSE StatusRefused)
               /\ v = StatusOK => p = a.mode,
           a.do \in {"read", "readNative"} => kind = DirRead + ReplyBit,
           a.do = "readNative" => v = p
    PROVE  Agrees(Heard(b), [Counter |-> 5, ID |-> msg, Kind |-> kind, about |-> [value |-> v]], a, p)
<1> DEFINE e == ParseEvent(b)
           said == [Counter |-> 5, ID |-> msg, Kind |-> kind, about |-> [value |-> v]]
<1>1. Heard(b) = e
  BY DEF Heard
<1>2. e # <<>> /\ said # <<>>
  BY DEF ParseEvent
<1>3. said.Counter = 5 /\ said.ID = msg /\ said.Kind = kind /\ said.about.value = v /\ "text" \notin DOMAIN said.about
  OBVIOUS
<1>4. e.Counter = 5 /\ e.ID = msg /\ e.Kind = kind /\ e.Value = v
  OBVIOUS
<1> HIDE DEF e, said
<1>5. \A part \in {"Counter", "ID", "Kind"} : e[part] = said[part]
  BY <1>3, <1>4
<1>6. Agrees(e, said, a, p)
  BY <1>2, <1>3, <1>4, <1>5 DEF Agrees
<1>7. QED
  BY <1>1, <1>6 DEF said

LEMMA TextAgrees ==
    ASSUME NEW b, NEW t, NEW a, NEW p, IsEvent(b),
           ParseEvent(b).Counter = 5, ParseEvent(b).ID = 3, ParseEvent(b).Kind = KindReply,
           ParseEvent(b).Text = t, a.do = "listen"
    PROVE  Agrees(Heard(b), [Counter |-> 5, ID |-> 3, Kind |-> KindReply, about |-> [text |-> t]], a, p)
<1> DEFINE e == ParseEvent(b)
           said == [Counter |-> 5, ID |-> 3, Kind |-> KindReply, about |-> [text |-> t]]
<1>1. Heard(b) = e
  BY DEF Heard
<1>2. e # <<>> /\ said # <<>>
  BY DEF ParseEvent
<1>3. /\ said.Counter = 5 /\ said.ID = 3 /\ said.Kind = KindReply /\ said.about.text = t
      /\ "value" \notin DOMAIN said.about
  OBVIOUS
<1>4. e.Counter = 5 /\ e.ID = 3 /\ e.Kind = KindReply /\ e.Text = t
  OBVIOUS
<1> HIDE DEF e, said
<1>5. \A part \in {"Counter", "ID", "Kind"} : e[part] = said[part]
  BY <1>3, <1>4
<1>6. Agrees(e, said, a, p)
  BY <1>2, <1>3, <1>4, <1>5 DEF Agrees
<1>7. QED
  BY <1>1, <1>6 DEF said

\* Which queries the headset sees, and for which calls.
LEMMA QueriesTellCalls ==
    ASSUME NEW a \in Calls
    PROVE  LET q == QueryOf(a)
           IN  /\ q = <<>> => a.do = "listen"
               /\ q # <<>> /\ q[4] = DirWrite =>
                    a.do = "set" /\ Uint16(q, 6) = a.mode /\ Uint16(q, 8) = a.mode
               /\ q # <<>> /\ q[4] = DirRead =>
                    a.do \in {"read", "readNative"} /\ (a.do = "readNative" => q[3] = MsgNativeDisplayMode)
<1>1. a.do \in {"listen", "set", "read", "readNative"} /\ a.mode \in Values
  BY ExchangeAssumption
<1>2. DirRead # DirWrite
  BY SMT DEF DirRead, DirWrite
<1>3. CASE a.do = "set"
  <2>1. QueryOf(a) = SetDisplayMode(a.mode)
    BY <1>3 DEF QueryOf
  <2>2. QED
    BY <1>1, <1>2, <1>3, <2>1, CommandsAreUnderstood
<1>4. CASE a.do = "read"
  <2>1. QueryOf(a) = ReadDisplayMode
    BY <1>4 DEF QueryOf
  <2>2. QED
    BY <1>2, <1>4, <2>1, CommandsAreUnderstood
<1>5. CASE a.do = "readNative"
  <2>1. QueryOf(a) = ReadNativeDisplayMode
    BY <1>5 DEF QueryOf
  <2>2. QED
    BY <1>2, <1>5, <2>1, CommandsAreUnderstood
<1>6. CASE a.do = "listen"
  <2>1. QueryOf(a) = <<>>
    BY <1>6 DEF QueryOf
  <2>2. QED
    BY <1>6, <2>1
<1>7. QED
  BY <1>1, <1>3, <1>4, <1>5, <1>6

LEMMA ExchangeInit == BInit => BInv
BY DEF BInit, BInv

LEMMA ObeyOk == BInv /\ Obey => BInv'
<1> SUFFICES ASSUME BInv, Obey
             PROVE  BInv'
  OBVIOUS
<1> DEFINE mode   == Uint16(query, 6)
           ok     == mode \in Supported /\ Uint16(query, 8) = mode
           status == IF ok THEN StatusOK ELSE StatusRefused
           body   == <<status, 0, status>>
<1>1. /\ panel \in Supported /\ call \in Calls /\ query = QueryOf(call)
      /\ query # <<>> /\ query[4] = DirWrite
  BY DEF BInv, Obey
<1>2. call.do = "set" /\ mode = call.mode /\ Uint16(query, 8) = call.mode
  BY <1>1, QueriesTellCalls
<1>3. /\ panel' = IF ok THEN mode ELSE panel
      /\ Says(DirWrite + ReplyBit, query[3], 1, body, [value |-> status], 9)
      /\ call' = call /\ query' = query
  BY DEF Obey
<1>4. ok <=> call.mode \in Supported
  BY <1>2
<1>5. query[3] \in Int
  BY <1>1, <1>2, CommandsAreUnderstood, ExchangeAssumption, SMT DEF QueryOf, MsgDisplayMode
<1>6. StatusOK \in Int /\ StatusRefused \in Int /\ StatusOK # StatusRefused
      /\ DirWrite + ReplyBit \in Int /\ 1 \in Int /\ 9 \in Nat /\ 9 >= 8
  BY SMT DEF StatusOK, StatusRefused, DirWrite, ReplyBit
<1> HIDE DEF ok, mode
<1>7. status \in Int
  BY <1>6
<1> HIDE DEF status
<1>8. body \in Seq(Int) /\ Len(body) >= 2 /\ body[1] + 256 * body[2] = status
  BY <1>7
<1> HIDE DEF body
<1>9. /\ frame' = Padded(<<EventHeader, 5, query[3], DirWrite + ReplyBit, 1, 0>> \o body, 9, 0)
      /\ told' = [Counter |-> 5, ID |-> query[3], Kind |-> DirWrite + ReplyBit, about |-> [value |-> status]]
      /\ turn' = "reader"
  BY <1>3 DEF Says
<1>10. /\ IsEvent(frame')
       /\ ParseEvent(frame').Counter = 5 /\ ParseEvent(frame').ID = query[3]
       /\ ParseEvent(frame').Kind = DirWrite + ReplyBit /\ ParseEvent(frame').Value = status
  <2> DEFINE msg  == query[3]
             kind == DirWrite + ReplyBit
             n    == 9
  <2>1. msg \in Int /\ kind \in Int /\ n \in Nat /\ n >= 8
    BY <1>5, <1>6
  <2>2. frame' = Padded(<<EventHeader, 5, msg, kind, 1, 0>> \o body, n, 0)
    BY <1>9
  <2> HIDE DEF msg, kind, n
  <2>3. /\ IsEvent(frame')
        /\ ParseEvent(frame').Counter = 5 /\ ParseEvent(frame').ID = msg
        /\ ParseEvent(frame').Kind = kind /\ ParseEvent(frame').Value = body[1] + 256 * body[2]
    <3> DEFINE b == Padded(<<EventHeader, 5, msg, kind, 1, 0>> \o body, n, 0)
    <3>1. body \in Seq(Int) /\ Len(body) >= 2 /\ 1 \in Int
      BY <1>6, <1>8
    <3>2. /\ IsEvent(b)
          /\ ParseEvent(b).Counter = 5 /\ ParseEvent(b).ID = msg
          /\ ParseEvent(b).Kind = kind /\ ParseEvent(b).Value = body[1] + 256 * body[2]
      BY <2>1, <3>1, NumberIsHeard
    <3>3. QED
      BY <2>2, <3>2
  <2>4. QED
    BY <1>8, <2>3 DEF msg, kind
<1>11. panel' \in Supported
  BY <1>1, <1>3 DEF ok
<1>12. /\ status = (IF call.mode \in Supported THEN StatusOK ELSE StatusRefused)
       /\ status = StatusOK => panel' = call.mode
  BY <1>2, <1>3, <1>4, <1>6 DEF status
<1>13. Agrees(Heard(frame'), told', call, panel')
  BY <1>2, <1>9, <1>10, <1>12, NumberAgrees
<1>14. QED
  BY <1>1, <1>3, <1>9, <1>11, <1>13 DEF BInv

LEMMA TellOk == BInv /\ Tell => BInv'
<1> SUFFICES ASSUME BInv, Tell
             PROVE  BInv'
  OBVIOUS
<1>1. /\ panel \in Supported /\ call \in Calls /\ query = QueryOf(call)
      /\ query # <<>> /\ query[4] = DirRead
  BY DEF BInv, Tell
<1>2. /\ call.do \in {"read", "readNative"}
      /\ call.do = "readNative" => query[3] = MsgNativeDisplayMode
  BY <1>1, QueriesTellCalls
<1>3. PICK v \in IF query[3] = MsgNativeDisplayMode THEN {panel} ELSE {panel, \h36} :
          Says(DirRead + ReplyBit, query[3], 3,
               LittleEndian(v) \o <<v \div 256, v % 256>>, [value |-> v], 10)
  BY DEF Tell
<1>4. panel' = panel /\ call' = call
  BY DEF Tell
<1>5. v \in Values /\ (call.do = "readNative" => v = panel)
  <2>1. \h36 \in Values
    BY SMT DEF Values
  <2>2. panel \in Values
    BY <1>1, ExchangeAssumption
  <2>3. QED
    BY <1>2, <1>3, <2>1, <2>2
<1>6. query[3] \in Int
  BY <1>1, <1>2, CommandsAreUnderstood, SMT DEF QueryOf, MsgDisplayMode, MsgNativeDisplayMode
<1>7. DirRead + ReplyBit \in Int /\ 3 \in Int /\ 10 \in Nat /\ 10 >= 8
  BY SMT DEF DirRead, ReplyBit
<1> DEFINE low  == LittleEndian(v)
           high == <<v \div 256, v % 256>>
           body == low \o high
<1>8. low \in Seq(Int) /\ Len(low) = 2 /\ low[1] + 256 * low[2] = v
  BY <1>5, TwoBytes
<1>9. high \in Seq(Int) /\ Len(high) = 2
  <2>1. v \in Nat /\ v \div 256 \in Int /\ v % 256 \in Int
    BY <1>5, ValuesAre
  <2>2. QED
    BY <2>1
<1> HIDE DEF low, high
<1>10. body \in Seq(Int) /\ Len(body) >= 2 /\ body[1] = low[1] /\ body[2] = low[2]
  <2>1. /\ body \in Seq(Int) /\ Len(body) = Len(low) + Len(high)
        /\ \A i \in 1..Len(low) : body[i] = low[i]
    BY <1>8, <1>9, Joined, ZenonT(60)
  <2> HIDE DEF body
  <2>2. \A i \in 1..2 : body[i] = low[i]
    BY <1>8, <2>1
  <2>3. QED
    BY <1>8, <1>9, <2>1, <2>2
<1>11. /\ frame' = Padded(<<EventHeader, 5, query[3], DirRead + ReplyBit, 3, 0>> \o body, 10, 0)
       /\ told' = [Counter |-> 5, ID |-> query[3], Kind |-> DirRead + ReplyBit, about |-> [value |-> v]]
       /\ turn' = "reader"
  BY <1>3 DEF Says, low, high
<1> HIDE DEF body
<1>12. /\ IsEvent(frame')
       /\ ParseEvent(frame').Counter = 5 /\ ParseEvent(frame').ID = query[3]
       /\ ParseEvent(frame').Kind = DirRead + ReplyBit /\ ParseEvent(frame').Value = body[1] + 256 * body[2]
  <2> DEFINE msg  == query[3]
             kind == DirRead + ReplyBit
             n    == 10
  <2>1. msg \in Int /\ kind \in Int /\ n \in Nat /\ n >= 8
    BY <1>6, <1>7
  <2>2. frame' = Padded(<<EventHeader, 5, msg, kind, 3, 0>> \o body, n, 0)
    BY <1>11
  <2> HIDE DEF msg, kind, n
  <2>3. /\ IsEvent(frame')
        /\ ParseEvent(frame').Counter = 5 /\ ParseEvent(frame').ID = msg
        /\ ParseEvent(frame').Kind = kind /\ ParseEvent(frame').Value = body[1] + 256 * body[2]
    <3> DEFINE b == Padded(<<EventHeader, 5, msg, kind, 3, 0>> \o body, n, 0)
    <3>1. body \in Seq(Int) /\ Len(body) >= 2 /\ 3 \in Int
      BY <1>7, <1>10
    <3>2. /\ IsEvent(b)
          /\ ParseEvent(b).Counter = 5 /\ ParseEvent(b).ID = msg
          /\ ParseEvent(b).Kind = kind /\ ParseEvent(b).Value = body[1] + 256 * body[2]
      BY <2>1, <3>1, NumberIsHeard
    <3>3. QED
      BY <2>2, <3>2
  <2>4. QED
    BY <2>3 DEF msg, kind
<1>13. ParseEvent(frame').Value = v
  BY <1>8, <1>10, <1>12
<1>14. Agrees(Heard(frame'), told', call, panel)
  BY <1>2, <1>5, <1>11, <1>12, <1>13, NumberAgrees
<1>15. QED
  BY <1>1, <1>4, <1>11, <1>14 DEF BInv

LEMMA AnnounceOk == BInv /\ Announce => BInv'
<1> SUFFICES ASSUME BInv, Announce
             PROVE  BInv'
  OBVIOUS
<1>1. call \in Calls /\ query = QueryOf(call) /\ query = <<>> /\ call' = call /\ panel' \in Supported
  BY DEF BInv, Announce
<1>2. call.do = "listen"
  BY <1>1, QueriesTellCalls
<1> DEFINE low == LittleEndian(panel')
           all == low \o low
<1>3. PICK n \in {8, 9, 19} :
          Says(KindNotify, MsgNativeDisplayMode, 1,
               SubSeq(all, 1, IF n = 8 THEN 2 ELSE 4), [value |-> panel'], n)
  BY DEF Announce
<1>4. low \in Seq(Int) /\ Len(low) = 2 /\ low[1] + 256 * low[2] = panel'
  BY <1>1, TwoBytes, ExchangeAssumption
<1> HIDE DEF low
<1> DEFINE k    == IF n = 8 THEN 2 ELSE 4
           body == SubSeq(all, 1, k)
<1>5. all \in Seq(Int) /\ Len(all) = 4 /\ all[1] = low[1] /\ all[2] = low[2]
  <2>1. /\ all \in Seq(Int) /\ Len(all) = Len(low) + Len(low)
        /\ \A i \in 1..Len(low) : all[i] = low[i]
    BY <1>4, Joined
  <2> HIDE DEF all
  <2>2. \A i \in 1..2 : all[i] = low[i]
    BY <1>4, <2>1
  <2>3. QED
    BY <1>4, <2>1, <2>2
<1>6. k \in {2, 4}
  OBVIOUS
<1> HIDE DEF all, k
<1>7. body \in Seq(Int) /\ Len(body) >= 2 /\ body[1] = low[1] /\ body[2] = low[2]
  <2>1. \A i \in 1..k : all[i] \in Int
    <3>1. \A i \in 1..k : i \in 1..Len(all)
      BY <1>5, <1>6
    <3>2. all \in Seq(Int)
      BY <1>5
    <3>3. QED
      BY <3>1, <3>2
  <2>2. body \in Seq(Int) /\ Len(body) = k /\ \A i \in 1..k : body[i] = all[1 + i - 1]
    BY <1>6, <2>1, SubSeqProperties
  <2> HIDE DEF body
  <2>3. body[1] = all[1 + 1 - 1] /\ body[2] = all[1 + 2 - 1]
    BY <1>6, <2>2
  <2>4. QED
    BY <1>5, <1>6, <2>2, <2>3
<1>8. /\ frame' = Padded(<<EventHeader, 5, MsgNativeDisplayMode, KindNotify, 1, 0>> \o body, n, 0)
      /\ told' = [Counter |-> 5, ID |-> MsgNativeDisplayMode, Kind |-> KindNotify, about |-> [value |-> panel']]
      /\ turn' = "reader"
  BY <1>3 DEF Says, k
<1> HIDE DEF body
<1>9. KindNotify \in Int /\ MsgNativeDisplayMode \in Int /\ 1 \in Int /\ n \in Nat /\ n >= 8
  BY <1>3, SMT DEF KindNotify, MsgNativeDisplayMode
<1>10. /\ IsEvent(frame')
       /\ ParseEvent(frame').Counter = 5 /\ ParseEvent(frame').ID = MsgNativeDisplayMode
       /\ ParseEvent(frame').Kind = KindNotify /\ ParseEvent(frame').Value = body[1] + 256 * body[2]
  BY <1>7, <1>8, <1>9, NumberIsHeard, SMTT(40)
<1>11. ParseEvent(frame').Value = panel'
  BY <1>4, <1>7, <1>10
<1>12. Agrees(Heard(frame'), told', call, panel')
  BY <1>2, <1>8, <1>10, <1>11, NumberAgrees
<1>13. QED
  BY <1>1, <1>8, <1>12 DEF BInv

LEMMA SpellOk == BInv /\ Spell => BInv'
<1> SUFFICES ASSUME BInv, Spell
             PROVE  BInv'
  OBVIOUS
<1>1. /\ panel \in Supported /\ call \in Calls /\ query = QueryOf(call) /\ query = <<>>
      /\ call' = call /\ panel' = panel /\ turn' = "reader"
  BY DEF BInv, Spell
<1>2. call.do = "listen"
  BY <1>1, QueriesTellCalls
<1>3. PICK t \in Texts, pad \in {0, 255}, n \in {12, 16}, extra \in {0, 240} :
          /\ Len(t) + header <= n
          /\ frame' = Padded(<<EventHeader, 5, 3, KindReply, Len(t) + 1 + extra, 0, 14, 4, 0>> \o t, n, pad)
          /\ told' = [Counter |-> 5, ID |-> 3, Kind |-> KindReply, about |-> [text |-> t]]
  BY DEF Spell
<1>4. t \in Seq(Int) /\ (t # <<>> => t[Len(t)] \notin Padding) /\ pad \in Padding /\ n \in Nat /\ extra \in Nat
  <2>1. t \in Seq(Octet) /\ (t # <<>> => t[Len(t)] \notin {0, 255})
    BY <1>3, ExchangeAssumption, SMT DEF Octet
  <2>2. t \in Seq(Int)
    <3>1. Octet \subseteq Int
      BY SMT DEF Octet
    <3>2. t \in Seq(Octet)
      BY <2>1, SMT
    <3>3. QED
      BY <3>1, <3>2, SeqMonotonic
  <2>3. pad \in Padding /\ n \in Nat /\ extra \in Nat
    BY <1>3, SMT DEF Padding
  <2>4. QED
    BY <2>1, <2>2, <2>3, SMT DEF Padding
<1>5. /\ IsEvent(frame')
      /\ ParseEvent(frame').Counter = 5 /\ ParseEvent(frame').ID = 3 /\ ParseEvent(frame').Kind = KindReply
      /\ ParseEvent(frame').Text = t
  <2> DEFINE b == TextFrame(t, n, pad, extra)
  <2>1. frame' = b
    BY <1>3 DEF TextFrame
  <2>2. Len(t) + header <= n
    BY <1>3
  <2>3. /\ IsEvent(b)
        /\ ParseEvent(b).Counter = 5 /\ ParseEvent(b).ID = 3 /\ ParseEvent(b).Kind = KindReply
        /\ ParseEvent(b).Text = t
    BY <1>4, <2>2, TextIsHeard
  <2>4. QED
    BY <2>1, <2>3
<1>6. Agrees(Heard(frame'), told', call, panel)
  BY <1>2, <1>3, <1>5, TextAgrees, SMT
<1>7. QED
  BY <1>1, <1>6 DEF BInv

LEMMA IntrudeOk == BInv /\ Intrude => BInv'
<1> SUFFICES ASSUME BInv, Intrude
             PROVE  BInv'
  OBVIOUS
<1>1. /\ panel \in Supported /\ call \in Calls /\ query = QueryOf(call) /\ query = <<>> /\ told = <<>>
      /\ call' = call /\ panel' = panel /\ told' = told /\ turn' = "reader" /\ frame' \in Foreign
  BY DEF BInv, Intrude
<1>2. call.do = "listen"
  BY <1>1, QueriesTellCalls
<1>3. Heard(frame') = <<>>
  BY <1>1, ExchangeAssumption DEF Heard
<1>4. Agrees(<<>>, <<>>, call, panel)
  BY <1>2 DEF Agrees
<1>5. QED
  BY <1>1, <1>3, <1>4 DEF BInv

LEMMA ExchangeStep == BInv /\ [BNext]_bvars => BInv'
<1> SUFFICES ASSUME BInv, [BNext]_bvars
             PROVE  BInv'
  OBVIOUS
<1>1. CASE Ask
  BY <1>1 DEF BInv, Ask, QueryOf
<1>2. CASE Hear
  BY <1>2 DEF BInv, Hear, Heard
<1>3. CASE UNCHANGED bvars
  BY <1>3 DEF BInv, bvars
<1>4. QED
  BY <1>1, <1>2, <1>3, ObeyOk, TellOk, AnnounceOk, SpellOk, IntrudeOk DEF BNext

\* For every set of modes a panel may have, every call and every text: an event says
\* what the headset meant, and what the client asked for has happened exactly when
\* the headset says so (command, ParseEvent, textOf).
THEOREM ExchangeExact == BSpec => []ExchangeIsExact
<1>1. BInv => ExchangeIsExact
  BY DEF BInv, Agrees, ExchangeIsExact
<1>2. QED
  BY <1>1, ExchangeInit, ExchangeStep, PTL DEF BSpec

-----------------------------------------------------------------------------
(* What serialprobe reads.                                                   *)

SSpec == SInit /\ [][SNext]_svars

\* The stream is one that it may meet, the places in it are in order, and the buffer
\* holds what lies between two of them; before a listening there is nothing in it.
Reads ==
    /\ args \in Lines
    /\ stream.bytes \in Seq(0..255) /\ stream.ends \subseteq 0..Len(stream.bytes)
    /\ arrived \in 0..Len(stream.bytes) /\ gone \in 0..arrived /\ start \in 0..gone
    /\ buf = SubSeq(stream.bytes, start + 1, gone)
    /\ place \in {"open", "lines", "flush"} => buf = <<>>

\* Where the program is says which of the three devices it has open.
Ends ==
    /\ place \in Connected \cup {SelfTest[i] : i \in 1..8} \cup {"next", "open", "done"}
    /\ place \in {"ptmx", "grantpt", "unlockpt", "ptsname", "nonblock", "slave", "fill"} =>
          round = ReadBack /\ open = NoPort
    /\ place = "ptmx" => pty = {}
    /\ place \in {"grantpt", "unlockpt", "ptsname", "nonblock", "slave"} => pty = {"master"}
    /\ place = "fill" => pty = {"master", "slave"}
    /\ place \in Draining \cup {"report"} =>
          \/ round \in {ReadBack, IdleRead} /\ pty = {"master", "slave"} /\ open = NoPort
          \/ round \in {Unprompted, Reply} /\ pty = {} /\ open # NoPort
    /\ place \in {"lines", "flush", "outbound", "write"} =>
          round = Unprompted /\ pty = {} /\ open # NoPort
    /\ place \in {"next", "open", "done"} => pty = {}
    /\ place \in {"open", "done"} => open = NoPort
    /\ place = "open" => round = Unprompted

LEMMA ReadsInit == SInit => Reads
<1> SUFFICES ASSUME SInit
             PROVE  Reads
  OBVIOUS
<1>1. args \in Lines /\ arrived = 0 /\ gone = 0 /\ start = 0 /\ buf = <<>>
  BY DEF SInit
<1>2. stream.bytes \in Seq(0..255) /\ stream.ends \subseteq 0..Len(stream.bytes)
  BY StreamsAssumption DEF SInit
<1>3. SubSeq(stream.bytes, 1, 0) = <<>>
  BY SubSeqEmpty
<1>4. QED
  BY <1>1, <1>2, <1>3 DEF Reads

\* Nothing lies between a place and itself.
LEMMA NothingBetween == \A n \in Nat : SubSeq(stream.bytes, n + 1, n) = <<>>
BY SubSeqEmpty

LEMMA ReadsStep == Reads /\ [SNext]_svars => Reads'
<1> SUFFICES ASSUME Reads, [SNext]_svars
             PROVE  Reads'
  OBVIOUS
<1>1. gone \in Nat /\ arrived \in Nat /\ start \in Nat
  BY DEF Reads
<1>2. ASSUME UNCHANGED <<args, stream, arrived, gone>>,
             \/ UNCHANGED <<start, buf>>
             \/ start' = gone /\ buf' = <<>>,
             place' \in {"open", "lines", "flush"} => buf' = <<>>
      PROVE  Reads'
  <2>1. CASE UNCHANGED <<start, buf>>
    BY <1>2, <2>1 DEF Reads
  <2>2. CASE start' = gone /\ buf' = <<>>
    <3>1. SubSeq(stream.bytes, gone + 1, gone) = <<>>
      BY <1>1, NothingBetween
    <3>2. (buf = SubSeq(stream.bytes, start + 1, gone))'
      BY <1>2, <2>2, <3>1
    <3>3. QED
      BY <1>1, <1>2, <2>2, <3>2 DEF Reads
  <2>3. QED
    BY <1>2, <2>1, <2>2
<1>3. CASE Prepare
  BY <1>2, <1>3 DEF Prepare, Goto, Abandon, SelfTest
<1>4. CASE Echoed
  BY <1>2, <1>4 DEF Echoed, Goto, Abandon, Listen
<1>5. CASE Silent
  BY <1>2, <1>5 DEF Silent, Goto, Abandon
<1>6. CASE Next_Cell
  BY <1>2, <1>6 DEF Next_Cell, Goto
<1>7. CASE OpenPort
  <2>1. CASE Goto("next") /\ UNCHANGED <<stream, arrived, gone, start>>
    BY <1>2, <1>7, <2>1 DEF OpenPort, Goto
  <2>2. CASE /\ stream' \in args.streams /\ arrived' \in stream'.ends
             /\ gone' = 0 /\ start' = 0
    <3>1. args' = args /\ args \in Lines /\ buf' = <<>>
      BY <1>7 DEF OpenPort, Reads
    <3>2. stream'.bytes \in Seq(0..255) /\ stream'.ends \subseteq 0..Len(stream'.bytes)
      BY <2>2, <3>1, StreamsAssumption
    <3>3. SubSeq(stream'.bytes, 1, 0) = <<>>
      BY SubSeqEmpty
    <3>4. QED
      BY <2>2, <3>1, <3>2, <3>3 DEF Reads
  <2>3. QED
    BY <1>7, <2>1, <2>2 DEF OpenPort
<1>8. CASE SetBits
  BY <1>2, <1>8 DEF SetBits, Goto, Reads
<1>9. CASE Flush
  <2>1. /\ UNCHANGED <<args, stream, arrived, buf>> /\ start' = gone'
        /\ buf = <<>> /\ place' \notin {"open", "lines", "flush"}
    BY <1>9 DEF Flush, Goto, cellvars, Reads
  <2>2. PICK n \in {gone, arrived} : gone' = n
    BY <1>9 DEF Flush
  <2>3. n \in 0..arrived /\ n \in Nat
    BY <1>1 DEF Reads
  <2>4. SubSeq(stream.bytes, n + 1, n) = <<>>
    BY <2>3, NothingBetween
  <2>5. (buf = SubSeq(stream.bytes, start + 1, gone))'
    BY <2>1, <2>2, <2>4
  <2>6. gone' \in 0..arrived' /\ start' \in 0..gone'
    BY <2>1, <2>2, <2>3
  <2>7. QED
    BY <2>1, <2>5, <2>6 DEF Reads
<1>10. CASE Outbound \/ WritePayload \/ SetDeadline \/ Timeout \/ Check \/ Report \/ Hangup \/ TimePasses
  BY <1>2, <1>10 DEF Outbound, WritePayload, SetDeadline, Timeout, Check, Report, Hangup, TimePasses,
                     Goto, Abandon, Listen, Return, cellvars, Draining
<1>11. CASE ReadData
  <2>1. PICK n \in ReadEnds : buf' = buf \o SubSeq(stream.bytes, gone + 1, n) /\ gone' = n
    BY <1>11 DEF ReadData
  <2>2. gone < n /\ n <= arrived /\ n \in Nat
    <3>1. n \in stream.ends \cup {gone + Room} /\ gone < n /\ n <= arrived
      BY DEF ReadEnds
    <3>2. Room \in Int
      BY BufferAssumption, LenProperties DEF Room, Reads
    <3>3. QED
      BY <1>1, <3>1, <3>2 DEF Reads
  <2>3. SubSeq(stream.bytes, start + 1, gone) \o SubSeq(stream.bytes, gone + 1, n)
          = SubSeq(stream.bytes, start + 1, n)
    <3>1. /\ start + 1 \in 1..Len(stream.bytes) + 1
          /\ gone \in (start + 1) - 1..Len(stream.bytes)
          /\ n \in gone..Len(stream.bytes)
      BY <1>1, <2>2, LenProperties DEF Reads
    <3>2. QED
      BY <3>1, ConcatAdjacentSubSeq DEF Reads
  <2>4. /\ UNCHANGED <<args, stream, arrived, start>>
        /\ place' \notin {"open", "lines", "flush"}
    BY <1>11 DEF ReadData, Goto, cellvars
  <2>5. QED
    BY <1>1, <2>1, <2>2, <2>3, <2>4, SMTT(40) DEF Reads
<1>12. CASE Arrive
  <2>1. PICK n \in stream.ends : n > arrived /\ arrived' = n
    BY <1>12 DEF Arrive
  <2>2. UNCHANGED <<args, stream, gone, start, buf, place>>
    BY <1>12 DEF Arrive, cellvars
  <2>3. n \in 0..Len(stream.bytes)
    BY DEF Reads
  <2>4. QED
    <3>1. arrived' \in 0..Len(stream.bytes) /\ gone \in 0..arrived'
      BY <1>1, <2>1, <2>3, LenProperties DEF Reads
    <3>2. QED
      BY <2>2, <3>1 DEF Reads
<1>13. CASE UNCHANGED svars
  BY <1>2, <1>13 DEF svars, cellvars, Reads
<1>14. QED
  BY <1>3, <1>4, <1>5, <1>6, <1>7, <1>8, <1>9, <1>10, <1>11, <1>12, <1>13 DEF SNext, SProgram

\* "Drain returns everything that arrived": whatever the other side sends, in pieces
\* of any size, and whenever a deadline passes, what a listening has taken from the
\* queue is in the program's buffer, whole and in order.
THEOREM NothingLost == SSpec => []DrainLosesNothing
<1>1. Reads => DrainLosesNothing
  BY DEF Reads, DrainLosesNothing
<1>2. QED
  BY <1>1, ReadsInit, ReadsStep, PTL DEF SSpec

LEMMA EndsInit == SInit => Ends
<1> SUFFICES ASSUME SInit
             PROVE  Ends
  OBVIOUS
<1>1. SelfTest[1] = "ptmx" /\ 1 \in 1..8
  BY DEF SelfTest
<1>2. place \in {"ptmx", "done"} /\ round = ReadBack /\ pty = {} /\ open = NoPort
  BY DEF SInit
<1>3. QED
  BY <1>1, <1>2 DEF Ends, Connected, Draining

\* The path of a configuration is the path of a port.
LEMMA PathsArePorts == Setting(cell).path # NoPort
<1>1. \A p, prefix : resolve(p, prefix).dir = "/dev/"
  BY DEF resolve, Path
<1>2. \E p, prefix : Setting(cell).path = resolve(p, prefix)
  BY DEF Setting
<1>3. NoPort.dir = ""
  BY DEF NoPort, Path
<1>4. QED
  BY <1>1, <1>2, <1>3

LEMMA EndsStep == Ends /\ [SNext]_svars => Ends'
<1> SUFFICES ASSUME Ends, [SNext]_svars
             PROVE  Ends'
  OBVIOUS
<1> USE DEF Ends, Connected, Draining, ReadBack, IdleRead, Unprompted, Reply
<1>1. CASE Prepare
  BY <1>1 DEF Prepare, Goto, Abandon, SelfTest, Opens
<1>2. CASE Echoed
  BY <1>2 DEF Echoed, Goto, Abandon, Listen
<1>3. CASE Silent
  BY <1>3 DEF Silent, Goto, Abandon
<1>4. CASE Next_Cell
  BY <1>4 DEF Next_Cell, Goto
<1>5. CASE OpenPort
  BY <1>5, PathsArePorts DEF OpenPort, Goto
<1>6. CASE SetBits \/ Flush
  BY <1>6 DEF SetBits, Flush, Goto, cellvars
<1>7. CASE Outbound
  BY <1>7 DEF Outbound, Goto, Abandon
<1>8. CASE WritePayload
  BY <1>8 DEF WritePayload, Goto, Listen, cellvars
<1>9. CASE SetDeadline \/ Timeout \/ Check \/ Hangup \/ ReadData
  BY <1>9 DEF SetDeadline, Timeout, Check, Hangup, ReadData, Return, Goto, cellvars
<1>10. CASE Report
  BY <1>10 DEF Report, Goto, cellvars
<1>11. CASE Arrive \/ TimePasses
  BY <1>11 DEF Arrive, TimePasses, cellvars
<1>12. CASE UNCHANGED svars
  BY <1>12 DEF svars, cellvars
<1>13. QED
  BY <1>1, <1>2, <1>3, <1>4, <1>5, <1>6, <1>7, <1>8, <1>9, <1>10, <1>11, <1>12 DEF SNext, SProgram

\* Whatever fails, serialprobe listens to the two ends of one pseudo-terminal or to
\* one port, and has closed what it opened when it is over (selftest, darwinLoopback,
\* once).
THEOREM NothingLeftBehind == SSpec => []OneAtATime
<1>1. Ends => OneAtATime
  BY DEF Ends, OneAtATime, Draining, Connected, ReadBack, IdleRead, Unprompted, Reply
<1>2. QED
  BY <1>1, EndsInit, EndsStep, PTL DEF SSpec

\* A port is open for the configuration.
Serving ==
    \/ place \in {"lines", "flush", "outbound", "write"}
    \/ place \in Draining \cup {"report"} /\ round >= Unprompted

\* How far it is, what has been tried, and what the port of this configuration is like.
Cells ==
    /\ cell \in 0..Settings /\ raised \subseteq {DTR, RTS}
    /\ place \in {"ptmx", "grantpt", "unlockpt", "ptsname", "nonblock", "slave", "fill"} => cell = 0
    /\ round < Unprompted => cell = 0
    /\ place # "done" => tried = {Setting(n) : n \in 1..cell - 1}
    /\ place = "done" /\ ~error /\ cell > 0 => tried = {Setting(n) : n \in 1..Settings}
    /\ place = "open" \/ Serving => cell > 0
    /\ Serving => open = Setting(cell).path
    /\ Serving /\ place # "lines" => unset \/ raised = Setting(cell).lines

\* The sixteen configurations are all that there are.
LEMMA CellIs ==
    ASSUME args.sweep, NEW i \in 0..1, NEW j \in 0..3, NEW m \in 0..1
    PROVE  Setting(8 * i + 2 * j + m + 1) =
              [path  |-> Path("/dev/", prefixes[1 + i], args.port.base),
               baud  |-> sweepBauds[1 + j],
               lines |-> asserted[1 + m]]
<1> DEFINE n == 8 * i + 2 * j + m + 1
<1>1. (n - 1) \div 8 = i /\ ((n - 1) \div 2) % 4 = j /\ (n - 1) % 2 = m
  <2>1. i = 0 \/ i = 1
    OBVIOUS
  <2>2. j = 0 \/ j = 1 \/ j = 2 \/ j = 3
    OBVIOUS
  <2>3. m = 0 \/ m = 1
    OBVIOUS
  <2>4. QED
    BY <2>1, <2>2, <2>3, SMT
<1>2. prefixes[1 + i] # ""
  <2>1. prefixes[1 + 0] = "cu." /\ prefixes[1 + 1] = "tty."
    BY SMT DEF prefixes
  <2>2. i = 0 \/ i = 1
    OBVIOUS
  <2>3. QED
    BY <2>1, <2>2
<1>3. resolve(args.port, prefixes[1 + i]) = Path("/dev/", prefixes[1 + i], args.port.base)
  BY <1>2 DEF resolve, BaseName
<1> HIDE DEF n
<1>4. Setting(n) = [path  |-> resolve(args.port, prefixes[1 + i]),
                    baud  |-> sweepBauds[1 + j],
                    lines |-> asserted[1 + m]]
  BY <1>1 DEF Setting
<1>5. QED
  BY <1>3, <1>4 DEF n

\* The sixteen configurations of a sweep: both nodes, four rates, lines up and down.
AllSixteen ==
    [path  : {Path("/dev/", node, args.port.base) : node \in {"cu.", "tty."}},
     baud  : {115200, 921600, 1000000, 3000000},
     lines : {{}, {DTR, RTS}}]

SettingsUpTo(last) == {Setting(n) : n \in 1..last}

LEMMA AllCells ==
    ASSUME args.sweep
    PROVE  {Setting(n) : n \in 1..16} =
              [path  : {Path("/dev/", node, args.port.base) : node \in {"cu.", "tty."}},
               baud  : {115200, 921600, 1000000, 3000000},
               lines : {{}, {DTR, RTS}}]
<1>1. \A i \in 0..1 : prefixes[1 + i] \in {"cu.", "tty."}
  BY SMT DEF prefixes
<1>2. \A j \in 0..3 : sweepBauds[1 + j] \in {115200, 921600, 1000000, 3000000}
  BY SMT DEF sweepBauds
<1>3. \A m \in 0..1 : asserted[1 + m] \in {{}, {DTR, RTS}}
  BY SMT DEF asserted
<1>4. ASSUME NEW n \in 1..16
      PROVE  Setting(n) \in [path  : {Path("/dev/", node, args.port.base) : node \in {"cu.", "tty."}},
                             baud  : {115200, 921600, 1000000, 3000000},
                             lines : {{}, {DTR, RTS}}]
  <2>1. \E i \in 0..1, j \in 0..3, m \in 0..1 : n = 8 * i + 2 * j + m + 1
    <3> DEFINE i == (n - 1) \div 8
               j == ((n - 1) \div 2) % 4
               m == (n - 1) % 2
    <3>1. i \in 0..1 /\ j \in 0..3 /\ m \in 0..1 /\ n = 8 * i + 2 * j + m + 1
      BY <1>4, SMT
    <3> HIDE DEF i, j, m
    <3>2. QED
      BY <3>1
  <2>2. PICK i \in 0..1, j \in 0..3, m \in 0..1 : n = 8 * i + 2 * j + m + 1
    BY <2>1
  <2>3. Setting(n) = [path  |-> Path("/dev/", prefixes[1 + i], args.port.base),
                      baud  |-> sweepBauds[1 + j],
                      lines |-> asserted[1 + m]]
    BY <2>2, CellIs
  <2>4. QED
    BY <1>1, <1>2, <1>3, <2>3
<1>5. QED
  <2> DEFINE all == [path  : {Path("/dev/", node, args.port.base) : node \in {"cu.", "tty."}},
                     baud  : {115200, 921600, 1000000, 3000000},
                     lines : {{}, {DTR, RTS}}]
  <2>1. {Setting(n) : n \in 1..16} \subseteq all
    BY <1>4
  <2>2. ASSUME NEW r \in all
        PROVE  r \in {Setting(n) : n \in 1..16}
    <3>1. /\ r = [path |-> r.path, baud |-> r.baud, lines |-> r.lines]
          /\ r.baud \in {115200, 921600, 1000000, 3000000} /\ r.lines \in {{}, {DTR, RTS}}
          /\ r.path \in {Path("/dev/", node, args.port.base) : node \in {"cu.", "tty."}}
      OBVIOUS
    <3>2. PICK i \in 0..1 : r.path = Path("/dev/", prefixes[1 + i], args.port.base)
      <4>1. prefixes[1 + 0] = "cu." /\ prefixes[1 + 1] = "tty."
        BY SMT DEF prefixes
      <4>2. QED
        BY <3>1, <4>1
    <3>3. PICK j \in 0..3 : r.baud = sweepBauds[1 + j]
      <4>1. /\ sweepBauds[1 + 0] = 115200 /\ sweepBauds[1 + 1] = 921600
            /\ sweepBauds[1 + 2] = 1000000 /\ sweepBauds[1 + 3] = 3000000
        BY SMT DEF sweepBauds
      <4>2. QED
        BY <3>1, <4>1, SMT
    <3>4. PICK m \in 0..1 : r.lines = asserted[1 + m]
      <4>1. asserted[1 + 0] = {} /\ asserted[1 + 1] = {DTR, RTS}
        BY SMT DEF asserted
      <4>2. QED
        BY <3>1, <4>1
    <3> HIDE DEF all
    <3>5. Setting(8 * i + 2 * j + m + 1) = [path  |-> Path("/dev/", prefixes[1 + i], args.port.base),
                                            baud  |-> sweepBauds[1 + j],
                                            lines |-> asserted[1 + m]]
      BY CellIs
    <3>6. r = Setting(8 * i + 2 * j + m + 1)
      <4>1. r = [path  |-> Path("/dev/", prefixes[1 + i], args.port.base),
                 baud  |-> sweepBauds[1 + j],
                 lines |-> asserted[1 + m]]
        BY <3>1, <3>2, <3>3, <3>4
      <4>2. QED
        BY <3>5, <4>1
    <3>7. 8 * i + 2 * j + m + 1 \in 1..16
      OBVIOUS
    <3>8. QED
      BY <3>6, <3>7
  <2> HIDE DEF all
  <2>3. {Setting(n) : n \in 1..16} = all
    BY <2>1, <2>2
  <2>4. QED
    BY <2>3 DEF all

LEMMA CellsInit == SInit => Cells
<1> SUFFICES ASSUME SInit
             PROVE  Cells
  OBVIOUS
<1>1. /\ cell = 0 /\ tried = {} /\ raised = {} /\ round = -1 /\ place \in {"ptmx", "done"}
      /\ 0 \in 0..Settings
  BY DEF SInit, ReadBack, Settings
<1>2. {Setting(n) : n \in 1..0 - 1} = {}
  BY SMT
<1>3. QED
  BY <1>1, <1>2 DEF Cells, Serving, Draining, Unprompted

LEMMA CellsStep == Cells /\ Ends /\ Reads /\ [SNext]_svars => Cells'
<1> SUFFICES ASSUME Cells, Ends, Reads, [SNext]_svars
             PROVE  Cells'
  OBVIOUS
<1>1. args' = args
  BY DEF SNext, SProgram, Prepare, Echoed, Silent, Next_Cell, OpenPort, SetBits, Flush, Outbound, WritePayload,
         SetDeadline, ReadData, Timeout, Check, Report, Hangup, Arrive, TimePasses, svars, cellvars
<1>2. Settings' = Settings /\ Settings \in {1, 16}
  BY <1>1 DEF Settings
<1>3. \A n : Setting(n)' = Setting(n)
  BY <1>1 DEF Setting
<1> USE DEF Cells, Serving, Draining, Connected, Unprompted, Reply, ReadBack, IdleRead
\* A step that leaves the configuration alone.
<1>4. ASSUME UNCHANGED <<cell, tried, open, raised, unset, error>>,
             place' \in {"ptmx", "grantpt", "unlockpt", "ptsname", "nonblock", "slave", "fill"} => cell = 0,
             round' < Unprompted => cell = 0,
             place # "done", place' # "done", place' # "open",
             Serving' => Serving /\ place # "lines"
      PROVE  Cells'
  BY <1>1, <1>2, <1>3, <1>4
<1>5. CASE Prepare
  <2>1. cell = 0
    BY <1>5 DEF Prepare, SelfTest
  <2>2. QED
    BY <1>1, <1>2, <1>3, <1>5, <2>1 DEF Prepare, Goto, Abandon, SelfTest, Ends
<1>6. CASE Echoed
  BY <1>1, <1>2, <1>3, <1>6 DEF Echoed, Goto, Abandon, Listen
<1>7. CASE Silent
  BY <1>1, <1>2, <1>3, <1>7 DEF Silent, Goto, Abandon
<1>8. CASE Next_Cell
  <2>1. tried \cup (IF cell = 0 THEN {} ELSE {Setting(cell)}) = {Setting(n) : n \in 1..cell}
    <3>1. tried = {Setting(n) : n \in 1..cell - 1} /\ cell \in Nat
      BY <1>2, <1>8 DEF Next_Cell
    <3>2. CASE cell = 0
      BY <3>1, <3>2, SMT
    <3>3. CASE cell # 0
      <4>1. 1..cell = 1..cell - 1 \cup {cell}
        BY <3>1, <3>3, SMT
      <4>2. QED
        BY <3>1, <3>3, <4>1
    <3>4. QED
      BY <3>2, <3>3
  <2>2. tried' = {Setting(n) : n \in 1..cell}
    BY <1>8, <2>1 DEF Next_Cell
  <2>3. raised' = raised
    BY <1>8 DEF Next_Cell
  <2>4. CASE cell < Settings
    <3>1. cell' = cell + 1 /\ place' = "open" /\ round' = 1
      BY <1>8, <2>4 DEF Next_Cell, Goto
    <3>2. cell' \in 0..Settings /\ cell' > 0 /\ cell' - 1 = cell
      BY <1>2, <2>4, <3>1, SMT
    <3>3. (tried = {Setting(n) : n \in 1..cell - 1})'
      BY <1>3, <2>2, <3>2
    <3>4. QED
      BY <1>2, <2>3, <3>1, <3>2, <3>3
  <2>5. CASE ~(cell < Settings)
    <3>1. cell' = cell /\ place' = "done" /\ round' = round
      BY <1>8, <2>5 DEF Next_Cell, Goto
    <3>2. cell = Settings
      BY <1>2, <2>5
    <3>3. (tried = {Setting(n) : n \in 1..Settings})'
      BY <1>2, <1>3, <2>2, <3>2
    <3>4. QED
      BY <1>2, <2>3, <3>1, <3>3
  <2>6. QED
    BY <2>4, <2>5
<1>9. CASE OpenPort
  BY <1>1, <1>2, <1>3, <1>9 DEF OpenPort, Goto, Ends
<1>10. CASE SetBits
  <2>1. /\ place = "lines" /\ place' = "flush" /\ round' = round
        /\ UNCHANGED <<cell, tried, open, error>>
    BY <1>10 DEF SetBits, Goto
  <2>2. Setting(cell).lines \subseteq {DTR, RTS}
    <3>1. args.lines \subseteq {DTR, RTS}
      BY LinesAssumption DEF Reads
    <3>2. CASE args.sweep
      <4>1. asserted[1 + ((cell - 1) % 2)] \in {{}, {DTR, RTS}}
        <5>1. (cell - 1) % 2 \in {0, 1}
          BY <1>2, SMT
        <5>2. asserted[1 + 0] = {} /\ asserted[1 + 1] = {DTR, RTS}
          BY SMT DEF asserted
        <5>3. QED
          BY <5>1, <5>2
      <4>2. Setting(cell).lines = asserted[1 + ((cell - 1) % 2)]
        BY <3>2 DEF Setting
      <4>3. QED
        BY <4>1, <4>2
    <3>3. CASE ~args.sweep
      BY <3>1, <3>3 DEF Setting
    <3>4. QED
      BY <3>2, <3>3
  <2>3. raised' \subseteq {DTR, RTS} /\ (unset' \/ raised' = Setting(cell).lines)
    <3> DEFINE set   == Setting(cell).lines
               clear == {DTR, RTS} \ set
    <3>1. \/ raised' = (raised \cup set) \ clear
          \/ raised' \in {raised} \cup {raised \cup set : l \in clear} /\ unset' = TRUE
      BY <1>10 DEF SetBits
    <3> HIDE DEF set
    <3>2. set \subseteq {DTR, RTS} /\ raised \subseteq {DTR, RTS}
      BY <2>2 DEF set
    <3>3. (raised \cup set) \ clear = set
      BY <3>2
    <3>4. QED
      BY <3>1, <3>2, <3>3 DEF set
  <2>4. Setting(cell)' = Setting(cell)
    BY <1>1, <2>1 DEF Setting
  <2>5. (tried = {Setting(n) : n \in 1..cell - 1})'
    BY <1>3, <2>1
  <2>6. QED
    BY <1>2, <2>1, <2>3, <2>4, <2>5
<1>11. CASE Flush \/ WritePayload \/ SetDeadline \/ ReadData \/ Timeout \/ Hangup \/ Check \/ Report
  BY <1>4, <1>11 DEF Flush, WritePayload, SetDeadline, ReadData, Timeout, Hangup, Check, Report, Return,
                     Listen, Goto, cellvars, Ends
<1>12. CASE Outbound
  BY <1>1, <1>2, <1>3, <1>4, <1>12 DEF Outbound, Goto, Abandon, Ends
<1>13. CASE Arrive \/ TimePasses \/ UNCHANGED svars
  BY <1>1, <1>2, <1>3, <1>13 DEF Arrive, TimePasses, svars, cellvars
<1>14. QED
  BY <1>5, <1>6, <1>7, <1>8, <1>9, <1>10, <1>11, <1>12, <1>13 DEF SNext, SProgram

LEMMA AllSettings ==
    ASSUME args.sweep
    PROVE  SettingsUpTo(16) = AllSixteen
BY AllCells DEF SettingsUpTo, AllSixteen

LEMMA SweepFollows == Cells => SweepIsExact
<1> SUFFICES ASSUME Cells
             PROVE  SweepIsExact
  OBVIOUS
<1>1. ASSUME place \in Draining, round >= Unprompted
      PROVE  open = Setting(cell).path /\ (unset \/ raised = Setting(cell).lines)
  BY <1>1 DEF Cells, Serving, Draining
<1>2. ASSUME place = "done", args.sweep, ~error, cell > 0
      PROVE  tried = AllSixteen
  <2>1. tried = SettingsUpTo(16)
    BY <1>2 DEF Cells, Settings, SettingsUpTo
  <2>2. QED
    BY <1>2, <2>1, AllSettings
<1>3. QED
  BY <1>1, <1>2 DEF SweepIsExact, AllSixteen

\* "To be able to say afterwards exactly what was tried": whatever the driver does with
\* the modem lines and whichever openings fail, a port is listened to as its
\* configuration says, and a sweep that comes to its end has tried all sixteen.
THEOREM SweepsAreExact == SSpec => []SweepIsExact
BY SweepFollows, ReadsInit, ReadsStep, EndsInit, EndsStep, CellsInit, CellsStep, PTL DEF SSpec

-----------------------------------------------------------------------------
(* The types, and the room in the buffer.                                    *)

\* A round is known, and what is in the buffer fits there.
Fitting ==
    /\ round \in ReadBack..Reply
    /\ late \in BOOLEAN /\ failed \in BOOLEAN /\ unset \in BOOLEAN /\ error \in BOOLEAN
    /\ Room >= 0

LEMMA FittingInit == SInit => Fitting
<1> SUFFICES ASSUME SInit
             PROVE  Fitting
  OBVIOUS
<1>1. round = -1 /\ Len(buf) = 0 /\ late = FALSE /\ failed = FALSE /\ unset = FALSE /\ error = FALSE
  BY DEF SInit, ReadBack
<1>2. Room = 64
  BY <1>1 DEF Room, Unprompted
<1>3. round \in ReadBack..Reply /\ Room >= 0
  BY <1>1, <1>2 DEF ReadBack, Reply
<1>4. QED
  BY <1>1, <1>3 DEF Fitting

\* What lies between two places of a sequence.
LEMMA SubSeqTyped ==
    ASSUME NEW S, NEW s \in Seq(S), NEW m \in Nat, NEW n \in Nat, m <= n, n <= Len(s)
    PROVE  /\ SubSeq(s, m + 1, n) \in Seq(S)
           /\ Len(SubSeq(s, m + 1, n)) = n - m
           /\ \A i \in 1..n - m : SubSeq(s, m + 1, n)[i] = s[m + i]
<1>1. \A i \in m + 1..n : s[i] \in S
  <2>1. TAKE i \in m + 1..n
  <2>2. i \in 1..Len(s)
    OBVIOUS
  <2>3. QED
    BY <2>2, ElementOfSeq
<1>2. /\ SubSeq(s, m + 1, n) \in Seq(S)
      /\ Len(SubSeq(s, m + 1, n)) = IF m + 1 <= n THEN n - (m + 1) + 1 ELSE 0
      /\ \A i \in 1..n - (m + 1) + 1 : SubSeq(s, m + 1, n)[i] = s[m + 1 + i - 1]
  BY <1>1, SubSeqProperties
<1>3. QED
  BY <1>2

\* A listening that begins has the whole buffer.
LEMMA RoomToBegin ==
    ASSUME Fitting, buf' = <<>>, round' \in ReadBack..Reply
    PROVE  Room' >= 0
<1>1. Len(buf') = 0
  OBVIOUS
<1>2. Room' \in {64, BufSize}
  <2>1. Room' = (IF round' < Unprompted THEN 64 ELSE BufSize) - Len(buf')
    BY DEF Room, Unprompted
  <2>2. QED
    BY <1>1, <2>1, BufferAssumption
<1>3. QED
  BY <1>2, BufferAssumption

LEMMA FittingStep == Fitting /\ Reads /\ [SNext]_svars => Fitting'
<1> SUFFICES ASSUME Fitting, Reads, [SNext]_svars
             PROVE  Fitting'
  OBVIOUS
<1> USE DEF ReadBack, IdleRead, Unprompted, Reply
<1> DEFINE Flags == late' \in BOOLEAN /\ failed' \in BOOLEAN /\ unset' \in BOOLEAN /\ error' \in BOOLEAN
           Kept  == UNCHANGED <<round, buf>>
           Empty == buf' = <<>> /\ round' \in -1..2
<1>1. ASSUME Flags, Kept
      PROVE  Fitting'
  BY <1>1 DEF Fitting, Room
<1>2. ASSUME Flags, Empty
      PROVE  Fitting'
  <2>1. Room' >= 0
    BY <1>2, RoomToBegin
  <2>2. QED
    BY <1>2, <2>1 DEF Fitting
<1>3. late \in BOOLEAN /\ failed \in BOOLEAN /\ unset \in BOOLEAN /\ error \in BOOLEAN /\ round \in -1..2
  BY DEF Fitting
<1>4. CASE Prepare
  BY <1>1, <1>3, <1>4 DEF Prepare, Abandon
<1>5. CASE Echoed
  <2>1. Flags
    BY <1>3, <1>5 DEF Echoed, Abandon, Listen
  <2>2. Kept \/ Empty
    BY <1>5 DEF Echoed, Listen
  <2>3. QED
    BY <1>1, <1>2, <2>1, <2>2
<1>6. CASE Silent
  <2>1. Flags
    BY <1>3, <1>6 DEF Silent, Abandon
  <2>2. Empty
    BY <1>6 DEF Silent
  <2>3. QED
    BY <1>2, <2>1, <2>2
<1>7. CASE Next_Cell
  <2>1. Flags
    BY <1>3, <1>7 DEF Next_Cell
  <2>2. Kept \/ Empty
    BY <1>7 DEF Next_Cell
  <2>3. QED
    BY <1>1, <1>2, <2>1, <2>2
<1>8. CASE OpenPort \/ SetBits \/ Outbound \/ Report
  <2>1. Flags /\ Kept
    BY <1>3, <1>8 DEF OpenPort, SetBits, Outbound, Abandon, Report, cellvars
  <2>2. QED
    BY <1>1, <2>1
<1>9. CASE Flush \/ Arrive \/ TimePasses
  BY <1>1, <1>3, <1>9 DEF Flush, Arrive, TimePasses, cellvars
<1>10. CASE WritePayload
  <2>1. Flags
    BY <1>3, <1>10 DEF WritePayload, Listen, cellvars
  <2>2. Kept \/ Empty
    BY <1>10 DEF WritePayload, Listen
  <2>3. QED
    BY <1>1, <1>2, <2>1, <2>2
<1>11. CASE SetDeadline \/ Timeout \/ Hangup \/ Check
  BY <1>1, <1>3, <1>11 DEF SetDeadline, Timeout, Hangup, Check, Return, cellvars
<1>12. CASE ReadData
  <2>1. PICK n \in ReadEnds : buf' = buf \o SubSeq(stream.bytes, gone + 1, n) /\ gone' = n
    BY <1>12 DEF ReadData
  <2>2. /\ stream.bytes \in Seq(Octet) /\ Len(stream.bytes) \in Nat /\ arrived <= Len(stream.bytes)
        /\ gone \in Nat /\ start \in Nat /\ arrived \in Nat /\ start <= gone /\ gone <= arrived
    BY DEF Reads, Octet
  <2>3. buf \in Seq(Octet) /\ Len(buf) \in Nat
    BY <2>2, SubSeqTyped DEF Reads
  <2>4. n \in Int /\ gone < n /\ n <= arrived /\ n - gone <= Room
    <3>1. Room \in Int
      BY <2>3, BufferAssumption DEF Room
    <3>2. n \in stream.ends \cup {gone + Room}
      BY DEF ReadEnds
    <3>3. n \in Int
      BY <2>2, <3>1, <3>2 DEF Reads
    <3>4. QED
      BY <3>3 DEF ReadEnds
  <2>5. Len(buf') = Len(buf) + (n - gone)
    <3>1. /\ SubSeq(stream.bytes, gone + 1, n) \in Seq(Octet)
          /\ Len(SubSeq(stream.bytes, gone + 1, n)) = n - gone
      BY <2>2, <2>4, SubSeqTyped
    <3>2. QED
      BY <2>1, <2>3, <3>1, ConcatProperties
  <2>6. Room' >= 0
    <3>1. round' = round
      BY <1>12 DEF ReadData
    <3>2. QED
      BY <2>2, <2>3, <2>4, <2>5, <3>1, BufferAssumption DEF Room
  <2>7. QED
    BY <1>3, <1>12, <2>6 DEF ReadData, Fitting, cellvars
<1>13. CASE UNCHANGED svars
  BY <1>1, <1>3, <1>13 DEF svars, cellvars
<1>14. QED
  BY <1>4, <1>5, <1>6, <1>7, <1>8, <1>9, <1>10, <1>11, <1>12, <1>13 DEF SNext, SProgram

LEMMA ProbeTypes == Reads /\ Ends /\ Cells /\ Fitting => STypeOK
<1> SUFFICES ASSUME Reads, Ends, Cells, Fitting
             PROVE  STypeOK
  OBVIOUS
<1>1. arrived \in 0..Len(stream.bytes) /\ gone \in 0..arrived /\ start \in 0..gone
  BY DEF Reads
<1>2. pty \subseteq {"master", "slave"}
  <2>1. place \in {"ptmx", "grantpt", "unlockpt", "ptsname", "nonblock", "slave", "fill", "deadline",
                   "read", "check", "lines", "flush", "report", "outbound", "write", "next", "open", "done"}
    BY DEF Ends, SelfTest, Connected, Draining
  <2>2. QED
    BY <2>1 DEF Ends, Connected, Draining
<1>3. QED
  BY <1>1, <1>2 DEF STypeOK, Ends, Cells, Fitting
-----------------------------------------------------------------------------
(* What serialprobe decodes.                                                 *)

Streams == Echoes \cup UNION {l.streams : l \in Lines}

\* The range of n bytes after the first i of b, and what its packet says.
Slice(b, i, n) == SubSeq(b, i + 1, i + n)
Said(b, i, n) ==
    [at |-> i, size |-> n,
     angles |-> IF IsIMU(Slice(b, i, n)) THEN ParseIMU(Slice(b, i, n)) ELSE <<>>]

\* The reference: the ranges that are packets and have no shorter one at their place.
\* Noise that happens to have the checksum of a packet is one of them.
Shortest(b, i, n) ==
    /\ Valid(Slice(b, i, n))
    /\ \A m \in Nat : MinPacket <= m /\ m < n => ~Valid(Slice(b, i, m))
Within(b, q) ==
    /\ q.i \in Nat /\ q.n \in Nat /\ MinPacket <= q.n /\ q.i + q.n <= Len(b)
    /\ Shortest(b, q.i, q.n)
PacketsIn(b) ==
    {Said(b, q.i, q.n) : q \in {r \in [i : Nat, n : Nat] : Within(b, r)}}

\* A set of naturals has a least element.
LEMMA LeastIs ==
    ASSUME NEW S \in SUBSET Nat, S # {}
    PROVE  Min(S) \in S /\ \A n \in S : Min(S) <= n
<1> DEFINE R == {p \in Nat \X Nat : p[1] < p[2]}
<1>1. IsWellFoundedOn(R, Nat)
  BY NatLessThanWellFounded DEF OpToRel
<1>2. PICK x \in S : \A y \in S : <<y, x>> \notin R
  <2> HIDE DEF R
  <2> QED
    BY <1>1, WFMin
<1>3. ASSUME NEW y \in S
      PROVE  x <= y
  <2>1. x \in Nat /\ y \in Nat /\ <<y, x>> \notin R
    BY <1>2
  <2>2. ~(y < x)
    BY <2>1
  <2>3. QED
    BY <2>1, <2>2
<1>4. QED
  BY <1>2, <1>3 DEF Min

\* A packet begins with 0xFF and is no shorter than its checksum.
LEMMA PacketsBegin ==
    ASSUME NEW b \in Seq(Octet), NEW i \in Nat, NEW n \in Nat, MinPacket <= n, i + n <= Len(b),
           Valid(Slice(b, i, n))
    PROVE  b[i + 1] = 255
<1> DEFINE p == Slice(b, i, n)
<1>1. Len(b) \in Nat /\ n >= 2
  BY DEF MinPacket, HeaderSize
<1>2. p \in Seq(Octet) /\ Len(p) = n /\ p[1] = b[i + 1]
  <2>1. /\ SubSeq(b, i + 1, i + n) \in Seq(Octet)
        /\ Len(SubSeq(b, i + 1, i + n)) = (i + n) - i
        /\ \A j \in 1..(i + n) - i : SubSeq(b, i + 1, i + n)[j] = b[i + j]
    BY <1>1, SubSeqTyped
  <2>2. (i + n) - i = n /\ 1 \in 1..n
    BY <1>1
  <2>3. QED
    BY <2>1, <2>2 DEF Slice
<1>3. SubSeq(p, 1, 2) \in {HeaderCommand, HeaderAck, HeaderIMU}
  BY DEF Valid
<1> HIDE DEF p
<1>4. SubSeq(p, 0 + 1, 2)[1] = p[0 + 1]
  BY <1>1, <1>2, SubSeqTyped
<1>5. SubSeq(p, 1, 2)[1] = 255
  <2>1. HeaderCommand[1] = 255 /\ HeaderAck[1] = 255 /\ HeaderIMU[1] = 255
    BY DEF HeaderCommand, HeaderAck, HeaderIMU
  <2>2. QED
    BY <1>3, <2>1
<1>6. QED
  BY <1>2, <1>4, <1>5

\* decode finds, from every place, the shortest range that is a packet (decode).
THEOREM DecodeFindsPackets ==
    ASSUME NEW b \in Seq(Octet)
    PROVE  Decode(b) = PacketsIn(b)
<1> DEFINE Stops(i) == {e \in i + MinPacket..Len(b) : Valid(SubSeq(b, i + 1, e))}
<1>1. Len(b) \in Nat /\ MinPacket = 19
  BY DEF MinPacket, HeaderSize
<1>2. ASSUME NEW i \in Nat
      PROVE  PacketAt(b, i) = IF Stops(i) = {} THEN {} ELSE {Said(b, i, Min(Stops(i)) - i)}
  <2>1. CASE Stops(i) = {}
    BY <2>1 DEF PacketAt
  <2>2. CASE Stops(i) # {}
    <3>1. Stops(i) \in SUBSET Nat
      BY <1>1
    <3> DEFINE e == Min(Stops(i))
               p == SubSeq(b, i + 1, e)
    <3>2. e \in i + MinPacket..Len(b)
      BY <2>2, <3>1, LeastIs
    <3>3. p = Slice(b, i, e - i) /\ Len(p) = e - i
      <4>1. i + (e - i) = e /\ e \in Nat /\ i <= e /\ e <= Len(b)
        BY <1>1, <3>2
      <4> HIDE DEF e
      <4>2. QED
        BY <4>1, SubSeqTyped DEF Slice
    <3>4. PacketAt(b, i) = {[at |-> i, size |-> Len(p), angles |-> IF IsIMU(p) THEN ParseIMU(p) ELSE <<>>]}
      BY <2>2 DEF PacketAt
    <3>5. QED
      BY <2>2, <3>3, <3>4 DEF Said
  <2>3. QED
    BY <2>1, <2>2
<1>3. ASSUME NEW i \in Nat, NEW e \in Stops(i), \A f \in Stops(i) : e <= f
      PROVE  Within(b, [i |-> i, n |-> e - i])
  <2>1. e - i \in Nat /\ i + (e - i) = e /\ e <= Len(b) /\ MinPacket <= e - i
    BY <1>1
  <2>2. Valid(Slice(b, i, e - i))
    BY <2>1 DEF Slice
  <2>3. ASSUME NEW m \in Nat, MinPacket <= m, m < e - i, Valid(Slice(b, i, m))
        PROVE  FALSE
    <3>1. i + m \in i + MinPacket..Len(b)
      BY <1>1, <2>1, <2>3
    <3>2. i + m \in Stops(i)
      BY <2>3, <3>1 DEF Slice
    <3>3. QED
      BY <1>1, <1>3, <2>1, <2>3, <3>2
  <2>4. QED
    BY <2>1, <2>2, <2>3 DEF Within, Shortest
<1>4. ASSUME NEW x \in Decode(b)
      PROVE  x \in PacketsIn(b)
  <2>1. PICK i \in 0..Len(b) - MinPacket : x \in PacketAt(b, i)
    BY DEF Decode
  <2>2. i \in Nat /\ Stops(i) # {} /\ x = Said(b, i, Min(Stops(i)) - i)
    BY <1>1, <1>2, <2>1
  <2>3. Stops(i) \in SUBSET Nat
    BY <1>1, <2>2
  <2>4. Within(b, [i |-> i, n |-> Min(Stops(i)) - i])
    <3>1. Min(Stops(i)) \in Stops(i) /\ \A f \in Stops(i) : Min(Stops(i)) <= f
      BY <2>2, <2>3, LeastIs
    <3> HIDE DEF Stops
    <3>2. QED
      BY <1>3, <2>2, <3>1
  <2> HIDE DEF Stops
  <2> DEFINE q == [i |-> i, n |-> Min(Stops(i)) - i]
  <2>5. q.i = i /\ q.n = Min(Stops(i)) - i /\ q.i \in Nat /\ q.n \in Nat
    BY <2>4 DEF Within
  <2>6. q \in [i : Nat, n : Nat]
    BY <2>5
  <2>7. x = Said(b, q.i, q.n)
    BY <2>2, <2>5
  <2>8. QED
    BY <2>4, <2>6, <2>7 DEF PacketsIn
<1>5. ASSUME NEW x \in PacketsIn(b)
      PROVE  x \in Decode(b)
  <2>1. PICK q \in [i : Nat, n : Nat] : Within(b, q) /\ x = Said(b, q.i, q.n)
    BY DEF PacketsIn
  <2> DEFINE i == q.i
             n == q.n
  <2>2. i \in Nat /\ n \in Nat /\ MinPacket <= n /\ i + n <= Len(b) /\ Shortest(b, i, n)
    BY <2>1 DEF Within
  <2> HIDE DEF i, n
  <2>3. i + n \in Stops(i)
    BY <1>1, <2>2 DEF Shortest, Slice
  <2>4. ASSUME NEW f \in Stops(i), f < i + n
        PROVE  FALSE
    <3>1. f - i \in Nat /\ MinPacket <= f - i /\ f - i < n /\ i + (f - i) = f
      BY <1>1, <2>2, <2>4
    <3>2. Valid(Slice(b, i, f - i))
      BY <3>1 DEF Slice
    <3>3. QED
      BY <2>2, <3>1, <3>2 DEF Shortest
  <2>5. Stops(i) \in SUBSET Nat /\ Stops(i) # {}
    BY <1>1, <2>2, <2>3
  <2>6. Min(Stops(i)) = i + n
    <3>1. Min(Stops(i)) \in Stops(i) /\ Min(Stops(i)) <= i + n
      BY <2>3, <2>5, LeastIs
    <3>2. ~(Min(Stops(i)) < i + n)
      BY <2>4, <3>1
    <3>3. Min(Stops(i)) \in Nat
      BY <2>5, <3>1
    <3> HIDE DEF Stops
    <3>4. QED
      BY <2>2, <3>1, <3>2, <3>3
  <2>7. PacketAt(b, i) = {x}
    <3>1. Min(Stops(i)) - i = n
      BY <2>2, <2>6
    <3>2. x = Said(b, i, n)
      BY <2>1 DEF i, n
    <3> HIDE DEF Stops
    <3>3. QED
      BY <1>2, <2>2, <2>5, <3>1, <3>2
  <2>8. i \in 0..Len(b) - MinPacket /\ b[i + 1] = 255
    BY <1>1, <2>2, PacketsBegin DEF Shortest
  <2>9. QED
    BY <2>7, <2>8 DEF Decode
<1>6. QED
  BY <1>4, <1>5

\* A packet of a stream that lies between two places, seen from the first of them.
Between(ps, from, to) ==
    {[p EXCEPT !.at = @ - from] : p \in {q \in ps : from <= q.at /\ q.at + q.size <= to}}

\* What lies between two places of a stream has the packets that lie there whole.
LEMMA PacketsOfPart ==
    ASSUME NEW s \in Seq(Octet), NEW from \in Nat, NEW to \in Nat, from <= to, to <= Len(s),
           NEW b, b = SubSeq(s, from + 1, to)
    PROVE  PacketsIn(b) = Between(PacketsIn(s), from, to)
<1>1. b \in Seq(Octet) /\ Len(b) = to - from /\ \A j \in 1..to - from : b[j] = s[from + j]
  BY SubSeqTyped
<1>2. Len(s) \in Nat /\ Len(b) \in Nat
  BY <1>1
<1>3. ASSUME NEW i \in Nat, NEW n \in Nat, i + n <= to - from
      PROVE  Slice(b, i, n) = Slice(s, from + i, n)
  <2>1. /\ Slice(b, i, n) \in Seq(Octet)
        /\ Len(Slice(b, i, n)) = (i + n) - i
        /\ \A j \in 1..(i + n) - i : Slice(b, i, n)[j] = b[i + j]
    <3>1. i + n \in Nat /\ i <= i + n /\ i + n <= Len(b)
      BY <1>1, <1>2, <1>3
    <3>2. QED
      BY <1>1, <3>1, SubSeqTyped DEF Slice
  <2>2. /\ from + i \in Nat /\ (from + i) + n \in Nat /\ from + i <= (from + i) + n
        /\ (from + i) + n <= Len(s)
    BY <1>2, <1>3
  <2>3. /\ Slice(s, from + i, n) \in Seq(Octet)
        /\ Len(Slice(s, from + i, n)) = ((from + i) + n) - (from + i)
        /\ \A j \in 1..((from + i) + n) - (from + i) : Slice(s, from + i, n)[j] = s[(from + i) + j]
    BY <2>2, SubSeqTyped DEF Slice
  <2>4. (i + n) - i = n /\ ((from + i) + n) - (from + i) = n
    OBVIOUS
  <2>5. ASSUME NEW j \in 1..n
        PROVE  Slice(b, i, n)[j] = Slice(s, from + i, n)[j]
    <3>1. i + j \in 1..to - from /\ from + (i + j) = (from + i) + j
      BY <1>3
    <3>2. QED
      BY <1>1, <2>1, <2>3, <2>4, <3>1
  <2>6. QED
    BY <2>1, <2>3, <2>4, <2>5, SeqEqual
<1>4. ASSUME NEW i \in Nat, NEW n \in Nat, i + n <= to - from
      PROVE  /\ Shortest(b, i, n) <=> Shortest(s, from + i, n)
             /\ Said(b, i, n) = [Said(s, from + i, n) EXCEPT !.at = @ - from]
  <2>1. \A m \in Nat : m <= n => Slice(b, i, m) = Slice(s, from + i, m)
    BY <1>3, <1>4
  <2>2. Shortest(b, i, n) <=> Shortest(s, from + i, n)
    BY <2>1 DEF Shortest
  <2>3. Slice(b, i, n) = Slice(s, from + i, n)
    BY <2>1
  <2>4. (from + i) - from = i
    OBVIOUS
  <2>5. Said(b, i, n) = [Said(s, from + i, n) EXCEPT !.at = @ - from]
    <3> DEFINE angles == IF IsIMU(Slice(b, i, n)) THEN ParseIMU(Slice(b, i, n)) ELSE <<>>
    <3>1. Said(b, i, n) = [at |-> i, size |-> n, angles |-> angles]
      BY DEF Said
    <3>2. Said(s, from + i, n) = [at |-> from + i, size |-> n, angles |-> angles]
      BY <2>3 DEF Said
    <3> HIDE DEF angles
    <3>3. QED
      BY <2>4, <3>1, <3>2
  <2>6. QED
    BY <2>2, <2>5
<1>5. MinPacket \in Nat
  BY DEF MinPacket, HeaderSize
<1>6. ASSUME NEW x \in PacketsIn(b)
      PROVE  x \in Between(PacketsIn(s), from, to)
  <2>1. PICK q \in [i : Nat, n : Nat] : Within(b, q) /\ x = Said(b, q.i, q.n)
    BY <1>6 DEF PacketsIn
  <2> DEFINE i == q.i
             n == q.n
  <2>2. i \in Nat /\ n \in Nat /\ MinPacket <= n /\ i + n <= Len(b) /\ Shortest(b, i, n)
    BY <2>1 DEF Within
  <2>3. x = Said(b, i, n)
    BY <2>1
  <2> HIDE DEF i, n
  <2> DEFINE r == [i |-> from + i, n |-> n]
             p == Said(s, from + i, n)
  <2>4. /\ Shortest(s, from + i, n) /\ x = [p EXCEPT !.at = @ - from]
        /\ from + i \in Nat /\ (from + i) + n <= Len(s)
    <3>1. i + n <= to - from /\ from + i \in Nat /\ (from + i) + n <= Len(s)
      <4>1. i \in Nat /\ n \in Nat /\ i + n <= to - from
        BY <1>1, <2>2
      <4>2. QED
        BY <1>2, <4>1
    <3>2. Shortest(s, from + i, n) /\ Said(b, i, n) = [Said(s, from + i, n) EXCEPT !.at = @ - from]
      BY <1>4, <2>2, <3>1
    <3>3. QED
      BY <2>3, <3>1, <3>2
  <2>5. r.i = from + i /\ r.n = n /\ r \in [i : Nat, n : Nat]
    BY <2>2, <2>4
  <2>6. Within(s, r)
    BY <2>2, <2>4, <2>5 DEF Within
  <2>7. p \in PacketsIn(s)
    BY <2>5, <2>6 DEF PacketsIn
  <2>8. p.at = from + i /\ p.size = n
    BY DEF Said
  <2>9. from <= p.at /\ p.at + p.size <= to
    <3>1. i \in Nat /\ n \in Nat /\ i + n <= to - from
      BY <1>1, <2>2
    <3>2. from <= from + i /\ (from + i) + n <= to
      BY <3>1
    <3>3. QED
      BY <2>8, <3>2
  <2> HIDE DEF p
  <2>10. QED
    BY <2>4, <2>7, <2>9 DEF Between
<1>7. ASSUME NEW x \in Between(PacketsIn(s), from, to)
      PROVE  x \in PacketsIn(b)
  <2>1. PICK p \in PacketsIn(s) : /\ from <= p.at /\ p.at + p.size <= to
                                  /\ x = [p EXCEPT !.at = @ - from]
    BY <1>7 DEF Between
  <2>2. PICK q \in [i : Nat, n : Nat] : Within(s, q) /\ p = Said(s, q.i, q.n)
    BY DEF PacketsIn
  <2> DEFINE i == q.i - from
             n == q.n
  <2>3. p.at = q.i /\ p.size = q.n
    BY <2>2 DEF Said
  <2>4. q.i \in Nat /\ n \in Nat /\ MinPacket <= n /\ Shortest(s, q.i, n)
    BY <2>2 DEF Within
  <2>5. i \in Nat /\ from + i = q.i /\ i + n <= to - from
    BY <2>1, <2>3, <2>4
  <2>6. p = Said(s, from + i, n) /\ Shortest(s, from + i, n)
    BY <2>2, <2>4, <2>5
  <2> HIDE DEF i, n
  <2> DEFINE r == [i |-> i, n |-> n]
  <2>7. x = Said(b, i, n) /\ Shortest(b, i, n)
    BY <1>4, <2>1, <2>4, <2>5, <2>6
  <2>8. r.i = i /\ r.n = n /\ i \in Nat /\ r \in [i : Nat, n : Nat]
    BY <2>4, <2>5
  <2>9. Within(b, r)
    BY <1>1, <1>2, <2>4, <2>5, <2>7, <2>8 DEF Within
  <2>10. QED
    BY <2>7, <2>8, <2>9 DEF PacketsIn
<1>8. QED
  BY <1>6, <1>7

\* What has been found is what lies between where the listening began and where it is;
\* before anything is decoded nothing is found, and nothing lies there.
Reported ==
    /\ stream \in Streams
    /\ DOMAIN found = {1, 2}
    /\ place \in {"open", "lines", "flush"} \/ round < Unprompted => found[1] = {}
    /\ place = "open" => start = gone
    /\ place \in {"outbound", "write", "next", "done"} /\ round >= Unprompted /\ ~failed =>
          found[round] = Between(stream.packets, start, gone)

\* No packet lies between a place and itself.
LEMMA NothingToFind ==
    ASSUME NEW e, e.packets = PacketsIn(e.bytes), NEW n \in Nat
    PROVE  Between(e.packets, n, n) = {}
<1> SUFFICES ASSUME NEW p \in PacketsIn(e.bytes), n <= p.at, p.at + p.size <= n
             PROVE  FALSE
  BY DEF Between
<1>1. PICK q \in [i : Nat, n : Nat] : Within(e.bytes, q) /\ p = Said(e.bytes, q.i, q.n)
  BY DEF PacketsIn
<1>2. p.at = q.i /\ p.size = q.n
  BY <1>1 DEF Said
<1>3. q.i \in Nat /\ q.n \in Nat /\ 19 <= q.n
  BY <1>1 DEF Within, MinPacket, HeaderSize
<1>4. QED
  BY <1>2, <1>3

\* Every stream says of its packets where they are.
PacketsAreKnown == \A e \in Streams : e.packets = PacketsIn(e.bytes)

LEMMA ReportedInit ==
    ASSUME PacketsAreKnown
    PROVE  SInit => Reported
<1> SUFFICES ASSUME SInit
             PROVE  Reported
  OBVIOUS
<1>1. stream \in Streams
  BY DEF SInit, Streams
<1>2. found = [r \in 1..2 |-> {}] /\ round = -1 /\ place \in {"ptmx", "done"}
  BY DEF SInit, ReadBack
<1>3. DOMAIN found = {1, 2} /\ found[1] = {} /\ ~(round >= 1)
  BY <1>2
<1>4. QED
  BY <1>1, <1>2, <1>3 DEF Reported, Unprompted

LEMMA ReportedStep ==
    ASSUME PacketsAreKnown
    PROVE  Reported /\ Reads /\ Ends /\ Fitting /\ [SNext]_svars => Reported'
<1> SUFFICES ASSUME Reported, Reads, Ends, Fitting, [SNext]_svars
             PROVE  Reported'
  OBVIOUS
<1> DEFINE Decided == {"outbound", "write", "next", "done"}
           Fresh   == {"open", "lines", "flush"}
           Seen    == Between(stream.packets, start, gone)
<1>1. /\ stream \in Streams /\ DOMAIN found = {1, 2} /\ round \in -1..2
      /\ start \in Nat /\ gone \in Nat
      /\ place \in Fresh \/ round < 1 => found[1] = {}
      /\ place = "open" => start = gone
      /\ place \in Decided /\ round >= 1 /\ ~failed => found[round] = Seen
  BY DEF Reported, Reads, Fitting, Unprompted, ReadBack, Reply
<1>2. ASSUME UNCHANGED <<stream, found, round, failed, start, gone>>,
             \/ place' \notin Decided \cup Fresh
             \/ place' \in Decided /\ place \in Decided
             \/ place' \in {"lines", "flush"} /\ place \in Fresh
             \/ round < 1 /\ place' \in Decided
      PROVE  Reported'
  BY <1>1, <1>2 DEF Reported, Unprompted
<1>3. ASSUME place' \notin Decided, stream' = stream, found' = found,
             place' \in Fresh \/ round' < 1 => found[1] = {},
             place' # "open"
      PROVE  Reported'
  BY <1>1, <1>3 DEF Reported, Unprompted
<1>4. ASSUME stream' \in Streams, DOMAIN found' = {1, 2}, round' = 1, found'[1] = {},
             start' = gone', gone' \in Nat
      PROVE  Reported'
  <2>1. Between(stream'.packets, start', gone') = {}
    BY <1>4, NothingToFind DEF PacketsAreKnown
  <2>2. QED
    BY <1>4, <2>1 DEF Reported, Unprompted
<1>5. CASE Prepare
  <2>1. place' \notin Decided \cup Fresh \/ (round < 1 /\ place' = "done")
    BY <1>5 DEF Prepare, Abandon, Goto, SelfTest, Ends, ReadBack
  <2>2. QED
    BY <1>2, <1>5, <2>1 DEF Prepare
<1>6. CASE Echoed
  <2>1. CASE failed \/ buf = <<>>
    BY <1>2, <1>6, <2>1 DEF Echoed, Abandon, Goto, ReadBack
  <2>2. CASE ~(failed \/ buf = <<>>)
    <3>1. place' = "deadline" /\ stream' = stream /\ found' = found /\ round = -1
      BY <1>6, <2>2 DEF Echoed, Listen, Goto, ReadBack
    <3>2. QED
      BY <1>1, <1>3, <3>1
  <2>3. QED
    BY <2>1, <2>2
<1>7. CASE Silent
  BY <1>1, <1>4, <1>7 DEF Silent, IdleRead, Unprompted
<1>8. CASE Next_Cell
  <2>1. CASE cell < Settings
    <3>1. found' = [r \in 1..2 |-> {}] /\ round' = 1 /\ start' = gone /\ gone' = gone /\ stream' = stream
      BY <1>8, <2>1 DEF Next_Cell, Unprompted
    <3>2. DOMAIN found' = {1, 2} /\ found'[1] = {}
      BY <3>1
    <3>3. QED
      BY <1>1, <1>4, <3>1, <3>2
  <2>2. CASE ~(cell < Settings)
    BY <1>2, <1>8, <2>2 DEF Next_Cell, Goto
  <2>3. QED
    BY <2>1, <2>2
<1>9. CASE OpenPort
  <2>1. round' = 1 /\ found' = found /\ found[1] = {}
    BY <1>1, <1>9 DEF OpenPort, Ends, Unprompted
  <2>2. start' = gone' /\ gone' \in Nat
    BY <1>1, <1>9 DEF OpenPort
  <2>3. stream' \in Streams
    BY <1>1, <1>9 DEF OpenPort, Streams, Reads
  <2>4. QED
    BY <1>1, <1>4, <2>1, <2>2, <2>3
<1>10. CASE SetBits
  BY <1>2, <1>10 DEF SetBits, Goto
<1>11. CASE Flush
  <2>1. round' = 1 /\ found' = found /\ found[1] = {} /\ stream' = stream
    BY <1>1, <1>11 DEF Flush, Ends, Connected, Draining, Unprompted
  <2>2. start' = gone' /\ gone' \in Nat
    BY <1>11 DEF Flush, Reads
  <2>3. QED
    BY <1>1, <1>4, <2>1, <2>2
<1>12. CASE Outbound
  BY <1>2, <1>12 DEF Outbound, Abandon, Goto
<1>13. CASE WritePayload
  <2>1. CASE Listen(Reply)
    BY <1>1, <1>3, <1>13, <2>1 DEF WritePayload, Listen, Goto, Reply
  <2>2. CASE ~Listen(Reply)
    BY <1>2, <1>13, <2>2 DEF WritePayload, Goto
  <2>3. QED
    BY <2>1, <2>2
<1>14. CASE SetDeadline \/ ReadData \/ Timeout \/ Check \/ Hangup
  <2>1. place' \in {"read", "report", "check", "deadline"}
    BY <1>14 DEF SetDeadline, ReadData, Timeout, Check, Hangup, Return, Goto
  <2>2. stream' = stream /\ found' = found /\ round' = round
    BY <1>14 DEF SetDeadline, ReadData, Timeout, Check, Hangup
  <2>3. QED
    BY <1>1, <1>3, <2>1, <2>2
<1>15. CASE Report
  <2>1. /\ round \in {1, 2} /\ place' \in {"outbound", "next"}
        /\ found' = [found EXCEPT ![round] = IF failed THEN {} ELSE Decode(buf)]
        /\ UNCHANGED <<stream, round, failed, start, gone>>
    BY <1>15 DEF Report, Goto, Unprompted, Reply
  <2>2. ASSUME ~failed
        PROVE  Decode(buf) = Seen
    <3>1. /\ stream.bytes \in Seq(Octet) /\ start <= gone /\ gone <= Len(stream.bytes)
          /\ buf = SubSeq(stream.bytes, start + 1, gone)
      BY DEF Reads, Octet
    <3>2. buf \in Seq(Octet)
      BY <1>1, <3>1, SubSeqTyped
    <3>3. Decode(buf) = PacketsIn(buf)
      BY <3>2, DecodeFindsPackets
    <3>4. PacketsIn(buf) = Between(PacketsIn(stream.bytes), start, gone)
      <4>1. start \in Nat /\ gone \in Nat
        BY <1>1
      <4>2. QED
        BY <3>1, <4>1, PacketsOfPart
    <3>5. stream.packets = PacketsIn(stream.bytes)
      BY <1>1 DEF PacketsAreKnown
    <3>6. QED
      BY <3>3, <3>4, <3>5
  <2>3. ~failed => found'[round] = Seen
    BY <1>1, <2>1, <2>2
  <2>4. DOMAIN found' = {1, 2}
    BY <1>1, <2>1
  <2>5. QED
    BY <1>1, <2>1, <2>3, <2>4 DEF Reported, Unprompted
<1>16. CASE Arrive \/ TimePasses
  <2>1. place \in {"deadline", "read", "check", "lines", "flush", "report", "outbound", "write"}
    BY <1>16 DEF Arrive, TimePasses, Connected, Draining
  <2>2. UNCHANGED <<stream, found, round, failed, start, gone, place>>
    BY <1>16 DEF Arrive, TimePasses
  <2>3. QED
    BY <1>2, <2>1, <2>2
<1>17. CASE UNCHANGED svars
  BY <1>17 DEF svars, Reported
<1>18. QED
  BY <1>5, <1>6, <1>7, <1>8, <1>9, <1>10, <1>11, <1>12, <1>13, <1>14, <1>15, <1>16, <1>17 DEF SNext, SProgram

\* However the bytes of a device arrive, are flushed or read, decode reports of a
\* listening that did not fail the packets that lie in it whole, and nothing else, as
\* long as it is known which packets the device's bytes hold (once, Drain, decode).
THEOREM DecodesExactly ==
    ASSUME PacketsAreKnown
    PROVE  SSpec => []DecodeIsExact
<1>1. Reported => DecodeIsExact
  BY DEF Reported, DecodeIsExact, Between
<1>2. QED
  BY <1>1, ReadsInit, ReadsStep, EndsInit, EndsStep, FittingInit, FittingStep, ReportedInit, ReportedStep,
     PTL DEF SSpec
=============================================================================
