------------------------------ MODULE MCProbes ------------------------------
(***************************************************************************)
(* What the probe commands meet: devices and filters, descriptor blocks,   *)
(* and the bytes that glasses send.                                        *)
(***************************************************************************)
EXTENDS Probes, TLC

\* Five HID devices: two may not be opened, one of which has a product to tell it by and
\* one a product that is no 32-bit number; one publishes no usage page, one its usage as
\* a text.
Device(id, vendor, product, page, usage, permitted) ==
    [id |-> id, permitted |-> permitted,
     published |-> [VendorID |-> <<"number", vendor>>, ProductID |-> product,
                    UsagePage |-> page, Usage |-> usage]]
Glasses  == Device(1, 7, <<"number", 1>>, <<"number", 9>>, <<"number", 1>>, TRUE)
Twin     == Device(2, 7, <<"number", 2>>, <<"none", 0>>, <<"number", 1>>, TRUE)
Dock     == Device(3, 8, <<"number", 1>>, <<"number", 9>>, <<"text", 1>>, TRUE)
Keyboard == Device(4, 8, <<"wide", 1>>, <<"number", 1>>, <<"number", 1>>, FALSE)
Dongle   == Device(5, 8, <<"number", 2>>, <<"number", 9>>, <<"number", 1>>, FALSE)
MCMachines == SUBSET {Glasses, Twin, Dock, Keyboard, Dongle}

MCFilters ==
    [VendorID : {0, 7, 8}, ProductIDs : {<<>>, <<0>>, <<1>>, <<1, 2>>}, UsagePage : {0, 9}, Usage : {0, 1}]

\* Two interfaces, two endpoints, an association, and two descriptors that are
\* not interpreted, one of them an endpoint that is too short.
Configuration ==
    [kind |-> "configuration", is |-> [Value |-> 1, Attributes |-> 128, MaxPower |-> 250]]
Communication ==
    [kind |-> "interface", is |-> [Number |-> 0, Alternate |-> 0,
                                   Class |-> 2, SubClass |-> 2, Protocol |-> 1]]
Data ==
    [kind |-> "interface", is |-> [Number |-> 1, Alternate |-> 1,
                                   Class |-> 10, SubClass |-> 0, Protocol |-> 0]]
BulkIn ==
    [kind |-> "endpoint", is |-> [Address |-> 131, Attributes |-> 2,
                                  MaxPacketSize |-> 512, Interval |-> 0]]
Interrupt ==
    [kind |-> "endpoint", is |-> [Address |-> 130, Attributes |-> 3,
                                  MaxPacketSize |-> 10, Interval |-> 16]]
SerialFunction ==
    [kind |-> "association", is |-> [FirstInterface |-> 0, InterfaceCount |-> 2,
                                     Class |-> 2, SubClass |-> 2, Protocol |-> 0]]
Functional    == [kind |-> "other", is |-> <<5, 36, 0, 16, 1>>]
ShortEndpoint == [kind |-> "other", is |-> <<6, 5, 131, 2, 64, 0>>]

MCPublished ==
    LET Follow == {Communication, Data, BulkIn, Interrupt, SerialFunction, Functional, ShortEndpoint}
    IN  {<<Configuration>> \o ds : ds \in UNION {[1..n -> Follow] : n \in 0..3}}

\* The checksum as glasses compute it: the remainder of the bytes, taken as a
\* polynomial with its first sixteen bits inverted, by the generator.
Generator == {16, 12, 5, 0}
Dividend(b) ==
    SymDiff(UNION {{8 * (Len(b) - j) + i + 16 : i \in Bits(b[j])} : j \in DOMAIN b},
            8 * Len(b)..8 * Len(b) + 15)
Subtract[m \in SUBSET Nat, e \in Nat] ==
    IF e \in m THEN SymDiff(m, {g + e - 16 : g \in Generator}) ELSE m
SubtractByte[m \in SUBSET Nat, e \in Nat] ==
    LET pull[t \in 0..8] == IF t = 0 THEN m ELSE Subtract[pull[t - 1], e - t]
    IN  pull[8]
Remainder(b) ==
    LET rest[n \in 0..Len(b)] ==
          IF n = 0 THEN Dividend(b) ELSE SubtractByte[rest[n - 1], 8 * (Len(b) - n) + 24]
    IN  rest[Len(b)]

FromGlasses(head, cmd, counter, payload) ==
    LET body == <<Len(payload) + 11, 0, 0, 0, 0, 0, 0, 0, 0, 0, cmd, 0, counter, 0>>
                \o payload \o <<3>>
        sum  == Remainder(body)
    IN  head \o <<Number({i - 8 : i \in sum \ 0..7}), Number(sum \cap 0..7)>> \o body

\* Both agree with the check value that the repository's test names, 0x29B1.
CheckValue == {0, 4, 5, 7, 8, 11, 13}
Digits     == [j \in 1..9 |-> 48 + j]
ASSUME CheckValueAssumption == CRC16(Digits) = CheckValue /\ Remainder(Digits) = CheckValue

Angles == <<<<63, 128, 0, 0>>, <<192, 0, 0, 0>>, <<0, 0, 255, 7>>>>
Orientation == FromGlasses(<<255, 252>>, 0, 1, Angles[1] \o Angles[2] \o Angles[3])
Acknowledgement      == FromGlasses(<<255, 253>>, 21, 4, <<0>>)

\* Noise, an orientation report that may arrive in two parts, and an answer.
Session ==
    [bytes |-> <<0, 255>> \o Orientation \o Acknowledgement, ends |-> {0, 9, 33, 53},
     packets |-> {[at |-> 2, size |-> 31, angles |-> Angles],
                  [at |-> 33, size |-> 20, angles |-> <<>>]}]

\* An answer with wrong bits, counted from the first bit after the header: one of three,
\* two sixteen apart or sixteen in a row, inside what the checksum covers.
Flipped(p, bits) ==
    [j \in DOMAIN p |-> Number(SymDiff(Bits(p[j]), {i \in 0..7 : 8 * (j - 3) + 7 - i \in bits}))]
Wrong == {{3 * b} : b \in 0..47} \cup {{8 * b, 8 * b + 15} : b \in 2..16} \cup {8 * b..8 * b + 15 : b \in 2..16}
Damaged == {[bytes |-> Flipped(Acknowledgement, bits), ends |-> {0, 20}, packets |-> {}] : bits \in Wrong}

Quiet == [bytes |-> <<0>>, ends |-> {0, 1}, packets |-> {}]

\* What the pseudo-terminal makes of the pattern: all of it at once, or not.
Pattern == <<255, 252, 0, 1, 108, 111, 111, 112, 3>>
MCEchoes == {[bytes |-> Pattern, ends |-> ends, packets |-> {}] : ends \in {{0, 9}, {0, 4, 9}}}

\* Command lines of serialprobe: an argument may be a base name, or either node.
Listening == [selftest |-> FALSE, port |-> Path("", "", "usbmodem"), baud |-> 115200,
              lines |-> {DTR}, listen |-> TRUE, send |-> "nothing", sweep |-> FALSE,
              streams |-> {Quiet}]
Sweeping(port) == [Listening EXCEPT !.port = port, !.sweep = TRUE, !.listen = FALSE]
MCLines ==
    {[Listening EXCEPT !.port = NoPort], [Listening EXCEPT !.selftest = TRUE, !.port = NoPort],
     [Listening EXCEPT !.streams = Damaged],
     [Listening EXCEPT !.streams = {Session}, !.send = "bytes", !.lines = {RTS}],
     [Listening EXCEPT !.listen = FALSE, !.send = "bytes", !.lines = {}],
     Sweeping(Path("", "", "usbmodem")), Sweeping(Path("/dev/", "tty.", "usbmodem")),
     [Sweeping(Path("/dev/", "cu.", "usbmodem")) EXCEPT !.send = "bytes"],
     [Sweeping(Path("", "tty.", "usbmodem")) EXCEPT !.send = "no hex"]}

\* Command lines of usbprobe.
Nothing == [control |-> FALSE, scan |-> FALSE, imu |-> FALSE, cdc |-> FALSE, cdcSet |-> 0,
            seize |-> FALSE, timeout |-> 250000, maxReq |-> 1, iface |-> -1,
            bulkOut |-> 0, bulkWrite |-> {}, bulkIMU |-> FALSE, bulkRead |-> 0]
Everything == [Nothing EXCEPT !.control = TRUE, !.scan = TRUE, !.imu = TRUE, !.cdc = TRUE,
                              !.seize = TRUE, !.maxReq = 0]
Interface1 == [Nothing EXCEPT !.iface = 1, !.bulkOut = 3, !.bulkRead = 131]
MCOptions ==
    {Nothing, Everything, Interface1,
     [Nothing EXCEPT !.scan = TRUE], [Nothing EXCEPT !.imu = TRUE, !.seize = TRUE],
     [Nothing EXCEPT !.cdc = TRUE], [Nothing EXCEPT !.cdcSet = 3000000],
     [Interface1 EXCEPT !.iface = 2],
     [Interface1 EXCEPT !.bulkWrite = {<<1, 2>>}, !.bulkIMU = TRUE],
     [Interface1 EXCEPT !.bulkWrite = {<<1, 2>>}, !.bulkOut = 131, !.bulkRead = 4],
     [Interface1 EXCEPT !.bulkIMU = TRUE, !.bulkOut = 2, !.bulkRead = 130]}
    \cup {[Nothing EXCEPT !.control = TRUE, !.cdc = TRUE, !.timeout = t] : t \in {0, 500, 4096000}}

\* The refs are not the endpoints' numbers, and one number serves both directions.
Endpoint(number, dir, type, packet) ==
    [Number |-> number, Dir |-> dir, Type |-> type, MaxPacket |-> packet]
MCInterfaces ==
    {[Number |-> 0, endpoints |-> <<Endpoint(3, PipeIn, TransferBulk, 8)>>],
     [Number |-> 1, endpoints |-> <<Endpoint(4, PipeIn, TransferBulk, 0), Endpoint(3, PipeIn, TransferBulk, 2),
                                    Endpoint(3, PipeOut, TransferBulk, 8), Endpoint(2, PipeIn, TransferInterrupt, 2),
                                    Endpoint(2, PipeOut, TransferInterrupt, 8)>>]}

\* A device descriptor, of this device or another, whole or not; a short status and
\* a whole one; an orientation report, a line coding.
MCRegistry == <<202, 53, 1, 18>>
Described18(ids) == <<18, 1, 0, 2, 239, 2, 1, 64>> \o ids \o <<0, 1, 1, 2, 3, 1>>
MCAnswers ==
    {<<>>, <<1>>, <<1, 0>>, Described18(MCRegistry), Described18(<<202, 53, 2, 18>>),
     SubSeq(Described18(MCRegistry), 1, 8), Orientation,
     LineCodingBytes(LineCoding(9600, 2, 1, 7))}

\* What a client does with a headset, and what a headset is.
Call(do, mode) == [do |-> do, mode |-> mode]
MCCalls == {Call("listen", 0), Call("read", 0), Call("readNative", 0)}
           \cup {Call("set", mode) : mode \in {49, 50, 0, 8242}}
MCSupported == {49, 50, 55, 8242}
MCTexts == {<<>>, <<50, 48>>, <<50, 0, 48>>, <<255, 48>>}
MCForeign == {<<16, 5, 66, 113, 1, 0, 50>>, <<17, 5, 66, 113, 1, 0, 50, 0>>,
              <<16, 5, 66, 113, 1, 2, 50, 0>>, EnableIMU(TRUE, 0)}
=============================================================================
