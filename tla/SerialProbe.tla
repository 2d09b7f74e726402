---------------------------- MODULE SerialProbe ----------------------------
(***************************************************************************)
(* serialprobe (cmd/serialprobe/main.go): the loopback control (selftest), *)
(* then one configuration of a port, or the sweep over nodes, rates and    *)
(* modem lines; for each of these once: open, set the lines, Flush, listen *)
(* with Drain, write, listen again, and look for packets in what each      *)
(* listening brought (decode).                                             *)
(*                                                                         *)
(* External are the device, which sends its stream when it likes, the      *)
(* kernel's queue in between, the driver's modem lines, and the passing of *)
(* time.                                                                   *)
(***************************************************************************)
EXTENDS Viture

CONSTANTS
    Lines,     \* command lines, each with the streams that the device at its port
               \* may send: bytes, the places where a delivery may end, and the
               \* packets in the bytes, each with its place and angles
    Echoes,    \* the streams that the pseudo-terminal may make of what is written
    BufSize    \* -buffer

ASSUME StreamsAssumption ==
    \A e \in Echoes \cup UNION {l.streams : l \in Lines} :
        e.bytes \in Seq(0..255) /\ e.ends \subseteq 0..Len(e.bytes) /\ 0 \in e.ends
ASSUME BufferAssumption == BufSize \in Nat

VARIABLES
    args,      \* the command line
    cell,      \* which configuration it is at
    tried,     \* those that once has returned from
    pty,       \* which ends of the pseudo-terminal are open: master, slave
    open,      \* the path of the open port
    raised,    \* the modem lines that are asserted there
    unset,     \* SetLines failed, and the program said so
    error,     \* the program returned an error
    stream,    \* what the other side sends
    arrived,   \* how many bytes of it have reached the queue
    gone,      \* how many of those have left it, read or flushed
    place,     \* where the program is
    round,     \* which of its listenings it is at
    start,     \* how many had gone when it began
    buf,       \* buf[:n]
    late,      \* its deadline has passed
    failed,    \* it returned an error
    found      \* what decode reported, for each round

cellvars == <<args, cell, tried, pty, open, raised, unset, error>>
svars == <<cellvars, stream, arrived, gone, place, round, start, buf, late, failed, found>>

\* The listenings: two of the control, two of once.
ReadBack == -1
IdleRead == 0
Unprompted == 1
Reply == 2

Draining  == {"deadline", "read", "check"}
Connected == Draining \cup {"lines", "flush", "report", "outbound", "write"}

\* Loopback's open of /dev/ptmx and the four requests it makes there, Open of the
\* slave, the pattern written into the master.
SelfTest == <<"ptmx", "grantpt", "unlockpt", "ptsname", "nonblock", "slave", "fill", "deadline">>

DTR == "dtr"
RTS == "rts"
ASSUME LinesAssumption == \A l \in Lines : l.lines \subseteq {DTR, RTS}

\* A port argument, or a path: its directory, or none, its prefix, or none, and
\* the name that the two nodes of a port share.
Path(dir, node, base) == [dir |-> dir, node |-> node, base |-> base]
BaseName(p) == p.base
NoPort == Path("", "", "")

\* Bug: a path is a path, whatever node is asked for.
resolve_KeepsPath(p, prefix) ==
    IF p.dir = "/dev/" THEN p
    ELSE Path("/dev/", IF prefix = "" THEN "cu." ELSE prefix, BaseName(p))

resolve(p, prefix) ==
    IF p.dir = "/dev/" /\ prefix = ""
    THEN p
    ELSE Path("/dev/", IF prefix = "" THEN "cu." ELSE prefix, BaseName(p))

\* sweep's three loops, from the outermost, and run's single call.
prefixes   == <<"cu.", "tty.">>
sweepBauds == <<115200, 921600, 1000000, 3000000>>
asserted   == <<{}, {DTR, RTS}>>

Settings == IF args.sweep THEN 16 ELSE 1

Setting(n) ==
    IF args.sweep
    THEN [path  |-> resolve(args.port, prefixes[1 + ((n - 1) \div 8)]),
          baud  |-> sweepBauds[1 + (((n - 1) \div 2) % 4)],
          lines |-> asserted[1 + ((n - 1) % 2)]]
    ELSE [path |-> resolve(args.port, ""), baud |-> args.baud, lines |-> args.lines]

SInit ==
    /\ args \in Lines
    /\ cell = 0 /\ tried = {} /\ pty = {} /\ open = NoPort /\ raised = {} /\ unset = FALSE /\ error = FALSE
    /\ stream \in Echoes /\ arrived = 0 /\ gone = 0 /\ start = 0
    /\ place = IF args.selftest \/ args.port # NoPort THEN "ptmx" ELSE "done"
    /\ round = ReadBack
    /\ buf = <<>> /\ late = FALSE /\ failed = FALSE
    /\ found = [r \in 1..2 |-> {}]

Goto(next) == place' = next

\* run returns an error, which ends a sweep too; what is open is closed on the way,
\* by Loopback itself or by what was deferred.
Abandon == error' = TRUE /\ pty' = {} /\ open' = NoPort /\ Goto("done")

\* The device sends some more of its stream; the deadline passes.
Arrive ==
    /\ place \in Connected
    /\ \E n \in stream.ends : n > arrived /\ arrived' = n
    /\ UNCHANGED <<cellvars, stream, gone, place, round, start, buf, late, failed, found>>

TimePasses ==
    /\ place \in Draining /\ ~late
    /\ late' = TRUE
    /\ UNCHANGED <<cellvars, stream, arrived, gone, place, round, start, buf, failed, found>>

Opens(step) == CASE step = "ptmx" -> {"master"} [] step = "slave" -> {"slave"} [] OTHER -> {}

\* Bug: a request that fails has its error returned and nothing else.
Prepare_Leaks ==
    /\ \E i \in 1..7 :
          /\ place = SelfTest[i]
          /\ \/ Goto(SelfTest[i + 1]) /\ pty' = pty \cup Opens(place) /\ UNCHANGED <<open, error>>
             \/ i \in 2..5 /\ error' = TRUE /\ Goto("done") /\ UNCHANGED <<pty, open>>
             \/ i \notin 2..5 /\ Abandon
    /\ UNCHANGED <<args, cell, tried, raised, unset,
                   stream, arrived, gone, round, start, buf, late, failed, found>>

\* selftest, until it listens.
Prepare ==
    /\ \E i \in 1..7 :
          /\ place = SelfTest[i]
          /\ \/ Goto(SelfTest[i + 1]) /\ pty' = pty \cup Opens(place) /\ UNCHANGED <<open, error>>
             \/ Abandon
    /\ UNCHANGED <<args, cell, tried, raised, unset,
                   stream, arrived, gone, round, start, buf, late, failed, found>>

\* The next listening begins, at the beginning of the buffer.
Listen(r) ==
    /\ Goto("deadline") /\ round' = r
    /\ start' = gone /\ buf' = <<>> /\ late' = FALSE /\ failed' = FALSE

\* A reader that brings back something of what was written ...
Echoed ==
    /\ place = "report" /\ round = ReadBack
    /\ IF failed \/ buf = <<>>
       THEN Abandon /\ UNCHANGED <<round, start, buf, late, failed>>
       ELSE Listen(IdleRead) /\ UNCHANGED <<pty, open, error>>
    /\ UNCHANGED <<args, cell, tried, raised, unset, stream, arrived, gone, found>>

\* ... and then reports silence, and not at once, is one to be believed.
Silent ==
    /\ place = "report" /\ round = IdleRead
    /\ \E waited \in {late, TRUE} :
          IF failed \/ buf # <<>> \/ ~waited
          THEN Abandon
          ELSE Goto(IF args.selftest THEN "done" ELSE "next") /\ pty' = {} /\ UNCHANGED <<open, error>>
    /\ round' = Unprompted /\ start' = gone /\ buf' = <<>>
    /\ UNCHANGED <<args, cell, tried, raised, unset, stream, arrived, gone, late, failed, found>>

\* once returns nil, and sweep goes to its next configuration.
Next_Cell ==
    /\ place = "next"
    /\ tried' = tried \cup (IF cell = 0 THEN {} ELSE {Setting(cell)})
    /\ IF cell < Settings
       THEN /\ cell' = cell + 1 /\ Goto("open")
            /\ round' = Unprompted /\ start' = gone /\ buf' = <<>>
            /\ late' = FALSE /\ failed' = FALSE /\ found' = [r \in 1..2 |-> {}]
       ELSE Goto("done") /\ UNCHANGED <<cell, round, start, buf, late, failed, found>>
    /\ open' = NoPort
    /\ UNCHANGED <<args, pty, raised, unset, error, stream, arrived, gone>>

\* Open; a call-out node leaves the modem lines low, another may raise them.
OpenPort ==
    /\ place = "open"
    /\ \/ /\ open' = Setting(cell).path
          /\ raised' \in {{}, {DTR, RTS}} /\ unset' = FALSE
          /\ stream' \in args.streams /\ arrived' \in stream'.ends
          /\ gone' = 0 /\ start' = 0
          /\ Goto("lines")
       \/ Goto("next") /\ UNCHANGED <<open, raised, unset, stream, arrived, gone, start>>
    /\ UNCHANGED <<args, cell, tried, pty, error, round, buf, late, failed, found>>

\* SetLines with the lines that are wanted and the lines that are not: two
\* requests, of which an empty one is not made, and each of which may fail.
SetBits ==
    /\ place = "lines"
    /\ LET set   == Setting(cell).lines
           clear == {DTR, RTS} \ set
       IN  \/ raised' = (raised \cup set) \ clear /\ UNCHANGED unset
           \/ /\ raised' \in {raised} \cup {raised \cup set : l \in clear}
              /\ unset' = TRUE
    /\ Goto("flush")
    /\ UNCHANGED <<args, cell, tried, pty, open, error,
                   stream, arrived, gone, round, start, buf, late, failed, found>>

\* Flush; whether it failed is not looked at. The options may leave out the first
\* listening; a sweep does not.
Flush ==
    /\ place = "flush"
    /\ gone' \in {gone, arrived}
    /\ start' = gone'
    /\ Goto(IF args.listen \/ args.sweep THEN "deadline" ELSE "outbound")
    /\ UNCHANGED <<cellvars, stream, arrived, round, buf, late, failed, found>>

\* outbound, and Write.
Outbound ==
    /\ place = "outbound"
    /\ \/ args.send = "no hex" /\ Abandon
       \/ args.send = "nothing" /\ Goto("next") /\ UNCHANGED <<pty, open, error>>
       \/ args.send = "bytes" /\ Goto("write") /\ UNCHANGED <<pty, open, error>>
    /\ UNCHANGED <<args, cell, tried, raised, unset,
                   stream, arrived, gone, round, start, buf, late, failed, found>>

WritePayload ==
    /\ place = "write"
    /\ Listen(Reply) \/ (Goto("next") /\ UNCHANGED <<round, start, buf, late, failed>>)
    /\ UNCHANGED <<cellvars, stream, arrived, gone, found>>

\* Drain returns.
Return(err) == failed' = err /\ Goto("report")

SetDeadline ==
    /\ place = "deadline"
    /\ \/ Goto("read") /\ UNCHANGED failed
       \/ Return(TRUE)
    /\ UNCHANGED <<cellvars, stream, arrived, gone, round, start, buf, late, found>>

\* The room that is left in the buffer: the control has one of its own.
Room == (IF round < Unprompted THEN 64 ELSE BufSize) - Len(buf)

\* Where a read that brings data may end: at the end of a delivery, or when the
\* buffer is full.
ReadEnds == {n \in stream.ends \cup {gone + Room} : gone < n /\ n <= arrived /\ n - gone <= Room}

\* Bug: every read goes to the beginning of the buffer.
ReadData_Overwrites ==
    /\ place = "read" /\ ~late
    /\ \E n \in ReadEnds :
          /\ buf' = SubSeq(stream.bytes, gone + 1, n) \o SubSeq(buf, n - gone + 1, Len(buf))
          /\ gone' = n
    /\ Goto("check")
    /\ UNCHANGED <<cellvars, stream, arrived, round, start, late, failed, found>>

ReadData ==
    /\ place = "read" /\ ~late
    /\ \E n \in ReadEnds :
          /\ buf' = buf \o SubSeq(stream.bytes, gone + 1, n)
          /\ gone' = n
    /\ Goto("check")
    /\ UNCHANGED <<cellvars, stream, arrived, round, start, late, failed, found>>

\* A read whose deadline has passed brings nothing, even if bytes are waiting.
\* "A timeout is not an error."
Timeout ==
    /\ place = "read" /\ late
    /\ Return(FALSE)
    /\ UNCHANGED <<cellvars, stream, arrived, gone, round, start, buf, late, found>>

\* Nor is an end of file; whatever else ends a read is Drain's error.
Hangup ==
    /\ place = "read"
    /\ \E err \in BOOLEAN : Return(err)
    /\ UNCHANGED <<cellvars, stream, arrived, gone, round, start, buf, late, found>>

Check ==
    /\ place = "check"
    /\ IF late \/ Room = 0
       THEN Return(FALSE)
       ELSE Goto("deadline") /\ UNCHANGED failed
    /\ UNCHANGED <<cellvars, stream, arrived, gone, round, start, buf, late, found>>

\* decode: from every 0xFF, the shortest range that is a packet. Places count
\* from zero.
PacketAt(b, i) ==
    LET ends == {e \in i + MinPacket..Len(b) : Valid(SubSeq(b, i + 1, e))}
        p    == SubSeq(b, i + 1, Min(ends))
    IN  IF ends = {}
        THEN {}
        ELSE {[at |-> i, size |-> Len(p),
               angles |-> IF IsIMU(p) THEN ParseIMU(p) ELSE <<>>]}

Decode(b) ==
    UNION {PacketAt(b, i) : i \in {j \in 0..Len(b) - MinPacket : b[j + 1] = 255}}

\* report of what a device said.
Report ==
    /\ place = "report" /\ round \in {Unprompted, Reply}
    /\ found' = [found EXCEPT ![round] = IF failed THEN {} ELSE Decode(buf)]
    /\ Goto(IF round = Unprompted THEN "outbound" ELSE "next")
    /\ UNCHANGED <<cellvars, stream, arrived, gone, round, start, buf, late, failed>>

SProgram ==
    \/ Prepare \/ Echoed \/ Silent \/ Next_Cell
    \/ OpenPort \/ SetBits \/ Flush \/ Outbound \/ WritePayload
    \/ SetDeadline \/ ReadData \/ Timeout \/ Check \/ Report

SNext == SProgram \/ Hangup \/ Arrive \/ TimePasses

\* The program runs, a read brings what is waiting and honours its deadline, and
\* time passes. The device need not send anything.
SFairness == WF_svars(SProgram) /\ WF_svars(TimePasses)
-----------------------------------------------------------------------------
STypeOK ==
    /\ arrived \in 0..Len(stream.bytes) /\ gone \in 0..arrived /\ start \in 0..gone
    /\ place \in Connected \cup {SelfTest[i] : i \in 1..8} \cup {"next", "open", "done"}
    /\ round \in ReadBack..Reply /\ cell \in 0..Settings
    /\ raised \subseteq {DTR, RTS} /\ pty \subseteq {"master", "slave"}
    /\ Room >= 0
    /\ {late, failed, unset, error} \subseteq BOOLEAN

\* "to be able to say afterwards exactly what was tried": whenever the program
\* listens to a device, the port it has open is the one its configuration names and
\* the modem lines are that configuration's, whatever the driver or the configuration
\* before made of them, unless it has said that it could not set them; and a sweep
\* that ends without an error has tried both nodes at every rate with the lines down
\* and up, whichever node the command line named.
SweepIsExact ==
    /\ place \in Draining /\ round >= Unprompted =>
          /\ open = Setting(cell).path
          /\ unset \/ raised = Setting(cell).lines
    /\ place = "done" /\ args.sweep /\ ~error /\ cell > 0 =>
          tried = [path  : {Path("/dev/", node, args.port.base) : node \in {"cu.", "tty."}},
                   baud  : {115200, 921600, 1000000, 3000000},
                   lines : {{}, {DTR, RTS}}]

\* The control listens to a pseudo-terminal with both of its ends open, a
\* configuration to the one port that it has opened, and with the control over;
\* a program that has come to its end, on whatever path, has closed all of them.
OneAtATime ==
    /\ place \in Draining /\ round < Unprompted => pty = {"master", "slave"} /\ open = NoPort
    /\ place \in Draining /\ round >= Unprompted => pty = {} /\ open # NoPort
    /\ place = "done" => pty = {} /\ open = NoPort

\* Drain returns "everything that arrived": what left the queue since it began is
\* in the buffer, whole and in order, however many reads it came in.
DrainLosesNothing == buf = SubSeq(stream.bytes, start + 1, gone)

\* "A decoder that finds structure in noise is the classic way to invent a
\* result": of a listening that did not fail, decode reports the packets that
\* lie in it whole, each with its angles, and nothing else, though the device's
\* bytes hold noise and packets with wrong bits.
DecodeIsExact ==
    place \in {"outbound", "next", "done"} /\ round >= Unprompted /\ ~failed =>
        found[round] = {[p EXCEPT !.at = @ - start] :
                            p \in {q \in stream.packets :
                                      start <= q.at /\ q.at + q.size <= gone}}
=============================================================================
