------------------------------ MODULE UsbProbe ------------------------------
(***************************************************************************)
(* usbprobe on one device or one interface, after it has listed the        *)
(* configuration (report and ifaceReport in cmd/usbprobe/main.go), with    *)
(* what the calls it makes do in package usb: Control, Descriptor, Pipes,  *)
(* Write, Read and their darwin halves. It is one goroutine, and at any    *)
(* time waits for at most one transfer.                                    *)
(*                                                                         *)
(* External are the device, which answers what it likes or nothing, and    *)
(* IOKit, which keeps deadlines and which alone knows which endpoint is    *)
(* behind a pipe ref.                                                      *)
(***************************************************************************)
EXTENDS UsbRequests, Viture

CONSTANTS
    Options,     \* command lines
    Interfaces,  \* the device's interfaces: [Number, endpoints]
    Registry,    \* bytes 8 to 11 of its descriptor, as the registry has them
    Answers      \* what it sends when it is asked something

PipeOut == 0
PipeIn  == 1

\* Of the types of a pipe, the two that decide how it can be read.
TransferBulk      == 2
TransferInterrupt == 3

\* A bRequest is a byte, and so is the highest that a sweep tries.
ASSUME OptionsAssumption ==
    \A p \in Options :
        /\ {p.control, p.scan, p.imu, p.cdc, p.seize, p.bulkIMU} \subseteq BOOLEAN
        /\ {p.cdcSet, p.timeout, p.iface, p.bulkOut, p.bulkRead} \subseteq Int
        /\ p.maxReq \in 0..255

ASSUME DeviceAssumption ==
    /\ \A a \in Answers : a \in Seq(0..255)
    /\ \A i \in Interfaces :
          i.endpoints \in Seq([Number : Nat, Dir : {PipeOut, PipeIn}, Type : Nat, MaxPacket : Nat])

Zeros(n) == [j \in 1..n |-> 0]
Shorter(m, n) == IF m < n THEN m ELSE n
-----------------------------------------------------------------------------
VARIABLES
    o,        \* the options
    phase,    \* where the program is
    todo,     \* its next or present request to endpoint 0, and the function that makes it
    handle,   \* how it has the device or interface: closed, open or seized
    timed,    \* IOKit's interface for it takes deadlines
    claimed,  \* the interface
    pipes,    \* those Pipes listed
    wire,     \* the transfer in progress or made last
    data,     \* the buffer it was given
    hits,     \* requests of this pass that did not stall
    total,    \* bytes have been read from the pipe
    expired,  \* the time for reading is over
    said,     \* the lines printed last
    truth     \* the device's side: see UInit

uvars == <<o, phase, todo, handle, timed, claimed, pipes, wire, data, hits, total, expired, said, truth>>

-----------------------------------------------------------------------------
(* What the options make it ask of endpoint 0, in order.                     *)

Step(in, setup) == [in |-> in, setup |-> setup]
Over == Step("none", GetStatus)

pkt == EnableIMU(TRUE, 0)

\* Each function's first request, or what comes after the function if the options
\* leave it out.
Send(recipient, request) == Step("imuAttempt", Setup(Out, Vendor, recipient, request, 0, 0))
imuAttempt == IF o.imu THEN Send(ToDevice, 1) ELSE Over

Serial(iface) == Step("cdcCheck", IF o.cdcSet # 0 THEN SetLineCoding(iface) ELSE GetLineCoding(iface))
cdcCheck == IF o.cdc \/ o.cdcSet # 0 THEN Serial(0) ELSE imuAttempt

canary == IF o.scan THEN Step("canary", GetStatus) ELSE cdcCheck
controlCheck ==
    IF o.control THEN Step("controlCheck", GetDescriptor(DescDevice, 0, 0)) ELSE canary

\* "Direction is fixed to In on purpose."
Try(recipient, index, request) ==
    Step("sweep", Setup(In, Vendor, recipient, request, 0, index))

\* A pass tries the requests from zero, and the passes are one for the device and one
\* for each of six interfaces.
sweep(s) ==
    CASE s.Request < o.maxReq -> Try(s.Recipient, s.Index, s.Request + 1)
      [] s.Request >= o.maxReq /\ s.Recipient = ToDevice -> Try(ToInterface, 0, 0)
      [] s.Request >= o.maxReq /\ s.Recipient # ToDevice /\ s.Index < 5 ->
           Try(ToInterface, s.Index + 1, 0)
      [] OTHER -> cdcCheck

\* Of two interfaces.
cdcNext(s) ==
    CASE s.Request = ReqSetLineCoding ->
           Step("cdcCheck", SetControlLineState(s.Index, ControlLineDTR + ControlLineRTS))
      [] s.Request = ReqSetControlLineState -> Step("cdcCheck", GetLineCoding(s.Index))
      [] OTHER -> IF s.Index = 0 THEN Serial(1) ELSE imuAttempt

imuNext(s) ==
    CASE s.Request = 1 -> Send(s.Recipient, 2)
      [] s.Request = 2 -> Send(s.Recipient, 9)
      [] s.Request = 9 -> Send(s.Recipient, 21)
      [] OTHER -> IF s.Recipient = ToDevice THEN Send(ToInterface, 1) ELSE Over

\* The buffer that a request is made with: what is sent, or the room for the answer.
Buffer(s) ==
    LET request == s.setup.Request
    IN  CASE s.in = "controlCheck" -> Zeros(18)
          [] s.in = "canary" -> Zeros(2)
          [] s.in = "cdcCheck" /\ request = ReqSetLineCoding ->
               LineCodingBytes(LineCoding(o.cdcSet, 0, 0, 8))
          [] s.in = "cdcCheck" /\ request = ReqSetControlLineState -> <<>>
          [] s.in = "cdcCheck" /\ request = ReqGetLineCoding -> Zeros(LineCodingSize)
          [] s.in = "imuAttempt" /\ s.setup.Direction = Out -> pkt
          [] OTHER -> Zeros(64)

Asked == o.control \/ o.scan \/ o.imu \/ o.cdc \/ o.cdcSet # 0
-----------------------------------------------------------------------------
NoInterface == [Number |-> 0, endpoints |-> <<>>]

\* No transfer yet. One on a pipe has the address of the endpoint that its ref stands
\* for; bytes are what went over the wire.
NoTransfer ==
    [in |-> "none", setup |-> GetStatus, ref |-> 0, address |-> 0,
     ms |-> 1, bytes |-> <<>>, code |-> "none"]

Idle ==
    /\ handle = "closed" /\ timed = TRUE
    /\ claimed = NoInterface /\ pipes = <<>> /\ wire = NoTransfer /\ data = <<>>
    /\ hits = 0 /\ total = FALSE /\ expired = FALSE /\ said = {}
    \* The line coding the device holds, whether it answered the canary, the requests
    \* of this pass that it did not stall, what it took last, and at which points of a
    \* read something has come from the pipe.
    /\ truth = [coding |-> Zeros(LineCodingSize), sang |-> FALSE, lively |-> {},
                took |-> GetStatus, came |-> {}]

UInit ==
    /\ o \in Options /\ phase = "begin" /\ Idle
    /\ todo = IF o.iface >= 0 THEN Over ELSE controlCheck

\* run and report: nothing is opened without need.
Begin ==
    /\ phase = "begin"
    /\ IF o.iface >= 0
       THEN \/ \E i \in Interfaces : i.Number = o.iface % 256 /\ claimed' = i /\ phase' = "open"
            \/ (\A i \in Interfaces : i.Number # o.iface % 256) /\ phase' = "done" /\ UNCHANGED claimed
       ELSE phase' = (IF Asked THEN "open" ELSE "done") /\ UNCHANGED claimed
    /\ UNCHANGED <<o, todo, handle, timed, pipes, wire, data, hits, total, expired, said, truth>>

\* Either kind of open: a device's may get it an interface without timeouts, and
\* then it cannot be seized.
Opened(how) ==
    /\ handle' = how
    /\ timed' \in (IF o.iface >= 0 \/ how = "seized" THEN {TRUE} ELSE BOOLEAN)
    /\ phase' = (IF o.iface >= 0 THEN "pipes" ELSE "transfer")

Open ==
    /\ phase = "open"
    /\ \/ Opened("open")
       \/ phase' = (IF o.seize THEN "seize" ELSE "done") /\ UNCHANGED <<handle, timed>>
    /\ UNCHANGED <<o, todo, claimed, pipes, wire, data, hits, total, expired, said, truth>>

OpenSeize ==
    /\ phase = "seize"
    /\ Opened("seized") \/ (phase' = "done" /\ UNCHANGED <<handle, timed>>)
    /\ UNCHANGED <<o, todo, claimed, pipes, wire, data, hits, total, expired, said, truth>>

-----------------------------------------------------------------------------
(* Endpoint 0. *)

\* sweep makes one buffer for all of its requests, the others one for each, and
\* Descriptor leaves the timeout to Control.
Control ==
    /\ phase = "transfer" /\ todo # Over
    /\ data' = IF todo.in = "sweep" /\ wire.in = "sweep" THEN data ELSE Buffer(todo)
    /\ wire' = [NoTransfer EXCEPT
                  !.in = todo.in, !.setup = todo.setup,
                  !.bytes = IF todo.setup.Direction = Out THEN Buffer(todo) ELSE <<>>,
                  !.ms = ControlMS(IF todo.in = "controlCheck" THEN 0 ELSE o.timeout)]
    /\ phase' = "wait" /\ said' = {}
    /\ UNCHANGED <<o, todo, handle, timed, claimed, pipes, hits, total, expired, truth>>

Finish ==
    /\ phase = "transfer" /\ todo = Over
    /\ phase' = "done" /\ said' = {}
    /\ UNCHANGED <<o, todo, handle, timed, claimed, pipes, wire, data, hits, total, expired, truth>>

SamePass(s, u) == s.Recipient = u.Recipient /\ s.Index = u.Index

\* The last request of a pass, which has its sum printed.
PassEnds == wire.setup.Request = o.maxReq

\* A request that "did anything but stall" is counted.
hit(code) == IF code = "Stalled" THEN 0 ELSE 1

Sings(code, n) == code = "Success" /\ n = 2

\* What is printed of n bytes in buffer b, or of the error.
Line(code, b, n) ==
    CASE wire.in = "controlCheck" ->
           {[says |-> IF code = "Success" /\ n = 18 /\ SubSeq(b, 9, 12) = Registry THEN "PASS" ELSE "FAIL"]}
      [] wire.in = "canary" -> {[says |-> IF Sings(code, n) THEN "sings" ELSE "ABORTED"]}
      [] wire.in = "sweep" ->
           (IF code = "Success" THEN {[says |-> "ANSWERED", bytes |-> SubSeq(b, 1, n)]} ELSE {})
           \cup (IF PassEnds THEN {[says |-> "sum", hits |-> hits + hit(code)]} ELSE {})
      [] wire.in = "cdcCheck" /\ wire.setup.Request = ReqGetLineCoding /\ code = "Success" ->
           IF n < LineCodingSize THEN {[says |-> "short"]}
           ELSE IF Zero(ParseLineCoding(b)) THEN {[says |-> "ALL ZERO"]}
           ELSE {[says |-> "coding", coding |-> ParseLineCoding(b)]}
      [] wire.in = "imuAttempt" /\ wire.setup.Direction = In /\ code = "Success" ->
           IF IsIMU(SubSeq(b, 1, n)) THEN {[says |-> "DECODED", angles |-> ParseIMU(b)]} ELSE {}
      [] OTHER -> {}

\* What it asks next. "An accepted write is not an answer": only it is followed by a
\* question.
After(code, n) ==
    CASE wire.in = "controlCheck" -> canary
      [] wire.in = "canary" -> IF Sings(code, n) THEN Try(ToDevice, 0, 0) ELSE cdcCheck
      [] wire.in = "sweep" -> sweep(wire.setup)
      [] wire.in = "cdcCheck" -> cdcNext(wire.setup)
      [] wire.in = "imuAttempt" ->
           IF wire.setup.Direction = Out /\ code = "Success"
           THEN Step("imuAttempt", [wire.setup EXCEPT !.Direction = In])
           ELSE imuNext(wire.setup)

\* The transfer is over, and bytes are what the device sent of them. A transfer that
\* failed may have moved some, and it is the error that counts.
Returns(code, bytes) ==
    LET inwards == wire.setup.Direction = In
        n == IF inwards THEN Shorter(Len(bytes), Len(data)) ELSE 0
        b == IF inwards THEN SubSeq(bytes, 1, n) \o SubSeq(data, n + 1, Len(data)) ELSE data
    IN  /\ data' = b
        /\ wire' = [wire EXCEPT !.code = code, !.bytes = IF inwards THEN SubSeq(bytes, 1, n) ELSE @]
        /\ said' = Line(code, b, n)
        /\ todo' = After(code, n)
        /\ hits' = IF wire.in # "sweep" \/ PassEnds THEN 0 ELSE hits + hit(code)
        /\ phase' = "transfer"

OnEndpoint0 == wire.in \in {"controlCheck", "canary", "sweep", "cdcCheck", "imuAttempt"}

Lively ==
    IF wire.in = "sweep"
    THEN [truth EXCEPT !.lively = {s \in @ : SamePass(s, wire.setup)} \cup {wire.setup}]
    ELSE truth

\* The device takes what it is sent, and a line coding for good unless its serial
\* function is a stub.
Take ==
    /\ phase = "wait" /\ OnEndpoint0 /\ wire.setup.Direction = Out
    /\ Returns("Success", <<>>)
    /\ \E keeps \in BOOLEAN :
          /\ keeps => wire.setup = SetLineCoding(wire.setup.Index)
          /\ truth' = [Lively EXCEPT !.took = wire.setup, !.coding = IF keeps THEN data ELSE @]
    /\ UNCHANGED <<o, handle, timed, claimed, pipes, total, expired>>

\* It answers, the question about its line coding with what it holds if it likes.
Answer ==
    /\ phase = "wait" /\ OnEndpoint0 /\ wire.setup.Direction = In
    /\ \E bytes \in Answers \cup {truth.coding} :
          /\ Returns("Success", bytes)
          /\ truth' = [Lively EXCEPT !.sang = @ \/ (wire.in = "canary" /\ Len(wire'.bytes) = 2)]
    /\ UNCHANGED <<o, handle, timed, claimed, pipes, total, expired>>

\* It stalls, or is gone.
Refuse ==
    /\ phase = "wait" /\ OnEndpoint0
    /\ \/ Returns("Stalled", <<>>) /\ UNCHANGED truth
       \/ Returns("NoDevice", <<>>) /\ truth' = Lively
    /\ UNCHANGED <<o, handle, timed, claimed, pipes, total, expired>>

\* It does neither until the deadline, which may find half an answer.
Deadline ==
    /\ phase = "wait" /\ OnEndpoint0
    /\ timed /\ wire.ms # 0
    /\ \E some \in {<<>>, <<1>>} : Returns("Timeout", some)
    /\ truth' = Lively
    /\ UNCHANGED <<o, handle, timed, claimed, pipes, total, expired>>
-----------------------------------------------------------------------------
(* Pipes. *)

Address(p) == (p.Number % 16) + (IF p.Dir = PipeIn THEN 128 ELSE 0)

\* Bug: refs are counted from zero, which is the control pipe.
Listed_Zero(endpoints) ==
    [ref \in DOMAIN endpoints |-> [Ref |-> ref - 1, Number |-> endpoints[ref].Number,
                                   Dir |-> endpoints[ref].Dir, MaxPacket |-> endpoints[ref].MaxPacket]]

\* darwinPipes: "refs run 1..GetNumEndpoints". What no caller here looks at, the type
\* among it, is left out.
Listed(endpoints) ==
    [ref \in DOMAIN endpoints |-> [Ref |-> ref, Number |-> endpoints[ref].Number,
                                   Dir |-> endpoints[ref].Dir, MaxPacket |-> endpoints[ref].MaxPacket]]

\* GetPipeProperties may fail, and then no pipe is looked at.
Pipes ==
    /\ phase = "pipes"
    /\ \/ pipes' = Listed(claimed.endpoints) /\ phase' = "writePipe"
       \/ phase' = "done" /\ UNCHANGED pipes
    /\ UNCHANGED <<o, todo, handle, timed, claimed, wire, data, hits, total, expired, said, truth>>

\* The first of that address; none if there is none.
findPipe(ps, address) ==
    LET Is(i) == Address(ps[i]) = address % 256
    IN  {ps[i] : i \in {j \in DOMAIN ps : Is(j) /\ \A before \in 1..j - 1 : ~Is(before)}}

\* A call on pipe p; the kernel goes by the ref. The deadline is IOKit's, or the timer
\* of an interrupt read.
OnPipe(in, p, bytes) ==
    LET known == p.Ref \in DOMAIN claimed.endpoints
    IN  /\ wire' = [NoTransfer EXCEPT
                      !.in = in, !.ref = p.Ref, !.ms = timeoutMS(o.timeout), !.bytes = bytes,
                      !.address = IF known THEN Address(claimed.endpoints[p.Ref]) ELSE 0]
        /\ phase' = "wait"

\* writeBytes, of what; after it the program is at then.
Writing(what, bytes, then) ==
    LET its == findPipe(pipes, o.bulkOut)
    IN  /\ said' = {}
        /\ IF bytes = {} \/ its = {}
           THEN phase' = then /\ UNCHANGED wire
           ELSE \E b \in bytes, p \in its : OnPipe(what, p, b)
        /\ UNCHANGED <<o, todo, handle, timed, claimed, pipes, data, hits, total, expired, truth>>

\* "-bulk-write is not hex" writes nothing.
WritePipe == phase = "writePipe" /\ Writing("writePipe", o.bulkWrite, "writeIMU")
WriteIMU  == phase = "writeIMU"
             /\ Writing("writeIMU", IF o.bulkIMU THEN {pkt} ELSE {}, "readPipe")

\* The pipe of the transfer is bulk.
Bulk == \E i \in DOMAIN claimed.endpoints : i = wire.ref /\ claimed.endpoints[i].Type = TransferBulk

\* What IOKit makes of a call with deadlines. "IOUSBLib's timeout variants are BULK
\* ONLY": another pipe is refused. Stalled is for every error but a timeout.
CodesTO == IF Bulk THEN {"Success", "Stalled", "Timeout"} ELSE {"Stalled"}

\* WritePipeTO returns: all of it was ACKed, or it counts as nothing.
Written ==
    /\ phase = "wait" /\ wire.in \in {"writePipe", "writeIMU"}
    /\ \E code \in CodesTO :
          /\ wire' = [wire EXCEPT !.code = code]
          /\ said' = IF code = "Success" THEN {[says |-> "WRITE", bytes |-> wire.bytes]} ELSE {}
    /\ phase' = (IF wire.in = "writePipe" THEN "writeIMU" ELSE "readPipe")
    /\ UNCHANGED <<o, todo, handle, timed, claimed, pipes, data, hits, total, expired, truth>>

\* darwinReadPipe's choice, by the type that pipeTypeOf has from the kernel: it may
\* get none, and then the call is ReadPipeTO.
Ways(ref) ==
    {"readPipe"} \cup
    {"readInterrupt" : i \in {j \in DOMAIN claimed.endpoints :
                                j = ref /\ claimed.endpoints[j].Type = TransferInterrupt}}

\* One turn of readPipe's loop, until its time is over.
ReadPipe ==
    LET its == findPipe(pipes, o.bulkRead)
    IN  /\ phase = "readPipe"
        /\ IF o.bulkRead = 0 \/ its = {}
           THEN phase' = "done" /\ said' = {} /\ UNCHANGED <<wire, data>>
           ELSE IF expired
           THEN /\ phase' = "done" /\ said' = (IF total THEN {} ELSE {[says |-> "empty"]})
                /\ UNCHANGED <<wire, data>>
           ELSE /\ said' = {}
                /\ \E p \in its : \E way \in Ways(p.Ref) :
                      /\ data' = Zeros(IF p.MaxPacket = 0 THEN 512 ELSE p.MaxPacket)
                      /\ OnPipe(way, p, <<>>)
        /\ UNCHANGED <<o, todo, handle, timed, claimed, pipes, hits, total, expired, truth>>

\* What goes into the buffer of what the device sends.
Filled(bytes) == SubSeq(bytes, 1, Shorter(Len(bytes), Len(data)))

\* Read returns n bytes of memory, or an error; sent is what the device sent.
ReadReturns(code, sent, memory, n) ==
    /\ wire' = [wire EXCEPT !.code = code, !.bytes = sent]
    /\ truth' = [truth EXCEPT !.came = IF sent = <<>> THEN @ ELSE @ \cup {wire.in}]
    /\ said' = IF n > 0 THEN {[says |-> "READ", bytes |-> SubSeq(memory, 1, n)]} ELSE {}
    /\ total' = (total \/ n > 0)
    /\ phase' = IF n = 0 /\ code = "Stalled" THEN "done" ELSE "readPipe"
    /\ UNCHANGED <<o, todo, handle, timed, claimed, pipes, data, hits, expired>>

\* Bug: the size word is believed even when the transfer did not complete.
darwinReadPipe_Believes(code, word) == word

\* "On any non-success code the count is zero", whatever the size word holds.
darwinReadPipe(code, word) == IF code = "Success" THEN Shorter(word, Len(data)) ELSE 0

\* ReadPipeTO returns: with what the device sent, or with the size word as it was and
\* scratch in the buffer.
ReadDone ==
    /\ phase = "wait" /\ wire.in = "readPipe"
    /\ \E code \in CodesTO, bytes \in Answers :
          LET sent   == IF code = "Success" THEN Filled(bytes) ELSE <<>>
              memory == IF code = "Success" THEN sent ELSE [j \in DOMAIN data |-> 90]
          IN  ReadReturns(code, sent, memory, darwinReadPipe(code, Len(memory)))

\* The worker's ReadPipe, which has no deadline, returns before the timer fires: the
\* device has sent something, or there is an error.
InterruptDone ==
    /\ phase = "wait" /\ wire.in = "readInterrupt"
    /\ \/ \E bytes \in Answers :
             ReadReturns("Success", Filled(bytes), Filled(bytes), Len(Filled(bytes)))
       \/ ReadReturns("Stalled", <<>>, <<>>, 0)

\* The timer fires first: AbortPipe, which ends the worker's read, or misses it if the
\* worker has not made it yet.
Abort ==
    /\ phase = "wait" /\ wire.in = "readInterrupt"
    /\ \E then \in {"reap", "missed"} : wire' = [wire EXCEPT !.in = then]
    /\ UNCHANGED <<o, phase, todo, handle, timed, claimed, pipes, data, hits, total, expired, said, truth>>

\* "Abort, then REAP": what has come in the meantime is given up for a timeout.
GivenUp == \E bytes \in Answers \cup {<<>>} : ReadReturns("Timeout", Filled(bytes), <<>>, 0)

Reap == phase = "wait" /\ wire.in = "reap" /\ GivenUp

\* A read that the abort has missed ends when the device sends something or goes.
ReapMissed == phase = "wait" /\ wire.in = "missed" /\ GivenUp

TimeIsOver ==
    /\ phase \in {"readPipe", "wait"} /\ o.iface >= 0 /\ ~expired
    /\ expired' = TRUE
    /\ UNCHANGED <<o, phase, todo, handle, timed, claimed, pipes, wire, data, hits, total, said, truth>>

\* What the program does, what IOKit's deadlines do, and the clock.
Goes ==
    \/ Begin \/ Open \/ OpenSeize \/ Control \/ Finish \/ Deadline
    \/ Pipes \/ WritePipe \/ WriteIMU \/ Written \/ ReadPipe \/ ReadDone \/ Abort \/ Reap

UNext == Goes \/ Take \/ Answer \/ Refuse \/ InterruptDone \/ ReapMissed \/ TimeIsOver

\* Nothing obliges the device to answer, an interrupt read that was missed by its
\* abort included. Calls with deadlines return, and so does a read that is aborted.
UFairness == WF_uvars(Goes) /\ WF_uvars(TimeIsOver)
-----------------------------------------------------------------------------
\* The points of a read.
InRead == {"readPipe", "readInterrupt", "reap", "missed"}

UTypeOK ==
    /\ phase \in {"begin", "open", "seize", "transfer", "wait", "pipes", "writePipe", "writeIMU",
                  "readPipe", "done"}
    /\ handle \in {"closed", "open", "seized"} /\ timed \in BOOLEAN
    /\ total \in BOOLEAN /\ expired \in BOOLEAN
    /\ hits \in 0..o.maxReq + 1
    /\ wire.ms \in 1..Width - 1
    /\ truth.came \subseteq InRead

\* "The dangerous half is opt-in": nothing is opened, taken from its owner or asked
\* unless a flag says so, requests are sent to the device only for -imu and
\* -cdc-set ("-scan reads only"), vendor requests only behind a canary that was
\* answered or for -imu, and what is read or written through a pipe ref goes to the
\* endpoint whose address the command line names.
OnlyWhatWasAsked ==
    /\ handle = "seized" => o.seize
    /\ handle # "closed" => Asked \/ o.iface >= 0
    /\ handle # "closed" /\ o.iface >= 0 => claimed.Number = o.iface % 256
    /\ OnEndpoint0 =>
         /\ handle # "closed" /\ o.iface < 0
         /\ wire.setup.Direction = Out => IF wire.setup.Type = Class THEN o.cdcSet # 0 ELSE o.imu
         /\ wire.setup.Type = Class => o.cdc \/ o.cdcSet # 0
         /\ wire.setup.Type = Vendor => o.imu \/ (o.scan /\ truth.sang)
    /\ wire.in \in {"writePipe", "writeIMU"} =>
         /\ wire.address = o.bulkOut % 256
         /\ wire.bytes \in o.bulkWrite \/ (o.bulkIMU /\ wire.bytes = pkt)
    /\ wire.in \in InRead => wire.address = o.bulkRead % 256

\* "Nothing else this program prints means anything until they do": every verdict
\* has its ground in what went over the wire. PASS is the registry's device; an
\* answer, a read or a write that is printed is the device's bytes or was
\* ACKed by it, not what was in memory before; a sum is behind a canary that was
\* answered, and counts the requests of its pass that were not stalled;
\* the line coding is the one the device sent; an orientation comes in reply
\* to the packet that this recipient has just taken; a pipe that "stayed empty"
\* brought nothing, but for what came to an interrupt read after its timer had fired
\* (and is given up, PipeLost).
VerdictsAreFounded ==
    \A line \in said :
        /\ line.says = "PASS" => Len(wire.bytes) = 18 /\ SubSeq(wire.bytes, 9, 12) = Registry
        /\ line.says \in {"ANSWERED", "READ", "WRITE"} => line.bytes = wire.bytes /\ wire.code = "Success"
        /\ line.says = "ABORTED" => ~truth.sang
        /\ line.says = "sum" => truth.sang
              /\ line.hits = Cardinality({s \in truth.lively : SamePass(s, wire.setup)})
        /\ line.says = "ALL ZERO" => wire.bytes = Zeros(LineCodingSize)
        /\ line.says = "coding" => wire.bytes = LineCodingBytes(line.coding)
        /\ line.says = "DECODED" => IsIMU(wire.bytes) /\ line.angles = ParseIMU(wire.bytes)
              /\ truth.took = [wire.setup EXCEPT !.Direction = Out]
        /\ line.says = "empty" => truth.came \subseteq {"reap", "missed"}
=============================================================================
