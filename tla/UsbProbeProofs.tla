--------------------------- MODULE UsbProbeProofs ---------------------------
(***************************************************************************)
(* usbprobe, for every command line, every device and every way a transfer *)
(* may end: what it asks is what a flag says, and what it prints of the    *)
(* answers is what the device sent.                                        *)
(***************************************************************************)
EXTENDS UsbProbe, WireProofs, FiniteSetTheorems

USpec == UInit /\ [][UNext]_uvars
-----------------------------------------------------------------------------
(* Where it stands.                                                          *)

UPhases == {"begin", "open", "seize", "transfer", "wait", "pipes", "writePipe", "writeIMU",
            "readPipe", "done"}
Functions0 == {"controlCheck", "canary", "sweep", "cdcCheck", "imuAttempt"}
OnPipes    == {"writePipe", "writeIMU"} \cup InRead

\* The program is in one phase with one device or one interface, and does not ask
\* before it is open.
Standing ==
    /\ DOMAIN wire = DOMAIN NoTransfer
    /\ DOMAIN truth = {"coding", "sang", "lively", "took", "came"}
    /\ truth.sang \in BOOLEAN /\ truth.came \subseteq InRead
    \* All that has come has been counted but what an aborted read gave up.
    /\ total = ~(truth.came \subseteq {"reap", "missed"})
    /\ o \in Options /\ phase \in UPhases
    /\ handle \in {"closed", "open", "seized"} /\ timed \in BOOLEAN
    /\ total \in BOOLEAN /\ expired \in BOOLEAN
    /\ wire.ms \in 1..Width - 1
    /\ claimed \in Interfaces \cup {NoInterface}
    /\ phase \in {"begin", "open", "seize"} => wire = NoTransfer
    /\ phase = "begin" => pipes = <<>>
    /\ phase \in {"begin", "open", "seize"} => handle = "closed"
    /\ phase \in UPhases \ {"begin", "open", "seize", "done"} => handle # "closed"
    /\ "seized" = handle \/ phase = "seize" => o.seize
    /\ handle # "closed" \/ phase \in {"open", "seize"} =>
          IF o.iface >= 0 THEN claimed.Number = o.iface % 256 ELSE Asked
    /\ phase = "transfer" => o.iface < 0
    /\ phase \in {"pipes"} \cup OnPipes => o.iface >= 0
    /\ wire.in \in {"none"} \cup Functions0 \cup OnPipes
    /\ wire.in # "none" => handle # "closed" /\ (wire.in \in Functions0 <=> o.iface < 0)
    /\ phase = "wait" => wire.in # "none"

-----------------------------------------------------------------------------
(* Endpoint 0.                                                               *)

\* The number of the pass a request belongs to: the device, and then its interfaces.
Numbered(s) == IF s.Recipient = ToDevice THEN 0 ELSE s.Index + 1

\* All that each function may ask; which of it the options allow.
Tries == {Try(recipient, index, request) :
              recipient \in {ToDevice, ToInterface}, index \in 0..5, request \in 0..o.maxReq}
Gets  == {Step("cdcCheck", GetLineCoding(i)) : i \in 0..1}
Sets  == {Step("cdcCheck", SetLineCoding(i)) : i \in 0..1}
         \cup {Step("cdcCheck", SetControlLineState(i, ControlLineDTR + ControlLineRTS)) : i \in 0..1}
Wakes == {Send(recipient, request) : recipient \in {ToDevice, ToInterface}, request \in {1, 2, 9, 21}}
Hears == {Step("imuAttempt", Setup(In, Vendor, recipient, request, 0, 0)) :
              recipient \in {ToDevice, ToInterface}, request \in {1, 2, 9, 21}}

Allowed ==
    {Over, Step("controlCheck", GetDescriptor(DescDevice, 0, 0))}
    \cup (IF o.scan THEN {Step("canary", GetStatus)} ELSE {})
    \cup (IF o.scan THEN Tries ELSE {})
    \cup (IF o.cdc \/ o.cdcSet # 0 THEN Gets ELSE {})
    \cup (IF o.cdcSet # 0 THEN Sets ELSE {})
    \cup (IF o.imu THEN Wakes \cup Hears ELSE {})

\* What it asks next is allowed, ...
Asking ==
    /\ todo \in Allowed
    /\ wire.in \in Functions0 => Step(wire.in, wire.setup) \in Allowed
    /\ wire.in = "sweep" => truth.sang /\ data \in Seq(Octet) /\ Len(data) = 64
    /\ phase = "wait" /\ wire.in \in Functions0 =>
         /\ wire.in = todo.in /\ wire.setup = todo.setup
         /\ todo.in # "sweep" => data = Buffer(todo)
    /\ truth.coding \in Seq(Octet)

\* ... a vendor request only after the canary, and a question only after the packet
\* that it is about; and what has been counted is what was asked before it.
Counting ==
    /\ todo.in \in {"controlCheck", "canary"} => ~truth.sang /\ truth.lively = {}
    /\ todo \in Hears => truth.took = [todo.setup EXCEPT !.Direction = Out]
    /\ IsFiniteSet(truth.lively)
    /\ todo.in # "sweep" => hits = 0
    /\ todo.in = "sweep" =>
         /\ truth.sang
         /\ hits \in 0..todo.setup.Request
         /\ hits = Cardinality({s \in truth.lively : SamePass(s, todo.setup)})
         /\ \A s \in truth.lively :
               /\ Numbered(s) \in Nat /\ s.Request \in Nat
               /\ \/ Numbered(s) < Numbered(todo.setup)
                  \/ SamePass(s, todo.setup) /\ s.Request < todo.setup.Request

-----------------------------------------------------------------------------
(* Pipes.                                                                    *)

OnItsPipe ==
    /\ pipes \in {<<>>, Listed(claimed.endpoints)}
    /\ wire.in \in {"writePipe", "writeIMU"} =>
         /\ wire.address = o.bulkOut % 256
         /\ wire.bytes \in o.bulkWrite \/ (o.bulkIMU /\ wire.bytes = pkt)
    /\ wire.in \in InRead => wire.address = o.bulkRead % 256 /\ data \in Seq(Octet)

UInv == Standing /\ Asking /\ Counting /\ OnItsPipe /\ VerdictsAreFounded

LEMMA OptionsAre ==
    ASSUME o \in Options
    PROVE  /\ o.control \in BOOLEAN /\ o.scan \in BOOLEAN /\ o.imu \in BOOLEAN
           /\ o.cdc \in BOOLEAN /\ o.seize \in BOOLEAN /\ o.bulkIMU \in BOOLEAN
           /\ o.cdcSet \in Int /\ o.timeout \in Int /\ o.iface \in Int
           /\ o.bulkOut \in Int /\ o.bulkRead \in Int
           /\ o.maxReq \in Nat
  BY OptionsAssumption

\* What is known of a request by the function that makes it.
LEMMA KindsOfStep ==
    ASSUME NEW s \in Allowed
    PROVE  /\ s.in \in {"none"} \cup Functions0
           /\ s = Step(s.in, s.setup)
           /\ s.in = "none" <=> s = Over
           /\ s.in = "controlCheck" => s.setup = GetDescriptor(DescDevice, 0, 0)
           /\ s.in = "canary" => s.setup = GetStatus /\ o.scan
           /\ s.in = "sweep" => s \in Tries /\ o.scan
           /\ s.in = "cdcCheck" => (s \in Gets /\ (o.cdc \/ o.cdcSet # 0)) \/ (s \in Sets /\ o.cdcSet # 0)
           /\ s.in = "imuAttempt" => s \in Wakes \cup Hears /\ o.imu
<1>1. CASE s = Over
  BY <1>1 DEF Over, Step, Functions0
<1>2. CASE s = Step("controlCheck", GetDescriptor(DescDevice, 0, 0))
  BY <1>2 DEF Over, Step, Functions0
<1>3. CASE s = Step("canary", GetStatus) /\ o.scan
  BY <1>3 DEF Over, Step, Functions0
<1>4. CASE s \in Tries /\ o.scan
  <2>1. s.in = "sweep" /\ s = Step(s.in, s.setup)
    BY <1>4 DEF Tries, Try, Step
  <2>2. QED
    BY <1>4, <2>1 DEF Over, Step, Functions0
<1>5. CASE s \in Gets /\ (o.cdc \/ o.cdcSet # 0)
  <2>1. s.in = "cdcCheck" /\ s = Step(s.in, s.setup)
    BY <1>5 DEF Gets, Step
  <2>2. QED
    BY <1>5, <2>1 DEF Over, Step, Functions0
<1>6. CASE s \in Sets /\ o.cdcSet # 0
  <2>1. s.in = "cdcCheck" /\ s = Step(s.in, s.setup)
    BY <1>6 DEF Sets, Step
  <2>2. QED
    BY <1>6, <2>1 DEF Over, Step, Functions0
<1>7. CASE s \in Wakes \cup Hears /\ o.imu
  <2>1. s.in = "imuAttempt" /\ s = Step(s.in, s.setup)
    BY <1>7 DEF Wakes, Hears, Send, Step
  <2>2. QED
    BY <1>7, <2>1 DEF Over, Step, Functions0
<1>8. QED
  BY <1>1, <1>2, <1>3, <1>4, <1>5, <1>6, <1>7 DEF Allowed

\* Where a function begins, if the options do not leave it out.
LEMMA Beginnings ==
    /\ imuAttempt \in Allowed /\ imuAttempt.in \in {"none", "imuAttempt"} /\ imuAttempt \notin Hears
    /\ cdcCheck \in Allowed /\ cdcCheck.in \in {"none", "imuAttempt", "cdcCheck"} /\ cdcCheck \notin Hears
    /\ canary \in Allowed /\ canary.in \notin {"controlCheck", "sweep"} /\ canary \notin Hears
    /\ controlCheck \in Allowed /\ controlCheck.in # "sweep" /\ controlCheck \notin Hears
<1>1. imuAttempt \in Allowed /\ imuAttempt.in \in {"none", "imuAttempt"} /\ imuAttempt \notin Hears
  <2>1. Over \in Allowed /\ Over.in = "none" /\ Over \notin Hears
    BY DEF Allowed, Over, Step, Hears
  <2>2. Send(ToDevice, 1) \in Wakes /\ Send(ToDevice, 1).in = "imuAttempt" /\ Send(ToDevice, 1) \notin Hears
    BY DEF Wakes, Send, Step, Hears, Setup, In, Out
  <2>3. QED
    BY <2>1, <2>2 DEF imuAttempt, Allowed
<1>2. cdcCheck \in Allowed /\ cdcCheck.in \in {"none", "imuAttempt", "cdcCheck"} /\ cdcCheck \notin Hears
  <2>1. Serial(0).in = "cdcCheck"
    BY DEF Serial, Step
  <2>2. ASSUME o.cdc \/ o.cdcSet # 0
        PROVE  Serial(0) \in Allowed
    <3>1. 0 \in 0..1
      OBVIOUS
    <3>2. Step("cdcCheck", SetLineCoding(0)) \in Sets /\ Step("cdcCheck", GetLineCoding(0)) \in Gets
      BY <3>1 DEF Sets, Gets
    <3>3. QED
      BY <2>2, <3>2 DEF Serial, Allowed
  <2>3. \A s \in Hears : s.in = "imuAttempt"
    BY DEF Hears, Step
  <2>4. QED
    BY <1>1, <2>1, <2>2, <2>3 DEF cdcCheck
<1>3. canary \in Allowed /\ canary.in \notin {"controlCheck", "sweep"} /\ canary \notin Hears
  <2>1. Step("canary", GetStatus).in = "canary"
    BY DEF Step
  <2>2. \A s \in Hears : s.in = "imuAttempt"
    BY DEF Hears, Step
  <2>3. o.scan => Step("canary", GetStatus) \in Allowed
    BY DEF Allowed
  <2>4. QED
    BY <1>2, <2>1, <2>2, <2>3 DEF canary
<1>4. controlCheck \in Allowed /\ controlCheck.in # "sweep" /\ controlCheck \notin Hears
  <2>1. Step("controlCheck", GetDescriptor(DescDevice, 0, 0)).in = "controlCheck"
    BY DEF Step
  <2>2. \A s \in Hears : s.in = "imuAttempt"
    BY DEF Hears, Step
  <2>3. QED
    BY <1>3, <2>1, <2>2 DEF controlCheck, Allowed
<1>5. QED
  BY <1>1, <1>2, <1>3, <1>4

LEMMA AllowedStays == o' = o => Allowed' = Allowed
  BY DEF Allowed, Tries


\* A pass goes on until its last request, and then comes the next.
LEMMA SweepGoesOn ==
    ASSUME o \in Options, o.scan, NEW s \in Tries
    PROVE  /\ sweep(s.setup) \in Allowed /\ sweep(s.setup) \notin Hears
           /\ sweep(s.setup).in \notin {"controlCheck", "canary"}
           /\ s.setup.Request \in 0..o.maxReq /\ Numbered(s.setup) \in Nat
           /\ sweep(s.setup).in # "sweep" => s.setup.Request = o.maxReq
           /\ sweep(s.setup).in = "sweep" =>
                LET t == sweep(s.setup).setup
                IN  IF s.setup.Request = o.maxReq
                    THEN t.Request = 0 /\ Numbered(t) = Numbered(s.setup) + 1
                    ELSE t.Request = s.setup.Request + 1 /\ SamePass(t, s.setup)
<1>1. o.maxReq \in Nat
  BY OptionsAre
<1>2. PICK recipient \in {ToDevice, ToInterface}, index \in 0..5, request \in 0..o.maxReq :
        s = Try(recipient, index, request)
  BY DEF Tries
<1> DEFINE u == s.setup
           t == sweep(u)
<1>3. u.Recipient = recipient /\ u.Index = index /\ u.Request = request
  BY <1>2 DEF Try, Step, Setup
<1>4. Numbered(u) \in Nat
  BY <1>3 DEF Numbered
<1>5. \A r \in {ToDevice, ToInterface}, i \in 0..5, q \in 0..o.maxReq :
        /\ Try(r, i, q) \in Allowed /\ Try(r, i, q) \notin Hears /\ Try(r, i, q).in = "sweep"
        /\ Try(r, i, q).setup.Request = q /\ Try(r, i, q).setup.Index = i
        /\ Try(r, i, q).setup.Recipient = r
  <2>1. \A r \in {ToDevice, ToInterface}, i \in 0..5, q \in 0..o.maxReq : Try(r, i, q) \in Allowed
    BY DEF Allowed, Tries
  <2>2. \A h \in Hears : h.in = "imuAttempt"
    BY DEF Hears, Step
  <2>3. \A r, i, q : /\ Try(r, i, q).in = "sweep"
                     /\ Try(r, i, q).setup.Request = q /\ Try(r, i, q).setup.Index = i
                     /\ Try(r, i, q).setup.Recipient = r
    BY DEF Try, Step, Setup
  <2>4. QED
    BY <2>1, <2>2, <2>3
<1> HIDE DEF u
<1>6. CASE request < o.maxReq
  <2>1. t = Try(recipient, index, request + 1) /\ request + 1 \in 0..o.maxReq
    BY <1>1, <1>3, <1>6 DEF sweep
  <2>2. SamePass(t.setup, u) /\ t.setup.Request = request + 1
    BY <1>3, <1>5, <2>1 DEF SamePass
  <2>3. QED
    BY <1>1, <1>3, <1>4, <1>5, <1>6, <2>1, <2>2 DEF u
<1>7. CASE request = o.maxReq /\ recipient = ToDevice
  <2>1. t = Try(ToInterface, 0, 0) /\ 0 \in 0..o.maxReq /\ 0 \in 0..5
    BY <1>1, <1>3, <1>7 DEF sweep
  <2>2. Numbered(t.setup) = Numbered(u) + 1 /\ t.setup.Request = 0
    BY <1>3, <1>5, <1>7, <2>1 DEF Numbered, ToDevice, ToInterface
  <2>3. QED
    BY <1>1, <1>3, <1>4, <1>5, <1>7, <2>1, <2>2 DEF u
<1>8. CASE request = o.maxReq /\ recipient # ToDevice /\ index < 5
  <2>1. t = Try(ToInterface, index + 1, 0) /\ 0 \in 0..o.maxReq /\ index + 1 \in 0..5
    BY <1>1, <1>3, <1>8 DEF sweep
  <2>2. Numbered(t.setup) = Numbered(u) + 1 /\ t.setup.Request = 0
    BY <1>3, <1>5, <1>8, <2>1 DEF Numbered, ToDevice, ToInterface
  <2>3. QED
    BY <1>1, <1>3, <1>4, <1>5, <1>8, <2>1, <2>2 DEF u
<1>9. CASE request = o.maxReq /\ recipient # ToDevice /\ ~(index < 5)
  <2>1. t = cdcCheck
    BY <1>1, <1>3, <1>9 DEF sweep
  <2>2. QED
    BY <1>3, <1>4, <1>9, <2>1, Beginnings DEF u
<1>10. QED
  BY <1>1, <1>6, <1>7, <1>8, <1>9

LEMMA CdcGoesOn ==
    ASSUME o \in Options, NEW s, (s \in Gets /\ (o.cdc \/ o.cdcSet # 0)) \/ (s \in Sets /\ o.cdcSet # 0)
    PROVE  /\ cdcNext(s.setup) \in Allowed /\ cdcNext(s.setup) \notin Hears
           /\ cdcNext(s.setup).in \notin {"controlCheck", "canary", "sweep"}
<1>1. \A h \in Hears : h.in = "imuAttempt"
  BY DEF Hears, Step
<1>2. PICK i \in 0..1 : \/ s.setup = GetLineCoding(i) /\ (o.cdc \/ o.cdcSet # 0)
                        \/ s.setup = SetLineCoding(i) /\ o.cdcSet # 0
                        \/ s.setup = SetControlLineState(i, ControlLineDTR + ControlLineRTS) /\ o.cdcSet # 0
  BY DEF Gets, Sets, Step
<1>3. \A x : Step("cdcCheck", x).in = "cdcCheck"
  BY DEF Step
<1>4. s.setup.Index = i /\ s.setup.Request \in {ReqGetLineCoding, ReqSetLineCoding, ReqSetControlLineState}
  BY <1>2 DEF GetLineCoding, SetLineCoding, SetControlLineState, Setup
<1>5. CASE s.setup = GetLineCoding(i) /\ (o.cdc \/ o.cdcSet # 0)
  <2>1. cdcNext(s.setup) = IF i = 0 THEN Serial(1) ELSE imuAttempt
    BY <1>4, <1>5 DEF cdcNext, GetLineCoding, Setup, ReqGetLineCoding, ReqSetLineCoding, ReqSetControlLineState
  <2>2. 1 \in 0..1
    OBVIOUS
  <2>3. Step("cdcCheck", SetLineCoding(1)) \in Sets /\ Step("cdcCheck", GetLineCoding(1)) \in Gets
    BY <2>2 DEF Sets, Gets
  <2>4. Serial(1) \in Allowed /\ Serial(1).in = "cdcCheck"
    BY <1>3, <1>5, <2>3 DEF Serial, Allowed
  <2>5. QED
    BY <1>1, <2>1, <2>4, Beginnings
<1>6. CASE s.setup = SetLineCoding(i) /\ o.cdcSet # 0
  <2>1. cdcNext(s.setup) = Step("cdcCheck", SetControlLineState(i, ControlLineDTR + ControlLineRTS))
    <3>1. s.setup.Request = ReqSetLineCoding
      BY <1>6 DEF SetLineCoding, Setup
    <3>2. QED
      BY <1>4, <3>1 DEF cdcNext, ReqSetLineCoding, ReqSetControlLineState
  <2>2. cdcNext(s.setup) \in Allowed
    BY <1>6, <2>1 DEF Sets, Allowed
  <2>3. QED
    BY <1>1, <1>3, <2>1, <2>2
<1>7. CASE s.setup = SetControlLineState(i, ControlLineDTR + ControlLineRTS) /\ o.cdcSet # 0
  <2>1. cdcNext(s.setup) = Step("cdcCheck", GetLineCoding(i))
    BY <1>4, <1>7 DEF cdcNext, SetControlLineState, Setup, ReqSetLineCoding, ReqSetControlLineState
  <2>2. cdcNext(s.setup) \in Allowed
    BY <1>7, <2>1 DEF Gets, Allowed
  <2>3. QED
    BY <1>1, <1>3, <2>1, <2>2
<1>8. QED
  BY <1>2, <1>5, <1>6, <1>7

LEMMA ImuGoesOn ==
    ASSUME o \in Options, o.imu, NEW s \in Wakes \cup Hears
    PROVE  /\ imuNext(s.setup) \in Allowed /\ imuNext(s.setup) \notin Hears
           /\ imuNext(s.setup).in \in {"none", "imuAttempt"}
           /\ s \in Wakes => s.setup.Direction = Out
           /\ s \in Hears => s.setup.Direction = In
           /\ s \in Wakes =>
                /\ Step("imuAttempt", [s.setup EXCEPT !.Direction = In]) \in Hears
                /\ [[s.setup EXCEPT !.Direction = In] EXCEPT !.Direction = Out] = s.setup
<1>1. PICK recipient \in {ToDevice, ToInterface}, request \in {1, 2, 9, 21}, d \in {In, Out} :
        /\ s.setup = Setup(d, Vendor, recipient, request, 0, 0)
        /\ s \in Wakes => d = Out
        /\ s \in Hears => d = In
  <2>1. ASSUME s \in Wakes
        PROVE  /\ s \notin Hears
               /\ \E recipient \in {ToDevice, ToInterface}, request \in {1, 2, 9, 21} :
                     s.setup = Setup(Out, Vendor, recipient, request, 0, 0)
    BY <2>1 DEF Wakes, Send, Step, Hears, Setup, In, Out
  <2>2. ASSUME s \in Hears
        PROVE  \E recipient \in {ToDevice, ToInterface}, request \in {1, 2, 9, 21} :
                     s.setup = Setup(In, Vendor, recipient, request, 0, 0)
    BY <2>2 DEF Hears, Step
  <2>3. QED
    BY <2>1, <2>2
<1>2. s.setup.Request = request /\ s.setup.Recipient = recipient /\ s.setup.Direction = d
  BY <1>1 DEF Setup
<1>3. \A r \in {ToDevice, ToInterface}, q \in {1, 2, 9, 21} :
        Send(r, q) \in Allowed /\ Send(r, q) \notin Hears /\ Send(r, q).in = "imuAttempt"
  <2>1. \A r \in {ToDevice, ToInterface}, q \in {1, 2, 9, 21} : Send(r, q) \in Allowed
    BY DEF Wakes, Allowed
  <2>2. \A h \in Hears : h.setup.Direction = In
    BY DEF Hears, Step, Setup
  <2>3. \A r, q : Send(r, q).in = "imuAttempt" /\ Send(r, q).setup.Direction = Out
    BY DEF Send, Step, Setup
  <2>4. QED
    BY <2>1, <2>2, <2>3 DEF In, Out
<1>4. Over \in Allowed /\ Over \notin Hears /\ Over.in = "none"
  BY DEF Allowed, Over, Step, Hears
<1>5. imuNext(s.setup) \in {Send(r, q) : r \in {ToDevice, ToInterface}, q \in {1, 2, 9, 21}} \cup {Over}
  BY <1>2 DEF imuNext
<1>6. /\ [Setup(Out, Vendor, recipient, request, 0, 0) EXCEPT !.Direction = In]
           = Setup(In, Vendor, recipient, request, 0, 0)
      /\ [Setup(In, Vendor, recipient, request, 0, 0) EXCEPT !.Direction = Out]
           = Setup(Out, Vendor, recipient, request, 0, 0)
  BY DEF Setup
<1>7. s \in Wakes =>
        /\ Step("imuAttempt", [s.setup EXCEPT !.Direction = In]) \in Hears
        /\ [[s.setup EXCEPT !.Direction = In] EXCEPT !.Direction = Out] = s.setup
  <2>1. Step("imuAttempt", Setup(In, Vendor, recipient, request, 0, 0)) \in Hears
    BY DEF Hears
  <2>2. s \in Wakes => s.setup = Setup(Out, Vendor, recipient, request, 0, 0)
    BY <1>1
  <2>3. QED
    BY <1>6, <2>1, <2>2
<1>8. QED
  BY <1>1, <1>2, <1>3, <1>4, <1>5, <1>7

\* What comes after a request.
LEMMA Follows ==
    ASSUME o \in Options, wire.in \in Functions0, Step(wire.in, wire.setup) \in Allowed,
           NEW code, NEW n
    PROVE  /\ After(code, n) \in Allowed
           /\ After(code, n).in # "controlCheck"
           /\ After(code, n).in = "canary" => wire.in = "controlCheck"
           /\ After(code, n).in = "sweep" =>
                \/ wire.in = "sweep"
                \/ wire.in = "canary" /\ Sings(code, n) /\ After(code, n) = Try(ToDevice, 0, 0)
           /\ wire.in = "sweep" => After(code, n) = sweep(wire.setup)
           /\ After(code, n) \in Hears =>
                /\ wire.in = "imuAttempt" /\ wire.setup.Direction = Out /\ code = "Success"
                /\ [After(code, n).setup EXCEPT !.Direction = Out] = wire.setup
<1> DEFINE s == Step(wire.in, wire.setup)
           t == After(code, n)
<1>1. s.in = wire.in /\ s.setup = wire.setup /\ s \in Allowed
  BY DEF Step
<1> HIDE DEF s
<1>2. CASE wire.in = "controlCheck"
  <2>1. t = canary
    BY <1>2 DEF After
  <2>2. QED
    BY <1>2, <2>1, Beginnings
<1>3. CASE wire.in = "canary"
  <2>1. t = IF Sings(code, n) THEN Try(ToDevice, 0, 0) ELSE cdcCheck
    BY <1>3 DEF After
  <2>2. o.scan /\ o.maxReq \in Nat
    BY <1>1, <1>3, KindsOfStep, OptionsAre
  <2>3. Try(ToDevice, 0, 0) \in Tries /\ Try(ToDevice, 0, 0).in = "sweep"
    BY <2>2 DEF Tries, Try, Step
  <2>4. \A h \in Hears : h.in = "imuAttempt"
    BY DEF Hears, Step
  <2>5. Try(ToDevice, 0, 0) \in Allowed /\ Try(ToDevice, 0, 0) \notin Hears
    BY <2>2, <2>3, <2>4 DEF Allowed
  <2>6. QED
    BY <1>3, <2>1, <2>3, <2>5, Beginnings
<1>4. CASE wire.in = "sweep"
  <2>1. t = sweep(wire.setup) /\ s \in Tries /\ o.scan
    BY <1>1, <1>4, KindsOfStep DEF After
  <2>2. QED
    BY <1>1, <1>4, <2>1, SweepGoesOn
<1>5. CASE wire.in = "cdcCheck"
  <2>1. t = cdcNext(wire.setup)
    BY <1>5 DEF After
  <2>2. (s \in Gets /\ (o.cdc \/ o.cdcSet # 0)) \/ (s \in Sets /\ o.cdcSet # 0)
    BY <1>1, <1>5, KindsOfStep
  <2>3. t \in Allowed /\ t \notin Hears /\ t.in \notin {"controlCheck", "canary", "sweep"}
    BY <1>1, <2>1, <2>2, CdcGoesOn
  <2>4. QED
    BY <1>5, <2>3
<1>6. CASE wire.in = "imuAttempt"
  <2>1. s \in Wakes \cup Hears /\ o.imu
    BY <1>1, <1>6, KindsOfStep
  <2>2. /\ imuNext(wire.setup) \in Allowed /\ imuNext(wire.setup) \notin Hears
        /\ imuNext(wire.setup).in \in {"none", "imuAttempt"}
        /\ s \in Hears => wire.setup.Direction = In
        /\ s \in Wakes =>
             /\ Step("imuAttempt", [wire.setup EXCEPT !.Direction = In]) \in Hears
             /\ [[wire.setup EXCEPT !.Direction = In] EXCEPT !.Direction = Out] = wire.setup
    BY <1>1, <2>1, ImuGoesOn
  <2>3. CASE wire.setup.Direction = Out /\ code = "Success"
    <3>1. t = Step("imuAttempt", [wire.setup EXCEPT !.Direction = In]) /\ s \in Wakes
      BY <1>6, <2>1, <2>2, <2>3 DEF After, In, Out
    <3>2. t.setup = [wire.setup EXCEPT !.Direction = In] /\ t.in = "imuAttempt" /\ t \in Allowed
      BY <2>1, <2>2, <3>1 DEF Allowed, Step
    <3>3. QED
      BY <1>6, <2>2, <2>3, <3>1, <3>2
  <2>4. CASE ~(wire.setup.Direction = Out /\ code = "Success")
    <3>1. t = imuNext(wire.setup)
      BY <1>6, <2>4 DEF After
    <3>2. QED
      BY <1>6, <2>2, <3>1
  <2>5. QED
    BY <2>3, <2>4
<1>7. QED
  BY <1>2, <1>3, <1>4, <1>5, <1>6 DEF Functions0

\* The buffers.
LEMMA ZerosAre ==
    ASSUME NEW n \in Nat
    PROVE  Zeros(n) \in Seq(Octet) /\ Len(Zeros(n)) = n
<1>1. 0 \in Octet
  BY DEF Octet
<1>2. QED
  BY <1>1 DEF Zeros

LEMMA BufferAre ==
    ASSUME o \in Options, NEW s \in Allowed
    PROVE  /\ s.in \in Functions0 /\ s.setup.Direction = In =>
                Buffer(s) \in Seq(Octet) /\ Len(Buffer(s)) \in Nat
           /\ s.in = "sweep" => Len(Buffer(s)) = 64
           /\ s.in = "canary" => Len(Buffer(s)) = 2
           /\ s.in = "cdcCheck" /\ s.setup.Request = ReqGetLineCoding => Len(Buffer(s)) = 7
           /\ s.in = "cdcCheck" /\ s.setup.Request = ReqSetLineCoding => Buffer(s) \in Seq(Octet)
           /\ s.in \in {"controlCheck", "canary", "sweep"} => s.setup.Direction = In
           /\ s.in = "cdcCheck" => (s.setup.Direction = In <=> s.setup.Request = ReqGetLineCoding)
           /\ s.in \in Functions0 => s.setup.Direction \in {In, Out}
<1>1. \A n \in {2, 7, 18, 64} : Zeros(n) \in Seq(Octet) /\ Len(Zeros(n)) = n
  BY ZerosAre
<1>2. s.in \in {"none"} \cup Functions0
  BY KindsOfStep
<1>3. CASE s.in = "none"
  BY <1>3 DEF Functions0
<1>4. CASE s.in = "controlCheck"
  <2>1. Buffer(s) = Zeros(18) /\ s.setup.Direction = In
    BY <1>4, KindsOfStep DEF Buffer, GetDescriptor, Setup
  <2>2. QED
    BY <1>1, <1>4, <2>1
<1>5. CASE s.in = "canary"
  <2>1. Buffer(s) = Zeros(2) /\ s.setup.Direction = In
    BY <1>5, KindsOfStep DEF Buffer, GetStatus, Setup
  <2>2. QED
    BY <1>1, <1>5, <2>1
<1>6. CASE s.in = "sweep"
  <2>1. Buffer(s) = Zeros(64) /\ s.setup.Direction = In
    BY <1>6, KindsOfStep DEF Buffer, Tries, Try, Step, Setup
  <2>2. QED
    BY <1>1, <1>6, <2>1
<1>7. CASE s.in = "cdcCheck"
  <2>1. s \in Gets \cup Sets
    BY <1>7, KindsOfStep
  <2>2. CASE s \in Gets
    <3>1. s.setup.Direction = In /\ s.setup.Request = ReqGetLineCoding
      BY <2>2 DEF Gets, Step, GetLineCoding, Setup
    <3>2. Buffer(s) = Zeros(7)
      BY <1>7, <3>1 DEF Buffer, ReqGetLineCoding, ReqSetLineCoding, ReqSetControlLineState, LineCodingSize
    <3>3. QED
      BY <1>1, <1>7, <3>1, <3>2 DEF ReqGetLineCoding, ReqSetLineCoding
  <2>3. CASE s \in Sets
    <3>1. s.setup.Direction = Out /\ s.setup.Request \in {ReqSetLineCoding, ReqSetControlLineState}
      BY <2>3 DEF Sets, Step, SetLineCoding, SetControlLineState, Setup
    <3>2. s.setup.Request = ReqSetLineCoding => Buffer(s) = LineCodingBytes(LineCoding(o.cdcSet, 0, 0, 8))
      BY <1>7, <3>1 DEF Buffer, ReqGetLineCoding, ReqSetLineCoding, ReqSetControlLineState
    <3>3. LineCodingBytes(LineCoding(o.cdcSet, 0, 0, 8)) \in Seq(Octet)
      <4> DEFINE lc == LineCoding(o.cdcSet, 0, 0, 8)
      <4>1. lc.Rate \in Int /\ lc.StopBits = 0 /\ lc.Parity = 0 /\ lc.DataBits = 8
        BY OptionsAre DEF LineCoding
      <4> HIDE DEF lc
      <4>2. \A v \in Int : v % 256 \in Octet
        BY DEF Octet
      <4>3. lc.Rate \div 256 \in Int /\ lc.Rate \div 65536 \in Int /\ lc.Rate \div 16777216 \in Int
        BY <4>1, SMT
      <4>4. 0 \in Octet /\ 8 \in Octet
        BY DEF Octet
      <4>5. LineCodingBytes(lc) \in Seq(Octet)
        BY <4>1, <4>2, <4>3, <4>4 DEF LineCodingBytes
      <4>6. QED
        BY <4>5 DEF lc
    <3>4. QED
      BY <1>7, <3>1, <3>2, <3>3 DEF In, Out, ReqSetLineCoding, ReqSetControlLineState, ReqGetLineCoding
  <2>4. QED
    BY <2>1, <2>2, <2>3
<1>8. CASE s.in = "imuAttempt"
  <2>1. s.setup.Direction \in {In, Out}
    BY <1>8, KindsOfStep DEF Wakes, Hears, Send, Step, Setup
  <2>2. s.setup.Direction = In => Buffer(s) = Zeros(64)
    BY <1>8 DEF Buffer, In, Out
  <2>3. QED
    BY <1>1, <1>8, <2>1, <2>2
<1>9. QED
  BY <1>2, <1>3, <1>4, <1>5, <1>6, <1>7, <1>8 DEF Functions0

-----------------------------------------------------------------------------
(* A transfer that is over.                                                  *)

LEMMA SameParts ==
    ASSUME NEW B, NEW s \in Seq(B), NEW t \in Seq(B), NEW n \in Nat, n <= Len(s), n <= Len(t),
           \A k \in 1..n : s[k] = t[k], NEW i \in Nat \ {0}, NEW j \in Nat, j <= n
    PROVE  SubSeq(s, i, j) = SubSeq(t, i, j)
<1> DEFINE p == SubSeq(s, i, j)
           q == SubSeq(t, i, j)
<1>1. \A k \in i..j : k \in 1..n /\ s[k] \in B /\ t[k] \in B
  OBVIOUS
<1>2. /\ p \in Seq(B) /\ Len(p) = IF i <= j THEN j - i + 1 ELSE 0
      /\ \A k \in 1..j - i + 1 : p[k] = s[i + k - 1]
  <2>1. i \in Int /\ j \in Int /\ \A k \in i..j : s[k] \in B
    BY <1>1
  <2> HIDE DEF p
  <2>2. QED
    BY <2>1, SubSeqProperties, SMTT(40) DEF p
<1>3. /\ q \in Seq(B) /\ Len(q) = IF i <= j THEN j - i + 1 ELSE 0
      /\ \A k \in 1..j - i + 1 : q[k] = t[i + k - 1]
  <2>1. i \in Int /\ j \in Int /\ \A k \in i..j : t[k] \in B
    BY <1>1
  <2> HIDE DEF q
  <2>2. QED
    BY <2>1, SubSeqProperties, SMTT(40) DEF q
<1>4. \A k \in 1..j - i + 1 : s[i + k - 1] = t[i + k - 1]
  OBVIOUS
<1> HIDE DEF p, q
<1>5. Len(p) = Len(q) /\ \A k \in 1..Len(p) : p[k] = q[k]
  BY <1>2, <1>3, <1>4
<1>6. p = q
  BY <1>2, <1>3, <1>5
<1>7. QED
  BY <1>6 DEF p, q

\* What a buffer holds when n bytes of it have been written.
Fills(b, sent, n, room) ==
    /\ n \in Nat /\ n <= Len(room)
    /\ sent \in Seq(Octet) /\ Len(sent) = n
    /\ b \in Seq(Octet) /\ Len(b) = Len(room)
    /\ SubSeq(b, 1, n) = sent
    /\ n = Len(room) => b = sent
    /\ \A i \in Nat \ {0}, j \in Nat : j <= n => SubSeq(b, i, j) = SubSeq(sent, i, j)

LEMMA Received ==
    ASSUME NEW bytes \in Seq(Octet), NEW room \in Seq(Octet),
           NEW n, n = Shorter(Len(bytes), Len(room)),
           NEW sent, sent = SubSeq(bytes, 1, n),
           NEW b, b = sent \o SubSeq(room, n + 1, Len(room))
    PROVE  Fills(b, sent, n, room)
<1>1. Len(bytes) \in Nat /\ Len(room) \in Nat /\ n \in Nat /\ n <= Len(room) /\ n <= Len(bytes)
  BY DEF Shorter
<1>2. sent \in Seq(Octet) /\ Len(sent) = n
  BY <1>1
<1> DEFINE rest == SubSeq(room, n + 1, Len(room))
<1>3. rest \in Seq(Octet) /\ Len(rest) = Len(room) - n
  BY <1>1
<1> HIDE DEF rest
<1>4. b \in Seq(Octet) /\ Len(b) = Len(room) /\ \A k \in 1..n : b[k] = sent[k]
  <2>1. b = sent \o rest
    BY DEF rest
  <2>2. \A s, t \in Seq(Octet) : /\ s \o t \in Seq(Octet) /\ Len(s \o t) = Len(s) + Len(t)
                                 /\ \A k \in 1..Len(s) : (s \o t)[k] = s[k]
    BY ConcatProperties
  <2>3. b \in Seq(Octet) /\ Len(b) = Len(sent) + Len(rest) /\ \A k \in 1..Len(sent) : b[k] = sent[k]
    <3>1. /\ sent \o rest \in Seq(Octet) /\ Len(sent \o rest) = Len(sent) + Len(rest)
          /\ \A k \in 1..Len(sent) : (sent \o rest)[k] = sent[k]
      BY <1>2, <1>3, <2>2, Zenon
    <3>2. QED
      BY <2>1, <3>1, Zenon
  <2>4. \A l, m \in Nat : l <= m => l + (m - l) = m
    OBVIOUS
  <2>5. Len(b) = Len(room)
    BY <1>1, <1>2, <1>3, <2>3, <2>4
  <2>6. QED
    BY <1>2, <2>3, <2>5
<1>5. ASSUME NEW i \in Nat \ {0}, NEW j \in Nat, j <= n
      PROVE  SubSeq(b, i, j) = SubSeq(sent, i, j)
  <2>1. n <= Len(b) /\ n <= Len(sent)
    BY <1>1, <1>2, <1>4
  <2>2. QED
    BY <1>1, <1>2, <1>4, <1>5, <2>1, SameParts
<1>6. SubSeq(sent, 1, n) = sent
  BY <1>1, <1>2
<1>7. SubSeq(b, 1, n) = sent
  BY <1>1, <1>5, <1>6
<1>8. n = Len(room) => b = sent
  BY <1>4, <1>7
<1>9. QED
  BY <1>1, <1>2, <1>4, <1>5, <1>7, <1>8 DEF Fills

\* However the transfer ends, it has returned, and this is what the device knows.
Codes == {"Success", "Stalled", "NoDevice", "Timeout"}

Replied(code, bytes) ==
    /\ phase = "wait" /\ wire.in \in Functions0
    /\ Returns(code, bytes)
    /\ UNCHANGED <<o, handle, timed, claimed, pipes, total, expired>>
    /\ DOMAIN truth' = DOMAIN truth /\ truth'.came = truth.came /\ truth'.coding \in Seq(Octet)
    /\ truth'.sang = (truth.sang \/ (wire.in = "canary" /\ code = "Success" /\ Len(wire'.bytes) = 2))
    /\ truth'.lively = IF wire.in = "sweep" /\ code # "Stalled"
                       THEN {s \in truth.lively : SamePass(s, wire.setup)} \cup {wire.setup}
                       ELSE truth.lively
    /\ truth'.took = IF wire.setup.Direction = Out /\ code = "Success" THEN wire.setup ELSE truth.took

LEMMA Replies ==
    ASSUME Standing, Asking, Take \/ Answer \/ Refuse \/ Deadline
    PROVE  \E code \in Codes, bytes \in Seq(Octet) : Replied(code, bytes)
<1>1. /\ DOMAIN truth = {"coding", "sang", "lively", "took", "came"} /\ truth.sang \in BOOLEAN
      /\ truth.coding \in Seq(Octet) /\ o \in Options
  BY DEF Standing, Asking
<1>2. phase = "wait" /\ wire.in \in Functions0
  BY DEF Take, Answer, Refuse, Deadline, OnEndpoint0, Functions0
<1>3. /\ wire.in = todo.in /\ wire.setup = todo.setup /\ todo \in Allowed
      /\ todo.in # "sweep" => data = Buffer(todo)
  BY <1>2 DEF Asking
<1>4. /\ todo.in \in {"controlCheck", "canary", "sweep"} => todo.setup.Direction = In
      /\ todo.in = "cdcCheck" /\ todo.setup.Request = ReqSetLineCoding => Buffer(todo) \in Seq(Octet)
  BY <1>1, <1>3, BufferAre
<1>5. In # Out
  BY DEF In, Out
<1>6. /\ DOMAIN Lively = DOMAIN truth /\ Lively.sang = truth.sang /\ Lively.came = truth.came
      /\ Lively.coding = truth.coding /\ Lively.took = truth.took
      /\ Lively.lively = IF wire.in = "sweep"
                         THEN {s \in truth.lively : SamePass(s, wire.setup)} \cup {wire.setup}
                         ELSE truth.lively
  BY <1>1 DEF Lively
<1>7. \A bytes \in Answers : bytes \in Seq(Octet)
  BY DeviceAssumption DEF Octet
<1>8. <<>> \in Seq(Octet) /\ <<1>> \in Seq(Octet)
  BY DEF Octet
<1>9. CASE Take
  <2>1. Returns("Success", <<>>) /\ wire.setup.Direction = Out
        /\ UNCHANGED <<o, handle, timed, claimed, pipes, total, expired>>
    BY <1>9 DEF Take
  <2>2. PICK keeps \in BOOLEAN :
          /\ keeps => wire.setup = SetLineCoding(wire.setup.Index)
          /\ truth' = [Lively EXCEPT !.took = wire.setup, !.coding = IF keeps THEN data ELSE @]
    BY <1>9 DEF Take
  <2>3. ASSUME keeps
        PROVE  data \in Seq(Octet)
    <3>1. wire.setup.Type = Class /\ wire.setup.Request = ReqSetLineCoding
      BY <2>2, <2>3 DEF SetLineCoding, Setup
    <3>2. todo.in # "imuAttempt"
      <4>1. \A s \in Wakes \cup Hears : s.setup.Type = Vendor
        BY DEF Wakes, Hears, Send, Step, Setup
      <4>2. QED
        BY <1>3, <3>1, <4>1, KindsOfStep DEF Class, Vendor
    <3>3. QED
      BY <1>2, <1>3, <1>4, <1>5, <2>1, <3>1, <3>2 DEF Functions0
  <2>4. /\ DOMAIN truth' = DOMAIN truth /\ truth'.came = truth.came /\ truth'.sang = truth.sang
        /\ truth'.took = wire.setup /\ truth'.lively = Lively.lively /\ truth'.coding \in Seq(Octet)
    BY <1>1, <1>6, <2>2, <2>3
  <2>5. wire.in \notin {"canary", "sweep"}
    BY <1>3, <1>4, <1>5, <2>1
  <2>6. Replied("Success", <<>>)
    BY <1>1, <1>2, <1>6, <2>1, <2>4, <2>5 DEF Replied
  <2>7. QED
    BY <1>8, <2>6 DEF Codes
<1>10. CASE Answer
  <2>1. wire.setup.Direction # Out /\ UNCHANGED <<o, handle, timed, claimed, pipes, total, expired>>
    BY <1>5, <1>10 DEF Answer
  <2>2. PICK bytes \in Answers \cup {truth.coding} :
          /\ Returns("Success", bytes)
          /\ truth' = [Lively EXCEPT !.sang = @ \/ (wire.in = "canary" /\ Len(wire'.bytes) = 2)]
    BY <1>10 DEF Answer
  <2>3. /\ DOMAIN truth' = DOMAIN truth /\ truth'.came = truth.came /\ truth'.took = truth.took
        /\ truth'.lively = Lively.lively /\ truth'.coding \in Seq(Octet)
        /\ truth'.sang = (truth.sang \/ (wire.in = "canary" /\ Len(wire'.bytes) = 2))
    BY <1>1, <1>6, <2>2
  <2>4. Replied("Success", bytes)
    BY <1>1, <1>2, <1>6, <2>1, <2>2, <2>3 DEF Replied
  <2>5. QED
    BY <1>1, <1>7, <2>4 DEF Codes
<1>11. ASSUME Refuse \/ Deadline
       PROVE  \E code \in Codes \ {"Success"}, bytes \in Seq(Octet) :
                 /\ Returns(code, bytes) /\ truth' = IF code = "Stalled" THEN truth ELSE Lively
                 /\ UNCHANGED <<o, handle, timed, claimed, pipes, total, expired>>
  <2>1. CASE Refuse
    BY <1>8, <2>1 DEF Refuse, Codes
  <2>2. CASE Deadline
    BY <1>8, <2>2 DEF Deadline, Codes
  <2>3. QED
    BY <1>11, <2>1, <2>2
<1>12. CASE Refuse \/ Deadline
  <2>1. PICK code \in Codes \ {"Success"}, bytes \in Seq(Octet) :
           /\ Returns(code, bytes) /\ truth' = IF code = "Stalled" THEN truth ELSE Lively
           /\ UNCHANGED <<o, handle, timed, claimed, pipes, total, expired>>
    BY <1>11, <1>12
  <2>2. Replied(code, bytes)
    BY <1>1, <1>2, <1>6, <2>1 DEF Replied
  <2>3. QED
    BY <2>2
<1>13. QED
  BY <1>9, <1>10, <1>12

\* What Returns leaves behind.
Kept(code, n, b) ==
    /\ phase' = "transfer" /\ data' = b /\ said' = Line(code, b, n) /\ todo' = After(code, n)
    /\ hits' = IF wire.in # "sweep" \/ PassEnds THEN 0 ELSE hits + hit(code)
    /\ DOMAIN wire' = DOMAIN wire /\ wire'.in = wire.in /\ wire'.setup = wire.setup
    /\ wire'.ms = wire.ms /\ wire'.code = code
    /\ wire.setup.Direction = In =>
         data \in Seq(Octet) /\ Fills(b, wire'.bytes, n, data)
    /\ wire.setup.Direction # In => b = data

LEMMA Returned ==
    ASSUME Standing, Asking, NEW code, NEW bytes \in Seq(Octet), Replied(code, bytes)
    PROVE  \E n, b : Kept(code, n, b)
<1> DEFINE inwards == wire.setup.Direction = In
           n == IF inwards THEN Shorter(Len(bytes), Len(data)) ELSE 0
           sent == SubSeq(bytes, 1, n)
           b == IF inwards THEN sent \o SubSeq(data, n + 1, Len(data)) ELSE data
<1>1. /\ phase' = "transfer" /\ data' = b /\ said' = Line(code, b, n) /\ todo' = After(code, n)
      /\ hits' = IF wire.in # "sweep" \/ PassEnds THEN 0 ELSE hits + hit(code)
      /\ wire' = [wire EXCEPT !.code = code, !.bytes = IF inwards THEN sent ELSE @]
  BY DEF Replied, Returns
<1>2. DOMAIN wire = DOMAIN NoTransfer /\ o \in Options
  BY DEF Standing
<1>3. /\ DOMAIN wire' = DOMAIN wire /\ wire'.in = wire.in /\ wire'.setup = wire.setup
      /\ wire'.ms = wire.ms /\ wire'.code = code
      /\ inwards => wire'.bytes = sent
  BY <1>1, <1>2 DEF NoTransfer
<1>4. ASSUME inwards
      PROVE  data \in Seq(Octet)
  <2>1. /\ wire.in \in Functions0 /\ wire.in = todo.in /\ wire.setup = todo.setup /\ todo \in Allowed
        /\ todo.in # "sweep" => data = Buffer(todo)
        /\ wire.in = "sweep" => data \in Seq(Octet)
    BY DEF Asking, Replied
  <2>2. QED
    BY <1>2, <1>4, <2>1, BufferAre
<1>5. ASSUME inwards
      PROVE  Fills(b, sent, n, data)
  <2>1. n = Shorter(Len(bytes), Len(data)) /\ b = sent \o SubSeq(data, n + 1, Len(data))
    BY <1>5
  <2> HIDE DEF n, b
  <2>2. sent = SubSeq(bytes, 1, n)
    OBVIOUS
  <2> HIDE DEF sent
  <2>3. QED
    BY <1>4, <1>5, <2>1, <2>2, Received
<1>6. ~inwards => b = data
  OBVIOUS
<1> HIDE DEF n, sent, b
<1>7. Kept(code, n, b)
  BY <1>1, <1>3, <1>4, <1>5, <1>6 DEF Kept
<1>8. QED
  BY <1>7

\* What is so when a transfer returns.
LEMMA Returning ==
    ASSUME UInv, NEW code \in Codes, NEW bytes \in Seq(Octet), Replied(code, bytes)
    PROVE  /\ o \in Options /\ o' = o /\ wire.in \in Functions0 /\ todo \in Allowed
           /\ todo = Step(wire.in, wire.setup) /\ todo.in = wire.in /\ todo.setup = wire.setup
           /\ wire.in \in {"controlCheck", "canary", "sweep"} => wire.setup.Direction = In
           /\ wire.in = "cdcCheck" => (wire.setup.Direction = In <=> wire.setup.Request = ReqGetLineCoding)
           /\ wire.in = "sweep" => data \in Seq(Octet) /\ Len(data) = 64
           /\ wire.in = "canary" => Len(data) = 2
           /\ wire.in = "cdcCheck" /\ wire.setup.Direction = In => Len(data) = 7
<1>1. /\ o \in Options /\ o' = o /\ wire.in \in Functions0 /\ todo \in Allowed
      /\ todo.in = wire.in /\ todo.setup = wire.setup
      /\ todo.in # "sweep" => data = Buffer(todo)
      /\ wire.in = "sweep" => data \in Seq(Octet) /\ Len(data) = 64
  BY DEF UInv, Standing, Asking, Replied
<1>2. todo = Step(todo.in, todo.setup)
  BY <1>1, KindsOfStep
<1>3. /\ todo.in = "canary" => Len(Buffer(todo)) = 2
      /\ todo.in = "cdcCheck" /\ todo.setup.Request = ReqGetLineCoding => Len(Buffer(todo)) = 7
      /\ todo.in \in {"controlCheck", "canary", "sweep"} => todo.setup.Direction = In
      /\ todo.in = "cdcCheck" => (todo.setup.Direction = In <=> todo.setup.Request = ReqGetLineCoding)
  BY <1>1, BufferAre
<1>4. QED
  BY <1>1, <1>2, <1>3

LEMMA RepliedStanding ==
    ASSUME UInv, NEW code \in Codes, NEW bytes \in Seq(Octet), Replied(code, bytes)
    PROVE  Standing'
<1>1. PICK n, b : Kept(code, n, b)
  BY Returned DEF UInv
<1>2. /\ phase' = "transfer" /\ DOMAIN wire' = DOMAIN wire /\ wire'.in = wire.in /\ wire'.ms = wire.ms
      /\ UNCHANGED <<o, handle, timed, claimed, pipes, total, expired>>
      /\ DOMAIN truth' = DOMAIN truth /\ truth'.came = truth.came /\ truth'.sang \in BOOLEAN
      /\ phase = "wait" /\ wire.in \in Functions0
  BY <1>1 DEF Kept, Replied, UInv, Standing
<1>3. o.iface \in Int
  BY OptionsAre DEF UInv, Standing
<1>4. DOMAIN NoTransfer' = DOMAIN NoTransfer /\ Asked' = Asked
  BY <1>2 DEF Asked
<1>5. QED
  BY <1>2, <1>3, <1>4 DEF UInv, Standing, UPhases, Functions0, OnPipes, InRead

LEMMA RepliedAsking ==
    ASSUME UInv, NEW code \in Codes, NEW bytes \in Seq(Octet), Replied(code, bytes)
    PROVE  Asking'
<1>1. PICK n, b : Kept(code, n, b)
  BY Returned DEF UInv
<1>2. /\ phase' = "transfer" /\ data' = b /\ todo' = After(code, n)
      /\ wire'.in = wire.in /\ wire'.setup = wire.setup
      /\ truth'.coding \in Seq(Octet) /\ (wire.in = "sweep" => truth'.sang)
  BY <1>1 DEF Kept, Replied, UInv, Asking
<1>3. Allowed' = Allowed /\ After(code, n) \in Allowed
  BY Returning, AllowedStays, Follows
<1>4. ASSUME wire.in = "sweep"
      PROVE  b \in Seq(Octet) /\ Len(b) = 64
  <2>1. wire.setup.Direction = In /\ Len(data) = 64
    BY <1>4, Returning
  <2>2. Fills(b, wire'.bytes, n, data)
    BY <1>1, <2>1 DEF Kept
  <2>3. QED
    BY <2>1, <2>2 DEF Fills
<1>5. Step(wire'.in, wire'.setup) \in Allowed'
  BY <1>2, <1>3, Returning
<1>6. QED
  BY <1>2, <1>3, <1>4, <1>5 DEF Asking

\* The requests of this pass that have been counted: one more unless it stalled.
LEMMA OneMoreHit ==
    ASSUME UInv, NEW code \in Codes, NEW bytes \in Seq(Octet), Replied(code, bytes),
           wire.in = "sweep"
    PROVE  /\ IsFiniteSet(truth'.lively)
           /\ hits + hit(code) = Cardinality({s \in truth'.lively : SamePass(s, wire.setup)})
           /\ hits + hit(code) \in 0..wire.setup.Request + 1
           /\ wire.setup.Request \in 0..o.maxReq
           /\ \A s \in truth'.lively :
                 /\ Numbered(s) \in Nat /\ s.Request \in Nat
                 /\ \/ Numbered(s) < Numbered(wire.setup)
                    \/ SamePass(s, wire.setup) /\ s.Request <= wire.setup.Request
<1> DEFINE u == wire.setup
           L == {s \in truth.lively : SamePass(s, u)}
<1>1. /\ todo = Step(wire.in, wire.setup) /\ todo.in = "sweep" /\ todo.setup = u /\ todo \in Allowed
      /\ o \in Options
  BY Returning
<1>2. todo \in Tries /\ o.scan
  BY <1>1, KindsOfStep
<1>3. u.Request \in 0..o.maxReq
  BY <1>1, <1>2, SweepGoesOn
<1>4. /\ IsFiniteSet(truth.lively) /\ hits \in 0..u.Request /\ hits = Cardinality(L)
      /\ \A s \in truth.lively :
            /\ Numbered(s) \in Nat /\ s.Request \in Nat
            /\ \/ Numbered(s) < Numbered(u)
               \/ SamePass(s, u) /\ s.Request < u.Request
  BY <1>1 DEF UInv, Counting
<1>5. SamePass(u, u) /\ \A s : SamePass(s, u) => Numbered(s) = Numbered(u)
  BY DEF SamePass, Numbered
<1>6. o.maxReq \in Nat /\ Numbered(u) \in Nat /\ u.Request \in Nat
  BY <1>1, <1>2, <1>3, OptionsAre, SweepGoesOn
<1> HIDE DEF u
<1>7. u \notin L
  BY <1>3, <1>4, <1>5, <1>6
<1>8. IsFiniteSet(L)
  BY <1>4, FS_Subset
<1>9. CASE code = "Stalled"
  <2>1. truth'.lively = truth.lively /\ hit(code) = 0
    BY <1>9 DEF Replied, hit
  <2>2. \A s \in truth.lively : Numbered(s) < Numbered(u) \/ (SamePass(s, u) /\ s.Request <= u.Request)
    <3>1. ASSUME NEW s \in truth.lively
          PROVE  Numbered(s) < Numbered(u) \/ (SamePass(s, u) /\ s.Request <= u.Request)
      BY <1>4, <1>6
    <3>2. QED
      BY <3>1
  <2>3. QED
    BY <1>3, <1>4, <1>6, <2>1, <2>2 DEF u
<1>10. CASE code # "Stalled"
  <2>1. truth'.lively = L \cup {u} /\ hit(code) = 1
    BY <1>10 DEF Replied, hit, u
  <2>2. {s \in L \cup {u} : SamePass(s, u)} = L \cup {u}
    BY <1>5
  <2>3. IsFiniteSet(L \cup {u}) /\ Cardinality(L \cup {u}) = Cardinality(L) + 1
    BY <1>7, <1>8, FS_AddElement
  <2>4. \A s \in L \cup {u} : SamePass(s, u) /\ (s.Request < u.Request \/ s = u)
    BY <1>4, <1>5, <1>6
  <2>5. ASSUME NEW s \in L \cup {u}
        PROVE  /\ Numbered(s) \in Nat /\ s.Request \in Nat
               /\ SamePass(s, u) /\ s.Request <= u.Request
    BY <1>4, <1>6, <2>4
  <2>6. hits + 1 = Cardinality(L \cup {u}) /\ hits + 1 \in 0..u.Request + 1
    BY <1>4, <1>6, <2>3
  <2>7. QED
    BY <1>3, <2>1, <2>2, <2>3, <2>5, <2>6 DEF u
<1>11. QED
  BY <1>9, <1>10

LEMMA RepliedCounting ==
    ASSUME UInv, NEW code \in Codes, NEW bytes \in Seq(Octet), Replied(code, bytes)
    PROVE  Counting'
<1>1. PICK n, b : Kept(code, n, b)
  BY Returned DEF UInv
<1> DEFINE t == todo'
           u == wire.setup
<1>2. /\ todo = Step(wire.in, wire.setup) /\ todo.in = wire.in /\ todo.setup = u /\ todo \in Allowed
      /\ o \in Options /\ o' = o /\ wire.in \in Functions0
  BY Returning
<1>3. /\ t.in # "controlCheck"
      /\ t.in = "canary" => wire.in = "controlCheck"
      /\ t.in = "sweep" =>
           wire.in = "sweep" \/ (wire.in = "canary" /\ Sings(code, n) /\ t = Try(ToDevice, 0, 0))
      /\ wire.in = "sweep" => t = sweep(u)
      /\ t \in Hears =>
           /\ wire.in = "imuAttempt" /\ u.Direction = Out /\ code = "Success"
           /\ [t.setup EXCEPT !.Direction = Out] = u
  <2>1. t = After(code, n)
    BY <1>1 DEF Kept
  <2> HIDE DEF t
  <2>2. QED
    BY <1>2, <2>1, Follows DEF Functions0
<1>4. /\ hits' = IF wire.in # "sweep" \/ PassEnds THEN 0 ELSE hits + hit(code)
      /\ truth'.sang = (truth.sang \/ (wire.in = "canary" /\ code = "Success" /\ Len(wire'.bytes) = 2))
      /\ wire.in # "sweep" => truth'.lively = truth.lively
      /\ u.Direction = Out /\ code = "Success" => truth'.took = u
  BY <1>1 DEF Kept, Replied
<1>5. /\ wire.in \in {"controlCheck", "canary"} => ~truth.sang /\ truth.lively = {}
      /\ wire.in = "sweep" => truth.sang
      /\ IsFiniteSet(truth.lively)
  BY <1>2 DEF UInv, Counting
<1> HIDE DEF t, u
<1>6. t.in \in {"controlCheck", "canary"} => ~truth'.sang /\ truth'.lively = {}
  BY <1>3, <1>4, <1>5
<1>7. t \in Hears => truth'.took = [t.setup EXCEPT !.Direction = Out]
  BY <1>3, <1>4
<1>8. IsFiniteSet(truth'.lively)
  BY <1>4, <1>5, OneMoreHit
<1>9. wire.in = "sweep" => todo \in Tries /\ o.scan
  BY <1>2, KindsOfStep
<1>10. t.in # "sweep" => hits' = 0
  <2>1. CASE wire.in = "sweep" /\ t.in # "sweep"
    <3>1. u.Request = o.maxReq
      BY <1>2, <1>3, <1>9, <2>1, SweepGoesOn
    <3>2. QED
      BY <1>4, <3>1 DEF PassEnds, u
  <2>2. QED
    BY <1>4, <2>1
<1>11. ASSUME t.in = "sweep"
       PROVE  /\ truth'.sang
              /\ hits' \in 0..t.setup.Request
              /\ hits' = Cardinality({s \in truth'.lively : SamePass(s, t.setup)})
              /\ \A s \in truth'.lively :
                    /\ Numbered(s) \in Nat /\ s.Request \in Nat
                    /\ \/ Numbered(s) < Numbered(t.setup)
                       \/ SamePass(s, t.setup) /\ s.Request < t.setup.Request
  <2>1. CASE wire.in = "canary"
    <3>1. code = "Success" /\ n = 2 /\ t = Try(ToDevice, 0, 0)
      BY <1>3, <1>11, <2>1 DEF Sings
    <3>2. Fills(b, wire'.bytes, n, data)
      BY <1>1, <2>1, Returning DEF Kept
    <3>3. truth'.sang /\ truth'.lively = {} /\ hits' = 0
      BY <1>4, <1>5, <2>1, <3>1, <3>2 DEF Fills
    <3>4. t.setup.Request = 0
      BY <3>1 DEF Try, Step, Setup
    <3>5. {s \in truth'.lively : SamePass(s, t.setup)} = {}
      BY <3>3
    <3>6. QED
      BY <3>3, <3>4, <3>5, FS_EmptySet
  <2>2. CASE wire.in = "sweep"
    <3>1. /\ truth'.sang /\ IsFiniteSet(truth'.lively)
          /\ hits + hit(code) = Cardinality({s \in truth'.lively : SamePass(s, u)})
          /\ hits + hit(code) \in 0..u.Request + 1
          /\ u.Request \in 0..o.maxReq
          /\ \A s \in truth'.lively :
                /\ Numbered(s) \in Nat /\ s.Request \in Nat
                /\ \/ Numbered(s) < Numbered(u)
                   \/ SamePass(s, u) /\ s.Request <= u.Request
      BY <1>4, <1>5, <2>2, OneMoreHit DEF u
    <3>2. /\ Numbered(u) \in Nat
          /\ IF u.Request = o.maxReq
             THEN t.setup.Request = 0 /\ Numbered(t.setup) = Numbered(u) + 1
             ELSE t.setup.Request = u.Request + 1 /\ SamePass(t.setup, u)
      BY <1>2, <1>3, <1>9, <1>11, <2>2, SweepGoesOn
    <3>3. \A s, v : SamePass(s, v) => Numbered(s) = Numbered(v)
      BY DEF SamePass, Numbered
    <3>4. CASE u.Request = o.maxReq
      <4>1. hits' = 0 /\ t.setup.Request = 0
        BY <1>4, <3>2, <3>4 DEF PassEnds, u
      <4>2. \A s \in truth'.lively : Numbered(s) \in Nat /\ s.Request \in Nat /\ Numbered(s) < Numbered(t.setup)
        BY <3>1, <3>2, <3>3, <3>4
      <4>3. \A s \in truth'.lively : ~SamePass(s, t.setup)
        <5>1. ASSUME NEW s \in truth'.lively, SamePass(s, t.setup)
              PROVE  FALSE
          <6>1. Numbered(s) = Numbered(t.setup)
            BY <3>3, <5>1, Zenon
          <6>2. QED
            BY <4>2, <5>1, <6>1
        <5>2. QED
          BY <5>1
      <4>4. {s \in truth'.lively : SamePass(s, t.setup)} = {}
        BY <4>3
      <4>5. Cardinality({s \in truth'.lively : SamePass(s, t.setup)}) = 0
        BY <4>4, FS_EmptySet
      <4>6. \A s \in truth'.lively :
               /\ Numbered(s) \in Nat /\ s.Request \in Nat
               /\ \/ Numbered(s) < Numbered(t.setup)
                  \/ SamePass(s, t.setup) /\ s.Request < t.setup.Request
        BY <4>2, Zenon
      <4>7. hits' \in 0..t.setup.Request
        BY <4>1
      <4>8. QED
        BY <3>1, <4>1, <4>5, <4>6, <4>7, Zenon
    <3>5. CASE u.Request # o.maxReq
      <4>1. hits' = hits + hit(code) /\ t.setup.Request = u.Request + 1
        BY <1>4, <2>2, <3>2, <3>5 DEF PassEnds, u
      <4>2. \A s : SamePass(s, t.setup) <=> SamePass(s, u)
        BY <3>2, <3>5 DEF SamePass
      <4>3. {s \in truth'.lively : SamePass(s, t.setup)} = {s \in truth'.lively : SamePass(s, u)}
        BY <4>2
      <4>4. Numbered(t.setup) = Numbered(u) /\ u.Request \in Nat
        BY <3>1, <3>2, <3>3, <3>5
      <4>5. ASSUME NEW s \in truth'.lively
            PROVE  /\ Numbered(s) \in Nat /\ s.Request \in Nat
                   /\ \/ Numbered(s) < Numbered(t.setup)
                      \/ SamePass(s, t.setup) /\ s.Request < t.setup.Request
        <5>1. /\ Numbered(s) \in Nat /\ s.Request \in Nat
              /\ Numbered(s) < Numbered(u) \/ (SamePass(s, u) /\ s.Request <= u.Request)
          BY <3>1
        <5>2. QED
          BY <4>1, <4>2, <4>4, <5>1
      <4>6. QED
        BY <3>1, <4>1, <4>3, <4>5
    <3>6. QED
      BY <3>4, <3>5
  <2>3. QED
    BY <1>3, <1>11, <2>1, <2>2
<1>12. QED
  BY <1>6, <1>7, <1>8, <1>10, <1>11 DEF Counting, t

LEMMA RepliedOnItsPipe ==
    ASSUME UInv, NEW code \in Codes, NEW bytes \in Seq(Octet), Replied(code, bytes)
    PROVE  OnItsPipe'
<1>1. PICK n, b : Kept(code, n, b)
  BY Returned DEF UInv
<1>2. wire'.in \in Functions0 /\ UNCHANGED <<o, claimed, pipes>>
  BY <1>1 DEF Kept, Replied
<1>3. Listed(claimed.endpoints)' = Listed(claimed.endpoints)
  BY <1>2 DEF Listed
<1>4. QED
  BY <1>2, <1>3 DEF UInv, OnItsPipe, Functions0, InRead

\* What is printed of a reply is founded.
LEMMA RepliedFounded ==
    ASSUME UInv, NEW code \in Codes, NEW bytes \in Seq(Octet), Replied(code, bytes)
    PROVE  VerdictsAreFounded'
<1>1. PICK n, b : Kept(code, n, b)
  BY Returned DEF UInv
<1>2. /\ todo = Step(wire.in, wire.setup) /\ todo.in = wire.in /\ todo.setup = wire.setup /\ todo \in Allowed
      /\ wire.in \in Functions0
      /\ wire.in \in {"controlCheck", "canary", "sweep"} => wire.setup.Direction = In
      /\ wire.in = "cdcCheck" => (wire.setup.Direction = In <=> wire.setup.Request = ReqGetLineCoding)
      /\ wire.in = "canary" => Len(data) = 2
      /\ wire.in = "cdcCheck" /\ wire.setup.Direction = In => Len(data) = 7
  BY Returning
<1>3. /\ said' = Line(code, b, n) /\ wire'.in = wire.in /\ wire'.setup = wire.setup /\ wire'.code = code
      /\ truth'.sang = (truth.sang \/ (wire.in = "canary" /\ code = "Success" /\ Len(wire'.bytes) = 2))
      /\ wire.setup.Direction # Out => truth'.took = truth.took
  BY <1>1 DEF Kept, Replied
<1>4. wire.setup.Direction = In => data \in Seq(Octet) /\ Fills(b, wire'.bytes, n, data)
  BY <1>1 DEF Kept
<1> SUFFICES ASSUME NEW line \in said'
             PROVE  /\ line.says = "PASS" => Len(wire'.bytes) = 18 /\ SubSeq(wire'.bytes, 9, 12) = Registry
                    /\ line.says \in {"ANSWERED", "READ", "WRITE"} => line.bytes = wire'.bytes /\ wire'.code = "Success"
                    /\ line.says = "ABORTED" => ~truth'.sang
                    /\ line.says = "sum" => truth'.sang
                          /\ line.hits = Cardinality({s \in truth'.lively : SamePass(s, wire'.setup)})
                    /\ line.says = "ALL ZERO" => wire'.bytes = Zeros(LineCodingSize)
                    /\ line.says = "coding" => wire'.bytes = LineCodingBytes(line.coding)
                    /\ line.says = "DECODED" => IsIMU(wire'.bytes) /\ line.angles = ParseIMU(wire'.bytes)
                          /\ truth'.took = [wire'.setup EXCEPT !.Direction = Out]
                    /\ line.says = "empty" => truth'.came \subseteq {"reap", "missed"}
  BY DEF VerdictsAreFounded
<1>5. CASE wire.in = "controlCheck"
  <2>1. /\ said' = {[says |-> IF code = "Success" /\ n = 18 /\ SubSeq(b, 9, 12) = Registry THEN "PASS" ELSE "FAIL"]}
    BY <1>3, <1>5 DEF Line
  <2>2. line.says \in {"PASS", "FAIL"} /\ (line.says = "PASS" => n = 18 /\ SubSeq(b, 9, 12) = Registry)
    BY <2>1
  <2>3. n = 18 => Len(wire'.bytes) = 18 /\ SubSeq(b, 9, 12) = SubSeq(wire'.bytes, 9, 12)
    <3>1. Fills(b, wire'.bytes, n, data)
      BY <1>2, <1>4, <1>5, Zenon
    <3>2. 9 \in Nat \ {0} /\ 12 \in Nat
      OBVIOUS
    <3>3. n = 18 => 12 <= n
      OBVIOUS
    <3>4. Len(wire'.bytes) = n /\ (12 <= n => SubSeq(b, 9, 12) = SubSeq(wire'.bytes, 9, 12))
      BY <3>1, <3>2, SMT DEF Fills
    <3>5. QED
      BY <3>3, <3>4
  <2>4. QED
    BY <2>2, <2>3
<1>6. CASE wire.in = "canary"
  <2>1. said' = {[says |-> IF Sings(code, n) THEN "sings" ELSE "ABORTED"]}
    BY <1>3, <1>6 DEF Line
  <2>2. line.says \in {"sings", "ABORTED"} /\ (line.says = "ABORTED" => ~(code = "Success" /\ n = 2))
    BY <2>1 DEF Sings
  <2>3. ~truth.sang
    BY <1>2, <1>6 DEF UInv, Counting
  <2>4. Len(wire'.bytes) = n
    BY <1>2, <1>4, <1>6 DEF Fills
  <2>5. QED
    BY <1>3, <2>2, <2>3, <2>4
<1>7. CASE wire.in = "sweep"
  <2>1. said' = (IF code = "Success" THEN {[says |-> "ANSWERED", bytes |-> SubSeq(b, 1, n)]} ELSE {})
                \cup (IF PassEnds THEN {[says |-> "sum", hits |-> hits + hit(code)]} ELSE {})
    BY <1>3, <1>7 DEF Line
  <2>2. \/ line.says = "ANSWERED" /\ line.bytes = SubSeq(b, 1, n) /\ code = "Success"
        \/ line.says = "sum" /\ line.hits = hits + hit(code)
    BY <2>1
  <2>3. SubSeq(b, 1, n) = wire'.bytes
    BY <1>2, <1>4, <1>7 DEF Fills
  <2>4. truth.sang
    BY <1>2, <1>7 DEF UInv, Counting
  <2>5. hits + hit(code) = Cardinality({s \in truth'.lively : SamePass(s, wire.setup)})
    BY <1>7, OneMoreHit
  <2>6. QED
    BY <1>3, <2>2, <2>3, <2>4, <2>5
<1>8. CASE wire.in = "cdcCheck"
  <2>1. /\ wire.setup.Request = ReqGetLineCoding /\ code = "Success"
        /\ line \in IF n < LineCodingSize THEN {[says |-> "short"]}
                    ELSE IF Zero(ParseLineCoding(b)) THEN {[says |-> "ALL ZERO"]}
                    ELSE {[says |-> "coding", coding |-> ParseLineCoding(b)]}
    BY <1>3, <1>8 DEF Line
  <2>2. wire.setup.Direction = In /\ Len(data) = 7
    BY <1>2, <1>8, <2>1
  <2>3. Fills(b, wire'.bytes, n, data)
    BY <1>4, <2>2
  <2>4. n < LineCodingSize \/ (b = wire'.bytes /\ b \in Seq(Octet) /\ Len(b) = LineCodingSize)
    BY <2>2, <2>3 DEF Fills, LineCodingSize
  <2>5. CASE n < LineCodingSize
    <3>1. line.says = "short"
      BY <2>1, <2>5
    <3>2. QED
      BY <3>1
  <2>6. CASE ~(n < LineCodingSize)
    <3>1. b = wire'.bytes /\ b \in Seq(Octet) /\ Len(b) = LineCodingSize
      BY <2>4, <2>6
    <3>2. /\ LineCodingBytes(ParseLineCoding(b)) = b
          /\ Zero(ParseLineCoding(b)) => b = [j \in 1..LineCodingSize |-> 0]
      BY <3>1, SevenBytesRoundTrip
    <3>3. \/ line.says = "ALL ZERO" /\ Zero(ParseLineCoding(b))
          \/ line.says = "coding" /\ line.coding = ParseLineCoding(b)
      <4>1. line \in IF Zero(ParseLineCoding(b)) THEN {[says |-> "ALL ZERO"]}
                    ELSE {[says |-> "coding", coding |-> ParseLineCoding(b)]}
        BY <2>1, <2>6
      <4>2. CASE Zero(ParseLineCoding(b))
        <5>1. line = [says |-> "ALL ZERO"]
          BY <4>1, <4>2
        <5>2. QED
          BY <4>2, <5>1
      <4>3. CASE ~Zero(ParseLineCoding(b))
        <5> DEFINE lc == ParseLineCoding(b)
        <5>1. line = [says |-> "coding", coding |-> lc]
          BY <4>1, <4>3
        <5> HIDE DEF lc
        <5>2. line.says = "coding" /\ line.coding = lc
          BY <5>1
        <5>3. QED
          BY <5>2 DEF lc
      <4>4. QED
        BY <4>2, <4>3
    <3>4. Zeros(LineCodingSize) = [j \in 1..LineCodingSize |-> 0]
      BY DEF Zeros
    <3>5. QED
      BY <3>1, <3>2, <3>3, <3>4
  <2>7. QED
    BY <2>5, <2>6
<1>9. CASE wire.in = "imuAttempt"
  <2>1. /\ wire.setup.Direction = In /\ code = "Success" /\ IsIMU(SubSeq(b, 1, n))
        /\ line.says = "DECODED" /\ line.angles = ParseIMU(b)
    BY <1>3, <1>9 DEF Line
  <2>2. Fills(b, wire'.bytes, n, data)
    BY <1>4, <2>1
  <2>3. IsIMU(wire'.bytes) /\ n >= 30
    BY <2>1, <2>2 DEF Fills, IsIMU, eulerOffset
  <2>4. ParseIMU(b) = ParseIMU(wire'.bytes)
    <3>1. \A k \in 1..3 : eulerOffset + 4 * k - 3 \in Nat \ {0} /\ eulerOffset + 4 * k \in Nat
                          /\ eulerOffset + 4 * k <= n
      BY <2>2, <2>3 DEF eulerOffset, Fills
    <3>2. \A k \in 1..3 : SubSeq(b, eulerOffset + 4 * k - 3, eulerOffset + 4 * k)
                          = SubSeq(wire'.bytes, eulerOffset + 4 * k - 3, eulerOffset + 4 * k)
      BY <2>2, <3>1 DEF Fills
    <3>3. QED
      BY <3>2 DEF ParseIMU
  <2>5. todo \in Wakes \cup Hears
    BY <1>2, <1>9, KindsOfStep
  <2>6. \A s \in Wakes : s.setup.Direction = Out
    BY DEF Wakes, Send, Step, Setup
  <2>7. truth.took = [wire.setup EXCEPT !.Direction = Out]
    BY <1>2, <2>1, <2>5, <2>6 DEF In, Out, UInv, Counting
  <2>8. QED
    BY <1>3, <2>1, <2>3, <2>4, <2>7 DEF In, Out
<1>10. QED
  BY <1>2, <1>5, <1>6, <1>7, <1>8, <1>9 DEF Functions0

-----------------------------------------------------------------------------
(* Every step.                                                               *)

LEMMA QuietAsking ==
    ASSUME UInv, UNCHANGED <<o, todo, wire, data, hits, truth>>, phase' = phase \/ phase' # "wait"
    PROVE  Asking' /\ Counting'
<1>1. Allowed' = Allowed /\ Buffer(todo)' = Buffer(todo)
  BY AllowedStays DEF Buffer
<1>2. Asking'
  BY <1>1 DEF UInv, Asking
<1>3. Counting'
  BY DEF UInv, Counting
<1>4. QED
  BY <1>2, <1>3

LEMMA QuietFounded ==
    ASSUME UInv, UNCHANGED <<said, wire, truth>> \/ said' = {}
    PROVE  VerdictsAreFounded'
  BY DEF UInv, VerdictsAreFounded

LEMMA QuietOnItsPipe ==
    ASSUME UInv, UNCHANGED <<o, claimed, wire, data, truth>>, pipes' = pipes \/ pipes' = Listed(claimed.endpoints)
    PROVE  OnItsPipe'
<1>1. Listed(claimed.endpoints)' = Listed(claimed.endpoints)
  BY DEF Listed
<1>2. QED
  BY <1>1 DEF UInv, OnItsPipe

LEMMA NothingSent ==
    /\ NoTransfer.in = "none" /\ NoTransfer.ms = 1
    /\ "none" \notin Functions0 \cup OnPipes
  BY DEF NoTransfer, Functions0, OnPipes, InRead

LEMMA ProbeInit == UInit => UInv
<1> SUFFICES ASSUME UInit
             PROVE  UInv
  OBVIOUS
<1>1. /\ o \in Options /\ phase = "begin"
      /\ handle = "closed" /\ timed = TRUE
      /\ claimed = NoInterface /\ pipes = <<>> /\ wire = NoTransfer /\ data = <<>>
      /\ hits = 0 /\ total = FALSE /\ expired = FALSE /\ said = {}
      /\ truth = [coding |-> Zeros(LineCodingSize), sang |-> FALSE, lively |-> {},
                  took |-> GetStatus, came |-> {}]
      /\ todo = IF o.iface >= 0 THEN Over ELSE controlCheck
  BY DEF UInit, Idle
<1>2. Standing
  <2>1. 1 \in 1..Width - 1
    BY WidthAssumption
  <2>2. DOMAIN truth = {"coding", "sang", "lively", "took", "came"} /\ truth.sang = FALSE /\ truth.came = {}
    BY <1>1
  <2> QED
    BY <1>1, <2>1, <2>2, NothingSent DEF Standing, UPhases, OnPipes, InRead
<1>3. /\ Over \in Allowed /\ Over.in = "none" /\ Over \notin Hears
  BY DEF Allowed, Over, Step, Hears
<1>4. todo \in Allowed /\ todo.in # "sweep" /\ todo \notin Hears
  BY <1>1, <1>3, Beginnings
<1>5. wire.in = "none" /\ "none" \notin Functions0 \cup OnPipes
  BY <1>1, NothingSent
<1>6. Asking
  <2>1. truth.coding \in Seq(Octet)
    <3>1. truth.coding = Zeros(LineCodingSize) /\ LineCodingSize \in Nat
      BY <1>1 DEF LineCodingSize
    <3>2. QED
      BY <3>1, ZerosAre
  <2>2. QED
    BY <1>1, <1>4, <1>5, <2>1 DEF Asking, Functions0
<1>7. Counting
  BY <1>1, <1>4, FS_EmptySet DEF Counting
<1>8. OnItsPipe
  BY <1>1, <1>5 DEF OnItsPipe, OnPipes, InRead
<1>9. VerdictsAreFounded
  BY <1>1 DEF VerdictsAreFounded
<1>10. QED
  BY <1>2, <1>6, <1>7, <1>8, <1>9 DEF UInv

LEMMA BeginOk == UInv /\ Begin => UInv'
<1> SUFFICES ASSUME UInv, Begin
             PROVE  UInv'
  OBVIOUS
<1>1. /\ UNCHANGED <<o, todo, handle, timed, pipes, wire, data, hits, total, expired, said, truth>>
      /\ phase = "begin" /\ phase' \in {"open", "done"}
      /\ pipes = <<>> /\ wire = NoTransfer /\ handle = "closed"
      /\ o.iface \in Int
  BY OptionsAre DEF Begin, UInv, Standing
<1>2. phase' = "open" => IF o.iface >= 0 THEN claimed'.Number = o.iface % 256 ELSE Asked
  BY DEF Begin
<1>3. claimed' \in Interfaces \cup {NoInterface}
  BY DEF Begin, UInv, Standing
<1>4. Standing'
  <2>1. Asked' = Asked /\ NoTransfer' = NoTransfer
    BY <1>1 DEF Asked
  <2>2. wire.in = "none"
    BY <1>1, NothingSent
  <2>3. QED
    BY <1>1, <1>2, <1>3, <2>1, <2>2 DEF UInv, Standing, UPhases, OnPipes, InRead
<1>5. Asking' /\ Counting'
  BY <1>1, QuietAsking
<1>6. OnItsPipe'
  BY <1>1, NothingSent DEF UInv, OnItsPipe, OnPipes
<1>7. VerdictsAreFounded'
  BY <1>1, QuietFounded
<1>8. QED
  BY <1>4, <1>5, <1>6, <1>7 DEF UInv

LEMMA OpenOk == UInv /\ (Open \/ OpenSeize) => UInv'
<1> SUFFICES ASSUME UInv, Open \/ OpenSeize
             PROVE  UInv'
  OBVIOUS
<1>1. /\ UNCHANGED <<o, todo, claimed, pipes, wire, data, hits, total, expired, said, truth>>
      /\ phase \in {"open", "seize"} /\ wire = NoTransfer
      /\ o.iface \in Int
  BY OptionsAre DEF Open, OpenSeize, UInv, Standing
<1>2. \/ /\ handle' \in {"open", "seized"} /\ timed' \in BOOLEAN
         /\ handle' = "seized" => o.seize
         /\ phase' = (IF o.iface >= 0 THEN "pipes" ELSE "transfer")
      \/ /\ phase' \in {"seize", "done"} /\ UNCHANGED <<handle, timed>> /\ handle = "closed"
         /\ phase' = "seize" => o.seize
  BY DEF Open, OpenSeize, Opened, UInv, Standing
<1>3. IF o.iface >= 0 THEN claimed.Number = o.iface % 256 ELSE Asked
  BY <1>1 DEF UInv, Standing
<1>4. Standing'
  <2>1. Asked' = Asked /\ NoTransfer' = NoTransfer
    BY <1>1 DEF Asked
  <2>2. wire.in = "none"
    BY <1>1, NothingSent
  <2>3. QED
    BY <1>1, <1>2, <1>3, <2>1, <2>2 DEF UInv, Standing, UPhases, OnPipes, InRead
<1>5. Asking' /\ Counting'
  BY <1>1, <1>2, QuietAsking
<1>6. OnItsPipe'
  BY <1>1, QuietOnItsPipe
<1>7. VerdictsAreFounded'
  BY <1>1, QuietFounded
<1>8. QED
  BY <1>4, <1>5, <1>6, <1>7 DEF UInv

LEMMA ControlOk == UInv /\ Control => UInv'
<1> SUFFICES ASSUME UInv, Control
             PROVE  UInv'
  OBVIOUS
<1>1. /\ UNCHANGED <<o, todo, handle, timed, claimed, pipes, hits, total, expired, truth>>
      /\ phase = "transfer" /\ todo # Over /\ phase' = "wait" /\ said' = {}
      /\ data' = IF todo.in = "sweep" /\ wire.in = "sweep" THEN data ELSE Buffer(todo)
      /\ wire' = [NoTransfer EXCEPT
                    !.in = todo.in, !.setup = todo.setup,
                    !.bytes = IF todo.setup.Direction = Out THEN Buffer(todo) ELSE <<>>,
                    !.ms = ControlMS(IF todo.in = "controlCheck" THEN 0 ELSE o.timeout)]
  BY DEF Control
<1>2. /\ DOMAIN wire' = DOMAIN NoTransfer /\ wire'.in = todo.in /\ wire'.setup = todo.setup
      /\ wire'.ms = ControlMS(IF todo.in = "controlCheck" THEN 0 ELSE o.timeout)
  BY <1>1 DEF NoTransfer
<1>3. o \in Options /\ todo \in Allowed /\ o.iface < 0 /\ handle # "closed"
  BY <1>1 DEF UInv, Standing, Asking, UPhases
<1>4. todo.in \in Functions0 /\ Step(todo.in, todo.setup) = todo
  BY <1>1, <1>3, KindsOfStep
<1>5. wire'.ms \in 1..Width - 1
  <2>1. (IF todo.in = "controlCheck" THEN 0 ELSE o.timeout) \in Int
    BY <1>3, OptionsAre
  <2>2. QED
    BY <1>2, <2>1, AlwaysADeadline
<1>6. Standing'
  <2>1. Asked' = Asked /\ NoTransfer' = NoTransfer /\ o.iface \in Int
    BY <1>1, <1>3, OptionsAre DEF Asked
  <2>2. QED
    BY <1>1, <1>2, <1>3, <1>4, <1>5, <2>1 DEF UInv, Standing, UPhases, Functions0, OnPipes, InRead
<1>7. Asking'
  <2>1. Allowed' = Allowed /\ Buffer(todo)' = Buffer(todo)
    BY <1>1, AllowedStays DEF Buffer
  <2>2. todo.in = "sweep" => Buffer(todo) \in Seq(Octet) /\ Len(Buffer(todo)) = 64
    BY <1>3, <1>4, BufferAre
  <2>3. todo.in = "sweep" => data' \in Seq(Octet) /\ Len(data') = 64
    BY <1>1, <2>2 DEF UInv, Asking
  <2>4. todo.in # "sweep" => data' = Buffer(todo)
    BY <1>1
  <2>5. todo.in = "sweep" => truth.sang
    BY DEF UInv, Counting
  <2>6. QED
    BY <1>1, <1>2, <1>4, <2>1, <2>3, <2>4, <2>5 DEF UInv, Asking
<1>8. Counting'
  BY <1>1 DEF UInv, Counting
<1>9. OnItsPipe'
  <2>1. Listed(claimed.endpoints)' = Listed(claimed.endpoints)
    BY <1>1 DEF Listed
  <2>2. QED
    BY <1>1, <1>2, <1>4, <2>1 DEF UInv, OnItsPipe, Functions0, InRead
<1>10. VerdictsAreFounded'
  BY <1>1, QuietFounded
<1>11. QED
  BY <1>6, <1>7, <1>8, <1>9, <1>10 DEF UInv

\* Steps that leave what was asked and what was printed as they are, or print nothing.
LEMMA QuietOk ==
    ASSUME UInv, Finish \/ Pipes \/ TimeIsOver
    PROVE  UInv'
<1>1. /\ UNCHANGED <<o, todo, handle, timed, claimed, wire, data, hits, total, truth>>
      /\ UNCHANGED said \/ said' = {}
      /\ pipes' = pipes \/ pipes' = Listed(claimed.endpoints)
      /\ expired' \in BOOLEAN
      /\ \/ phase' = phase
         \/ phase = "transfer" /\ phase' = "done"
         \/ phase = "pipes" /\ phase' \in {"writePipe", "done"}
  BY DEF Finish, Pipes, TimeIsOver, UInv, Standing
<1>2. phase = "begin" => pipes' = pipes
  BY DEF Finish, Pipes, TimeIsOver
<1>3. Standing'
  <2>1. Asked' = Asked /\ NoTransfer' = NoTransfer
    BY <1>1 DEF Asked
  <2>2. QED
    BY <1>1, <1>2, <2>1 DEF UInv, Standing, UPhases, OnPipes, InRead
<1>4. Asking' /\ Counting'
  BY <1>1, QuietAsking
<1>5. OnItsPipe'
  BY <1>1, QuietOnItsPipe
<1>6. VerdictsAreFounded'
  BY <1>1, QuietFounded
<1>7. QED
  BY <1>3, <1>4, <1>5, <1>6 DEF UInv

LEMMA PipeIsFound ==
    ASSUME UInv, NEW a \in Int, NEW p \in findPipe(pipes, a)
    PROVE  /\ p.Ref \in DOMAIN claimed.endpoints
           /\ Address(claimed.endpoints[p.Ref]) = a % 256
           /\ p.MaxPacket \in Nat
<1>1. PICK j \in DOMAIN pipes : p = pipes[j] /\ Address(pipes[j]) = a % 256
  BY DEF findPipe
<1>2. pipes = Listed(claimed.endpoints)
  BY <1>1 DEF UInv, OnItsPipe
<1>3. j \in DOMAIN claimed.endpoints
  BY <1>1, <1>2 DEF Listed
<1>4. /\ p.Ref = j /\ p.Number = claimed.endpoints[j].Number /\ p.Dir = claimed.endpoints[j].Dir
      /\ p.MaxPacket = claimed.endpoints[j].MaxPacket
  BY <1>1, <1>2, <1>3 DEF Listed
<1>5. claimed.endpoints[j].MaxPacket \in Nat
  <2>1. claimed # NoInterface
    BY <1>3 DEF NoInterface
  <2>2. claimed \in Interfaces
    BY <2>1 DEF UInv, Standing
  <2>3. claimed.endpoints \in Seq([Number : Nat, Dir : {PipeOut, PipeIn}, Type : Nat, MaxPacket : Nat])
    BY <2>2, DeviceAssumption
  <2> DEFINE Pipe == [Number : Nat, Dir : {PipeOut, PipeIn}, Type : Nat, MaxPacket : Nat]
             es == claimed.endpoints
  <2>4. es \in Seq(Pipe) /\ j \in DOMAIN es
    BY <1>3, <2>3
  <2>5. \A e \in Pipe : e.MaxPacket \in Nat
    OBVIOUS
  <2> HIDE DEF Pipe, es
  <2>6. es[j] \in Pipe
    BY <2>4
  <2>7. QED
    BY <2>5, <2>6 DEF es
<1>6. QED
  BY <1>1, <1>3, <1>4, <1>5 DEF Address

\* A call on a pipe, of a program that has its interface.
LEMMA OnPipeIs ==
    ASSUME UInv, NEW what \in OnPipes, NEW a \in Int, NEW p \in findPipe(pipes, a), NEW bytes,
           OnPipe(what, p, bytes)
    PROVE  /\ phase' = "wait" /\ DOMAIN wire' = DOMAIN NoTransfer
           /\ wire'.in = what /\ wire'.bytes = bytes /\ wire'.address = a % 256
           /\ wire'.ms \in 1..Width - 1
<1>1. o.timeout \in Int
  BY OptionsAre DEF UInv, Standing
<1>2. timeoutMS(o.timeout) \in 1..Width - 1
  BY <1>1, AlwaysADeadline
<1>3. p.Ref \in DOMAIN claimed.endpoints /\ Address(claimed.endpoints[p.Ref]) = a % 256
  BY PipeIsFound
<1>4. QED
  BY <1>2, <1>3 DEF OnPipe, NoTransfer

\* Steps of the interface's program: they ask nothing of endpoint 0.
LEMMA PipesAsk ==
    ASSUME UInv, UNCHANGED <<o, todo, hits, truth>>, wire' = wire \/ wire'.in \in OnPipes,
           wire.in \notin Functions0
    PROVE  Asking' /\ Counting'
<1>1. Allowed' = Allowed
  BY AllowedStays
<1>2. wire'.in \notin Functions0
  BY DEF Functions0, OnPipes, InRead
<1>3. Asking'
  BY <1>1, <1>2 DEF UInv, Asking, Functions0
<1>4. Counting'
  BY DEF UInv, Counting
<1>5. QED
  BY <1>3, <1>4

\* Writing at either place.
LEMMA WritingOk ==
    ASSUME UInv, NEW what, NEW bytes, NEW then, Writing(what, bytes, then),
           \/ phase = "writePipe" /\ what = "writePipe" /\ bytes = o.bulkWrite /\ then = "writeIMU"
           \/ phase = "writeIMU" /\ what = "writeIMU" /\ then = "readPipe"
                /\ bytes = IF o.bulkIMU THEN {pkt} ELSE {}
    PROVE  UInv'
<1>1. /\ UNCHANGED <<o, todo, handle, timed, claimed, pipes, data, hits, total, expired, truth>>
      /\ said' = {} /\ phase \in {"writePipe", "writeIMU"} /\ what \in OnPipes \ InRead
      /\ then \in {"writeIMU", "readPipe"}
  BY DEF Writing, OnPipes, InRead
<1>2. o.iface \in Int /\ o.bulkOut \in Int /\ o.iface >= 0
  BY <1>1, OptionsAre DEF UInv, Standing
<1>3. \/ phase' = then /\ wire' = wire
      \/ /\ phase' = "wait" /\ DOMAIN wire' = DOMAIN NoTransfer /\ wire'.in = what
         /\ wire'.bytes \in bytes /\ wire'.address = o.bulkOut % 256 /\ wire'.ms \in 1..Width - 1
  <2>1. CASE bytes = {} \/ findPipe(pipes, o.bulkOut) = {}
    BY <2>1 DEF Writing
  <2>2. CASE ~(bytes = {} \/ findPipe(pipes, o.bulkOut) = {})
    <3>1. PICK b \in bytes, p \in findPipe(pipes, o.bulkOut) : OnPipe(what, p, b)
      BY <2>2 DEF Writing
    <3>2. QED
      BY <1>1, <1>2, <3>1, OnPipeIs
  <2>3. QED
    BY <2>1, <2>2
<1>4. handle # "closed" /\ wire.in \notin Functions0
  BY <1>1, <1>2 DEF UInv, Standing, UPhases, Functions0
<1>5. wire' = wire \/ wire'.in \in OnPipes
  BY <1>1, <1>3
<1>6. what \notin Functions0 /\ what # "none"
  BY <1>1 DEF OnPipes, InRead, Functions0
<1>7. Standing'
  <2>1. Asked' = Asked /\ NoTransfer' = NoTransfer
    BY <1>1 DEF Asked
  <2>2. QED
    BY <1>1, <1>2, <1>3, <1>4, <1>6, <2>1 DEF UInv, Standing, UPhases, OnPipes, InRead, Functions0
<1>8. Asking' /\ Counting'
  BY <1>1, <1>4, <1>5, PipesAsk
<1>9. OnItsPipe'
  <2>1. Listed(claimed.endpoints)' = Listed(claimed.endpoints)
    BY <1>1 DEF Listed
  <2>2. wire'.in \in {"writePipe", "writeIMU"} =>
           /\ wire'.address = o.bulkOut % 256
           /\ wire'.bytes \in o.bulkWrite \/ (o.bulkIMU /\ wire'.bytes = pkt)
    BY <1>3 DEF UInv, OnItsPipe
  <2>3. wire'.in \in InRead => wire' = wire
    BY <1>1, <1>3
  <2>4. QED
    BY <1>1, <2>1, <2>2, <2>3 DEF UInv, OnItsPipe
<1>10. VerdictsAreFounded'
  BY <1>1, QuietFounded
<1>11. QED
  BY <1>7, <1>8, <1>9, <1>10 DEF UInv

LEMMA WrittenOk == UInv /\ Written => UInv'
<1> SUFFICES ASSUME UInv, Written
             PROVE  UInv'
  OBVIOUS
<1>1. PICK code \in CodesTO :
        /\ wire' = [wire EXCEPT !.code = code]
        /\ said' = IF code = "Success" THEN {[says |-> "WRITE", bytes |-> wire.bytes]} ELSE {}
  BY DEF Written
<1>2. /\ UNCHANGED <<o, todo, handle, timed, claimed, pipes, data, hits, total, expired, truth>>
      /\ phase = "wait" /\ wire.in \in {"writePipe", "writeIMU"} /\ phase' \in {"writeIMU", "readPipe"}
  BY DEF Written
<1>3. /\ DOMAIN wire' = DOMAIN wire /\ wire'.in = wire.in /\ wire'.ms = wire.ms
      /\ wire'.bytes = wire.bytes /\ wire'.address = wire.address /\ wire'.code = code
  BY <1>1 DEF UInv, Standing, NoTransfer
<1>4. o.iface \in Int /\ o.iface >= 0 /\ handle # "closed" /\ wire.in \notin Functions0
  <2>1. o.iface \in Int /\ wire.in \notin Functions0 /\ wire.in # "none"
    BY <1>2, OptionsAre DEF UInv, Standing, Functions0
  <2>2. QED
    BY <2>1 DEF UInv, Standing
<1>5. Standing'
  <2>1. Asked' = Asked /\ NoTransfer' = NoTransfer
    BY <1>2 DEF Asked
  <2>2. QED
    BY <1>2, <1>3, <1>4, <2>1 DEF UInv, Standing, UPhases, OnPipes, InRead
<1>6. Asking' /\ Counting'
  <2>1. wire'.in \in OnPipes
    BY <1>2, <1>3 DEF OnPipes, InRead
  <2>2. QED
    BY <1>2, <1>4, <2>1, PipesAsk
<1>7. OnItsPipe'
  <2>1. Listed(claimed.endpoints)' = Listed(claimed.endpoints)
    BY <1>2 DEF Listed
  <2>2. QED
    BY <1>2, <1>3, <2>1 DEF UInv, OnItsPipe, InRead
<1>8. VerdictsAreFounded'
  <2>1. CASE code = "Success"
    <3>1. \A line \in said' : line.says = "WRITE" /\ line.bytes = wire'.bytes /\ wire'.code = "Success"
      BY <1>1, <1>3, <2>1
    <3>2. QED
      BY <3>1 DEF VerdictsAreFounded
  <2>2. CASE code # "Success"
    BY <1>1, <2>2, QuietFounded
  <2>3. QED
    BY <2>1, <2>2
<1>9. QED
  BY <1>5, <1>6, <1>7, <1>8 DEF UInv

LEMMA ReadPipeOk == UInv /\ ReadPipe => UInv'
<1> SUFFICES ASSUME UInv, ReadPipe
             PROVE  UInv'
  OBVIOUS
<1>1. /\ UNCHANGED <<o, todo, handle, timed, claimed, pipes, hits, total, expired, truth>>
      /\ phase = "readPipe"
  BY DEF ReadPipe
<1>2. o.iface \in Int /\ o.bulkRead \in Int /\ o.iface >= 0
  BY <1>1, OptionsAre DEF UInv, Standing, OnPipes, InRead
<1>3. handle # "closed" /\ wire.in \notin Functions0
  BY <1>1, <1>2 DEF UInv, Standing, UPhases, Functions0
<1>4. \/ /\ phase' = "done" /\ UNCHANGED <<wire, data>>
         /\ said' = {} \/ (said' = {[says |-> "empty"]} /\ ~total)
      \/ /\ phase' = "wait" /\ DOMAIN wire' = DOMAIN NoTransfer /\ wire'.in \in {"readPipe", "readInterrupt"}
         /\ wire'.address = o.bulkRead % 256 /\ wire'.ms \in 1..Width - 1
         /\ data' \in Seq(Octet) /\ said' = {}
  <2>1. CASE o.bulkRead = 0 \/ findPipe(pipes, o.bulkRead) = {}
    BY <2>1 DEF ReadPipe
  <2>2. CASE ~(o.bulkRead = 0 \/ findPipe(pipes, o.bulkRead) = {}) /\ expired
    BY <2>2 DEF ReadPipe
  <2>3. CASE ~(o.bulkRead = 0 \/ findPipe(pipes, o.bulkRead) = {}) /\ ~expired
    <3>1. PICK p \in findPipe(pipes, o.bulkRead), way \in {"readPipe", "readInterrupt"} :
             /\ data' = Zeros(IF p.MaxPacket = 0 THEN 512 ELSE p.MaxPacket)
             /\ OnPipe(way, p, <<>>)
      BY <2>3 DEF ReadPipe, Ways
    <3>2. said' = {}
      BY <2>3 DEF ReadPipe
    <3>3. data' \in Seq(Octet)
      <4>1. (IF p.MaxPacket = 0 THEN 512 ELSE p.MaxPacket) \in Nat
        BY <1>2, PipeIsFound
      <4>2. QED
        BY <3>1, <4>1, ZerosAre
    <3>4. way \in OnPipes
      BY DEF OnPipes, InRead
    <3>5. QED
      BY <1>2, <3>1, <3>2, <3>3, <3>4, OnPipeIs
  <2>4. QED
    BY <2>1, <2>2, <2>3
<1>5. Standing'
  <2>1. Asked' = Asked /\ NoTransfer' = NoTransfer
    BY <1>1 DEF Asked
  <2>2. "readPipe" \notin Functions0 /\ "readInterrupt" \notin Functions0
    BY DEF Functions0
  <2>3. QED
    BY <1>1, <1>2, <1>3, <1>4, <2>1, <2>2 DEF UInv, Standing, UPhases, OnPipes, InRead
<1>6. Asking' /\ Counting'
  <2>1. wire' = wire \/ wire'.in \in OnPipes
    BY <1>4 DEF OnPipes, InRead
  <2>2. QED
    BY <1>1, <1>3, <2>1, PipesAsk
<1>7. OnItsPipe'
  <2>1. Listed(claimed.endpoints)' = Listed(claimed.endpoints)
    BY <1>1 DEF Listed
  <2>2. QED
    BY <1>1, <1>4, <2>1 DEF UInv, OnItsPipe, InRead
<1>8. VerdictsAreFounded'
  <2>1. CASE said' = {}
    BY <2>1, QuietFounded
  <2>2. CASE said' = {[says |-> "empty"]} /\ ~total
    <3>1. truth'.came \subseteq {"reap", "missed"}
      BY <1>1, <2>2 DEF UInv, Standing
    <3>2. \A line \in said' : line.says = "empty"
      BY <2>2
    <3>3. QED
      BY <3>1, <3>2 DEF VerdictsAreFounded
  <2>3. QED
    BY <1>4, <2>1, <2>2
<1>9. QED
  BY <1>5, <1>6, <1>7, <1>8 DEF UInv

\* Read returns: what is printed is what the device sent, and what is not is either
\* nothing or given up by an aborted read.
LEMMA ReadReturnsOk ==
    ASSUME UInv, phase = "wait", wire.in \in InRead,
           NEW code, NEW sent \in Seq(Octet), NEW memory, NEW n \in Nat,
           ReadReturns(code, sent, memory, n),
           n > 0 => code = "Success" /\ SubSeq(memory, 1, n) = sent,
           n > 0 <=> (sent # <<>> /\ wire.in \notin {"reap", "missed"})
    PROVE  UInv'
<1>1. /\ UNCHANGED <<o, todo, handle, timed, claimed, pipes, data, hits, expired>>
      /\ wire' = [wire EXCEPT !.code = code, !.bytes = sent]
      /\ truth' = [truth EXCEPT !.came = IF sent = <<>> THEN @ ELSE @ \cup {wire.in}]
      /\ said' = IF n > 0 THEN {[says |-> "READ", bytes |-> SubSeq(memory, 1, n)]} ELSE {}
      /\ total' = (total \/ n > 0)
      /\ phase' \in {"done", "readPipe"}
  BY DEF ReadReturns
<1>2. /\ DOMAIN wire' = DOMAIN wire /\ wire'.in = wire.in /\ wire'.ms = wire.ms
      /\ wire'.bytes = sent /\ wire'.address = wire.address /\ wire'.code = code
  BY <1>1 DEF UInv, Standing, NoTransfer
<1>3. /\ DOMAIN truth' = DOMAIN truth /\ truth'.sang = truth.sang /\ truth'.coding = truth.coding
      /\ truth'.lively = truth.lively /\ truth'.took = truth.took
      /\ truth'.came = IF sent = <<>> THEN truth.came ELSE truth.came \cup {wire.in}
  BY <1>1 DEF UInv, Standing
<1>4. /\ total' = ~(truth'.came \subseteq {"reap", "missed"}) /\ total' \in BOOLEAN
      /\ truth'.came \subseteq InRead
  <2>1. total = ~(truth.came \subseteq {"reap", "missed"}) /\ truth.came \subseteq InRead
    BY DEF UInv, Standing
  <2>2. CASE n > 0
    <3>1. sent # <<>> /\ wire.in \notin {"reap", "missed"}
      BY <2>2
    <3>2. total' = TRUE
      BY <1>1, <2>2
    <3>3. truth'.came = truth.came \cup {wire.in}
      BY <1>3, <3>1
    <3>4. QED
      BY <2>1, <3>1, <3>2, <3>3
  <2>3. CASE ~(n > 0)
    <3>1. sent = <<>> \/ wire.in \in {"reap", "missed"}
      BY <2>3
    <3>2. total' = total /\ total \in BOOLEAN
      BY <1>1, <2>1, <2>3
    <3>3. truth'.came = truth.came \/ truth'.came = truth.came \cup {wire.in}
      BY <1>3
    <3>4. truth'.came \subseteq {"reap", "missed"} <=> truth.came \subseteq {"reap", "missed"}
      BY <1>3, <3>1, <3>3
    <3>5. truth'.came \subseteq InRead
      BY <2>1, <3>3
    <3>6. QED
      BY <2>1, <3>2, <3>4, <3>5
  <2>4. QED
    BY <2>2, <2>3
<1>5. o.iface \in Int /\ o.iface >= 0 /\ handle # "closed" /\ wire.in \notin Functions0
  <2>1. o.iface \in Int /\ wire.in \notin Functions0 /\ wire.in # "none"
    BY OptionsAre DEF UInv, Standing, Functions0, InRead
  <2>2. QED
    BY <2>1 DEF UInv, Standing
<1>6. Standing'
  <2>1. Asked' = Asked /\ NoTransfer' = NoTransfer
    BY <1>1 DEF Asked
  <2>2. QED
    BY <1>1, <1>2, <1>3, <1>4, <1>5, <2>1 DEF UInv, Standing, UPhases, OnPipes, InRead
<1>7. Asking'
  <2>1. Allowed' = Allowed
    BY <1>1, AllowedStays
  <2>2. QED
    BY <1>1, <1>2, <1>3, <1>5, <2>1 DEF UInv, Asking, Functions0
<1>8. Counting'
  BY <1>1, <1>3 DEF UInv, Counting
<1>9. OnItsPipe'
  <2>1. Listed(claimed.endpoints)' = Listed(claimed.endpoints)
    BY <1>1 DEF Listed
  <2>2. QED
    BY <1>1, <1>2, <2>1 DEF UInv, OnItsPipe, InRead
<1>10. VerdictsAreFounded'
  <2>1. CASE n > 0
    <3>1. said' = {[says |-> "READ", bytes |-> sent]} /\ code = "Success"
      BY <1>1, <2>1
    <3>2. \A line \in said' : line.says = "READ" /\ line.bytes = wire'.bytes /\ wire'.code = "Success"
      BY <1>2, <3>1
    <3>3. QED
      BY <3>2 DEF VerdictsAreFounded
  <2>2. CASE ~(n > 0)
    BY <1>1, <2>2, QuietFounded
  <2>3. QED
    BY <2>1, <2>2
<1>11. QED
  BY <1>6, <1>7, <1>8, <1>9, <1>10 DEF UInv

\* What fits of an answer into the buffer of a read.
LEMMA FilledIs ==
    ASSUME UInv, wire.in \in InRead, NEW bytes \in Seq(Octet)
    PROVE  /\ Filled(bytes) \in Seq(Octet) /\ Len(Filled(bytes)) \in Nat
           /\ Len(Filled(bytes)) <= Len(data) /\ Len(data) \in Nat
           /\ Len(Filled(bytes)) > 0 <=> Filled(bytes) # <<>>
           /\ SubSeq(Filled(bytes), 1, Len(Filled(bytes))) = Filled(bytes)
<1>1. data \in Seq(Octet)
  BY DEF UInv, OnItsPipe
<1>2. /\ Filled(bytes) \in Seq(Octet) /\ Len(Filled(bytes)) \in Nat
      /\ Len(Filled(bytes)) <= Len(data) /\ Len(data) \in Nat
  BY <1>1 DEF Filled, Shorter
<1> DEFINE sent == Filled(bytes)
<1> HIDE DEF sent
<1>3. sent \in Seq(Octet) => (Len(sent) > 0 <=> sent # <<>>) /\ SubSeq(sent, 1, Len(sent)) = sent
  OBVIOUS
<1>4. QED
  BY <1>2, <1>3 DEF sent

LEMMA AnswersAre == \A bytes \in Answers \cup {<<>>} : bytes \in Seq(Octet)
<1>1. \A bytes \in Answers : bytes \in Seq(Octet)
  BY DeviceAssumption DEF Octet
<1>2. <<>> \in Seq(Octet)
  OBVIOUS
<1>3. QED
  BY <1>1, <1>2

LEMMA ReadDoneOk == UInv /\ ReadDone => UInv'
<1> SUFFICES ASSUME UInv, ReadDone
             PROVE  UInv'
  OBVIOUS
<1> DEFINE Sent(code, bytes) == IF code = "Success" THEN Filled(bytes) ELSE <<>>
           Memory(code, bytes) == IF code = "Success" THEN Filled(bytes) ELSE [j \in DOMAIN data |-> 90]
           Count(code, bytes) == darwinReadPipe(code, Len(Memory(code, bytes)))
<1>1. PICK code \in CodesTO, bytes \in Answers :
        ReadReturns(code, Sent(code, bytes), Memory(code, bytes), Count(code, bytes))
  BY DEF ReadDone
<1> HIDE DEF Sent, Memory, Count
<1>2. phase = "wait" /\ wire.in = "readPipe" /\ wire.in \in InRead
  BY DEF ReadDone, InRead
<1>3. bytes \in Seq(Octet)
  BY AnswersAre
<1>4. CASE code = "Success"
  <2> DEFINE sent == Filled(bytes)
  <2>1. Sent(code, bytes) = sent /\ Memory(code, bytes) = sent
    BY <1>4 DEF Sent, Memory
  <2>2. Count(code, bytes) = Shorter(Len(sent), Len(data))
    BY <1>4, <2>1 DEF Count, darwinReadPipe
  <2>3. /\ sent \in Seq(Octet) /\ Len(sent) \in Nat /\ Len(sent) <= Len(data) /\ Len(data) \in Nat
        /\ Len(sent) > 0 <=> sent # <<>>
        /\ SubSeq(sent, 1, Len(sent)) = sent
    BY <1>2, <1>3, FilledIs
  <2> HIDE DEF sent
  <2>4. Count(code, bytes) = Len(sent)
    BY <2>2, <2>3 DEF Shorter
  <2>5. ReadReturns(code, sent, sent, Len(sent))
    BY <1>1, <2>1, <2>4
  <2>6. QED
    BY <1>2, <1>4, <2>3, <2>5, ReadReturnsOk
<1>5. CASE code # "Success"
  <2>1. Sent(code, bytes) = <<>> /\ Count(code, bytes) = 0
    BY <1>5 DEF Sent, Count, darwinReadPipe
  <2>2. ReadReturns(code, <<>>, Memory(code, bytes), 0) /\ <<>> \in Seq(Octet)
    BY <1>1, <2>1
  <2>3. 0 \in Nat /\ ~(0 > 0)
    OBVIOUS
  <2>4. QED
    BY <1>2, <2>2, <2>3, ReadReturnsOk
<1>6. QED
  BY <1>4, <1>5

LEMMA InterruptDoneOk == UInv /\ InterruptDone => UInv'
<1> SUFFICES ASSUME UInv, InterruptDone
             PROVE  UInv'
  OBVIOUS
<1>1. phase = "wait" /\ wire.in = "readInterrupt" /\ wire.in \in InRead
  BY DEF InterruptDone, InRead
<1>2. ASSUME NEW bytes \in Answers,
             ReadReturns("Success", Filled(bytes), Filled(bytes), Len(Filled(bytes)))
      PROVE  UInv'
  <2>1. bytes \in Seq(Octet)
    BY AnswersAre
  <2>2. QED
    BY <1>1, <1>2, <2>1, FilledIs, ReadReturnsOk
<1>3. ASSUME ReadReturns("Stalled", <<>>, <<>>, 0)
      PROVE  UInv'
  <2>1. <<>> \in Seq(Octet) /\ 0 \in Nat /\ ~(0 > 0)
    OBVIOUS
  <2>2. QED
    BY <1>1, <1>3, <2>1, ReadReturnsOk
<1>4. QED
  BY <1>2, <1>3 DEF InterruptDone

LEMMA ReapOk == UInv /\ (Reap \/ ReapMissed) => UInv'
<1> SUFFICES ASSUME UInv, Reap \/ ReapMissed
             PROVE  UInv'
  OBVIOUS
<1>1. phase = "wait" /\ wire.in \in {"reap", "missed"} /\ wire.in \in InRead
  BY DEF Reap, ReapMissed, InRead
<1>2. PICK bytes \in Answers \cup {<<>>} : ReadReturns("Timeout", Filled(bytes), <<>>, 0)
  BY DEF Reap, ReapMissed, GivenUp
<1>3. bytes \in Seq(Octet)
  BY AnswersAre
<1>4. Filled(bytes) \in Seq(Octet)
  BY <1>1, <1>3, FilledIs
<1>5. QED
  BY <1>1, <1>2, <1>4, ReadReturnsOk

LEMMA AbortOk == UInv /\ Abort => UInv'
<1> SUFFICES ASSUME UInv, Abort
             PROVE  UInv'
  OBVIOUS
<1>1. /\ UNCHANGED <<o, phase, todo, handle, timed, claimed, pipes, data, hits, total, expired, said, truth>>
      /\ phase = "wait" /\ wire.in = "readInterrupt"
  BY DEF Abort
<1>2. PICK then \in {"reap", "missed"} : wire' = [wire EXCEPT !.in = then]
  BY DEF Abort
<1>3. /\ DOMAIN wire' = DOMAIN wire /\ wire'.in = then /\ wire'.ms = wire.ms
      /\ wire'.bytes = wire.bytes /\ wire'.address = wire.address /\ wire'.code = wire.code
      /\ wire'.setup = wire.setup
  BY <1>2 DEF UInv, Standing, NoTransfer
<1>4. /\ wire.in \in InRead /\ then \in InRead /\ InRead \subseteq OnPipes
      /\ wire.in \notin Functions0 /\ then \notin Functions0 /\ wire.in # "none" /\ then # "none"
      /\ wire.in \notin {"writePipe", "writeIMU"} /\ then \notin {"writePipe", "writeIMU"}
  BY <1>1 DEF InRead, OnPipes, Functions0
<1>5. Standing'
  <2>1. Asked' = Asked /\ NoTransfer' = NoTransfer
    BY <1>1 DEF Asked
  <2>2. QED
    BY <1>1, <1>3, <1>4, <2>1 DEF UInv, Standing
<1>6. Asking' /\ Counting'
  BY <1>1, <1>3, <1>4, PipesAsk
<1>7. OnItsPipe'
  <2>1. Listed(claimed.endpoints)' = Listed(claimed.endpoints)
    BY <1>1 DEF Listed
  <2>2. QED
    BY <1>1, <1>3, <1>4, <2>1 DEF UInv, OnItsPipe
<1>8. VerdictsAreFounded'
  <2> SUFFICES ASSUME NEW line \in said'
               PROVE  /\ line.says = "PASS" => Len(wire'.bytes) = 18 /\ SubSeq(wire'.bytes, 9, 12) = Registry
                      /\ line.says \in {"ANSWERED", "READ", "WRITE"} => line.bytes = wire'.bytes /\ wire'.code = "Success"
                      /\ line.says = "ABORTED" => ~truth'.sang
                      /\ line.says = "sum" => truth'.sang
                            /\ line.hits = Cardinality({s \in truth'.lively : SamePass(s, wire'.setup)})
                      /\ line.says = "ALL ZERO" => wire'.bytes = Zeros(LineCodingSize)
                      /\ line.says = "coding" => wire'.bytes = LineCodingBytes(line.coding)
                      /\ line.says = "DECODED" => IsIMU(wire'.bytes) /\ line.angles = ParseIMU(wire'.bytes)
                            /\ truth'.took = [wire'.setup EXCEPT !.Direction = Out]
                      /\ line.says = "empty" => truth'.came \subseteq {"reap", "missed"}
    BY DEF VerdictsAreFounded
  <2>1. line \in said /\ truth' = truth
    BY <1>1
  <2>2. VerdictsAreFounded
    BY DEF UInv
  <2>3. QED
    BY <1>3, <2>1, <2>2, ZenonT(40) DEF VerdictsAreFounded
<1>9. QED
  BY <1>5, <1>6, <1>7, <1>8 DEF UInv

LEMMA ProbeStep == UInv /\ [UNext]_uvars => UInv'
<1> SUFFICES ASSUME UInv, [UNext]_uvars
             PROVE  UInv'
  OBVIOUS
<1>1. CASE Begin
  BY <1>1, BeginOk
<1>2. CASE Open \/ OpenSeize
  BY <1>2, OpenOk
<1>3. CASE Control
  BY <1>3, ControlOk
<1>4. CASE Finish \/ Pipes \/ TimeIsOver
  BY <1>4, QuietOk
<1>5. CASE Take \/ Answer \/ Refuse \/ Deadline
  <2>1. PICK code \in Codes, bytes \in Seq(Octet) : Replied(code, bytes)
    BY <1>5, Replies DEF UInv
  <2>2. QED
    BY <2>1, RepliedStanding, RepliedAsking, RepliedCounting, RepliedOnItsPipe, RepliedFounded DEF UInv
<1>6. CASE WritePipe
  BY <1>6, WritingOk DEF WritePipe
<1>7. CASE WriteIMU
  BY <1>7, WritingOk DEF WriteIMU
<1>8. CASE Written
  BY <1>8, WrittenOk
<1>9. CASE ReadPipe
  BY <1>9, ReadPipeOk
<1>10. CASE ReadDone
  BY <1>10, ReadDoneOk
<1>11. CASE InterruptDone
  BY <1>11, InterruptDoneOk
<1>12. CASE Abort
  BY <1>12, AbortOk
<1>13. CASE Reap \/ ReapMissed
  BY <1>13, ReapOk
<1>14. CASE UNCHANGED uvars
  <2>1. UNCHANGED <<o, phase, todo, handle, timed, claimed, pipes, wire, data, hits, total, expired, said, truth>>
    BY <1>14 DEF uvars
  <2>2. Standing'
    <3>1. Asked' = Asked /\ NoTransfer' = NoTransfer
      BY <2>1 DEF Asked
    <3>2. QED
      BY <2>1, <3>1 DEF UInv, Standing
  <2>3. Asking' /\ Counting'
    BY <2>1, QuietAsking
  <2>4. OnItsPipe'
    BY <2>1, QuietOnItsPipe
  <2>5. VerdictsAreFounded'
    BY <2>1, QuietFounded
  <2>6. QED
    BY <2>2, <2>3, <2>4, <2>5 DEF UInv
<1>15. QED
  BY <1>1, <1>2, <1>3, <1>4, <1>5, <1>6, <1>7, <1>8, <1>9, <1>10, <1>11, <1>12, <1>13, <1>14
  DEF UNext, Goes

\* The invariants of the run, from the inductive one.
LEMMA ProbeInvariants == UInv => UTypeOK /\ OnlyWhatWasAsked /\ VerdictsAreFounded
<1> SUFFICES ASSUME UInv
             PROVE  UTypeOK /\ OnlyWhatWasAsked /\ VerdictsAreFounded
  OBVIOUS
<1>1. o \in Options /\ o.maxReq \in Nat /\ o.iface \in Int /\ todo \in Allowed
  BY OptionsAre DEF UInv, Standing, Asking
<1>2. UTypeOK
  <2>1. hits \in 0..o.maxReq + 1
    <3>1. CASE todo.in = "sweep"
      <4>1. todo.setup.Request \in 0..o.maxReq
        BY <1>1, <3>1, KindsOfStep, SweepGoesOn
      <4>2. hits \in 0..todo.setup.Request
        BY <3>1 DEF UInv, Counting
      <4>3. QED
        BY <1>1, <4>1, <4>2
    <3>2. CASE todo.in # "sweep"
      BY <1>1, <3>2 DEF UInv, Counting
    <3>3. QED
      BY <3>1, <3>2
  <2>2. QED
    BY <2>1 DEF UInv, Standing, UPhases, UTypeOK
<1>3. OnlyWhatWasAsked
  <2>1. handle = "seized" => o.seize
    BY DEF UInv, Standing
  <2>2. /\ handle # "closed" => Asked \/ o.iface >= 0
        /\ handle # "closed" /\ o.iface >= 0 => claimed.Number = o.iface % 256
    BY DEF UInv, Standing
  <2>3. ASSUME OnEndpoint0
        PROVE  /\ handle # "closed" /\ o.iface < 0
               /\ wire.setup.Direction = Out => IF wire.setup.Type = Class THEN o.cdcSet # 0 ELSE o.imu
               /\ wire.setup.Type = Class => o.cdc \/ o.cdcSet # 0
               /\ wire.setup.Type = Vendor => o.imu \/ (o.scan /\ truth.sang)
    <3> DEFINE s == Step(wire.in, wire.setup)
    <3>1. wire.in \in Functions0 /\ s \in Allowed /\ s.in = wire.in /\ s.setup = wire.setup
      BY <2>3 DEF OnEndpoint0, Functions0, UInv, Asking, Step
    <3>2. handle # "closed" /\ o.iface < 0
      BY <3>1 DEF UInv, Standing, Functions0
    <3> HIDE DEF s
    <3>3. wire.in = "sweep" => truth.sang
      BY DEF UInv, Asking
    <3>4. CASE wire.in = "controlCheck"
      BY <3>1, <3>2, <3>4, KindsOfStep DEF GetDescriptor, Setup, In, Out, Standard, Class, Vendor
    <3>5. CASE wire.in = "canary"
      BY <3>1, <3>2, <3>5, KindsOfStep DEF GetStatus, Setup, In, Out, Standard, Class, Vendor
    <3>6. CASE wire.in = "sweep"
      <4>1. \A t \in Tries : t.setup.Direction = In /\ t.setup.Type = Vendor
        BY DEF Tries, Try, Step, Setup
      <4>2. s \in Tries /\ o.scan
        BY <3>1, <3>6, KindsOfStep
      <4>3. QED
        BY <3>1, <3>2, <3>3, <3>6, <4>1, <4>2 DEF In, Out, Class, Vendor
    <3>7. CASE wire.in = "cdcCheck"
      <4>1. \A t \in Gets : t.setup.Direction = In /\ t.setup.Type = Class
        BY DEF Gets, Step, GetLineCoding, Setup
      <4>2. \A t \in Sets : t.setup.Type = Class
        BY DEF Sets, Step, SetLineCoding, SetControlLineState, Setup
      <4>3. (s \in Gets /\ (o.cdc \/ o.cdcSet # 0)) \/ (s \in Sets /\ o.cdcSet # 0)
        BY <3>1, <3>7, KindsOfStep
      <4>4. QED
        BY <3>1, <3>2, <4>1, <4>2, <4>3 DEF In, Out, Class, Vendor
    <3>8. CASE wire.in = "imuAttempt"
      <4>1. \A t \in Wakes \cup Hears : t.setup.Type = Vendor
        BY DEF Wakes, Hears, Send, Step, Setup
      <4>2. s \in Wakes \cup Hears /\ o.imu
        BY <3>1, <3>8, KindsOfStep
      <4>3. QED
        BY <3>1, <3>2, <4>1, <4>2 DEF Class, Vendor
    <3>9. QED
      BY <3>1, <3>4, <3>5, <3>6, <3>7, <3>8 DEF Functions0
  <2>4. /\ wire.in \in {"writePipe", "writeIMU"} =>
             /\ wire.address = o.bulkOut % 256
             /\ wire.bytes \in o.bulkWrite \/ (o.bulkIMU /\ wire.bytes = pkt)
        /\ wire.in \in InRead => wire.address = o.bulkRead % 256
    BY DEF UInv, OnItsPipe
  <2>5. QED
    BY <2>1, <2>2, <2>3, <2>4 DEF OnlyWhatWasAsked
<1>4. QED
  BY <1>2, <1>3 DEF UInv

\* usbprobe does nothing that a flag did not ask for: it opens, seizes and claims what
\* it was told to, sends requests to the device only for -imu and -cdc-set, vendor
\* requests only behind a canary that was answered or for -imu, and what it reads or
\* writes through a pipe ref goes to the endpoint that was named (report, ifaceReport).
THEOREM NothingUnasked == USpec => []OnlyWhatWasAsked
<1>1. UInv => OnlyWhatWasAsked
  BY ProbeInvariants
<1>2. QED
  BY <1>1, ProbeInit, ProbeStep, PTL DEF USpec

\* Every verdict it prints has its ground in what went over the wire, whatever the
\* device answers, stalls, half-answers or lets time out, whatever an aborted interrupt
\* read gives up, and however many requests a sweep counts (controlCheck, sweep,
\* cdcCheck, imuAttempt, readPipe).
THEOREM VerdictsHold == USpec => []VerdictsAreFounded
<1>1. UInv => VerdictsAreFounded
  BY ProbeInvariants
<1>2. QED
  BY <1>1, ProbeInit, ProbeStep, PTL DEF USpec
=============================================================================
