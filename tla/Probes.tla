------------------------------- MODULE Probes -------------------------------
(***************************************************************************)
(* The three probe commands, the repository's own users of its packages.   *)
(* A process is one of them and goes through its packages once: hidprobe   *)
(* enumerates HID devices, usbprobe decodes a device's configuration and   *)
(* then, whatever that brought, asks the device what its options say,      *)
(* serialprobe talks to a device through a port. The fourth program is the *)
(* one package viture is for, which speaks to a headset of the current     *)
(* generation.                                                             *)
(***************************************************************************)
EXTENDS HidEnumerate, Descriptors, UsbProbe, SerialProbe, Beast

vars == <<evars, dvars, uvars, svars, bvars>>

\* Every command can be started, and a pseudo-terminal makes something of what is written.
ASSUME CommandsAssumption == Options # {} /\ Echoes # {}

\* The parts of the program that a command has no use for have nothing to do.
NoEnumeration ==
    /\ filter = (CHOOSE f \in Filters : TRUE) /\ attached = {}
    /\ step = "done"
    /\ dict = {} /\ refs = {} /\ retained = {} /\ held = {}
    /\ listed = {} /\ kept = {} /\ opened = {} /\ refused = FALSE

NoConfiguration ==
    /\ meant = <<>> /\ block = <<>> /\ honest = FALSE
    /\ stage = "done" /\ off = 0 /\ raws = <<>> /\ k = 0 /\ c = NoConfig

NoSession ==
    /\ args = (CHOOSE l \in Lines : TRUE)
    /\ cell = 0 /\ tried = {} /\ pty = {} /\ open = NoPort /\ raised = {} /\ unset = FALSE /\ error = FALSE
    /\ stream = (CHOOSE e \in Echoes : TRUE) /\ arrived = 0 /\ gone = 0 /\ start = 0
    /\ place = "done" /\ round = ReadBack
    /\ buf = <<>> /\ late = FALSE /\ failed = FALSE
    /\ found = [r \in 1..2 |-> {}]

NoTransfers == o = (CHOOSE p \in Options : TRUE) /\ phase = "done" /\ todo = Over /\ Idle

NoExchange ==
    /\ panel \in {CHOOSE m \in Supported : TRUE} /\ call = (CHOOSE a \in Calls : a.do = "listen")
    /\ query = <<>> /\ frame = <<>> /\ told = <<>> /\ event = <<>>
    /\ turn = "over"

hidprobe    == EInit /\ NoConfiguration /\ NoTransfers /\ NoSession /\ NoExchange
usbprobe    == /\ NoEnumeration /\ NoSession /\ NoExchange
               /\ (DInit /\ NoTransfers) \/ (NoConfiguration /\ UInit)
serialprobe == NoEnumeration /\ NoConfiguration /\ NoTransfers /\ SInit /\ NoExchange
client      == NoEnumeration /\ NoConfiguration /\ NoTransfers /\ NoSession /\ BInit

Init == hidprobe \/ usbprobe \/ serialprobe \/ client

Next ==
    \/ ENext /\ UNCHANGED <<dvars, uvars, svars, bvars>>
    \/ DNext /\ UNCHANGED <<evars, uvars, svars, bvars>>
    \/ UNext /\ UNCHANGED <<evars, dvars, svars, bvars>>
    \/ SNext /\ UNCHANGED <<evars, dvars, uvars, bvars>>
    \/ BNext /\ UNCHANGED <<evars, dvars, uvars, svars>>

\* An enumeration and ParseConfig run to their end, and a Stream whose time is over
\* returns; UsbProbe and SerialProbe say what they rely on; a headset answers what it
\* is asked.
Fairness == WF_evars(ENext) /\ WF_dvars(DNext) /\ UFairness /\ SFairness /\ WF_bvars(BNext)

Spec == Init /\ [][Next]_vars /\ Fairness

TypeOK == ETypeOK /\ DTypeOK /\ UTypeOK /\ STypeOK

\* Every program gets to its end: "the parser must say so rather than loop forever",
\* "a reader that cannot time out would turn this into a hang", "a probe that hangs
\* forever on the first unanswered vendor request is a probe that reports nothing".
\* It does so though a device may never say anything, except in a transfer to a
\* device that is too old for deadlines, and in an interrupt read that its abort has
\* missed (PipeHang).
ProbeEnds ==
    <>(/\ step = "done"
       /\ stage \in {"done", "bad"}
       /\ phase = "done" \/ (phase = "wait" /\ (~timed \/ wire.in = "missed"))
       /\ place = "done"
       /\ turn \in {"done", "over"})
=============================================================================
