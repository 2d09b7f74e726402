------------------------------- MODULE PipeRead -------------------------------
(***************************************************************************)
(* Reading a USB pipe with a timeout: InterfaceHandle.Read over            *)
(* darwinReadPipe and darwinReadInterrupt (package usb).                   *)
(*                                                                         *)
(* A bulk pipe is read by ReadPipeTO, which times out by itself. An        *)
(* interrupt pipe has only ReadPipe, which blocks until the device speaks: *)
(* a worker goroutine makes the call into C memory the caller owns, the    *)
(* caller waits for it or for a timer, and on the timer aborts the pipe    *)
(* and reaps the worker before it frees the memory.                        *)
(***************************************************************************)
CONSTANTS
    Reader,       \* the goroutines that call Read
    Pipe,         \* the pipes of one open interface
    Interrupt,    \* those whose transfer type is interrupt
    SharePipe,    \* may two Read calls be on one pipe at a time?
    Prompt,       \* the readers whose worker reaches ReadPipe before the timer fires
    NoPipe, NoCode

ASSUME PipeAssumption == Interrupt \subseteq Pipe /\ NoPipe \notin Pipe
ASSUME ScheduleAssumption == SharePipe \in BOOLEAN /\ Prompt \subseteq Reader

\* What a native call or Read returns; "Stall" stands for every device error.
Code == {"Success", "Stall", "Aborted", "Timeout"}
ASSUME NoCodeAssumption == NoCode \notin Code

VARIABLES
    pipe,     \* the pipe a Read call is on, or NoPipe
    caller,   \* "idle", "bulk", "select", "abort" or "reap"
    worker,   \* its goroutine: "none", "spawned", "inflight" or "returned"
    rc,       \* what the worker's ReadPipe returned
    done,     \* the buffered channel: NoCode when empty
    fired,    \* the timer has fired
    bufs,     \* the C blocks data and size are allocated
    arrived,  \* the device's answer was written into them
    result    \* what the last Read returned

vars == <<pipe, caller, worker, rc, done, fired, bufs, arrived, result>>

TypeOK ==
    /\ pipe \in [Reader -> Pipe \cup {NoPipe}]
    /\ caller \in [Reader -> {"idle", "bulk", "select", "abort", "reap"}]
    /\ worker \in [Reader -> {"none", "spawned", "inflight", "returned"}]
    /\ rc \in [Reader -> Code \cup {NoCode}]
    /\ done \in [Reader -> Code \cup {NoCode}]
    /\ fired \in [Reader -> BOOLEAN]
    /\ bufs \in [Reader -> BOOLEAN]
    /\ arrived \in [Reader -> BOOLEAN]
    /\ result \in [Reader -> Code \cup {NoCode}]

Init ==
    /\ pipe = [r \in Reader |-> NoPipe]
    /\ caller = [r \in Reader |-> "idle"]
    /\ worker = [r \in Reader |-> "none"]
    /\ rc = [r \in Reader |-> NoCode]
    /\ done = [r \in Reader |-> NoCode]
    /\ fired = [r \in Reader |-> FALSE]
    /\ bufs = [r \in Reader |-> FALSE]
    /\ arrived = [r \in Reader |-> FALSE]
    /\ result = [r \in Reader |-> NoCode]

\* Read is called on p: pick the call the pipe type asks for and allocate. When
\* GetPipeProperties fails (asked = FALSE) the pipe is read as a bulk one. A
\* handle that is not open, an empty buffer and a failed allocation return
\* before anything is started, and change nothing.
Read(r, p, asked) ==
    /\ caller[r] = "idle"
    /\ SharePipe \/ \A q \in Reader : pipe[q] # p
    /\ pipe' = [pipe EXCEPT ![r] = p]
    /\ bufs' = [bufs EXCEPT ![r] = TRUE]
    /\ arrived' = [arrived EXCEPT ![r] = FALSE]
    /\ result' = [result EXCEPT ![r] = NoCode]
    /\ IF asked /\ p \in Interrupt
       THEN /\ caller' = [caller EXCEPT ![r] = "select"]
            /\ worker' = [worker EXCEPT ![r] = "spawned"]
            /\ fired' = [fired EXCEPT ![r] = FALSE]
       ELSE /\ caller' = [caller EXCEPT ![r] = "bulk"]
            /\ UNCHANGED <<worker, fired>>
    /\ UNCHANGED <<rc, done>>

\* The call returns code to its caller; the deferred frees run.
Return(r, code) ==
    /\ result' = [result EXCEPT ![r] = code]
    /\ caller' = [caller EXCEPT ![r] = "idle"]
    /\ pipe' = [pipe EXCEPT ![r] = NoPipe]
    /\ bufs' = [bufs EXCEPT ![r] = FALSE]

\* ReadPipeTO returns: the device answered, failed, or NAKed for the whole
\* timeout that IOKit itself keeps. An interrupt pipe is refused at once with
\* kIOReturnBadArgument, an error like any other here. Nobody aborts a bulk pipe.
BulkReturns(r, code) ==
    /\ caller[r] = "bulk"
    /\ code \in IF pipe[r] \in Interrupt THEN {"Stall"} ELSE {"Success", "Stall", "Timeout"}
    /\ arrived' = [arrived EXCEPT ![r] = code = "Success"]
    /\ Return(r, code)
    /\ UNCHANGED <<worker, rc, done, fired>>

-----------------------------------------------------------------------------
(* The worker goroutine and the kernel. *)

\* The worker gets to run and issues ReadPipe.
Issue(r) ==
    /\ worker[r] = "spawned"
    /\ worker' = [worker EXCEPT ![r] = "inflight"]
    /\ UNCHANGED <<pipe, caller, rc, done, fired, bufs, arrived, result>>

\* The device answers, or the transfer fails: ReadPipe returns to the worker.
Complete(r, code) ==
    /\ worker[r] = "inflight"
    /\ code \in {"Success", "Stall"}
    /\ worker' = [worker EXCEPT ![r] = "returned"]
    /\ rc' = [rc EXCEPT ![r] = code]
    /\ arrived' = [arrived EXCEPT ![r] = code = "Success"]
    /\ UNCHANGED <<pipe, caller, done, fired, bufs, result>>

\* The worker sends on its channel, which has room for one, and ends.
Send(r) ==
    /\ worker[r] = "returned"
    /\ done' = [done EXCEPT ![r] = rc[r]]
    /\ worker' = [worker EXCEPT ![r] = "none"]
    /\ rc' = [rc EXCEPT ![r] = NoCode]
    /\ UNCHANGED <<pipe, caller, fired, bufs, arrived, result>>

-----------------------------------------------------------------------------
(* The caller. *)

\* The timer fires, as early as the timeout allows: a timeout of zero fires at
\* once, before the worker has run.
TimerFires(r) ==
    /\ caller[r] = "select" /\ ~fired[r]
    /\ r \in Prompt => worker[r] # "spawned"
    /\ fired' = [fired EXCEPT ![r] = TRUE]
    /\ UNCHANGED <<pipe, caller, worker, rc, done, bufs, arrived, result>>

\* Bug: whatever the worker brought back is taken for data.
SelectDone_Success(r) ==
    /\ caller[r] = "select" /\ done[r] # NoCode
    /\ done' = [done EXCEPT ![r] = NoCode]
    /\ Return(r, "Success")
    /\ UNCHANGED <<worker, rc, fired, arrived>>

\* When both cases of the select are ready either one may be taken.
SelectDone(r) ==
    /\ caller[r] = "select" /\ done[r] # NoCode
    /\ done' = [done EXCEPT ![r] = NoCode]
    /\ Return(r, done[r])
    /\ UNCHANGED <<worker, rc, fired, arrived>>

SelectTimer(r) ==
    /\ caller[r] = "select" /\ fired[r]
    /\ caller' = [caller EXCEPT ![r] = "abort"]
    /\ UNCHANGED <<pipe, worker, rc, done, fired, bufs, arrived, result>>

\* Bug: the caller returns without reaping the worker it aborted.
Abort_Returns(r) ==
    /\ caller[r] = "abort"
    /\ LET hit == {q \in Reader : pipe[q] = pipe[r] /\ worker[q] = "inflight"} IN
          /\ worker' = [q \in Reader |-> IF q \in hit THEN "returned" ELSE worker[q]]
          /\ rc' = [q \in Reader |-> IF q \in hit THEN "Aborted" ELSE rc[q]]
    /\ Return(r, "Timeout")
    /\ UNCHANGED <<done, fired, arrived>>

\* Bug: the caller waits for its worker and does not abort the pipe.
Abort_Nothing(r) ==
    /\ caller[r] = "abort"
    /\ caller' = [caller EXCEPT ![r] = "reap"]
    /\ UNCHANGED <<pipe, worker, rc, done, fired, bufs, arrived, result>>

\* AbortPipe ends every ReadPipe in flight on the pipe. It does nothing to one
\* that has not been issued yet.
Abort(r) ==
    /\ caller[r] = "abort"
    /\ LET hit == {q \in Reader : pipe[q] = pipe[r] /\ worker[q] = "inflight"} IN
          /\ worker' = [q \in Reader |-> IF q \in hit THEN "returned" ELSE worker[q]]
          /\ rc' = [q \in Reader |-> IF q \in hit THEN "Aborted" ELSE rc[q]]
    /\ caller' = [caller EXCEPT ![r] = "reap"]
    /\ UNCHANGED <<pipe, done, fired, bufs, arrived, result>>

\* Bug: the call reports what the aborted worker brought back.
Reap_Reports(r) ==
    /\ caller[r] = "reap" /\ done[r] # NoCode
    /\ done' = [done EXCEPT ![r] = NoCode]
    /\ Return(r, done[r])
    /\ UNCHANGED <<worker, rc, fired, arrived>>

\* Whatever the worker brings back, the call reports a timeout.
Reap(r) ==
    /\ caller[r] = "reap" /\ done[r] # NoCode
    /\ done' = [done EXCEPT ![r] = NoCode]
    /\ Return(r, "Timeout")
    /\ UNCHANGED <<worker, rc, fired, arrived>>

-----------------------------------------------------------------------------
\* What happens to a call without the device saying anything.
Unaided(r) ==
    \/ Issue(r) \/ Send(r)
    \/ TimerFires(r) \/ SelectDone(r) \/ SelectTimer(r) \/ Abort(r) \/ Reap(r)
    \/ BulkReturns(r, "Timeout") \/ (pipe[r] \in Interrupt /\ BulkReturns(r, "Stall"))

Next ==
    \E r \in Reader :
        \/ \E p \in Pipe, asked \in BOOLEAN : Read(r, p, asked)
        \/ \E code \in Code : BulkReturns(r, code) \/ Complete(r, code)
        \/ Unaided(r)

Spec == Init /\ [][Next]_vars

\* Goroutines run, timers fire, ReadPipeTO keeps its timeout. Nothing obliges
\* the device to answer.
FairSpec == Spec /\ \A r \in Reader : WF_vars(Unaided(r))
-----------------------------------------------------------------------------
(* Properties *)

\* The memory a worker reads into outlives the worker ("Abort, then REAP",
\* darwinReadInterrupt), and no worker outlives its Read call.
BuffersOutliveWorker ==
    \A r \in Reader : worker[r] # "none" => bufs[r] /\ caller[r] # "idle"

\* The goroutine, the timer and the abort together are a read with a timeout: a
\* call is answered once, success comes with data that the device has sent into this
\* call's buffer, nothing arrives for a call that is over, and the abort, which is
\* this package's own means, is nobody's answer.
Timed == INSTANCE TimedRead WITH
    asking <- {r \in Reader : caller[r] # "idle"},
    sent   <- {r \in Reader : arrived[r]},
    answer <- result
ImplementsTimedRead == Timed!Spec

\* A timeout means the device said nothing ("kIOUSBTransactionTimeout means the
\* device NAKed for the whole timeout", InterfaceHandle.Read).
TimeoutMeansSilence == \A r \in Reader : result[r] = "Timeout" => ~arrived[r]

\* Read returns, even on a device that never answers, if its timeout leaves the
\* worker the time to start.
ReadReturns == \A r \in Prompt : (caller[r] # "idle") ~> (caller[r] = "idle")

\* And with any timeout ("leaving the caller with the same 'nothing arrived in N
\* milliseconds' answer a bulk read gives", darwinReadInterrupt).
EveryReadReturns == \A r \in Reader : (caller[r] # "idle") ~> (caller[r] = "idle")
=============================================================================
