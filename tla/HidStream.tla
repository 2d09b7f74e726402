------------------------------ MODULE HidStream ------------------------------
(***************************************************************************)
(* Streaming input reports from HID devices: package hid, the portable     *)
(* half (hid.go: Device.Open, Device.Close, Stream) composed with the      *)
(* macOS seam it calls (hid_darwin.go: darwinStream, inputCallback).       *)
(*                                                                         *)
(* Three kinds of actors run concurrently:                                 *)
(*   - the owner of each device, who opens and closes it;                  *)
(*   - goroutines that call Stream, each pinned to its own thread and      *)
(*     pumping that thread's run loop;                                     *)
(*   - the callers' contexts, which may be cancelled at any moment.        *)
(*                                                                         *)
(* Every access to state that two goroutines share is a step of its own:   *)
(* the open flag and the streaming counter of a Device, the registry, and  *)
(* IOKit's per-device callback slot and run-loop schedule.                 *)
(***************************************************************************)
EXTENDS Naturals, FiniteSets, Sequences

CONSTANTS
    Device,        \* the *Device handles Devices() returned
    Streamer,      \* the goroutines that call Stream
    MaxDevs,       \* bound: the longest devs argument of a Stream call
    CloseAnytime,  \* may Close run while a Stream call is being set up?
    Shared,        \* the devices that two Stream calls may hold at once
    None           \* no buffer registered, no registry entry

ASSUME MaxDevsAssumption == MaxDevs \in Nat \ {0}
ASSUME StreamerAssumption == IsFiniteSet(Streamer)
ASSUME DisciplineAssumption == CloseAnytime \in BOOLEAN /\ Shared \subseteq Device
ASSUME NoneAssumption == None \notin Streamer \X (1..MaxDevs)

VARIABLES
    \* Device, the Go struct.
    open,       \* d.open
    retained,   \* d.ref # 0: our retain on the IOKit object is not dropped yet
    streaming,  \* d.streaming, the atomic counter of live Stream calls
    closing,    \* how far the owner is inside Close
    \* IOKit and the C allocator.
    cb,         \* the report buffer registered with the input callback, or None
    sched,      \* the run loops (named by their goroutine) a device is scheduled on
    buf,        \* the allocated report buffers <<s, i>>: call s, i-th device
    \* hid_darwin.go, package level.
    registry,   \* sender -> <<s, i>>, the stream and index a report goes to, or None
    \* Each Stream call.
    devs,       \* its devs argument, << >> outside a call
    pc,         \* where it is
    k,          \* the index of the loop it is in
    cancelled   \* its context is done

handleVars == <<open, retained, closing>>
iokitVars  == <<cb, sched, buf>>
callVars   == <<devs, pc, k, cancelled>>
vars == <<handleVars, streaming, iokitVars, registry, callVars>>

Slots == Streamer \X (1..MaxDevs)

\* The argument lists a caller may pass. The same device may appear twice.
Args == UNION {[1..n -> Device] : n \in 1..MaxDevs}

Prologue == {"validate", "claim"}          \* hid.go, before every claim is made
Pumping  == {"check", "pump", "handler"}   \* everything is scheduled
Seam     == Pumping \cup {"install", "schedule", "detach", "unschedule",
                          "free", "forget"} \* inside darwinStream

Idx(s)   == 1..Len(devs[s])
Devs(s)  == {devs[s][i] : i \in Idx(s)}
Cur(s)   == devs[s][k[s]]                  \* the device the loop of s is at

\* Goroutine s has executed the Add(1) for its i-th device and not yet the
\* deferred Add(-1).
Claimed(s, i) ==
    /\ i \in Idx(s)
    /\ \/ pc[s] = "claim" /\ i < k[s]
       \/ pc[s] \in Seam
       \/ pc[s] = "unclaim" /\ i <= k[s]

Claims(d) == {c \in Slots : Claimed(c[1], c[2]) /\ devs[c[1]][c[2]] = d}

-----------------------------------------------------------------------------
(* What callers are assumed to do. With CloseAnytime TRUE and every device   *)
(* Shared nothing is assumed.                                                *)

\* Close(d) does not start while a Stream call naming d is still validating and
\* claiming. A caller who has seen that call deliver a report knows this; a
\* caller who joined it, as the comment on Close asks, knows more.
MayClose(d) ==
    CloseAnytime \/ \A s \in Streamer : ~(pc[s] \in Prologue /\ d \in Devs(s))

\* Stream(ds) is not called while one of ds is being closed, nor on a device
\* another call already holds, unless it is Shared.
MayCall(s, ds) ==
    \A i \in DOMAIN ds :
        /\ CloseAnytime \/ closing[ds[i]] = "no"
        /\ ds[i] \in Shared \/ \A t \in Streamer \ {s} : ds[i] \notin Devs(t)

-----------------------------------------------------------------------------
Init ==
    /\ open = [d \in Device |-> FALSE]
    /\ retained = [d \in Device |-> TRUE]
    /\ streaming = [d \in Device |-> 0]
    /\ closing = [d \in Device |-> "no"]
    /\ cb = [d \in Device |-> None]
    /\ sched = [d \in Device |-> {}]
    /\ buf = {}
    /\ registry = [d \in Device |-> None]
    /\ devs = [s \in Streamer |-> << >>]
    /\ pc = [s \in Streamer |-> "idle"]
    /\ k = [s \in Streamer |-> 1]
    /\ cancelled = [s \in Streamer |-> FALSE]

(***************************************************************************)
(* The owner of a device. Its calls are sequential: a Device is not        *)
(* offered for concurrent use by several owners. A failed Open, a          *)
(* repeated Open or Close, and a Close refused with ErrStreaming change    *)
(* nothing and are stuttering steps. Close from inside the handler of a    *)
(* stream is covered too: the owner may act while a handler runs.          *)
(***************************************************************************)
Open(d) ==
    /\ closing[d] = "no" /\ retained[d]
    /\ ~open[d]
    /\ open' = [open EXCEPT ![d] = TRUE]
    /\ UNCHANGED <<retained, closing, streaming, iokitVars, registry, callVars>>

\* Bug: Close forgets to ask whether a stream is live.
CloseCheck_Blind(d) ==
    /\ closing[d] = "no" /\ MayClose(d) /\ retained[d]
    /\ closing' = [closing EXCEPT ![d] = "checked"]
    /\ UNCHANGED <<open, retained, streaming, iokitVars, registry, callVars>>

\* Close reads the ref and loads the counter ...
CloseCheck(d) ==
    /\ closing[d] = "no" /\ MayClose(d)
    /\ retained[d]
    /\ streaming[d] = 0
    /\ closing' = [closing EXCEPT ![d] = "checked"]
    /\ UNCHANGED <<open, retained, streaming, iokitVars, registry, callVars>>

\* Bug: Close drops the retain before it closes.
CloseNative_ReleasesFirst(d) ==
    /\ closing[d] = "checked"
    /\ retained' = [retained EXCEPT ![d] = FALSE]
    /\ closing' = [closing EXCEPT ![d] = "closed"]
    /\ UNCHANGED <<open, streaming, iokitVars, registry, callVars>>

\* ... closes the native device if it was open, whatever code that returns ...
CloseNative(d) ==
    /\ closing[d] = "checked"
    /\ open' = [open EXCEPT ![d] = FALSE]
    /\ closing' = [closing EXCEPT ![d] = "closed"]
    /\ UNCHANGED <<retained, streaming, iokitVars, registry, callVars>>

\* ... and drops the retain.
CloseRelease(d) ==
    /\ closing[d] = "closed"
    /\ retained' = [retained EXCEPT ![d] = FALSE]
    /\ closing' = [closing EXCEPT ![d] = "no"]
    /\ UNCHANGED <<open, streaming, iokitVars, registry, callVars>>

(***************************************************************************)
(* Stream, the portable half.                                              *)
(***************************************************************************)
Goto(s, label, i) ==
    /\ pc' = [pc EXCEPT ![s] = label]
    /\ k' = [k EXCEPT ![s] = i]

\* The loop of s goes to its next index, or on to label after the last one.
NextIndex(s, label) ==
    IF k[s] < Len(devs[s]) THEN Goto(s, pc[s], k[s] + 1) ELSE Goto(s, label, 1)

\* The call returns.
Return(s) ==
    /\ Goto(s, "idle", 1)
    /\ devs' = [devs EXCEPT ![s] = << >>]
    /\ cancelled' = [cancelled EXCEPT ![s] = FALSE]

\* Stream is called, on a context that may already be done. (An empty list is
\* refused with ErrNoDevices before anything is read.)
Call(s, ds, done) ==
    /\ pc[s] = "idle" /\ MayCall(s, ds)
    /\ devs' = [devs EXCEPT ![s] = ds]
    /\ cancelled' = [cancelled EXCEPT ![s] = done]
    /\ Goto(s, "validate", 1)
    /\ UNCHANGED <<handleVars, streaming, iokitVars, registry>>

\* Bug: the deferred Add(-1) is in place before the claim is.
Validate_Undoes(s) ==
    /\ pc[s] = "validate"
    /\ IF open[Cur(s)]
       THEN NextIndex(s, "claim") /\ UNCHANGED <<devs, cancelled, streaming>>
       ELSE Return(s) /\ streaming' = [streaming EXCEPT ![Cur(s)] = @ - 1]
    /\ UNCHANGED <<handleVars, iokitVars, registry>>

\* One turn of the validation loop: a device that is not open ends the call
\* with ErrNotOpen, before anything is claimed or scheduled.
Validate(s) ==
    /\ pc[s] = "validate"
    /\ IF open[Cur(s)] THEN NextIndex(s, "claim") /\ UNCHANGED <<devs, cancelled>>
                       ELSE Return(s)
    /\ UNCHANGED <<handleVars, streaming, iokitVars, registry>>

\* One turn of the claiming loop: d.streaming.Add(1).
Claim(s) ==
    /\ pc[s] = "claim"
    /\ streaming' = [streaming EXCEPT ![Cur(s)] = @ + 1]
    /\ NextIndex(s, "install")
    /\ UNCHANGED <<handleVars, iokitVars, registry, devs, cancelled>>

\* Bug: the claim is cleared, not counted down.
Unclaim_Clears(s) ==
    /\ pc[s] = "unclaim"
    /\ streaming' = [streaming EXCEPT ![Cur(s)] = 0]
    /\ IF k[s] > 1 THEN Goto(s, "unclaim", k[s] - 1) /\ UNCHANGED <<devs, cancelled>>
                   ELSE Return(s)
    /\ UNCHANGED <<handleVars, iokitVars, registry>>

\* One deferred d.streaming.Add(-1), in the reverse order of the claims.
Unclaim(s) ==
    /\ pc[s] = "unclaim"
    /\ streaming' = [streaming EXCEPT ![Cur(s)] = @ - 1]
    /\ IF k[s] > 1 THEN Goto(s, "unclaim", k[s] - 1) /\ UNCHANGED <<devs, cancelled>>
                   ELSE Return(s)
    /\ UNCHANGED <<handleVars, iokitVars, registry>>

(***************************************************************************)
(* darwinStream. load() cannot fail here: it succeeded, once and for all,  *)
(* when the device was enumerated.                                         *)
(***************************************************************************)
\* Under registryMu, a target for every ref; a ref listed twice keeps the last.
Target(s, d) ==
    <<s, CHOOSE i \in Idx(s) : /\ devs[s][i] = d
                               /\ \A j \in Idx(s) : devs[s][j] = d => j <= i>>

Install(s) ==
    /\ pc[s] = "install"
    /\ registry' = [d \in Device |-> IF d \in Devs(s) THEN Target(s, d) ELSE registry[d]]
    /\ Goto(s, "schedule", 1)
    /\ UNCHANGED <<handleVars, streaming, iokitVars, devs, cancelled>>

\* One turn of the scheduling loop: allocate, register the callback, schedule.
Schedule(s) ==
    /\ pc[s] = "schedule"
    /\ buf' = buf \cup {<<s, k[s]>>}
    /\ cb' = [cb EXCEPT ![Cur(s)] = <<s, k[s]>>]
    /\ sched' = [sched EXCEPT ![Cur(s)] = @ \cup {s}]
    /\ NextIndex(s, "check")
    /\ UNCHANGED <<handleVars, streaming, registry, devs, cancelled>>

\* The head of the pump loop, the only place the context is looked at.
CheckContext(s) ==
    /\ pc[s] = "check"
    /\ Goto(s, IF cancelled[s] THEN "detach" ELSE "pump", 1)
    /\ UNCHANGED <<handleVars, streaming, iokitVars, registry, devs, cancelled>>

\* Bug: the context is looked at once, before the loop.
PumpReturns_Unchecked(s) ==
    /\ pc[s] = "pump"
    /\ Goto(s, "pump", 1)
    /\ UNCHANGED <<handleVars, streaming, iokitVars, registry, devs, cancelled>>

\* CFRunLoopRunInMode returns after pumpInterval.
PumpReturns(s) ==
    /\ pc[s] = "pump"
    /\ Goto(s, "check", 1)
    /\ UNCHANGED <<handleVars, streaming, iokitVars, registry, devs, cancelled>>

\* A report from d arrives on the run loop of s: IOKit writes it into the
\* registered buffer, inputCallback looks the sender up and calls the handler.
\* A sender with no registry entry is dropped, a stuttering step.
Callback(s, d) ==
    /\ pc[s] = "pump"
    /\ s \in sched[d] /\ cb[d] # None
    /\ registry[d] # None
    /\ Goto(s, "handler", 1)
    /\ UNCHANGED <<handleVars, streaming, iokitVars, registry, devs, cancelled>>

HandlerReturns(s) ==
    /\ pc[s] = "handler"
    /\ Goto(s, "pump", 1)
    /\ UNCHANGED <<handleVars, streaming, iokitVars, registry, devs, cancelled>>

\* fn panics: the deferred functions run all the same.
HandlerPanics(s) ==
    /\ pc[s] = "handler"
    /\ Goto(s, "detach", 1)
    /\ UNCHANGED <<handleVars, streaming, iokitVars, registry, devs, cancelled>>

\* Bug: the buffer is freed before the callback is detached.
Detach_FreesFirst(s) ==
    /\ pc[s] = "detach"
    /\ buf' = buf \ {<<s, k[s]>>}
    /\ Goto(s, "unschedule", k[s])
    /\ UNCHANGED <<handleVars, streaming, sched, cb, registry, devs, cancelled>>

\* The deferred loop, per device: detach the callback ...
Detach(s) ==
    /\ pc[s] = "detach"
    /\ cb' = [cb EXCEPT ![Cur(s)] = None]
    /\ Goto(s, "unschedule", k[s])
    /\ UNCHANGED <<handleVars, streaming, sched, buf, registry, devs, cancelled>>

\* ... take the device off this run loop ...
Unschedule(s) ==
    /\ pc[s] = "unschedule"
    /\ sched' = [sched EXCEPT ![Cur(s)] = @ \ {s}]
    /\ Goto(s, "free", k[s])
    /\ UNCHANGED <<handleVars, streaming, cb, buf, registry, devs, cancelled>>

\* ... and only then free the buffer.
Free(s) ==
    /\ pc[s] = "free"
    /\ buf' = buf \ {<<s, k[s]>>}
    /\ IF k[s] < Len(devs[s]) THEN Goto(s, "detach", k[s] + 1) ELSE Goto(s, "forget", 1)
    /\ UNCHANGED <<handleVars, streaming, cb, sched, registry, devs, cancelled>>

\* Bug: the whole registry is emptied.
Forget_All(s) ==
    /\ pc[s] = "forget"
    /\ registry' = [d \in Device |-> None]
    /\ Goto(s, "unclaim", Len(devs[s]))
    /\ UNCHANGED <<handleVars, streaming, iokitVars, devs, cancelled>>

\* Under registryMu, delete the entry of every ref, whoever put it there. The
\* claims are undone next, last one first.
Forget(s) ==
    /\ pc[s] = "forget"
    /\ registry' = [d \in Device |-> IF d \in Devs(s) THEN None ELSE registry[d]]
    /\ Goto(s, "unclaim", Len(devs[s]))
    /\ UNCHANGED <<handleVars, streaming, iokitVars, devs, cancelled>>

\* The caller's context becomes done.
Cancel(s) ==
    /\ pc[s] # "idle" /\ ~cancelled[s]
    /\ cancelled' = [cancelled EXCEPT ![s] = TRUE]
    /\ UNCHANGED <<handleVars, streaming, iokitVars, registry, devs, pc, k>>

-----------------------------------------------------------------------------
Owner(d) == Open(d) \/ CloseCheck(d) \/ CloseNative(d) \/ CloseRelease(d)

\* The steps a Stream call takes by itself.
Run(s) ==
    \/ Validate(s) \/ Claim(s) \/ Install(s) \/ Schedule(s)
    \/ CheckContext(s) \/ PumpReturns(s) \/ HandlerReturns(s)
    \/ Detach(s) \/ Unschedule(s) \/ Free(s) \/ Forget(s) \/ Unclaim(s)

Next ==
    \/ \E d \in Device : Owner(d)
    \/ \E s \in Streamer :
        \/ \E ds \in Args, done \in BOOLEAN : Call(s, ds, done)
        \/ Run(s)
        \/ \E d \in Device : Callback(s, d)
        \/ HandlerPanics(s)
        \/ Cancel(s)

Spec == Init /\ [][Next]_vars

\* A goroutine that can run does; a handler returns; and CFRunLoopRunInMode comes
\* back when its interval is over even if reports never stop arriving, so the
\* pump may not be re-entered from handlers forever.
Fairness == \A s \in Streamer : WF_vars(Run(s)) /\ SF_vars(PumpReturns(s))

FairSpec == Spec /\ Fairness
-----------------------------------------------------------------------------
(* Properties *)

Labels == Prologue \cup Seam \cup {"idle", "unclaim"}

\* Every variable has the type its declaration says.
TypeOK ==
    /\ open \in [Device -> BOOLEAN]
    /\ retained \in [Device -> BOOLEAN]
    /\ streaming \in [Device -> Nat]
    /\ closing \in [Device -> {"no", "checked", "closed"}]
    /\ cb \in [Device -> Slots \cup {None}]
    /\ sched \in [Device -> SUBSET Streamer]
    /\ buf \subseteq Slots
    /\ registry \in [Device -> Slots \cup {None}]
    /\ devs \in [Streamer -> Args \cup {<< >>}]
    /\ pc \in [Streamer -> Labels]
    /\ k \in [Streamer -> 1..MaxDevs]
    /\ cancelled \in [Streamer -> BOOLEAN]

\* The process is not killed: a device IOKit has a callback or a schedule for is
\* neither closed nor released (the comments on Device.streaming and Close).
ScheduledIsRetained ==
    \A d \in Device : (cb[d] # None \/ sched[d] # {}) => open[d] /\ retained[d]

\* IOKit never holds a pointer to a buffer that was handed back to the allocator
\* ("Detach before freeing", darwinStream).
NoWriteAfterFree == \A d \in Device : cb[d] # None => cb[d] \in buf

\* The counter is exactly the claims of the calls in progress, so that a device
\* no call holds can be closed ("a device left marked would be a device nobody
\* could ever close", Stream).
ClaimsCounted == \A d \in Device : streaming[d] = Cardinality(Claims(d))

\* While a call pumps, a report from a device it shares with no other call has
\* the callback installed, arrives on its run loop, and reaches its own handler
\* under an index that names the sender.
Routed ==
    \A s \in Streamer : pc[s] \in Pumping =>
        \A i \in Idx(s) : LET d == devs[s][i] IN d \notin Shared =>
            /\ s \in sched[d] /\ cb[d] # None
            /\ \E j \in Idx(s) : registry[d] = <<s, j>> /\ devs[s][j] = d

\* While a call pumps, somebody gets the reports of its devices ("Stream
\* delivers input reports from devs to fn until ctx is done").
StillListening ==
    \A s \in Streamer : pc[s] \in Pumping =>
        \A d \in Devs(s) : cb[d] # None /\ registry[d] # None

\* A call whose context is done returns, though it looks at the context only
\* between pumps ("CANCELLING IS NOT STOPPING", Device.streaming).
CancelledReturns ==
    \A s \in Streamer : (pc[s] # "idle" /\ cancelled[s]) ~> (pc[s] = "idle")

(***************************************************************************)
(* The detailed specification implements HidOwnership: a device some       *)
(* Stream call claims stays open until the claims are gone.                *)
(***************************************************************************)
Ownership == INSTANCE HidOwnership WITH
    state   <- [d \in Device |-> IF ~retained[d] THEN "released"
                                 ELSE IF open[d] THEN "open" ELSE "closed"],
    holders <- [d \in Device |-> {c[1] : c \in Claims(d)}]

\* Every step is a step of the ownership protocol, or stutters.
ImplementsOwnership == Ownership!Spec
=============================================================================
