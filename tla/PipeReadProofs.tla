---------------------------- MODULE PipeReadProofs ----------------------------
(* Proofs about PipeRead, for any readers, pipes and scheduling.             *)
EXTENDS PipeRead, TLAPS

\* A worker and its channel carry exactly one answer for the call that waits, and
\* an idle caller has neither.
CallInv ==
    \A r \in Reader :
        /\ bufs[r] <=> caller[r] # "idle"
        /\ pipe[r] # NoPipe <=> caller[r] # "idle"
        /\ caller[r] # "idle" => result[r] = NoCode
        /\ caller[r] \in {"idle", "bulk"} => worker[r] = "none" /\ done[r] = NoCode
        /\ caller[r] \notin {"idle", "bulk"} => (worker[r] = "none" <=> done[r] # NoCode)
        /\ worker[r] = "returned" <=> rc[r] # NoCode
        /\ caller[r] = "bulk" \/ worker[r] \in {"spawned", "inflight"} => ~arrived[r]

\* An answer of success, wherever it is on its way, has its data in the buffer.
DataInv ==
    \A r \in Reader : "Success" \in {rc[r], done[r], result[r]} => arrived[r]

PInv == TypeOK /\ CallInv /\ DataInv

LEMMA PInvInit == Init => PInv
BY PipeAssumption, NoCodeAssumption DEF Init, PInv, TypeOK, CallInv, DataInv, Code

LEMMA PInvStep == PInv /\ [Next]_vars => PInv'
<1>. SUFFICES ASSUME PInv, [Next]_vars
              PROVE  PInv'
  OBVIOUS
<1>. USE PipeAssumption, NoCodeAssumption DEF PInv, TypeOK, CallInv, DataInv, Code
<1>1. ASSUME NEW r \in Reader, NEW p \in Pipe, NEW asked \in BOOLEAN, Read(r, p, asked)
      PROVE  PInv'
  <2>0. p # NoPipe /\ caller[r] = "idle"
    BY <1>1 DEF Read
  <2>1. CASE asked /\ p \in Interrupt
    <3>0. /\ caller' = [caller EXCEPT ![r] = "select"]
          /\ worker' = [worker EXCEPT ![r] = "spawned"]
          /\ fired' = [fired EXCEPT ![r] = FALSE]
      BY <1>1, <2>1 DEF Read
    <3>1. TypeOK'
      BY <1>1, <3>0 DEF Read
    <3>2. CallInv' /\ DataInv'
      BY <1>1, <2>0, <2>1 DEF Read
    <3>. QED
      BY <3>1, <3>2
  <2>2. CASE ~(asked /\ p \in Interrupt)
    <3>1. TypeOK'
      BY <1>1, <2>2 DEF Read
    <3>2. CallInv' /\ DataInv'
      BY <1>1, <2>0, <2>2 DEF Read
    <3>. QED
      BY <3>1, <3>2
  <2>. QED
    BY <2>1, <2>2
<1>2. ASSUME NEW r \in Reader, NEW code \in Code, BulkReturns(r, code)
      PROVE  PInv'
  BY <1>2 DEF BulkReturns, Return
<1>3. ASSUME NEW r \in Reader, NEW code \in Code, Complete(r, code)
      PROVE  PInv'
  BY <1>3 DEF Complete
<1>4. ASSUME NEW r \in Reader, Issue(r)
      PROVE  PInv'
  BY <1>4 DEF Issue
<1>5. ASSUME NEW r \in Reader, Send(r)
      PROVE  PInv'
  BY <1>5 DEF Send
<1>6. ASSUME NEW r \in Reader, TimerFires(r)
      PROVE  PInv'
  BY <1>6 DEF TimerFires
<1>7. ASSUME NEW r \in Reader, SelectDone(r)
      PROVE  PInv'
  BY <1>7 DEF SelectDone, Return
<1>8. ASSUME NEW r \in Reader, SelectTimer(r)
      PROVE  PInv'
  BY <1>8 DEF SelectTimer
<1>9. ASSUME NEW r \in Reader, Abort(r)
      PROVE  PInv'
  BY <1>9 DEF Abort
<1>10. ASSUME NEW r \in Reader, Reap(r)
       PROVE  PInv'
  BY <1>10 DEF Reap, Return
<1>11. CASE UNCHANGED vars
  BY <1>11 DEF vars
<1>. QED
  BY <1>1, <1>2, <1>3, <1>4, <1>5, <1>6, <1>7, <1>8, <1>9, <1>10, <1>11 DEF Next, Unaided

LEMMA PInvHolds == Spec => []PInv
BY PInvInit, PInvStep, PTL DEF Spec

\* No read is ever in flight into memory that has been freed, and no worker is left
\* behind by a call that returned: whatever the timers and the device do.
THEOREM ReapedBeforeFreed == Spec => []BuffersOutliveWorker
<1>1. PInv => BuffersOutliveWorker
  BY DEF PInv, CallInv, TypeOK, BuffersOutliveWorker
<1>. QED
  BY <1>1, PInvHolds, PTL

-----------------------------------------------------------------------------
\* With one call per pipe, only the call that aborted sees the abort.
AbortInv ==
    /\ \A r \in Reader : "Aborted" \in {rc[r], done[r]} => caller[r] = "reap"
    /\ \A r \in Reader : result[r] # "Aborted"
    /\ \A q, r \in Reader : pipe[q] = pipe[r] /\ pipe[r] # NoPipe => q = r

LEMMA AbortInit == Init => AbortInv
BY NoCodeAssumption DEF Init, AbortInv, Code

LEMMA AbortStep ==
    ASSUME ~SharePipe
    PROVE  PInv /\ AbortInv /\ [Next]_vars => AbortInv'
<1>. SUFFICES ASSUME PInv, AbortInv, [Next]_vars
              PROVE  AbortInv'
  OBVIOUS
<1>. USE PipeAssumption, NoCodeAssumption DEF PInv, TypeOK, CallInv, AbortInv, Code
<1>1. ASSUME NEW r \in Reader, NEW p \in Pipe, NEW asked \in BOOLEAN, Read(r, p, asked)
      PROVE  AbortInv'
  BY <1>1 DEF Read
<1>2. ASSUME NEW r \in Reader, NEW code \in Code, BulkReturns(r, code)
      PROVE  AbortInv'
  BY <1>2 DEF BulkReturns, Return
<1>3. ASSUME NEW r \in Reader, NEW code \in Code, Complete(r, code)
      PROVE  AbortInv'
  BY <1>3 DEF Complete
<1>4. ASSUME NEW r \in Reader, Issue(r) \/ Send(r) \/ TimerFires(r) \/ SelectTimer(r)
      PROVE  AbortInv'
  BY <1>4 DEF Issue, Send, TimerFires, SelectTimer
<1>5. ASSUME NEW r \in Reader, SelectDone(r) \/ Reap(r)
      PROVE  AbortInv'
  BY <1>5 DEF SelectDone, Reap, Return
<1>6. ASSUME NEW r \in Reader, Abort(r)
      PROVE  AbortInv'
  <2>1. \A q \in Reader : pipe[q] = pipe[r] => q = r
    BY <1>6 DEF Abort
  <2>. QED
    BY <1>6, <2>1 DEF Abort
<1>7. CASE UNCHANGED vars
  BY <1>7 DEF vars
<1>. QED
  BY <1>1, <1>2, <1>3, <1>4, <1>5, <1>6, <1>7 DEF Next, Unaided

-----------------------------------------------------------------------------
LEMMA TimedInit == Init => Timed!Init
BY DEF Init, Timed!Init

LEMMA TimedStep ==
    PInv /\ AbortInv /\ [Next]_vars => [Timed!Next]_(Timed!readVars)
<1>. DEFINE asking == {r \in Reader : caller[r] # "idle"}
            sent   == {r \in Reader : arrived[r]}
<1>. SUFFICES ASSUME PInv, AbortInv, [Next]_vars
              PROVE  Timed!Next \/ UNCHANGED Timed!readVars
  OBVIOUS
<1>. USE NoCodeAssumption DEF PInv, TypeOK, CallInv, DataInv, Code
<1>1. ASSUME NEW r \in Reader, NEW p \in Pipe, NEW asked \in BOOLEAN, Read(r, p, asked)
      PROVE  Timed!Ask(r)
  <2>1. r \notin asking /\ asking' = asking \cup {r}
    BY <1>1 DEF Read
  <2>2. sent' = sent \ {r} /\ result' = [result EXCEPT ![r] = NoCode]
    BY <1>1 DEF Read
  <2>. QED
    BY <2>1, <2>2 DEF Timed!Ask
<1>2. ASSUME NEW r \in Reader, NEW code \in Code, BulkReturns(r, code)
      PROVE  Timed!AnswerAtOnce(r) \/ Timed!Answer(r, code)
  <2>1. r \in asking \ sent /\ asking' = asking \ {r} /\ result' = [result EXCEPT ![r] = code]
    BY <1>2 DEF BulkReturns, Return
  <2>2. CASE code = "Success"
    <3>1. sent' = sent \cup {r}
      BY <1>2, <2>2 DEF BulkReturns
    <3>. QED
      BY <2>1, <2>2, <3>1 DEF Timed!AnswerAtOnce
  <2>3. CASE code # "Success"
    <3>1. sent' = sent
      BY <1>2, <2>1, <2>3 DEF BulkReturns
    <3>. QED
      BY <2>1, <2>3, <3>1 DEF Timed!Answer
  <2>. QED
    BY <2>2, <2>3
<1>3. ASSUME NEW r \in Reader, NEW code \in Code, Complete(r, code)
      PROVE  Timed!Arrive(r) \/ UNCHANGED Timed!readVars
  <2>1. r \in asking \ sent /\ asking' = asking /\ result' = result
    BY <1>3 DEF Complete
  <2>2. sent' = IF code = "Success" THEN sent \cup {r} ELSE sent
    BY <1>3, <2>1 DEF Complete
  <2>. QED
    BY <2>1, <2>2 DEF Timed!Arrive, Timed!readVars
<1>4. ASSUME NEW r \in Reader, SelectDone(r) \/ Reap(r)
      PROVE  \E code \in {"Success", "Stall", "Timeout"} : Timed!Answer(r, code)
  <2>1. PICK code \in {"Success", "Stall", "Timeout"} :
            Return(r, code) /\ (code = "Success" => r \in sent)
    BY <1>4 DEF SelectDone, Reap, AbortInv
  <2>2. r \in asking /\ asking' = asking \ {r} /\ result' = [result EXCEPT ![r] = code]
    BY <1>4, <2>1 DEF SelectDone, Reap, Return
  <2>3. sent' = sent
    BY <1>4 DEF SelectDone, Reap
  <2>. QED
    BY <2>1, <2>2, <2>3 DEF Timed!Answer
<1>5. ASSUME NEW r \in Reader,
             Issue(r) \/ Send(r) \/ TimerFires(r) \/ SelectTimer(r) \/ Abort(r)
      PROVE  UNCHANGED Timed!readVars
  <2>1. asking' = asking
    BY <1>5 DEF Issue, Send, TimerFires, SelectTimer, Abort
  <2>2. sent' = sent /\ result' = result
    BY <1>5 DEF Issue, Send, TimerFires, SelectTimer, Abort
  <2>. QED
    BY <2>1, <2>2 DEF Timed!readVars
<1>6. CASE UNCHANGED vars
  BY <1>6 DEF vars, Timed!readVars
<1>7. \A r \in Reader : Timed!Ask(r) \/ Timed!Arrive(r) \/ Timed!AnswerAtOnce(r)
                        \/ (\E code \in {"Success", "Stall", "Timeout"} : Timed!Answer(r, code))
                        => Timed!Next
  BY DEF Timed!Next
<1>8. ASSUME NEW r \in Reader, NEW code \in Code, BulkReturns(r, code)
      PROVE  code \in {"Success", "Stall", "Timeout"}
  BY <1>8 DEF BulkReturns
<1>. QED
  BY <1>1, <1>2, <1>3, <1>4, <1>5, <1>6, <1>7, <1>8 DEF Next, Unaided

\* With one Read per pipe at a time, the interrupt read of darwinReadInterrupt, made of
\* a goroutine, a timer and an abort, and the bulk read of darwinReadPipe both are
\* reads with a timeout: success has the device's data, nothing arrives for a call
\* that is over, and no caller is answered kIOReturnAborted.
THEOREM RefinesTimedRead ==
    ASSUME ~SharePipe
    PROVE  Spec => ImplementsTimedRead
BY TimedInit, TimedStep, PInvHolds, AbortInit, AbortStep, PTL
   DEF Spec, ImplementsTimedRead, Timed!Spec

=============================================================================
