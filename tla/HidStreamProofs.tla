--------------------------- MODULE HidStreamProofs ---------------------------
(***************************************************************************)
(* Proofs about HidStream, for any devices, any finite set of goroutines   *)
(* and any bound on the length of an argument list: types and the counter, *)
(* and then what the counter is for. With it exact, no device is closed or *)
(* released while IOKit has a callback or a schedule for it, and no buffer *)
(* is freed while it is registered.                                        *)
(***************************************************************************)
EXTENDS HidStream, FiniteSetTheorems, SequenceTheorems,
        WellFoundedInduction, TLAPS

\* The loop index of a call in progress is an index of its devs; outside a call
\* there is no devs.
LoopOK ==
    \A s \in Streamer :
        IF pc[s] = "idle" THEN devs[s] = << >> /\ k[s] = 1
                          ELSE devs[s] \in Args /\ k[s] \in Idx(s)

\* An interval 1..a determines a.
LEMMA IntervalLength ==
    ASSUME NEW a \in Nat, NEW b \in Nat, 1..a = 1..b
    PROVE  a = b
<1>1. ASSUME NEW x \in Nat, NEW y \in Nat, 1..x = 1..y, x < y
      PROVE  FALSE
  <2>1. y \in 1..y
    BY <1>1
  <2>2. y \in 1..x
    BY <1>1, <2>1
  <2>. QED
    BY <1>1, <2>2
<1>. QED
  BY <1>1

\* The indices of a list whose length is in 1..MaxDevs.
LEMMA IndexRange ==
    \A n \in 1..MaxDevs :
        /\ n \in Nat \ {0}
        /\ 1 \in 1..n /\ n \in 1..n
        /\ \A i \in 1..n : /\ i \in 1..MaxDevs
                           /\ i < n => i + 1 \in 1..n
                           /\ i > 1 => i - 1 \in 1..n
BY MaxDevsAssumption

\* An argument list is a sequence of devices of length 1..MaxDevs.
LEMMA ArgsSeq ==
    ASSUME NEW ds \in Args
    PROVE  /\ Len(ds) \in 1..MaxDevs
           /\ DOMAIN ds = 1..Len(ds)
           /\ \A i \in 1..Len(ds) : ds[i] \in Device
           /\ ds # << >>
<1>1. PICK n \in 1..MaxDevs : ds \in [1..n -> Device]
  BY DEF Args
<1>2. n \in Nat
  BY <1>1, MaxDevsAssumption
<1>3. ds \in Seq(Device)
  BY <1>1, <1>2, SeqDef
<1>4. Len(ds) \in Nat /\ DOMAIN ds = 1..Len(ds)
  BY <1>3, LenProperties
<1>5. Len(ds) = n
  <2>1. 1..Len(ds) = 1..n
    BY <1>1, <1>4
  <2>. QED
    BY <2>1, <1>2, <1>4, IntervalLength
<1>6. ds # << >>
  BY <1>3, <1>5, <1>1, EmptySeq
<1>. QED
  BY <1>1, <1>4, <1>5, <1>6

\* There are finitely many slots, hence finitely many claims.
LEMMA SlotsFinite ==
    /\ IsFiniteSet(Slots)
    /\ \A d : IsFiniteSet(Claims(d)) /\ IsFiniteSet(Claims(d))'
<1>1. IsFiniteSet(1..MaxDevs)
  BY FS_Interval, MaxDevsAssumption
<1>2. IsFiniteSet(Slots)
  BY <1>1, FS_Product, StreamerAssumption DEF Slots
<1>3. ASSUME NEW d
      PROVE IsFiniteSet(Claims(d)) /\ IsFiniteSet(Claims(d))'
  <2>1. Claims(d) \subseteq Slots /\ Claims(d)' \subseteq Slots
    BY DEF Claims
  <2>. QED
    BY <2>1, <1>2, FS_Subset
<1>. QED
  BY <1>2, <1>3

-----------------------------------------------------------------------------
TInv == TypeOK /\ LoopOK

\* Cur(s) is a device, and the slot of s at its index is a slot.
LEMMA CurOK ==
    ASSUME TInv, NEW s \in Streamer, pc[s] # "idle"
    PROVE  /\ devs[s] \in Args
           /\ Len(devs[s]) \in 1..MaxDevs
           /\ k[s] \in 1..Len(devs[s])
           /\ \A i \in Idx(s) : devs[s][i] \in Device /\ <<s, i>> \in Slots
           /\ Cur(s) \in Device
           /\ <<s, k[s]>> \in Slots
BY ArgsSeq, MaxDevsAssumption DEF TInv, LoopOK, Idx, Cur, Slots

\* A device some call claims has a positive counter.
LEMMA ClaimedPositive ==
    ASSUME TInv, ClaimsCounted, NEW s \in Streamer, NEW i \in Idx(s), Claimed(s, i)
    PROVE  streaming[devs[s][i]] \in Nat \ {0}
<1>1. pc[s] # "idle"
  BY DEF Claimed, Seam, Pumping
<1>2. devs[s][i] \in Device /\ <<s, i>> \in Slots
  BY <1>1, CurOK
<1>3. <<s, i>> \in Claims(devs[s][i])
  BY <1>2 DEF Claims
<1>4. Cardinality(Claims(devs[s][i])) # 0
  BY <1>3, SlotsFinite, FS_EmptySet
<1>. QED
  BY <1>2, <1>4 DEF ClaimsCounted, TInv, TypeOK

LEMMA TInvInit == Init => TInv
BY MaxDevsAssumption DEF Init, TInv, TypeOK, LoopOK, Labels, Prologue

\* The part of TInv about the calls, and the ways a step moves one of them.
CallInv ==
    /\ devs \in [Streamer -> Args \cup {<< >>}]
    /\ pc \in [Streamer -> Labels]
    /\ k \in [Streamer -> 1..MaxDevs]
    /\ cancelled \in [Streamer -> BOOLEAN]
    /\ LoopOK

LEMMA GotoKeeps ==
    ASSUME TInv, NEW s \in Streamer, pc[s] # "idle", UNCHANGED <<devs, cancelled>>,
           NEW label \in Labels \ {"idle"}, NEW i \in Idx(s), Goto(s, label, i)
    PROVE  CallInv'
<1>1. i \in 1..MaxDevs
  BY CurOK, IndexRange DEF Idx
<1>. QED
  BY <1>1 DEF TInv, TypeOK, LoopOK, CallInv, Goto, Idx

LEMMA NextIndexKeeps ==
    ASSUME TInv, NEW s \in Streamer, pc[s] # "idle", UNCHANGED <<devs, cancelled>>,
           NEW label \in Labels \ {"idle"}, NextIndex(s, label)
    PROVE  CallInv'
<1>1. pc[s] \in Labels \ {"idle"}
  BY DEF TInv, TypeOK
<1>2. 1 \in Idx(s) /\ (k[s] < Len(devs[s]) => k[s] + 1 \in Idx(s))
  BY CurOK, IndexRange DEF Idx
<1>. QED
  BY <1>1, <1>2, GotoKeeps DEF NextIndex

LEMMA ReturnKeeps ==
    ASSUME TInv, NEW s \in Streamer, Return(s)
    PROVE  CallInv'
BY MaxDevsAssumption DEF TInv, TypeOK, LoopOK, CallInv, Return, Goto, Idx, Labels

\* The rest of TInv.
SharedType ==
    /\ open \in [Device -> BOOLEAN]
    /\ retained \in [Device -> BOOLEAN]
    /\ streaming \in [Device -> Nat]
    /\ closing \in [Device -> {"no", "checked", "closed"}]
    /\ cb \in [Device -> Slots \cup {None}]
    /\ sched \in [Device -> SUBSET Streamer]
    /\ buf \subseteq Slots
    /\ registry \in [Device -> Slots \cup {None}]

LEMMA TInvParts == TInv <=> CallInv /\ SharedType
BY DEF TInv, TypeOK, CallInv, SharedType

\* A nonempty set of indices has a largest element.
LEMMA LargestIndex ==
    ASSUME NEW S \in SUBSET (1..MaxDevs), S # {}
    PROVE  \E m \in S : \A i \in S : i <= m
<1>. DEFINE T == {MaxDevs - i : i \in S}
            R == {ss \in Nat \X Nat : ss[1] < ss[2]}
<1>1. T \subseteq Nat /\ T # {}
  <2>1. \A i \in S : MaxDevs - i \in Nat
    BY MaxDevsAssumption
  <2>2. PICK j : j \in S
    OBVIOUS
  <2>3. MaxDevs - j \in T
    BY <2>2
  <2>. QED
    BY <2>1, <2>3
<1>2. IsWellFoundedOn(R, Nat)
  BY NatLessThanWellFounded DEF OpToRel
<1>3. PICK x \in T : \A y \in T : ~(<<y, x>> \in R)
  <2>. HIDE DEF T, R
  <2>. QED
    BY <1>1, <1>2, WFMin
<1>4. PICK m \in S : x = MaxDevs - m
  BY <1>3
<1>5. \A i \in S : ~(MaxDevs - i < MaxDevs - m)
  <2>1. \A i \in S : MaxDevs - i \in T
    OBVIOUS
  <2>. QED
    BY <1>1, <1>3, <1>4, <2>1
<1>. QED
  BY <1>5, MaxDevsAssumption

\* The registry entry Install writes for d names an index at which d is listed.
LEMMA TargetType ==
    ASSUME TInv, NEW s \in Streamer, pc[s] # "idle", NEW d \in Devs(s)
    PROVE  /\ Target(s, d) \in Slots
           /\ \E i \in Idx(s) : Target(s, d) = <<s, i>> /\ devs[s][i] = d
<1>. DEFINE S == {i \in Idx(s) : devs[s][i] = d}
<1>1. S \in SUBSET (1..MaxDevs) /\ S # {}
  BY CurOK, IndexRange DEF Devs, Idx
<1>2. \E m \in S : \A i \in S : i <= m
  BY <1>1, LargestIndex
<1>3. \E i \in Idx(s) : devs[s][i] = d /\ \A j \in Idx(s) : devs[s][j] = d => j <= i
  BY <1>2
<1>4. \E i \in Idx(s) : Target(s, d) = <<s, i>> /\ devs[s][i] = d
  BY <1>3 DEF Target
<1>. QED
  BY <1>4, CurOK

\* Every step keeps the types and the loop indices in range.
LEMMA TInvStep == TInv /\ ClaimsCounted /\ [Next]_vars => TInv'
<1>. SUFFICES ASSUME TInv, ClaimsCounted, [Next]_vars
              PROVE  CallInv' /\ SharedType'
  BY TInvParts, PTL
<1>0. SharedType /\ CallInv
  BY TInvParts
<1>1. ASSUME NEW d \in Device, Owner(d)
      PROVE  CallInv' /\ SharedType'
  BY <1>0, <1>1 DEF Owner, Open, CloseCheck, CloseNative, CloseRelease, iokitVars,
     callVars, SharedType, CallInv, LoopOK, Idx
<1>2. ASSUME NEW s \in Streamer, NEW ds \in Args, NEW done \in BOOLEAN, Call(s, ds, done)
      PROVE  CallInv' /\ SharedType'
  <2>1. SharedType'
    BY <1>0, <1>2 DEF Call, handleVars, iokitVars, SharedType
  <2>2. 1 \in 1..Len(ds) /\ 1 \in 1..MaxDevs
    BY ArgsSeq, IndexRange
  <2>3. CallInv'
    BY <1>0, <1>2, <2>2 DEF Call, CallInv, LoopOK, Idx, Goto, Labels, Prologue
  <2>. QED
    BY <2>1, <2>3
<1>3. ASSUME NEW s \in Streamer, Run(s)
      PROVE  CallInv' /\ SharedType'
  <2>0. pc[s] # "idle"
    BY <1>3 DEF Run, Validate, Claim, Install, Schedule, CheckContext, PumpReturns,
       HandlerReturns, Detach, Unschedule, Free, Forget, Unclaim
  <2>a. /\ Cur(s) \in Device /\ <<s, k[s]>> \in Slots
        /\ k[s] \in Idx(s) /\ 1 \in Idx(s) /\ Len(devs[s]) \in Idx(s)
        /\ k[s] < Len(devs[s]) => k[s] + 1 \in Idx(s)
        /\ k[s] > 1 => k[s] - 1 \in Idx(s)
    BY <2>0, CurOK, IndexRange DEF Idx
  <2>. USE DEF Labels, Prologue, Seam, Pumping
  <2>1. CASE Validate(s)
    <3>1. CallInv'
      BY <2>0, <2>1, NextIndexKeeps, ReturnKeeps DEF Validate
    <3>2. SharedType'
      BY <1>0, <2>1 DEF Validate, handleVars, iokitVars, SharedType
    <3>. QED
      BY <3>1, <3>2
  <2>2. CASE Claim(s)
    <3>1. CallInv'
      BY <2>0, <2>2, NextIndexKeeps DEF Claim
    <3>2. SharedType'
      BY <1>0, <2>a, <2>2 DEF Claim, handleVars, iokitVars, SharedType
    <3>. QED
      BY <3>1, <3>2
  <2>3. CASE Install(s)
    <3>1. CallInv'
      BY <2>0, <2>a, <2>3, GotoKeeps DEF Install
    <3>2. SharedType'
      BY <1>0, <2>0, <2>3, TargetType DEF Install, handleVars, iokitVars, SharedType
    <3>. QED
      BY <3>1, <3>2
  <2>4. CASE Schedule(s)
    <3>1. CallInv'
      BY <2>0, <2>4, NextIndexKeeps DEF Schedule
    <3>2. SharedType'
      BY <1>0, <2>a, <2>4 DEF Schedule, handleVars, SharedType
    <3>. QED
      BY <3>1, <3>2
  <2>5. CASE CheckContext(s) \/ PumpReturns(s) \/ HandlerReturns(s)
    <3>1. CallInv'
      BY <2>0, <2>a, <2>5, GotoKeeps DEF CheckContext, PumpReturns, HandlerReturns
    <3>2. SharedType'
      BY <1>0, <2>5 DEF CheckContext, PumpReturns, HandlerReturns, handleVars,
         iokitVars, SharedType
    <3>. QED
      BY <3>1, <3>2
  <2>6. CASE Detach(s) \/ Unschedule(s) \/ Free(s)
    <3>1. CallInv'
      BY <2>0, <2>a, <2>6, GotoKeeps DEF Detach, Unschedule, Free
    <3>2. SharedType'
      BY <1>0, <2>a, <2>6 DEF Detach, Unschedule, Free, handleVars, SharedType
    <3>. QED
      BY <3>1, <3>2
  <2>7. CASE Forget(s)
    <3>1. CallInv'
      BY <2>0, <2>a, <2>7, GotoKeeps DEF Forget
    <3>2. SharedType'
      BY <1>0, <2>7 DEF Forget, handleVars, iokitVars, SharedType
    <3>. QED
      BY <3>1, <3>2
  <2>8. CASE Unclaim(s)
    <3>1. CallInv'
      BY <2>0, <2>a, <2>8, GotoKeeps, ReturnKeeps DEF Unclaim
    <3>2. Claimed(s, k[s])
      BY <2>a, <2>8 DEF Claimed, Unclaim, Idx
    <3>3. streaming[Cur(s)] \in Nat \ {0}
      BY <2>a, <3>2, ClaimedPositive DEF Cur
    <3>4. SharedType'
      BY <1>0, <2>a, <2>8, <3>3 DEF Unclaim, handleVars, iokitVars, SharedType
    <3>. QED
      BY <3>1, <3>4
  <2>. QED
    BY <1>3, <2>1, <2>2, <2>3, <2>4, <2>5, <2>6, <2>7, <2>8 DEF Run
<1>4. ASSUME NEW s \in Streamer, NEW d \in Device, Callback(s, d)
      PROVE  CallInv' /\ SharedType'
  <2>1. pc[s] # "idle" /\ 1 \in Idx(s)
    BY <1>4, CurOK, IndexRange DEF Callback, Idx
  <2>2. CallInv'
    BY <1>4, <2>1, GotoKeeps DEF Callback, Labels, Seam, Pumping
  <2>3. SharedType'
    BY <1>0, <1>4 DEF Callback, handleVars, iokitVars, SharedType
  <2>. QED
    BY <2>2, <2>3
<1>5. ASSUME NEW s \in Streamer, HandlerPanics(s)
      PROVE  CallInv' /\ SharedType'
  <2>1. pc[s] # "idle" /\ 1 \in Idx(s)
    BY <1>5, CurOK, IndexRange DEF HandlerPanics, Idx
  <2>2. CallInv'
    BY <1>5, <2>1, GotoKeeps DEF HandlerPanics, Labels, Seam, Pumping
  <2>3. SharedType'
    BY <1>0, <1>5 DEF HandlerPanics, handleVars, iokitVars, SharedType
  <2>. QED
    BY <2>2, <2>3
<1>6. ASSUME NEW s \in Streamer, Cancel(s)
      PROVE  CallInv' /\ SharedType'
  BY <1>0, <1>6 DEF Cancel, handleVars, iokitVars, SharedType, CallInv, LoopOK, Idx
<1>7. CASE UNCHANGED vars
  BY <1>0, <1>7 DEF vars, handleVars, iokitVars, callVars, SharedType, CallInv,
     LoopOK, Idx
<1>. QED
  BY <1>1, <1>2, <1>3, <1>4, <1>5, <1>6, <1>7 DEF Next

-----------------------------------------------------------------------------
\* A step that makes and undoes no claim.
SameClaims ==
    \A s \in Streamer, i \in 1..MaxDevs :
        /\ Claimed(s, i)' <=> Claimed(s, i)
        /\ Claimed(s, i) => devs'[s][i] = devs[s][i]

LEMMA SameClaimsSet == SameClaims => \A d \in Device : Claims(d)' = Claims(d)
BY DEF SameClaims, Claims, Slots

\* Outside the claiming loop and the deferred decrements a step claims nothing.
LEMMA OtherStepsKeepClaims ==
    ASSUME TInv, [Next]_vars, \A s \in Streamer : ~Claim(s) /\ ~Unclaim(s)
    PROVE  SameClaims /\ UNCHANGED streaming
<1>. USE DEF SameClaims, Claimed, Idx, Goto, Seam, Pumping
<1>1. ASSUME NEW d \in Device, Owner(d)
      PROVE  SameClaims /\ UNCHANGED streaming
  BY <1>1 DEF Owner, Open, CloseCheck, CloseNative, CloseRelease, callVars
<1>2. ASSUME NEW s \in Streamer, NEW ds \in Args, NEW done \in BOOLEAN, Call(s, ds, done)
      PROVE  SameClaims /\ UNCHANGED streaming
  BY <1>2 DEF Call, TInv, TypeOK
<1>3. ASSUME NEW s \in Streamer, Run(s)
      PROVE  SameClaims /\ UNCHANGED streaming
  <2>1. CASE Validate(s)
    <3>1. \A t \in Streamer : t # s => pc'[t] = pc[t] /\ k'[t] = k[t] /\ devs'[t] = devs[t]
      BY <2>1 DEF Validate, NextIndex, Return, TInv, TypeOK
    <3>2. pc'[s] \in {"validate", "idle"} \/ (pc'[s] = "claim" /\ k'[s] = 1)
      BY <2>1 DEF Validate, NextIndex, Return, TInv, TypeOK
    <3>3. \A i \in 1..MaxDevs : ~Claimed(s, i) /\ ~Claimed(s, i)'
      BY <2>1, <3>2, MaxDevsAssumption DEF Validate
    <3>. QED
      BY <2>1, <3>1, <3>3 DEF Validate
  <2>2. CASE Install(s) \/ CheckContext(s) \/ PumpReturns(s) \/ HandlerReturns(s)
    BY <2>2 DEF Install, CheckContext, PumpReturns, HandlerReturns, TInv, TypeOK
  <2>3. CASE Schedule(s) \/ Detach(s) \/ Unschedule(s) \/ Free(s)
    BY <2>3 DEF Schedule, Detach, Unschedule, Free, NextIndex, TInv, TypeOK
  <2>4. CASE Forget(s)
    BY <2>4 DEF Forget, TInv, TypeOK
  <2>. QED
    BY <1>3, <2>1, <2>2, <2>3, <2>4 DEF Run
<1>4. ASSUME NEW s \in Streamer, NEW d \in Device, Callback(s, d)
      PROVE  SameClaims /\ UNCHANGED streaming
  BY <1>4 DEF Callback, TInv, TypeOK
<1>5. ASSUME NEW s \in Streamer, HandlerPanics(s) \/ Cancel(s)
      PROVE  SameClaims /\ UNCHANGED streaming
  BY <1>5 DEF HandlerPanics, Cancel, TInv, TypeOK
<1>6. CASE UNCHANGED vars
  BY <1>6 DEF vars, callVars
<1>. QED
  BY <1>1, <1>2, <1>3, <1>4, <1>5, <1>6 DEF Next

\* Claim adds exactly one claim, Unclaim removes exactly one.
LEMMA ClaimAdds ==
    ASSUME TInv, NEW s \in Streamer, Claim(s)
    PROVE  /\ <<s, k[s]>> \notin Claims(Cur(s))
           /\ \A d \in Device : Claims(d)' = IF d = Cur(s) THEN Claims(d) \cup {<<s, k[s]>>}
                                                        ELSE Claims(d)
<1>1. pc[s] = "claim" /\ UNCHANGED devs
  BY DEF Claim
<1>2. \A t \in Streamer : t # s => pc'[t] = pc[t] /\ k'[t] = k[t]
  BY DEF Claim, NextIndex, Goto, TInv, TypeOK
<1>3. /\ k[s] \in Idx(s) /\ Len(devs[s]) \in Nat /\ Idx(s) \subseteq 1..MaxDevs
      /\ <<s, k[s]>> \in Slots
  BY <1>1, CurOK, IndexRange DEF Idx
<1>4. \/ pc'[s] = "claim" /\ k'[s] = k[s] + 1
      \/ pc'[s] = "install" /\ k[s] = Len(devs[s])
  BY <1>1, <1>3 DEF Claim, NextIndex, Goto, TInv, TypeOK, Idx
<1>5. \A t \in Streamer, i \in 1..MaxDevs :
        Claimed(t, i)' <=> (Claimed(t, i) \/ (t = s /\ i = k[s]))
  BY <1>1, <1>2, <1>3, <1>4, MaxDevsAssumption DEF Claimed, Idx, Seam, Pumping
<1>6. ~Claimed(s, k[s])
  BY <1>1, <1>3 DEF Claimed, Seam, Pumping, Idx
<1>7. ASSUME NEW d \in Device
      PROVE  Claims(d)' = IF d = Cur(s) THEN Claims(d) \cup {<<s, k[s]>>} ELSE Claims(d)
  BY <1>1, <1>3, <1>5 DEF Claims, Slots, Cur
<1>. QED
  BY <1>6, <1>7 DEF Claims

LEMMA UnclaimRemoves ==
    ASSUME TInv, NEW s \in Streamer, Unclaim(s)
    PROVE  /\ <<s, k[s]>> \in Claims(Cur(s))
           /\ \A d \in Device : Claims(d)' = IF d = Cur(s) THEN Claims(d) \ {<<s, k[s]>>}
                                                        ELSE Claims(d)
<1>1. pc[s] = "unclaim"
  BY DEF Unclaim
<1>2. \A t \in Streamer : t # s => pc'[t] = pc[t] /\ k'[t] = k[t] /\ devs'[t] = devs[t]
  BY DEF Unclaim, Return, Goto, TInv, TypeOK
<1>3. /\ k[s] \in Idx(s) /\ Len(devs[s]) \in Nat /\ Idx(s) \subseteq 1..MaxDevs
      /\ <<s, k[s]>> \in Slots
  BY <1>1, CurOK, IndexRange DEF Idx
<1>4. \/ pc'[s] = "unclaim" /\ k'[s] = k[s] - 1 /\ k[s] > 1 /\ devs'[s] = devs[s]
      \/ pc'[s] = "idle" /\ k[s] = 1
  BY <1>1, <1>3 DEF Unclaim, Return, Goto, TInv, TypeOK, Idx
<1>5. \A t \in Streamer, i \in 1..MaxDevs :
        /\ Claimed(t, i)' <=> (Claimed(t, i) /\ ~(t = s /\ i = k[s]))
        /\ Claimed(t, i)' => devs'[t][i] = devs[t][i]
  BY <1>1, <1>2, <1>3, <1>4, MaxDevsAssumption DEF Claimed, Idx, Seam, Pumping
<1>6. Claimed(s, k[s])
  BY <1>1, <1>3 DEF Claimed, Idx
<1>7. ASSUME NEW d \in Device
      PROVE  Claims(d)' = IF d = Cur(s) THEN Claims(d) \ {<<s, k[s]>>} ELSE Claims(d)
  BY <1>1, <1>3, <1>5 DEF Claims, Slots, Cur
<1>. QED
  BY <1>3, <1>6, <1>7 DEF Claims, Cur

\* Hence the counter follows the claims.
LEMMA CountStep == TInv /\ ClaimsCounted /\ [Next]_vars => ClaimsCounted'
<1>. SUFFICES ASSUME TInv, ClaimsCounted, [Next]_vars, NEW d \in Device
              PROVE  streaming'[d] = Cardinality(Claims(d)')
  BY DEF ClaimsCounted
<1>0. /\ streaming \in [Device -> Nat] /\ streaming[d] = Cardinality(Claims(d))
      /\ IsFiniteSet(Claims(d))
  BY SlotsFinite DEF ClaimsCounted, TInv, TypeOK
<1>1. CASE \E s \in Streamer : Claim(s)
  <2>. PICK s \in Streamer : Claim(s)
    BY <1>1
  <2>1. pc[s] # "idle"
    BY DEF Claim
  <2>2. streaming'[d] = IF d = Cur(s) THEN streaming[d] + 1 ELSE streaming[d]
    BY <1>0, <2>1, CurOK DEF Claim
  <2>3. Cardinality(Claims(d) \cup {<<s, k[s]>>}) =
            IF <<s, k[s]>> \in Claims(d) THEN streaming[d] ELSE streaming[d] + 1
    BY <1>0, FS_AddElement
  <2>. QED
    BY <1>0, <2>2, <2>3, ClaimAdds
<1>2. CASE \E s \in Streamer : Unclaim(s)
  <2>. PICK s \in Streamer : Unclaim(s)
    BY <1>2
  <2>1. pc[s] # "idle"
    BY DEF Unclaim
  <2>2. streaming'[d] = IF d = Cur(s) THEN streaming[d] - 1 ELSE streaming[d]
    BY <1>0, <2>1, CurOK DEF Unclaim
  <2>3. Cardinality(Claims(d) \ {<<s, k[s]>>}) =
            IF <<s, k[s]>> \in Claims(d) THEN streaming[d] - 1 ELSE streaming[d]
    BY <1>0, FS_RemoveElement
  <2>. QED
    BY <1>0, <2>2, <2>3, UnclaimRemoves
<1>3. CASE \A s \in Streamer : ~Claim(s) /\ ~Unclaim(s)
  BY <1>0, <1>3, OtherStepsKeepClaims, SameClaimsSet
<1>. QED
  BY <1>1, <1>2, <1>3

LEMMA CountInit == Init => ClaimsCounted
<1>1. ASSUME Init, NEW d \in Device
      PROVE  Claims(d) = {}
  BY <1>1 DEF Init, Claims, Claimed, Slots, Seam, Pumping
<1>. QED
  BY <1>1, FS_EmptySet, ZenonT(60) DEF Init, ClaimsCounted

\* The model is well typed: a call's loop index never leaves its argument list,
\* and the counter never goes below zero.
THEOREM TypeCorrect == Spec => [](TypeOK /\ LoopOK)
<1>1. Init => TInv /\ ClaimsCounted
  BY TInvInit, CountInit
<1>2. TInv /\ ClaimsCounted /\ [Next]_vars => (TInv /\ ClaimsCounted)'
  BY TInvStep, CountStep
<1>. QED
  BY <1>1, <1>2, PTL DEF Spec, TInv

\* The counter that Close consults is exactly the number of claims of the calls in
\* progress: whatever the callers do, no call is missed and none is left behind.
THEOREM CounterIsExact == Spec => []ClaimsCounted
<1>1. Init => TInv /\ ClaimsCounted
  BY TInvInit, CountInit
<1>2. TInv /\ ClaimsCounted /\ [Next]_vars => (TInv /\ ClaimsCounted)'
  BY TInvStep, CountStep
<1>. QED
  BY <1>1, <1>2, PTL DEF Spec
-----------------------------------------------------------------------------

\* Where the i-th device of call s has a buffer, a callback and a schedule.
Allocated(s, i) ==
    \/ pc[s] = "schedule" /\ i < k[s]
    \/ pc[s] \in Pumping
    \/ pc[s] \in {"detach", "unschedule", "free"} /\ i >= k[s]

Registered(s, i) ==
    \/ pc[s] = "schedule" /\ i < k[s]
    \/ pc[s] \in Pumping
    \/ pc[s] = "detach" /\ i >= k[s]
    \/ pc[s] \in {"unschedule", "free"} /\ i > k[s]

Scheduled(s, i) ==
    \/ pc[s] = "schedule" /\ i < k[s]
    \/ pc[s] \in Pumping
    \/ pc[s] \in {"detach", "unschedule"} /\ i >= k[s]
    \/ pc[s] = "free" /\ i > k[s]

\* IOKit's state follows from where the calls are, whatever the callers do.
IOKitInv ==
    /\ \A s \in Streamer : \A i \in Idx(s) : Allocated(s, i) => <<s, i>> \in buf
    /\ \A d \in Device, s \in Streamer, i \in 1..MaxDevs :
          cb[d] = <<s, i>> => i \in Idx(s) /\ devs[s][i] = d /\ Registered(s, i)
    /\ \A d \in Device : \A s \in sched[d] :
          \E i \in Idx(s) : devs[s][i] = d /\ Scheduled(s, i)

\* The Close in progress, if any, agrees with the flags it has written so far.
CloseInv ==
    \A d \in Device :
        /\ open[d] => retained[d]
        /\ closing[d] # "no" => retained[d]
        /\ closing[d] = "closed" => ~open[d]

\* A device a call has validated is open and nobody is closing it; no device is
\* being closed under a call that is still validating.
Held(s, i) ==
    \/ Claimed(s, i)
    \/ pc[s] = "validate" /\ i < k[s]
    \/ pc[s] = "claim"

HeldInv ==
    \A s \in Streamer : \A i \in Idx(s) :
        /\ Held(s, i) => open[devs[s][i]]
        /\ Held(s, i) \/ pc[s] \in Prologue => closing[devs[s][i]] = "no"

-----------------------------------------------------------------------------
LEMMA SafetyInit == Init => IOKitInv /\ CloseInv /\ HeldInv
<1>. SUFFICES ASSUME Init
              PROVE  IOKitInv /\ CloseInv /\ HeldInv
  OBVIOUS
<1>1. IOKitInv
  <2>1. \A s \in Streamer, i \in 1..MaxDevs : None # <<s, i>>
    BY NoneAssumption
  <2>. QED
    BY <2>1 DEF Init, IOKitInv, Allocated, Pumping
<1>2. CloseInv
  BY DEF Init, CloseInv
<1>3. HeldInv
  BY DEF Init, HeldInv, Held, Claimed, Seam, Pumping, Prologue
<1>. QED
  BY <1>1, <1>2, <1>3

\* Only the owner's steps touch the flags of a handle.
LEMMA CloseStep == TInv /\ CloseInv /\ [Next]_vars => CloseInv'
<1>. SUFFICES ASSUME TInv, CloseInv, [Next]_vars
              PROVE  CloseInv'
  OBVIOUS
<1>1. ASSUME NEW d \in Device, Owner(d)
      PROVE  CloseInv'
  BY <1>1 DEF Owner, Open, CloseCheck, CloseNative, CloseRelease, CloseInv, TInv, TypeOK
<1>2. CASE UNCHANGED handleVars
  BY <1>2 DEF handleVars, CloseInv
<1>. QED
  BY <1>1, <1>2 DEF Next, Call, Run, Validate, Claim, Install, Schedule, CheckContext,
     PumpReturns, HandlerReturns, Detach, Unschedule, Free, Forget, Unclaim, Callback,
     HandlerPanics, Cancel, vars

\* The owner cannot start a Close on a device that is held.
LEMMA OwnerKeepsHeld ==
    ASSUME ~CloseAnytime, TInv, ClaimsCounted, HeldInv, NEW d \in Device, Owner(d)
    PROVE  HeldInv'
<1>0. UNCHANGED callVars
  BY DEF Owner, Open, CloseCheck, CloseNative, CloseRelease
<1>1. \A s \in Streamer : \A i \in Idx(s) :
        /\ Held(s, i)' <=> Held(s, i)
        /\ devs[s][i] \in Device \/ pc[s] = "idle"
        /\ Idx(s)' = Idx(s) /\ devs'[s] = devs[s] /\ pc'[s] = pc[s]
  BY <1>0, CurOK DEF Held, Claimed, Idx, callVars
<1>2. \A s \in Streamer : \A i \in Idx(s) : Held(s, i) \/ pc[s] \in Prologue => pc[s] # "idle"
  BY DEF Held, Claimed, Seam, Pumping, Prologue
<1>3. CASE Open(d)
  BY <1>0, <1>1, <1>2, <1>3 DEF Open, HeldInv, TInv, TypeOK, Idx, callVars
<1>4. CASE CloseCheck(d)
  <2>1. ASSUME NEW s \in Streamer, NEW i \in Idx(s), Held(s, i) \/ pc[s] \in Prologue
        PROVE  devs[s][i] # d
    <3>1. CASE pc[s] \in Prologue
      BY <1>4, <3>1 DEF CloseCheck, MayClose, Devs
    <3>2. CASE Claimed(s, i)
      BY <1>4, <3>2, ClaimedPositive DEF CloseCheck
    <3>. QED
      BY <2>1, <3>1, <3>2 DEF Held, Prologue
  <2>. QED
    BY <1>0, <1>1, <1>2, <1>4, <2>1 DEF CloseCheck, HeldInv, TInv, TypeOK, Idx, callVars
<1>5. CASE CloseNative(d)
  BY <1>0, <1>1, <1>2, <1>5 DEF CloseNative, HeldInv, TInv, TypeOK, Idx, callVars
<1>6. CASE CloseRelease(d)
  BY <1>0, <1>1, <1>2, <1>6 DEF CloseRelease, HeldInv, TInv, TypeOK, Idx, callVars
<1>. QED
  BY <1>3, <1>4, <1>5, <1>6 DEF Owner

\* A call holds only what it found open, and nobody closes what it holds.
LEMMA HeldStep ==
    ASSUME ~CloseAnytime
    PROVE  TInv /\ ClaimsCounted /\ HeldInv /\ [Next]_vars => HeldInv'
<1>. SUFFICES ASSUME TInv, ClaimsCounted, HeldInv, [Next]_vars
              PROVE  HeldInv'
  OBVIOUS
<1>1. ASSUME NEW d \in Device, Owner(d)
      PROVE  HeldInv'
  BY <1>1, OwnerKeepsHeld
<1>2. ASSUME NEW s \in Streamer, NEW ds \in Args, NEW done \in BOOLEAN, Call(s, ds, done)
      PROVE  HeldInv'
  <2>1. \A t \in Streamer : t # s => devs'[t] = devs[t] /\ pc'[t] = pc[t] /\ k'[t] = k[t]
    BY <1>2 DEF Call, Goto, TInv, TypeOK
  <2>2. pc'[s] = "validate" /\ k'[s] = 1 /\ devs'[s] = ds
    BY <1>2 DEF Call, Goto, TInv, TypeOK
  <2>3. \A i \in 1..Len(ds) : closing[ds[i]] = "no" /\ ~(i < 1)
    BY <1>2, ArgsSeq, MaxDevsAssumption DEF Call, MayCall
  <2>4. UNCHANGED <<open, closing>>
    BY <1>2 DEF Call, handleVars
  <2>5. ASSUME NEW i \in Idx(s)'
        PROVE  ~Held(s, i)' /\ closing'[devs'[s][i]] = "no"
    BY <2>2, <2>3, <2>4, <2>5 DEF Held, Claimed, Seam, Pumping, Idx
  <2>6. ASSUME NEW t \in Streamer, t # s, NEW i \in Idx(t)'
        PROVE  /\ Held(t, i)' => open'[devs'[t][i]]
               /\ Held(t, i)' \/ pc'[t] \in Prologue => closing'[devs'[t][i]] = "no"
    BY <2>1, <2>4, <2>6 DEF HeldInv, Held, Claimed, Idx
  <2>. QED
    BY <2>5, <2>6 DEF HeldInv
<1>3. ASSUME NEW s \in Streamer, Validate(s)
      PROVE  HeldInv'
  <2>1. \A t \in Streamer : t # s => devs'[t] = devs[t] /\ pc'[t] = pc[t] /\ k'[t] = k[t]
    BY <1>3 DEF Validate, NextIndex, Return, Goto, TInv, TypeOK
  <2>2. k[s] \in 1..Len(devs[s]) /\ Len(devs[s]) \in Nat /\ pc[s] = "validate"
    BY <1>3, CurOK, IndexRange DEF Validate
  <2>3. UNCHANGED <<open, closing>>
    BY <1>3 DEF Validate, handleVars
  <2>4. \/ pc'[s] = "idle"
        \/ /\ open[devs[s][k[s]]] /\ devs'[s] = devs[s]
           /\ \/ pc'[s] = "validate" /\ k'[s] = k[s] + 1
              \/ pc'[s] = "claim" /\ k[s] = Len(devs[s])
    BY <1>3, <2>2 DEF Validate, NextIndex, Return, Goto, TInv, TypeOK, Cur
  <2>5. ASSUME NEW i \in Idx(s)'
        PROVE  /\ Held(s, i)' => open'[devs'[s][i]]
               /\ Held(s, i)' \/ pc'[s] \in Prologue => closing'[devs'[s][i]] = "no"
    <3>1. CASE pc'[s] = "idle"
      BY <3>1 DEF Held, Claimed, Seam, Pumping, Prologue
    <3>2. CASE pc'[s] # "idle"
      <4>1. i \in Idx(s) /\ devs'[s] = devs[s]
        BY <2>4, <3>2 DEF Idx
      <4>2. closing[devs[s][i]] = "no"
        BY <2>2, <4>1 DEF HeldInv, Prologue
      <4>3. Held(s, i)' => i < k[s] \/ i = k[s]
        BY <2>2, <2>4, <3>2, <4>1 DEF Held, Claimed, Seam, Pumping, Idx
      <4>4. i < k[s] => open[devs[s][i]]
        BY <2>2, <4>1 DEF HeldInv, Held
      <4>. QED
        BY <2>3, <2>4, <3>2, <4>1, <4>2, <4>3, <4>4
    <3>. QED
      BY <3>1, <3>2
  <2>6. ASSUME NEW t \in Streamer, t # s, NEW i \in Idx(t)'
        PROVE  /\ Held(t, i)' => open'[devs'[t][i]]
               /\ Held(t, i)' \/ pc'[t] \in Prologue => closing'[devs'[t][i]] = "no"
    BY <2>1, <2>3, <2>6 DEF HeldInv, Held, Claimed, Idx
  <2>. QED
    BY <2>5, <2>6 DEF HeldInv
<1>4. CASE /\ UNCHANGED <<open, closing>>
           /\ \A s \in Streamer : \A i \in Idx(s)' :
                 /\ Held(s, i)' => i \in Idx(s) /\ Held(s, i) /\ devs'[s] = devs[s]
                 /\ pc'[s] \in Prologue => i \in Idx(s) /\ pc[s] \in Prologue /\ devs'[s] = devs[s]
  BY <1>4 DEF HeldInv
<1>5. ASSUME NEW s \in Streamer,
             \/ Claim(s) \/ Install(s) \/ Schedule(s) \/ CheckContext(s) \/ PumpReturns(s)
             \/ HandlerReturns(s) \/ Detach(s) \/ Unschedule(s) \/ Free(s) \/ Forget(s)
             \/ HandlerPanics(s) \/ Cancel(s) \/ (\E d \in Device : Callback(s, d))
      PROVE  HeldInv'
  <2>1. UNCHANGED <<open, closing, devs>>
    BY <1>5 DEF Claim, Install, Schedule, CheckContext, PumpReturns, HandlerReturns,
       Detach, Unschedule, Free, Forget, HandlerPanics, Cancel, Callback, handleVars
  <2>2. \A t \in Streamer : t # s => pc'[t] = pc[t] /\ k'[t] = k[t]
    BY <1>5 DEF Claim, Install, Schedule, CheckContext, PumpReturns, HandlerReturns,
       Detach, Unschedule, Free, Forget, HandlerPanics, Cancel, Callback, Goto, NextIndex,
       TInv, TypeOK
  <2>3. \/ pc[s] = "claim" /\ pc'[s] \in {"claim", "install"}
        \/ pc[s] \in Seam /\ pc'[s] \in Seam
        \/ pc[s] = "forget" /\ pc'[s] = "unclaim"
        \/ pc'[s] = pc[s] /\ k'[s] = k[s]
    BY <1>5 DEF Claim, Install, Schedule, CheckContext, PumpReturns, HandlerReturns,
       Detach, Unschedule, Free, Forget, HandlerPanics, Cancel, Callback, Goto, NextIndex,
       Seam, Pumping, TInv, TypeOK
  <2>4. \A t \in Streamer : Idx(t)' = Idx(t)
    BY <2>1 DEF Idx
  <2>5. \A t \in Streamer : \A i \in Idx(t) :
          (Held(t, i)' => Held(t, i)) /\ (pc'[t] \in Prologue => pc[t] \in Prologue)
    BY <2>1, <2>2, <2>3, <2>4 DEF Held, Claimed, Prologue, Seam, Pumping
  <2>. QED
    BY <1>4, <2>1, <2>4, <2>5
<1>6. ASSUME NEW s \in Streamer, Unclaim(s)
      PROVE  HeldInv'
  <2>1. \A t \in Streamer : t # s => devs'[t] = devs[t] /\ pc'[t] = pc[t] /\ k'[t] = k[t]
    BY <1>6 DEF Unclaim, Return, Goto, TInv, TypeOK
  <2>2. UNCHANGED <<open, closing>>
    BY <1>6 DEF Unclaim, handleVars
  <2>3. k[s] \in Nat /\ pc[s] = "unclaim"
    BY <1>6, MaxDevsAssumption DEF Unclaim, TInv, TypeOK
  <2>4. \/ pc'[s] = "idle"
        \/ pc'[s] = "unclaim" /\ k'[s] = k[s] - 1 /\ devs'[s] = devs[s]
    BY <1>6 DEF Unclaim, Return, Goto, TInv, TypeOK
  <2>5. ASSUME NEW t \in Streamer, NEW i \in Idx(t)'
        PROVE  /\ Held(t, i)' => i \in Idx(t) /\ Held(t, i) /\ devs'[t] = devs[t]
               /\ pc'[t] \in Prologue => i \in Idx(t) /\ pc[t] \in Prologue /\ devs'[t] = devs[t]
    <3>1. CASE t = s
      BY <2>3, <2>4, <2>5, <3>1 DEF Held, Claimed, Prologue, Seam, Pumping, Idx
    <3>2. CASE t # s
      BY <2>1, <2>5, <3>2 DEF Held, Claimed, Idx
    <3>. QED
      BY <3>1, <3>2
  <2>. QED
    BY <1>4, <2>2, <2>5
<1>7. CASE UNCHANGED vars
  <2>1. UNCHANGED <<open, closing, devs, pc, k>>
    BY <1>7 DEF vars, handleVars, callVars
  <2>. QED
    BY <1>4, <2>1 DEF Held, Claimed, Idx
<1>. QED
  BY <1>1, <1>2, <1>3, <1>5, <1>6, <1>7 DEF Next, Run

-----------------------------------------------------------------------------
\* A step that leaves IOKit alone and takes no call out of what it has set up.
Undisturbed ==
    /\ UNCHANGED iokitVars
    /\ \A s \in Streamer, i \in 1..MaxDevs :
          /\ Registered(s, i) => Registered(s, i)' /\ devs'[s] = devs[s]
          /\ Scheduled(s, i) => Scheduled(s, i)' /\ devs'[s] = devs[s]
          /\ Allocated(s, i)' => Allocated(s, i) /\ devs'[s] = devs[s]

LEMMA UndisturbedKeeps == TInv /\ TInv' /\ IOKitInv /\ Undisturbed => IOKitInv'
<1>. SUFFICES ASSUME TInv, TInv', IOKitInv, Undisturbed
              PROVE  IOKitInv'
  OBVIOUS
<1>0. UNCHANGED <<cb, sched, buf>>
  BY DEF Undisturbed, iokitVars
<1>1. ASSUME NEW s \in Streamer, NEW i \in Idx(s)', Allocated(s, i)'
      PROVE  <<s, i>> \in buf'
  <2>1. pc'[s] # "idle"
    BY <1>1 DEF Allocated, Pumping
  <2>2. i \in 1..MaxDevs
    BY <1>1, <2>1, ArgsSeq, IndexRange DEF TInv, LoopOK, Idx
  <2>. QED
    BY <1>0, <1>1, <2>2 DEF Undisturbed, IOKitInv, Idx
<1>2. ASSUME NEW d \in Device, NEW s \in Streamer, NEW i \in 1..MaxDevs, cb'[d] = <<s, i>>
      PROVE  i \in Idx(s)' /\ devs'[s][i] = d /\ Registered(s, i)'
  BY <1>0, <1>2 DEF Undisturbed, IOKitInv, Idx
<1>3. ASSUME NEW d \in Device, NEW s \in sched'[d]
      PROVE  \E i \in Idx(s)' : devs'[s][i] = d /\ Scheduled(s, i)'
  <2>1. PICK i \in Idx(s) : devs[s][i] = d /\ Scheduled(s, i)
    BY <1>0, <1>3 DEF IOKitInv
  <2>2. s \in Streamer /\ i \in 1..MaxDevs
    <3>1. s \in Streamer
      BY <1>0, <1>3 DEF TInv, TypeOK
    <3>2. pc[s] # "idle"
      BY <2>1 DEF Scheduled, Pumping
    <3>. QED
      BY <2>1, <3>1, <3>2, CurOK, IndexRange DEF Idx
  <2>. QED
    BY <2>1, <2>2 DEF Undisturbed, Idx
<1>. QED
  BY <1>1, <1>2, <1>3 DEF IOKitInv

LEMMA MostStepsUndisturbed ==
    ASSUME TInv, [Next]_vars,
           \A s \in Streamer : ~Schedule(s) /\ ~Detach(s) /\ ~Unschedule(s) /\ ~Free(s)
    PROVE  Undisturbed
<1>1. ASSUME NEW d \in Device, Owner(d)
      PROVE  Undisturbed
  <2>1. UNCHANGED <<iokitVars, devs, pc, k>>
    BY <1>1 DEF Owner, Open, CloseCheck, CloseNative, CloseRelease, callVars
  <2>. QED
    BY <2>1 DEF Undisturbed, Registered, Scheduled, Allocated
<1>2. ASSUME NEW s \in Streamer, UNCHANGED iokitVars,
             \A t \in Streamer : t # s => devs'[t] = devs[t] /\ pc'[t] = pc[t] /\ k'[t] = k[t],
             \/ pc[s] \in Prologue \cup {"idle"} /\ pc'[s] \in Prologue \cup {"idle", "install"}
             \/ pc[s] = "install" /\ pc'[s] = "schedule" /\ k'[s] = 1
             \/ pc[s] \in Pumping /\ pc'[s] \in Pumping /\ devs'[s] = devs[s]
             \/ pc[s] \in Pumping /\ pc'[s] = "detach" /\ k'[s] = 1 /\ devs'[s] = devs[s]
             \/ pc[s] \in {"forget", "unclaim"} /\ pc'[s] \in {"unclaim", "idle"}
             \/ pc'[s] = pc[s] /\ k'[s] = k[s] /\ devs'[s] = devs[s]
      PROVE  Undisturbed
  <2>1. ASSUME NEW i \in 1..MaxDevs
        PROVE  /\ Registered(s, i) => Registered(s, i)' /\ devs'[s] = devs[s]
               /\ Scheduled(s, i) => Scheduled(s, i)' /\ devs'[s] = devs[s]
               /\ Allocated(s, i)' => Allocated(s, i) /\ devs'[s] = devs[s]
    BY <1>2, <2>1, MaxDevsAssumption DEF Registered, Scheduled, Allocated, Pumping, Prologue
  <2>2. ASSUME NEW t \in Streamer, t # s, NEW i \in 1..MaxDevs
        PROVE  /\ Registered(t, i) => Registered(t, i)' /\ devs'[t] = devs[t]
               /\ Scheduled(t, i) => Scheduled(t, i)' /\ devs'[t] = devs[t]
               /\ Allocated(t, i)' => Allocated(t, i) /\ devs'[t] = devs[t]
    BY <1>2, <2>2 DEF Registered, Scheduled, Allocated
  <2>. QED
    BY <1>2, <2>1, <2>2 DEF Undisturbed
<1>3. ASSUME NEW s \in Streamer, NEW ds \in Args, NEW done \in BOOLEAN, Call(s, ds, done)
      PROVE  Undisturbed
  BY <1>2, <1>3 DEF Call, Goto, TInv, TypeOK, Prologue
<1>4. ASSUME NEW s \in Streamer, Validate(s) \/ Claim(s)
      PROVE  Undisturbed
  <2>1. pc[s] \in Prologue /\ pc'[s] \in Prologue \cup {"idle", "install"}
    BY <1>4 DEF Validate, Claim, NextIndex, Return, Goto, TInv, TypeOK, Prologue
  <2>. QED
    BY <1>2, <1>4, <2>1 DEF Validate, Claim, NextIndex, Return, Goto, TInv, TypeOK
<1>5. ASSUME NEW s \in Streamer, Install(s) \/ Forget(s)
      PROVE  Undisturbed
  BY <1>2, <1>5 DEF Install, Forget, Goto, TInv, TypeOK
<1>6. ASSUME NEW s \in Streamer,
             \/ CheckContext(s) \/ PumpReturns(s) \/ HandlerReturns(s) \/ HandlerPanics(s)
             \/ \E d \in Device : Callback(s, d)
      PROVE  Undisturbed
  BY <1>2, <1>6 DEF CheckContext, PumpReturns, HandlerReturns, HandlerPanics, Callback,
     Goto, TInv, TypeOK, Pumping
<1>7. ASSUME NEW s \in Streamer, Unclaim(s)
      PROVE  Undisturbed
  BY <1>2, <1>7 DEF Unclaim, Return, Goto, TInv, TypeOK
<1>8. ASSUME NEW s \in Streamer, Cancel(s)
      PROVE  Undisturbed
  BY <1>2, <1>8 DEF Cancel
<1>9. CASE UNCHANGED vars
  <2>1. UNCHANGED <<iokitVars, devs, pc, k>>
    BY <1>9 DEF vars, callVars
  <2>. QED
    BY <2>1 DEF Undisturbed, Registered, Scheduled, Allocated
<1>. QED
  BY <1>1, <1>3, <1>4, <1>5, <1>6, <1>7, <1>8, <1>9 DEF Next, Run

\* The scheduling loop and the clean-up loop keep IOKit's state in step.
LEMMA IOKitStep == TInv /\ TInv' /\ IOKitInv /\ [Next]_vars => IOKitInv'
<1>. SUFFICES ASSUME TInv, TInv', IOKitInv, [Next]_vars
              PROVE  IOKitInv'
  OBVIOUS
<1>1. CASE \A s \in Streamer : ~Schedule(s) /\ ~Detach(s) /\ ~Unschedule(s) /\ ~Free(s)
  BY <1>1, MostStepsUndisturbed, UndisturbedKeeps
<1>2. ASSUME NEW s \in Streamer, Schedule(s) \/ Detach(s) \/ Unschedule(s) \/ Free(s)
      PROVE  IOKitInv'
  <2>1. UNCHANGED devs /\ \A t \in Streamer : Idx(t)' = Idx(t)
    BY <1>2 DEF Schedule, Detach, Unschedule, Free, Idx
  <2>2. \A t \in Streamer : t # s => pc'[t] = pc[t] /\ k'[t] = k[t]
    BY <1>2 DEF Schedule, Detach, Unschedule, Free, NextIndex, Goto, TInv, TypeOK
  <2>3. /\ k[s] \in Idx(s) /\ Len(devs[s]) \in Nat /\ Idx(s) = 1..Len(devs[s])
        /\ Cur(s) = devs[s][k[s]] /\ Cur(s) \in Device
    BY <1>2, CurOK, IndexRange DEF Schedule, Detach, Unschedule, Free, Idx, Cur
  <2>4. \/ /\ Schedule(s) /\ pc[s] = "schedule"
           /\ \/ pc'[s] = "schedule" /\ k'[s] = k[s] + 1
              \/ pc'[s] = "check" /\ k[s] = Len(devs[s])
        \/ Detach(s) /\ pc[s] = "detach" /\ pc'[s] = "unschedule" /\ k'[s] = k[s]
        \/ Unschedule(s) /\ pc[s] = "unschedule" /\ pc'[s] = "free" /\ k'[s] = k[s]
        \/ /\ Free(s) /\ pc[s] = "free"
           /\ \/ pc'[s] = "detach" /\ k'[s] = k[s] + 1
              \/ pc'[s] = "forget" /\ k[s] = Len(devs[s])
    BY <1>2, <2>3, SMTT(60) DEF Schedule, Detach, Unschedule, Free, NextIndex, Goto, TInv, TypeOK
  <2>5. \A t \in Streamer \ {s} : \A i \in 1..MaxDevs :
          /\ Registered(t, i)' <=> Registered(t, i)
          /\ Scheduled(t, i)' <=> Scheduled(t, i)
          /\ Allocated(t, i)' <=> Allocated(t, i)
    BY <2>2 DEF Registered, Scheduled, Allocated
  <2>6. \A t \in Streamer : pc[t] # "idle" => Idx(t) \subseteq 1..MaxDevs
    BY CurOK, IndexRange DEF Idx
  <2>7. ASSUME NEW t \in Streamer, NEW i \in Idx(t), Allocated(t, i)'
        PROVE  <<t, i>> \in buf'
    <3>1. i \in 1..MaxDevs
      <4>1. pc[t] # "idle"
        BY <2>2, <2>4, <2>7 DEF Allocated, Pumping
      <4>. QED
        BY <2>6, <2>7, <4>1
    <3>2. CASE t # s
      <4>1. <<t, i>> \in buf
        BY <2>5, <2>7, <3>1, <3>2 DEF IOKitInv
      <4>. QED
        BY <2>4, <3>2, <4>1 DEF Schedule, Detach, Unschedule, Free
    <3>3. CASE t = s
      <4>1. CASE Schedule(s)
        <5>1. i < k[s] \/ i = k[s]
          BY <2>3, <2>4, <2>7, <3>3, <4>1 DEF Allocated, Pumping, Schedule
        <5>2. i < k[s] => <<s, i>> \in buf
          BY <2>7, <3>3, <4>1 DEF IOKitInv, Allocated, Schedule
        <5>. QED
          BY <3>3, <4>1, <5>1, <5>2 DEF Schedule
      <4>2. CASE Detach(s) \/ Unschedule(s)
        <5>1. Allocated(s, i)
          BY <2>4, <2>7, <3>3, <4>2 DEF Allocated, Pumping, Detach, Unschedule
        <5>. QED
          BY <2>7, <3>3, <4>2, <5>1 DEF IOKitInv, Detach, Unschedule
      <4>3. CASE Free(s)
        <5>1. Allocated(s, i) /\ i # k[s]
          BY <2>3, <2>4, <2>7, <3>3, <4>3 DEF Allocated, Pumping, Free
        <5>. QED
          BY <2>7, <3>3, <4>3, <5>1 DEF IOKitInv, Free
      <4>. QED
        BY <2>4, <4>1, <4>2, <4>3
    <3>. QED
      BY <3>2, <3>3
  <2>8. ASSUME NEW d \in Device, NEW t \in Streamer, NEW i \in 1..MaxDevs, cb'[d] = <<t, i>>
        PROVE  i \in Idx(t) /\ devs[t][i] = d /\ Registered(t, i)'
    <3>1. \/ cb[d] = <<t, i>> /\ (Detach(s) => d # Cur(s))
          \/ Schedule(s) /\ d = Cur(s) /\ t = s /\ i = k[s]
      <4>1. cb \in [Device -> Slots \cup {None}] /\ <<t, i>> # None
        BY NoneAssumption DEF TInv, TypeOK
      <4>2. CASE Schedule(s)
        <5>1. cb'[d] = IF d = Cur(s) THEN <<s, k[s]>> ELSE cb[d]
          BY <4>1, <4>2 DEF Schedule
        <5>2. <<s, k[s]>> = <<t, i>> => t = s /\ i = k[s]
          OBVIOUS
        <5>. QED
          BY <2>4, <2>8, <4>2, <5>1, <5>2 DEF Schedule, Detach
      <4>3. CASE Detach(s)
        <5>1. cb'[d] = IF d = Cur(s) THEN None ELSE cb[d]
          BY <4>1, <4>3 DEF Detach
        <5>. QED
          BY <2>8, <4>1, <5>1
      <4>4. CASE Unschedule(s) \/ Free(s)
        BY <2>4, <2>8, <4>4 DEF Unschedule, Free, Detach
      <4>. QED
        BY <2>4, <4>2, <4>3, <4>4
    <3>2. CASE Schedule(s) /\ d = Cur(s) /\ t = s /\ i = k[s]
      BY <2>3, <2>4, <3>2 DEF Registered, Pumping, Schedule
    <3>3. CASE cb[d] = <<t, i>> /\ (Detach(s) => d # Cur(s))
      <4>1. i \in Idx(t) /\ devs[t][i] = d /\ Registered(t, i)
        BY <2>8, <3>3 DEF IOKitInv
      <4>2. CASE t # s
        BY <2>5, <2>8, <4>1, <4>2
      <4>3. CASE t = s
        <5>1. i \in 1..Len(devs[s]) /\ (Detach(s) => i # k[s])
          BY <2>3, <3>3, <4>1, <4>3
        <5>2. Registered(s, i)'
          BY <2>3, <2>4, <2>8, <4>1, <4>3, <5>1 DEF Registered, Pumping
        <5>. QED
          BY <4>1, <4>3, <5>2
      <4>. QED
        BY <4>2, <4>3
    <3>. QED
      BY <3>1, <3>2, <3>3
  <2>9. ASSUME NEW d \in Device, NEW t \in sched'[d]
        PROVE  \E i \in Idx(t) : devs[t][i] = d /\ Scheduled(t, i)'
    <3>1. \/ t \in sched[d] /\ (Unschedule(s) => d # Cur(s) \/ t # s)
          \/ Schedule(s) /\ d = Cur(s) /\ t = s
      BY <2>4, <2>9 DEF Schedule, Detach, Unschedule, Free, TInv, TypeOK
    <3>2. CASE Schedule(s) /\ d = Cur(s) /\ t = s
      <4>1. ASSUME NEW i \in Idx(s), i = k[s]
            PROVE  Scheduled(s, i)'
        BY <2>3, <2>4, <3>2, <4>1 DEF Scheduled, Pumping, Schedule
      <4>. QED
        BY <2>3, <3>2, <4>1
    <3>3. CASE t \in sched[d] /\ (Unschedule(s) => d # Cur(s) \/ t # s)
      <4>1. PICK i \in Idx(t) : devs[t][i] = d /\ Scheduled(t, i)
        BY <3>3 DEF IOKitInv
      <4>2. t \in Streamer /\ i \in 1..MaxDevs
        BY <2>6, <3>3, <4>1 DEF Scheduled, Pumping, TInv, TypeOK
      <4>3. CASE t # s
        BY <2>5, <4>1, <4>2, <4>3
      <4>4. CASE t = s
        <5>1. i \in 1..Len(devs[s]) /\ (Unschedule(s) => i # k[s])
          BY <2>3, <3>3, <4>1, <4>4
        <5>2. Scheduled(s, i)'
          BY <2>3, <2>4, <4>1, <4>2, <4>4, <5>1 DEF Scheduled, Pumping
        <5>. QED
          BY <4>1, <4>4, <5>2
      <4>. QED
        BY <4>3, <4>4
    <3>. QED
      BY <3>1, <3>2, <3>3
  <2>. QED
    BY <2>1, <2>7, <2>8, <2>9 DEF IOKitInv, TInv, TypeOK
<1>. QED
  BY <1>1, <1>2

-----------------------------------------------------------------------------
Inv == TInv /\ ClaimsCounted /\ IOKitInv

LEMMA InvHolds == Spec => []Inv
<1>1. Init => Inv
  BY TInvInit, CountInit, SafetyInit DEF Inv
<1>2. Inv /\ [Next]_vars => Inv'
  BY TInvStep, CountStep, IOKitStep DEF Inv
<1>. QED
  BY <1>1, <1>2, PTL DEF Spec

\* A slot with a callback registered has its buffer still allocated: no report is
\* ever written into freed memory, however Stream and Close interleave.
THEOREM DetachedBeforeFreed == Spec => []NoWriteAfterFree
<1>1. Inv => NoWriteAfterFree
  <2>. SUFFICES ASSUME Inv, NEW d \in Device, cb[d] # None
                PROVE  cb[d] \in buf
    BY DEF NoWriteAfterFree
  <2>1. PICK s \in Streamer, i \in 1..MaxDevs : cb[d] = <<s, i>>
    BY DEF Inv, TInv, TypeOK, Slots
  <2>2. i \in Idx(s) /\ Registered(s, i)
    BY <2>1 DEF Inv, IOKitInv
  <2>3. Allocated(s, i)
    BY <2>2, MaxDevsAssumption DEF Registered, Allocated, Inv, TInv, TypeOK
  <2>. QED
    BY <2>1, <2>2, <2>3 DEF Inv, IOKitInv
<1>. QED
  BY <1>1, InvHolds, PTL

LEMMA HeldHolds ==
    ASSUME ~CloseAnytime
    PROVE  Spec => [](Inv /\ CloseInv /\ HeldInv)
<1>1. Init => Inv /\ CloseInv /\ HeldInv
  BY TInvInit, CountInit, SafetyInit DEF Inv
<1>2. Inv /\ CloseInv /\ HeldInv /\ [Next]_vars => (Inv /\ CloseInv /\ HeldInv)'
  BY TInvStep, CountStep, IOKitStep, CloseStep, HeldStep DEF Inv
<1>. QED
  BY <1>1, <1>2, PTL DEF Spec

\* Close never kills the process: if no Close overlaps the set-up of a Stream call
\* on its device, then a device IOKit has a callback or a schedule for is open and
\* retained. The refusal of Close is all that protects it from there on.
THEOREM NoCloseUnderStream ==
    ASSUME ~CloseAnytime
    PROVE  Spec => []ScheduledIsRetained
<1>1. Inv /\ CloseInv /\ HeldInv => ScheduledIsRetained
  <2>. SUFFICES ASSUME Inv, CloseInv, HeldInv, NEW d \in Device,
                       cb[d] # None \/ sched[d] # {}
                PROVE  open[d]
    BY DEF ScheduledIsRetained, CloseInv
  <2>1. \E s \in Streamer : \E i \in Idx(s) :
            devs[s][i] = d /\ (Registered(s, i) \/ Scheduled(s, i))
    <3>1. CASE cb[d] # None
      <4>1. PICK s \in Streamer, i \in 1..MaxDevs : cb[d] = <<s, i>>
        BY <3>1 DEF Inv, TInv, TypeOK, Slots
      <4>. QED
        BY <4>1 DEF Inv, IOKitInv
    <3>2. CASE sched[d] # {}
      BY <3>2 DEF Inv, IOKitInv, TInv, TypeOK
    <3>. QED
      BY <3>1, <3>2
  <2>2. PICK s \in Streamer : \E i \in Idx(s) :
            devs[s][i] = d /\ (Registered(s, i) \/ Scheduled(s, i))
    BY <2>1
  <2>3. PICK i \in Idx(s) : devs[s][i] = d /\ (Registered(s, i) \/ Scheduled(s, i))
    BY <2>2
  <2>4. Held(s, i)
    BY <2>3 DEF Registered, Scheduled, Held, Claimed, Seam
  <2>. QED
    BY <2>3, <2>4 DEF HeldInv
<1>. QED
  BY <1>1, HeldHolds, PTL

-----------------------------------------------------------------------------
\* The abstract state and holders HidStream is mapped to.
StateOf(d) == IF ~retained[d] THEN "released" ELSE IF open[d] THEN "open" ELSE "closed"
HoldersOf(d) == {c[1] : c \in Claims(d)}

LEMMA OwnershipInit == Init => Ownership!Init
<1>1. ASSUME Init, NEW d \in Device
      PROVE  Claims(d) = {}
  BY <1>1 DEF Init, Claims, Claimed, Slots, Seam, Pumping
<1>2. ASSUME Init, NEW d \in Device
      PROVE  HoldersOf(d) = {} /\ StateOf(d) = "closed"
  BY <1>1, <1>2 DEF HoldersOf, StateOf, Init
<1>. QED
  BY <1>2 DEF Ownership!Init, HoldersOf, StateOf

\* A device that is being closed has no holder.
LEMMA ClosedUnheld ==
    ASSUME Inv, HeldInv, NEW d \in Device, closing[d] # "no"
    PROVE  Claims(d) = {}
<1>. SUFFICES ASSUME NEW c \in Claims(d)
              PROVE  FALSE
  OBVIOUS
<1>1. c[1] \in Streamer /\ Claimed(c[1], c[2]) /\ devs[c[1]][c[2]] = d
  BY DEF Claims, Slots
<1>. QED
  BY <1>1 DEF HeldInv, Held, Claimed

\* A step that changes one handle and no claim, as the abstract protocol sees it.
LEMMA OwnerRefines ==
    ASSUME Inv, CloseInv, HeldInv, [Next]_vars, NEW d \in Device, Owner(d)
    PROVE  Ownership!Next \/ UNCHANGED Ownership!ownershipVars
<1>1. UNCHANGED callVars /\ UNCHANGED streaming
  BY DEF Owner, Open, CloseCheck, CloseNative, CloseRelease
<1>2. SameClaims
  BY <1>1 DEF SameClaims, Claimed, Idx, callVars
<1>3. \A e \in Device : Claims(e)' = Claims(e)
  BY <1>2, SameClaimsSet
<1>4. \A e \in Device : HoldersOf(e)' = HoldersOf(e)
  BY <1>3 DEF HoldersOf
<1>5. \A e \in Device \ {d} : StateOf(e)' = StateOf(e)
  BY DEF Owner, Open, CloseCheck, CloseNative, CloseRelease, StateOf, Inv, TInv, TypeOK
<1>6. \/ StateOf(d)' = StateOf(d)
      \/ StateOf(d) = "closed" /\ StateOf(d)' = "open"
      \/ StateOf(d) = "open" /\ StateOf(d)' = "closed" /\ Claims(d) = {}
      \/ StateOf(d) = "closed" /\ StateOf(d)' = "released" /\ Claims(d) = {}
  <2>1. CASE Open(d)
    BY <2>1 DEF Open, StateOf, Inv, TInv, TypeOK
  <2>2. CASE CloseCheck(d)
    BY <2>2 DEF CloseCheck, StateOf
  <2>3. CASE CloseNative(d)
    BY <2>3, ClosedUnheld DEF CloseNative, StateOf, CloseInv, Inv, TInv, TypeOK
  <2>4. CASE CloseRelease(d)
    BY <2>4, ClosedUnheld DEF CloseRelease, StateOf, CloseInv, Inv, TInv, TypeOK
  <2>. QED
    BY <2>1, <2>2, <2>3, <2>4 DEF Owner
<1>. DEFINE st == [e \in Device |-> StateOf(e)]
            ho == [e \in Device |-> HoldersOf(e)]
<1>7. ho' = ho
  BY <1>4
<1>8. st' = [st EXCEPT ![d] = StateOf(d)']
  BY <1>5
<1>9. Claims(d) = {} => ho[d] = {}
  BY DEF HoldersOf
<1>10. StateOf(d)' = StateOf(d) => st' = st
  BY <1>5
<1>11. \/ st' = st
       \/ st[d] = "closed" /\ st' = [st EXCEPT ![d] = "open"]
       \/ st[d] = "open" /\ ho[d] = {} /\ st' = [st EXCEPT ![d] = "closed"]
       \/ st[d] = "closed" /\ ho[d] = {} /\ st' = [st EXCEPT ![d] = "released"]
  BY <1>6, <1>8, <1>9, <1>10
<1>. QED
  BY <1>7, <1>11 DEF Ownership!Next, Ownership!OpenDevice, Ownership!Shut, Ownership!Release,
     Ownership!Move, Ownership!ownershipVars, StateOf, HoldersOf

\* The holders when one claim is added, and when one is removed.
LEMMA FirstsAdd ==
    ASSUME NEW C, NEW x
    PROVE  {c[1] : c \in C \cup {x}} = {c[1] : c \in C} \cup {x[1]}
OBVIOUS

LEMMA FirstsRemove ==
    ASSUME NEW C, NEW x \in C
    PROVE  \/ {c[1] : c \in C \ {x}} = {c[1] : c \in C}
           \/ {c[1] : c \in C \ {x}} = {c[1] : c \in C} \ {x[1]}
<1>1. CASE \E y \in C \ {x} : y[1] = x[1]
  BY <1>1
<1>2. CASE ~\E y \in C \ {x} : y[1] = x[1]
  BY <1>2
<1>. QED
  BY <1>1, <1>2

LEMMA OwnershipStep ==
    ASSUME ~CloseAnytime, Inv, CloseInv, HeldInv, [Next]_vars
    PROVE  Ownership!Next \/ UNCHANGED Ownership!ownershipVars
<1>. DEFINE st == [e \in Device |-> StateOf(e)]
            ho == [e \in Device |-> HoldersOf(e)]
<1>1. CASE \E d \in Device : Owner(d)
  BY <1>1, OwnerRefines
<1>2. ASSUME ~\E d \in Device : Owner(d)
      PROVE  st' = st
  <2>1. UNCHANGED <<open, retained>>
    BY <1>2 DEF Next, Call, Run, Validate, Claim, Install, Schedule, CheckContext,
       PumpReturns, HandlerReturns, Detach, Unschedule, Free, Forget, Unclaim, Callback,
       HandlerPanics, Cancel, vars, handleVars
  <2>. QED
    BY <2>1 DEF StateOf
<1>3. ASSUME NEW s \in Streamer, Claim(s), st' = st
      PROVE  Ownership!Next
  <2>1. Cur(s) \in Device /\ k[s] \in Idx(s) /\ pc[s] = "claim"
    BY <1>3, CurOK DEF Claim, Idx, Inv
  <2>2. st[Cur(s)] = "open"
    BY <2>1 DEF HeldInv, Held, CloseInv, Cur, StateOf
  <2>3. \A d \in Device : HoldersOf(d)' = IF d = Cur(s) THEN HoldersOf(d) \cup {s}
                                                     ELSE HoldersOf(d)
    <3>1. \A C : {c[1] : c \in C \cup {<<s, k[s]>>}} = {c[1] : c \in C} \cup {s}
      BY FirstsAdd
    <3>2. \A d \in Device : Claims(d)' = IF d = Cur(s) THEN Claims(d) \cup {<<s, k[s]>>}
                                                       ELSE Claims(d)
      BY <1>3, ClaimAdds DEF Inv
    <3>. QED
      BY <3>1, <3>2 DEF HoldersOf
  <2>4. ho' = [ho EXCEPT ![Cur(s)] = ho[Cur(s)] \cup {s}]
    BY <2>1, <2>3
  <2>. QED
    BY <1>3, <2>1, <2>2, <2>4 DEF Ownership!Next, Ownership!Hold, StateOf, HoldersOf
<1>4. ASSUME NEW s \in Streamer, Unclaim(s), st' = st
      PROVE  Ownership!Next \/ UNCHANGED Ownership!ownershipVars
  <2>1. Cur(s) \in Device
    BY <1>4, CurOK DEF Unclaim, Inv
  <2>2. /\ <<s, k[s]>> \in Claims(Cur(s))
        /\ \A d \in Device : Claims(d)' = IF d = Cur(s) THEN Claims(d) \ {<<s, k[s]>>}
                                                     ELSE Claims(d)
    BY <1>4, UnclaimRemoves DEF Inv
  <2>3. ASSUME NEW C, <<s, k[s]>> \in C
        PROVE  \/ {c[1] : c \in C \ {<<s, k[s]>>}} = {c[1] : c \in C}
               \/ {c[1] : c \in C \ {<<s, k[s]>>}} = {c[1] : c \in C} \ {s}
    BY <2>3, FirstsRemove
  <2>4. ASSUME NEW d \in Device
        PROVE  \/ HoldersOf(d)' = HoldersOf(d)
               \/ d = Cur(s) /\ HoldersOf(d)' = HoldersOf(d) \ {s}
    BY <2>2, <2>3 DEF HoldersOf
  <2>5. \/ ho' = ho
        \/ ho' = [ho EXCEPT ![Cur(s)] = ho[Cur(s)] \ {s}]
    BY <2>1, <2>4
  <2>. QED
    BY <1>4, <2>1, <2>5 DEF Ownership!Next, Ownership!Drop, Ownership!ownershipVars,
       StateOf, HoldersOf
<1>5. ASSUME \A s \in Streamer : ~Claim(s) /\ ~Unclaim(s), st' = st
      PROVE  UNCHANGED Ownership!ownershipVars
  <2>1. \A d \in Device : Claims(d)' = Claims(d)
    BY <1>5, OtherStepsKeepClaims, SameClaimsSet DEF Inv
  <2>2. ho' = ho
    BY <2>1 DEF HoldersOf
  <2>. QED
    BY <1>5, <2>2 DEF Ownership!ownershipVars, StateOf, HoldersOf
<1>. QED
  BY <1>1, <1>2, <1>3, <1>4, <1>5

\* The detailed protocol implements the ownership of devices by Stream calls.
THEOREM RefinesOwnership ==
    ASSUME ~CloseAnytime
    PROVE  Spec => ImplementsOwnership
<1>1. Inv /\ CloseInv /\ HeldInv /\ [Next]_vars => [Ownership!Next]_(Ownership!ownershipVars)
  BY OwnershipStep
<1>. QED
  BY <1>1, OwnershipInit, HeldHolds, PTL DEF ImplementsOwnership, Ownership!Spec, Spec


-----------------------------------------------------------------------------
(* Where reports go.                                                         *)

\* Two calls have no device in common that is not Shared.
ApartInv ==
    \A s, t \in Streamer : s # t =>
        \A i \in Idx(s), j \in Idx(t) : devs[s][i] = devs[t][j] => devs[s][i] \in Shared

\* The registry has the devices of call s; its i-th device has been scheduled.
Live(s) == pc[s] = "schedule" \/ pc[s] \in Pumping
Ready(s, i) == (pc[s] = "schedule" /\ i < k[s]) \/ pc[s] \in Pumping

Entered(s, i) ==
    \E j \in Idx(s) : registry[devs[s][i]] = <<s, j>> /\ devs[s][j] = devs[s][i]

RouteInv ==
    \A s \in Streamer : \A i \in Idx(s) : devs[s][i] \notin Shared =>
        /\ Live(s) => Entered(s, i)
        /\ Ready(s, i) => s \in sched[devs[s][i]] /\ cb[devs[s][i]] # None

\* The step of a call.
Moves(s) ==
    \/ \E ds \in Args, done \in BOOLEAN : Call(s, ds, done)
    \/ Run(s) \/ (\E d \in Device : Callback(s, d)) \/ HandlerPanics(s) \/ Cancel(s)

LEMMA StepIsOf ==
    ASSUME [Next]_vars
    PROVE  \/ UNCHANGED <<iokitVars, registry, devs, pc, k>>
           \/ \E s \in Streamer : Moves(s)
<1>1. ASSUME NEW d \in Device, Owner(d)
      PROVE  UNCHANGED <<iokitVars, registry, devs, pc, k>>
  BY <1>1 DEF Owner, Open, CloseCheck, CloseNative, CloseRelease, callVars
<1>2. CASE UNCHANGED vars
  BY <1>2 DEF vars, callVars
<1>. QED
  BY <1>1, <1>2 DEF Next, Moves

\* It moves nobody else.
LEMMA MovesAlone ==
    ASSUME TInv, NEW s \in Streamer, Moves(s), NEW t \in Streamer, t # s
    PROVE  devs'[t] = devs[t] /\ pc'[t] = pc[t] /\ k'[t] = k[t]
<1>1. CASE \/ \E ds \in Args, done \in BOOLEAN : Call(s, ds, done)
           \/ Validate(s) \/ Claim(s) \/ Install(s) \/ Schedule(s) \/ Unclaim(s)
  BY <1>1 DEF Call, Validate, Claim, Install, Schedule, Unclaim, NextIndex, Return, Goto, TInv, TypeOK
<1>2. CASE \/ CheckContext(s) \/ PumpReturns(s) \/ HandlerReturns(s)
           \/ Detach(s) \/ Unschedule(s) \/ Free(s) \/ Forget(s)
           \/ (\E d \in Device : Callback(s, d)) \/ HandlerPanics(s) \/ Cancel(s)
  BY <1>2 DEF CheckContext, PumpReturns, HandlerReturns, Detach, Unschedule, Free, Forget,
     Callback, HandlerPanics, Cancel, Goto, TInv, TypeOK
<1>. QED
  BY <1>1, <1>2 DEF Moves, Run

\* A call that is not being made keeps its list or gives it up.
LEMMA ListKept ==
    ASSUME TInv, NEW s \in Streamer, Moves(s),
           ~ \E ds \in Args, done \in BOOLEAN : Call(s, ds, done)
    PROVE  devs'[s] \in {devs[s], << >>}
<1>1. CASE Validate(s) \/ Unclaim(s)
  BY <1>1 DEF Validate, Unclaim, Return, TInv, TypeOK
<1>2. CASE ~Validate(s) /\ ~Unclaim(s)
  BY <1>2 DEF Moves, Run, Claim, Install, Schedule, CheckContext, PumpReturns, HandlerReturns,
     Detach, Unschedule, Free, Forget, Callback, HandlerPanics, Cancel
<1>. QED
  BY <1>1, <1>2

LEMMA ApartStep == TInv /\ ApartInv /\ [Next]_vars => ApartInv'
<1>. SUFFICES ASSUME TInv, ApartInv, [Next]_vars
              PROVE  ApartInv'
  OBVIOUS
<1>1. CASE UNCHANGED <<iokitVars, registry, devs, pc, k>>
  BY <1>1 DEF ApartInv, Idx
<1>2. ASSUME NEW s \in Streamer, Moves(s)
      PROVE  ApartInv'
  <2>1. \A t \in Streamer : t # s => devs'[t] = devs[t]
    BY <1>2, MovesAlone
  <2>2. CASE \E ds \in Args, done \in BOOLEAN : Call(s, ds, done)
    <3>1. PICK ds \in Args, done \in BOOLEAN : Call(s, ds, done)
      BY <2>2
    <3>2. devs'[s] = ds
      BY <3>1 DEF Call, TInv, TypeOK
    <3>3. DOMAIN ds = 1..Len(ds)
      BY ArgsSeq
    <3>4. \A i \in 1..Len(ds) : ds[i] \in Shared \/
              \A t \in Streamer \ {s} : \A j \in Idx(t) : devs[t][j] # ds[i]
      BY <3>1, <3>3 DEF Call, MayCall, Devs
    <3>. QED
      BY <2>1, <3>2, <3>4 DEF ApartInv, Idx
  <2>3. CASE ~ \E ds \in Args, done \in BOOLEAN : Call(s, ds, done)
    <3>1. devs'[s] \in {devs[s], << >>}
      BY <1>2, <2>3, ListKept
    <3>2. \A t \in Streamer : (Idx(t)' = Idx(t) /\ devs'[t] = devs[t]) \/ Idx(t)' = {}
      BY <2>1, <3>1 DEF Idx
    <3>. QED
      BY <3>2 DEF ApartInv
  <2>. QED
    BY <2>2, <2>3
<1>. QED
  BY <1>1, <1>2, StepIsOf

\* A call leaves alone what others have set up on devices that are not Shared.
LEMMA OthersRouted ==
    ASSUME TInv, ApartInv, NEW s \in Streamer, Moves(s), NEW t \in Streamer, t # s,
           NEW i \in Idx(t), devs[t][i] \notin Shared, pc[t] # "idle"
    PROVE  /\ registry'[devs[t][i]] = registry[devs[t][i]]
           /\ cb[devs[t][i]] # None => cb'[devs[t][i]] # None
           /\ t \in sched[devs[t][i]] => t \in sched'[devs[t][i]]
<1>. DEFINE d == devs[t][i]
<1>0. d \in Device /\ \A j \in Idx(s) : devs[s][j] # d
  BY CurOK DEF ApartInv
<1>1. CASE Install(s) \/ Forget(s)
  <2>1. registry'[d] = registry[d]
    BY <1>0, <1>1 DEF Install, Forget, Devs
  <2>. QED
    BY <1>1, <2>1 DEF Install, Forget, iokitVars
<1>2. CASE Schedule(s) \/ Detach(s) \/ Unschedule(s) \/ Free(s)
  <2>1. Cur(s) # d
    BY <1>0, <1>2, CurOK DEF Schedule, Detach, Unschedule, Free, Cur, Idx
  <2>. QED
    BY <1>0, <1>2, <2>1 DEF Schedule, Detach, Unschedule, Free, TInv, TypeOK
<1>3. CASE ~(Install(s) \/ Forget(s) \/ Schedule(s) \/ Detach(s) \/ Unschedule(s) \/ Free(s))
  <2>1. UNCHANGED <<iokitVars, registry>>
    BY <1>3 DEF Moves, Run, Call, Validate, Claim, CheckContext, PumpReturns, HandlerReturns,
       Unclaim, Callback, HandlerPanics, Cancel
  <2>. QED
    BY <2>1 DEF iokitVars
<1>. QED
  BY <1>1, <1>2, <1>3

\* A call sets up its own devices before it pumps.
LEMMA OwnRouted ==
    ASSUME TInv, RouteInv, NEW s \in Streamer, Moves(s),
           NEW i \in Idx(s)', devs'[s][i] \notin Shared
    PROVE  /\ Live(s)' => Entered(s, i)'
           /\ Ready(s, i)' => s \in sched'[devs'[s][i]] /\ cb'[devs'[s][i]] # None
<1>1. CASE Install(s)
  <2>1. /\ devs' = devs /\ pc'[s] = "schedule" /\ k'[s] = 1 /\ pc[s] # "idle"
        /\ registry' = [d \in Device |-> IF d \in Devs(s) THEN Target(s, d) ELSE registry[d]]
    BY <1>1 DEF Install, Goto, TInv, TypeOK
  <2>0. i \in Idx(s) /\ Idx(s)' = Idx(s)
    BY <2>1 DEF Idx
  <2>2. devs[s][i] \in Device /\ devs[s][i] \in Devs(s) /\ ~(i < 1)
    <3>1. devs[s][i] \in Device /\ devs[s][i] \in Devs(s)
      BY <2>0, <2>1, CurOK DEF Devs
    <3>2. Len(devs[s]) \in 1..MaxDevs /\ i \in 1..Len(devs[s])
      BY <2>0, <2>1, CurOK DEF Idx
    <3>3. i \in 1..MaxDevs
      BY <3>2, IndexRange
    <3>. QED
      BY <3>1, <3>3, MaxDevsAssumption
  <2>3. \E j \in Idx(s) : Target(s, devs[s][i]) = <<s, j>> /\ devs[s][j] = devs[s][i]
    BY <2>1, <2>2, TargetType
  <2>4. Entered(s, i)'
    BY <2>0, <2>1, <2>2, <2>3 DEF Entered
  <2>5. ~Ready(s, i)'
    BY <2>1, <2>2 DEF Ready, Pumping
  <2>. QED
    BY <2>4, <2>5
<1>2. CASE Schedule(s)
  <2>1. /\ devs' = devs /\ registry' = registry /\ pc[s] = "schedule"
        /\ cb' = [cb EXCEPT ![Cur(s)] = <<s, k[s]>>]
        /\ sched' = [sched EXCEPT ![Cur(s)] = @ \cup {s}]
    BY <1>2 DEF Schedule
  <2>0. i \in Idx(s) /\ pc[s] # "idle"
    BY <2>1 DEF Idx
  <2>2. /\ i \in Idx(s) /\ devs[s][i] \in Device /\ Cur(s) \in Device /\ Cur(s) = devs[s][k[s]]
        /\ k[s] \in 1..Len(devs[s]) /\ Len(devs[s]) \in 1..MaxDevs
    BY <2>0, CurOK DEF Idx, Cur
  <2>3. Ready(s, i)' => i < k[s] \/ i = k[s]
    BY <1>2, <2>2, MaxDevsAssumption DEF Ready, Schedule, NextIndex, Goto, TInv, TypeOK, Pumping, Idx
  <2>4. <<s, k[s]>> # None
    BY <2>2, IndexRange, NoneAssumption
  <2>5. Entered(s, i)' /\ (i < k[s] => s \in sched[devs[s][i]] /\ cb[devs[s][i]] # None)
    BY <2>1, <2>2 DEF RouteInv, Live, Ready, Entered, Idx
  <2>6. Ready(s, i)' => s \in sched'[devs'[s][i]] /\ cb'[devs'[s][i]] # None
    BY <2>1, <2>2, <2>3, <2>4, <2>5 DEF TInv, TypeOK
  <2>. QED
    BY <2>5, <2>6
<1>3. CASE \/ CheckContext(s) \/ PumpReturns(s) \/ HandlerReturns(s) \/ Cancel(s)
           \/ \E d \in Device : Callback(s, d)
  <2>1. /\ UNCHANGED <<devs, registry, cb, sched>>
        /\ Live(s)' => Live(s)
        /\ Ready(s, i)' => Ready(s, i)
        /\ Ready(s, i)' => Live(s)'
    BY <1>3 DEF CheckContext, PumpReturns, HandlerReturns, Cancel, Callback, Goto, iokitVars,
       Live, Ready, Pumping, TInv, TypeOK
  <2>2. i \in Idx(s)
    BY <2>1 DEF Idx
  <2>. QED
    BY <2>1, <2>2 DEF RouteInv, Entered, Idx
<1>4. CASE \/ \E ds \in Args, done \in BOOLEAN : Call(s, ds, done)
           \/ Validate(s) \/ Claim(s) \/ Unclaim(s)
  <2>1. pc'[s] \in {"validate", "claim", "install", "unclaim", "idle"}
    BY <1>4 DEF Call, Validate, Claim, Unclaim, NextIndex, Return, Goto, TInv, TypeOK
  <2>. QED
    BY <2>1 DEF Live, Ready, Pumping
<1>5. CASE Detach(s) \/ Unschedule(s) \/ Free(s) \/ Forget(s) \/ HandlerPanics(s)
  <2>1. pc'[s] \in {"unschedule", "free", "detach", "forget", "unclaim"}
    BY <1>5 DEF Detach, Unschedule, Free, Forget, HandlerPanics, Goto, TInv, TypeOK
  <2>. QED
    BY <2>1 DEF Live, Ready, Pumping
<1>. QED
  BY <1>1, <1>2, <1>3, <1>4, <1>5 DEF Moves, Run

LEMMA RouteStep == TInv /\ ApartInv /\ RouteInv /\ [Next]_vars => RouteInv'
<1>. SUFFICES ASSUME TInv, ApartInv, RouteInv, [Next]_vars
              PROVE  RouteInv'
  OBVIOUS
<1>1. CASE UNCHANGED <<iokitVars, registry, devs, pc, k>>
  <2>1. /\ cb' = cb /\ sched' = sched /\ registry' = registry
        /\ devs' = devs /\ pc' = pc /\ k' = k
    BY <1>1 DEF iokitVars
  <2>2. ASSUME NEW t \in Streamer, NEW i \in Idx(t)', devs'[t][i] \notin Shared
        PROVE  /\ Live(t)' => Entered(t, i)'
               /\ Ready(t, i)' => t \in sched'[devs'[t][i]] /\ cb'[devs'[t][i]] # None
    <3>1. i \in Idx(t) /\ Idx(t)' = Idx(t) /\ devs[t][i] \notin Shared
      BY <2>1, <2>2 DEF Idx
    <3>2. /\ Live(t)' => Live(t)
          /\ Ready(t, i)' => Ready(t, i)
      BY <2>1 DEF Live, Ready
    <3>3. Entered(t, i) => Entered(t, i)'
      BY <2>1, <3>1 DEF Entered
    <3>. QED
      BY <2>1, <3>1, <3>2, <3>3 DEF RouteInv
  <2>. QED
    BY <2>2 DEF RouteInv
<1>2. ASSUME NEW s \in Streamer, Moves(s)
      PROVE  RouteInv'
  <2>1. ASSUME NEW t \in Streamer, NEW i \in Idx(t)', devs'[t][i] \notin Shared
        PROVE  /\ Live(t)' => Entered(t, i)'
               /\ Ready(t, i)' => t \in sched'[devs'[t][i]] /\ cb'[devs'[t][i]] # None
    <3>1. CASE t = s
      BY <1>2, <2>1, <3>1, OwnRouted
    <3>2. CASE t # s /\ Live(t)
      <4>1. devs'[t] = devs[t] /\ pc'[t] = pc[t] /\ k'[t] = k[t]
        BY <1>2, <3>2, MovesAlone
      <4>2. i \in Idx(t) /\ Idx(t)' = Idx(t) /\ pc[t] # "idle"
        BY <2>1, <3>2, <4>1 DEF Idx, Live, Pumping
      <4>3. /\ registry'[devs[t][i]] = registry[devs[t][i]]
            /\ cb[devs[t][i]] # None => cb'[devs[t][i]] # None
            /\ t \in sched[devs[t][i]] => t \in sched'[devs[t][i]]
        BY <1>2, <2>1, <3>2, <4>1, <4>2, OthersRouted
      <4>4. Entered(t, i)
        BY <2>1, <3>2, <4>1, <4>2 DEF RouteInv
      <4>5. Entered(t, i)'
        BY <4>1, <4>2, <4>3, <4>4 DEF Entered
      <4>6. Ready(t, i)' => Ready(t, i)
        BY <4>1 DEF Ready
      <4>. QED
        BY <2>1, <4>1, <4>2, <4>3, <4>5, <4>6 DEF RouteInv
    <3>3. CASE t # s /\ ~Live(t)
      <4>1. pc'[t] = pc[t]
        BY <1>2, <3>3, MovesAlone
      <4>. QED
        BY <3>3, <4>1 DEF Live, Ready
    <3>. QED
      BY <3>1, <3>2, <3>3
  <2>. QED
    BY <2>1 DEF RouteInv
<1>. QED
  BY <1>1, <1>2, StepIsOf

\* While a call pumps, a report from a device that it shares with no other call has
\* a callback, arrives on its own run loop and reaches its own handler, for any
\* number of calls over lists of any length (darwinStream, inputCallback).
THEOREM ReportsReachTheirStream == Spec => []Routed
<1>1. Init => ApartInv /\ RouteInv
  BY DEF Init, ApartInv, RouteInv, Idx
<1>2. Inv /\ ApartInv /\ RouteInv /\ [Next]_vars => (ApartInv /\ RouteInv)'
  BY ApartStep, RouteStep DEF Inv
<1>3. RouteInv => Routed
  BY DEF RouteInv, Routed, Live, Ready, Entered
<1>. QED
  BY <1>1, <1>2, <1>3, InvHolds, PTL DEF Spec

=============================================================================
