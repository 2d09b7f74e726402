--------------------------- MODULE UsbHandlesProofs ---------------------------
(***************************************************************************)
(* Proofs about UsbHandles, for any number of goroutines, handles, services*)
(* and tokens.                                                             *)
(*                                                                         *)
(* The properties follow from an invariant of four parts: what the map and *)
(* the records say of each other (Records), where a call can be and what   *)
(* it has then (Frames), that a token has one owner (Ownership), and that  *)
(* an open handle has a live interface (OpenInv).                          *)
(***************************************************************************)
EXTENDS UsbHandles, TLAPS

Records ==
    /\ \A t \in reg : /\ t < next /\ refs[t] = 1
                      /\ service[t] \in Service /\ dev[t] # "freed"
    /\ \A t \in Tok : t \notin reg /\ ~Freeing(t) => refs[t] = 0 /\ dev[t] # "live"

\* A call on a handle, and where it may be.
HandleFrame(c) ==
    /\ on[c] \in Handle /\ ref[on[c]] = tok[c] /\ tok[c] \in Tok
    /\ \/ at[c] = "attach" /\ op[c] \in {"open", "seize", "cached"} /\ tok[c] \in reg
       \/ at[c] = "open" /\ op[c] \in {"open", "seize"} /\ tok[c] \in reg /\ dev[tok[c]] = "live"
       \/ at[c] = "request" /\ op[c] \in {"use", "cached"} /\ tok[c] \in reg
       \/ at[c] = "close" /\ op[c] = "close" /\ tok[c] \in reg
       \/ at[c] = "drop" /\ op[c] = "close" /\ tok[c] \in reg /\ ~opened[on[c]]
       \/ at[c] = "free" /\ op[c] = "close" /\ ~opened[on[c]]

\* An enumeration, and where it may be.
EnumFrame(c) ==
    /\ op[c] = "enumerate" /\ on[c] = NoHandle
    /\ \/ at[c] \in {"drain", "sort"} /\ tok[c] = 0
       \/ at[c] = "drop" /\ tok[c] \in reg
       \/ at[c] = "free" /\ tok[c] \in Tok

IdleFrame(c) ==
    at[c] = "idle" /\ op[c] = "none" /\ on[c] = NoHandle /\ tok[c] = 0

FreeFrame(c) ==
    at[c] = "free" => /\ tok[c] \notin reg /\ tok[c] < next
                      /\ refs[tok[c]] = 1 /\ dev[tok[c]] # "freed"

Frames ==
    \A c \in Caller :
        /\ IdleFrame(c) \/ EnumFrame(c) \/ HandleFrame(c)
        /\ FreeFrame(c)

HandlesApart == \A h, g \in Handle : ref[h] = ref[g] /\ ref[h] # 0 => h = g
CallsApart   == \A c, d \in Caller : on[c] = on[d] /\ on[c] # NoHandle => c = d

\* The tokens an enumeration holds are nobody else's.
DrainedApart ==
    \A c \in Caller : \A t \in got[c] :
        /\ t \in reg
        /\ \A h \in Handle : ref[h] # t
        /\ \A d \in Caller : op[d] = "enumerate" => tok[d] # t
        /\ \A d \in Caller : t \in got[d] => d = c

RejectedApart ==
    \A c \in Caller : op[c] = "enumerate" /\ tok[c] # 0 =>
        /\ \A h \in Handle : ref[h] # tok[c]
        /\ \A d \in Caller : op[d] = "enumerate" /\ tok[d] = tok[c] => d = c

\* A handle's token is in the map until the handle's own Close takes it out.
HandlesHold ==
    \A h \in Handle : ref[h] # 0 =>
        ref[h] \in reg \/ \E c \in Caller : at[c] = "free" /\ on[c] = h

\* Nothing in the map is forgotten.
Remembered ==
    \A t \in reg :
        \/ \E h \in Handle : ref[h] = t
        \/ \E c \in Caller : t \in got[c]
        \/ \E c \in Caller : op[c] = "enumerate" /\ tok[c] = t

Ownership ==
    /\ HandlesApart /\ CallsApart /\ DrainedApart
    /\ RejectedApart /\ HandlesHold /\ Remembered

OpenInv ==
    \A h \in Handle : opened[h] =>
        /\ ref[h] \in reg /\ dev[ref[h]] = "live"
        /\ seized[h] => hasTO[ref[h]]

IInv == TypeOK /\ Records /\ Frames /\ Ownership /\ OpenInv /\ KernelAgrees

-----------------------------------------------------------------------------
\* Two calls never have the same token.
LEMMA TokensApart ==
    ASSUME Frames, Ownership, NEW c \in Caller, NEW d \in Caller,
           tok[c] = tok[d], tok[c] # 0
    PROVE  c = d
<1>1. ~IdleFrame(c) /\ ~IdleFrame(d)
  BY DEF IdleFrame
<1>2. (EnumFrame(c) \/ HandleFrame(c)) /\ (EnumFrame(d) \/ HandleFrame(d))
  BY <1>1 DEF Frames
<1>3. CASE EnumFrame(c) \/ EnumFrame(d)
  BY <1>2, <1>3 DEF EnumFrame, HandleFrame, Ownership, RejectedApart
<1>4. CASE HandleFrame(c) /\ HandleFrame(d)
  <2>1. on[c] = on[d]
    BY <1>4 DEF HandleFrame, Ownership, HandlesApart
  <2>. QED  BY <1>4, <2>1, NilAssumption DEF HandleFrame, Ownership, CallsApart
<1>. QED  BY <1>2, <1>3, <1>4

LEMMA InvInit == Init => IInv
<1>. SUFFICES ASSUME Init PROVE IInv
  OBVIOUS
<1>. USE DEF Init
<1>1. TypeOK
  BY BoundAssumption, OwnerAssumption DEF TypeOK, Tok
<1>2. Records
  BY DEF Records
<1>3. Frames
  BY DEF Frames, IdleFrame, FreeFrame
<1>4. Ownership
  BY DEF Ownership, HandlesApart, CallsApart, DrainedApart, RejectedApart, HandlesHold, Remembered
<1>5. OpenInv /\ KernelAgrees
  BY OwnerAssumption DEF OpenInv, KernelAgrees, Tok
<1>. QED  BY <1>1, <1>2, <1>3, <1>4, <1>5 DEF IInv

LEMMA EnumerateStep ==
    ASSUME IInv, NEW c \in Caller, NEW S \in SUBSET Service, Enumerate(c, S)
    PROVE  IInv'
<1>. USE DEF IInv, Enumerate, Goto, registryVars, handleVars
<1>1. TypeOK'
  BY DEF TypeOK, Native
<1>2. IdleFrame(c)
  BY DEF Frames, IdleFrame, EnumFrame, HandleFrame
<1>3. Records'
  BY <1>2 DEF Records, Freeing, TypeOK, IdleFrame
<1>4. Frames'
  BY <1>2 DEF Frames, IdleFrame, EnumFrame, HandleFrame, FreeFrame, TypeOK
<1>5. Ownership'
  BY <1>2, NilAssumption DEF Ownership, HandlesApart, CallsApart, DrainedApart, RejectedApart, HandlesHold, Remembered, TypeOK, IdleFrame, Tok
<1>6. OpenInv' /\ KernelAgrees'
  BY <1>2, NilAssumption DEF OpenInv, KernelAgrees, TypeOK, IdleFrame
<1>. QED  BY <1>1, <1>3, <1>4, <1>5, <1>6

LEMMA DrainStep ==
    ASSUME IInv, NEW c \in Caller, NEW s \in Service, Drain(c, s)
    PROVE  IInv'
<1>. USE DEF IInv, Drain, Goto, handleVars
<1>1. next \in Tok /\ next \notin reg
  BY BoundAssumption DEF TypeOK, Tok, Records
<1>2. EnumFrame(c) /\ tok[c] = 0
  BY DEF Frames, IdleFrame, EnumFrame, HandleFrame
<1>3. /\ \A h \in Handle : ref[h] # next
      /\ \A d \in Caller : tok[d] # next /\ next \notin got[d]
  <2>1. ASSUME NEW d \in Caller PROVE tok[d] # next /\ next \notin got[d]
    BY <1>1, <2>1 DEF Frames, IdleFrame, EnumFrame, HandleFrame, FreeFrame, Records, Ownership, DrainedApart, TypeOK, Tok
  <2>2. ASSUME NEW h \in Handle PROVE ref[h] # next
    <3>1. CASE ref[h] \in reg
      BY <3>1, <1>1
    <3>2. CASE ref[h] # 0 /\ ref[h] \notin reg
      <4>1. PICK d \in Caller : at[d] = "free" /\ on[d] = h
        BY <3>2 DEF Ownership, HandlesHold
      <4>2. HandleFrame(d)
        BY <4>1, NilAssumption DEF Frames, IdleFrame, EnumFrame
      <4>. QED  BY <4>1, <4>2, <2>1 DEF HandleFrame
    <3>. QED  BY <3>1, <3>2, <1>1 DEF Tok
  <2>. QED  BY <2>1, <2>2
<1>4. TypeOK'
  <2>1. next' \in 1..(MaxTok + 1)
    BY BoundAssumption DEF TypeOK
  <2>2. reg' \in SUBSET Tok /\ got' \in [Caller -> SUBSET Tok]
    BY <1>1 DEF TypeOK
  <2>. QED  BY <1>1, <2>1, <2>2 DEF TypeOK, Native
<1>5. Records'
  <2>1. \A t \in Tok : Freeing(t)' <=> Freeing(t)
    BY <1>2 DEF EnumFrame, Freeing, TypeOK
  <2>2. ASSUME NEW t \in reg'
        PROVE  (t < next /\ refs[t] = 1 /\ service[t] \in Service /\ dev[t] # "freed")'
    BY <1>1 DEF Records, TypeOK, Tok
  <2>3. ASSUME NEW t \in Tok, t \notin reg', ~Freeing(t)'
        PROVE  (refs[t] = 0 /\ dev[t] # "live")'
    BY <1>1, <2>1, <2>3 DEF Records, TypeOK, Tok
  <2>. QED  BY <2>2, <2>3 DEF Records
<1>6. Frames'
  <2>1. ASSUME NEW d \in Caller, d # c
        PROVE  (IdleFrame(d) \/ EnumFrame(d) \/ HandleFrame(d))' /\ FreeFrame(d)'
    <3>1. IdleFrame(d) \/ EnumFrame(d) \/ HandleFrame(d)
      BY DEF Frames
    <3>2. tok[d] # next
      BY <1>3
    <3>3. FreeFrame(d)'
      <4>1. FreeFrame(d)
        BY DEF Frames
      <4>. QED  BY <4>1, <2>1, <3>2, <1>1 DEF FreeFrame, TypeOK, Tok
    <3>4. (IdleFrame(d) \/ EnumFrame(d) \/ HandleFrame(d))'
      BY <3>1, <3>2, <2>1 DEF IdleFrame, EnumFrame, HandleFrame, TypeOK
    <3>. QED  BY <3>3, <3>4
  <2>2. EnumFrame(c)' /\ FreeFrame(c)'
    BY <1>2 DEF EnumFrame, FreeFrame, TypeOK
  <2>. QED  BY <2>1, <2>2 DEF Frames
<1>7. Ownership'
  <2>1. HandlesApart' /\ CallsApart'
    BY DEF Ownership, HandlesApart, CallsApart
  <2>2. DrainedApart'
    BY <1>3 DEF Ownership, DrainedApart, TypeOK
  <2>3. RejectedApart'
    BY DEF Ownership, RejectedApart
  <2>4. HandlesHold'
    BY <1>2 DEF Ownership, HandlesHold, EnumFrame, TypeOK
  <2>5. Remembered'
    BY DEF Ownership, Remembered, TypeOK
  <2>. QED  BY <2>1, <2>2, <2>3, <2>4, <2>5 DEF Ownership
<1>8. OpenInv' /\ KernelAgrees'
  BY <1>1 DEF OpenInv, KernelAgrees, TypeOK
<1>. QED  BY <1>4, <1>5, <1>6, <1>7, <1>8


LEMMA RejectStep ==
    ASSUME IInv, NEW c \in Caller, NEW t \in Tok, Reject(c, t)
    PROVE  IInv'
<1>. USE DEF IInv, Reject, Goto, handleVars, registryVars
<1>1. EnumFrame(c) /\ tok[c] = 0
  BY DEF Frames, IdleFrame, EnumFrame, HandleFrame
<1>2. /\ t \in reg /\ t # 0
      /\ \A h \in Handle : ref[h] # t
      /\ \A d \in Caller : op[d] = "enumerate" => tok[d] # t
      /\ \A d \in Caller : t \in got[d] => d = c
  BY DEF Ownership, DrainedApart, Tok
<1>3. TypeOK'
  BY DEF TypeOK, Native
<1>4. Records'
  <2>1. \A u \in Tok : Freeing(u)' <=> Freeing(u)
    BY <1>1 DEF EnumFrame, Freeing, TypeOK
  <2>. QED  BY <2>1 DEF Records
<1>5. Frames'
  BY <1>1, <1>2 DEF Frames, IdleFrame, EnumFrame, HandleFrame, FreeFrame, TypeOK
<1>6. Ownership'
  <2>1. HandlesApart' /\ CallsApart'
    BY DEF Ownership, HandlesApart, CallsApart
  <2>2. DrainedApart'
    BY <1>2 DEF Ownership, DrainedApart, TypeOK
  <2>3. RejectedApart'
    BY <1>2 DEF Ownership, RejectedApart, TypeOK
  <2>4. HandlesHold'
    BY <1>1 DEF Ownership, HandlesHold, EnumFrame, TypeOK
  <2>5. Remembered'
    <3>1. 0 \notin reg
      BY DEF TypeOK, Tok
    <3>. QED  BY <1>1, <3>1 DEF Ownership, Remembered, TypeOK, EnumFrame
  <2>. QED  BY <2>1, <2>2, <2>3, <2>4, <2>5 DEF Ownership
<1>7. OpenInv' /\ KernelAgrees'
  BY DEF OpenInv, KernelAgrees
<1>. QED  BY <1>3, <1>4, <1>5, <1>6, <1>7

\* A call on an idle goroutine and a free handle begins.
LEMMA BeginStep ==
    ASSUME IInv, NEW c \in Caller, NEW h \in Handle, NEW what, NEW label,
           at[c] = "idle", Free(h), Begin(c, h, what, label),
           UNCHANGED <<registryVars, owner, handleVars, todo, got>>,
           HandleFrame(c)', label # "free", what # "enumerate",
           what \in {"open", "seize", "use", "cached", "close"},
           label \in Native \cup {"drop"}
    PROVE  IInv'
<1>. USE DEF IInv, Begin, Goto, registryVars, handleVars
<1>1. IdleFrame(c)
  BY DEF Frames, IdleFrame, EnumFrame, HandleFrame
<1>2. TypeOK'
  BY DEF TypeOK, Native
<1>3. Records'
  <2>1. \A t \in Tok : Freeing(t)' <=> Freeing(t)
    BY <1>1 DEF IdleFrame, Freeing, TypeOK
  <2>. QED  BY <2>1 DEF Records
<1>4. Frames'
  <2>1. ASSUME NEW d \in Caller, d # c
        PROVE  (IdleFrame(d) \/ EnumFrame(d) \/ HandleFrame(d))' /\ FreeFrame(d)'
    BY <2>1 DEF Frames, IdleFrame, EnumFrame, HandleFrame, FreeFrame, TypeOK
  <2>2. FreeFrame(c)'
    BY DEF FreeFrame, TypeOK
  <2>. QED  BY <2>1, <2>2 DEF Frames
<1>5. Ownership'
  <2>1. HandlesApart'
    BY DEF Ownership, HandlesApart
  <2>2. CallsApart'
    BY DEF Ownership, CallsApart, Free, TypeOK
  <2>3. DrainedApart' /\ RejectedApart'
    BY DEF Ownership, DrainedApart, RejectedApart, TypeOK
  <2>4. HandlesHold'
    BY <1>1 DEF Ownership, HandlesHold, IdleFrame, TypeOK
  <2>5. Remembered'
    BY <1>1 DEF Ownership, Remembered, TypeOK, IdleFrame
  <2>. QED  BY <2>1, <2>2, <2>3, <2>4, <2>5 DEF Ownership
<1>6. OpenInv' /\ KernelAgrees'
  <2>1. OpenInv'
    BY DEF OpenInv
  <2>2. KernelAgrees'
    BY <1>1, NilAssumption DEF KernelAgrees, IdleFrame, TypeOK
  <2>. QED  BY <2>1, <2>2
<1>. QED  BY <1>2, <1>3, <1>4, <1>5, <1>6

\* A call that is neither closing nor enumerating returns and changes nothing.
LEMMA QuitStep ==
    ASSUME IInv, NEW c \in Caller, at[c] \in {"attach", "open", "request"}, Return(c),
           UNCHANGED <<registryVars, owner, handleVars, todo, got>>
    PROVE  IInv'
<1>. USE DEF IInv, Return, Goto, registryVars, handleVars
<1>1. HandleFrame(c) /\ op[c] \notin {"enumerate", "close"}
  BY DEF Frames, IdleFrame, EnumFrame, HandleFrame
<1>2. TypeOK'
  BY DEF TypeOK, Native
<1>3. Records'
  <2>1. \A t \in Tok : Freeing(t)' <=> Freeing(t)
    BY DEF Freeing, TypeOK
  <2>. QED  BY <2>1 DEF Records
<1>4. Frames'
  BY DEF Frames, IdleFrame, EnumFrame, HandleFrame, FreeFrame, TypeOK
<1>5. Ownership'
  <2>1. HandlesApart' /\ CallsApart'
    BY DEF Ownership, HandlesApart, CallsApart, TypeOK
  <2>2. DrainedApart' /\ RejectedApart'
    BY DEF Ownership, DrainedApart, RejectedApart, TypeOK
  <2>3. HandlesHold'
    BY DEF Ownership, HandlesHold, TypeOK
  <2>4. Remembered'
    BY <1>1 DEF Ownership, Remembered, TypeOK
  <2>. QED  BY <2>1, <2>2, <2>3, <2>4 DEF Ownership
<1>6. OpenInv' /\ KernelAgrees'
  BY <1>1 DEF OpenInv, KernelAgrees, TypeOK
<1>. QED  BY <1>2, <1>3, <1>4, <1>5, <1>6

LEMMA BeginSteps ==
    ASSUME IInv, NEW c \in Caller, NEW h \in Handle, NEW what \in {"open", "seize"},
           BeginOpen(c, h, what) \/ BeginCached(c, h) \/ BeginUse(c, h) \/ BeginClose(c, h)
    PROVE  IInv'
<1>. USE DEF Begin, Goto, registryVars, handleVars, HandleFrame, Native, IInv
<1>1. reg \subseteq Tok /\ ref \in [Handle -> Tok \cup {0}] /\ opened \in [Handle -> BOOLEAN]
      /\ at \in [Caller -> Native \cup {"idle", "drain", "sort", "drop"}]
      /\ op \in [Caller -> {"none", "enumerate", "open", "seize", "use", "cached", "close"}]
      /\ on \in [Caller -> Handle \cup {NoHandle}]
      /\ tok \in [Caller -> Tok \cup {0}]
  BY DEF TypeOK
<1>2. CASE BeginOpen(c, h, what)
  <2>1. HandleFrame(c)'
    BY <1>1, <1>2 DEF BeginOpen
  <2>. QED  BY <1>2, <2>1, BeginStep DEF BeginOpen
<1>3. CASE BeginCached(c, h)
  <2>1. HandleFrame(c)'
    BY <1>1, <1>3 DEF BeginCached
  <2>. QED  BY <1>3, <2>1, BeginStep DEF BeginCached
<1>4. CASE BeginUse(c, h)
  <2>1. HandleFrame(c)'
    BY <1>1, <1>4 DEF BeginUse
  <2>. QED  BY <1>4, <2>1, BeginStep DEF BeginUse
<1>5. CASE BeginClose(c, h)
  <2>1. ref[h] \in reg
    BY <1>5 DEF BeginClose, Free, Ownership, HandlesHold
  <2>2. HandleFrame(c)'
    BY <1>1, <1>5, <2>1 DEF BeginClose
  <2>3. CASE opened[h]
    <3>. QED  BY <1>5, <2>2, <2>3, BeginStep DEF BeginClose
  <2>4. CASE ~opened[h]
    <3>. QED  BY <1>5, <2>2, <2>4, BeginStep DEF BeginClose
  <2>. QED  BY <2>3, <2>4
<1>. QED  BY <1>2, <1>3, <1>4, <1>5

LEMMA AttachStep ==
    ASSUME IInv, NEW c \in Caller, Attach(c)
    PROVE  IInv'
<1>. USE DEF IInv, Attach, Goto, handleVars
<1>1. HandleFrame(c) /\ tok[c] \in reg /\ op[c] \in {"open", "seize", "cached"}
  BY DEF Frames, IdleFrame, EnumFrame, HandleFrame
<1>2. CASE dev[tok[c]] = "nil" /\ Return(c) /\ UNCHANGED <<dev, hasTO>>
  BY <1>2, QuitStep DEF registryVars
<1>3. CASE UNCHANGED <<op, on, tok>> /\ dev'[tok[c]] = "live"
  <2>. USE <1>3
  <2>1. dev' = [dev EXCEPT ![tok[c]] = "live"]
    BY <1>1 DEF TypeOK
  <2>2. hasTO' \in [Tok -> BOOLEAN]
        /\ \A t \in Tok : dev[t] = "live" => hasTO'[t] = hasTO[t]
    BY <1>1 DEF TypeOK, Return
  <2>3. at' = [at EXCEPT ![c] = IF op[c] = "cached" THEN "request" ELSE "open"]
    BY <1>1, NilAssumption DEF Return, TypeOK, HandleFrame
  <2>4. UNCHANGED <<next, reg, service, refs, owner, ref, opened, seized, todo, got, op, on, tok>>
    OBVIOUS
  <2>. HIDE <1>3 DEF Attach
  <2>5. TypeOK'
    BY <2>1, <2>2, <2>3, <2>4 DEF TypeOK, Native
  <2>6. Records'
    <3>1. \A t \in Tok : Freeing(t)' <=> Freeing(t)
      BY <1>1, <2>3, <2>4 DEF Freeing, TypeOK, HandleFrame
    <3>. QED  BY <1>1, <2>1, <2>4, <3>1 DEF Records, TypeOK
  <2>7. Frames'
    <3>1. ASSUME NEW d \in Caller, d # c
          PROVE  (IdleFrame(d) \/ EnumFrame(d) \/ HandleFrame(d))' /\ FreeFrame(d)'
      BY <2>1, <2>3, <2>4, <3>1, <1>1 DEF Frames, IdleFrame, EnumFrame, HandleFrame, FreeFrame, TypeOK
    <3>2. HandleFrame(c)' /\ FreeFrame(c)'
      BY <1>1, <2>1, <2>3, <2>4 DEF HandleFrame, FreeFrame, TypeOK
    <3>. QED  BY <3>1, <3>2 DEF Frames
  <2>8. Ownership'
    BY <1>1, <2>3, <2>4 DEF Ownership, HandlesApart, CallsApart, DrainedApart, RejectedApart,
                            HandlesHold, Remembered, TypeOK, HandleFrame
  <2>9. OpenInv'
    BY <2>1, <2>2, <2>4 DEF OpenInv, TypeOK
  <2>10. KernelAgrees'
    BY <2>4 DEF KernelAgrees
  <2>. QED  BY <2>5, <2>6, <2>7, <2>8, <2>9, <2>10
<1>4. QED
  <2>1. tok[c] \in Tok
    BY <1>1 DEF HandleFrame
  <2>. QED  BY <1>2, <1>3, <2>1 DEF TypeOK

LEMMA OpenNativeStep ==
    ASSUME IInv, NEW c \in Caller, OpenNative(c)
    PROVE  IInv'
<1>. USE DEF IInv, OpenNative, Return, Goto, registryVars
<1>1. HandleFrame(c) /\ op[c] \in {"open", "seize"} /\ tok[c] \in reg /\ dev[tok[c]] = "live"
  BY DEF Frames, IdleFrame, EnumFrame, HandleFrame
<1>2. TypeOK'
  BY <1>1 DEF TypeOK, Native, HandleFrame
<1>3. Records'
  <2>1. \A t \in Tok : Freeing(t)' <=> Freeing(t)
    BY DEF Freeing, TypeOK
  <2>. QED  BY <2>1 DEF Records
<1>4. Frames'
  <2>1. ASSUME NEW d \in Caller, d # c
        PROVE  (IdleFrame(d) \/ EnumFrame(d) \/ HandleFrame(d))' /\ FreeFrame(d)'
    <3>1. on[d] # on[c]
      BY <1>1, <2>1, NilAssumption DEF Ownership, CallsApart, HandleFrame
    <3>. QED  BY <2>1, <3>1 DEF Frames, IdleFrame, EnumFrame, HandleFrame, FreeFrame, TypeOK
  <2>2. IdleFrame(c)' /\ FreeFrame(c)'
    BY DEF IdleFrame, FreeFrame, TypeOK
  <2>. QED  BY <2>1, <2>2 DEF Frames
<1>5. Ownership'
  <2>1. HandlesApart' /\ CallsApart'
    BY DEF Ownership, HandlesApart, CallsApart, TypeOK
  <2>2. DrainedApart' /\ RejectedApart'
    BY DEF Ownership, DrainedApart, RejectedApart, TypeOK
  <2>3. HandlesHold'
    BY DEF Ownership, HandlesHold, TypeOK
  <2>4. Remembered'
    BY <1>1 DEF Ownership, Remembered, TypeOK
  <2>. QED  BY <2>1, <2>2, <2>3, <2>4 DEF Ownership
<1>6. OpenInv'
  BY <1>1 DEF OpenInv, TypeOK, HandleFrame
<1>7. KernelAgrees'
  <2>1. opened'[on[c]] /\ ref'[on[c]] = tok[c] /\ on[c] \in Handle
    BY <1>1 DEF HandleFrame, TypeOK
  <2>2. \A h \in Handle : opened[h] => opened'[h]
    BY DEF TypeOK
  <2>3. ASSUME NEW s \in Service, owner'[s] \in Tok, owner'[s] # tok[c]
        PROVE  \E h \in Handle : ref'[h] = owner'[s]
                  /\ (opened'[h] \/ \E d \in Caller : on'[d] = h /\ op'[d] = "close")
    <3>1. owner[s] = owner'[s]
      BY <2>3 DEF TypeOK
    <3>2. PICK h \in Handle : ref[h] = owner[s]
             /\ (opened[h] \/ \E d \in Caller : on[d] = h /\ op[d] = "close")
      BY <2>3, <3>1 DEF KernelAgrees
    <3>. QED  BY <1>1, <2>2, <3>1, <3>2 DEF TypeOK
  <2>. QED  BY <2>1, <2>3 DEF KernelAgrees
<1>. QED  BY <1>2, <1>3, <1>4, <1>5, <1>6, <1>7

LEMMA CloseNativeStep ==
    ASSUME IInv, NEW c \in Caller, CloseNative(c)
    PROVE  IInv'
<1>. USE DEF IInv, CloseNative, Goto, registryVars
<1>1. HandleFrame(c) /\ op[c] = "close" /\ tok[c] \in reg
  BY DEF Frames, IdleFrame, EnumFrame, HandleFrame
<1>2. TypeOK'
  BY <1>1 DEF TypeOK, Native, HandleFrame
<1>3. Records'
  <2>1. \A t \in Tok : Freeing(t)' <=> Freeing(t)
    BY DEF Freeing, TypeOK
  <2>. QED  BY <2>1 DEF Records
<1>4. Frames'
  <2>1. ASSUME NEW d \in Caller, d # c
        PROVE  (IdleFrame(d) \/ EnumFrame(d) \/ HandleFrame(d))' /\ FreeFrame(d)'
    <3>1. on[d] # on[c]
      BY <1>1, <2>1, NilAssumption DEF Ownership, CallsApart, HandleFrame
    <3>. QED  BY <2>1, <3>1 DEF Frames, IdleFrame, EnumFrame, HandleFrame, FreeFrame, TypeOK
  <2>2. HandleFrame(c)' /\ FreeFrame(c)'
    BY <1>1 DEF HandleFrame, FreeFrame, TypeOK
  <2>. QED  BY <2>1, <2>2 DEF Frames
<1>5. Ownership'
  <2>1. HandlesApart' /\ CallsApart' /\ DrainedApart' /\ RejectedApart'
    BY DEF Ownership, HandlesApart, CallsApart, DrainedApart, RejectedApart
  <2>2. HandlesHold'
    BY DEF Ownership, HandlesHold, TypeOK
  <2>3. Remembered'
    BY DEF Ownership, Remembered, TypeOK
  <2>. QED  BY <2>1, <2>2, <2>3 DEF Ownership
<1>6. OpenInv'
  BY <1>1 DEF OpenInv, TypeOK, HandleFrame
<1>7. KernelAgrees'
  <2>1. ASSUME NEW s \in Service, owner'[s] \in Tok
        PROVE  \E h \in Handle : ref'[h] = owner'[s]
                  /\ (opened'[h] \/ \E d \in Caller : on'[d] = h /\ op'[d] = "close")
    <3>1. owner[s] = owner'[s]
      BY <2>1 DEF TypeOK, Tok
    <3>2. PICK h \in Handle : ref[h] = owner[s]
             /\ (opened[h] \/ \E d \in Caller : on[d] = h /\ op[d] = "close")
      BY <2>1, <3>1 DEF KernelAgrees
    <3>. QED  BY <1>1, <3>1, <3>2 DEF TypeOK
  <2>. QED  BY <2>1 DEF KernelAgrees
<1>. QED  BY <1>2, <1>3, <1>4, <1>5, <1>6, <1>7

LEMMA DropStep ==
    ASSUME IInv, NEW c \in Caller, Drop(c)
    PROVE  IInv'
<1>. USE DEF IInv, Drop, Goto, handleVars
<1>1. /\ tok[c] \in reg /\ tok[c] \in Tok /\ tok[c] # 0
      /\ \/ EnumFrame(c)
         \/ HandleFrame(c) /\ op[c] = "close" /\ ~opened[on[c]]
  <2>1. tok[c] \in reg /\ (EnumFrame(c) \/ (HandleFrame(c) /\ op[c] = "close" /\ ~opened[on[c]]))
    BY DEF Frames, IdleFrame, EnumFrame, HandleFrame
  <2>. QED  BY <2>1 DEF TypeOK, Tok
<1>2. \A d \in Caller : d # c => tok[d] # tok[c]
  BY <1>1, TokensApart
<1>3. TypeOK'
  BY DEF TypeOK, Native
<1>4. Records'
  <2>1. Freeing(tok[c])' /\ \A t \in Tok : Freeing(t) => Freeing(t)'
    BY DEF Freeing, TypeOK
  <2>2. ASSUME NEW t \in Tok, t \notin reg', ~Freeing(t)' PROVE refs[t] = 0 /\ dev[t] # "live"
    BY <2>1, <2>2 DEF Records
  <2>. QED  BY <2>2 DEF Records
<1>5. Frames'
  <2>1. ASSUME NEW d \in Caller, d # c
        PROVE  (IdleFrame(d) \/ EnumFrame(d) \/ HandleFrame(d))' /\ FreeFrame(d)'
    <3>1. tok[d] # tok[c] /\ at'[d] = at[d]
      BY <1>2, <2>1 DEF TypeOK
    <3>. QED  BY <3>1 DEF Frames, IdleFrame, EnumFrame, HandleFrame, FreeFrame
  <2>2. (EnumFrame(c) \/ HandleFrame(c))' /\ FreeFrame(c)'
    <3>1. at'[c] = "free"
      BY DEF TypeOK
    <3>2. (EnumFrame(c) \/ HandleFrame(c))'
      BY <1>1, <3>1 DEF EnumFrame, HandleFrame
    <3>. QED  BY <1>1, <3>1, <3>2 DEF FreeFrame, Records
  <2>. QED  BY <2>1, <2>2 DEF Frames
<1>6. Ownership'
  <2>1. HandlesApart' /\ CallsApart' /\ RejectedApart'
    BY DEF Ownership, HandlesApart, CallsApart, RejectedApart
  <2>2. DrainedApart'
    <3>1. ASSUME NEW d \in Caller, NEW t \in got[d] PROVE t # tok[c]
      BY <1>1, <3>1 DEF Ownership, DrainedApart, EnumFrame, HandleFrame
    <3>. QED  BY <3>1 DEF Ownership, DrainedApart
  <2>3. HandlesHold'
    <3>1. ASSUME NEW h \in Handle, ref[h] # 0
          PROVE  ref[h] \in reg' \/ \E d \in Caller : at'[d] = "free" /\ on[d] = h
      <4>1. CASE ref[h] = tok[c]
        <5>1. on[c] = h
          BY <1>1, <4>1 DEF Ownership, RejectedApart, HandlesApart, EnumFrame, HandleFrame
        <5>. QED  BY <5>1 DEF TypeOK
      <4>2. CASE ref[h] # tok[c]
        BY <3>1, <4>2 DEF Ownership, HandlesHold, TypeOK
      <4>. QED  BY <4>1, <4>2
    <3>. QED  BY <3>1 DEF HandlesHold
  <2>4. Remembered'
    BY DEF Ownership, Remembered
  <2>. QED  BY <2>1, <2>2, <2>3, <2>4 DEF Ownership
<1>7. OpenInv'
  <2>1. ASSUME NEW h \in Handle, opened[h] PROVE ref[h] # tok[c]
    BY <1>1, <2>1 DEF OpenInv, Ownership, RejectedApart, HandlesApart, EnumFrame, HandleFrame
  <2>. QED  BY <2>1 DEF OpenInv
<1>8. KernelAgrees'
  BY DEF KernelAgrees
<1>. QED  BY <1>3, <1>4, <1>5, <1>6, <1>7, <1>8

LEMMA FreeNativeStep ==
    ASSUME IInv, NEW c \in Caller, FreeNative(c)
    PROVE  IInv'
<1>. USE DEF IInv
<1>1. /\ tok[c] \notin reg /\ tok[c] \in Tok /\ tok[c] # 0
      /\ refs[tok[c]] = 1 /\ dev[tok[c]] # "freed"
      /\ \/ EnumFrame(c)
         \/ HandleFrame(c) /\ op[c] = "close" /\ ~opened[on[c]]
  <2>1. FreeFrame(c) /\ (EnumFrame(c) \/ HandleFrame(c)) /\ at[c] = "free" /\ ~IdleFrame(c)
    BY DEF Frames, IdleFrame, FreeNative
  <2>2. tok[c] \in Tok
    BY <2>1 DEF EnumFrame, HandleFrame
  <2>. QED  BY <2>1, <2>2 DEF EnumFrame, HandleFrame, FreeFrame, Tok
<1>2. \A d \in Caller : d # c => tok[d] # tok[c]
  BY <1>1, TokensApart
<1>3. /\ dev' = [dev EXCEPT ![tok[c]] = IF @ = "nil" THEN "nil" ELSE "freed"]
      /\ owner' = [s \in Service |-> IF owner[s] = tok[c] THEN 0 ELSE owner[s]]
      /\ refs' = [refs EXCEPT ![tok[c]] = 0]
      /\ service' = [service EXCEPT ![tok[c]] = NoService]
      /\ UNCHANGED <<next, reg, hasTO, opened, seized, todo, got>>
  BY <1>1 DEF FreeNative, TypeOK
<1>4. /\ at[c] = "free"
      /\ tok' = [tok EXCEPT ![c] = 0]
      /\ \/ /\ EnumFrame(c)
            /\ at' = [at EXCEPT ![c] = "sort"]
            /\ UNCHANGED <<ref, op, on>>
         \/ /\ HandleFrame(c) /\ op[c] = "close" /\ ~opened[on[c]]
            /\ ref' = [ref EXCEPT ![on[c]] = 0]
            /\ at' = [at EXCEPT ![c] = "idle"]
            /\ op' = [op EXCEPT ![c] = "none"]
            /\ on' = [on EXCEPT ![c] = NoHandle]
  BY <1>1 DEF FreeNative, Return, Goto, EnumFrame, HandleFrame
<1>5. \A h \in Handle : opened[h] => ref'[h] = ref[h] /\ ref[h] # tok[c]
  BY <1>1, <1>4 DEF OpenInv, TypeOK
<1>6. \A h \in Handle : ref'[h] = ref[h] \/ ref'[h] = 0
  BY <1>4 DEF TypeOK
<1>7. TypeOK'
  BY <1>3, <1>4 DEF TypeOK, Native, Tok
<1>8. Records'
  <2>1. \A t \in Tok : t # tok[c] /\ Freeing(t) => Freeing(t)'
    BY <1>2, <1>4 DEF Freeing, TypeOK
  <2>2. ASSUME NEW t \in Tok, t \notin reg, ~Freeing(t)' PROVE refs'[t] = 0 /\ dev'[t] # "live"
    BY <1>1, <1>3, <2>1, <2>2 DEF Records, TypeOK
  <2>3. ASSUME NEW t \in reg
        PROVE  t < next /\ refs'[t] = 1 /\ service'[t] \in Service /\ dev'[t] # "freed"
    BY <1>1, <1>3 DEF Records, TypeOK
  <2>. QED  BY <1>3, <2>2, <2>3 DEF Records
<1>9. Frames'
  <2>1. ASSUME NEW d \in Caller, d # c
        PROVE  (IdleFrame(d) \/ EnumFrame(d) \/ HandleFrame(d))' /\ FreeFrame(d)'
    <3>1. /\ tok[d] # tok[c] /\ at'[d] = at[d] /\ op'[d] = op[d] /\ on'[d] = on[d]
          /\ tok'[d] = tok[d]
      BY <1>2, <1>4, <2>1 DEF TypeOK
    <3>2. on[d] # NoHandle => ref'[on[d]] = ref[on[d]]
      BY <1>4, <2>1 DEF Ownership, CallsApart, HandleFrame, TypeOK
    <3>3. tok[d] \in Tok => dev'[tok[d]] = dev[tok[d]] /\ refs'[tok[d]] = refs[tok[d]]
      BY <1>3, <3>1 DEF TypeOK
    <3>4. IdleFrame(d) \/ EnumFrame(d) \/ HandleFrame(d)
      BY DEF Frames
    <3>5. (IdleFrame(d) \/ EnumFrame(d) \/ HandleFrame(d))'
      BY <1>3, <3>1, <3>2, <3>3, <3>4, NilAssumption DEF IdleFrame, EnumFrame, HandleFrame, TypeOK
    <3>6. FreeFrame(d)'
      <4>1. at[d] = "free" => tok[d] \in Tok
        BY <3>4 DEF IdleFrame, EnumFrame, HandleFrame
      <4>. QED  BY <1>3, <3>1, <3>3, <4>1 DEF Frames, FreeFrame
    <3>. QED  BY <3>5, <3>6
  <2>2. (IdleFrame(c) \/ EnumFrame(c))' /\ FreeFrame(c)'
    BY <1>4 DEF IdleFrame, EnumFrame, FreeFrame, TypeOK
  <2>. QED  BY <2>1, <2>2 DEF Frames
<1>10. Ownership'
  <2>1. HandlesApart'
    BY <1>4 DEF Ownership, HandlesApart, TypeOK
  <2>2. CallsApart'
    BY <1>4 DEF Ownership, CallsApart, TypeOK
  <2>3. DrainedApart'
    <3>1. ASSUME NEW d \in Caller, NEW t \in got[d]
          PROVE  /\ t \in reg /\ t # 0
                 /\ \A h \in Handle : ref'[h] # t
                 /\ \A e \in Caller : op'[e] = "enumerate" => tok'[e] # t
                 /\ \A e \in Caller : t \in got[e] => e = d
      BY <1>4, <1>6 DEF Ownership, DrainedApart, TypeOK, Tok
    <3>. QED  BY <1>3, <3>1 DEF DrainedApart
  <2>4. RejectedApart'
    BY <1>4, <1>6 DEF Ownership, RejectedApart, TypeOK
  <2>5. HandlesHold'
    <3>1. ASSUME NEW h \in Handle, ref'[h] # 0
          PROVE  ref'[h] \in reg \/ \E d \in Caller : at'[d] = "free" /\ on'[d] = h
      <4>1. ref[h] = ref'[h]
        BY <1>6, <3>1
      <4>2. CASE ref[h] \notin reg
        <5>1. PICK d \in Caller : at[d] = "free" /\ on[d] = h
          BY <3>1, <4>1, <4>2 DEF Ownership, HandlesHold
        <5>2. d # c
          BY <1>4, <3>1, <5>1, NilAssumption DEF EnumFrame, TypeOK
        <5>. QED  BY <1>4, <5>1, <5>2 DEF TypeOK
      <4>. QED  BY <4>1, <4>2
    <3>. QED  BY <1>3, <3>1 DEF HandlesHold
  <2>6. Remembered'
    <3>1. ASSUME NEW t \in reg
          PROVE  \/ \E h \in Handle : ref'[h] = t
                 \/ \E d \in Caller : t \in got[d]
                 \/ \E d \in Caller : op'[d] = "enumerate" /\ tok'[d] = t
      <4>1. t # tok[c] /\ t # 0
        BY <1>1 DEF TypeOK, Tok
      <4>2. CASE \E h \in Handle : ref[h] = t
        BY <1>4, <4>1, <4>2 DEF HandleFrame, TypeOK
      <4>3. CASE \E d \in Caller : op[d] = "enumerate" /\ tok[d] = t
        BY <1>4, <4>1, <4>3 DEF TypeOK
      <4>. QED  BY <4>2, <4>3 DEF Ownership, Remembered
    <3>. QED  BY <1>3, <3>1 DEF Remembered
  <2>. QED  BY <2>1, <2>2, <2>3, <2>4, <2>5, <2>6 DEF Ownership
<1>11. OpenInv'
  BY <1>3, <1>5 DEF OpenInv, TypeOK
<1>12. KernelAgrees'
  <2>1. ASSUME NEW s \in Service, owner'[s] \in Tok
        PROVE  \E h \in Handle : ref'[h] = owner'[s]
                  /\ (opened[h] \/ \E d \in Caller : on'[d] = h /\ op'[d] = "close")
    <3>1. owner[s] = owner'[s] /\ owner[s] # tok[c]
      BY <1>3, <2>1 DEF Tok
    <3>2. PICK h \in Handle : ref[h] = owner[s]
             /\ (opened[h] \/ \E d \in Caller : on[d] = h /\ op[d] = "close")
      BY <2>1, <3>1 DEF KernelAgrees
    <3>3. ref'[h] = ref[h] /\ on[c] # h
      BY <1>4, <3>1, <3>2, NilAssumption DEF EnumFrame, HandleFrame, TypeOK
    <3>. QED  BY <1>4, <3>1, <3>2, <3>3 DEF TypeOK
  <2>. QED  BY <1>3, <2>1 DEF KernelAgrees
<1>. QED  BY <1>7, <1>8, <1>9, <1>10, <1>11, <1>12

LEMMA KeepStep ==
    ASSUME IInv, NEW c \in Caller, Keep(c)
    PROVE  IInv'
<1>. USE DEF IInv, Return, Goto, registryVars
<1>1. EnumFrame(c) /\ tok[c] = 0 /\ at[c] = "sort"
  BY DEF Keep, Frames, IdleFrame, EnumFrame, HandleFrame
<1>2. PICK f \in [got[c] -> {h \in Handle : ref[h] = 0 /\ Free(h)}] :
        /\ \A t, u \in got[c] : f[t] = f[u] => t = u
        /\ ref' = [h \in Handle |-> IF \E t \in got[c] : f[t] = h
                                   THEN CHOOSE t \in got[c] : f[t] = h ELSE ref[h]]
        /\ opened' = [h \in Handle |-> opened[h] /\ ref'[h] = ref[h]]
        /\ seized' = [h \in Handle |-> seized[h] /\ ref'[h] = ref[h]]
  BY DEF Keep
<1>3. /\ got' = [got EXCEPT ![c] = {}]
      /\ at' = [at EXCEPT ![c] = "idle"] /\ op' = [op EXCEPT ![c] = "none"]
      /\ on' = [on EXCEPT ![c] = NoHandle] /\ tok' = [tok EXCEPT ![c] = 0]
      /\ UNCHANGED <<next, reg, service, dev, hasTO, refs, owner, todo>>
  BY DEF Keep
\* Where a handle's token comes from.
<1>4. /\ \A t \in got[c] : f[t] \in Handle /\ ref[f[t]] = 0 /\ Free(f[t]) /\ ref'[f[t]] = t
      /\ \A h \in Handle : ref'[h] = ref[h]
            \/ (ref[h] = 0 /\ Free(h) /\ ref'[h] \in got[c] /\ f[ref'[h]] = h)
  BY <1>2
<1>5. got[c] \subseteq Tok /\ 0 \notin got[c] /\ got[c] \subseteq reg
  BY DEF TypeOK, Tok, Ownership, DrainedApart
<1>6. \A h \in Handle : ref[h] # 0 \/ ~Free(h) => ref'[h] = ref[h]
  BY <1>4
<1>7. TypeOK'
  <2>1. ref' \in [Handle -> Tok \cup {0}]
    <3>1. \A h \in Handle : ref'[h] \in Tok \cup {0}
      BY <1>4, <1>5 DEF TypeOK
    <3>. QED  BY <1>2, <3>1
  <2>2. opened' \in [Handle -> BOOLEAN] /\ seized' \in [Handle -> BOOLEAN]
    BY <1>2 DEF TypeOK
  <2>. QED  BY <1>3, <2>1, <2>2 DEF TypeOK, Native
<1>8. Records'
  <2>1. \A t \in Tok : Freeing(t)' <=> Freeing(t)
    BY <1>1, <1>3 DEF Freeing, TypeOK
  <2>. QED  BY <1>3, <2>1 DEF Records
<1>9. Frames'
  <2>1. ASSUME NEW d \in Caller, d # c
        PROVE  (IdleFrame(d) \/ EnumFrame(d) \/ HandleFrame(d))' /\ FreeFrame(d)'
    <3>1. on[d] \in Handle => ref'[on[d]] = ref[on[d]] /\ opened'[on[d]] = opened[on[d]]
      BY <1>2, <1>6 DEF Free, TypeOK
    <3>. QED  BY <1>3, <2>1, <3>1 DEF Frames, IdleFrame, EnumFrame, HandleFrame, FreeFrame, TypeOK
  <2>2. IdleFrame(c)' /\ FreeFrame(c)'
    BY <1>3 DEF IdleFrame, FreeFrame, TypeOK
  <2>. QED  BY <2>1, <2>2 DEF Frames
<1>10. Ownership'
  <2>1. HandlesApart'
    <3>1. ASSUME NEW h \in Handle, NEW g \in Handle, ref'[h] = ref'[g], ref'[h] # 0
          PROVE  h = g
      BY <1>4, <3>1 DEF Ownership, HandlesApart, DrainedApart
    <3>. QED  BY <3>1 DEF HandlesApart
  <2>2. CallsApart'
    BY <1>3 DEF Ownership, CallsApart, TypeOK
  <2>3. DrainedApart'
    <3>1. ASSUME NEW d \in Caller, NEW t \in got'[d]
          PROVE  /\ t \in reg
                 /\ \A h \in Handle : ref'[h] # t
                 /\ \A e \in Caller : op'[e] = "enumerate" => tok'[e] # t
                 /\ \A e \in Caller : t \in got'[e] => e = d
      <4>1. d # c /\ t \in got[d]
        BY <1>3, <3>1 DEF TypeOK
      <4>2. t \notin got[c]
        BY <4>1 DEF Ownership, DrainedApart
      <4>3. \A h \in Handle : ref'[h] # t
        BY <1>4, <4>1, <4>2 DEF Ownership, DrainedApart
      <4>. QED  BY <1>3, <4>1, <4>3 DEF Ownership, DrainedApart, TypeOK
    <3>. QED  BY <1>3, <3>1 DEF DrainedApart
  <2>4. RejectedApart'
    <3>1. ASSUME NEW d \in Caller, op'[d] = "enumerate", tok'[d] # 0
          PROVE  /\ \A h \in Handle : ref'[h] # tok'[d]
                 /\ \A e \in Caller : op'[e] = "enumerate" /\ tok'[e] = tok'[d] => e = d
      <4>1. d # c /\ op[d] = "enumerate" /\ tok'[d] = tok[d]
        BY <1>3, <3>1 DEF TypeOK
      <4>2. tok[d] \notin got[c]
        BY <4>1 DEF Ownership, DrainedApart
      <4>3. \A h \in Handle : ref'[h] # tok'[d]
        BY <1>4, <3>1, <4>1, <4>2 DEF Ownership, RejectedApart
      <4>. QED  BY <1>3, <3>1, <4>1, <4>3 DEF Ownership, RejectedApart, TypeOK
    <3>. QED  BY <3>1 DEF RejectedApart
  <2>5. HandlesHold'
    <3>1. ASSUME NEW h \in Handle, ref'[h] # 0
          PROVE  ref'[h] \in reg \/ \E d \in Caller : at'[d] = "free" /\ on'[d] = h
      <4>1. CASE ref'[h] = ref[h]
        BY <1>1, <1>3, <3>1, <4>1 DEF Ownership, HandlesHold, TypeOK
      <4>2. CASE ref'[h] \in got[c]
        BY <1>5, <4>2
      <4>. QED  BY <1>4, <4>1, <4>2
    <3>. QED  BY <1>3, <3>1 DEF HandlesHold
  <2>6. Remembered'
    <3>1. ASSUME NEW t \in reg
          PROVE  \/ \E h \in Handle : ref'[h] = t
                 \/ \E d \in Caller : t \in got'[d]
                 \/ \E d \in Caller : op'[d] = "enumerate" /\ tok'[d] = t
      <4>1. t # 0
        BY DEF TypeOK, Tok
      <4>2. CASE \E h \in Handle : ref[h] = t
        BY <1>6, <4>1, <4>2
      <4>3. CASE t \in got[c]
        BY <1>4, <4>3
      <4>4. CASE \E d \in Caller \ {c} : t \in got[d]
        BY <1>3, <4>4 DEF TypeOK
      <4>5. CASE \E d \in Caller : op[d] = "enumerate" /\ tok[d] = t
        BY <1>1, <1>3, <4>1, <4>5 DEF TypeOK
      <4>. QED  BY <4>2, <4>3, <4>4, <4>5 DEF Ownership, Remembered
    <3>. QED  BY <1>3, <3>1 DEF Remembered
  <2>. QED  BY <2>1, <2>2, <2>3, <2>4, <2>5, <2>6 DEF Ownership
<1>11. OpenInv'
  <2>1. ASSUME NEW h \in Handle
        PROVE  /\ opened'[h] => opened[h] /\ ref'[h] = ref[h]
               /\ seized'[h] => seized[h]
    <3>1. opened'[h] = (opened[h] /\ ref'[h] = ref[h]) /\ seized'[h] = (seized[h] /\ ref'[h] = ref[h])
      BY <1>2
    <3>. QED  BY <3>1
  <2>. QED  BY <1>3, <2>1 DEF OpenInv
<1>12. KernelAgrees'
  <2>1. ASSUME NEW s \in Service, owner[s] \in Tok
        PROVE  \E h \in Handle : ref'[h] = owner[s]
                  /\ (opened'[h] \/ \E d \in Caller : on'[d] = h /\ op'[d] = "close")
    <3>1. PICK h \in Handle : ref[h] = owner[s]
             /\ (opened[h] \/ \E d \in Caller : on[d] = h /\ op[d] = "close")
      BY <2>1 DEF KernelAgrees
    <3>2. ref'[h] = ref[h] /\ opened'[h] = opened[h]
      BY <1>2, <1>6, <2>1, <3>1 DEF Tok, TypeOK
    <3>. QED  BY <1>1, <1>3, <3>1, <3>2 DEF EnumFrame, TypeOK
  <2>. QED  BY <1>3, <2>1 DEF KernelAgrees
<1>. QED  BY <1>7, <1>8, <1>9, <1>10, <1>11, <1>12

LEMMA DisplaceStep ==
    ASSUME IInv, NEW s \in Service, Displace(s)
    PROVE  IInv'
<1>. USE DEF IInv, Displace, registryVars, handleVars, callVars
<1>1. TypeOK'
  BY DEF TypeOK
<1>2. Records' /\ Frames'
  BY DEF Records, Freeing, Frames, IdleFrame, EnumFrame, HandleFrame, FreeFrame
<1>3. Ownership' /\ OpenInv'
  BY DEF Ownership, HandlesApart, CallsApart, DrainedApart, RejectedApart, HandlesHold,
         Remembered, OpenInv
<1>4. KernelAgrees'
  <2>1. ASSUME NEW u \in Service, owner'[u] \in Tok PROVE owner'[u] = owner[u]
    BY <2>1, OwnerAssumption DEF TypeOK, Tok
  <2>. QED  BY <2>1 DEF KernelAgrees
<1>. QED  BY <1>1, <1>2, <1>3, <1>4

LEMMA InvStep == IInv /\ [Next]_vars => IInv'
<1>. SUFFICES ASSUME IInv, [Next]_vars PROVE IInv'
  OBVIOUS
<1>1. CASE UNCHANGED vars
  BY <1>1 DEF vars, registryVars, handleVars, callVars, IInv, TypeOK, Records, Freeing, Frames,
     IdleFrame, EnumFrame, HandleFrame, FreeFrame, Ownership, HandlesApart, CallsApart,
     DrainedApart, RejectedApart, HandlesHold, Remembered, OpenInv, KernelAgrees
<1>2. ASSUME NEW c \in Caller,
             \/ \E S \in SUBSET Service : Enumerate(c, S)
             \/ \E t \in Tok : Reject(c, t)
             \/ \E h \in Handle : \/ \E what \in {"open", "seize"} : BeginOpen(c, h, what)
                                  \/ BeginCached(c, h) \/ BeginUse(c, h) \/ BeginClose(c, h)
             \/ OpenNative(c) \/ Answer(c) \/ Run(c)
      PROVE  IInv'
  <2>1. CASE \E S \in SUBSET Service : Enumerate(c, S)
    BY <2>1, EnumerateStep
  <2>2. CASE \E t \in Tok : Reject(c, t)
    BY <2>2, RejectStep
  <2>3. CASE \E h \in Handle : \E what \in {"open", "seize"} : BeginOpen(c, h, what)
    BY <2>3, BeginSteps
  <2>4. CASE \E h \in Handle : BeginCached(c, h) \/ BeginUse(c, h) \/ BeginClose(c, h)
    <3>1. "open" \in {"open", "seize"}
      OBVIOUS
    <3>. QED  BY <2>4, <3>1, BeginSteps
  <2>5. CASE OpenNative(c)
    BY <2>5, OpenNativeStep
  <2>6. CASE Answer(c) \/ OpenFails(c) \/ Deadline(c)
    BY <2>6, QuitStep DEF Answer, OpenFails, Deadline
  <2>7. CASE \E s \in Service : Drain(c, s)
    BY <2>7, DrainStep
  <2>8. CASE Keep(c) \/ Attach(c)
    BY <2>8, KeepStep, AttachStep
  <2>9. CASE CloseNative(c) \/ Drop(c) \/ FreeNative(c)
    BY <2>9, CloseNativeStep, DropStep, FreeNativeStep
  <2>. QED  BY <1>2, <2>1, <2>2, <2>3, <2>4, <2>5, <2>6, <2>7, <2>8, <2>9 DEF Run
<1>3. CASE \E s \in Service : Displace(s)
  BY <1>3, DisplaceStep
<1>. QED  BY <1>1, <1>2, <1>3 DEF Next

THEOREM Invariance == Spec => []IInv
<1>. QED  BY InvInit, InvStep, PTL DEF Spec

-----------------------------------------------------------------------------
\* Every variable keeps its type; in particular no reference is returned twice.
THEOREM TypeCorrect == Spec => []TypeOK
<1>1. IInv => TypeOK
  BY DEF IInv
<1>. QED  BY <1>1, Invariance, PTL

\* The program owns exactly the references its records stand for: none leaks
\* and none is over-released, in any interleaving of enumerations and calls and
\* whichever of IOKit's calls fail.
THEOREM ReferencesConserved == Spec => []RefsMatchEntries
<1>1. IInv => RefsMatchEntries
  <2>. SUFFICES ASSUME IInv, NEW t \in Tok
                PROVE  /\ refs[t] = IF t \in reg \/ Freeing(t) THEN 1 ELSE 0
                       /\ dev[t] = "live" => t \in reg \/ Freeing(t)
    BY DEF RefsMatchEntries
  <2>1. Freeing(t) => refs[t] = 1
    BY DEF IInv, Frames, FreeFrame, Freeing
  <2>. QED  BY <2>1 DEF IInv, Records
<1>. QED  BY <1>1, Invariance, PTL

\* Every record in the map has one owner, who will give it back.
THEOREM OneOwnerEach == Spec => []OneOwner
<1>1. IInv => OneOwner
  <2>. SUFFICES ASSUME IInv, NEW t \in reg
                PROVE  \E o \in Handle \cup Caller : Owners(t) = {o}
    BY DEF OneOwner
  <2>. USE DEF IInv
  <2>1. t # 0
    BY DEF TypeOK, Tok
  <2>2. CASE \E h \in Handle : ref[h] = t
    <3>1. PICK h \in Handle : ref[h] = t
      BY <2>2
    <3>2. \A c \in Caller : t \notin got[c] /\ ~(op[c] = "enumerate" /\ tok[c] = t)
      BY <2>1, <3>1 DEF Ownership, DrainedApart, RejectedApart
    <3>3. Owners(t) = {h}
      BY <2>1, <3>1, <3>2 DEF Owners, Ownership, HandlesApart
    <3>. QED  BY <3>3
  <2>3. CASE \A h \in Handle : ref[h] # t
    <3>1. PICK c \in Caller : t \in got[c] \/ (op[c] = "enumerate" /\ tok[c] = t)
      BY <2>3 DEF Ownership, Remembered
    <3>2. \A d \in Caller : t \in got[d] \/ (op[d] = "enumerate" /\ tok[d] = t) => d = c
      BY <2>1, <3>1 DEF Ownership, DrainedApart, RejectedApart
    <3>3. Owners(t) = {c}
      BY <2>3, <3>1, <3>2 DEF Owners
    <3>. QED  BY <3>3
  <2>. QED  BY <2>2, <2>3
<1>. QED  BY <1>1, Invariance, PTL

\* No call goes through a released interface.
THEOREM NoStaleDereference == Spec => []NoStaleCall
<1>1. IInv => NoStaleCall
  <2>. SUFFICES ASSUME IInv, NEW c \in Caller, at[c] \in Native PROVE dev[tok[c]] # "freed"
    BY DEF NoStaleCall
  <2>1. CASE at[c] = "free"
    BY <2>1 DEF IInv, Frames, FreeFrame
  <2>2. CASE at[c] # "free"
    <3>1. tok[c] \in reg
      BY <2>2 DEF IInv, Frames, IdleFrame, EnumFrame, HandleFrame, Native
    <3>. QED  BY <3>1 DEF IInv, Records
  <2>. QED  BY <2>1, <2>2
<1>. QED  BY <1>1, Invariance, PTL

\* Nothing stays open in the kernel behind a handle that says it is closed.
THEOREM NothingLeftOpen == Spec => []KernelAgrees
<1>1. IInv => KernelAgrees
  BY DEF IInv
<1>. QED  BY <1>1, Invariance, PTL

\* USBDeviceOpenSeize is called only on interfaces that have it.
THEOREM SeizeHasEntry == Spec => []SeizedHasEntry
<1>1. IInv => SeizedHasEntry
  BY DEF IInv, OpenInv, SeizedHasEntry
<1>. QED  BY <1>1, Invariance, PTL

-----------------------------------------------------------------------------
(* The refinement: which step of the registry a step of the code is. *)

\* A handle that carries a token is its one owner.
LEMMA HandleOwns ==
    ASSUME IInv, NEW h \in Handle, ref[h] \in Tok
    PROVE  Owners(ref[h]) = {h}
<1>1. ref[h] # 0
  BY DEF Tok
<1>2. \A c \in Caller : ref[h] \notin got[c] /\ ~(op[c] = "enumerate" /\ tok[c] = ref[h])
  BY <1>1 DEF IInv, Ownership, DrainedApart, RejectedApart
<1>3. \A g \in Handle : ref[g] = ref[h] => g = h
  BY <1>1 DEF IInv, Ownership, HandlesApart
<1>. QED  BY <1>2, <1>3 DEF Owners

\* A record that a call goes through is lent to no other.
LEMMA LentOnce ==
    ASSUME IInv, NEW c \in Caller, tok[c] \in Tok
    PROVE  /\ Lent(tok[c]) \subseteq {c}
           /\ at[c] \in Native \ {"free"} => Lent(tok[c]) = {c}
<1>1. \A d \in Caller : tok[d] = tok[c] => d = c
  BY TokensApart DEF IInv, Tok
<1>. QED  BY <1>1 DEF Lent

\* A handle that no call is about has lent its record to nobody.
LEMMA FreeIsNotLent ==
    ASSUME IInv, NEW h \in Handle, ref[h] \in Tok, Free(h)
    PROVE  Lent(ref[h]) = {}
<1>. SUFFICES ASSUME NEW c \in Caller, at[c] \in Native \ {"free"}, tok[c] = ref[h]
              PROVE  FALSE
  BY DEF Lent
<1>1. HandleFrame(c)
  BY DEF IInv, Frames, IdleFrame, EnumFrame, Native
<1>2. on[c] = h
  BY <1>1 DEF HandleFrame, IInv, Ownership, HandlesApart, Tok
<1>. QED  BY <1>2 DEF Free

\* The registry looks the same, and no record changes hands.
Kept == next' = next /\ refs' = refs /\ \A t \in Tok : Owners(t)' = Owners(t)

LEMMA SameOwners ==
    ASSUME UNCHANGED <<ref, got>>, NEW t \in Tok,
           \A c \in Caller : (op[c] = "enumerate" /\ tok[c] = t)' <=> (op[c] = "enumerate" /\ tok[c] = t)
    PROVE  Owners(t)' = Owners(t)
BY DEF Owners

\* A call that comes and goes changes no owner.
LEMMA CallOwnsNothing ==
    ASSUME NEW c \in Caller, UNCHANGED <<next, refs, ref, got>>,
           op[c] # "enumerate", op'[c] # "enumerate",
           \A d \in Caller : d # c => op'[d] = op[d] /\ tok'[d] = tok[d]
    PROVE  Kept
<1>1. \A t \in Tok : Owners(t)' = Owners(t)
  <2>. SUFFICES ASSUME NEW t \in Tok PROVE Owners(t)' = Owners(t)
    OBVIOUS
  <2>1. \A d \in Caller : (op[d] = "enumerate" /\ tok[d] = t)' <=> (op[d] = "enumerate" /\ tok[d] = t)
    OBVIOUS
  <2>. QED  BY <2>1, SameOwners
<1>. QED  BY <1>1 DEF Kept

LEMMA IsStutter ==
    ASSUME Kept, \A t \in Tok : Lent(t)' = Lent(t)
    PROVE  UNCHANGED Registry!regVars
BY DEF Kept, Registry!regVars

LEMMA IsBorrow ==
    ASSUME NEW c \in Caller, NEW t \in Tok, Kept, refs[t] # 0,
           Lent(t) = {}, Lent(t)' = {c}, \A u \in Tok : u # t => Lent(u)' = Lent(u),
           NEW h \in Handle, Owners(t) = {h}
    PROVE  Registry!Borrow(c, t)
BY DEF Kept, Registry!Borrow

LEMMA IsDone ==
    ASSUME NEW c \in Caller, NEW t \in Tok, Kept,
           Lent(t) = {c}, Lent(t)' = {}, \A u \in Tok : u # t => Lent(u)' = Lent(u)
    PROVE  Registry!Done(c, t)
BY DEF Kept, Registry!Done

LEMMA EnumerateMaps ==
    ASSUME IInv, NEW c \in Caller, NEW S \in SUBSET Service, Enumerate(c, S)
    PROVE  UNCHANGED Registry!regVars
<1>. USE DEF IInv, Enumerate, Goto, registryVars, handleVars
<1>1. IdleFrame(c)
  BY DEF Frames, IdleFrame, EnumFrame, HandleFrame
<1>2. Kept
  BY <1>1 DEF Kept, Owners, IdleFrame, TypeOK, Tok
<1>3. \A t \in Tok : Lent(t)' = Lent(t)
  BY <1>1 DEF Lent, Native, IdleFrame, TypeOK
<1>. QED  BY <1>2, <1>3, IsStutter

LEMMA DrainMaps ==
    ASSUME IInv, NEW c \in Caller, NEW s \in Service, Drain(c, s), NEW t, t = next
    PROVE  t \in Tok /\ Registry!Issue(c, t)
<1>. USE DEF IInv, Drain, Goto, registryVars, handleVars
<1>1. t \in Tok /\ next' = next + 1 /\ next \in Nat
  BY BoundAssumption DEF TypeOK, Tok
<1>2. op[c] = "enumerate" /\ tok[c] = 0
  BY DEF Frames, IdleFrame, EnumFrame, HandleFrame
<1>3. \A h \in Handle : ref[h] # t
  <2>. SUFFICES ASSUME NEW h \in Handle, ref[h] = t PROVE FALSE
    OBVIOUS
  <2>1. t # 0 /\ t \notin reg
    BY <1>1 DEF Tok, Records
  <2>2. PICK d \in Caller : at[d] = "free" /\ on[d] = h
    BY <2>1 DEF Ownership, HandlesHold
  <2>3. tok[d] = t
    BY <2>2, NilAssumption DEF Frames, IdleFrame, EnumFrame, HandleFrame
  <2>4. tok[d] < next
    BY <2>2 DEF Frames, FreeFrame
  <2>. QED  BY <1>1, <2>3, <2>4
<1>4. \A d \in Caller : t \notin got[d]
  BY <1>1 DEF Ownership, DrainedApart, Records
<1>5. \A d \in Caller : op[d] = "enumerate" => tok[d] # t
  <2>. SUFFICES ASSUME NEW d \in Caller, op[d] = "enumerate", tok[d] = t PROVE FALSE
    OBVIOUS
  <2>1. t # 0 /\ t \notin reg
    BY <1>1 DEF Tok, Records
  <2>2. at[d] = "free"
    BY <2>1 DEF Frames, IdleFrame, EnumFrame, HandleFrame
  <2>. QED  BY <1>1, <2>2 DEF Frames, FreeFrame
<1>6. \A d \in Caller, u \in Tok : u \in got'[d] <=> u \in got[d] \/ (d = c /\ u = t)
  BY DEF TypeOK
<1>7. Owners(t)' = {c}
  <2>1. \A d \in Caller : t \in got'[d] <=> d = c
    BY <1>1, <1>4, <1>6
  <2>2. op' = op /\ tok' = tok /\ ref' = ref
    OBVIOUS
  <2>. QED  BY <1>3, <1>5, <2>1, <2>2 DEF Owners
<1>8. \A u \in Tok : u # t => Owners(u)' = Owners(u)
  <2>1. op' = op /\ tok' = tok /\ ref' = ref
    OBVIOUS
  <2>. QED  BY <1>6, <2>1 DEF Owners
<1>9. \A u \in Tok : Lent(u)' = Lent(u)
  BY DEF Lent, Native, TypeOK
<1>10. /\ {u \in Tok : u < next}' = {u \in Tok : u < next} \cup {t}
       /\ t \notin {u \in Tok : u < next}
  BY <1>1 DEF Tok, TypeOK
<1>11. {u \in Tok : refs[u] # 0}' = {u \in Tok : refs[u] # 0} \cup {t}
  BY <1>1 DEF TypeOK
<1>12. [u \in Tok |-> Owners(u)]' = [[u \in Tok |-> Owners(u)] EXCEPT ![t] = {c}]
  BY <1>7, <1>8
<1>13. [u \in Tok |-> Lent(u)]' = [u \in Tok |-> Lent(u)]
  BY <1>9
<1>. QED  BY <1>1, <1>10, <1>11, <1>12, <1>13 DEF Registry!Issue

LEMMA RejectMaps ==
    ASSUME IInv, NEW c \in Caller, NEW t \in Tok, Reject(c, t)
    PROVE  UNCHANGED Registry!regVars
<1>. USE DEF IInv, Reject, Goto, registryVars, handleVars
<1>1. op[c] = "enumerate" /\ tok[c] = 0
  BY DEF Frames, IdleFrame, EnumFrame, HandleFrame
<1>2. \A u \in Tok : Owners(u)' = Owners(u)
  <2>. SUFFICES ASSUME NEW u \in Tok PROVE Owners(u)' = Owners(u)
    OBVIOUS
  <2>1. \A d \in Caller : d # c => got'[d] = got[d] /\ tok'[d] = tok[d]
    BY DEF TypeOK
  <2>2. u \in got'[c] \/ tok'[c] = u <=> u \in got[c]
    BY DEF TypeOK
  <2>3. u # 0
    BY DEF Tok
  <2>. QED  BY <1>1, <2>1, <2>2, <2>3 DEF Owners
<1>3. \A u \in Tok : Lent(u)' = Lent(u)
  BY DEF Lent, Native, TypeOK
<1>. QED  BY <1>2, <1>3, IsStutter DEF Kept

\* A call on a handle begins: it borrows the handle's record, or it is a Close that
\* has nothing to close.
LEMMA BeginMaps ==
    ASSUME IInv, NEW c \in Caller, NEW h \in Handle, NEW what, NEW label, NEW t, t = ref[h],
           at[c] = "idle", Free(h), t \in reg, what # "enumerate",
           label \in (Native \ {"free"}) \cup {"drop"},
           Begin(c, h, what, label), UNCHANGED <<registryVars, owner, ref, todo, got>>
    PROVE  IF label = "drop" THEN UNCHANGED Registry!regVars ELSE Registry!Borrow(c, t)
<1>. USE DEF IInv, Begin, Goto, registryVars
<1>1. IdleFrame(c)
  BY DEF Frames, IdleFrame, EnumFrame, HandleFrame
<1>2. t \in Tok /\ refs[t] # 0
  BY DEF TypeOK, Records
<1>3. Kept
  BY <1>1, CallOwnsNothing DEF TypeOK, IdleFrame
<1>4. Lent(t) = {} /\ Owners(t) = {h}
  BY <1>2, FreeIsNotLent, HandleOwns
<1>5. /\ at'[c] = label /\ tok'[c] = t
      /\ \A d \in Caller : d # c => at'[d] = at[d] /\ tok'[d] = tok[d]
  BY DEF TypeOK
<1>6. \A u \in Tok : c \notin Lent(u)
  BY <1>1 DEF Lent, IdleFrame, Native
<1>7. CASE label = "drop"
  <2>1. \A u \in Tok : Lent(u)' = Lent(u)
    BY <1>5, <1>6, <1>7 DEF Lent, Native
  <2>. QED  BY <1>3, <1>7, <2>1, IsStutter
<1>8. CASE label # "drop"
  <2>1. Lent(t)' = {c}
    BY <1>4, <1>5, <1>8 DEF Lent
  <2>2. \A u \in Tok : u # t => Lent(u)' = Lent(u)
    BY <1>5, <1>6 DEF Lent
  <2>. QED  BY <1>2, <1>3, <1>4, <1>8, <2>1, <2>2, IsBorrow
<1>. QED  BY <1>7, <1>8

\* A call on a handle goes on, or is done with the record that it borrowed.
LEMMA GoesOn ==
    ASSUME IInv, NEW c \in Caller, NEW label \in Native \ {"free"},
           at[c] \in Native \ {"free"}, Goto(c, label),
           UNCHANGED <<op, tok, next, refs, ref, got>>
    PROVE  UNCHANGED Registry!regVars
<1>1. Kept
  BY DEF Kept, Owners
<1>2. \A u \in Tok : Lent(u)' = Lent(u)
  BY DEF Lent, Goto, IInv, TypeOK
<1>. QED  BY <1>1, <1>2, IsStutter

LEMMA DoneMaps ==
    ASSUME IInv, NEW c \in Caller, NEW t, t = tok[c], at[c] \in Native \ {"free"},
           op[c] # "enumerate", op'[c] # "enumerate", at'[c] \in {"idle", "drop"},
           \A d \in Caller : d # c => at'[d] = at[d] /\ op'[d] = op[d] /\ tok'[d] = tok[d],
           UNCHANGED <<next, refs, ref, got>>
    PROVE  t \in Tok /\ Registry!Done(c, t)
<1>1. t \in Tok
  BY DEF IInv, Frames, IdleFrame, EnumFrame, HandleFrame, Native
<1>2. Kept
  BY CallOwnsNothing
<1>3. Lent(t) = {c}
  BY <1>1, LentOnce
<1>4. Lent(t)' = {}
  <2>1. \A d \in Caller : ~(at'[d] \in Native \ {"free"} /\ tok'[d] = t)
    BY <1>3 DEF Lent, Native
  <2>. QED  BY <2>1 DEF Lent
<1>5. \A u \in Tok : u # t => Lent(u)' = Lent(u)
  BY DEF Lent, Native
<1>. QED  BY <1>1, <1>2, <1>3, <1>4, <1>5, IsDone

LEMMA FreeMaps ==
    ASSUME IInv, NEW c \in Caller, FreeNative(c), NEW t, t = tok[c]
    PROVE  t \in Tok /\ Registry!GiveBack(t)
<1>. USE DEF IInv, FreeNative, Return, Goto
<1>1. /\ t \in Tok /\ t # 0 /\ t \notin reg /\ refs[t] = 1
      /\ (EnumFrame(c) \/ HandleFrame(c)) /\ at[c] = "free"
  BY DEF Frames, FreeFrame, IdleFrame, EnumFrame, HandleFrame, Tok
<1>2. \A d \in Caller : tok[d] = t => d = c
  BY <1>1, TokensApart
<1>3. Lent(t) = {}
  BY <1>1, <1>2 DEF Lent
<1>4. /\ tok' = [tok EXCEPT ![c] = 0] /\ got' = got /\ next' = next
      /\ \A d \in Caller : d # c => op'[d] = op[d] /\ at'[d] = at[d]
      /\ op[c] = "enumerate" => ref' = ref /\ op' = op
      /\ op[c] # "enumerate" => /\ op'[c] = "none"
                                /\ ref' = [ref EXCEPT ![on[c]] = 0]
                                /\ on[c] \in Handle /\ ref[on[c]] = t
      /\ at'[c] \in {"idle", "sort"}
  BY <1>1 DEF TypeOK, EnumFrame, HandleFrame
<1>5. tok'[c] = 0 /\ \A d \in Caller : d # c => tok'[d] = tok[d]
  BY <1>4 DEF TypeOK
<1>6. \A u \in Tok : Lent(u)' = Lent(u)
  BY <1>1, <1>4, <1>5 DEF Lent, Native
<1>7. \A d \in Caller : t \notin got[d]
  BY <1>1 DEF Ownership, DrainedApart
<1>8. Owners(t)' = {}
  <2>1. \A d \in Caller : ~(op'[d] = "enumerate" /\ tok'[d] = t)
    BY <1>1, <1>2, <1>5
  <2>2. \A h \in Handle : ref'[h] # t
    <3>1. CASE op[c] = "enumerate"
      BY <1>1, <1>4, <3>1 DEF Ownership, RejectedApart
    <3>2. CASE op[c] # "enumerate"
      BY <1>1, <1>4, <3>2 DEF Ownership, HandlesApart, TypeOK
    <3>. QED  BY <3>1, <3>2
  <2>. QED  BY <1>4, <1>7, <2>1, <2>2 DEF Owners
<1>9. \A u \in Tok : u # t => Owners(u)' = Owners(u)
  <2>. SUFFICES ASSUME NEW u \in Tok, u # t PROVE Owners(u)' = Owners(u)
    OBVIOUS
  <2>1. u # 0
    BY DEF Tok
  <2>2. \A d \in Caller : (op'[d] = "enumerate" /\ tok'[d] = u) <=> (op[d] = "enumerate" /\ tok[d] = u)
    BY <1>4, <1>5, <2>1
  <2>3. \A h \in Handle : ref'[h] = u <=> ref[h] = u
    BY <1>4, <2>1 DEF TypeOK
  <2>. QED  BY <1>4, <2>2, <2>3 DEF Owners
<1>10. {u \in Tok : refs[u] # 0}' = {u \in Tok : refs[u] # 0} \ {t}
  BY <1>1 DEF TypeOK
<1>11. [u \in Tok |-> Owners(u)]' = [[u \in Tok |-> Owners(u)] EXCEPT ![t] = {}]
  BY <1>8, <1>9
<1>12. [u \in Tok |-> Lent(u)]' = [u \in Tok |-> Lent(u)]
  BY <1>6
<1>. QED  BY <1>1, <1>3, <1>4, <1>10, <1>11, <1>12 DEF Registry!GiveBack

LEMMA KeepMaps ==
    ASSUME IInv, NEW c \in Caller, Keep(c)
    PROVE  Registry!HandOver(c)
<1>. USE DEF IInv, Return, Goto, registryVars
<1>1. EnumFrame(c) /\ tok[c] = 0 /\ at[c] = "sort"
  BY DEF Keep, Frames, IdleFrame, EnumFrame, HandleFrame
<1>2. PICK f \in [got[c] -> {h \in Handle : ref[h] = 0 /\ Free(h)}] :
        /\ \A t, u \in got[c] : f[t] = f[u] => t = u
        /\ ref' = [h \in Handle |-> IF \E t \in got[c] : f[t] = h
                                   THEN CHOOSE t \in got[c] : f[t] = h ELSE ref[h]]
  BY DEF Keep
<1>3. /\ got' = [got EXCEPT ![c] = {}]
      /\ at' = [at EXCEPT ![c] = "idle"] /\ op' = [op EXCEPT ![c] = "none"]
      /\ tok' = [tok EXCEPT ![c] = 0] /\ UNCHANGED <<next, refs>>
  BY DEF Keep
<1>4. /\ \A t \in got[c] : f[t] \in Handle /\ ref[f[t]] = 0 /\ ref'[f[t]] = t
      /\ \A h \in Handle : ref'[h] = ref[h] \/ (ref[h] = 0 /\ ref'[h] \in got[c] /\ f[ref'[h]] = h)
  BY <1>2
<1>5. got[c] \subseteq Tok /\ 0 \notin Tok
  BY DEF TypeOK, Tok
<1>6. \A d \in Caller, u \in Tok :
         (u \in got'[d] \/ (op'[d] = "enumerate" /\ tok'[d] = u))
            <=> d # c /\ (u \in got[d] \/ (op[d] = "enumerate" /\ tok[d] = u))
  BY <1>3, <1>5 DEF TypeOK
<1>7. \A t \in Tok : (c \in Owners(t) <=> t \in got[c])
  BY <1>1, <1>5, PartiesAssumption DEF Owners
<1>8. \A h \in Handle, t \in Tok : h \in Owners(t) <=> ref[h] = t
  BY PartiesAssumption DEF Owners
<1>9. ASSUME NEW t \in got[c]
      PROVE  Owners(t)' = {f[t]}
  <2>1. \A h \in Handle : ref'[h] = t <=> h = f[t]
    BY <1>4, <1>9 DEF Ownership, DrainedApart
  <2>2. \A d \in Caller : ~(t \in got'[d] \/ (op'[d] = "enumerate" /\ tok'[d] = t))
    BY <1>5, <1>6, <1>9 DEF Ownership, DrainedApart
  <2>. QED  BY <1>4, <1>9, <2>1, <2>2 DEF Owners
<1>10. ASSUME NEW t \in Tok, t \notin got[c]
       PROVE  Owners(t)' = Owners(t)
  <2>1. \A h \in Handle : ref'[h] = t <=> ref[h] = t
    BY <1>4, <1>5, <1>10
  <2>2. \A d \in Caller :
           (t \in got'[d] \/ (op'[d] = "enumerate" /\ tok'[d] = t))
              <=> (t \in got[d] \/ (op[d] = "enumerate" /\ tok[d] = t))
    BY <1>1, <1>5, <1>6, <1>10
  <2>. QED  BY <2>1, <2>2 DEF Owners
<1>11. [t \in Tok |-> Lent(t)]' = [t \in Tok |-> Lent(t)]
  <2>1. \A t \in Tok : Lent(t)' = Lent(t)
    BY <1>1, <1>3 DEF Lent, Native, TypeOK
  <2>. QED  BY <2>1
<1>12. DEFINE holders == [t \in Tok |-> Owners(t)]
              mine    == {t \in Tok : c \in holders[t]}
              spare   == {h \in Handle : \A t \in Tok : h \notin holders[t]}
<1>13. mine = got[c]
  BY <1>5, <1>7
<1>14. {h \in Handle : ref[h] = 0 /\ Free(h)} \subseteq spare
  BY <1>5, <1>8
<1>15. f \in [mine -> spare]
  <2>1. \A t \in mine : f[t] \in spare
    BY <1>2, <1>13, <1>14
  <2>. QED  BY <1>2, <1>13, <2>1
<1>16. holders' = [t \in Tok |-> IF t \in mine THEN {f[t]} ELSE holders[t]]
  <2>1. \A t \in Tok : Owners(t)' = IF t \in mine THEN {f[t]} ELSE Owners(t)
    BY <1>9, <1>10, <1>13
  <2>. QED  BY <2>1
<1>17. \A t, u \in mine : f[t] = f[u] => t = u
  BY <1>2, <1>13
<1>. QED  BY <1>3, <1>11, <1>15, <1>16, <1>17 DEF Registry!HandOver

\* What a step of a call on a handle, or of an enumeration, is in the registry.
LEMMA CallMaps ==
    ASSUME IInv, NEW c \in Caller,
           \/ \E t \in Tok : Reject(c, t)
           \/ \E h \in Handle : \/ \E what \in {"open", "seize"} : BeginOpen(c, h, what)
                                \/ BeginCached(c, h) \/ BeginUse(c, h) \/ BeginClose(c, h)
           \/ OpenNative(c) \/ Answer(c) \/ Run(c)
    PROVE  Registry!Next \/ UNCHANGED Registry!regVars
<1>1. PICK t : t = tok[c]
  OBVIOUS
<1>2. ASSUME Registry!Done(c, t), t \in Tok
      PROVE  Registry!Next
  BY <1>2 DEF Registry!Next
<1>3. CASE \E u \in Tok : Reject(c, u)
  BY <1>3, RejectMaps
<1>4. ASSUME NEW h \in Handle,
             \/ \E what \in {"open", "seize"} : BeginOpen(c, h, what)
             \/ BeginCached(c, h) \/ BeginUse(c, h) \/ BeginClose(c, h)
      PROVE  Registry!Next \/ UNCHANGED Registry!regVars
  <2>1. PICK u : u = ref[h]
    OBVIOUS
  <2>2. /\ at[c] = "idle" /\ Free(h) /\ u \in reg /\ u \in Tok
        /\ UNCHANGED <<registryVars, owner, ref, todo, got>>
        /\ \E what \in {"open", "seize", "cached", "use", "close"}, label \in {"attach", "request", "close", "drop"} :
              Begin(c, h, what, label)
    <3>1. CASE BeginClose(c, h)
      <4>1. u \in reg
        <5>1. CASE \E d \in Caller : at[d] = "free" /\ on[d] = h
          BY <3>1, <5>1 DEF BeginClose, Free
        <5>2. CASE ~\E d \in Caller : at[d] = "free" /\ on[d] = h
          BY <2>1, <3>1, <5>2 DEF BeginClose, IInv, Ownership, HandlesHold
        <5>. QED  BY <5>1, <5>2
      <4>2. Begin(c, h, "close", "close") \/ Begin(c, h, "close", "drop")
        BY <3>1 DEF BeginClose
      <4>. QED  BY <2>1, <3>1, <4>1, <4>2 DEF BeginClose, handleVars, IInv, TypeOK
    <3>2. CASE \E what \in {"open", "seize"} : BeginOpen(c, h, what)
      BY <2>1, <3>2 DEF BeginOpen, handleVars, IInv, TypeOK
    <3>3. CASE BeginCached(c, h)
      BY <2>1, <3>3 DEF BeginCached, handleVars, IInv, TypeOK
    <3>4. CASE BeginUse(c, h)
      BY <2>1, <3>4 DEF BeginUse, handleVars, IInv, TypeOK
    <3>. QED  BY <1>4, <3>1, <3>2, <3>3, <3>4
  <2>3. PICK what \in {"open", "seize", "cached", "use", "close"}, label \in {"attach", "request", "close", "drop"} :
           Begin(c, h, what, label)
    BY <2>2
  <2>4. what # "enumerate" /\ label \in (Native \ {"free"}) \cup {"drop"}
    BY DEF Native
  <2>5. UNCHANGED Registry!regVars \/ Registry!Borrow(c, u)
    BY <2>1, <2>2, <2>3, <2>4, BeginMaps
  <2>. QED  BY <2>2, <2>5 DEF Registry!Next
<1>5. CASE OpenNative(c) \/ Answer(c) \/ OpenFails(c) \/ Deadline(c) \/ CloseNative(c)
  <2>1. /\ at[c] \in Native \ {"free"} /\ op[c] # "enumerate"
        /\ op'[c] # "enumerate" /\ at'[c] \in {"idle", "drop"}
        /\ \A d \in Caller : d # c => at'[d] = at[d] /\ op'[d] = op[d] /\ tok'[d] = tok[d]
        /\ UNCHANGED <<next, refs, ref, got>>
    BY <1>5 DEF OpenNative, Answer, OpenFails, Deadline, CloseNative, Return, Goto, registryVars,
                handleVars, IInv, TypeOK, Frames, IdleFrame, EnumFrame, HandleFrame, Native
  <2>. QED  BY <1>1, <1>2, <2>1, DoneMaps
<1>6. CASE Attach(c)
  <2>1. CASE /\ Goto(c, IF op[c] = "cached" THEN "request" ELSE "open")
             /\ UNCHANGED <<op, tok>>
    <3>1. at[c] \in Native \ {"free"} /\ UNCHANGED <<op, tok, next, refs, ref, got>>
      BY <1>6, <2>1 DEF Attach, Native, handleVars
    <3>2. \E label \in Native \ {"free"} : Goto(c, label)
      BY <2>1 DEF Native
    <3>. QED  BY <3>1, <3>2, GoesOn
  <2>2. CASE Return(c)
    <3>1. /\ at[c] \in Native \ {"free"} /\ op[c] # "enumerate"
          /\ op'[c] # "enumerate" /\ at'[c] \in {"idle", "drop"}
          /\ \A d \in Caller : d # c => at'[d] = at[d] /\ op'[d] = op[d] /\ tok'[d] = tok[d]
          /\ UNCHANGED <<next, refs, ref, got>>
      BY <1>6, <2>2 DEF Attach, Return, Goto, handleVars, IInv, TypeOK, Frames, IdleFrame, EnumFrame,
                        HandleFrame, Native
    <3>. QED  BY <1>1, <1>2, <3>1, DoneMaps
  <2>. QED  BY <1>6, <2>1, <2>2 DEF Attach
<1>7. CASE \E s \in Service : Drain(c, s)
  <2>1. PICK u : u = next
    OBVIOUS
  <2>. QED  BY <1>7, <2>1, DrainMaps DEF Registry!Next
<1>8. CASE Keep(c)
  <2>1. Registry!HandOver(c)
    BY <1>8, KeepMaps
  <2>2. CASE Tok = {}
    BY <2>1, <2>2 DEF Registry!HandOver, Registry!regVars
  <2>. QED  BY <2>1, <2>2 DEF Registry!Next
<1>9. CASE Drop(c)
  <2>1. Kept
    BY <1>9 DEF Drop, handleVars, Kept, Owners
  <2>2. \A u \in Tok : Lent(u)' = Lent(u)
    BY <1>9 DEF Drop, Goto, Lent, Native, IInv, TypeOK
  <2>. QED  BY <2>1, <2>2, IsStutter
<1>10. CASE FreeNative(c)
  BY <1>1, <1>10, FreeMaps DEF Registry!Next
<1>. QED  BY <1>3, <1>4, <1>5, <1>6, <1>7, <1>8, <1>9, <1>10 DEF Run

\* The handles of package usb keep the promises of HandleRegistry.
THEOREM RefinesRegistry == Spec => ImplementsRegistry
<1>1. Init => Registry!Init
  <2>. SUFFICES ASSUME Init PROVE Registry!Init
    OBVIOUS
  <2>1. {t \in Tok : t < next} = {} /\ {t \in Tok : refs[t] # 0} = {}
    BY BoundAssumption DEF Init, Tok
  <2>2. \A t \in Tok : Owners(t) = {} /\ Lent(t) = {}
    BY DEF Init, Owners, Lent, Native, Tok
  <2>. QED  BY <2>1, <2>2 DEF Registry!Init
<1>2. IInv /\ [Next]_vars => [Registry!Next]_Registry!regVars
  <2>. SUFFICES ASSUME IInv, [Next]_vars PROVE [Registry!Next]_Registry!regVars
    OBVIOUS
  <2>1. CASE UNCHANGED vars
    <3>1. Kept /\ \A t \in Tok : Lent(t)' = Lent(t)
      BY <2>1 DEF vars, registryVars, handleVars, callVars, Kept, Owners, Lent
    <3>. QED  BY <3>1, IsStutter
  <2>2. CASE \E s \in Service : Displace(s)
    <3>1. Kept /\ \A t \in Tok : Lent(t)' = Lent(t)
      BY <2>2 DEF Displace, registryVars, handleVars, callVars, Kept, Owners, Lent
    <3>. QED  BY <3>1, IsStutter
  <2>3. CASE \E c \in Caller, S \in SUBSET Service : Enumerate(c, S)
    BY <2>3, EnumerateMaps
  <2>4. ASSUME NEW c \in Caller, ~\E S \in SUBSET Service : Enumerate(c, S),
               \/ \E t \in Tok : Reject(c, t)
               \/ \E h \in Handle : \/ \E what \in {"open", "seize"} : BeginOpen(c, h, what)
                                    \/ BeginCached(c, h) \/ BeginUse(c, h) \/ BeginClose(c, h)
               \/ OpenNative(c) \/ Answer(c) \/ Run(c)
        PROVE  [Registry!Next]_Registry!regVars
    BY <2>4, CallMaps
  <2>. QED  BY <2>1, <2>2, <2>3, <2>4 DEF Next
<1>. QED  BY <1>1, <1>2, Invariance, PTL DEF Spec, ImplementsRegistry, Registry!Spec
=============================================================================
