------------------------------ MODULE UsbHandles ------------------------------
(***************************************************************************)
(* The handles of package usb and what they hold: Device and               *)
(* InterfaceHandle (usb.go, iface.go) over the token registry and IOKit    *)
(* (usb_darwin.go, iface_darwin.go).                                       *)
(*                                                                         *)
(* A handle carries a token, never a pointer; the registry maps the token  *)
(* to a native record: the io_service_t reference the iterator handed      *)
(* over, and the plug-in interface attach made. Goroutines enumerate and   *)
(* use handles concurrently; the package offers no concurrent use of one   *)
(* handle, so a handle is in one call at a time. A handle may be used      *)
(* after Close and closed again: those calls must be refused or do nothing.*)
(***************************************************************************)
EXTENDS Integers, FiniteSets

CONSTANTS
    Caller,        \* goroutines
    Handle,        \* Device and InterfaceHandle values callers keep
    Service,       \* what IOKit publishes
    Iface,         \* those that are interfaces; the others are devices
    MaxTok,        \* bound: services the iterators hand out in one behaviour
    Old,           \* devices whose plug-in may have only version 100, without timeouts
    NoHandle, NoService,
    Driver         \* a kernel driver, as the owner of a service

ASSUME IfaceAssumption == Iface \subseteq Service /\ Old \subseteq Service \ Iface
ASSUME BoundAssumption == MaxTok \in Nat
ASSUME NilAssumption == NoHandle \notin Handle /\ NoService \notin Service
ASSUME OwnerAssumption == Driver \notin Nat
ASSUME PartiesAssumption == Handle \cap Caller = {}

Tok == 1..MaxTok

VARIABLES
    \* usb_darwin.go: the registry and the native records it ever held.
    next,      \* registryNext
    reg,       \* the tokens in the map
    service,   \* native.service, NoService when it is 0
    dev,       \* native.dev: "nil", "live", or "freed" for a call that still has the record
    hasTO,     \* native.hasTO
    \* IOKit.
    refs,      \* references the program owns through this record
    owner,     \* who has a service open: a token's interface, Driver or 0
    \* Device and InterfaceHandle.
    ref, opened, seized,
    \* One call per goroutine.
    at,        \* where it is
    op,        \* what it is doing
    on,        \* the handle it is about, NoHandle in an enumeration
    tok,       \* the token it looked up
    todo,      \* the services its iterator still holds
    got        \* the tokens its enumeration has drained and not disposed of

registryVars == <<next, reg, service, dev, hasTO, refs>>
handleVars   == <<ref, opened, seized>>
callVars     == <<at, op, on, tok, todo, got>>
vars == <<registryVars, owner, handleVars, callVars>>

IsIface(t) == service[t] \in Iface

\* The steps that call through native.dev.
Native == {"attach", "open", "request", "close", "free"}

TypeOK ==
    /\ next \in 1..(MaxTok + 1)
    /\ reg \subseteq Tok
    /\ service \in [Tok -> Service \cup {NoService}]
    /\ dev \in [Tok -> {"nil", "live", "freed"}]
    /\ hasTO \in [Tok -> BOOLEAN]
    /\ refs \in [Tok -> Nat]
    /\ owner \in [Service -> Tok \cup {0, Driver}]
    /\ ref \in [Handle -> Tok \cup {0}]
    /\ opened \in [Handle -> BOOLEAN]
    /\ seized \in [Handle -> BOOLEAN]
    /\ at \in [Caller -> Native \cup {"idle", "drain", "sort", "drop"}]
    /\ op \in [Caller -> {"none", "enumerate", "open", "seize", "use", "cached", "close"}]
    /\ on \in [Caller -> Handle \cup {NoHandle}]
    /\ tok \in [Caller -> Tok \cup {0}]
    /\ todo \in [Caller -> SUBSET Service]
    /\ got \in [Caller -> SUBSET Tok]

Init ==
    /\ next = 1
    /\ reg = {}
    /\ service = [t \in Tok |-> NoService]
    /\ dev = [t \in Tok |-> "nil"]
    /\ hasTO = [t \in Tok |-> FALSE]
    /\ refs = [t \in Tok |-> 0]
    /\ owner \in [Service -> {0, Driver}]
    /\ ref = [h \in Handle |-> 0]
    /\ opened = [h \in Handle |-> FALSE]
    /\ seized = [h \in Handle |-> FALSE]
    /\ at = [c \in Caller |-> "idle"]
    /\ op = [c \in Caller |-> "none"]
    /\ on = [c \in Caller |-> NoHandle]
    /\ tok = [c \in Caller |-> 0]
    /\ todo = [c \in Caller |-> {}]
    /\ got = [c \in Caller |-> {}]

\* No call is using h.
Free(h) == \A c \in Caller : on[c] # h

Goto(c, label) == at' = [at EXCEPT ![c] = label]

\* The call of c is over.
Return(c) ==
    /\ Goto(c, "idle")
    /\ op' = [op EXCEPT ![c] = "none"]
    /\ on' = [on EXCEPT ![c] = NoHandle]
    /\ tok' = [tok EXCEPT ![c] = 0]

\* A call on h gets past its own checks, with the token it will look up.
Begin(c, h, what, label) ==
    /\ Goto(c, label)
    /\ op' = [op EXCEPT ![c] = what]
    /\ on' = [on EXCEPT ![c] = h]
    /\ tok' = [tok EXCEPT ![c] = ref[h]]

-----------------------------------------------------------------------------
(* Devices and Interfaces: drain the iterator, then keep or release. *)

\* An iterator holds devices or interfaces, never both.
Enumerate(c, S) ==
    /\ at[c] = "idle" /\ S # {}
    /\ S \subseteq Iface \/ S \cap Iface = {}
    /\ todo' = [todo EXCEPT ![c] = S]
    /\ Goto(c, "drain")
    /\ op' = [op EXCEPT ![c] = "enumerate"]
    /\ UNCHANGED <<registryVars, owner, handleVars, on, tok, got>>

\* Bug: the reference the iterator handed over is released while draining.
Drain_Borrows(c, s) ==
    /\ at[c] = "drain" /\ s \in todo[c]
    /\ next <= MaxTok
    /\ next' = next + 1
    /\ reg' = reg \cup {next}
    /\ service' = [service EXCEPT ![next] = s]
    /\ todo' = [todo EXCEPT ![c] = @ \ {s}]
    /\ got' = [got EXCEPT ![c] = @ \cup {next}]
    /\ Goto(c, IF todo[c] = {s} THEN "sort" ELSE "drain")
    /\ UNCHANGED <<refs, dev, hasTO, owner, handleVars, op, on, tok>>

\* Bug: the token is taken from the size of the map.
Drain_Reuses(c, s) ==
    LET t == Cardinality(reg) + 1 IN
    /\ at[c] = "drain" /\ s \in todo[c]
    /\ next <= MaxTok
    /\ next' = next + 1
    /\ reg' = reg \cup {t}
    /\ service' = [service EXCEPT ![t] = s]
    /\ refs' = [refs EXCEPT ![t] = 1]
    /\ dev' = [dev EXCEPT ![t] = "nil"]
    /\ hasTO' = [hasTO EXCEPT ![t] = FALSE]
    /\ todo' = [todo EXCEPT ![c] = @ \ {s}]
    /\ got' = [got EXCEPT ![c] = @ \cup {t}]
    /\ Goto(c, IF todo[c] = {s} THEN "sort" ELSE "drain")
    /\ UNCHANGED <<owner, handleVars, op, on, tok>>

\* The iterator hands over a reference and registryAdd gives it a token.
Drain(c, s) ==
    /\ at[c] = "drain" /\ s \in todo[c]
    /\ next <= MaxTok
    /\ next' = next + 1
    /\ reg' = reg \cup {next}
    /\ service' = [service EXCEPT ![next] = s]
    /\ refs' = [refs EXCEPT ![next] = 1]
    /\ dev' = [dev EXCEPT ![next] = "nil"]
    /\ hasTO' = [hasTO EXCEPT ![next] = FALSE]
    /\ todo' = [todo EXCEPT ![c] = @ \ {s}]
    /\ got' = [got EXCEPT ![c] = @ \cup {next}]
    /\ Goto(c, IF todo[c] = {s} THEN "sort" ELSE "drain")
    /\ UNCHANGED <<owner, handleVars, op, on, tok>>

\* Bug: a device the filter does not match is just skipped.
Reject_Forgets(c, t) ==
    /\ at[c] = "sort" /\ t \in got[c]
    /\ got' = [got EXCEPT ![c] = @ \ {t}]
    /\ UNCHANGED <<registryVars, owner, handleVars, at, op, on, tok, todo>>

\* The filter does not match: "not ours to keep".
Reject(c, t) ==
    /\ at[c] = "sort" /\ t \in got[c]
    /\ got' = [got EXCEPT ![c] = @ \ {t}]
    /\ tok' = [tok EXCEPT ![c] = t]
    /\ Goto(c, "drop")
    /\ UNCHANGED <<registryVars, owner, handleVars, op, on, todo>>

\* What is left goes to the caller, each token in a handle of its own. A
\* handle value nobody needs any more takes the place of a new one.
Keep(c) ==
    /\ at[c] = "sort"
    /\ \E f \in [got[c] -> {h \in Handle : ref[h] = 0 /\ Free(h)}] :
        /\ \A t, u \in got[c] : f[t] = f[u] => t = u
        /\ ref' = [h \in Handle |-> IF \E t \in got[c] : f[t] = h
                                   THEN CHOOSE t \in got[c] : f[t] = h ELSE ref[h]]
        /\ opened' = [h \in Handle |-> opened[h] /\ ref'[h] = ref[h]]
        /\ seized' = [h \in Handle |-> seized[h] /\ ref'[h] = ref[h]]
    /\ got' = [got EXCEPT ![c] = {}]
    /\ Return(c)
    /\ UNCHANGED <<registryVars, owner, todo>>

-----------------------------------------------------------------------------
(* Open and OpenSeize. *)

\* A Device that is open already returns nil, an InterfaceHandle is opened
\* again; a handle without a token is refused (ErrReleased, or NoDevice from
\* the registry, which knows no token 0). Returns at once are stuttering steps.
BeginOpen(c, h, what) ==
    /\ at[c] = "idle" /\ Free(h)
    /\ what \in {"open", "seize"}
    /\ ref[h] \in reg
    /\ opened[h] => IsIface(ref[h])
    /\ Begin(c, h, what, "attach")
    /\ UNCHANGED <<registryVars, owner, handleVars, todo, got>>

\* ConfigDescriptor asks for no open handle; a Device only.
BeginCached(c, h) ==
    /\ at[c] = "idle" /\ Free(h)
    /\ ref[h] \in reg
    /\ ~IsIface(ref[h])
    /\ Begin(c, h, "cached", "attach")
    /\ UNCHANGED <<registryVars, owner, handleVars, todo, got>>

\* attach does nothing when there is an interface. Otherwise it makes a plug-in,
\* queries it for the newest interface it has and releases it; any step of that
\* may fail, and then the call does.
Attach(c) ==
    LET t == tok[c]
        Go == Goto(c, IF op[c] = "cached" THEN "request" ELSE "open") /\ UNCHANGED <<op, on, tok>>
    IN
    /\ at[c] = "attach"
    /\ \/ dev[t] = "live" /\ Go /\ UNCHANGED <<dev, hasTO>>
       \/ /\ dev[t] = "nil"
          /\ dev' = [dev EXCEPT ![t] = "live"]
          /\ \E to \in BOOLEAN : /\ ~to => service[t] \in Old
                                 /\ hasTO' = [hasTO EXCEPT ![t] = to]
          /\ Go
       \/ dev[t] = "nil" /\ Return(c) /\ UNCHANGED <<dev, hasTO>>
    /\ UNCHANGED <<next, reg, service, refs, owner, handleVars, todo, got>>

\* Bug: USBDeviceOpenSeize is called whatever the version of the interface.
OpenNative_Blind(c) ==
    LET s == service[tok[c]] IN
    /\ at[c] = "open"
    /\ op[c] = "open" => owner[s] \in {0, tok[c]}
    /\ owner' = [owner EXCEPT ![s] = tok[c]]
    /\ opened' = [opened EXCEPT ![on[c]] = TRUE]
    /\ seized' = [seized EXCEPT ![on[c]] = op[c] = "seize"]
    /\ Return(c)
    /\ UNCHANGED <<registryVars, ref, todo, got>>

\* USBDeviceOpen, USBInterfaceOpen and their seizing variants. A plain open
\* succeeds only on a service nobody else has; a seizing one may displace the
\* owner; IOKit may refuse either for reasons of its own.
OpenNative(c) ==
    LET s == service[tok[c]] IN
    /\ at[c] = "open"
    /\ op[c] = "seize" => hasTO[tok[c]]       \* else Unsupported: see OpenFails
    /\ op[c] = "open" => owner[s] \in {0, tok[c]}
    /\ owner' = [owner EXCEPT ![s] = tok[c]]
    /\ opened' = [opened EXCEPT ![on[c]] = TRUE]
    /\ seized' = [seized EXCEPT ![on[c]] = op[c] = "seize"]
    /\ Return(c)
    /\ UNCHANGED <<registryVars, ref, todo, got>>

OpenFails(c) ==
    /\ at[c] = "open"
    /\ Return(c)
    /\ UNCHANGED <<registryVars, owner, handleVars, todo, got>>

-----------------------------------------------------------------------------
(* Control on a Device; Pipes, Read and Write on an InterfaceHandle. *)

\* Control wants an open Device. An InterfaceHandle is only asked for its token;
\* the seam refuses a record without an interface. Read has its own module.
BeginUse(c, h) ==
    /\ at[c] = "idle" /\ Free(h)
    /\ ref[h] \in reg
    /\ IsIface(ref[h]) \/ opened[h]
    /\ dev[ref[h]] # "nil"
    /\ Begin(c, h, "use", "request")
    /\ UNCHANGED <<registryVars, owner, handleVars, todo, got>>

\* The device answers or stalls, or IOKit refuses the request.
Answer(c) ==
    /\ at[c] = "request"
    /\ Return(c)
    /\ UNCHANGED <<registryVars, owner, handleVars, todo, got>>

\* Bug: a device's transfers are made by DeviceRequest, whatever its interface has.
Deadline_Plain(c) ==
    /\ at[c] = "request"
    /\ (hasTO[tok[c]] /\ IsIface(tok[c])) \/ op[c] = "cached"
    /\ Return(c)
    /\ UNCHANGED <<registryVars, owner, handleVars, todo, got>>

\* What ends a request without the device: the deadline of the TO variants. A
\* cached descriptor is the kernel's to give.
Deadline(c) ==
    /\ at[c] = "request"
    /\ hasTO[tok[c]] \/ op[c] = "cached"
    /\ Return(c)
    /\ UNCHANGED <<registryVars, owner, handleVars, todo, got>>

-----------------------------------------------------------------------------
(* Close. A second Close finds no token and returns: a stuttering step. *)

BeginClose(c, h) ==
    /\ at[c] = "idle" /\ Free(h)
    /\ ref[h] # 0
    /\ Begin(c, h, "close", IF opened[h] THEN "close" ELSE "drop")
    /\ UNCHANGED <<registryVars, owner, handleVars, todo, got>>

\* Bug: closing the handle releases the interface too.
CloseNative_Releases(c) ==
    LET s == service[tok[c]] IN
    /\ at[c] = "close"
    /\ owner' = [owner EXCEPT ![s] = IF @ = tok[c] THEN 0 ELSE @]
    /\ opened' = [opened EXCEPT ![on[c]] = FALSE]
    /\ seized' = [seized EXCEPT ![on[c]] = @ /\ s \in Iface]
    /\ dev' = [dev EXCEPT ![tok[c]] = "freed"]
    /\ Goto(c, "drop")
    /\ UNCHANGED <<next, reg, service, hasTO, refs, ref, op, on, tok, todo, got>>

\* Close the native handle; whatever code that returns, the Go handle is no
\* longer open. Only Device.Close forgets that it had seized.
CloseNative(c) ==
    LET s == service[tok[c]] IN
    /\ at[c] = "close"
    /\ \/ UNCHANGED owner
       \/ owner[s] = tok[c] /\ owner' = [owner EXCEPT ![s] = 0]
    /\ opened' = [opened EXCEPT ![on[c]] = FALSE]
    /\ seized' = [seized EXCEPT ![on[c]] = @ /\ s \in Iface]
    /\ Goto(c, "drop")
    /\ UNCHANGED <<registryVars, ref, op, on, tok, todo, got>>

\* darwinRelease: take the record out of the map ...
Drop(c) ==
    /\ at[c] = "drop"
    /\ reg' = reg \ {tok[c]}
    /\ Goto(c, "free")
    /\ UNCHANGED <<next, service, dev, hasTO, refs, owner, handleVars, op, on, tok, todo, got>>

\* Bug: the service is given back and the interface is not.
FreeNative_KeepsInterface(c) ==
    LET t == tok[c] IN
    /\ at[c] = "free"
    /\ refs' = [refs EXCEPT ![t] = @ - 1]
    /\ service' = [service EXCEPT ![t] = NoService]
    /\ IF op[c] = "enumerate"
       THEN Goto(c, "sort") /\ tok' = [tok EXCEPT ![c] = 0] /\ UNCHANGED <<ref, op, on>>
       ELSE ref' = [ref EXCEPT ![on[c]] = 0] /\ Return(c)
    /\ UNCHANGED <<dev, owner, next, reg, hasTO, opened, seized, todo, got>>

\* Bug: the interface is released and the service is not given back.
FreeNative_KeepsService(c) ==
    LET t == tok[c] IN
    /\ at[c] = "free"
    /\ dev' = [dev EXCEPT ![t] = IF @ = "nil" THEN "nil" ELSE "freed"]
    /\ owner' = [s \in Service |-> IF owner[s] = t THEN 0 ELSE owner[s]]
    /\ IF op[c] = "enumerate"
       THEN Goto(c, "sort") /\ tok' = [tok EXCEPT ![c] = 0] /\ UNCHANGED <<ref, op, on>>
       ELSE ref' = [ref EXCEPT ![on[c]] = 0] /\ Return(c)
    /\ UNCHANGED <<refs, service, next, reg, hasTO, opened, seized, todo, got>>

\* ... release its interface, which closes what it had open, and give the service
\* back. Close then forgets the token; an enumeration goes on with the next one.
FreeNative(c) ==
    LET t == tok[c] IN
    /\ at[c] = "free"
    /\ dev' = [dev EXCEPT ![t] = IF @ = "nil" THEN "nil" ELSE "freed"]
    /\ owner' = [s \in Service |-> IF owner[s] = t THEN 0 ELSE owner[s]]
    /\ refs' = [refs EXCEPT ![t] = @ - 1]
    /\ service' = [service EXCEPT ![t] = NoService]
    /\ IF op[c] = "enumerate"
       THEN Goto(c, "sort") /\ tok' = [tok EXCEPT ![c] = 0] /\ UNCHANGED <<ref, op, on>>
       ELSE ref' = [ref EXCEPT ![on[c]] = 0] /\ Return(c)
    /\ UNCHANGED <<next, reg, hasTO, opened, seized, todo, got>>

-----------------------------------------------------------------------------
\* Whoever had a service open loses it: a driver attaches or lets go, takes back
\* what was seized, or the device is unplugged.
Displace(s) ==
    /\ \E who \in {0, Driver} : owner' = [owner EXCEPT ![s] = who]
    /\ UNCHANGED <<registryVars, handleVars, callVars>>

\* What a call does by itself, once begun.
Run(c) ==
    \/ \E s \in Service : Drain(c, s)
    \/ Keep(c) \/ Attach(c) \/ OpenFails(c) \/ Deadline(c)
    \/ CloseNative(c) \/ Drop(c) \/ FreeNative(c)

Next ==
    \/ \E c \in Caller :
        \/ \E S \in SUBSET Service : Enumerate(c, S)
        \/ \E t \in Tok : Reject(c, t)
        \/ \E h \in Handle : \/ \E what \in {"open", "seize"} : BeginOpen(c, h, what)
                             \/ BeginCached(c, h) \/ BeginUse(c, h) \/ BeginClose(c, h)
        \/ OpenNative(c) \/ Answer(c) \/ Run(c)
    \/ \E s \in Service : Displace(s)

Spec == Init /\ [][Next]_vars

\* A goroutine that can take a step by itself does. Nothing obliges a device to
\* answer.
FairSpec == Spec /\ \A c \in Caller : WF_vars(Run(c))
-----------------------------------------------------------------------------
(* Properties *)

\* The calls that are giving token t back.
Freeing(t) == \E c \in Caller : at[c] = "free" /\ tok[c] = t

\* Whoever is to dispose of the record of t: the handle that carries it, or the
\* enumeration that has not returned yet.
Owners(t) ==
    {h \in Handle : ref[h] = t} \cup
    {c \in Caller : t \in got[c] \/ (op[c] = "enumerate" /\ tok[c] = t)}

\* The calls that go through the record of t.
Lent(t) == {c \in Caller : at[c] \in Native \ {"free"} /\ tok[c] = t}

\* No reference leaks and none is returned twice: the program owns the service
\* and the interface of exactly the records in the map or on their way out of it.
RefsMatchEntries ==
    \A t \in Tok :
        /\ refs[t] = IF t \in reg \/ Freeing(t) THEN 1 ELSE 0
        /\ dev[t] = "live" => t \in reg \/ Freeing(t)

\* Every record in the map will be given back by exactly one party ("Every
\* returned interface holds a kernel reference and must be closed", Interfaces;
\* "not ours to keep", Devices).
OneOwner == \A t \in reg : \E o \in Handle \cup Caller : Owners(t) = {o}

\* No call goes through an interface that has been released ("a token lets a
\* stale handle be rejected instead of dereferenced", usb_darwin.go).
NoStaleCall == \A c \in Caller : at[c] \in Native => dev[tok[c]] # "freed"

\* What the kernel holds open for the program, a handle that says it is open
\* answers for, or a Close that is not over.
KernelAgrees ==
    \A s \in Service : owner[s] \in Tok =>
        \E h \in Handle : /\ ref[h] = owner[s]
                          /\ opened[h] \/ \E c \in Caller : on[c] = h /\ op[c] = "close"

\* A handle that was seized has an interface with that entry ("calling index 29
\* on it would jump past the vtable", darwinOpen), whichever call attached it.
SeizedHasEntry == \A h \in Handle : opened[h] /\ seized[h] => hasTO[ref[h]]

\* The registry, its handles and the calls over them are the registry of HandleRegistry,
\* which knows no map, no order in which a record is taken apart and no failures: each
\* token has one holder for as long as the program owns its references, is lent to one
\* call at a time, is given back by its holder when no call has it, and is never given
\* out again ("a token lets a stale handle be rejected instead of dereferenced").
Registry == INSTANCE HandleRegistry WITH
    issued  <- {t \in Tok : t < next},
    alive   <- {t \in Tok : refs[t] # 0},
    holders <- [t \in Tok |-> Owners(t)],
    users   <- [t \in Tok |-> Lent(t)]
ImplementsRegistry == Registry!Spec

\* A control transfer in flight carries a deadline ("every transfer gets a
\* deadline whether the caller set one or not", defaultTimeout).
EveryTransferHasDeadline ==
    \A c \in Caller : at[c] = "request" /\ op[c] = "use" => hasTO[tok[c]]

\* Every call on a handle comes back though its device may never answer ("every transfer
\* gets a deadline"), except a transfer through an interface that has no deadlines.
CallsReturn ==
    \A c \in Caller :
        (on[c] # NoHandle) ~>
            \/ on[c] = NoHandle
            \/ at[c] = "request" /\ op[c] = "use" /\ ~hasTO[tok[c]]
=============================================================================
