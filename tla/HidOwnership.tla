----------------------------- MODULE HidOwnership -----------------------------
(***************************************************************************)
(* What package hid promises about a Device: Stream calls hold it, and     *)
(* nobody closes or releases it from under a holder. The handle goes       *)
(* closed -> open -> closed -> released and never comes back.              *)
(***************************************************************************)
CONSTANTS Device, Streamer

VARIABLES
    state,    \* "closed", "open" or "released"
    holders   \* the Stream calls that hold the device

ownershipVars == <<state, holders>>

Init ==
    /\ state = [d \in Device |-> "closed"]
    /\ holders = [d \in Device |-> {}]

Move(d, from, to) ==
    /\ state[d] = from
    /\ state' = [state EXCEPT ![d] = to]
    /\ UNCHANGED holders

OpenDevice(d) == Move(d, "closed", "open")

\* The two halves of Close, which wait for the last holder.
Shut(d)    == holders[d] = {} /\ Move(d, "open", "closed")
Release(d) == holders[d] = {} /\ Move(d, "closed", "released")

\* Stream takes hold of a device only while it is open.
Hold(s, d) ==
    /\ state[d] = "open"
    /\ holders' = [holders EXCEPT ![d] = @ \cup {s}]
    /\ UNCHANGED state

Drop(s, d) ==
    /\ holders' = [holders EXCEPT ![d] = @ \ {s}]
    /\ UNCHANGED state

Next ==
    \E d \in Device :
        \/ OpenDevice(d) \/ Shut(d) \/ Release(d)
        \/ \E s \in Streamer : Hold(s, d) \/ Drop(s, d)

Spec == Init /\ [][Next]_ownershipVars
=============================================================================
