---------------------------- MODULE HandleRegistry ----------------------------
(***************************************************************************)
(* What package usb promises of its handles: each record of a service has  *)
(* one holder, who alone disposes of it; it is lent to one call at a time, *)
(* and given back once, when no call has it; and its number stands for     *)
(* nothing else before or after.                                           *)
(***************************************************************************)
CONSTANTS Tok, Caller, Handle

VARIABLES
    issued,   \* the numbers that have been given out
    alive,    \* those whose references the program owns
    holders,  \* who is to give a record back
    users     \* the calls that it is lent to

regVars == <<issued, alive, holders, users>>

Init ==
    /\ issued = {} /\ alive = {}
    /\ holders = [t \in Tok |-> {}]
    /\ users = [t \in Tok |-> {}]

\* An enumeration is handed a service.
Issue(c, t) ==
    /\ t \notin issued
    /\ issued' = issued \cup {t}
    /\ alive' = alive \cup {t}
    /\ holders' = [holders EXCEPT ![t] = {c}]
    /\ UNCHANGED users

\* It returns what it has kept, each record in a handle that holds no other.
HandOver(c) ==
    LET mine  == {t \in Tok : c \in holders[t]}
        spare == {h \in Handle : \A t \in Tok : h \notin holders[t]}
    IN  \E f \in [mine -> spare] :
            /\ \A t, u \in mine : f[t] = f[u] => t = u
            /\ holders' = [t \in Tok |-> IF t \in mine THEN {f[t]} ELSE holders[t]]
            /\ UNCHANGED <<issued, alive, users>>

\* A call borrows the record that its handle holds ...
Borrow(c, t) ==
    /\ t \in alive /\ users[t] = {}
    /\ \E h \in Handle : holders[t] = {h}
    /\ users' = [users EXCEPT ![t] = {c}]
    /\ UNCHANGED <<issued, alive, holders>>

\* ... and is done with it.
Done(c, t) ==
    /\ users[t] = {c}
    /\ users' = [users EXCEPT ![t] = {}]
    /\ UNCHANGED <<issued, alive, holders>>

GiveBack(t) ==
    /\ t \in alive /\ users[t] = {}
    /\ alive' = alive \ {t}
    /\ holders' = [holders EXCEPT ![t] = {}]
    /\ UNCHANGED <<issued, users>>

Next ==
    \E t \in Tok :
        \/ GiveBack(t)
        \/ \E c \in Caller : Issue(c, t) \/ HandOver(c) \/ Borrow(c, t) \/ Done(c, t)

Spec == Init /\ [][Next]_regVars
=============================================================================
