------------------------------ MODULE TimedRead ------------------------------
(***************************************************************************)
(* What package usb promises of a read: a call is answered once, with what *)
(* the device has sent for it, with an error, or with the news that its    *)
(* time is over. Nothing arrives for a call that is not being made, and    *)
(* the means by which calls are ended show in no answer.                   *)
(***************************************************************************)
CONSTANTS Reader, NoCode

VARIABLES
    asking,   \* the readers inside a call
    sent,     \* those whose last call the device has sent something for
    answer    \* what the last call returned, or NoCode

readVars == <<asking, sent, answer>>

Init == asking = {} /\ sent = {} /\ answer = [r \in Reader |-> NoCode]

Ask(r) ==
    /\ r \notin asking
    /\ asking' = asking \cup {r}
    /\ sent' = sent \ {r}
    /\ answer' = [answer EXCEPT ![r] = NoCode]

\* The device sends, once.
Arrive(r) ==
    /\ r \in asking \ sent
    /\ sent' = sent \cup {r}
    /\ UNCHANGED <<asking, answer>>

\* The call returns. It may come too late for what was sent.
Answer(r, code) ==
    /\ r \in asking
    /\ code = "Success" => r \in sent
    /\ asking' = asking \ {r}
    /\ answer' = [answer EXCEPT ![r] = code]
    /\ UNCHANGED sent

\* Sending and returning may be one step, of a read that IOKit times by itself.
AnswerAtOnce(r) ==
    /\ r \in asking \ sent
    /\ sent' = sent \cup {r}
    /\ asking' = asking \ {r}
    /\ answer' = [answer EXCEPT ![r] = "Success"]

Next ==
    \E r \in Reader :
        \/ Ask(r) \/ Arrive(r) \/ AnswerAtOnce(r)
        \/ \E code \in {"Success", "Stall", "Timeout"} : Answer(r, code)

Spec == Init /\ [][Next]_readVars
=============================================================================
