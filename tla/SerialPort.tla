----------------------------- MODULE SerialPort -----------------------------
(***************************************************************************)
(* One serial port (package serial): Open, Configure, SetLines, the other  *)
(* calls that borrow the descriptor, and Close, made by any goroutines.    *)
(*                                                                         *)
(* External, from how the package uses them: os.File, which closes the     *)
(* descriptor when Close has been called and the last call that holds it   *)
(* is done, and the tty driver, which may refuse a request, or apply some  *)
(* of it and say nothing.                                                  *)
(***************************************************************************)
EXTENDS Termios, FiniteSets

CONSTANTS Goroutine,
          AskedBy,   \* the configurations each goroutine asks for
          LinesOf,   \* the modem lines each goroutine drives
          Table,     \* the rates the driver knows
          Factory,   \* the termios macOS leaves at open
          Nobody

ASSUME CallsAssumption ==
    /\ AskedBy \in [Goroutine -> SUBSET Config]
    /\ Factory \in TermiosRecord
    /\ Table \subseteq Nat
    /\ Nobody \notin Goroutine
    /\ DOMAIN LinesOf = Goroutine
    /\ \A g, h \in Goroutine : g # h => LinesOf[g] \cap LinesOf[h] = {}

Line == UNION {LinesOf[g] : g \in Goroutine}

VARIABLES
    attr,   \* the termios the kernel holds
    lines,  \* the modem lines that are asserted
    fd,     \* the descriptor: none, open, or closing until its holders are done
    port,   \* the Port: none, opening (inside Open), open, or closed (f is nil)
    cfg,    \* Port.cfg
    at,     \* where each goroutine is
    want,   \* what its Configure was asked for
    cur,    \* the termios its Configure read
    ask,    \* what its SetLines was asked for; nothing once one has failed
    by,     \* whose Configure succeeded last; Nobody if the last one failed
    alone,  \* no Configure has overlapped the last one to begin
    whole   \* the driver has applied what it accepted from that one to the letter

history == <<alone, whole>>
vars == <<attr, lines, fd, port, cfg, at, want, cur, ask, by, history>>

\* The calls to the kernel a Configure makes, in the order of the code.
Configuring == {"configure", "get", "set", "keep", "insist", "speed", "readback", "store"}
Ioctl == (Configuring \ {"configure", "store"}) \cup {"bis", "bic", "query"}
Places == Configuring \cup Ioctl \cup
              {"idle", "lines", "borrow", "closecheck", "close"}

Nothing == [set |-> {}, clear |-> {}]

Init ==
    /\ attr \in {Factory, [Factory EXCEPT !.ispeed = 0, !.ospeed = 0]}
    /\ lines \in {{}, Line}
    /\ fd = "none" /\ port = "none"
    /\ cfg = ConfigOf(Factory)
    /\ at = [g \in Goroutine |-> "idle"]
    /\ want = [g \in Goroutine |-> cfg]
    /\ cur = [g \in Goroutine |-> Factory]
    /\ ask = [g \in Goroutine |-> Nothing]
    /\ by = Nobody
    /\ alone = TRUE /\ whole = TRUE

Goto(g, place) == at' = [at EXCEPT ![g] = place]

\* The fields a driver may leave as they were are two that stand for all: the
\* control flags and the rate.
Partly(t, flags, rate) == [t EXCEPT !.cflag = flags, !.ispeed = rate, !.ospeed = rate]

\* The driver's answers to TIOCSETA and IOSSIOSPEED, when it does not refuse.
Accepts(t) ==
    {Partly(t, c, r) : c \in {t.cflag, attr.cflag}, r \in {t.ospeed, attr.ospeed} \cup Table}

Rates(baud) == {Partly(attr, attr.cflag, r) : r \in {baud, attr.ospeed} \cup Table}

\* The driver accepts t, or the rate baud.
Apply(t) == attr' \in Accepts(t) /\ whole' = (whole /\ attr' = t)
ApplyRate(baud) == attr' \in Rates(baud) /\ whole' = (whole /\ attr'.ospeed = baud)

\* A Configure begins: what history said of the one before is forgotten.
Begin(g, c) ==
    /\ want' = [want EXCEPT ![g] = c]
    /\ alone' = \A h \in Goroutine : at[h] \notin Configuring
    /\ whole' = TRUE
    /\ Goto(g, "configure")

Holders == {g \in Goroutine : at[g] \in Ioctl}

\* g's hold on the descriptor ends; the last one out of a closing file closes it.
Release(g) ==
    fd' = IF fd = "closing" /\ Holders = {g} THEN "none" ELSE fd

\* Open. A configuration that is not valid, a node that does not open and a
\* descriptor that is not wrapped (and is closed at once) change nothing.
\* A Port is not opened again: this is the next one, of the same node.
Open(g) ==
    /\ port \in {"none", "closed"} /\ fd = "none"
    /\ \A h \in Goroutine : at[h] = "idle"
    /\ \E c \in AskedBy[g] : Validate(c) /\ cfg' = c /\ Begin(g, c)
    /\ fd' = "open" /\ port' = "opening"
    /\ ask' = [h \in Goroutine |-> Nothing]
    /\ UNCHANGED <<attr, lines, cur, by>>

\* Configure. A configuration that is not valid changes nothing.
Configure(g) ==
    /\ at[g] = "idle" /\ port = "open"
    /\ \E c \in AskedBy[g] : Validate(c) /\ Begin(g, c)
    /\ UNCHANGED <<attr, lines, fd, port, cfg, cur, ask, by>>

SetLines(g) ==
    /\ at[g] = "idle" /\ port = "open"
    /\ \E s, c \in SUBSET LinesOf[g] : ask' = [ask EXCEPT ![g] = [set |-> s, clear |-> c]]
    /\ Goto(g, "lines")
    /\ UNCHANGED <<attr, lines, fd, port, cfg, want, cur, by, history>>

\* Termios, Lines, Flush, Read and Write: they hold the descriptor and leave
\* the state of the port alone.
Borrow(g) ==
    /\ at[g] = "idle" /\ port = "open"
    /\ Goto(g, "borrow")
    /\ UNCHANGED <<attr, lines, fd, port, cfg, want, cur, ask, by, history>>

\* The first kernel call of each call that waits to hold the descriptor.
Entry == [configure |-> "get", lines |-> "bis", borrow |-> "query"]

\* rawControl: the file takes a hold for the whole of fn, unless it is closed.
Hold(g) ==
    /\ at[g] \in DOMAIN Entry /\ fd = "open"
    /\ Goto(g, Entry[at[g]])
    /\ UNCHANGED <<attr, lines, fd, port, cfg, want, cur, ask, by, history>>

\* Close came between the test of f and the hold.
HoldFails(g) ==
    /\ at[g] \in DOMAIN Entry /\ port = "closed"
    /\ by' = IF at[g] = "configure" THEN Nobody ELSE by
    /\ ask' = [ask EXCEPT ![g] = IF at[g] = "lines" THEN Nothing ELSE @]
    /\ Goto(g, "idle")
    /\ UNCHANGED <<attr, lines, fd, port, cfg, want, cur, history>>

\* Bug: Open forgets the port of a Configure that failed, and leaves it open.
Fail_LeavesOpen(g) ==
    /\ port' = IF port = "opening" THEN "closed" ELSE port
    /\ Release(g)
    /\ by' = Nobody
    /\ cur' = [cur EXCEPT ![g] = Factory]
    /\ Goto(g, "idle")
    /\ UNCHANGED <<attr, lines, cfg, want, ask, history>>

\* A Configure that fails. Inside Open, the port is closed behind it.
Fail(g) ==
    /\ IF port = "opening"
       THEN port' = "closed" /\ fd' = "none"
       ELSE port' = port /\ Release(g)
    /\ by' = Nobody
    /\ cur' = [cur EXCEPT ![g] = Factory]
    /\ Goto(g, "idle")
    /\ UNCHANGED <<attr, lines, cfg, want, ask, history>>

GetAttr(g) ==
    /\ at[g] = "get"
    /\ \/ /\ cur' = [cur EXCEPT ![g] = attr]
          /\ Goto(g, "set")
          /\ UNCHANGED <<attr, lines, fd, port, cfg, want, ask, by, history>>
       \/ Fail(g)

\* A driver that refuses the whole termios is asked again at its own rate,
\* if it has one.
SetAttr(g) ==
    /\ at[g] = "set"
    /\ \/ /\ Apply(FromConfig(want[g], cur[g]))
          /\ Goto(g, "speed")
          /\ UNCHANGED <<lines, fd, port, cfg, want, cur, ask, by, alone>>
       \/ /\ cur[g].ospeed > 0
          /\ Goto(g, "keep")
          /\ UNCHANGED <<attr, lines, fd, port, cfg, want, cur, ask, by, history>>
       \/ /\ cur[g].ospeed <= 0
          /\ Fail(g)

\* Bug: the rest was accepted, so the rate is left to the call that may fail.
SetKeep_Suffices(g) ==
    /\ at[g] = "keep"
    /\ \/ /\ Apply(FromConfig([want[g] EXCEPT !.Baud = cur[g].ospeed], cur[g]))
          /\ Goto(g, "speed")
          /\ UNCHANGED <<lines, fd, port, cfg, want, cur, ask, by, alone>>
       \/ Fail(g)

SetKeep(g) ==
    /\ at[g] = "keep"
    /\ \/ /\ Apply(FromConfig([want[g] EXCEPT !.Baud = cur[g].ospeed], cur[g]))
          /\ Goto(g, "insist")
          /\ UNCHANGED <<lines, fd, port, cfg, want, cur, ask, by, alone>>
       \/ Fail(g)

\* The rate that was kept back, through IOSSIOSPEED: here a refusal fails.
Insist(g) ==
    /\ at[g] = "insist"
    /\ \/ /\ ApplyRate(want[g].Baud)
          /\ Goto(g, "speed")
          /\ UNCHANGED <<lines, fd, port, cfg, want, cur, ask, by, alone>>
       \/ Fail(g)

\* The rate once more; here a refusal is ignored.
Speed(g) ==
    /\ at[g] = "speed"
    /\ ApplyRate(want[g].Baud) \/ UNCHANGED <<attr, whole>>
    /\ Goto(g, "readback")
    /\ UNCHANGED <<lines, fd, port, cfg, want, cur, ask, by, alone>>

ReadBack(g) ==
    /\ at[g] = "readback"
    /\ \/ /\ cur' = [cur EXCEPT ![g] = attr]
          /\ Release(g)
          /\ Goto(g, "store")
          /\ UNCHANGED <<attr, lines, port, cfg, want, ask, by, history>>
       \/ Fail(g)

\* Bug: what was asked for is recorded, not what was read back.
Store_Asked(g) ==
    /\ at[g] = "store"
    /\ cfg' = Normal(want[g])
    /\ cur' = [cur EXCEPT ![g] = Factory]
    /\ port' = IF port = "opening" THEN "open" ELSE port
    /\ by' = g
    /\ Goto(g, "idle")
    /\ UNCHANGED <<attr, lines, fd, want, ask, history>>

\* Configure returns nil; so does the Open it was called from.
Store(g) ==
    /\ at[g] = "store"
    /\ cfg' = ConfigOf(cur[g])
    /\ cur' = [cur EXCEPT ![g] = Factory]
    /\ port' = IF port = "opening" THEN "open" ELSE port
    /\ by' = g
    /\ Goto(g, "idle")
    /\ UNCHANGED <<attr, lines, fd, want, ask, history>>

\* A SetLines that fails at either ioctl.
LinesFail(g) ==
    /\ ask' = [ask EXCEPT ![g] = Nothing]
    /\ Release(g)
    /\ Goto(g, "idle")
    /\ UNCHANGED <<attr, lines, port, cfg, want, cur, by, history>>

Bis(g) ==
    /\ at[g] = "bis"
    /\ \/ /\ lines' = lines \cup ask[g].set
          /\ Goto(g, "bic")
          /\ UNCHANGED <<attr, fd, port, cfg, want, cur, ask, by, history>>
       \/ /\ ask[g].set # {}
          /\ LinesFail(g)

\* Bug: TIOCMSET in place of TIOCMBIC.
Bic_Overwrites(g) ==
    /\ at[g] = "bic"
    /\ lines' = ask[g].set \ ask[g].clear
    /\ Release(g)
    /\ Goto(g, "idle")
    /\ UNCHANGED <<attr, port, cfg, want, cur, ask, by, history>>

Bic(g) ==
    /\ at[g] = "bic"
    /\ \/ /\ lines' = lines \ ask[g].clear
          /\ Release(g)
          /\ Goto(g, "idle")
          /\ UNCHANGED <<attr, port, cfg, want, cur, ask, by, history>>
       \/ /\ ask[g].clear # {}
          /\ LinesFail(g)

Query(g) ==
    /\ at[g] = "query"
    /\ Release(g)
    /\ Goto(g, "idle")
    /\ UNCHANGED <<attr, lines, port, cfg, want, cur, ask, by, history>>

\* Close: f is tested, taken, set to nil, and the file closed.
CloseCheck(g) ==
    /\ at[g] = "idle" /\ port = "open"
    /\ Goto(g, "closecheck")
    /\ UNCHANGED <<attr, lines, fd, port, cfg, want, cur, ask, by, history>>

CloseTake(g) ==
    /\ at[g] = "closecheck"
    /\ port' = "closed"
    /\ Goto(g, "close")
    /\ UNCHANGED <<attr, lines, fd, cfg, want, cur, ask, by, history>>

\* Another Close took f first, and this one closes a nil file.
CloseNil(g) ==
    /\ at[g] = "closecheck" /\ port = "closed"
    /\ Goto(g, "idle")
    /\ UNCHANGED <<attr, lines, fd, port, cfg, want, cur, ask, by, history>>

\* Bug: the descriptor is closed under the calls that hold it.
FileClose_Now(g) ==
    /\ at[g] = "close"
    /\ fd' = "none"
    /\ Goto(g, "idle")
    /\ UNCHANGED <<attr, lines, port, cfg, want, cur, ask, by, history>>

\* os.File.Close: only the first of two closes anything.
FileClose(g) ==
    /\ at[g] = "close"
    /\ fd' = IF fd = "open" THEN IF Holders = {} THEN "none" ELSE "closing" ELSE fd
    /\ Goto(g, "idle")
    /\ UNCHANGED <<attr, lines, port, cfg, want, cur, ask, by, history>>

Step(g) ==
    \/ Open(g) \/ Configure(g) \/ SetLines(g) \/ Borrow(g) \/ Hold(g) \/ HoldFails(g)
    \/ GetAttr(g) \/ SetAttr(g) \/ SetKeep(g) \/ Insist(g) \/ Speed(g)
    \/ ReadBack(g) \/ Store(g)
    \/ Bis(g) \/ Bic(g) \/ Query(g)
    \/ CloseCheck(g) \/ CloseTake(g) \/ CloseNil(g) \/ FileClose(g)

Next == \E g \in Goroutine : Step(g)

Spec == Init /\ [][Next]_vars
-----------------------------------------------------------------------------
TypeOK ==
    /\ attr \in TermiosRecord
    /\ lines \in SUBSET Line
    /\ fd \in {"none", "open", "closing"}
    /\ port \in {"none", "opening", "open", "closed"}
    /\ cfg \in Config
    /\ at \in [Goroutine -> Places]
    /\ want \in [Goroutine -> Config]
    /\ cur \in [Goroutine -> TermiosRecord]
    /\ ask \in [Goroutine -> [set : SUBSET Line, clear : SUBSET Line]]
    /\ by \in Goroutine \cup {Nobody}
    /\ alone \in BOOLEAN /\ whole \in BOOLEAN

Settled == port = "open" /\ by # Nobody /\ \A g \in Goroutine : at[g] \notin Configuring

\* What Config returns after a Configure that succeeded is what the kernel
\* holds, whatever the driver made of the request. (Calls that overlap may store
\* what they read back in either order.)
AppliedIsKernel == Settled /\ alone => cfg = ConfigOf(attr)

\* If the driver applied each request it accepted whole, what was asked for is
\* what is in force: the detour by the rate already in force loses nothing.
HonestIsExact == Settled /\ alone /\ whole => cfg = Normal(want[by])

\* "The bits macOS set at open that this package has no opinion about survive",
\* through refusals, partial application and Configure calls that overlap.
UntouchedSurvive == Untouched(attr) = Untouched(Factory)

\* No kernel call is made on a descriptor that has been closed, when Close
\* comes while other goroutines are inside a call.
NoStaleDescriptor == Holders # {} => fd # "none"

\* With no call in progress the descriptor is open exactly when the Port is: an
\* Open that failed and a Close that raced with others leave nothing open.
NoLeak ==
    (\A g \in Goroutine : at[g] = "idle") => fd = IF port = "open" THEN "open" ELSE "none"

\* A goroutine's lines are as its last SetLines left them, when others drive
\* theirs at the same time; a line in both sets ends up clear.
LinesKept ==
    \A g \in Goroutine :
        port = "open" /\ at[g] \notin {"lines", "bis", "bic"} =>
            /\ ask[g].set \ ask[g].clear \subseteq lines
            /\ ask[g].clear \cap lines = {}

\* What the comment on Configure says: the read-back is compared with what was
\* asked for, so success means it is in force.
AppliedIsRequested == Settled /\ alone => ConfigOf(attr) = Normal(want[by])
=============================================================================
