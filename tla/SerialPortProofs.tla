-------------------------- MODULE SerialPortProofs --------------------------
(***************************************************************************)
(* Proofs about Termios, for every configuration and termios, and about    *)
(* SerialPort, for any goroutines, configurations, modem lines, driver     *)
(* tables and factory settings.                                            *)
(*                                                                         *)
(* The port's properties follow from an invariant of two parts: what a     *)
(* Configure carries from one kernel call to the next (Carried), and who   *)
(* answers for the descriptor (Descriptor).                                *)
(***************************************************************************)
EXTENDS SerialPort, TLAPS


\* ConfigOf is "the inverse of Config.Termios for the fields this package sets":
\* a valid configuration, written to any termios and read back, is itself, with
\* its defaults spelled out.
THEOREM RoundTrip ==
    ASSUME NEW c \in Config, NEW old \in TermiosRecord, Validate(c)
    PROVE  ConfigOf(FromConfig(c, old)) = Normal(c)
<1>. DEFINE t == FromConfig(c, old)
<1>1. /\ t.cflag = (old.cflag \ Managed) \cup ControlFlags(c)
      /\ t.ospeed = c.Baud /\ t.vmin = c.ReadMin /\ t.vtime = c.ReadTimeoutDecis
  BY DEF FromConfig, TermiosRecord
<1>2. \A x \in Managed : x \in t.cflag <=> x \in ControlFlags(c)
  BY <1>1
<1>. HIDE DEF t
<1>3. \A x \in Managed :
        x \in ControlFlags(c) <=>
            \/ x = "CREAD" \/ x \in SizeFlags(c.DataBits) \/ x \in ParityFlags(c.Parity)
            \/ c.StopBits = 2 /\ x = "CSTOPB"
            \/ c.CLOCAL = TRUE /\ x = "CLOCAL"
            \/ c.HUPCL = TRUE /\ x = "HUPCL"
            \/ c.RTSCTS = TRUE /\ x \in CRTSCTS
  BY DEF ControlFlags, When, Config
<1>4. ConfigOf(t).DataBits = Normal(c).DataBits
  <2>1. t.cflag \cap CSIZE = SizeFlags(c.DataBits)
    <3>1. SizeFlags(c.DataBits) \subseteq CSIZE
      BY DEF SizeFlags, CSIZE
    <3>2. \A x \in CSIZE : x \in t.cflag <=> x \in SizeFlags(c.DataBits)
      BY <1>2, <1>3 DEF Managed, CSIZE, CRTSCTS, ParityFlags, ParityNone, ParityOdd, ParityEven
    <3>. QED  BY <3>1, <3>2
  <2>2. c.DataBits \in {0, 5, 6, 7, 8}
    BY DEF Validate
  <2>3. {} # {"CS6"} /\ {} # {"CS7"} /\ {"CS6"} # {"CS7"} /\ CSIZE \notin {{}, {"CS6"}, {"CS7"}}
    BY DEF CSIZE
  <2>. QED  BY <2>1, <2>2, <2>3 DEF ConfigOf, Normal, SizeFlags, Config
<1>5. ConfigOf(t).StopBits = Normal(c).StopBits
  <2>1. "CSTOPB" \in t.cflag <=> c.StopBits = 2
    BY <1>2, <1>3 DEF Managed, SizeFlags, CSIZE, CRTSCTS, ParityFlags
  <2>. QED  BY <2>1 DEF ConfigOf, Normal, Validate, Config
<1>6. ConfigOf(t).Parity = c.Parity
  <2>1. /\ "PARENB" \in t.cflag <=> c.Parity \in {ParityOdd, ParityEven}
        /\ "PARODD" \in t.cflag <=> c.Parity = ParityOdd
    BY <1>2, <1>3 DEF Managed, SizeFlags, CSIZE, CRTSCTS, ParityFlags, ParityOdd, ParityEven
  <2>. QED  BY <2>1 DEF ConfigOf, Validate, ParityNone, ParityOdd, ParityEven
<1>7. /\ ConfigOf(t).CLOCAL = c.CLOCAL
      /\ ConfigOf(t).HUPCL = c.HUPCL
      /\ ConfigOf(t).RTSCTS = c.RTSCTS
  <2>1. /\ "CLOCAL" \in t.cflag <=> c.CLOCAL = TRUE
        /\ "HUPCL" \in t.cflag <=> c.HUPCL = TRUE
        /\ t.cflag \cap CRTSCTS # {} <=> c.RTSCTS = TRUE
    BY <1>2, <1>3 DEF Managed, SizeFlags, CSIZE, CRTSCTS, ParityFlags
  <2>. QED  BY <2>1 DEF ConfigOf, Config
<1>8. ConfigOf(t).Baud = c.Baud /\ ConfigOf(t).ReadMin = c.ReadMin
      /\ ConfigOf(t).ReadTimeoutDecis = c.ReadTimeoutDecis
  BY <1>1 DEF ConfigOf
<1>9. Normal(c) = [Baud |-> c.Baud, DataBits |-> Normal(c).DataBits,
                   StopBits |-> Normal(c).StopBits, Parity |-> c.Parity,
                   CLOCAL |-> c.CLOCAL, HUPCL |-> c.HUPCL, RTSCTS |-> c.RTSCTS,
                   ReadMin |-> c.ReadMin, ReadTimeoutDecis |-> c.ReadTimeoutDecis]
  BY DEF Normal
<1>10. ConfigOf(t) = [Baud |-> ConfigOf(t).Baud, DataBits |-> ConfigOf(t).DataBits,
                      StopBits |-> ConfigOf(t).StopBits, Parity |-> ConfigOf(t).Parity,
                      CLOCAL |-> ConfigOf(t).CLOCAL, HUPCL |-> ConfigOf(t).HUPCL,
                      RTSCTS |-> ConfigOf(t).RTSCTS, ReadMin |-> ConfigOf(t).ReadMin,
                      ReadTimeoutDecis |-> ConfigOf(t).ReadTimeoutDecis]
  BY DEF ConfigOf
<1>11. ConfigOf(t) = Normal(c)
  BY <1>4, <1>5, <1>6, <1>7, <1>8, <1>9, <1>10
<1>. QED
  BY <1>11 DEF t

\* "The bits macOS set at open that this package has no opinion about survive".
THEOREM UntouchedSurvives ==
    ASSUME NEW c \in Config, NEW old \in TermiosRecord
    PROVE  Untouched(FromConfig(c, old)) = Untouched(old)
<1>1. ControlFlags(c) \subseteq Managed
  BY DEF ControlFlags, When, SizeFlags, ParityFlags, Managed, CSIZE, CRTSCTS
<1>2. ((old.cflag \ Managed) \cup ControlFlags(c)) \ Managed = old.cflag \ Managed
  BY <1>1
<1>. QED  BY <1>2 DEF FromConfig, Untouched, TermiosRecord

\* Records of the same fields are equal when their fields are.
LEMMA SameFields ==
    ASSUME NEW t \in TermiosRecord, NEW u \in TermiosRecord,
           t.iflag = u.iflag, t.oflag = u.oflag, t.cflag = u.cflag, t.lflag = u.lflag,
           t.vmin = u.vmin, t.vtime = u.vtime, t.chars = u.chars,
           t.ispeed = u.ispeed, t.ospeed = u.ospeed
    PROVE  t = u
BY DEF TermiosRecord

\* Config.Termios builds a termios out of a termios.
LEMMA FromConfigType ==
    ASSUME NEW c \in Config, NEW old \in TermiosRecord, Validate(c)
    PROVE  FromConfig(c, old) \in TermiosRecord
<1>1. ControlFlags(c) \subseteq Managed
  BY DEF ControlFlags, When, SizeFlags, ParityFlags, Managed, CSIZE, CRTSCTS
<1>2. c.Baud \in Nat
  BY DEF Validate, Config
<1>3. (old.cflag \ Managed) \cup ControlFlags(c) \in SUBSET Flag
  BY <1>1, FlagAssumption DEF TermiosRecord
<1>. QED  BY <1>2, <1>3 DEF FromConfig, TermiosRecord, Config

\* Applying a configuration that is already in force asks for nothing new.
THEOREM FromConfigIdempotent ==
    ASSUME NEW c \in Config, NEW old \in TermiosRecord, Validate(c)
    PROVE  FromConfig(c, FromConfig(c, old)) = FromConfig(c, old)
<1>. DEFINE t == FromConfig(c, old)
            u == FromConfig(c, t)
<1>1. t \in TermiosRecord
  BY FromConfigType
<1>2. u \in TermiosRecord
  BY <1>1, FromConfigType
<1>3. ControlFlags(c) \subseteq Managed
  BY DEF ControlFlags, When, SizeFlags, ParityFlags, Managed, CSIZE, CRTSCTS
<1>4. /\ t.iflag = old.iflag \ RawIflag /\ t.oflag = old.oflag \ RawOflag
      /\ t.lflag = old.lflag \ RawLflag
      /\ t.cflag = (old.cflag \ Managed) \cup ControlFlags(c)
      /\ t.vmin = c.ReadMin /\ t.vtime = c.ReadTimeoutDecis
      /\ t.ispeed = c.Baud /\ t.ospeed = c.Baud
  BY DEF FromConfig, TermiosRecord
<1>. HIDE DEF t
<1>5. /\ u.iflag = t.iflag \ RawIflag /\ u.oflag = t.oflag \ RawOflag
      /\ u.lflag = t.lflag \ RawLflag
      /\ u.cflag = (t.cflag \ Managed) \cup ControlFlags(c)
      /\ u.vmin = c.ReadMin /\ u.vtime = c.ReadTimeoutDecis
      /\ u.ispeed = c.Baud /\ u.ospeed = c.Baud /\ u.chars = t.chars
  BY <1>1 DEF FromConfig, TermiosRecord
<1>. HIDE DEF u
<1>6. u.iflag = t.iflag /\ u.oflag = t.oflag /\ u.lflag = t.lflag /\ u.cflag = t.cflag
  BY <1>3, <1>4, <1>5
<1>7. u = t
  BY <1>1, <1>2, <1>4, <1>5, <1>6, SameFields
<1>. QED  BY <1>7 DEF u, t
-----------------------------------------------------------------------------

\* A Configure past its validation has a valid configuration, and a rate to fall
\* back to where it does; every termios in the kernel or in its hands has the
\* factory's foreign flags.
Carried ==
    /\ \A g \in Goroutine : at[g] \in Configuring => Validate(want[g])
    /\ \A g \in Goroutine : at[g] = "keep" => cur[g].ospeed > 0
    /\ Untouched(attr) = Untouched(Factory)
    /\ \A g \in Goroutine : Untouched(cur[g]) = Untouched(Factory)

Idle == \A g \in Goroutine : at[g] = "idle"

\* Inside Open there is one call, and it is a Configure.
Alone ==
    /\ ~Idle
    /\ \A g \in Goroutine : at[g] \in Configuring \cup {"idle"}
    /\ \A g, h \in Goroutine : at[g] # "idle" /\ at[h] # "idle" => g = h

Closing == \E g \in Goroutine : at[g] = "close"

\* After a Close, whoever took the file closes it, or the last call out of it.
Descriptor ==
    /\ port = "none" => fd = "none" /\ Idle
    /\ port = "opening" => fd = "open" /\ Alone
    /\ port = "open" => fd = "open"
    /\ port = "closed" =>
         \/ fd = "none"
         \/ fd = "open" /\ Closing
         \/ fd = "closing" /\ Holders # {}
    /\ Holders # {} => fd # "none"
    /\ Closing => port = "closed"

IInv == TypeOK /\ Carried /\ Descriptor
-----------------------------------------------------------------------------
\* A termios read back is a Config.
LEMMA ConfigOfType == ASSUME NEW t \in TermiosRecord PROVE ConfigOf(t) \in Config
<1>1. t.ospeed \in Nat /\ t.vmin \in Byte /\ t.vtime \in Byte
  BY DEF TermiosRecord
<1>2. ConfigOf(t).DataBits \in Int
  BY DEF ConfigOf
<1>3. ConfigOf(t).StopBits \in Int /\ ConfigOf(t).Parity \in Int
  BY DEF ConfigOf, ParityNone, ParityOdd, ParityEven
<1>4. /\ ConfigOf(t).CLOCAL \in BOOLEAN /\ ConfigOf(t).HUPCL \in BOOLEAN
      /\ ConfigOf(t).RTSCTS \in BOOLEAN
  BY DEF ConfigOf
<1>5. /\ ConfigOf(t).Baud \in Int /\ ConfigOf(t).ReadMin \in Byte
      /\ ConfigOf(t).ReadTimeoutDecis \in Byte
  BY <1>1 DEF ConfigOf
<1>6. ConfigOf(t) = [Baud |-> ConfigOf(t).Baud, DataBits |-> ConfigOf(t).DataBits,
                     StopBits |-> ConfigOf(t).StopBits, Parity |-> ConfigOf(t).Parity,
                     CLOCAL |-> ConfigOf(t).CLOCAL, HUPCL |-> ConfigOf(t).HUPCL,
                     RTSCTS |-> ConfigOf(t).RTSCTS, ReadMin |-> ConfigOf(t).ReadMin,
                     ReadTimeoutDecis |-> ConfigOf(t).ReadTimeoutDecis]
  BY DEF ConfigOf
<1>7. [Baud |-> ConfigOf(t).Baud, DataBits |-> ConfigOf(t).DataBits,
       StopBits |-> ConfigOf(t).StopBits, Parity |-> ConfigOf(t).Parity,
       CLOCAL |-> ConfigOf(t).CLOCAL, HUPCL |-> ConfigOf(t).HUPCL,
       RTSCTS |-> ConfigOf(t).RTSCTS, ReadMin |-> ConfigOf(t).ReadMin,
       ReadTimeoutDecis |-> ConfigOf(t).ReadTimeoutDecis] \in Config
  BY <1>2, <1>3, <1>4, <1>5, Zenon DEF Config
<1>. QED  BY <1>6, <1>7, Zenon

\* A termios with other control flags and another rate.
LEMMA PartlyType ==
    ASSUME NEW t \in TermiosRecord, NEW f \in SUBSET Flag, NEW r \in Nat,
           f \ Managed = t.cflag \ Managed
    PROVE  Partly(t, f, r) \in TermiosRecord /\ Untouched(Partly(t, f, r)) = Untouched(t)
<1>. DEFINE u == Partly(t, f, r)
<1>1. u \in TermiosRecord
  BY DEF Partly, TermiosRecord
<1>2. /\ u.iflag = t.iflag /\ u.oflag = t.oflag /\ u.lflag = t.lflag /\ u.chars = t.chars
      /\ u.cflag = f
  BY DEF Partly, TermiosRecord
<1>. HIDE DEF u
<1>3. Untouched(u) = Untouched(t)
  BY <1>2 DEF Untouched
<1>. QED  BY <1>1, <1>3 DEF u

\* What a driver makes of a termios it accepts is a termios, and has the foreign
\* flags that both the request and the kernel had.
LEMMA AcceptsType ==
    ASSUME attr \in TermiosRecord, NEW t \in TermiosRecord, NEW u \in Accepts(t),
           Untouched(attr) = Untouched(t)
    PROVE  u \in TermiosRecord /\ Untouched(u) = Untouched(t)
<1>1. PICK f \in {t.cflag, attr.cflag}, r \in {t.ospeed, attr.ospeed} \cup Table :
        u = Partly(t, f, r)
  BY DEF Accepts
<1>2. f \in SUBSET Flag /\ r \in Nat
  BY <1>1, CallsAssumption DEF TermiosRecord
<1>3. f \ Managed = t.cflag \ Managed
  BY <1>1 DEF Untouched
<1>. QED  BY <1>1, <1>2, <1>3, PartlyType

\* The same of a rate it accepts.
LEMMA RatesType ==
    ASSUME attr \in TermiosRecord, NEW baud \in Nat, NEW u \in Rates(baud)
    PROVE  u \in TermiosRecord /\ Untouched(u) = Untouched(attr)
<1>1. PICK r \in {baud, attr.ospeed} \cup Table : u = Partly(attr, attr.cflag, r)
  BY DEF Rates
<1>2. attr.cflag \in SUBSET Flag /\ r \in Nat
  BY <1>1, CallsAssumption DEF TermiosRecord
<1>. QED  BY <1>1, <1>2, PartlyType

\* The port is not yet open: its termios is the factory's, or has no rate.
LEMMA InitHolds == Init => IInv
<1>. SUFFICES ASSUME Init PROVE IInv
  OBVIOUS
<1>. USE CallsAssumption
<1>1. attr \in TermiosRecord /\ Untouched(attr) = Untouched(Factory)
  <2>1. CASE attr = Factory
    BY <2>1
  <2>2. CASE attr = [Factory EXCEPT !.ispeed = 0, !.ospeed = 0]
    BY <2>2 DEF TermiosRecord, Untouched
  <2>. QED  BY <2>1, <2>2 DEF Init
<1>2. cfg \in Config
  BY ConfigOfType DEF Init
<1>3. TypeOK
  BY <1>1, <1>2 DEF Init, TypeOK, Places, Nothing
<1>4. Carried
  BY <1>1 DEF Init, Carried, Configuring
<1>5. Descriptor
  BY DEF Init, Descriptor, Idle, Closing, Holders, Ioctl, Configuring
<1>. QED  BY <1>3, <1>4, <1>5 DEF IInv

\* A goroutine goes somewhere.
LEMMA GotoType ==
    ASSUME at \in [Goroutine -> Places], NEW g \in Goroutine, NEW p \in Places, Goto(g, p)
    PROVE  /\ at' \in [Goroutine -> Places]
           /\ at'[g] = p
           /\ \A h \in Goroutine : h # g => at'[h] = at[h]
BY DEF Goto

\* A Configure that begins has validated its configuration.
LEMMA BeginCarries ==
    ASSUME TypeOK, Carried, NEW g \in Goroutine, NEW c \in AskedBy[g],
           Validate(c), Begin(g, c)
    PROVE  /\ want' \in [Goroutine -> Config] /\ at' \in [Goroutine -> Places]
           /\ alone' \in BOOLEAN /\ whole' \in BOOLEAN
           /\ \A h \in Goroutine : at'[h] \in Configuring => Validate(want'[h])
           /\ \A h \in Goroutine : at'[h] = "keep" => at[h] = "keep"
<1>1. c \in Config
  BY CallsAssumption
<1>2. /\ want' \in [Goroutine -> Config] /\ want'[g] = c
      /\ \A h \in Goroutine : h # g => want'[h] = want[h]
  BY <1>1 DEF Begin, TypeOK
<1>3. /\ at' \in [Goroutine -> Places]
      /\ \A h \in Goroutine : h # g => at'[h] = at[h]
  BY GotoType DEF Begin, TypeOK, Places, Configuring
<1>4. \A h \in Goroutine : at'[h] \in Configuring => Validate(want'[h])
  BY <1>2, <1>3 DEF Carried
<1>5. alone' \in BOOLEAN /\ whole' \in BOOLEAN
  BY DEF Begin
<1>6. \A h \in Goroutine : at'[h] = "keep" => at[h] = "keep"
  BY <1>3 DEF Begin, Goto, TypeOK
<1>. QED  BY <1>2, <1>3, <1>4, <1>5, <1>6

\* The part of the state that no call but Configure changes.
LEMMA Bystander ==
    ASSUME TypeOK, Carried, NEW g \in Goroutine, NEW p \in Places \ Configuring, Goto(g, p),
           UNCHANGED <<attr, cfg, want, cur, history>>,
           fd' \in {fd, "none", "open", "closing"},
           port' \in {port, "closed"},
           lines' \in SUBSET Line,
           ask' \in [Goroutine -> [set : SUBSET Line, clear : SUBSET Line]],
           by' \in {by, Nobody}
    PROVE  TypeOK' /\ Carried'
<1>1. /\ at' \in [Goroutine -> Places] /\ at'[g] \notin Configuring
      /\ \A h \in Goroutine : h # g => at'[h] = at[h]
  BY GotoType DEF TypeOK
<1>2. TypeOK'
  BY <1>1 DEF TypeOK, history
<1>3. Carried'
  BY <1>1 DEF Carried, Configuring
<1>. QED  BY <1>2, <1>3

\* g's termios stays, is read from the kernel, or is let go of.
Hands(g) ==
    /\ cur' \in [Goroutine -> TermiosRecord]
    /\ cur'[g] \in {cur[g], attr, Factory}
    /\ \A h \in Goroutine : h # g => cur'[h] = cur[h]

\* A Configure that goes on.
LEMMA Onward ==
    ASSUME TypeOK, Carried, NEW g \in Goroutine, NEW p \in Places, Goto(g, p),
           at[g] \in Configuring,
           attr' \in TermiosRecord, Untouched(attr') = Untouched(Factory),
           Hands(g),
           p = "keep" => cur'[g].ospeed > 0,
           fd' \in {"none", "open", "closing"}, port' \in {"none", "opening", "open", "closed"},
           cfg' \in Config, by' \in Goroutine \cup {Nobody}, whole' \in BOOLEAN,
           UNCHANGED <<lines, want, ask, alone>>
    PROVE  TypeOK' /\ Carried'
<1>1. /\ at' \in [Goroutine -> Places]
      /\ \A h \in Goroutine : h # g => at'[h] = at[h]
  BY GotoType DEF TypeOK
<1>2. TypeOK'
  BY <1>1 DEF TypeOK, Hands
<1>3. \A h \in Goroutine : Untouched(cur'[h]) = Untouched(Factory)
  BY DEF Carried, Hands
<1>4. \A h \in Goroutine : at'[h] \in Configuring => Validate(want'[h])
  BY <1>1 DEF Carried
<1>5. Untouched(attr)' = Untouched(attr') /\ \A h \in Goroutine : Untouched(cur[h])' = Untouched(cur'[h])
  BY DEF Untouched
<1>6. \A h \in Goroutine : at'[h] = "keep" => cur'[h].ospeed > 0
  BY <1>1, GotoType DEF Carried, TypeOK, Hands
<1>7. Carried'
  BY <1>3, <1>4, <1>5, <1>6 DEF Carried
<1>. QED  BY <1>2, <1>7

\* An Open or a Configure begins.
LEMMA BeginKeeps ==
    ASSUME TypeOK, Carried, NEW g \in Goroutine, Open(g) \/ Configure(g)
    PROVE  TypeOK' /\ Carried'
<1>1. PICK c \in AskedBy[g] : Validate(c) /\ Begin(g, c)
  BY DEF Open, Configure
<1>2. /\ want' \in [Goroutine -> Config] /\ at' \in [Goroutine -> Places]
      /\ alone' \in BOOLEAN /\ whole' \in BOOLEAN
      /\ \A h \in Goroutine : at'[h] \in Configuring => Validate(want'[h])
      /\ \A h \in Goroutine : at'[h] = "keep" => at[h] = "keep"
  BY <1>1, BeginCarries
<1>3. cfg' \in Config
  BY CallsAssumption DEF Open, Configure, TypeOK
<1>4. UNCHANGED <<attr, lines, cur, by>>
  BY DEF Open, Configure
<1>5. /\ fd' \in {"none", "open", "closing"} /\ port' \in {"none", "opening", "open", "closed"}
      /\ ask' \in [Goroutine -> [set : SUBSET Line, clear : SUBSET Line]]
  BY DEF Open, Configure, TypeOK, Nothing
<1>6. TypeOK'
  BY <1>2, <1>3, <1>4, <1>5 DEF TypeOK
<1>7. Carried'
  BY <1>2, <1>4 DEF Carried
<1>. QED  BY <1>6, <1>7

\* A Configure that fails.
LEMMA FailKeeps ==
    ASSUME TypeOK, Carried, NEW g \in Goroutine, at[g] \in Configuring, Fail(g)
    PROVE  TypeOK' /\ Carried'
<1>1. /\ attr' = attr /\ cur' = [cur EXCEPT ![g] = Factory] /\ cfg' = cfg /\ by' = Nobody
      /\ UNCHANGED <<lines, want, ask, alone>> /\ whole' = whole
      /\ Goto(g, "idle")
  BY DEF Fail, history
<1>2. /\ fd' \in {"none", "open", "closing"} /\ port' \in {"none", "opening", "open", "closed"}
  BY DEF Fail, Release, TypeOK
<1>3. Hands(g)
  BY <1>1, CallsAssumption DEF Hands, TypeOK
<1>4. "idle" \in Places
  BY DEF Places
<1>. QED  BY <1>1, <1>2, <1>3, <1>4, Onward DEF TypeOK, Carried

\* The driver accepts a termios that a Configure built.
LEMMA ApplyKeeps ==
    ASSUME TypeOK, Carried, NEW g \in Goroutine, NEW c \in Config, Validate(c),
           Apply(FromConfig(c, cur[g]))
    PROVE  /\ attr' \in TermiosRecord /\ Untouched(attr') = Untouched(Factory)
           /\ whole' \in BOOLEAN
<1>1. cur[g] \in TermiosRecord /\ Untouched(cur[g]) = Untouched(Factory)
  BY DEF TypeOK, Carried
<1>2. /\ FromConfig(c, cur[g]) \in TermiosRecord
      /\ Untouched(FromConfig(c, cur[g])) = Untouched(Factory)
  BY <1>1, FromConfigType, UntouchedSurvives
<1>3. attr' \in Accepts(FromConfig(c, cur[g])) /\ whole' \in BOOLEAN
  BY DEF Apply
<1>. QED  BY <1>2, <1>3, AcceptsType DEF TypeOK, Carried

\* The driver accepts a rate.
LEMMA ApplyRateKeeps ==
    ASSUME TypeOK, Carried, NEW baud \in Nat, ApplyRate(baud)
    PROVE  /\ attr' \in TermiosRecord /\ Untouched(attr') = Untouched(Factory)
           /\ whole' \in BOOLEAN
<1>1. attr' \in Rates(baud) /\ whole' \in BOOLEAN
  BY DEF ApplyRate
<1>. QED  BY <1>1, RatesType DEF TypeOK, Carried

\* The kernel calls of a Configure.
LEMMA ConfigureKeeps ==
    ASSUME TypeOK, Carried, NEW g \in Goroutine,
           \/ GetAttr(g) \/ SetAttr(g) \/ SetKeep(g) \/ Insist(g) \/ Speed(g)
           \/ ReadBack(g) \/ Store(g)
    PROVE  TypeOK' /\ Carried'
<1>1. at[g] \in Configuring /\ want[g] \in Config /\ Validate(want[g]) /\ want[g].Baud \in Nat
  <2>1. at[g] \in Configuring
    BY DEF GetAttr, SetAttr, SetKeep, Insist, Speed, ReadBack, Store, Configuring
  <2>2. want[g] \in Config /\ Validate(want[g])
    BY <2>1 DEF TypeOK, Carried
  <2>. QED  BY <2>1, <2>2 DEF Validate, Config
<1>2. /\ attr \in TermiosRecord /\ Untouched(attr) = Untouched(Factory)
      /\ cur \in [Goroutine -> TermiosRecord] /\ Factory \in TermiosRecord
      /\ cfg \in Config /\ by \in Goroutine \cup {Nobody} /\ whole \in BOOLEAN
      /\ fd \in {"none", "open", "closing"} /\ port \in {"none", "opening", "open", "closed"}
  BY CallsAssumption DEF TypeOK, Carried
<1>3. {"set", "keep", "insist", "speed", "readback", "store", "idle"} \subseteq Places
  BY DEF Places, Configuring
<1>4. CASE Fail(g)
  BY <1>1, <1>4, FailKeeps
<1>5. CASE GetAttr(g) /\ ~Fail(g)
  <2>1. /\ cur' = [cur EXCEPT ![g] = attr] /\ Goto(g, "set") /\ attr' = attr
        /\ fd' = fd /\ port' = port /\ cfg' = cfg /\ by' = by /\ whole' = whole
        /\ UNCHANGED <<lines, want, ask, alone>>
    BY <1>5 DEF GetAttr, history
  <2>2. Hands(g)
    BY <1>2, <2>1 DEF Hands
  <2>. QED  BY <1>1, <1>2, <1>3, <2>1, <2>2, Onward
<1>6. CASE SetAttr(g) /\ ~Fail(g)
  <2>1. CASE Apply(FromConfig(want[g], cur[g])) /\ Goto(g, "speed")
             /\ UNCHANGED <<lines, fd, port, cfg, want, cur, ask, by, alone>>
    <3>1. /\ attr' \in TermiosRecord /\ Untouched(attr') = Untouched(Factory)
          /\ whole' \in BOOLEAN
      BY <1>1, <2>1, ApplyKeeps
    <3>2. Hands(g)
      BY <1>2, <2>1 DEF Hands
    <3>. QED  BY <1>1, <1>2, <1>3, <2>1, <3>1, <3>2, Onward
  <2>2. CASE cur[g].ospeed > 0 /\ Goto(g, "keep") /\ UNCHANGED <<attr, lines, fd, port, cfg, want, cur, ask, by, history>>
    <3>1. Hands(g)
      BY <1>2, <2>2 DEF Hands
    <3>. QED  BY <1>1, <1>2, <1>3, <2>2, <3>1, Onward DEF history
  <2>. QED  BY <1>6, <2>1, <2>2 DEF SetAttr
<1>7. CASE SetKeep(g) /\ ~Fail(g)
  <2>. DEFINE c == [want[g] EXCEPT !.Baud = cur[g].ospeed]
  <2>0. at[g] = "keep" /\ cur[g].ospeed > 0 /\ Apply(FromConfig(c, cur[g])) /\ Goto(g, "insist")
        /\ UNCHANGED <<lines, fd, port, cfg, want, cur, ask, by, alone>>
    BY <1>7 DEF SetKeep, Carried
  <2>1. c \in Config /\ Validate(c)
    <3>1. cur[g].ospeed \in Nat
      BY <1>2 DEF TermiosRecord
    <3>2. c \in Config
      BY <1>1, <3>1 DEF Config
    <3>3. /\ c.Baud = cur[g].ospeed /\ c.DataBits = want[g].DataBits
          /\ c.StopBits = want[g].StopBits /\ c.Parity = want[g].Parity
      BY <1>1 DEF Config
    <3>. HIDE DEF c
    <3>4. Validate(c)
      BY <1>1, <2>0, <3>3 DEF Validate
    <3>. QED  BY <3>2, <3>4
  <2>2. /\ attr' \in TermiosRecord /\ Untouched(attr') = Untouched(Factory)
        /\ whole' \in BOOLEAN
    BY <2>0, <2>1, ApplyKeeps
  <2>3. Hands(g)
    BY <1>2, <2>0 DEF Hands
  <2>. QED  BY <1>1, <1>2, <1>3, <2>0, <2>2, <2>3, Onward
<1>8. CASE (Insist(g) \/ Speed(g)) /\ ~Fail(g)
  <2>1. /\ attr' \in TermiosRecord /\ Untouched(attr') = Untouched(Factory)
        /\ whole' \in BOOLEAN
    <3>1. CASE ApplyRate(want[g].Baud)
      BY <1>1, <3>1, ApplyRateKeeps
    <3>2. CASE UNCHANGED <<attr, whole>>
      BY <1>2, <3>2
    <3>. QED  BY <1>8, <3>1, <3>2 DEF Insist, Speed
  <2>2. /\ Goto(g, "speed") \/ Goto(g, "readback")
        /\ UNCHANGED <<lines, fd, port, cfg, want, cur, ask, by, alone>>
    BY <1>8 DEF Insist, Speed
  <2>3. Hands(g)
    BY <1>2, <2>2 DEF Hands
  <2>. QED  BY <1>1, <1>2, <1>3, <2>1, <2>2, <2>3, Onward
<1>9. CASE ReadBack(g) /\ ~Fail(g)
  <2>1. /\ cur' = [cur EXCEPT ![g] = attr] /\ Goto(g, "store") /\ attr' = attr
        /\ port' = port /\ cfg' = cfg /\ by' = by /\ whole' = whole
        /\ UNCHANGED <<lines, want, ask, alone>>
        /\ fd' \in {fd, "none"}
    BY <1>9 DEF ReadBack, history, Release
  <2>2. Hands(g)
    BY <1>2, <2>1 DEF Hands
  <2>. QED  BY <1>1, <1>2, <1>3, <2>1, <2>2, Onward
<1>10. CASE Store(g)
  <2>1. /\ cur' = [cur EXCEPT ![g] = Factory] /\ Goto(g, "idle") /\ attr' = attr
        /\ port' \in {port, "open"} /\ by' = g /\ whole' = whole /\ fd' = fd
        /\ UNCHANGED <<lines, want, ask, alone>>
        /\ cfg' = ConfigOf(cur[g])
    BY <1>10 DEF Store, history
  <2>2. Hands(g)
    BY <1>2, <2>1 DEF Hands
  <2>3. cfg' \in Config
    BY <1>2, <2>1, ConfigOfType
  <2>. QED  BY <1>1, <1>2, <1>3, <2>1, <2>2, <2>3, Onward
<1>. QED  BY <1>4, <1>5, <1>6, <1>7, <1>8, <1>9, <1>10

\* The other calls, and a Configure that waits to hold the descriptor.
LEMMA OthersKeep ==
    ASSUME TypeOK, Carried, NEW g \in Goroutine,
           \/ SetLines(g) \/ Borrow(g) \/ Hold(g) \/ HoldFails(g)
           \/ Bis(g) \/ Bic(g) \/ Query(g)
           \/ CloseCheck(g) \/ CloseTake(g) \/ CloseNil(g) \/ FileClose(g)
    PROVE  TypeOK' /\ Carried'
<1>0. /\ lines \in SUBSET Line /\ \A h \in Goroutine : LinesOf[h] \subseteq Line
      /\ ask \in [Goroutine -> [set : SUBSET Line, clear : SUBSET Line]]
      /\ Nothing \in [set : SUBSET Line, clear : SUBSET Line]
  BY DEF TypeOK, Line, Nothing
<1>1. {"idle", "lines", "borrow", "bis", "bic", "query", "closecheck", "close"}
          \subseteq Places \ Configuring
  BY DEF Places, Ioctl, Configuring
<1>2. CASE Hold(g) /\ at[g] = "configure"
  <2>1. Goto(g, "get") /\ UNCHANGED <<attr, lines, fd, port, cfg, want, cur, ask, by, history>>
    BY <1>2 DEF Hold, Entry
  <2>2. Hands(g)
    BY <2>1 DEF Hands, TypeOK
  <2>3. "get" \in Places /\ at[g] \in Configuring
    BY <1>2 DEF Places, Configuring
  <2>4. /\ attr' \in TermiosRecord /\ Untouched(attr') = Untouched(Factory)
        /\ fd' \in {"none", "open", "closing"} /\ port' \in {"none", "opening", "open", "closed"}
        /\ cfg' \in Config /\ by' \in Goroutine \cup {Nobody} /\ whole' \in BOOLEAN
    BY <2>1 DEF TypeOK, Carried, history
  <2>. QED  BY <2>1, <2>2, <2>3, <2>4, Onward DEF history
<1>3. CASE Hold(g) /\ at[g] # "configure"
  <2>1. /\ Goto(g, "bis") \/ Goto(g, "query")
        /\ UNCHANGED <<attr, lines, fd, port, cfg, want, cur, ask, by, history>>
    BY <1>3 DEF Hold, Entry
  <2>. QED  BY <1>0, <1>1, <2>1, Bystander
<1>4. CASE SetLines(g)
  <2>1. /\ Goto(g, "lines")
        /\ UNCHANGED <<attr, lines, fd, port, cfg, want, cur, by, history>>
        /\ ask' \in [Goroutine -> [set : SUBSET Line, clear : SUBSET Line]]
    BY <1>0, <1>4 DEF SetLines
  <2>. QED  BY <1>0, <1>1, <2>1, Bystander
<1>5. CASE Borrow(g) \/ CloseCheck(g) \/ CloseNil(g)
  <2>1. /\ Goto(g, "borrow") \/ Goto(g, "closecheck") \/ Goto(g, "idle")
        /\ UNCHANGED <<attr, lines, fd, port, cfg, want, cur, ask, by, history>>
    BY <1>5 DEF Borrow, CloseCheck, CloseNil
  <2>. QED  BY <1>0, <1>1, <2>1, Bystander
<1>6. CASE HoldFails(g)
  <2>1. /\ Goto(g, "idle")
        /\ UNCHANGED <<attr, lines, fd, port, cfg, want, cur, history>>
        /\ by' \in {by, Nobody}
    BY <1>6 DEF HoldFails
  <2>2. ask' \in [Goroutine -> [set : SUBSET Line, clear : SUBSET Line]]
    BY <1>0, <1>6 DEF HoldFails
  <2>. QED  BY <1>0, <1>1, <2>1, <2>2, Bystander
<1>7. CASE Bis(g) \/ Bic(g)
  <2>1. /\ Goto(g, "bic") \/ Goto(g, "idle")
        /\ UNCHANGED <<attr, port, cfg, want, cur, by, history>>
        /\ fd' \in {fd, "none"}
        /\ lines' \in {lines, lines \cup ask[g].set, lines \ ask[g].clear}
        /\ ask' \in {ask, [ask EXCEPT ![g] = Nothing]}
    BY <1>7 DEF Bis, Bic, LinesFail, Release
  <2>2. /\ ask' \in [Goroutine -> [set : SUBSET Line, clear : SUBSET Line]]
        /\ lines' \in SUBSET Line
    BY <1>0, <2>1
  <2>. QED  BY <1>1, <2>1, <2>2, Bystander
<1>8. CASE Query(g) \/ FileClose(g)
  <2>1. /\ Goto(g, "idle")
        /\ UNCHANGED <<attr, lines, port, cfg, want, cur, ask, by, history>>
        /\ fd' \in {fd, "none", "closing"}
    BY <1>8 DEF Query, FileClose, Release
  <2>. QED  BY <1>0, <1>1, <2>1, Bystander
<1>9. CASE CloseTake(g)
  <2>1. /\ Goto(g, "close") /\ port' = "closed"
        /\ UNCHANGED <<attr, lines, fd, cfg, want, cur, ask, by, history>>
    BY <1>9 DEF CloseTake
  <2>. QED  BY <1>0, <1>1, <2>1, Bystander
<1>. QED  BY <1>2, <1>3, <1>4, <1>5, <1>6, <1>7, <1>8, <1>9

\* Who holds the descriptor after a goroutine has gone somewhere.
LEMMA HoldersAfter ==
    ASSUME TypeOK, NEW g \in Goroutine, NEW p \in Places, Goto(g, p)
    PROVE  Holders' = (Holders \ {g}) \cup (IF p \in Ioctl THEN {g} ELSE {})
<1>1. /\ at'[g] = p
      /\ \A h \in Goroutine : h # g => at'[h] = at[h]
  BY GotoType DEF TypeOK
<1>. QED  BY <1>1 DEF Holders

\* A call that lets go of the descriptor, with others perhaps inside theirs.
LEMMA ReleaseKeeps ==
    ASSUME TypeOK, Descriptor, NEW g \in Goroutine, at[g] \in Ioctl, Release(g),
           NEW p \in {"idle", "store"}, Goto(g, p),
           port \in {"open", "closed"}, port' = port
    PROVE  Descriptor'
<1>1. g \in Holders
  BY DEF Holders
<1>2. Holders' = Holders \ {g}
  <2>1. p \in Places /\ p \notin Ioctl
    BY DEF Places, Ioctl, Configuring
  <2>. QED  BY <2>1, HoldersAfter
<1>0. Closing <=> Closing'
  BY DEF Closing, Goto, TypeOK, Ioctl, Configuring
<1>3. CASE port = "open"
  <2>1. fd = "open" /\ fd' = "open"
    BY <1>3 DEF Descriptor, Release
  <2>. QED  BY <1>0, <1>3, <2>1 DEF Descriptor
<1>4. CASE port = "closed"
  <2>1. Closing => Closing'
    BY <1>0
  <2>2. fd = "closing" /\ Holders = {g} => fd' = "none"
    BY DEF Release
  <2>3. fd # "closing" \/ Holders # {g} => fd' = fd
    BY DEF Release
  <2>4. fd # "none"
    BY <1>1 DEF Descriptor
  <2>5. CASE fd = "closing" /\ Holders = {g}
    BY <1>2, <1>4, <2>2, <2>5 DEF Descriptor
  <2>6. CASE fd = "closing" /\ Holders # {g}
    BY <1>1, <1>2, <1>4, <2>3, <2>6 DEF Descriptor
  <2>7. CASE fd = "open"
    BY <1>4, <2>1, <2>3, <2>7 DEF Descriptor
  <2>. QED  BY <2>4, <2>5, <2>6, <2>7 DEF TypeOK
<1>. QED  BY <1>3, <1>4

\* A step that leaves the descriptor and who holds it alone.
LEMMA StayKeeps ==
    ASSUME TypeOK, Descriptor, NEW g \in Goroutine, at[g] # "idle", NEW p \in Places, Goto(g, p),
           fd' = fd, port' = port,
           at[g] \in Ioctl <=> p \in Ioctl,
           at[g] # "close" /\ p # "close",
           port = "opening" => p \in Configuring
    PROVE  Descriptor'
<1>1. /\ at'[g] = p
      /\ \A h \in Goroutine : h # g => at'[h] = at[h]
  BY GotoType DEF TypeOK
<1>2. Holders' = Holders
  BY HoldersAfter DEF Holders
<1>3. Closing' <=> Closing
  BY <1>1 DEF Closing
<1>4. port # "none"
  BY DEF Descriptor, Idle
<1>5. ASSUME port = "opening" PROVE Alone'
  <2>1. Alone /\ p \in Configuring /\ p # "idle"
    BY <1>5 DEF Descriptor, Configuring
  <2>. QED  BY <1>1, <2>1 DEF Alone, Idle
<1>. QED  BY <1>2, <1>3, <1>4, <1>5 DEF Descriptor

\* A step after which the Port is open and its descriptor is.
LEMMA OpenKeeps ==
    ASSUME fd' = "open", port' = "open", Closing' => Closing, port # "closed", Descriptor
    PROVE  Descriptor'
BY DEF Descriptor

\* A Configure that fails gives its descriptor back or, inside Open, closes it.
LEMMA FailDescriptor ==
    ASSUME TypeOK, Descriptor, NEW g \in Goroutine, at[g] \in Ioctl, Fail(g)
    PROVE  Descriptor'
<1>0. at[g] # "idle" /\ Goto(g, "idle") /\ "idle" \in Places /\ "idle" \notin Ioctl
  BY DEF Fail, Ioctl, Configuring, Places
<1>1. port # "none"
  BY <1>0 DEF Descriptor, Idle
<1>2. CASE port = "opening"
  <2>1. port' = "closed" /\ fd' = "none"
    BY <1>2 DEF Fail
  <2>2. \A h \in Goroutine : h # g => at[h] = "idle"
    BY <1>0, <1>2 DEF Descriptor, Alone
  <2>3. \A h \in Goroutine : at'[h] = "idle"
    BY <1>0, <2>2, GotoType DEF TypeOK
  <2>4. Holders' = {} /\ ~Closing'
    BY <1>0, <2>3 DEF Holders, Closing
  <2>. QED  BY <2>1, <2>4 DEF Descriptor
<1>3. CASE port \in {"open", "closed"}
  <2>1. Release(g) /\ port' = port
    BY <1>3 DEF Fail
  <2>. QED  BY <1>0, <1>3, <2>1, ReleaseKeeps
<1>. QED  BY <1>1, <1>2, <1>3 DEF TypeOK

\* A step leaves the descriptor with somebody to close it.
LEMMA StepDescriptor ==
    ASSUME TypeOK, Descriptor, NEW g \in Goroutine, Step(g)
    PROVE  Descriptor'
<1>0. /\ port \in {"none", "opening", "open", "closed"} /\ at \in [Goroutine -> Places]
      /\ {"idle", "lines", "borrow", "closecheck", "close"} \cup Configuring \cup Ioctl \subseteq Places
      /\ port = "none" => at[g] = "idle"
      /\ port = "opening" => at[g] \in Configuring \cup {"idle"}
  BY DEF TypeOK, Places, Descriptor, Idle, Alone
<1>1. CASE Open(g)
  <2>1. /\ fd' = "open" /\ port' = "opening" /\ \A h \in Goroutine : at[h] = "idle"
        /\ Goto(g, "configure")
    BY <1>1 DEF Open, Begin
  <2>2. /\ at'[g] = "configure" /\ \A h \in Goroutine : h # g => at'[h] = "idle"
    BY <1>0, <2>1, GotoType DEF Configuring
  <2>3. Alone' /\ ~Closing'
    BY <2>2 DEF Alone, Idle, Configuring, Closing
  <2>. QED  BY <2>1, <2>3 DEF Descriptor
<1>2. CASE Configure(g) \/ SetLines(g) \/ Borrow(g) \/ CloseCheck(g)
  <2>1. /\ fd' = fd /\ port' = port /\ port = "open"
        /\ Goto(g, "configure") \/ Goto(g, "lines") \/ Goto(g, "borrow") \/ Goto(g, "closecheck")
    BY <1>2 DEF Configure, SetLines, Borrow, CloseCheck, Begin
  <2>2. Closing' => Closing
    BY <1>0, <2>1 DEF Closing, Goto
  <2>3. fd = "open"
    BY <2>1 DEF Descriptor
  <2>. QED  BY <2>1, <2>2, <2>3, OpenKeeps
<1>3. CASE Hold(g)
  <2>1. /\ fd = "open" /\ fd' = fd /\ port' = port
        /\ \/ at[g] = "configure" /\ Goto(g, "get")
           \/ at[g] = "lines" /\ Goto(g, "bis")
           \/ at[g] = "borrow" /\ Goto(g, "query")
    BY <1>3 DEF Hold, Entry
  <2>2. /\ \A h \in Goroutine : h # g => at'[h] = at[h]
        /\ at[g] \in {"configure", "lines", "borrow"}
        /\ at[g] = "configure" => at'[g] = "get"
        /\ at'[g] \in {"get", "bis", "query"}
    BY <1>0, <2>1 DEF Goto
  <2>3. Closing' <=> Closing
    BY <2>2 DEF Closing
  <2>4. port = "opening" => Alone'
    BY <1>0, <2>2 DEF Descriptor, Alone, Idle, Configuring
  <2>. QED  BY <2>1, <2>3, <2>4 DEF Descriptor
<1>4. CASE HoldFails(g)
  <2>1. /\ fd' = fd /\ port' = port /\ port = "closed" /\ Goto(g, "idle")
        /\ at[g] \in {"configure", "lines", "borrow"}
    BY <1>4 DEF HoldFails, Entry
  <2>2. at[g] \notin Ioctl /\ at[g] # "close" /\ at[g] # "idle" /\ "idle" \notin Ioctl
    BY <2>1 DEF Ioctl, Configuring
  <2>. QED  BY <1>0, <2>1, <2>2, StayKeeps
<1>5. CASE /\ GetAttr(g) \/ SetAttr(g) \/ SetKeep(g) \/ Insist(g) \/ ReadBack(g)
           /\ Fail(g)
  <2>1. at[g] \in Ioctl
    BY <1>5 DEF GetAttr, SetAttr, SetKeep, Insist, ReadBack, Ioctl, Configuring
  <2>. QED  BY <1>5, <2>1, FailDescriptor
<1>6. CASE \/ (GetAttr(g) \/ SetAttr(g) \/ SetKeep(g) \/ Insist(g)) /\ ~Fail(g)
           \/ Speed(g)
  <2>1. /\ fd' = fd /\ port' = port
        /\ at[g] \in {"get", "set", "keep", "insist", "speed"}
        /\ \/ Goto(g, "set") \/ Goto(g, "speed") \/ Goto(g, "keep")
           \/ Goto(g, "insist") \/ Goto(g, "readback")
    BY <1>6 DEF GetAttr, SetAttr, SetKeep, Insist, Speed
  <2>2. /\ {"get", "set", "keep", "insist", "speed", "readback"} \subseteq Ioctl \cap Configuring
        /\ "close" \notin Ioctl /\ "idle" \notin Ioctl
    BY DEF Ioctl, Configuring
  <2>. QED  BY <1>0, <2>1, <2>2, StayKeeps
<1>7. CASE ReadBack(g) /\ ~Fail(g)
  <2>1. /\ Release(g) /\ Goto(g, "store") /\ port' = port /\ at[g] = "readback"
    BY <1>7 DEF ReadBack
  <2>2. at[g] \in Ioctl /\ at[g] # "idle"
    BY <2>1 DEF Ioctl, Configuring
  <2>3. CASE port \in {"open", "closed"}
    BY <2>1, <2>2, <2>3, ReleaseKeeps
  <2>4. CASE port = "opening"
    <3>1. fd' = "open" /\ Alone
      BY <2>1, <2>4 DEF Release, Descriptor
    <3>2. /\ at'[g] = "store" /\ \A h \in Goroutine : h # g => at'[h] = at[h]
      BY <1>0, <2>1 DEF Goto, Configuring
    <3>3. Alone' /\ ~Closing'
      BY <2>2, <3>1, <3>2 DEF Alone, Idle, Configuring, Closing
    <3>. QED  BY <2>1, <2>4, <3>1, <3>3 DEF Descriptor
  <2>. QED  BY <1>0, <2>2, <2>3, <2>4
<1>8. CASE Store(g)
  <2>1. /\ at[g] = "store" /\ fd' = fd /\ Goto(g, "idle")
        /\ port' = IF port = "opening" THEN "open" ELSE port
    BY <1>8 DEF Store
  <2>2. CASE port = "opening"
    <3>1. Closing' => Closing
      BY <1>0, <2>1 DEF Closing, Goto
    <3>2. fd = "open"
      BY <2>2 DEF Descriptor
    <3>. QED  BY <2>1, <2>2, <3>1, <3>2, OpenKeeps
  <2>3. CASE port # "opening"
    <3>1. "store" \notin Ioctl /\ "idle" \notin Ioctl
      BY DEF Ioctl, Configuring
    <3>. QED  BY <1>0, <2>1, <2>3, <3>1, StayKeeps
  <2>. QED  BY <2>2, <2>3
<1>9. CASE Bis(g) /\ ~LinesFail(g)
  <2>1. /\ at[g] = "bis" /\ fd' = fd /\ port' = port /\ Goto(g, "bic")
    BY <1>9 DEF Bis
  <2>2. {"bis", "bic"} \subseteq Ioctl /\ "bis" \notin Configuring
    BY DEF Ioctl, Configuring
  <2>. QED  BY <1>0, <2>1, <2>2, StayKeeps
<1>10. CASE Bic(g) \/ Query(g) \/ (Bis(g) /\ LinesFail(g))
  <2>1. /\ at[g] \in {"bis", "bic", "query"} /\ port' = port /\ Release(g) /\ Goto(g, "idle")
    BY <1>10 DEF Bis, Bic, Query, LinesFail
  <2>2. at[g] \in Ioctl /\ at[g] \notin Configuring \cup {"idle"}
    BY <2>1 DEF Ioctl, Configuring
  <2>. QED  BY <1>0, <2>1, <2>2, ReleaseKeeps
<1>11. CASE CloseTake(g)
  <2>1. /\ at[g] = "closecheck" /\ port' = "closed" /\ fd' = fd /\ Goto(g, "close")
    BY <1>11 DEF CloseTake
  <2>2. /\ "closecheck" \notin Ioctl \cup Configuring \cup {"idle"} /\ "close" \notin Ioctl
    BY DEF Ioctl, Configuring
  <2>3. Closing'
    BY <1>0, <2>1 DEF Closing, Goto
  <2>4. Holders' = Holders
    BY <1>0, <2>1, <2>2, HoldersAfter DEF Holders
  <2>5. port \in {"open", "closed"}
    BY <1>0, <2>1, <2>2
  <2>. QED  BY <2>1, <2>3, <2>4, <2>5 DEF Descriptor
<1>12. CASE CloseNil(g)
  <2>1. /\ at[g] = "closecheck" /\ port = "closed" /\ port' = port /\ fd' = fd /\ Goto(g, "idle")
    BY <1>12 DEF CloseNil
  <2>2. "closecheck" \notin Ioctl /\ "idle" \notin Ioctl
    BY DEF Ioctl, Configuring
  <2>. QED  BY <1>0, <2>1, <2>2, StayKeeps
<1>13. CASE FileClose(g)
  <2>1. /\ at[g] = "close" /\ port' = port /\ Goto(g, "idle")
        /\ fd' = IF fd = "open" THEN IF Holders = {} THEN "none" ELSE "closing" ELSE fd
    BY <1>13 DEF FileClose
  <2>2. "close" \notin Ioctl /\ "idle" \notin Ioctl
    BY DEF Ioctl, Configuring
  <2>3. Holders' = Holders
    BY <1>0, <2>1, <2>2, HoldersAfter DEF Holders
  <2>4. port = "closed"
    BY <2>1 DEF Descriptor, Closing
  <2>. QED  BY <2>1, <2>3, <2>4 DEF Descriptor
<1>. QED
  BY <1>1, <1>2, <1>3, <1>4, <1>5, <1>6, <1>7, <1>8, <1>9, <1>10, <1>11, <1>12, <1>13 DEF Step

\* A step does not leave the invariant.
LEMMA NextHolds == IInv /\ [Next]_vars => IInv'
<1>. SUFFICES ASSUME IInv, [Next]_vars PROVE IInv'
  OBVIOUS
<1>. USE DEF IInv
<1>1. CASE Next
  <2>1. PICK g \in Goroutine : Step(g)
    BY <1>1 DEF Next
  <2>2. TypeOK' /\ Carried'
    BY <2>1, BeginKeeps, ConfigureKeeps, OthersKeep DEF Step
  <2>3. Descriptor'
    BY <2>1, StepDescriptor
  <2>. QED  BY <2>2, <2>3
<1>2. CASE UNCHANGED vars
  <2>. USE <1>2 DEF vars, history
  <2>1. TypeOK'
    BY DEF TypeOK
  <2>2. Carried'
    BY DEF Carried, Untouched
  <2>3. Descriptor'
    BY DEF Descriptor, Idle, Alone, Closing, Holders
  <2>. QED  BY <2>1, <2>2, <2>3
<1>. QED  BY <1>1, <1>2

\* The invariant holds of every state of a behaviour.
LEMMA Invariance == Spec => []IInv
<1>. QED  BY InitHolds, NextHolds, PTL DEF Spec

\* Every variable keeps its type: what is read back from a driver is a Config.
THEOREM TypeCorrect == Spec => []TypeOK
<1>1. IInv => TypeOK
  BY DEF IInv
<1>. QED  BY <1>1, Invariance, PTL

\* "The bits macOS set at open that this package has no opinion about survive",
\* whatever the driver refuses or applies in part and whatever calls overlap.
THEOREM ForeignFlagsSurvive == Spec => []UntouchedSurvive
<1>1. IInv => UntouchedSurvive
  BY DEF IInv, Carried, UntouchedSurvive
<1>. QED  BY <1>1, Invariance, PTL

\* No kernel call is made on a descriptor that has been closed.
THEOREM DescriptorIsLive == Spec => []NoStaleDescriptor
<1>1. IInv => NoStaleDescriptor
  BY DEF IInv, Descriptor, NoStaleDescriptor
<1>. QED  BY <1>1, Invariance, PTL

\* With no call in progress the descriptor is open exactly when the Port is.
THEOREM DescriptorIsReturned == Spec => []NoLeak
<1>1. IInv => NoLeak
  <2>. SUFFICES ASSUME IInv, Idle PROVE fd = IF port = "open" THEN "open" ELSE "none"
    BY DEF NoLeak, Idle
  <2>1. Holders = {} /\ ~Closing
    BY DEF Idle, Holders, Closing, Ioctl, Configuring
  <2>. QED  BY <2>1 DEF IInv, Descriptor, Alone, TypeOK
<1>. QED  BY <1>1, Invariance, PTL

-----------------------------------------------------------------------------
(* Modem lines.                                                              *)

Driving == {"lines", "bis", "bic"}

\* A SetLines touches lines of its own goroutine only; between its two ioctls what
\* it raises is up; once it is over its lines are as it left them.
LinesInv ==
    /\ \A g \in Goroutine : ask[g].set \subseteq LinesOf[g] /\ ask[g].clear \subseteq LinesOf[g]
    /\ \A g \in Goroutine : at[g] = "bic" => ask[g].set \subseteq lines
    /\ \A g \in Goroutine : at[g] \notin Driving =>
          ask[g].set \ ask[g].clear \subseteq lines /\ ask[g].clear \cap lines = {}

\* A step of another call.
LEMMA LinesElsewhere ==
    ASSUME TypeOK, LinesInv, NEW g \in Goroutine, NEW p \in Places \ {"bic"}, Goto(g, p),
           at[g] \notin Driving \/ p \in Driving, lines' = lines, ask' = ask
    PROVE  LinesInv'
<1>1. /\ at'[g] = p
      /\ \A h \in Goroutine : h # g => at'[h] = at[h]
  BY GotoType DEF TypeOK
<1>. QED  BY <1>1 DEF LinesInv

\* A SetLines that is refused has asked for nothing.
LEMMA LinesRefused ==
    ASSUME TypeOK, LinesInv, NEW g \in Goroutine, Goto(g, "idle"),
           lines' = lines, ask' = [ask EXCEPT ![g] = Nothing]
    PROVE  LinesInv'
<1>1. /\ at'[g] = "idle" /\ ask'[g] = Nothing
      /\ \A h \in Goroutine : h # g => at'[h] = at[h] /\ ask'[h] = ask[h]
  BY GotoType DEF TypeOK, Places
<1>. QED  BY <1>1 DEF LinesInv, Nothing

\* What one goroutine asks for, another does not drive.
LEMMA LinesApart ==
    ASSUME LinesInv, NEW g \in Goroutine, NEW h \in Goroutine, g # h
    PROVE  (ask[g].set \cup ask[g].clear) \cap (ask[h].set \cup ask[h].clear) = {}
<1>1. LinesOf[g] \cap LinesOf[h] = {}
  BY CallsAssumption
<1>. QED  BY <1>1 DEF LinesInv

\* The two ioctls.
LEMMA LinesDriven ==
    ASSUME TypeOK, LinesInv, NEW g \in Goroutine, Bis(g) \/ Bic(g)
    PROVE  LinesInv'
<1>1. CASE LinesFail(g)
  BY <1>1, LinesRefused DEF LinesFail
<1>2. CASE Bis(g) /\ ~LinesFail(g)
  <2>1. at[g] = "bis" /\ lines' = lines \cup ask[g].set /\ Goto(g, "bic") /\ ask' = ask
    BY <1>2 DEF Bis
  <2>2. /\ at'[g] = "bic"
        /\ \A h \in Goroutine : h # g => at'[h] = at[h]
    BY <2>1 DEF Goto, TypeOK
  <2>3. \A h \in Goroutine : h # g => ask[h].clear \cap ask[g].set = {}
    BY LinesApart
  <2>. QED  BY <2>1, <2>2, <2>3 DEF LinesInv, Driving
<1>3. CASE Bic(g) /\ ~LinesFail(g)
  <2>1. at[g] = "bic" /\ lines' = lines \ ask[g].clear /\ Goto(g, "idle") /\ ask' = ask
    BY <1>3 DEF Bic
  <2>2. /\ at'[g] = "idle"
        /\ \A h \in Goroutine : h # g => at'[h] = at[h]
    BY <2>1 DEF Goto, TypeOK
  <2>3. \A h \in Goroutine : h # g => ask[h].set \cap ask[g].clear = {}
    BY LinesApart
  <2>. QED  BY <2>1, <2>2, <2>3 DEF LinesInv, Driving
<1>. QED  BY <1>1, <1>2, <1>3

\* Every step leaves the lines of those who do not drive them.
LEMMA LinesStep ==
    ASSUME TypeOK, LinesInv, NEW g \in Goroutine, Step(g)
    PROVE  LinesInv'
<1>0. {"idle", "lines", "borrow", "closecheck", "close", "bis", "query", "configure",
       "get", "set", "keep", "insist", "speed", "readback", "store"} \subseteq Places \ {"bic"}
  BY DEF Places, Ioctl, Configuring
<1>1. CASE Open(g)
  <2>1. /\ lines' = lines /\ ask' = [h \in Goroutine |-> Nothing] /\ Goto(g, "configure")
        /\ \A h \in Goroutine : at[h] = "idle"
    BY <1>1 DEF Open, Begin
  <2>2. \A h \in Goroutine : at'[h] \in {"idle", "configure"}
    BY <2>1 DEF Goto, TypeOK
  <2>. QED  BY <2>1, <2>2 DEF LinesInv, Nothing
<1>2. CASE SetLines(g)
  <2>1. PICK s \in SUBSET LinesOf[g], c \in SUBSET LinesOf[g] :
            ask' = [ask EXCEPT ![g] = [set |-> s, clear |-> c]]
    BY <1>2 DEF SetLines
  <2>2. /\ ask'[g] = [set |-> s, clear |-> c]
        /\ \A h \in Goroutine : h # g => ask'[h] = ask[h]
    BY <2>1 DEF TypeOK
  <2>3. lines' = lines /\ Goto(g, "lines")
    BY <1>2 DEF SetLines
  <2>4. /\ at'[g] = "lines"
        /\ \A h \in Goroutine : h # g => at'[h] = at[h]
    BY <2>3 DEF Goto, TypeOK
  <2>. QED  BY <2>2, <2>3, <2>4 DEF LinesInv, Driving
<1>3. CASE HoldFails(g)
  <2>1. CASE at[g] = "lines"
    BY <1>3, <2>1, LinesRefused DEF HoldFails
  <2>2. CASE at[g] # "lines"
    <3>1. /\ ask' = ask /\ lines' = lines /\ Goto(g, "idle") /\ at[g] \notin Driving
      BY <1>3, <2>2 DEF HoldFails, Entry, TypeOK, Driving
    <3>. QED  BY <1>0, <3>1, LinesElsewhere
  <2>. QED  BY <2>1, <2>2
<1>4. CASE Hold(g)
  <2>1. /\ lines' = lines /\ ask' = ask
        /\ \/ at[g] = "lines" /\ Goto(g, "bis")
           \/ at[g] = "configure" /\ Goto(g, "get")
           \/ at[g] = "borrow" /\ Goto(g, "query")
    BY <1>4 DEF Hold, Entry
  <2>. QED  BY <1>0, <2>1, LinesElsewhere DEF Driving
<1>5. CASE Bis(g) \/ Bic(g)
  BY <1>5, LinesDriven
<1>6. CASE \/ Configure(g) \/ Borrow(g) \/ Query(g) \/ CloseCheck(g) \/ CloseTake(g)
           \/ CloseNil(g) \/ FileClose(g)
  <2>1. /\ lines' = lines /\ ask' = ask /\ at[g] \notin Driving
        /\ \/ Goto(g, "configure") \/ Goto(g, "borrow") \/ Goto(g, "idle")
           \/ Goto(g, "closecheck") \/ Goto(g, "close")
    BY <1>6 DEF Configure, Begin, Borrow, Query, CloseCheck, CloseTake, CloseNil, FileClose, Driving
  <2>. QED  BY <1>0, <2>1, LinesElsewhere
<1>7. CASE \/ GetAttr(g) \/ SetAttr(g) \/ SetKeep(g) \/ Insist(g) \/ Speed(g)
           \/ ReadBack(g) \/ Store(g)
  <2>1. /\ lines' = lines /\ ask' = ask /\ at[g] \notin Driving
        /\ \/ Goto(g, "idle") \/ Goto(g, "set") \/ Goto(g, "keep") \/ Goto(g, "insist")
           \/ Goto(g, "speed") \/ Goto(g, "readback") \/ Goto(g, "store")
    BY <1>7 DEF GetAttr, SetAttr, SetKeep, Insist, Speed, ReadBack, Store, Fail, Driving
  <2>. QED  BY <1>0, <2>1, LinesElsewhere
<1>. QED  BY <1>1, <1>2, <1>3, <1>4, <1>5, <1>6, <1>7 DEF Step

\* A goroutine's modem lines are as its last SetLines left them, whatever other
\* goroutines do to theirs and whatever is refused, closed or opened in between
\* (Port.SetLines).
THEOREM LinesAreKept == Spec => []LinesKept
<1>1. Init => LinesInv
  BY DEF Init, LinesInv, Nothing
<1>2. IInv /\ LinesInv /\ [Next]_vars => LinesInv'
  <2>1. ASSUME IInv, LinesInv, Next PROVE LinesInv'
    BY <2>1, LinesStep DEF Next, IInv
  <2>2. ASSUME LinesInv, UNCHANGED vars PROVE LinesInv'
    BY <2>2 DEF vars, LinesInv
  <2>. QED  BY <2>1, <2>2
<1>3. LinesInv => LinesKept
  BY DEF LinesInv, LinesKept, Driving
<1>. QED  BY <1>1, <1>2, <1>3, Invariance, PTL DEF Spec

-----------------------------------------------------------------------------
(* What a Configure that is alone has brought about.                         *)

\* The kernel is as c asks, but perhaps for the rate.
Rest(t, c) == \E r \in Int : ConfigOf(t) = [Normal(c) EXCEPT !.Baud = r]

\* How far g's Configure has come: what it has read back is what there is; a driver
\* that has done what it accepted has done it all, except for a rate still to set.
Progress(g) ==
    /\ at[g] = "store" => cur[g] = attr
    /\ whole /\ at[g] = "insist" => Rest(attr, want[g])
    /\ whole /\ at[g] \in {"speed", "readback", "store"} => ConfigOf(attr) = Normal(want[g])

\* The last one that succeeded recorded what is in force.
Recorded == cfg = ConfigOf(attr) /\ (whole => cfg = Normal(want[by]))

Quiet == \A g \in Goroutine : at[g] \notin Configuring

LastInv ==
    alone =>
        /\ \A g, h \in Goroutine : at[g] \in Configuring /\ at[h] \in Configuring => g = h
        /\ \A g \in Goroutine : Progress(g)
        /\ Quiet /\ by # Nobody => Recorded

\* A step of a Configure: it goes on, it fails, or it records what there is.
LEMMA Lone ==
    ASSUME TypeOK, LastInv, NEW g \in Goroutine, NEW p \in Places, Goto(g, p),
           at[g] \in Configuring, want' = want, alone' = alone,
           alone => Progress(g)',
           p \in Configuring \/ by' = Nobody \/ (alone => Recorded')
    PROVE  LastInv'
<1>. SUFFICES ASSUME alone
              PROVE  /\ \A h, i \in Goroutine : at'[h] \in Configuring /\ at'[i] \in Configuring => h = i
                     /\ \A h \in Goroutine : Progress(h)'
                     /\ Quiet' /\ by' # Nobody => Recorded'
  BY DEF LastInv
<1>1. /\ at'[g] = p
      /\ \A h \in Goroutine : h # g => at'[h] = at[h]
  BY GotoType DEF TypeOK
<1>2. \A h \in Goroutine : h # g => at'[h] \notin Configuring
  BY <1>1 DEF LastInv
<1>3. \A h \in Goroutine : h # g => Progress(h)'
  BY <1>2 DEF Progress, Configuring
<1>4. \A h \in Goroutine : Progress(h)'
  BY <1>3
<1>5. \A h, i \in Goroutine : at'[h] \in Configuring /\ at'[i] \in Configuring => h = i
  BY <1>2
<1>6. Quiet' /\ by' # Nobody => Recorded'
  BY <1>1 DEF Quiet
<1>. QED  BY <1>4, <1>5, <1>6

\* A step of another call.
LEMMA Beside ==
    ASSUME TypeOK, LastInv, NEW g \in Goroutine, NEW p \in Places \ Configuring, Goto(g, p),
           at[g] \notin Configuring, UNCHANGED <<attr, cfg, want, cur, history>>,
           by' \in {by, Nobody}
    PROVE  LastInv'
<1>1. /\ at'[g] = p
      /\ \A h \in Goroutine : h # g => at'[h] = at[h]
  BY GotoType DEF TypeOK
<1>2. \A h \in Goroutine : at'[h] \in Configuring <=> at[h] \in Configuring
  BY <1>1
<1>3. Quiet' <=> Quiet
  BY <1>2 DEF Quiet
<1>4. alone' = alone /\ whole' = whole
  BY DEF history
<1>5. ASSUME NEW h \in Goroutine, Progress(h) PROVE Progress(h)'
  <2>1. CASE h = g
    BY <1>1, <2>1 DEF Progress, Configuring
  <2>2. CASE h # g
    BY <1>1, <1>4, <1>5, <2>2 DEF Progress, Rest
  <2>. QED  BY <2>1, <2>2
<1>6. by' # Nobody /\ Recorded => Recorded'
  BY <1>4 DEF Recorded
<1>7. by' # Nobody => by # Nobody
  OBVIOUS
<1>. QED  BY <1>2, <1>3, <1>4, <1>5, <1>6, <1>7 DEF LastInv

\* An Open or a Configure begins: it is alone if nobody else is at it.
LEMMA BeginLast ==
    ASSUME TypeOK, NEW g \in Goroutine, NEW c \in AskedBy[g], Begin(g, c), at[g] = "idle"
    PROVE  LastInv'
<1>1. /\ at'[g] = "configure"
      /\ \A h \in Goroutine : h # g => at'[h] = at[h]
      /\ alone' => \A h \in Goroutine : at[h] \notin Configuring
  BY DEF Begin, Goto, TypeOK
<1>2. ASSUME alone' PROVE \A h \in Goroutine : h # g => at'[h] \notin Configuring
  BY <1>1, <1>2
<1>3. ASSUME alone' PROVE \A h \in Goroutine : Progress(h)'
  BY <1>1, <1>2, <1>3 DEF Progress, Configuring
<1>4. ~Quiet'
  BY <1>1 DEF Quiet, Configuring
<1>. QED  BY <1>2, <1>3, <1>4 DEF LastInv

\* The rate is the one field a change of rate changes.
LEMMA RateSet ==
    ASSUME attr \in TermiosRecord, NEW c \in Config, Rest(attr, c), c.Baud \in Nat,
           NEW u \in Rates(c.Baud), u.ospeed = c.Baud
    PROVE  ConfigOf(u) = Normal(c)
<1>1. PICK r \in {c.Baud, attr.ospeed} \cup Table : u = Partly(attr, attr.cflag, r)
  BY DEF Rates
<1>2. /\ u.cflag = attr.cflag /\ u.vmin = attr.vmin /\ u.vtime = attr.vtime
  BY <1>1 DEF Partly, TermiosRecord
<1>. DEFINE w == ConfigOf(attr)
<1>3. ConfigOf(u) = [w EXCEPT !.Baud = c.Baud]
  <2>1. w = [Baud |-> attr.ospeed, DataBits |-> w.DataBits, StopBits |-> w.StopBits,
             Parity |-> w.Parity, CLOCAL |-> w.CLOCAL, HUPCL |-> w.HUPCL, RTSCTS |-> w.RTSCTS,
             ReadMin |-> attr.vmin, ReadTimeoutDecis |-> attr.vtime]
    BY DEF ConfigOf
  <2>2. ConfigOf(u) =
            [Baud |-> c.Baud, DataBits |-> w.DataBits, StopBits |-> w.StopBits,
             Parity |-> w.Parity, CLOCAL |-> w.CLOCAL, HUPCL |-> w.HUPCL, RTSCTS |-> w.RTSCTS,
             ReadMin |-> attr.vmin, ReadTimeoutDecis |-> attr.vtime]
    BY <1>2, u.ospeed = c.Baud DEF ConfigOf
  <2>. HIDE DEF w
  <2>. QED  BY <2>1, <2>2
<1>. HIDE DEF w
<1>4. PICK b \in Int : w = [Normal(c) EXCEPT !.Baud = b]
  BY DEF Rest, w
<1>5. [[Normal(c) EXCEPT !.Baud = b] EXCEPT !.Baud = c.Baud] = Normal(c)
  <2>. DEFINE n == Normal(c)
  <2>1. n.Baud = c.Baud
    BY DEF Normal
  <2>2. n = [Baud |-> n.Baud, DataBits |-> n.DataBits, StopBits |-> n.StopBits,
             Parity |-> n.Parity, CLOCAL |-> n.CLOCAL, HUPCL |-> n.HUPCL, RTSCTS |-> n.RTSCTS,
             ReadMin |-> n.ReadMin, ReadTimeoutDecis |-> n.ReadTimeoutDecis]
    BY Zenon DEF Normal
  <2>. HIDE DEF n
  <2>3. [[n EXCEPT !.Baud = b] EXCEPT !.Baud = c.Baud] = n
    BY <2>1, <2>2
  <2>. QED  BY <2>3 DEF n
<1>. QED  BY <1>3, <1>4, <1>5

\* What is exactly so is so but for the rate.
LEMMA ExactRest ==
    ASSUME attr \in TermiosRecord, NEW c \in Config, ConfigOf(attr) = Normal(c)
    PROVE  Rest(attr, c)
<1>1. Normal(c) = [Normal(c) EXCEPT !.Baud = c.Baud] /\ c.Baud \in Int
  BY DEF Normal, Config
<1>. QED  BY <1>1 DEF Rest

\* The steps of a Configure, one by one.
LEMMA ConfigureLast ==
    ASSUME TypeOK, Carried, LastInv, NEW g \in Goroutine,
           \/ GetAttr(g) \/ SetAttr(g) \/ SetKeep(g) \/ Insist(g) \/ Speed(g)
           \/ ReadBack(g) \/ Store(g)
    PROVE  LastInv'
<1>1. at[g] \in Configuring /\ want[g] \in Config /\ Validate(want[g]) /\ want[g].Baud \in Nat
  <2>1. at[g] \in Configuring
    BY DEF GetAttr, SetAttr, SetKeep, Insist, Speed, ReadBack, Store, Configuring
  <2>2. want[g] \in Config /\ Validate(want[g])
    BY <2>1 DEF TypeOK, Carried
  <2>. QED  BY <2>1, <2>2 DEF Validate, Config
<1>2. {"set", "keep", "insist", "speed", "readback", "store"} \subseteq Places \cap Configuring
  BY DEF Places, Configuring
<1>3. "idle" \in Places
  BY DEF Places
<1>4. attr \in TermiosRecord /\ cur[g] \in TermiosRecord
  BY DEF TypeOK
<1>5. alone => Progress(g)
  BY DEF LastInv
<1>6. CASE Fail(g)
  <2>1. Goto(g, "idle") /\ by' = Nobody /\ want' = want /\ alone' = alone
    BY <1>6 DEF Fail, history
  <2>2. Progress(g)'
    BY <2>1 DEF Progress, Goto, TypeOK
  <2>. QED  BY <1>1, <1>3, <2>1, <2>2, Lone
<1>7. CASE (GetAttr(g) \/ (SetAttr(g) /\ Goto(g, "keep"))) /\ ~Fail(g)
  <2>1. (Goto(g, "set") \/ Goto(g, "keep")) /\ want' = want /\ alone' = alone
    BY <1>7 DEF GetAttr, SetAttr, history
  <2>2. Progress(g)'
    BY <2>1 DEF Progress, Goto, TypeOK
  <2>. QED  BY <1>1, <1>2, <2>1, <2>2, Lone
<1>8. CASE SetAttr(g) /\ ~Goto(g, "keep") /\ ~Fail(g)
  <2>1. /\ Apply(FromConfig(want[g], cur[g])) /\ Goto(g, "speed")
        /\ want' = want /\ alone' = alone
    BY <1>8 DEF SetAttr
  <2>2. whole' => attr' = FromConfig(want[g], cur[g])
    BY <2>1 DEF Apply
  <2>3. whole' => ConfigOf(attr') = Normal(want[g])
    BY <1>1, <1>4, <2>2, RoundTrip
  <2>4. at'[g] = "speed"
    BY <2>1 DEF Goto, TypeOK
  <2>5. Progress(g)'
    BY <2>1, <2>3, <2>4 DEF Progress
  <2>. QED  BY <1>1, <1>2, <2>1, <2>5, Lone
<1>9. CASE SetKeep(g) /\ ~Fail(g)
  <2>. DEFINE c == [want[g] EXCEPT !.Baud = cur[g].ospeed]
  <2>1. /\ Apply(FromConfig(c, cur[g])) /\ Goto(g, "insist")
        /\ want' = want /\ alone' = alone /\ cur[g].ospeed > 0
    BY <1>9 DEF SetKeep, Carried
  <2>2. c \in Config /\ Validate(c) /\ Normal(c) = [Normal(want[g]) EXCEPT !.Baud = cur[g].ospeed]
    <3>1. cur[g].ospeed \in Int
      BY <1>4 DEF TermiosRecord
    <3>2. c \in Config
      BY <1>1, <3>1 DEF Config
    <3>3. /\ c.Baud = cur[g].ospeed /\ c.DataBits = want[g].DataBits
          /\ c.StopBits = want[g].StopBits /\ c.Parity = want[g].Parity
          /\ c.CLOCAL = want[g].CLOCAL /\ c.HUPCL = want[g].HUPCL /\ c.RTSCTS = want[g].RTSCTS
          /\ c.ReadMin = want[g].ReadMin /\ c.ReadTimeoutDecis = want[g].ReadTimeoutDecis
      BY <1>1 DEF Config
    <3>. HIDE DEF c
    <3>4. Validate(c)
      BY <1>1, <2>1, <3>3 DEF Validate
    <3>5. Normal(c) = [Normal(want[g]) EXCEPT !.Baud = cur[g].ospeed]
      BY <3>3 DEF Normal
    <3>. QED  BY <3>2, <3>4, <3>5
  <2>. HIDE DEF c
  <2>3. whole' => attr' = FromConfig(c, cur[g])
    BY <2>1 DEF Apply
  <2>4. whole' => ConfigOf(attr') = Normal(c)
    BY <1>4, <2>2, <2>3, RoundTrip
  <2>5. cur[g].ospeed \in Int
    BY <1>4 DEF TermiosRecord
  <2>6. whole' => Rest(attr', want[g])
    BY <2>2, <2>4, <2>5 DEF Rest
  <2>7. at'[g] = "insist"
    BY <2>1 DEF Goto, TypeOK
  <2>8. Progress(g)'
    BY <2>1, <2>6, <2>7 DEF Progress, Rest
  <2>. QED  BY <1>1, <1>2, <2>1, <2>8, Lone
<1>10. CASE (Insist(g) \/ Speed(g)) /\ ~Fail(g)
  <2>1. /\ at[g] \in {"insist", "speed"} /\ want' = want /\ alone' = alone
        /\ \/ Goto(g, "speed") /\ ApplyRate(want[g].Baud)
           \/ Goto(g, "readback") /\ ApplyRate(want[g].Baud)
           \/ Goto(g, "readback") /\ at[g] = "speed" /\ attr' = attr /\ whole' = whole
    BY <1>10 DEF Insist, Speed
  <2>2. alone /\ whole => Rest(attr, want[g])
    BY <1>1, <1>4, <1>5, <2>1, ExactRest DEF Progress
  <2>3. ASSUME ApplyRate(want[g].Baud), alone, whole' PROVE ConfigOf(attr') = Normal(want[g])
    <3>1. attr' \in Rates(want[g].Baud) /\ whole /\ attr'.ospeed = want[g].Baud
      BY <2>3 DEF ApplyRate
    <3>. QED  BY <1>1, <1>4, <2>2, <2>3, <3>1, RateSet
  <2>4. alone /\ whole' => ConfigOf(attr') = Normal(want[g])
    BY <1>5, <2>1, <2>3 DEF Progress
  <2>5. at'[g] \in {"speed", "readback"}
    BY <2>1 DEF Goto, TypeOK
  <2>6. alone => Progress(g)'
    BY <2>1, <2>4, <2>5 DEF Progress
  <2>. QED  BY <1>1, <1>2, <2>1, <2>6, Lone
<1>11. CASE ReadBack(g) /\ ~Fail(g)
  <2>1. /\ at[g] = "readback" /\ cur' = [cur EXCEPT ![g] = attr] /\ Goto(g, "store")
        /\ attr' = attr /\ want' = want /\ alone' = alone /\ whole' = whole
    BY <1>11 DEF ReadBack, history
  <2>2. at'[g] = "store" /\ cur'[g] = attr
    BY <2>1 DEF Goto, TypeOK
  <2>3. alone => Progress(g)'
    BY <1>5, <2>1, <2>2 DEF Progress
  <2>. QED  BY <1>1, <1>2, <2>1, <2>3, Lone
<1>12. CASE Store(g)
  <2>1. /\ at[g] = "store" /\ cfg' = ConfigOf(cur[g]) /\ by' = g /\ Goto(g, "idle")
        /\ attr' = attr /\ want' = want /\ alone' = alone /\ whole' = whole
    BY <1>12 DEF Store, history
  <2>2. Progress(g)'
    BY <2>1 DEF Progress, Goto, TypeOK
  <2>3. alone => Recorded'
    BY <1>5, <2>1 DEF Progress, Recorded
  <2>. QED  BY <1>1, <1>3, <2>1, <2>2, <2>3, Lone
<1>. QED  BY <1>6, <1>7, <1>8, <1>9, <1>10, <1>11, <1>12

\* Every step.
LEMMA StepLast ==
    ASSUME TypeOK, Carried, LastInv, NEW g \in Goroutine, Step(g)
    PROVE  LastInv'
<1>0. {"idle", "lines", "borrow", "bis", "bic", "query", "closecheck", "close"}
          \subseteq Places \ Configuring
  BY DEF Places, Ioctl, Configuring
<1>1. CASE Open(g) \/ Configure(g)
  <2>1. PICK c \in AskedBy[g] : Begin(g, c)
    BY <1>1 DEF Open, Configure
  <2>2. at[g] = "idle"
    BY <1>1 DEF Open, Configure
  <2>. QED  BY <2>1, <2>2, BeginLast
<1>2. CASE (Hold(g) \/ HoldFails(g)) /\ at[g] = "configure"
  <2>1. /\ want' = want /\ alone' = alone
        /\ Goto(g, "get") \/ (Goto(g, "idle") /\ by' = Nobody)
    BY <1>2 DEF Hold, HoldFails, Entry, history
  <2>2. Progress(g)'
    BY <2>1 DEF Progress, Goto, TypeOK
  <2>3. "get" \in Places \cap Configuring /\ "configure" \in Configuring
    BY DEF Places, Configuring
  <2>. QED  BY <1>0, <1>2, <2>1, <2>2, <2>3, Lone
<1>3. CASE (Hold(g) \/ HoldFails(g)) /\ at[g] # "configure"
  <2>1. /\ UNCHANGED <<attr, cfg, want, cur, history>> /\ by' = by
        /\ at[g] \in {"lines", "borrow"}
        /\ Goto(g, "bis") \/ Goto(g, "query") \/ Goto(g, "idle")
    BY <1>3 DEF Hold, HoldFails, Entry
  <2>. QED  BY <1>0, <2>1, Beside
<1>4. CASE \/ GetAttr(g) \/ SetAttr(g) \/ SetKeep(g) \/ Insist(g) \/ Speed(g)
           \/ ReadBack(g) \/ Store(g)
  BY <1>4, ConfigureLast
<1>5. CASE \/ SetLines(g) \/ Borrow(g) \/ Bis(g) \/ Bic(g) \/ Query(g) \/ CloseCheck(g)
           \/ CloseTake(g) \/ CloseNil(g) \/ FileClose(g)
  <2>1. /\ UNCHANGED <<attr, cfg, want, cur, history>> /\ by' = by
        /\ at[g] \in {"idle", "bis", "bic", "query", "closecheck", "close"}
        /\ \/ Goto(g, "lines") \/ Goto(g, "borrow") \/ Goto(g, "bic") \/ Goto(g, "idle")
           \/ Goto(g, "closecheck") \/ Goto(g, "close")
    BY <1>5 DEF SetLines, Borrow, Bis, Bic, LinesFail, Query, CloseCheck, CloseTake, CloseNil, FileClose
  <2>. QED  BY <1>0, <2>1, Beside
<1>. QED  BY <1>1, <1>2, <1>3, <1>4, <1>5 DEF Step

LEMMA LastHolds == Spec => []LastInv
<1>1. Init => LastInv
  BY DEF Init, LastInv, Progress, Configuring
<1>2. IInv /\ LastInv /\ [Next]_vars => LastInv'
  <2>1. ASSUME IInv, LastInv, Next PROVE LastInv'
    BY <2>1, StepLast DEF Next, IInv
  <2>2. ASSUME LastInv, UNCHANGED vars PROVE LastInv'
    BY <2>2 DEF vars, history, LastInv, Progress, Rest, Recorded, Quiet
  <2>. QED  BY <2>1, <2>2
<1>. QED  BY <1>1, <1>2, Invariance, PTL DEF Spec

\* What Config returns after a Configure that nobody overlapped is what the kernel
\* holds, whatever the driver refused or made of what it accepted (Port.Configure).
THEOREM RecordIsTrue == Spec => []AppliedIsKernel
<1>1. LastInv => AppliedIsKernel
  BY DEF LastInv, AppliedIsKernel, Settled, Quiet, Recorded
<1>. QED  BY <1>1, LastHolds, PTL

\* With a driver that applies what it accepts, success means that what was asked
\* for is in force, by way of the detour too: the rate the kernel already has, and
\* then IOSSIOSPEED (Port.Configure, apply).
THEOREM HonestDriverIsExact == Spec => []HonestIsExact
<1>1. LastInv => HonestIsExact
  BY DEF LastInv, HonestIsExact, Settled, Quiet, Recorded
<1>. QED  BY <1>1, LastHolds, PTL
=============================================================================
