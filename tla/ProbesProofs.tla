---------------------------- MODULE ProbesProofs ----------------------------
(***************************************************************************)
(* What the probe commands promise: an enumeration of HID devices by       *)
(* itself, and then the four programs, each with the parts of the packages *)
(* that it goes through and for everything they may meet.                  *)
(***************************************************************************)
EXTENDS Probes, DescriptorsProofs, UsbProbeProofs, SequenceTheorems, TLAPS
-----------------------------------------------------------------------------
(* An enumeration, for every machine, every filter and every call that may   *)
(* fail on the way.                                                          *)

Early == {"load", "manager", "match", "open", "copy"}

\* Who has a reference at each step: nobody yet, the loop that retains, the loop of
\* Devices with what it has not decided, the caller.
References ==
    /\ step \in Early => retained = {} /\ listed = {} /\ kept = {} /\ refs = {}
    /\ step = "retain" => retained \subseteq refs /\ listed = {} /\ kept = {}
    /\ step = "sift" => retained = refs \cup kept /\ refs \cap kept = {}
    /\ step \in {"sift", "use"} => kept = listed
    /\ step \in Handed \cup {"done"} => retained = kept
    /\ step \in Handed \cup {"sift", "done"} => held = {}
    /\ opened \subseteq kept
    /\ step = "done" => kept = {}

\* What the lists are made of.
Selection ==
    /\ filter \in Filters /\ attached \in Machines
    /\ dict \subseteq Narrowing(filter)
    /\ step = "retain" => refs = Matched
    /\ step = "sift" =>
          /\ refs \subseteq Matched
          /\ listed = {d \in Matched \ refs : Match(filter, Info(d))}
    /\ step \in Handed => listed = {d \in Matched : Match(filter, Info(d))}
    /\ refused => \E d \in Matched : ~d.permitted
    /\ step \in {"load", "manager", "match"} => ~refused

EInv == ETypeOK /\ References /\ Selection

LEMMA SixteenBits == 0 % 65536 = 0 /\ \A n \in Identifiers : n % 65536 = n
BY SMT DEF Identifiers

\* What is read of a property says what was published, unless it is read as absent.
LEMMA Reading ==
    ASSUME attached \in Machines, NEW d \in attached, NEW key \in Keys, NEW v, v # 0
    PROVE  Info(d)[key] = v <=> d.published[key] = <<"number", v>>
<1>1. d.published[key] \in {"number", "wide", "text", "none"} \X Identifiers
  BY DevicesAssumption
<1>2. PICK kind \in {"number", "wide", "text", "none"}, n \in Identifiers : d.published[key] = <<kind, n>>
  BY <1>1
<1>3. n % 65536 = n /\ 0 % 65536 = 0
  BY SixteenBits
<1>4. Info(d)[key] = propInt(<<kind, n>>) % 65536
  BY <1>2 DEF Info
<1>5. propInt(<<kind, n>>) = IF kind = "number" THEN n ELSE 0
  BY DEF propInt
<1>6. Info(d)[key] = IF kind = "number" THEN n ELSE 0
  BY <1>3, <1>4, <1>5, SMT
<1>7. CASE kind = "number"
  <2>1. Info(d)[key] = n /\ d.published[key] = <<"number", n>>
    BY <1>2, <1>6, <1>7
  <2>2. QED
    BY <2>1
<1>8. CASE kind # "number"
  <2>1. Info(d)[key] # v
    BY <1>6, <1>8
  <2>2. d.published[key] # <<"number", v>>
    BY <1>2, <1>8
  <2>3. QED
    BY <2>1, <2>2
<1>9. QED
  BY <1>7, <1>8

LEMMA Typed ==
    ASSUME filter \in Filters
    PROVE  filter \in [VendorID : Nat, UsagePage : Nat, Usage : Nat, ProductIDs : Seq(Nat)]
BY FiltersAssumption

\* A device that passes the filter is in the registry's answer to any part of the
\* dictionary.
LEMMA OnlyNarrows ==
    ASSUME filter \in Filters, attached \in Machines, dict \subseteq Narrowing(filter),
           NEW d \in attached, Match(filter, Info(d))
    PROVE  d \in Matched
<1> SUFFICES ASSUME NEW key \in dict
             PROVE  d.published[key] = <<"number", Value(filter, key)>>
  BY DEF Matched
<1>1. key \in Keys /\ Value(filter, key) # 0
  BY DEF Narrowing
<1>2. Info(d)[key] = Value(filter, key)
  <2>1. CASE key = "ProductID"
    <3>1. Len(filter.ProductIDs) = 1 /\ Value(filter, key) = filter.ProductIDs[1]
      BY <1>1, <2>1 DEF Value
    <3>2. DOMAIN filter.ProductIDs = {1} /\ filter.ProductIDs # <<>>
      BY Typed, <3>1
    <3>3. Info(d).ProductID = filter.ProductIDs[1]
      BY <3>2 DEF Match
    <3>4. QED
      BY <2>1, <3>1, <3>3
  <2>2. CASE key # "ProductID"
    BY <1>1, <2>2 DEF Match, Value, Keys
  <2>3. QED
    BY <2>1, <2>2
<1>3. QED
  BY <1>1, <1>2, Reading

LEMMA InitOk == EInit => EInv
BY DEF EInit, EInv, ETypeOK, References, Selection, Early, Handed

LEMMA StepOk == EInv /\ [ENext]_evars => EInv'
<1> SUFFICES ASSUME EInv, [ENext]_evars
             PROVE  EInv'
  OBVIOUS
<1> USE DEF EInv
<1>1. CASE Load
  BY <1>1 DEF Load, GiveUp, ETypeOK, References, Selection, Early, Handed, Matched, Narrowing
<1>2. CASE CreateManager
  BY <1>2 DEF CreateManager, GiveUp, ETypeOK, References, Selection, Early, Handed, Matched, Narrowing
<1>3. CASE SetMatching
  <2>1. dict' \subseteq Narrowing(filter) /\ dict' \subseteq Keys
    BY <1>3 DEF SetMatching, Narrowing
  <2>2. ETypeOK'
    BY <1>3, <2>1 DEF SetMatching, ETypeOK
  <2>3. References'
    BY <1>3 DEF SetMatching, References, Early, Handed
  <2>4. /\ (dict \subseteq Narrowing(filter))'
        /\ ~refused' /\ step' = "open" /\ filter' = filter /\ attached' = attached
    BY <1>3, <2>1 DEF SetMatching, Selection, Narrowing, Value
  <2>5. Selection'
    BY <2>4 DEF Selection, Handed
  <2>6. QED
    BY <2>2, <2>3, <2>5
<1>4. CASE OpenManager
  <2>1. ETypeOK'
    BY <1>4 DEF OpenManager, GiveUp, ETypeOK, References, Early, Handed, Matched
  <2>2. References'
    BY <1>4 DEF OpenManager, GiveUp, ETypeOK, References, Selection, Early, Handed
  <2>3. Selection'
    BY <1>4 DEF OpenManager, GiveUp, ETypeOK, References, Selection, Early, Handed, Matched
  <2>4. QED
    BY <2>1, <2>2, <2>3
<1>5. CASE CopyDevices
  <2>1. ETypeOK'
    BY <1>5 DEF CopyDevices, ETypeOK, References, Early, Handed, Matched
  <2>2. References'
    BY <1>5 DEF CopyDevices, ETypeOK, References, Selection, Early, Handed
  <2>3. Selection'
    BY <1>5 DEF CopyDevices, ETypeOK, References, Selection, Early, Handed, Matched
  <2>4. QED
    BY <2>1, <2>2, <2>3
<1>6. CASE Retain
  <2>1. ETypeOK'
    BY <1>6 DEF Retain, ETypeOK, References, Early, Handed, Matched
  <2>2. References'
    BY <1>6 DEF Retain, ETypeOK, References, Selection, Early, Handed
  <2>3. Selection'
    BY <1>6 DEF Retain, ETypeOK, References, Selection, Early, Handed, Matched
  <2>4. QED
    BY <2>1, <2>2, <2>3
<1>7. CASE Sift
  <2>1. ETypeOK'
    BY <1>7 DEF Sift, ETypeOK, References, Early, Handed, Matched
  <2>2. References'
    BY <1>7 DEF Sift, ETypeOK, References, Selection, Early, Handed
  <2>3. Selection'
    BY <1>7 DEF Sift, ETypeOK, References, Selection, Early, Handed, Matched
  <2>4. QED
    BY <2>1, <2>2, <2>3
<1>8. CASE OpenListed
  <2>1. ETypeOK'
    BY <1>8 DEF OpenListed, ETypeOK, References, Early, Handed, Matched
  <2>2. References'
    BY <1>8 DEF OpenListed, ETypeOK, References, Selection, Early, Handed
  <2>3. Selection'
    BY <1>8 DEF OpenListed, ETypeOK, References, Selection, Early, Handed, Matched
  <2>4. QED
    BY <2>1, <2>2, <2>3
<1>9. CASE StreamReturns
  <2>1. ETypeOK'
    BY <1>9 DEF StreamReturns, ETypeOK, References, Early, Handed, Matched
  <2>2. References'
    BY <1>9 DEF StreamReturns, ETypeOK, References, Selection, Early, Handed
  <2>3. Selection'
    BY <1>9 DEF StreamReturns, ETypeOK, References, Selection, Early, Handed, Matched
  <2>4. QED
    BY <2>1, <2>2, <2>3
<1>10. CASE CloseOne
  <2>1. ETypeOK'
    BY <1>10 DEF CloseOne, ETypeOK, References, Early, Handed, Matched
  <2>2. References'
    BY <1>10 DEF CloseOne, ETypeOK, References, Selection, Early, Handed
  <2>3. Selection'
    BY <1>10 DEF CloseOne, ETypeOK, References, Selection, Early, Handed, Matched
  <2>4. QED
    BY <2>1, <2>2, <2>3
<1>11. CASE UNCHANGED evars
  BY <1>11 DEF evars, ETypeOK, References, Selection, Early, Handed, Matched, Narrowing, Value
<1>12. QED
  BY <1>1, <1>2, <1>3, <1>4, <1>5, <1>6, <1>7, <1>8, <1>9, <1>10, <1>11 DEF ENext

LEMMA Holds == ESpec => []EInv
BY InitOk, StepOk, PTL DEF ESpec

\* Whatever is attached, whatever the caller asks for and whichever calls fail, an
\* enumeration that is over holds references to what the caller has not closed yet
\* and to nothing else (darwinEnumerate, Devices, Device.Close).
THEOREM ReferencesReturned == ESpec => []NothingHeldBack
<1>1. EInv => NothingHeldBack
  BY DEF EInv, References, NothingHeldBack, Handed
<1>2. QED
  BY <1>1, Holds, PTL

LEMMA ListFollows == EInv => ListIsExact
<1> SUFFICES ASSUME EInv, step \in Handed
             PROVE  listed = {d \in attached : Match(filter, Info(d))}
  BY DEF ListIsExact
<1>1. listed = {d \in Matched : Match(filter, Info(d))}
  BY DEF EInv, Selection
<1>2. Matched \subseteq attached
  BY DEF Matched
<1>3. \A d \in attached : Match(filter, Info(d)) => d \in Matched
  BY OnlyNarrows DEF EInv, Selection
<1>4. QED
  BY <1>1, <1>2, <1>3

\* The caller is handed the devices that pass its filter, all of them and no other,
\* however much of the matching dictionary was built (matchingDict, Filter.Match).
THEOREM ExactlyWhatWasAsked == ESpec => []ListIsExact
BY ListFollows, Holds, PTL

\* What a device in the answer to the whole dictionary has in common with the filter:
\* everything but the product, where the filter names several or the product zero.
LEMMA WholeDictionary ==
    ASSUME filter \in Filters, attached \in Machines, dict = Narrowing(filter),
           NEW d \in Matched
    PROVE  Match([filter EXCEPT !.ProductIDs = IF Len(@) > 1 \/ @ = <<0>> THEN <<>> ELSE @], Info(d))
<1> DEFINE f == [filter EXCEPT !.ProductIDs = IF Len(@) > 1 \/ @ = <<0>> THEN <<>> ELSE @]
<1>1. /\ d \in attached
      /\ filter \in [VendorID : Nat, UsagePage : Nat, Usage : Nat, ProductIDs : Seq(Nat)]
  BY Typed DEF Matched
<1>2. \A key \in Keys : Value(filter, key) # 0 => Info(d)[key] = Value(filter, key)
  <2> SUFFICES ASSUME NEW key \in Keys, Value(filter, key) # 0
               PROVE  Info(d)[key] = Value(filter, key)
    OBVIOUS
  <2>1. d.published[key] = <<"number", Value(filter, key)>>
    BY DEF Matched, Narrowing
  <2>2. QED
    BY <1>1, <2>1, Reading, ZenonT(60)
<1>3. /\ f.VendorID = filter.VendorID /\ f.UsagePage = filter.UsagePage /\ f.Usage = filter.Usage
      /\ f.ProductIDs = IF Len(filter.ProductIDs) > 1 \/ filter.ProductIDs = <<0>>
                        THEN <<>> ELSE filter.ProductIDs
  BY <1>1
<1> HIDE DEF f
<1>4. /\ f.VendorID # 0 => Info(d).VendorID = f.VendorID
      /\ f.UsagePage # 0 => Info(d).UsagePage = f.UsagePage
      /\ f.Usage # 0 => Info(d).Usage = f.Usage
  BY <1>2, <1>3 DEF Value, Keys
<1>5. ASSUME f.ProductIDs # <<>>
      PROVE  \E i \in DOMAIN f.ProductIDs : Info(d).ProductID = f.ProductIDs[i]
  <2>1. f.ProductIDs = filter.ProductIDs /\ Len(filter.ProductIDs) = 1
    <3>1. f.ProductIDs = filter.ProductIDs /\ ~(Len(filter.ProductIDs) > 1)
      BY <1>3, <1>5, Zenon
    <3>2. Len(filter.ProductIDs) # 0
      BY <1>1, <1>5, <3>1, EmptySeq
    <3>3. Len(filter.ProductIDs) \in Nat
      BY <1>1
    <3>4. \A n \in Nat : n # 0 /\ ~(n > 1) => n = 1
      OBVIOUS
    <3>5. QED
      BY <3>1, <3>2, <3>3, <3>4
  <2>2. 1 \in DOMAIN filter.ProductIDs
    BY <1>1, <2>1
  <2>3. filter.ProductIDs[1] # 0
    <3>1. filter.ProductIDs # <<0>>
      BY <1>3, <1>5, Zenon
    <3>2. filter.ProductIDs \in Seq(Nat)
      BY <1>1
    <3>3. filter.ProductIDs = <<filter.ProductIDs[1]>>
      BY <2>1, <3>2
    <3>4. QED
      BY <3>1, <3>3
  <2>4. Value(filter, "ProductID") = filter.ProductIDs[1]
    BY <2>1 DEF Value
  <2>5. QED
    BY <1>2, <2>1, <2>2, <2>3, <2>4 DEF Keys
<1>6. Match(f, Info(d))
  BY <1>4, <1>5 DEF Match
<1>7. QED
  BY <1>6 DEF f

LEMMA VetoFollows == EInv => VetoIsRelated
<1> SUFFICES ASSUME EInv, refused, dict = Narrowing(filter)
             PROVE  \E d \in attached :
                       ~d.permitted /\ Match([filter EXCEPT !.ProductIDs =
                                     IF Len(@) > 1 \/ @ = <<0>> THEN <<>> ELSE @], Info(d))
  BY DEF VetoIsRelated
<1>1. PICK d \in Matched : ~d.permitted
  BY DEF EInv, Selection
<1>2. d \in attached
  BY DEF Matched
<1>3. QED
  BY <1>1, <1>2, WholeDictionary DEF EInv, Selection

\* When the dictionary could be built, an enumeration is refused only over a device
\* that the dictionary asks for: one that passes the filter, but for its product where
\* the filter names several or the product zero (darwinEnumerate, matchingDict).
THEOREM VetoesAreRelated == ESpec => []VetoIsRelated
BY VetoFollows, Holds, PTL

-----------------------------------------------------------------------------
(* The programs.                                                             *)

\* A part is one that the program goes through, or has nothing to do.
Parts ==
    /\ EInv \/ NoEnumeration
    /\ DInv \/ NoConfiguration
    /\ UInv \/ NoTransfers
    /\ (Reads /\ Ends /\ Cells /\ Fitting) \/ NoSession
    /\ BInv \/ NoExchange

LEMMA PartsInit == Init => Parts
<1> SUFFICES ASSUME Init
             PROVE  Parts
  OBVIOUS
<1>1. EInit \/ NoEnumeration
  BY DEF Init, hidprobe, usbprobe, serialprobe, client
<1>2. DInit \/ NoConfiguration
  BY DEF Init, hidprobe, usbprobe, serialprobe, client
<1>3. UInit \/ NoTransfers
  BY DEF Init, hidprobe, usbprobe, serialprobe, client
<1>4. SInit \/ NoSession
  BY DEF Init, hidprobe, usbprobe, serialprobe, client
<1>5. BInit \/ NoExchange
  BY DEF Init, hidprobe, usbprobe, serialprobe, client
<1>6. QED
  BY <1>1, <1>2, <1>3, <1>4, <1>5, InitOk, DescriptorsInit, ProbeInit, ReadsInit, EndsInit, CellsInit,
     FittingInit, ExchangeInit DEF Parts

\* What has nothing to do does nothing.
LEMMA NoEnumerationStays == NoEnumeration /\ [ENext]_evars => NoEnumeration'
<1> SUFFICES ASSUME NoEnumeration, [ENext]_evars
             PROVE  NoEnumeration'
  OBVIOUS
<1>1. step = "done"
  BY DEF NoEnumeration
<1>2. ~ENext
  BY <1>1 DEF ENext, Load, CreateManager, SetMatching, OpenManager, CopyDevices, Retain, Sift,
              OpenListed, StreamReturns, CloseOne
<1>3. UNCHANGED evars
  BY <1>2
<1>4. QED
  BY <1>3 DEF evars, NoEnumeration

LEMMA NoConfigurationStays == NoConfiguration /\ [DNext]_dvars => NoConfiguration'
<1> SUFFICES ASSUME NoConfiguration, [DNext]_dvars
             PROVE  NoConfiguration'
  OBVIOUS
<1>1. stage = "done"
  BY DEF NoConfiguration
<1>2. ~DNext
  BY <1>1 DEF DNext, Header, Split, SplitReturns, Sort, ParseReturns
<1>3. UNCHANGED dvars
  BY <1>2
<1>4. QED
  BY <1>3 DEF dvars, NoConfiguration

LEMMA NoTransfersStay == NoTransfers /\ [UNext]_uvars => NoTransfers'
<1> SUFFICES ASSUME NoTransfers, [UNext]_uvars
             PROVE  NoTransfers'
  OBVIOUS
<1>1. phase = "done"
  BY DEF NoTransfers
<1>2. ~UNext
  <2>1. ~Goes
    BY <1>1 DEF Goes, Begin, Open, OpenSeize, Control, Finish, Deadline, Pipes, WritePipe, WriteIMU,
                Written, ReadPipe, ReadDone, Abort, Reap
  <2>2. QED
    BY <1>1, <2>1 DEF UNext, Take, Answer, Refuse, InterruptDone, ReapMissed, TimeIsOver
<1>3. UNCHANGED uvars
  BY <1>2
<1>4. QED
  BY <1>3 DEF uvars, NoTransfers, Idle

LEMMA NoSessionStays == NoSession /\ [SNext]_svars => NoSession'
<1> SUFFICES ASSUME NoSession, [SNext]_svars
             PROVE  NoSession'
  OBVIOUS
<1>1. place = "done"
  BY DEF NoSession
<1>2. ~SProgram
  BY <1>1 DEF SProgram, Prepare, SelfTest, Echoed, Silent, Next_Cell, OpenPort, SetBits, Flush, Outbound,
              WritePayload, SetDeadline, ReadData, Timeout, Check, Report
<1>3. ~SNext
  BY <1>1, <1>2 DEF SNext, Hangup, Arrive, TimePasses, Connected, Draining
<1>4. UNCHANGED svars
  BY <1>3
<1>5. QED
  BY <1>4 DEF svars, cellvars, NoSession

LEMMA NoExchangeStays == NoExchange /\ [BNext]_bvars => NoExchange'
<1> SUFFICES ASSUME NoExchange, [BNext]_bvars
             PROVE  NoExchange'
  OBVIOUS
<1>1. turn = "over"
  BY DEF NoExchange
<1>2. ~BNext
  BY <1>1 DEF BNext, Ask, Obey, Tell, Spell, Announce, Intrude, Hear
<1>3. UNCHANGED bvars
  BY <1>2
<1>4. QED
  BY <1>3 DEF bvars, NoExchange

LEMMA PartsStep == Parts /\ [Next]_vars => Parts'
<1> SUFFICES ASSUME Parts, [Next]_vars
             PROVE  Parts'
  OBVIOUS
<1>1. [ENext]_evars /\ [DNext]_dvars /\ [UNext]_uvars /\ [SNext]_svars /\ [BNext]_bvars
  BY DEF Next, vars
<1>2. EInv' \/ NoEnumeration'
  BY <1>1, StepOk, NoEnumerationStays DEF Parts
<1>3. DInv' \/ NoConfiguration'
  BY <1>1, DescriptorsStep, NoConfigurationStays DEF Parts
<1>4. UInv' \/ NoTransfers'
  BY <1>1, ProbeStep, NoTransfersStay DEF Parts
<1>5. (Reads /\ Ends /\ Cells /\ Fitting)' \/ NoSession'
  BY <1>1, ReadsStep, EndsStep, CellsStep, FittingStep, NoSessionStays DEF Parts
<1>6. BInv' \/ NoExchange'
  BY <1>1, ExchangeStep, NoExchangeStays DEF Parts
<1>7. QED
  BY <1>2, <1>3, <1>4, <1>5, <1>6 DEF Parts

\* Nothing is what nothing has been done with.
LEMMA NothingToEnumerate ==
    NoEnumeration => ETypeOK /\ ListIsExact /\ NothingHeldBack /\ VetoIsRelated
<1>1. NoEnumeration => ETypeOK /\ ListIsExact /\ NothingHeldBack
  BY DEF NoEnumeration, ETypeOK, ListIsExact, NothingHeldBack, Handed
<1>2. NoEnumeration => VetoIsRelated
  BY DEF NoEnumeration, VetoIsRelated
<1>3. QED
  BY <1>1, <1>2

LEMMA NothingToParse == NoConfiguration => DTypeOK /\ WalkCovers /\ NothingDropped /\ CutIsNoticed
<1> SUFFICES ASSUME NoConfiguration
             PROVE  DTypeOK /\ WalkCovers /\ NothingDropped /\ CutIsNoticed
  OBVIOUS
<1>1. /\ meant = <<>> /\ block = <<>> /\ honest = FALSE /\ stage = "done" /\ off = 0 /\ raws = <<>>
      /\ k = 0 /\ c = NoConfig
  BY DEF NoConfiguration
<1>2. DTypeOK
  <2>1. block \in Seq(Byte) /\ raws \in Seq(Seq(Byte)) /\ Len(block) = 0 /\ Len(raws) = 0
    BY <1>1
  <2>2. off \in 0..Len(block) /\ k \in 0..Len(raws)
    BY <1>1, <2>1
  <2>3. c \in Config /\ honest \in BOOLEAN /\ stage = "done"
    BY <1>1, NoConfigIs
  <2>4. QED
    BY <2>1, <2>2, <2>3 DEF DTypeOK
<1>3. WalkCovers
  <2>1. SubSeq(block, 1, off) = <<>>
    BY <1>1
  <2>2. DOMAIN raws = {}
    BY <1>1
  <2>3. FlattenSeq(raws) = <<>>
    BY <1>1, FlattenEmpty
  <2>4. QED
    BY <2>1, <2>2, <2>3 DEF WalkCovers
<1>4. NothingDropped
  <2>1. EndpointsIn(c) = {} /\ {j \in DOMAIN raws : raws[j][2] = DescConfigurationDesc} = {}
    BY <1>1, NoConfigIs DEF EndpointsIn
  <2>2. Len(c.Interfaces) = 0 /\ Len(c.Associations) = 0 /\ c.Unknown = 0 /\ Len(raws) = 0
    BY <1>1 DEF NoConfig
  <2>3. Cardinality({}) = 0
    BY FS_EmptySet
  <2>4. QED
    BY <2>1, <2>2, <2>3 DEF NothingDropped
<1>5. CutIsNoticed
  BY <1>1 DEF CutIsNoticed
<1>6. QED
  BY <1>2, <1>3, <1>4, <1>5

LEMMA NothingToAsk == NoTransfers => UTypeOK /\ OnlyWhatWasAsked /\ VerdictsAreFounded
<1> SUFFICES ASSUME NoTransfers
             PROVE  UTypeOK /\ OnlyWhatWasAsked /\ VerdictsAreFounded
  OBVIOUS
<1>1. /\ o \in Options /\ phase = "done" /\ handle = "closed" /\ timed = TRUE /\ hits = 0
      /\ total = FALSE /\ expired = FALSE /\ said = {} /\ wire = NoTransfer
      /\ truth.came = {}
  BY CommandsAssumption DEF NoTransfers, Idle
<1>2. o.maxReq \in Nat
  BY <1>1, OptionsAre
<1>3. wire.in = "none" /\ wire.ms = 1
  BY <1>1 DEF NoTransfer
<1>4. wire.ms \in 1..Width - 1
  BY <1>3, WidthAssumption
<1>5. UTypeOK
  <2>1. hits \in 0..o.maxReq + 1
    BY <1>1, <1>2
  <2>2. QED
    BY <1>1, <1>4, <2>1 DEF UTypeOK
<1>6. OnlyWhatWasAsked
  BY <1>1, <1>3 DEF OnlyWhatWasAsked, OnEndpoint0, InRead
<1>7. VerdictsAreFounded
  BY <1>1 DEF VerdictsAreFounded
<1>8. QED
  BY <1>5, <1>6, <1>7

LEMMA NothingToRead == NoSession => STypeOK /\ SweepIsExact /\ OneAtATime /\ DrainLosesNothing
<1> SUFFICES ASSUME NoSession
             PROVE  STypeOK /\ SweepIsExact /\ OneAtATime /\ DrainLosesNothing
  OBVIOUS
<1>1. /\ cell = 0 /\ pty = {} /\ open = NoPort /\ raised = {} /\ unset = FALSE /\ error = FALSE
      /\ stream \in Echoes /\ arrived = 0 /\ gone = 0 /\ start = 0 /\ place = "done" /\ round = -1
      /\ buf = <<>> /\ late = FALSE /\ failed = FALSE
  BY CommandsAssumption DEF NoSession, ReadBack
<1>2. Len(stream.bytes) \in Nat
  BY <1>1, StreamsAssumption
<1>3. Room = 64
  BY <1>1 DEF Room, Unprompted
<1>4. STypeOK
  <2>1. arrived \in 0..Len(stream.bytes) /\ gone \in 0..arrived /\ start \in 0..gone
    BY <1>1, <1>2
  <2>2. round \in ReadBack..Reply /\ cell \in 0..Settings /\ Room >= 0
    BY <1>1, <1>3 DEF ReadBack, Reply, Settings
  <2>3. QED
    BY <1>1, <2>1, <2>2 DEF STypeOK
<1>5. SweepIsExact
  BY <1>1 DEF SweepIsExact, Draining
<1>6. OneAtATime
  BY <1>1 DEF OneAtATime, Draining
<1>7. DrainLosesNothing
  <2>1. SubSeq(stream.bytes, 1, 0) = <<>>
    BY SubSeqEmpty
  <2>2. QED
    BY <1>1, <2>1 DEF DrainLosesNothing
<1>8. QED
  BY <1>4, <1>5, <1>6, <1>7

LEMMA PartsArePromises ==
    Parts => /\ TypeOK
             /\ ListIsExact /\ NothingHeldBack /\ VetoIsRelated
             /\ WalkCovers /\ NothingDropped /\ CutIsNoticed
             /\ OnlyWhatWasAsked /\ VerdictsAreFounded
             /\ SweepIsExact /\ OneAtATime /\ DrainLosesNothing
             /\ ExchangeIsExact
<1> SUFFICES ASSUME Parts
             PROVE  /\ TypeOK
                    /\ ListIsExact /\ NothingHeldBack /\ VetoIsRelated
                    /\ WalkCovers /\ NothingDropped /\ CutIsNoticed
                    /\ OnlyWhatWasAsked /\ VerdictsAreFounded
                    /\ SweepIsExact /\ OneAtATime /\ DrainLosesNothing
                    /\ ExchangeIsExact
  OBVIOUS
<1>1. ETypeOK /\ ListIsExact /\ NothingHeldBack /\ VetoIsRelated
  <2>1. EInv => ETypeOK /\ NothingHeldBack
    BY DEF EInv, References, NothingHeldBack, Handed
  <2>2. QED
    BY <2>1, ListFollows, VetoFollows, NothingToEnumerate DEF Parts
<1>2. DTypeOK /\ WalkCovers /\ NothingDropped /\ CutIsNoticed
  <2>1. DInv => DTypeOK /\ WalkCovers
    BY DEF DInv
  <2>2. QED
    BY <2>1, CountFollows, CutFollows, NothingToParse DEF Parts
<1>3. UTypeOK /\ OnlyWhatWasAsked /\ VerdictsAreFounded
  BY ProbeInvariants, NothingToAsk DEF Parts
<1>4. STypeOK /\ SweepIsExact /\ OneAtATime /\ DrainLosesNothing
  <2>1. Reads => DrainLosesNothing
    BY DEF Reads, DrainLosesNothing
  <2>2. Ends => OneAtATime
    BY DEF Ends, OneAtATime, Draining, Connected, ReadBack, IdleRead, Unprompted, Reply
  <2>3. QED
    BY <2>1, <2>2, ProbeTypes, SweepFollows, NothingToRead DEF Parts
<1>5. ExchangeIsExact
  <2>1. BInv => ExchangeIsExact
    BY DEF BInv, Agrees, ExchangeIsExact
  <2>2. NoExchange => ExchangeIsExact
    BY DEF NoExchange, ExchangeIsExact
  <2>3. QED
    BY <2>1, <2>2 DEF Parts
<1>6. QED
  BY <1>1, <1>2, <1>3, <1>4, <1>5 DEF TypeOK

\* Type correctness of all three commands: no index leaves a block or a buffer, no
\* counter its range, no timeout its word, whatever the device sends and whatever fails.
THEOREM ProbesTypeCorrect == Spec => []TypeOK
BY PartsInit, PartsStep, PartsArePromises, PTL DEF Spec

\* Whichever command is run, on whatever machine: each part of the packages keeps in it
\* what it promises by itself.
THEOREM CommandsKeepPromises ==
    Spec => [](/\ ListIsExact /\ NothingHeldBack /\ VetoIsRelated
               /\ WalkCovers /\ NothingDropped /\ CutIsNoticed
               /\ OnlyWhatWasAsked /\ VerdictsAreFounded
               /\ SweepIsExact /\ OneAtATime /\ DrainLosesNothing
               /\ ExchangeIsExact)
BY PartsInit, PartsStep, PartsArePromises, PTL DEF Spec

\* Of serialprobe, and of the others, which listen to nothing: what is decoded are the
\* packets that lie in what was drained, under the hypothesis of DecodesExactly.
THEOREM CommandsDecodeExactly ==
    ASSUME PacketsAreKnown
    PROVE  Spec => []DecodeIsExact
<1> DEFINE Session == (Reads /\ Ends /\ Fitting /\ Reported) \/ NoSession
<1>1. Init => Session
  <2>1. Init => SInit \/ NoSession
    BY DEF Init, hidprobe, usbprobe, serialprobe, client
  <2>2. QED
    BY <2>1, ReadsInit, EndsInit, FittingInit, ReportedInit
<1>2. Session /\ [Next]_vars => Session'
  <2> SUFFICES ASSUME Session, [Next]_vars
               PROVE  Session'
    OBVIOUS
  <2>1. [SNext]_svars
    BY DEF Next, vars
  <2>2. CASE NoSession
    BY <2>1, <2>2, NoSessionStays
  <2>3. CASE Reads /\ Ends /\ Fitting /\ Reported
    BY <2>1, <2>3, ReadsStep, EndsStep, FittingStep, ReportedStep
  <2>4. QED
    BY <2>2, <2>3
<1>3. Session => DecodeIsExact
  <2>1. Reported => DecodeIsExact
    BY DEF Reported, DecodeIsExact, Between
  <2>2. NoSession => DecodeIsExact
    BY DEF NoSession, DecodeIsExact, ReadBack, Unprompted
  <2>3. QED
    BY <2>1, <2>2
<1>4. QED
  <2> HIDE DEF Session
  <2>1. QED
    BY <1>1, <1>2, <1>3, PTL DEF Spec
=============================================================================
