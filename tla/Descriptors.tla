---------------------------- MODULE Descriptors ----------------------------
(***************************************************************************)
(* A configuration descriptor block and its decoding (descriptor.go): the  *)
(* walk by bLength (Split) and the second walk that sorts what it found    *)
(* (ParseConfig), both one turn of the loop at a time.                     *)
(*                                                                         *)
(* External is the device: which descriptors it publishes, what the USB    *)
(* specification has their bytes be, and what becomes of the block, which  *)
(* may be cut short or lie about one of its lengths.                       *)
(***************************************************************************)
EXTENDS Integers, Sequences, SequencesExt, FiniteSets

CONSTANT Published   \* the lists of descriptors that devices publish

VARIABLES
    meant,   \* the descriptors behind the block
    block,   \* the bytes handed to ParseConfig
    honest,  \* every bLength in them is what the device meant
    stage,   \* start, split, walk, and at the end done or bad
    off,     \* i of Split
    raws,    \* out of Split: the bytes of each descriptor
    k,       \* descriptors ParseConfig has sorted
    c        \* the Config

dvars == <<meant, block, honest, stage, off, raws, k, c>>

DescConfigurationDesc    == 2
DescInterface            == 4
DescEndpoint             == 5
DescInterfaceAssociation == 11

minConfigDesc      == 9
minInterfaceDesc   == 9
minEndpointDesc    == 7
minAssociationDesc == 8
-----------------------------------------------------------------------------
\* A descriptor is one of those ParseConfig interprets, or other bytes that are
\* as long as the first of them says and none of these.
Byte        == 0..255
PacketSizes == {low + 256 * high : low, high \in Byte}

InterfaceFields == [Number : Byte, Alternate : Byte, Class : Byte, SubClass : Byte, Protocol : Byte]
EndpointFields ==
    [Address : Byte, Attributes : Byte, MaxPacketSize : PacketSizes, Interval : Byte]
AssociationFields ==
    [FirstInterface : Byte, InterfaceCount : Byte, Class : Byte, SubClass : Byte, Protocol : Byte]
OtherBytes ==
    {b \in Seq(Byte) :
        /\ Len(b) >= 2 /\ b[1] = Len(b) /\ b[2] # DescConfigurationDesc
        /\ b[2] = DescInterface => Len(b) < minInterfaceDesc
        /\ b[2] = DescEndpoint => Len(b) < minEndpointDesc
        /\ b[2] = DescInterfaceAssociation => Len(b) < minAssociationDesc}

Descriptor ==
    [kind : {"configuration"}, is : [Value : Byte, Attributes : Byte, MaxPower : Byte]]
    \cup [kind : {"interface"}, is : InterfaceFields]
    \cup [kind : {"endpoint"}, is : EndpointFields]
    \cup [kind : {"association"}, is : AssociationFields]
    \cup [kind : {"other"}, is : OtherBytes]

\* The first is the configuration's own, by which a device answers the request.
ASSUME PublishedAssumption ==
    \A ds \in Published : ds \in Seq(Descriptor) /\ ds # <<>> /\ ds[1].kind = "configuration"

\* What a descriptor looks like on the wire. One that ParseConfig does not
\* interpret is given by its bytes.
Bytes(d) ==
    LET is == d.is
    IN  CASE d.kind = "configuration" ->
               <<9, 2, 0, 0, 1, is.Value, 0, is.Attributes, is.MaxPower>>
          [] d.kind = "interface" ->
               <<9, 4, is.Number, is.Alternate, 0, is.Class, is.SubClass, is.Protocol, 0>>
          [] d.kind = "endpoint" ->
               <<7, 5, is.Address, is.Attributes,
                 is.MaxPacketSize % 256, is.MaxPacketSize \div 256, is.Interval>>
          [] d.kind = "association" ->
               <<8, 11, is.FirstInterface, is.InterfaceCount,
                 is.Class, is.SubClass, is.Protocol, 0>>
          [] d.kind = "other" -> is

Wire(ds) == FlattenSeq([j \in DOMAIN ds |-> Bytes(ds[j])])

NoConfig ==
    [Value |-> 0, Attributes |-> 0, MaxPower |-> 0,
     Associations |-> <<>>, Interfaces |-> <<>>, Unknown |-> 0]

\* The blocks a list of descriptors can arrive as: whole, cut short, or with
\* another number in place of a bLength.
Cuts(ds) == {SubSeq(Wire(ds), 1, n) : n \in 0..Len(Wire(ds))}
Starts(ds) == {Len(Wire(SubSeq(ds, 1, j))) + 1 : j \in 0..(Len(ds) - 1)}
Lies(ds) ==
    {[Wire(ds) EXCEPT ![p] = n] : p \in Starts(ds), n \in {0, 1, 3, 10, 255}}

\* A device publishes ds, and the block that arrives is b.
Arrives(ds, b) ==
    /\ meant = ds /\ block = b /\ honest = (b \in Cuts(ds))
    /\ stage = "start" /\ off = 0 /\ raws = <<>> /\ k = 0 /\ c = NoConfig

DInit == \E ds \in Published : \E b \in Cuts(ds) \cup Lies(ds) : Arrives(ds, b)

\* The byte at offset j, from zero as in the code.
At(j) == block[j + 1]

\* ParseConfig: a block too short for its own header is refused unread.
Header ==
    /\ stage = "start"
    /\ IF Len(block) < minConfigDesc
       THEN stage' = "bad" /\ c' = c
       ELSE /\ stage' = "split"
            /\ c' = [c EXCEPT !.Value = At(5), !.Attributes = At(7), !.MaxPower = At(8)]
    /\ UNCHANGED <<meant, block, honest, off, raws, k>>

\* A descriptor begins at off and lies inside the block.
Whole == Len(block) - off >= 2 /\ At(off) >= 2 /\ off + At(off) <= Len(block)

\* Bug: the offset is moved by what follows the header.
Split_SkipsBody ==
    /\ stage = "split" /\ off < Len(block)
    /\ IF Whole
       THEN /\ raws' = Append(raws, SubSeq(block, off + 1, off + At(off)))
            /\ off' = off + 2
            /\ stage' = stage
       ELSE stage' = "bad" /\ UNCHANGED <<off, raws>>
    /\ UNCHANGED <<meant, block, honest, k, c>>

\* Bug: a descriptor that sticks out of the block is cut to fit.
Split_Clamps ==
    /\ stage = "split" /\ off < Len(block)
    /\ IF Len(block) - off >= 2 /\ At(off) >= 2
       THEN /\ raws' = Append(raws, SubSeq(block, off + 1,
                          IF off + At(off) > Len(block) THEN Len(block) ELSE off + At(off)))
            /\ off' = off + At(off)
            /\ stage' = stage
       ELSE stage' = "bad" /\ UNCHANGED <<off, raws>>
    /\ UNCHANGED <<meant, block, honest, k, c>>

\* One turn of Split's loop.
Split ==
    /\ stage = "split" /\ off < Len(block)
    /\ IF Whole
       THEN /\ raws' = Append(raws, SubSeq(block, off + 1, off + At(off)))
            /\ off' = off + At(off)
            /\ stage' = stage
       ELSE stage' = "bad" /\ UNCHANGED <<off, raws>>
    /\ UNCHANGED <<meant, block, honest, k, c>>

SplitReturns ==
    /\ stage = "split" /\ off >= Len(block)
    /\ stage' = "walk"
    /\ UNCHANGED <<meant, block, honest, off, raws, k, c>>

IsA(r, type, min) == r[2] = type /\ Len(r) >= min

AsInterface(r) ==
    [Number |-> r[3], Alternate |-> r[4], Class |-> r[6], SubClass |-> r[7],
     Protocol |-> r[8], Endpoints |-> <<>>]

AsEndpoint(r) ==
    [Address |-> r[3], Attributes |-> r[4],
     MaxPacketSize |-> r[5] + 256 * r[6], Interval |-> r[7]]

AsAssociation(r) ==
    [FirstInterface |-> r[3], InterfaceCount |-> r[4], Class |-> r[5],
     SubClass |-> r[6], Protocol |-> r[7]]

\* Bug: an endpoint before any interface is dropped.
Attach_Drops(r, cfg) ==
    IF cfg.Interfaces = <<>>
    THEN cfg
    ELSE [cfg EXCEPT !.Interfaces[Len(cfg.Interfaces)].Endpoints = Append(@, AsEndpoint(r))]

\* Bug: endpoints go to the interface the block began with.
Attach_First(r, cfg) ==
    IF cfg.Interfaces = <<>>
    THEN [cfg EXCEPT !.Unknown = @ + 1]
    ELSE [cfg EXCEPT !.Interfaces[1].Endpoints = Append(@, AsEndpoint(r))]

\* An endpoint belongs to the interface seen last; with none it is counted.
Attach(r, cfg) ==
    IF cfg.Interfaces = <<>>
    THEN [cfg EXCEPT !.Unknown = @ + 1]
    ELSE [cfg EXCEPT !.Interfaces[Len(cfg.Interfaces)].Endpoints = Append(@, AsEndpoint(r))]

Sorted(r, cfg) ==
    CASE r[2] = DescConfigurationDesc -> cfg
      [] IsA(r, DescInterface, minInterfaceDesc) ->
           [cfg EXCEPT !.Interfaces = Append(@, AsInterface(r))]
      [] IsA(r, DescEndpoint, minEndpointDesc) -> Attach(r, cfg)
      [] IsA(r, DescInterfaceAssociation, minAssociationDesc) ->
           [cfg EXCEPT !.Associations = Append(@, AsAssociation(r))]
      [] OTHER -> [cfg EXCEPT !.Unknown = @ + 1]

\* One turn of ParseConfig's loop.
Sort ==
    /\ stage = "walk" /\ k < Len(raws)
    /\ k' = k + 1
    /\ c' = Sorted(raws[k + 1], c)
    /\ UNCHANGED <<meant, block, honest, stage, off, raws>>

ParseReturns ==
    /\ stage = "walk" /\ k = Len(raws)
    /\ stage' = "done"
    /\ UNCHANGED <<meant, block, honest, off, raws, k, c>>

DNext == Header \/ Split \/ SplitReturns \/ Sort \/ ParseReturns
-----------------------------------------------------------------------------
Interface ==
    [Number : Byte, Alternate : Byte, Class : Byte, SubClass : Byte, Protocol : Byte,
     Endpoints : Seq(EndpointFields)]
Config ==
    [Value : Byte, Attributes : Byte, MaxPower : Byte, Associations : Seq(AssociationFields),
     Interfaces : Seq(Interface), Unknown : Nat]

DTypeOK ==
    /\ stage \in {"start", "split", "walk", "done", "bad"}
    /\ block \in Seq(Byte) /\ off \in 0..Len(block)
    /\ raws \in Seq(Seq(Byte)) /\ k \in 0..Len(raws)
    /\ honest \in BOOLEAN /\ c \in Config

\* "Walking by bLength": what has been split off is the block up to off, without
\* a gap and without an overlap, and every piece is as long as it says.
WalkCovers ==
    /\ FlattenSeq(raws) = SubSeq(block, 1, off)
    /\ \A j \in DOMAIN raws : raws[j][1] = Len(raws[j])

\* Every descriptor that a Config has an endpoint for: its interface and its place.
EndpointsIn(cfg) ==
    UNION {{i} \X DOMAIN cfg.Interfaces[i].Endpoints : i \in DOMAIN cfg.Interfaces}

\* "Count it rather than drop it silently": whatever the block, every descriptor
\* in it ends up in one place of the Config, or is a configuration header.
NothingDropped ==
    stage = "done" =>
        Len(raws) = Cardinality({j \in DOMAIN raws : raws[j][2] = DescConfigurationDesc})
                    + Len(c.Interfaces) + Len(c.Associations) + c.Unknown
                    + Cardinality(EndpointsIn(c))

\* The reference: what a Config says of the first n descriptors of ds, each found by
\* counting those like it. An endpoint is that of the interface counted last.
Kind(ds, kind) == {j \in DOMAIN ds : ds[j].kind = kind}
Rank(S, j)     == Cardinality(S \cap 1..j)
InterfaceAt(ds, j)  == Rank(Kind(ds, "interface"), j)
EndpointsOf(ds, i)  == {j \in Kind(ds, "endpoint") : InterfaceAt(ds, j) = i}
Uninterpreted(ds)   == Kind(ds, "other") \cup EndpointsOf(ds, 0)

SaysHeader(ds, cfg) ==
    \A f \in {"Value", "Attributes", "MaxPower"} : cfg[f] = ds[1].is[f]

SaysAssociations(ds, n, cfg) ==
    /\ Len(cfg.Associations) = Rank(Kind(ds, "association"), n)
    /\ \A j \in Kind(ds, "association") \cap 1..n :
          cfg.Associations[Rank(Kind(ds, "association"), j)] = ds[j].is

SaysInterfaces(ds, n, cfg) ==
    /\ Len(cfg.Interfaces) = InterfaceAt(ds, n)
    /\ \A j \in Kind(ds, "interface") \cap 1..n : \A f \in DOMAIN ds[j].is :
          cfg.Interfaces[InterfaceAt(ds, j)][f] = ds[j].is[f]

SaysEndpoints(ds, n, cfg) ==
    /\ \A i \in DOMAIN cfg.Interfaces :
          Len(cfg.Interfaces[i].Endpoints) = Rank(EndpointsOf(ds, i), n)
    /\ \A i \in DOMAIN cfg.Interfaces : \A j \in EndpointsOf(ds, i) \cap 1..n :
          cfg.Interfaces[i].Endpoints[Rank(EndpointsOf(ds, i), j)] = ds[j].is

Describes(ds, n, cfg) ==
    /\ SaysHeader(ds, cfg)
    /\ SaysAssociations(ds, n, cfg)
    /\ SaysInterfaces(ds, n, cfg)
    /\ SaysEndpoints(ds, n, cfg)
    /\ cfg.Unknown = Rank(Uninterpreted(ds), n)

\* A block cut between two descriptors decodes to what those before the cut
\* describe, and one cut inside a descriptor is refused.
CutIsNoticed ==
    LET Before == {n \in 1..Len(meant) : Wire(SubSeq(meant, 1, n)) = block}
    IN  honest =>
          /\ stage = "done" => \E n \in Before : Describes(meant, n, c)
          /\ stage = "bad"  => Before = {}
=============================================================================
