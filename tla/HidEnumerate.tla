---------------------------- MODULE HidEnumerate ----------------------------
(***************************************************************************)
(* One enumeration of HID devices, hid.Devices over darwinEnumerate and    *)
(* matchingDict, and what hidprobe does with the devices it is handed:     *)
(* open those that it may, stream from them, close them all. Any call into *)
(* CoreFoundation or IOKit may fail. What a Stream does is HidStream's.    *)
(*                                                                         *)
(* External are the registry and the HID manager, which opens all of the   *)
(* devices it matches or none.                                             *)
(***************************************************************************)
EXTENDS Integers, Sequences

CONSTANTS
    Filters,    \* the filters callers ask with
    Machines    \* the sets of devices that machines have

Keys == {"VendorID", "ProductID", "UsagePage", "Usage"}
Identifiers == 0..65535

\* A device publishes a property as a number, as one that 32 bits do not hold, as a
\* text, or not at all; its identifiers have sixteen bits. It is permitted if this
\* process may open it.
ASSUME DevicesAssumption ==
    \A M \in Machines : \A d \in M :
        /\ \A key \in Keys : d.published[key] \in {"number", "wide", "text", "none"} \X Identifiers
        /\ d.permitted \in BOOLEAN

ASSUME FiltersAssumption ==
    Filters \subseteq [VendorID : Nat, UsagePage : Nat, Usage : Nat, ProductIDs : Seq(Nat)]

VARIABLES
    filter,    \* what the caller asks for
    attached,  \* the devices of the machine
    step,      \* where the enumeration is
    dict,      \* the keys of the matching dictionary: none of them matches all
    refs,      \* the devices of the set the manager hands over
    retained,  \* those of them the package holds a reference of its own on
    held,      \* manager, dictionary and set, while they are not released
    listed,    \* the devices in the caller's list
    kept,      \* those it has not closed yet
    opened,    \* those that it has open
    refused    \* the manager was not opened because of a device

evars == <<filter, attached, step, dict, refs, retained, held, listed, kept, opened, refused>>

EInit ==
    /\ filter \in Filters
    /\ attached \in Machines
    /\ step = "load"
    /\ dict = {} /\ refs = {} /\ retained = {} /\ held = {}
    /\ listed = {} /\ kept = {} /\ opened = {} /\ refused = FALSE

\* "Present AND actually a number": neither another type nor a number that would
\* have to be truncated.
propInt(property) == IF property[1] = "number" THEN property[2] ELSE 0

\* What darwinEnumerate says of a device; what is absent is zero.
Info(d) == [key \in Keys |-> propInt(d.published[key]) % 65536]

\* Filter.Match, of an Info.
Match(f, info) ==
    /\ f.VendorID # 0 => info.VendorID = f.VendorID
    /\ f.UsagePage # 0 => info.UsagePage = f.UsagePage
    /\ f.Usage # 0 => info.Usage = f.Usage
    /\ f.ProductIDs # <<>> => \E i \in DOMAIN f.ProductIDs : info.ProductID = f.ProductIDs[i]

\* Bug: the first of several products stands for them all.
Value_First(f, key) ==
    IF key = "ProductID"
    THEN IF f.ProductIDs # <<>> THEN f.ProductIDs[1] ELSE 0
    ELSE f[key]

\* The value matchingDict gives a key; zero is not set. Of several products none
\* is, because a dictionary holds one value per key.
Value(f, key) ==
    IF key = "ProductID"
    THEN IF Len(f.ProductIDs) = 1 THEN f.ProductIDs[1] ELSE 0
    ELSE f[key]

\* Bug: the manager is asked for every device and the narrowing is left to Go.
Narrowing_Everything(f) == {}

Narrowing(f) == {key \in Keys : Value(f, key) # 0}

\* The dictionary's values are numbers, and the registry compares types too.
Matched == {d \in attached : \A key \in dict : d.published[key] = <<"number", Value(filter, key)>>}

\* darwinEnumerate returns without devices: its deferred releases run.
GiveUp == step' = "done" /\ held' = {}

Load ==
    /\ step = "load"
    /\ \/ step' = "manager" /\ held' = held
       \/ GiveUp
    /\ UNCHANGED <<filter, attached, dict, refs, retained, listed, kept, opened, refused>>

CreateManager ==
    /\ step = "manager"
    /\ \/ step' = "match" /\ held' = {"manager"}
       \/ GiveUp
    /\ UNCHANGED <<filter, attached, dict, refs, retained, listed, kept, opened, refused>>

\* matchingDict, and SetDeviceMatching. There is no dictionary if the callbacks
\* are missing, if there is nothing to narrow by or if it cannot be created; a
\* key whose number cannot be created is left out, and so is a product of zero.
SetMatching ==
    /\ step = "match"
    /\ \/ /\ filter.VendorID # 0 \/ filter.UsagePage # 0 \/ filter.Usage # 0 \/ Len(filter.ProductIDs) = 1
          /\ \E some \in SUBSET Narrowing(filter) : dict' = some
          /\ held' = held \cup {"dictionary"}
       \/ dict' = {} /\ held' = held
    /\ step' = "open"
    /\ UNCHANGED <<filter, attached, refs, retained, listed, kept, opened, refused>>

\* IOHIDManagerOpen is all or nothing over the matched set.
OpenManager ==
    /\ step = "open"
    /\ \/ (\A d \in Matched : d.permitted) /\ step' = "copy" /\ UNCHANGED <<held, refused>>
       \/ (\E d \in Matched : ~d.permitted) /\ GiveUp /\ refused' = TRUE
       \/ GiveUp /\ UNCHANGED refused
    /\ UNCHANGED <<filter, attached, dict, refs, retained, listed, kept, opened>>

\* "No devices is not an error": Devices has nothing to sift.
CopyDevices ==
    /\ step = "copy"
    /\ \/ /\ Matched = {}
          /\ held' = {}
          /\ step' = "sift"
          /\ UNCHANGED refs
       \/ /\ Matched # {}
          /\ refs' = Matched
          /\ held' = held \cup {"set"}
          /\ step' = "retain"
    /\ UNCHANGED <<filter, attached, dict, retained, listed, kept, opened, refused>>

\* The loop that reads the properties and retains; then the set, which held the
\* devices until now, is released with the rest.
Retain ==
    /\ step = "retain"
    /\ IF retained = refs
       THEN /\ step' = "sift" /\ held' = {}
            /\ UNCHANGED retained
       ELSE /\ \E d \in refs \ retained : retained' = retained \cup {d}
            /\ UNCHANGED <<step, held>>
    /\ UNCHANGED <<filter, attached, dict, refs, listed, kept, opened, refused>>

\* Bug: what the filter does not want is skipped.
Sift_Forgets ==
    /\ step = "sift"
    /\ IF refs = {}
       THEN step' = "use" /\ UNCHANGED <<refs, retained, listed, kept>>
       ELSE \E d \in refs :
              /\ refs' = refs \ {d}
              /\ listed' = IF Match(filter, Info(d)) THEN listed \cup {d} ELSE listed
              /\ kept' = IF Match(filter, Info(d)) THEN kept \cup {d} ELSE kept
              /\ UNCHANGED <<step, retained>>
    /\ UNCHANGED <<filter, attached, dict, held, opened, refused>>

\* Devices: the filter once more; what it does not want is given back.
Sift ==
    /\ step = "sift"
    /\ IF refs = {}
       THEN step' = "use" /\ UNCHANGED <<refs, retained, listed, kept>>
       ELSE \E d \in refs :
              /\ refs' = refs \ {d}
              /\ IF Match(filter, Info(d))
                 THEN listed' = listed \cup {d} /\ kept' = kept \cup {d} /\ UNCHANGED retained
                 ELSE retained' = retained \ {d} /\ UNCHANGED <<listed, kept>>
              /\ UNCHANGED step
    /\ UNCHANGED <<filter, attached, dict, held, opened, refused>>

\* With -stream, the loop over the devices; one that cannot be opened is skipped.
OpenListed ==
    /\ step = "use"
    /\ \E some \in SUBSET listed : opened' = some
    /\ step' = IF opened' = {} THEN "close" ELSE "stream"
    /\ UNCHANGED <<filter, attached, dict, refs, retained, held, listed, kept, refused>>

\* Stream returns: its time is over, or it failed.
StreamReturns ==
    /\ step = "stream"
    /\ step' = "close"
    /\ UNCHANGED <<filter, attached, dict, refs, retained, held, listed, kept, opened, refused>>

\* The deferred loop closes what was handed over, open or not.
CloseOne ==
    /\ step = "close"
    /\ IF kept = {}
       THEN step' = "done" /\ UNCHANGED <<kept, opened, retained>>
       ELSE /\ \E d \in kept :
                 kept' = kept \ {d} /\ opened' = opened \ {d} /\ retained' = retained \ {d}
            /\ UNCHANGED step
    /\ UNCHANGED <<filter, attached, dict, refs, held, listed, refused>>

ENext ==
    \/ Load \/ CreateManager \/ SetMatching \/ OpenManager \/ CopyDevices \/ Retain \/ Sift
    \/ OpenListed \/ StreamReturns \/ CloseOne

ESpec == EInit /\ [][ENext]_evars
-----------------------------------------------------------------------------
ETypeOK ==
    /\ step \in {"load", "manager", "match", "open", "copy", "retain", "sift", "use", "stream", "close", "done"}
    /\ dict \subseteq Keys
    /\ refs \subseteq attached /\ retained \subseteq attached
    /\ listed \subseteq attached /\ kept \subseteq listed
    /\ held \subseteq {"manager", "dictionary", "set"}

\* The caller has its list.
Handed == {"use", "stream", "close"}

\* "Narrowing at all is the point", but only narrowing: a list that is handed
\* over has every device that passes the filter, however much of the dictionary
\* was built, and no other.
ListIsExact == step \in Handed => listed = {d \in attached : Match(filter, Info(d))}

\* An enumeration that is over, on whatever path, holds references to the devices
\* the caller has and has not closed, and to nothing else; none is left open without
\* one; and a program that has come to its end has neither.
NothingHeldBack ==
    /\ step \in Handed \cup {"done"} => retained = kept /\ held = {}
    /\ opened \subseteq kept
    /\ step = "done" => kept = {}

\* "Matching narrowly asks macOS for the devices the caller actually wants, so an
\* unrelated one cannot veto them": when the dictionary could be built, an
\* enumeration is refused over a device only if one it asked for is not permitted. A
\* dictionary has no key for several products, and none for a product that is zero:
\* with such a filter, one of another product can veto it.
VetoIsRelated ==
    refused /\ dict = Narrowing(filter) =>
        \E d \in attached :
            ~d.permitted /\ Match([filter EXCEPT !.ProductIDs =
                                       IF Len(@) > 1 \/ @ = <<0>> THEN <<>> ELSE @], Info(d))
=============================================================================
