# go-macos/iokit in TLA+

A verification project for the Go module `go-macos/iokit`: pure-Go access to
macOS IOKit (HID devices, USB devices and interfaces, serial ports). The modules
here are translated from the code under `src/`; TLC checks them on small
instances and TLAPS proves the safety properties for every value of the
constants.

## The system

| Component | State it keeps | Operations | Status |
|---|---|---|---|
| `hid` devices and streams (`hid.go`, `hid_darwin.go`) | per `Device`: `open`, `ref`, the atomic `streaming` counter; one process-wide `registry` from sender to target; in IOKit a callback slot and the run loops a device is scheduled on | `Open`, `Close`, `Stream` (→ `darwinStream`, `inputCallback`) | modelled |
| `hid` enumeration | per call: manager, dictionary, set, one reference per device handed over | `Devices`, `Filter.Match`, `matchingDict`, `darwinEnumerate` | modelled, except `SetReport` |
| `usb` devices and interfaces (`usb.go`, `iface.go` and their darwin halves) | per handle: token, `opened`, `seized`; the token `registry` of native records (service reference, plug-in interface, its version) | `Devices`, `Interfaces`, `Open`, `OpenSeize`, `Control`, `Pipes`, `Write`, `ConfigDescriptor`, `Close` | modelled |
| `usb` pipe reads (`iface_darwin.go`) | per call: a worker goroutine, a channel of one, a timer, C memory | `Read` (→ `darwinReadPipe`, `darwinReadInterrupt`) | modelled |
| `usb` descriptors (`descriptor.go`) | none | `Split`, `ParseConfig` | modelled |
| `usb` requests (`cdc.go`, the setup packets of `usb.go`) | none | `LineCoding` both ways, the request builders, the deadlines | modelled |
| `serial` line settings (`termios.go`) | none | `Validate`, `Config.Termios`, `ConfigOf` | modelled |
| `serial` port (`serial.go`, `serial_darwin.go`) | `Port`: `f`, `cfg`; in the kernel a termios, the modem lines, the descriptor | `Open`, `Configure`, `SetLines`, the getters, `Read`, `Write`, `Flush`, `Close` | modelled |
| `serial` `Drain` | per call: a buffer and a deadline | `Drain` | modelled |
| `serial` `Loopback` | per call: the descriptors of a pseudo-terminal | `darwinLoopback` with its requests | modelled |
| `serial` `List`, `BaseName` | none | | `BaseName` |
| `viture` packets (`viture.go`) | none | `CRC16`, `Packet`, `EnableIMU`, `Valid`, `ParseIMU` | modelled |
| `viture` Beast frames (`beast.go`) | none | `command` and its callers, `ParseEvent`, `textOf` | modelled, except two tables of modes |
| `ioreturn` | a table of names | `Name`, `Describe` | not modelled |
| `cmd/serialprobe` | none between calls | the loopback control, a session, the sweep, `decode` | modelled |
| `cmd/usbprobe` | the handle it has open, the requests it has left | decoding a configuration; the check, the sweep behind its canary, the CDC and IMU attempts; an interface's pipes | modelled |
| `cmd/hidprobe` | none | enumerating, opening, one `Stream`, closing | modelled, except counting and printing |

The packages `hid`, `usb` and `serial` do not call one another; each is a
portable half over seams (package variables) that a darwin file fills with
IOKit or system calls. On other platforms every seam returns `ErrUnsupported`.
What the components share is inside a package: goroutines share a `Device`, the
registry, a pipe or a `Port`, and IOKit calls back into `hid` from the run loop
of the thread that scheduled the device. `usb.InterfaceHandle.Read` runs on a
handle of `UsbHandles` and has a module of its own. The packages meet only in the probe
commands: `serialprobe` looks with `viture` for packets in what `serial.Drain`
brought, and `usbprobe` sends them through a pipe of `usb` and in vendor requests,
and decodes what a handle of `usb` returned.

### What is hard, and what makes each component correct

* **hid.** Closing a device while a stream has it scheduled kills the process.
  `Close` therefore looks at a counter that `Stream` maintains: two
  check-then-act pairs on two variables, in different goroutines, with no lock.
  A stream frees C memory IOKit writes into, and the registry is one map for
  all streams. Correct means: IOKit never holds a closed device or freed memory,
  the counter is exact whatever fails, reports go to the stream they belong to,
  and a cancelled stream ends.
* **usb handles.** Every service an iterator yields is a reference somebody must
  give back exactly once, whether the filter wanted it or not and whether attach,
  open or close failed. A stale token must be refused, a seized handle must have
  the entry it was seized through, and a silent device must not hold its caller.
* **usb reads.** An interrupt pipe has no read with a timeout. The code makes one
  from a goroutine, a timer, `AbortPipe` and a reap. Correct means: the memory
  outlives the goroutine, the abort stays private, data is never invented, and
  the call returns.
* **serial.** A driver may refuse a request or apply part of it in silence;
  `Configure` writes, falls back, insists and reads back. Correct means: what is
  recorded is what the kernel holds, an honest driver gives exactly what was
  asked for, foreign flags survive, and the descriptor is neither used after
  close nor leaked.
* **hid enumeration.** The manager opens every device it matches or none, so the
  dictionary has to narrow, but only narrow: the filter says the same thing a
  second time in Go. Correct means: the list is exactly what the filter asks for,
  however much of the dictionary could be built; a device nobody asked for does
  not veto it; nothing is held that the caller was not given.
* **descriptors.** Blocks come from devices: cut short, with lengths that lie,
  descriptors in any order. Correct means: the walk ends, covers the block
  without gap or overlap, loses no descriptor, and gives each endpoint to its
  interface.
* **a session with glasses.** Bytes arrive when the device likes, in pieces, with
  noise and damage; a deadline may pass between any two reads. Correct means:
  nothing that was read is lost, exactly the packets that are there are found,
  a silent device does not hold the program, and each of sixteen openings in a row
  is the configuration that it is reported as.
* **a device that is asked questions.** It answers, stalls, is mute, goes away, or
  answers half; memory holds what was there before. Correct means: nothing is
  written or opened that the options did not ask for, and everything that is
  concluded is founded on what went over the wire.
* **Beast frames.** The same number goes over the wire in two orders, a length
  field counts what it likes, other protocols share the interface. Correct means:
  a headset does what it was asked or says that it does not, and an event says
  what the headset meant.

## Modules

| Module | Models | Notes |
|---|---|---|
| `HidOwnership` | what `hid` promises: a device is held by streams and not closed from under a holder | abstract specification |
| `HidStream` | `Device.Open`, `Device.Close`, `Stream`, `darwinStream`, `inputCallback` | one step per access to shared state |
| `TimedRead` | what `usb` promises of a read: one answer, with data the device sent for it, an error, or a timeout | abstract specification |
| `PipeRead` | `InterfaceHandle.Read` and the two ways it reads | implements `TimedRead` |
| `HandleRegistry` | what `usb` promises of its handles: a record has one holder, is lent to one call at a time, given back once, and never named again | abstract specification |
| `UsbHandles` | enumeration, registry, attach, open, use and close of USB handles | devices and interfaces in one module (`IsIface`); implements `HandleRegistry` |
| `Termios` | `Config.Validate`, `Config.Termios`, `ConfigOf` | pure operators; a flag word is a set |
| `SerialPort` | `Open`, `Configure`, `SetLines`, `Close` and the calls that borrow the descriptor | extends `Termios` |
| `HidEnumerate` | one enumeration, and what `hidprobe` does with its list: open, stream, close | the registry and the manager are external |
| `Descriptors` | `Split` and `ParseConfig` over bytes, a turn of the loop at a time | with a reference definition, `Describes` |
| `Viture` | `CRC16`, `Packet`, `EnableIMU`, `Valid`, `ParseIMU` | pure functions; a word is the set of its bits |
| `UsbRequests` | setup packets, the seven bytes of a line coding, `ControlMS`, `timeoutMS` | pure operators |
| `UsbProbe` | `report` and `ifaceReport` of `usbprobe`, with the transfers they make | extends `UsbRequests`, `Viture` |
| `SerialProbe` | `serialprobe`: `selftest` over `Loopback`, `once`, `sweep`, over `Flush`, `Drain` and `decode` | extends `Viture` |
| `Beast` | an exchange of a client with a headset: `command`, `ParseEvent`, `textOf` | extends `Viture`; the headset is external |
| `Probes` | the three commands and a client of `viture`, each a process that goes through its packages once | extends the modules above from `HidEnumerate` on |
| `MCSerialPort`, `MCProbes` | the instances of `SerialPort` and `Probes` for TLC | the other instances are plain model values in the `.cfg` files |
| `*Proofs` | theorems | `HidStreamProofs`, `PipeReadProofs`, `UsbHandlesProofs`, `SerialPortProofs` (of `Termios`, too), `DescriptorsProofs`, `WireProofs` (of `Beast`, `UsbRequests` and `SerialProbe`), `UsbProbeProofs`, `ProbesProofs` (of `HidEnumerate`, and of `Probes` from all of these) |

A definition whose name has a suffix after an underscore (`CloseCheck_Blind`) and
a comment starting with "Bug:" is a plausible mistake in the operator it
precedes. No specification uses it; it is there to show that a property notices.

### How state and actions correspond to the code

**HidStream.** `open`, `retained` (`d.ref` not yet released) and `streaming` are
the fields of `Device`; `closing` is the owner's position in `Close`. `cb`,
`sched` and `buf` are IOKit's callback slot, its run-loop schedule and the
allocator. A `Stream` call is `pc`, `devs` and the loop index `k`:
`Validate` and `Claim` are one turn of the loops of `Stream`; `Install` and
`Schedule` set up `darwinStream`; `CheckContext`, `PumpReturns`, `Callback` and
the handler are the pump; `Detach`, `Unschedule`, `Free`, `Forget` and `Unclaim`
are the deferred functions in the order Go runs them, after a return and after a
panic alike. A list may name a device twice. `load()` cannot fail here, because
it succeeded when the device was enumerated.

**UsbHandles.** A token is an index into the functions `service`, `dev`,
`hasTO`, `refs`; `reg` is the domain of the map. `Drain` is `registryAdd`,
`Reject` and `Keep` are the two branches of `Devices` and `Interfaces`, `Attach`
chooses a version of the plug-in interface, `OpenNative`/`OpenFails` are
`darwinOpen`, `Drop` and `FreeNative` the two halves of `darwinRelease` (the map
under its lock, then the calls to IOKit). `owner` is IOKit's: who has a service
open, changed from outside by `Displace`. The filter is a choice on each device. In `HandleRegistry` the tokens below `next`
are `issued`, those with a reference are `alive`, `Owners(t)` hold t, and a call
between its beginning and its return has borrowed the record (`Lent`). Attaching,
the map, opening and taking a record apart are stutters; leaving it out of the map
before its references are released is therefore the code's way, not a promise.

**PipeRead.** `caller` and `worker` are the two goroutines of
`darwinReadInterrupt`, `done` its channel, `fired` its timer, `bufs` the C blocks
its deferred frees release. `Complete` is the device; `Abort` ends the reads in
flight on the pipe and only those. In `TimedRead` a reader is `asking` from the call
to its return, `sent` is `arrived` (the worker's read or the timed read of a bulk
pipe came back with data) and `answer` is `result`; the goroutine, its channel, the
timer and the abort are stutters.

**Termios, SerialPort.** A flag word is the set of its flags; CSIZE is two of
them. `at` is the line a goroutine has reached: `get`, `set`, `keep`, `insist`,
`speed`, `readback`, `store` are the kernel calls of `Configure`, in order.
`os.File` is external: it counts the calls that hold the descriptor and closes
it after the last of them. `p.f` is tested and read again in two steps, because
the code does, so a `Close` may come in between; a `Port` is not opened again
but a new one may be opened on the same node. `Termios()`, `Lines()`, `Flush`,
`Read` and `Write` are one action, `Borrow`: they hold the descriptor and leave
the port's state alone.

**HidEnumerate.** `step` is the line `darwinEnumerate` has reached; `GiveUp` is
any early return, whose deferred releases empty `held`. `dict` is the set of
keys of the matching dictionary, of which any may be missing, because creating
its number may fail; without a dictionary it is empty and matches everything. A
device publishes each property as a number, as one that is too wide, as a text or
not at all: the registry compares what is published, `Filter.Match` what `propInt`
makes of it, and the two have to agree on every device the filter asks for.
`retained` counts the package's own references: `Retain` takes one per device of
the set, `Sift` is a turn of the loop of `Devices`, which keeps or releases. `OpenListed`,
`StreamReturns` and `CloseOne` are hidprobe's loop over the list, its one `Stream`,
and a turn of its deferred loop; `opened` are the devices it has open.

**Descriptors.** `Descriptor` is what a device may publish: the four kinds that
ParseConfig interprets, or any other bytes as long as they say. Blocks are bytes, offsets are the code's, from zero. `Header`,
`Split` and `Sort` are ParseConfig's checks and a turn of each loop; `Sorted`
is its switch. `Bytes` is the USB specification's layout and is external: the
decoder is compared with what the device meant, not with itself.

**UsbProbe.** `todo` is the next request to endpoint 0 and the function that makes
it, `Over` when there is none left. `controlCheck`, `canary`, `cdcCheck` and
`imuAttempt` are the first requests of the functions of those names, or what follows
a function the options leave out; `sweep`, `cdcNext` and `imuNext` are their loops,
from one request to the next, and `After` is what the program asks once an answer
is there. `wire` is a transfer as the kernel sees it and `data` the buffer
it was given: `Control` starts one, `Take`, `Answer`, `Refuse` and `Deadline` are
how it ends, `Returns` is the code after the call. `said` is what is printed, as
records and not as text. On an interface, `Pipes` lists refs, `WritePipe`,
`WriteIMU` and `ReadPipe` address one, and the kernel looks the endpoint up by
the ref. A read goes the way `darwinReadPipe` sends it (`Ways`): `readPipe` is
`ReadPipeTO`, whose deadline IOKit keeps but which only a bulk pipe has (`CodesTO`);
an interrupt pipe, which the command line may name as well, is read by
`darwinReadInterrupt`. Of that `InterruptDone` is an answer before the timer, `Abort`
the timer, and then the read is reaped with what has come since given up (`Reap`), or
has been missed by its abort and is waited for as long as the device is silent
(`ReapMissed`). The goroutine, the channel and the memory behind these steps are
`PipeRead`'s, where `PipeHang` and `PipeLost` show the two ways in which it goes
wrong. `truth` is the device's side of the story, which only properties look at.

**SerialProbe.** `pty` are the ends of the pseudo-terminal that are open, and `SelfTest`
lists what `selftest` does before it listens: Loopback's open and its four requests,
the slave, the pattern. `place` is where `selftest`, `once` and `Drain` are, `round`
which of their listenings it is, `cell` which configuration of the sweep; `late`
says that the deadline has passed; a read brings up to the end of a delivery or
of the buffer. `SetBits` is `SetLines`, of whose two requests either may fail, and
which may find the lines up. `Decode` looks at every place and every length, as
the code does. Angles stay the four bytes they come in.

**Beast.** `query` is the report that `Ask` builds, `frame` the one that `Hear`
parses; between them the headset obeys, tells, spells a text or announces a change,
as beast.go's comments and tests describe it. A text frame is padded with zeros or
with 0xFF, and its length field may say 240 too many.

## Assumptions about callers and the world

The discipline is in constants, so that each assumption can be turned off:

* `CloseAnytime` (hid): FALSE lets `Close` start at any time except while a
  `Stream` call naming the device is still validating and claiming. TRUE
  assumes nothing, and `HidCloseRace` shows what happens then.
* `Shared` (hid): the devices that two `Stream` calls may hold at once.
* `SharePipe` (usb): FALSE means one `Read` per pipe at a time.
* `Prompt` (usb): the readers whose worker issues its read before its timer
  fires. Go guarantees no such thing; only `ReadReturns` assumes it.
* `Old` (usb): the devices whose plug-in may be of version 100.

What the programs meet is in constants, too, each with its assumption, which TLC
evaluates on the instance and the proofs use:

* `PublishedAssumption`: a device publishes lists of `Descriptor`s, the first of
  which is the configuration's own. Which they are and what becomes of the block is
  free.
* `OptionsAssumption`: `-max-request` is a byte. The code takes any number and
  cuts each request to eight bits; below zero it asks nothing, beyond 255 it asks
  the same requests again. Every other option is any boolean or number.
* `DeviceAssumption`: what a device answers are bytes; an endpoint is in or out, and
  of any type.
* `CommandsAssumption`: there is a command line to start `usbprobe` with, and an
  answer a pseudo-terminal gives.

The serial model assumes nothing: `Configure` calls may overlap, the driver may
refuse anything or apply part of it. Two history variables say of the last
Configure to begin whether it was `alone` and whether the driver applied what it
accepted `whole`, for the properties that need it.

A USB handle is in one call at a time: the package offers no other use. Bounds:
`MaxDevs` is the longest device list, `MaxTok` the services handed out in one
behaviour.

**Fairness.** `HidStream!FairSpec`: weak fairness of each goroutine's own steps
(the Go scheduler runs it, handlers return) and strong fairness of
`PumpReturns`, because `CFRunLoopRunInMode` returns when its interval is over
even if reports keep coming; the handler takes the goroutine out of the pump
again and again, so weak fairness would not say that. `PipeRead!FairSpec` and
`UsbHandles!FairSpec`: weak fairness of the goroutines, of timers and of the
timeouts IOKit keeps; no fairness of the device. `Probes!Fairness`: weak fairness
of the commands' steps, of time passing, of read deadlines and of the timeouts that
IOKit keeps for a transfer, and an enumeration and the stream after it run to their end; none of a device, which need never send or answer; the
headset of an exchange is one that answers. An interrupt read has no deadline of its
own: its timer fires and `AbortPipe` ends it, which is fair, unless the abort came
before the read (`ReapMissed`), which nothing obliges to end.

## Runs

| Run | Instance | Shows |
|---|---|---|
| `HidStream` | 2 devices, one of them shared, 2 streams, lists up to 2 | `ScheduledIsRetained`, `NoWriteAfterFree`, `ClaimsCounted`, `Routed`; a cancelled stream returns; the code implements `HidOwnership` |
| `HidCloseRace` | 1 device, 1 stream, Close at any time | violated: closed while scheduled |
| `HidTwoStreams` | 1 device, 2 streams | violated: the first to end silences the other |
| `PipeRead` | 2 readers, one of them prompt, 2 interrupt pipes, 1 bulk pipe | `BuffersOutliveWorker`; the code implements `TimedRead`; the prompt reader returns |
| `PipeHang` | 1 reader, 1 pipe | violated: abort before read, the call hangs |
| `PipeLost` | 1 reader, 1 pipe | violated: an answer discarded, a timeout reported |
| `UsbHandles` | 2 callers, 2 handles, an old device and an interface, 2 tokens | references, ownership, stale calls, seizing; the code implements `HandleRegistry`; every call on a handle returns, but for a transfer through an interface that has no deadlines (`hasTO`), which the old device may or may not have |
| `UsbNoDeadline` | 1 of each, an old device | violated: a transfer without a deadline |
| `SerialPort` | 2 goroutines, 4 configurations | `AppliedIsKernel`, `HonestIsExact`, `UntouchedSurvive`, `NoStaleDescriptor`, `NoLeak` |
| `SerialLines` | 2 goroutines with a modem line each, 1 configuration | `LinesKept` |
| `SerialPartial` | as `SerialPort` | violated: success is not what was asked for |
| `Probes` | 32 machines and 48 filters; 400 descriptor lists, cut anywhere or lying about a length; 14 command lines of `usbprobe` and 9 of `serialprobe`; a session and 78 damaged packets; 7 calls to a headset with 4 modes | `ListIsExact`, `NothingHeldBack`, `VetoIsRelated`; `WalkCovers`, `NothingDropped`, `CutIsNoticed`; `OnlyWhatWasAsked`, `VerdictsAreFounded`; `SweepIsExact`, `OneAtATime`, `DrainLosesNothing`, `DecodeIsExact`; `ExchangeIsExact`; `ProbeEnds` |

Why the bounds are enough: two goroutines are the fewest with an interleaving,
and no code here compares three; a list of two devices has a first and a last
turn of every loop, may repeat a device, and may name a shared and an unshared
one; two tokens let one be given back while the other is in use or not yet
issued. What a bound might still hide is what the theorems are for: they have
none. The serial configurations differ in every flag the package manages, one of
their rates is outside the driver's table, and two are rejected by `Validate`;
the rate in force may be zero. Modem lines have a run of their own, because
`SetLines` and `Configure` share nothing but the descriptor. In `Probes`, three
descriptors after the configuration are the fewest that put one between an
interface and its endpoint, and the seven to choose from take every branch of
the switch; the machines have two devices that may not be opened, one of them with a
product to tell it by and one with a number too wide for 32 bits, and others of
either vendor, one of which publishes no usage page and one a text for its usage. The
filters include those that list product zero, for which a dictionary has no value, so
that a device of another product does veto them. `usbprobe`'s command lines are one for each flag and
one for those that go together, deadlines of nothing, of half a millisecond and of a
whole turn of the word that IOKit keeps it in: `Width` is 4096 there and 2^32 in the
code, and only a multiple of it and its neighbours could behave differently. A
second request per sweep pass (`maxReq` 1) is the fewest after which a buffer is used
again. One number serves both directions of the interface's pipes, so that a ref and
an address cannot be taken for each other; two of the pipes are interrupt pipes, and a
command line writes to the one and reads from the other. `serialprobe` sweeps from a bare name,
from either node and with a payload that is no hex. The session's packets come from a
checksum computed by polynomial division, which is not the code's way, and which
has to agree with `CRC16` on the check value 0x29B1 of the repository's test. The
damage is one bit in three, pairs fifteen apart and runs of sixteen,
inside what the checksum covers; the header is outside it, so damage there is not
noticed by the format. Deadlock is not
checked in the hid and usb-handle runs, where a program may use up its devices
(closed handles do not come back, tokens run out at `MaxTok`), nor in `Probes`,
where a command comes to its end; it is checked in the others.

The six violations are disagreements between the code and what its comments
say; `PROJECT.json` quotes both under `findings`. In short: `Close` does not
refuse in the window between `Stream`'s validation and its claim; two streams on
one device lose reports; an interrupt read can hang, and can drop data, around
its timeout; a version-100 interface has no deadline; `Configure` reads the
termios back but compares it with nothing.

## Proofs

All theorems hold for any finite or infinite sets of actors and devices, except
where an assumption is named (`HidStream` needs finitely many goroutines to
count claims).

* **HidStreamProofs.** `TypeCorrect`: the loop index stays inside the list.
  `CounterIsExact`: `streaming[d]` is the number of claims; each step adds or
  removes one element of `Claims(d)` exactly when it moves the counter. No
  assumption on callers.

  `DetachedBeforeFreed` (no assumption on callers): the invariant relates the callback slot of a device to the buffer of the turn of
  the loop that registered it, which is freed only after the slot is cleared.
  `ReportsReachTheirStream` (no assumption on callers): two calls have no unshared
  device in common (`ApartInv`), so what a call has set up on one, nobody else
  takes down, and it has set up all of its own before it pumps (`RouteInv`).
  `NoCloseUnderStream` (under `~CloseAnytime`): from the exact counter, a
  `Close` past its check means no claim and no call in its prologue, which is
  why the discipline is needed. `RefinesOwnership` maps `open`/`retained` to the
  state of `HidOwnership` and the claims to its holders, step by step.
* **PipeReadProofs.** `ReapedBeforeFreed` from an invariant that ties the caller's
  place to what the worker, its result and the channel may be (no assumption on
  callers). `RefinesTimedRead`, under `~SharePipe`: every step is one of `TimedRead`
  or a stutter. A success has been sent, because the invariant follows it from the
  device through the worker and the channel; an abort is never answered, because
  with one reader per pipe whoever is aborted has a caller that translates it.
* **UsbHandlesProofs.** `IInv` is `TypeOK`, `Records` (what a token's record
  looks like before, in and after the map), `Frames` (what each call owns at each
  place), `Ownership` (no token has two owners), `OpenInv` and `KernelAgrees`.
  None of the run's invariants is inductive alone: that a reference is returned
  once needs that no two calls are at the same token, which needs that handles
  have different tokens, which needs that tokens are fresh. From it follow
  `ReferencesConserved`, `OneOwnerEach`, `NoStaleDereference`,
  `NothingLeftOpen` and `SeizeHasEntry`. `RefinesRegistry` says for each action which
  step of `HandleRegistry` it is, by an action's effect on `Owners` and `Lent`; it
  assumes that handles and goroutines are different things.
* **SerialPortProofs.** Of `Termios`: `RoundTrip`, `UntouchedSurvives`,
  `FromConfigIdempotent`, for every valid configuration and every termios; the only
  assumption is that the flags the package names are flags. Of the port:
  `UntouchedSurvive`, `NoStaleDescriptor`, `NoLeak`, for
  any number of goroutines whose calls overlap in any way, and any driver: no
  assumption on either but that drivers keep the foreign flags they are handed.
  `IInv` is `TypeOK`, `Carried` and `Descriptor`. `Carried` is what a `Configure`
  takes from one kernel call to the next: a valid configuration, a termios with
  the factory's foreign flags, and a rate to fall back on where it does; without
  the first `UntouchedSurvives` does not apply to what it writes next.
  `Descriptor` says who will close the descriptor of a closed port: the call that
  took the file, or the last one out of an ioctl; and that an `Open` in progress
  is alone, so that its failure closes a descriptor nobody else holds.

  `LinesAreKept`: every goroutine's lines are disjoint from every other's, and
  between its two ioctls and after them they are as it left them (`LinesInv`).
  `RecordIsTrue` and `HonestDriverIsExact`: while one `Configure` is alone, what it
  has read back is what is in the kernel, and what a driver that does what it
  accepts has been asked for is in force but for a rate still to be set
  (`LastInv`, from `RoundTrip`).
* **DescriptorsProofs.** `WalkIsComplete`, `NothingIsDropped` and `CutsAreNoticed`, for
  any list of descriptors a device may publish and for its block whole, cut anywhere,
  or with a wrong length. The invariant `DInv` has three parts beside the types: what
  each stage has and has not done (`Stages`); that the pieces sorted so far are as
  many as the headers among them and the places in the Config (`Tally`), which is
  `NothingDropped` at every turn and not only at the end; and, of an honest block,
  that the pieces split off are the first descriptors and the Config says of them what
  it should (`Faithful`), from what one turn adds to each list (`TurnDescribes`).
  A block is a flattened sequence, and its length and its prefixes are recursive
  functions. The library's induction takes an operator; `Induction` says the same of
  a set, and is proved from the least element that `WFMin` gives to what is missing
  from it. `Recursion` then gives the recursive function behind `FlattenSeq`
  its equations.
* **WireProofs.** `ExchangeExact`: for any panel, modes, texts and foreign reports,
  an event says what the headset meant and a command does what the headset says,
  from what each byte of a frame is at each turn (`BInv`); assumed are modes of
  sixteen bits, texts that do not end like padding, and foreign reports that can be
  told from their first bytes. `CommandsAreUnderstood`, for every value;
  `LineCodingRoundTrip`, for every rate of 32 bits and whatever bytes follow the seven,
  as the repository's `TestParseLineCodingIgnoresTrailingBytes` asks; `AlwaysADeadline`: no duration,
  of any size and sign, becomes the zero that IOKit takes for no deadline, for any
  word width; `RequestTypesDiffer`. Of the serial probe, for any stream of bytes in
  any deliveries, any buffer and any command line: `NothingLost`, what `Drain` holds
  is the stretch of the stream between where the listening began and what the kernel
  has given up (`Reads`); `NothingLeftBehind`, from where each place of the program
  says what is open (`Ends`); `SweepsAreExact`, from how far the sweep is and what
  it has set (`Cells`), the sixteen settings being all of both nodes, the rates and
  the lines (`AllCells`). Assumed: the deliveries lie in the stream
  (`StreamsAssumption`), and the lines a command line can name are DTR and RTS
  (`LinesAssumption`). `DecodeFindsPackets`: over any bytes, `Decode`, which looks at
  every place and every length, is the shortest valid packet at each place where one
  starts. `DecodesExactly` concludes that a listening reports the packets that
  lie in it (`Reported`), under `PacketsAreKnown`: the `packets` of a stream are the
  shortest valid stretches of its bytes. That is what the word means in the run,
  whose streams state their packets with a checksum of their own; that noise holds
  none by accident is a fact about each stream and not about the code, and for the
  run's streams TLC's check of `DecodeIsExact` settles it.
* **UsbProbeProofs.** `NothingUnasked` and `VerdictsHold`, for any command line and any
  device. `Standing` says what each phase has open and whether it is on a device or
  an interface; `Asking`, that the next request is among those the options allow
  (`Allowed`), that a sweep is behind its canary, and what is in the buffer; `Counting`,
  that what a pass has counted is the number of its requests that were not stalled, all
  of them before the present one in the order of passes and numbers, and that what is
  heard after the packet is about the recipient that took it; `OnItsPipe`, that a
  ref is the place of its endpoint. The verdicts are inductive only with them: a
  sum needs the count, an orientation the request that was taken, and a pipe that "stayed
  empty" that all that came has been counted, but for what a read gave up (`Standing`). That nothing printed
  was in the buffer before is `Received`, of any buffer and any answer; that a line
  coding is printed as it came is `SevenBytesRoundTrip`.
* **ProbesProofs.** Of an enumeration, for any machine and any filter, with any of the
  system's calls failing: `ReferencesReturned` says who holds a reference at each step, the
  loop that retains, the loop that sifts, the caller (`References`);
  `ExactlyWhatWasAsked`, that a device which passes the filter is in the registry's
  answer to any part of the dictionary (`Selection`), from what `propInt` keeps of a
  property; `VetoesAreRelated`, the converse for the whole dictionary (`WholeDictionary`):
  what it selects passes the filter, but for a product that it has no key for. Assumed of devices: identifiers have
  sixteen bits.

  Then the programs together: in each, a part is one the program goes through, with
  the invariant of its module, or has nothing to do and stays so (`Parts`). From it
  `ProbesTypeCorrect`, and `CommandsKeepPromises`, every invariant of the run but
  `DecodeIsExact`, which has a theorem of its own for its hypothesis
  (`CommandsDecodeExactly`).

Every safety invariant and every refinement that a passing run checks is a theorem.
Checked by TLC only are liveness (`CancelledReturns`, `ReadReturns`, `CallsReturn`,
`ProbeEnds`), which is out of the prover's reach, with the fairness it rests on; that
the checksum of the code is the polynomial division the run's packets are made with;
and the hypothesis `PacketsAreKnown` of the run's streams, as TLC shows where a
listening covers the whole of one.

## Not modelled

Names, formatting and tables (`ioreturn`, `ModeName`, `Stereoscopic`, the `String` methods, `className`, what
the commands print beyond their verdicts, the parsing of flags); `usb`'s
`Filter.Match`, a choice on each device in `UsbHandles`; `List`, which filters a
directory listing; `SetReport`, one guarded
call that changes no state; the stubs of other platforms; the numeric layout of
native structures, which the repository's own tests compare with the headers.
Concurrent use of one USB handle (usb_darwin.go:371) is not modelled, because the
package does not offer it and no caller of its own makes it.

## Noticed while modelling

Differences between the text and the code that no run is about, because each shows
at the line itself:

* cmd/usbprobe/main.go:18 and :75 call `-imu` the only flag that writes; `-cdc-set`,
  `-bulk-write` and `-bulk-imu` write too. `OnlyWhatWasAsked` is about what the code
  does.
* `readPipe` prints that the device NAKed every IN token when it answered with
  nothing, too, when its time was over before the first read, and when an interrupt
  read gave up what came after its timer (the finding of `PipeLost`, met from the
  command line). `VerdictsAreFounded` says that nothing else came. `-bulk-for` does
  not end such a read that its abort has missed (`PipeHang`), which `ProbeEnds` excepts.
* `-iface`, `-bulk-out`, `-bulk-read` and `-max-request` beyond 255 are cut to a byte
  in silence; the command lines of the run stay below.
* `imuAttempt` prints DECODED for anything shaped like an orientation, without
  looking at its checksum, and `selftest` does not compare what it reads back
  with what it wrote.
* `propInt` refuses a number that 32 bits would have to wrap, and `uint16(vid)` then
  wraps one of 32 bits to sixteen; a location of 2^31 or more reads as absent. USB's
  identifiers have sixteen bits, which `DevicesAssumption` says.
* A filter that lists the single product zero is matched in Go and left out of the
  dictionary, so a device of another product can veto it, as with a filter of several
  products. The comment at hid_darwin.go:285 speaks of the latter only; `VetoIsRelated`
  excepts both.
* A `Configure` that fails at the rate or at the read-back has changed the kernel's
  termios already, and `Config()` then says what was in force before; with two at
  once the one that stores last need not be the one the kernel obeyed last.
  `AppliedIsKernel` is about one that succeeds and is alone.

## Plan

Done: everything under Modules and Proofs. Left, in order of importance:

1. Of the checksum: that `Packet` builds what `Valid` accepts, for every payload, and
   which damage `Valid` notices, from the linearity of `CrcByte` and the same
   `Induction` as for descriptors.
2. Of the pipe reads: for a reader whose worker is prompt, that no answer is discarded;
   the safety half of what `PipeLost` refutes in general.
3. Of the streams: that no run of steps can leave a finished `Stream` with a claim,
   a slot or a schedule, stated of the end of a call.
