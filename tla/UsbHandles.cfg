\* Two goroutines, two handles, two records of an old device and an interface.
SPECIFICATION FairSpec
CONSTANTS
    Caller = {c1, c2}
    Handle = {h1, h2}
    Service = {usbdev, usbif}
    Iface = {usbif}
    Old = {usbdev}
    MaxTok = 2
    NoHandle = NoHandle
    NoService = NoService
    Driver = Driver
INVARIANTS TypeOK RefsMatchEntries OneOwner NoStaleCall KernelAgrees SeizedHasEntry
PROPERTIES ImplementsRegistry CallsReturn
CHECK_DEADLOCK FALSE
