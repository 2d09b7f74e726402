\* A version-100 interface: DeviceRequest has no timeouts.
SPECIFICATION Spec
CONSTANTS
    Caller = {c1}
    Handle = {h1}
    Service = {usbdev}
    Iface = {}
    MaxTok = 1
    Old = {usbdev}
    NoHandle = NoHandle
    NoService = NoService
    Driver = Driver
INVARIANT EveryTransferHasDeadline
CHECK_DEADLOCK FALSE
