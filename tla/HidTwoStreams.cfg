\* Two Stream calls on one device.
SPECIFICATION Spec
CONSTANTS
    Device = {d1}
    Streamer = {s1, s2}
    MaxDevs = 1
    CloseAnytime = FALSE
    Shared = {d1}
    None = None
INVARIANT StillListening
CHECK_DEADLOCK FALSE
