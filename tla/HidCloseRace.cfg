\* Close at any moment, as its comment allows.
SPECIFICATION Spec
CONSTANTS
    Device = {d1}
    Streamer = {s1}
    MaxDevs = 1
    CloseAnytime = TRUE
    Shared = {}
    None = None
INVARIANT ScheduledIsRetained
CHECK_DEADLOCK FALSE
