\* Any Close that does not overlap the set-up of a Stream call on its device;
\* two Stream calls may hold d2 at once, and only one may hold d1.
SPECIFICATION FairSpec
CONSTANTS
    Device = {d1, d2}
    Shared = {d2}
    Streamer = {s1, s2}
    MaxDevs = 2
    CloseAnytime = FALSE
    None = None
INVARIANTS TypeOK ScheduledIsRetained NoWriteAfterFree ClaimsCounted Routed
PROPERTIES CancelledReturns ImplementsOwnership
CHECK_DEADLOCK FALSE
