\* One Read per pipe at a time; the timer of r2 may fire before its worker has run.
SPECIFICATION FairSpec
CONSTANTS
    Reader = {r1, r2}
    Pipe = {in1, in2, bulk1}
    Interrupt = {in1, in2}
    SharePipe = FALSE
    Prompt = {r1}
    NoPipe = NoPipe
    NoCode = NoCode
INVARIANT BuffersOutliveWorker
PROPERTIES ImplementsTimedRead ReadReturns
