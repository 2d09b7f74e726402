\* A timer that fires before the worker has issued its ReadPipe.
SPECIFICATION FairSpec
CONSTANTS
    Reader = {r1}
    Pipe = {in1}
    Interrupt = {in1}
    SharePipe = FALSE
    Prompt = {}
    NoPipe = NoPipe
    NoCode = NoCode
PROPERTY EveryReadReturns
