\* An answer that arrives while the timeout is being handled.
SPECIFICATION Spec
CONSTANTS
    Reader = {r1}
    Pipe = {in1}
    Interrupt = {in1}
    SharePipe = FALSE
    Prompt = {r1}
    NoPipe = NoPipe
    NoCode = NoCode
INVARIANT TimeoutMeansSilence
