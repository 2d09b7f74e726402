\* Two goroutines configure the port, each in its own way.
SPECIFICATION Spec
CONSTANTS
    g1 = g1
    g2 = g2
    Goroutine = {g1, g2}
    Nobody = Nobody
    Flag <- MCFlag
    Chars = {"default"}
    AskedBy <- MCAskedBy
    LinesOf <- MCNoLines
    Table <- MCTable
    Factory <- MCFactory
INVARIANT AppliedIsRequested
