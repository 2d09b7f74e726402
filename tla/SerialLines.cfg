\* Two goroutines drive a modem line each; one configures the port.
SPECIFICATION Spec
CONSTANTS
    g1 = g1
    g2 = g2
    Goroutine = {g1, g2}
    Nobody = Nobody
    Flag <- MCFlag
    Chars = {"default"}
    AskedBy <- MCOneAsks
    LinesOf <- MCLinesOf
    Table <- MCTable
    Factory <- MCFactory
INVARIANT LinesKept
