---------------------------- MODULE MCSerialPort ----------------------------
(* A port, two goroutines, and four configurations, two of which are refused.*)
EXTENDS SerialPort, TLC

CONSTANTS g1, g2

\* IUTF8, ONLCR and ECHOCTL stand for the flags the package has no name for.
MCFlag == RawIflag \cup RawOflag \cup RawLflag \cup Managed
              \cup {"IUTF8", "ONLCR", "ECHOCTL"}

MCFactory ==
    [iflag |-> {"ICRNL", "IXON", "BRKINT", "IUTF8"}, oflag |-> {"OPOST", "ONLCR"},
     cflag |-> {"CREAD", "HUPCL"} \cup CSIZE,
     lflag |-> {"ECHO", "ICANON", "ISIG", "ECHOCTL"},
     vmin |-> 1, vtime |-> 0, chars |-> "default", ispeed |-> 9600, ospeed |-> 9600]

\* A rate of the table, a rate outside it with every flag, and two mistakes.
Plain == [Baud |-> 9600, DataBits |-> 0, StopBits |-> 0, Parity |-> ParityNone,
          CLOCAL |-> TRUE, HUPCL |-> FALSE, RTSCTS |-> FALSE,
          ReadMin |-> 0, ReadTimeoutDecis |-> 0]
Odd   == [Baud |-> 31250, DataBits |-> 7, StopBits |-> 2, Parity |-> ParityOdd,
          CLOCAL |-> FALSE, HUPCL |-> TRUE, RTSCTS |-> TRUE,
          ReadMin |-> 1, ReadTimeoutDecis |-> 5]
Wrong == {[Plain EXCEPT !.DataBits = 9], [Plain EXCEPT !.Baud = -1]}

\* Two goroutines that configure the port in their own ways, and two that drive
\* its modem lines.
MCAskedBy == (g1 :> {Plain} \cup Wrong) @@ (g2 :> {Odd} \cup Wrong)
MCOneAsks == (g1 :> {Plain}) @@ (g2 :> {})
MCTable == {9600}
MCLinesOf == (g1 :> {"DTR"}) @@ (g2 :> {"RTS"})
MCNoLines == (g1 :> {}) @@ (g2 :> {})
=============================================================================
