\* The processes of 05, and the lengths of the lists of 24 and 27.  The widths of the
\* programs are 32 (Bits, IntBits, ShortBits), 24 (FloatBits) and 64 (LongBits): with
\* those given here a product, a sum and the 12th and the 15th number overflow.
CONSTANTS
    Numbers = {0, 1, 3}
    Simple = {s1}
    Threaded = {t1}
    None = None
    Bits = 5
    Factors = {2, 9}
    Counts <- Rows
    Policies = {"retryPolicy", "waitForReady"}
    MaxAttempts = 5
    ServerScripts <- HealthAndQuit
    ClientScripts <- CallsAndQuit
    IntBits = 6
    FloatBits = 3
    Operands <- SixBits
    ShortBits = 6
    LongBits = 8
    Limits = {0, 1, 2, 3, 5, 12, 16}
SPECIFICATION FairCalls
INVARIANTS ListIsWhole CancelsALiveCall AbandonsSoon ReportedAndFreed TableIsWhole
           PolicyKept CommandsTakeEffect NearestToTheSum FibonacciModuloWidth
PROPERTIES AcceptedCallsAreAnswered EndingFreesTheClient EveryReactorIsDeleted
           EveryProgramEnds
\* Processes end.
CHECK_DEADLOCK FALSE
