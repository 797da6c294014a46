CONSTANTS
    c1 = c1  c2 = c2
    None = None
    Conns = {c1, c2}
    MaxCalls = 2
    NewGrace = 1
    Grace = 2
    ReadTimeout = 1
    WriteTimeout = 2
    Faults = {"boot", "port", "accept", "panic"}
SPECIFICATION FairSpec
INVARIANTS TypeOK HandlersHaveDatabase CutIsReported AccessLogFaithful
PROPERTIES SignalEnds RequestEnds
CHECK_DEADLOCK FALSE
