SPECIFICATION Spec
CONSTANTS
    w1 = w1  w2 = w2  s1 = s1
    Sessions = {s1}
    Workers <- MCWorkers
    Inputs <- MCInputs
    BlockCounts = {0, 1, 2}
    MaxCalls = 3
    MaxPending = 0
    MaxCrashes = 1
    NoDag = NoDag
    NoCall = NoCall
SYMMETRY MCSymmetry
INVARIANTS TaintReachesSink StrikesConsistent
PROPERTY BlockHolds
\* MaxCalls ends every behaviour.
CHECK_DEADLOCK FALSE
