\* Two callers, Run and a reader of the state, with one failure and a shutdown at
\* any moment.
SPECIFICATION ServiceSpec
CONSTANTS
    Caller = {p1, p2}
    Run = run
    Sub = {s}
    MaxConn = 6
    MaxFaults = 1
    MayStop = TRUE
INVARIANTS ConnectionsOwned NeverZeroClient
PROPERTY EventuallyConnected
