\* A server that starts after one died signals its own process group.
CONSTANTS
    Proc = {p1}
    NoProc = NoProc
    MaxServerDeaths = 1
SPECIFICATION SupSpec
INVARIANTS NeverSignalsOwnGroup
