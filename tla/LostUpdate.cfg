\* A mutation and a read that changes the copy it loaded.
CONSTANTS
    Sessions = {s1, s2}
    NoSession = NoSession
    NumRows = 2
    MaxCalls = 2

SPECIFICATION ServiceSpec

INVARIANT NoLostUpdate

CHECK_DEADLOCK FALSE
