\* Three sessions, two aggregates.
CONSTANTS
    Sessions = {s1, s2, s3}
    NoSession = NoSession
    NumRows = 2
    MaxCalls = 3

SPECIFICATION FairServiceSpec

PROPERTIES
    CallsAreAtomic
    MutationsEnd

CHECK_DEADLOCK FALSE
