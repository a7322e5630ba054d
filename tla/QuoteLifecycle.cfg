\* Two quotes and two options.
CONSTANTS
    NoValue = NoValue
    Terms <- MCTerms
    Key <- MCKey
    Numbers = {2, 90}
    Identities = {"route"}
    RequestRefs = {"plan"}
    Policies = {"OPTIONAL", "DIRECT_ONLY"}
    MaxQuotes = 2
    MaxOptions = 2

SPECIFICATION LifecycleSpec

INVARIANTS
    LifecycleSound
    AwardIsWhole
    AwardedTermsKept
    RouteAwardedOnce
    RankingIsCurrent

CHECK_DEADLOCK FALSE
