\* One commitment, up to three consumptions.
CONSTANTS
    NoValue = NoValue
    Commitments = {c1}
    Terms <- MCTerms
    Draws <- MCDraws
    Identities <- MCIdentities
    MaxRows = 3

SPECIFICATION LedgerSpec

INVARIANTS
    IdentityConsumedOnce
    BalancesAreBooked
    WithinCommitment
    ConsumedMeansExhausted
    DerivedDrawsExhaustAmount

CHECK_DEADLOCK FALSE
