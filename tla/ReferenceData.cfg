\* Two calls at a time, four or five in all.
CONSTANTS
    NoValue = NoValue
    Sessions = {s1, s2}
    SystemCode = ORIGIN
    DimensionCodes = {ORIGIN, zone}
    exact = exact
    folded = folded
    number = number
    text = text
    plain = plain
    Structures = {exact, folded, number}
    DataType <- MCDataType
    Values = {text, plain}
    Normalized <- MCNormalized
    MappingCodes = {mapping}
    Sources = {bank}
    Pairs <- MCPairs
    Dates = {1, 2}
    Rates = {low, high}
    MaxCalls <- MCMaxCalls

SPECIFICATION ReferenceSpec
CONSTRAINT StillClaimed
SYMMETRY ReferenceSymmetry

INVARIANTS
    UsedDimensionsKept
    QuoteMappingsKept
PROPERTIES
    EarlierConversionsKept

CHECK_DEADLOCK FALSE
