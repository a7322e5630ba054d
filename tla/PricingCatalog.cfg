\* Three versions, one contract.
CONSTANTS
    NoValue = NoValue
    BookCodes = {sea, road}
    TemplateCodes = {door, port}
    freight = freight
    flat = flat
    weight = weight
    Profiles <- MCProfiles
    Bases <- MCBases
    ComponentForms <- MCComponentForms
    BookForms <- MCBookForms
    TemplateForms <- MCTemplateForms
    ContractForms <- MCContractForms
    MaxVersions = 3
    MaxContracts = 1
    MaxEdited = 3

SPECIFICATION CatalogSpec
SYMMETRY CodeSymmetry

INVARIANTS
    CatalogTypeOK
    OneVersionInForce
    PricesHoldUntilRetired
    EditsOverwriteWhatWasSeen
PROPERTIES
    ReleasedVersionsKept

CHECK_DEADLOCK FALSE
