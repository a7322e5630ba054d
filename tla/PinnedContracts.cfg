\* A published book, a contract, and the next version of the book.
CONSTANTS
    NoValue = NoValue
    BookCodes = {sea, road}
    TemplateCodes = {door, port}
    freight = freight
    flat = flat
    weight = weight
    Profiles <- NoProfiles
    Bases <- MCBases
    ComponentForms <- SteadyComponent
    BookForms <- PinnedBookForms
    TemplateForms <- MCTemplateForms
    ContractForms <- PinnedContractForms
    MaxVersions = 3
    MaxContracts = 1
    MaxEdited = 3

SPECIFICATION CatalogSpec
SYMMETRY CodeSymmetry

INVARIANT
    PinnedContractsReproducible

CHECK_DEADLOCK FALSE
