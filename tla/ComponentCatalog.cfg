\* Up to three versions of one or two profiles, five rows in all.
CONSTANTS
    NoValue = NoValue
    Codes = {code}
    ComponentCodes = {a, b}
    Owners = {"SYSTEM", "FORWARDER"}
    Scopes = {everywhere}
    Labels = {label}
    Forms <- MCForms
    MaxProfiles = 2
    MaxVersions = 3
    MaxEdits = 3
    MaxRows = 5

SPECIFICATION CatalogueSpec
SYMMETRY CatalogueSymmetry

INVARIANTS
    OnePublishedVersion
    OneAssignmentApplies
    EditsOverwriteWhatWasSeen
    CatalogueTypeOK
    ComponentDatesResolve
    LinksNeverMislead
PROPERTIES
    PublishedVersionsKept

CHECK_DEADLOCK FALSE
