\* One document, direct or awarded, and two invoices.
CONSTANTS
    NoValue = NoValue
    Documents = {d1}
    Invoices = {i1, i2}
    InvoiceNumbers = {"INV-1", "INV-2"}
    Components = {"FREIGHT", "FUEL", "OFFER"}
    Registered = {"FREIGHT", "FUEL"}
    LineNumbers = {1, 2, 3}
    Payloads <- MCPayloads
    Options <- MCOptions
    InvoiceForms <- MCInvoiceForms
    Policies = {"OPTIONAL", "REQUIRED"}
    MaxExports = 2

SPECIFICATION DocSpec

INVARIANTS
    DocumentsSound
    NothingOrphaned
    MatchIsCurrent
    DirectTotalsAgree

PROPERTIES
    IsFinancialRecord

CHECK_DEADLOCK FALSE
