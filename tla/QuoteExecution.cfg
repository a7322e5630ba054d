\* One awarded and one direct document, two consumption rows.
CONSTANTS
    NoValue = NoValue
    Documents = {q1, d1}
    Commitments = {q1}
    Invoices = {i1}
    InvoiceNumbers = {"INV-1"}
    Components = {"FREIGHT"}
    Registered = {"FREIGHT"}
    LineNumbers = {1}
    Payloads <- MCPayloads
    Options <- MCOptions
    InvoiceForms <- MCInvoiceForms
    Policies = {"OPTIONAL"}
    MaxExports = 2
    Awards <- MCAwards
    Draws <- MCDraws
    Identities <- MCIdentities
    MaxRows = 2

SPECIFICATION ExecutionSpec

INVARIANTS
    CommitmentsBacked
    ExportedOnceWhileCommitted

PROPERTY
    ImplementsLedger

CHECK_DEADLOCK FALSE
