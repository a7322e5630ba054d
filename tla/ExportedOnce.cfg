\* One awarded document, exported again after its commitment was cancelled.
CONSTANTS
    NoValue = NoValue
    Documents = {q1}
    Commitments = {q1}
    Invoices = {i1}
    InvoiceNumbers = {"INV-1"}
    Components = {"FREIGHT"}
    Registered = {"FREIGHT"}
    LineNumbers = {1}
    Payloads <- MCPayloads
    Options <- MCOptions
    InvoiceForms <- MCInvoiceForms
    Policies = {"OPTIONAL"}
    MaxExports = 2
    Awards <- MCAwards
    Draws <- MCDraws
    Identities <- MCIdentities
    MaxRows = 2

SPECIFICATION ExecutionSpec

INVARIANT ExportedOnce

CHECK_DEADLOCK FALSE
