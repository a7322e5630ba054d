---------------------------- MODULE ChargeDocument ----------------------------
(***************************************************************************)
(* Charge documents, their lines, the invoices captured against them and   *)
(* the export batches posted from them (app/domain/service.py).  Every     *)
(* operation is one transaction and one action; a request that is refused  *)
(* and a retry that only reads need no action.                             *)
(*                                                                         *)
(* Amounts are whole minor units of the one currency a document and its    *)
(* invoices share (another one is refused).  A line is known by its number *)
(* within the document.  An id that is absent again after a deletion       *)
(* stands for a fresh one: nothing refers to what was deleted.  The margin *)
(* is the difference of the two totals and has no variable.                *)
(***************************************************************************)
EXTENDS OptionalValues, Integers, Sequences, FiniteSets, FiniteSetsExt, Functions

CONSTANTS
    Documents,      \* charge document ids
    Invoices,       \* invoice ids
    InvoiceNumbers, \* invoice numbers, trimmed and in upper case
    Components,     \* charge component codes
    Registered,     \* those the catalogue has a row for
    LineNumbers,    \* line numbers a payload may use
    Payloads,       \* the line lists a client may send: line number -> fields
    Options,        \* awardable quote options: their lines, which have no
                    \* parents, and their totals
    InvoiceForms,   \* invoice contents: component -> amount
    Policies,       \* quotation policies the settings take on
    MaxExports      \* bound: export batches ever posted

Roles == {"CALCULATION", "POSTING"}
Sides == {"PAYER", "PAYEE"}
InvoiceTypes == {"SUPPLIER", "CUSTOMER"}

\* What the client decides about a line.  manual: its source is MANUAL or
\* DIRECT; pending: a processing snapshot it carries is pending or failed.
FieldsType == [role : Roles, side : Sides, component : Components, amount : Int,
               parent : LineNumbers \cup {NoValue}, manual : BOOLEAN,
               pending : BOOLEAN]

\* f gives some elements of S a value in T.
IsPartial(f, S, T) == DOMAIN f \subseteq S /\ f \in [DOMAIN f -> T]

MutableStatuses == {"ESTIMATED", "ACCRUED", "ACTUAL", "DISPUTED"}
LockedStatuses == {"APPROVED", "EXPORTED", "REVERSED"}

\* A line as it is kept; CANCELLED is no line status.
LineType == [fields : FieldsType, status : MutableStatuses \cup LockedStatuses,
             approved : Int \cup {NoValue}]

IsDocument(doc) ==
    /\ DOMAIN doc = {"status", "quoted", "lines", "payer", "payee", "commitment"}
    /\ doc.status \in MutableStatuses \cup LockedStatuses \cup {"ABSENT", "CANCELLED"}
    /\ doc.quoted \in BOOLEAN
    /\ IsPartial(doc.lines, LineNumbers, LineType)
    /\ doc.payer \in Int /\ doc.payee \in Int
    /\ doc.commitment \in {"NONE", "OPEN", "CANCELLED"}

ResultType == [line : LineNumbers \cup {NoValue}, expected : Int, invoiced : Int,
               status : {"MATCHED", "VARIANCE", "UNEXPECTED", "MISSING"}]

\* An invoice belongs to a document and has a number once it exists.
IsInvoice(inv) ==
    /\ DOMAIN inv = {"status", "doc", "number", "type", "amounts", "results"}
    /\ inv.status \in {"ABSENT", "CAPTURED", "MATCHED", "VARIANCE"}
    /\ inv.status # "ABSENT" => inv.doc \in Documents /\ inv.number \in InvoiceNumbers
    /\ inv.type \in InvoiceTypes
    /\ IsPartial(inv.amounts, Components, Int)
    /\ IsPartial(inv.results, Components, ResultType)

IsExport(e) ==
    /\ DOMAIN e = {"doc", "lines", "payer", "payee"}
    /\ e.doc \in Documents
    /\ IsPartial(e.lines, LineNumbers, LineType)
    /\ e.payer \in Int /\ e.payee \in Int

ASSUME DocumentConstants ==
    /\ NoValue \notin Int
    /\ LineNumbers \subseteq Nat /\ IsFiniteSet(LineNumbers)
    /\ Registered \subseteq Components
    /\ \A payload \in Payloads : IsPartial(payload, LineNumbers, FieldsType)
    /\ \A option \in Options :
          /\ IsPartial(option.lines, LineNumbers, FieldsType)
          /\ \A n \in DOMAIN option.lines : option.lines[n].parent = NoValue
          /\ option.payer \in Int /\ option.payee \in Int
    /\ \A amounts \in InvoiceForms : IsPartial(amounts, Components, Int)
    /\ MaxExports \in Nat

VARIABLES
    docs,           \* document id -> the document with its lines
    invoices,       \* invoice id -> the invoice with its match results
    exports,        \* the export batches, in the order of their ids
    quotationPolicy \* the setting that may forbid direct documents

docVars == <<docs, invoices, exports, quotationPolicy>>

(***************************************************************************)
(* Lines and totals                                                        *)
(***************************************************************************)

NoLines == [n \in {} |-> NoValue]

Posting(lines) == {n \in DOMAIN lines : lines[n].fields.role = "POSTING"}

Amounts(lines) == [n \in DOMAIN lines |-> lines[n].fields.amount]

\* The expected amounts of the posting lines of one side.
Total(lines, side) ==
    SumFunctionOnSet(Amounts(lines), {n \in Posting(lines) : lines[n].fields.side = side})

\* Mutated form of WithTotals: the totals are left as they were.
WithOldTotals(doc, lines) == [doc EXCEPT !.lines = lines]

WithTotals(doc, lines) ==
    [doc EXCEPT !.lines = lines,
                !.payer = Total(lines, "PAYER"),
                !.payee = Total(lines, "PAYEE")]

\* A parent is another line of the same list and a CALCULATION line.  Two such
\* lines may name each other.
ParentsAllowed(payload) ==
    \A n \in DOMAIN payload : payload[n].parent # NoValue =>
        /\ payload[n].parent \in DOMAIN payload \ {n}
        /\ payload[payload[n].parent].role = "CALCULATION"

\* _charge_lines_from_payloads: new lines take the document's status.
NewLines(payload, status) ==
    [n \in DOMAIN payload |->
        [fields |-> payload[n], status |-> status, approved |-> NoValue]]

\* _persist_documents and _persist_quote_requests leave out a line whose
\* component has no row in the catalogue.
Stored(payload) ==
    [n \in {m \in DOMAIN payload : payload[m].component \in Registered} |-> payload[n]]

SyncStatuses(lines, status) ==
    IF status \in MutableStatuses \cup LockedStatuses
    THEN [n \in DOMAIN lines |-> [lines[n] EXCEPT !.status = status]]
    ELSE lines

Children(lines, S) == {n \in DOMAIN lines : lines[n].fields.parent \in S}

\* Mutated form of Subtree: grandchildren are left behind.
WithChildren(lines, root) == {root} \cup Children(lines, {root})

\* The line and all that descends from it.
Subtree(lines, root) ==
    {n \in DOMAIN lines : \A S \in SUBSET DOMAIN lines :
        (root \in S /\ Children(lines, S) \subseteq S) => n \in S}

Keep(lines, N) == [n \in N |-> lines[n]]

(***************************************************************************)
(* Guards                                                                  *)
(***************************************************************************)

InvoicesOf(d) == {i \in Invoices : invoices[i].status # "ABSENT" /\ invoices[i].doc = d}

ExportsOf(d) == {x \in DOMAIN exports : exports[x].doc = d}

\* Mutated form of Locked: an exported document is taken for open.
ApprovedOrReversed(d) == docs[d].status \in {"APPROVED", "REVERSED"}

Locked(d) == docs[d].status \in LockedStatuses

\* Mutated form of LinesEditable: captured invoices are overlooked.
EditableDespiteInvoices(d) ==
    /\ ~Locked(d)
    /\ ~docs[d].quoted
    /\ \A n \in DOMAIN docs[d].lines : docs[d].lines[n].fields.manual
    /\ ExportsOf(d) = {}
    /\ docs[d].commitment = "NONE"

\* Mutated form of LinesEditable: only the status is looked at.
EditableWhileOpen(d) == ~Locked(d)

\* _assert_document_line_mutation_allowed.  Match results belong to invoices,
\* so none are left where there is no invoice.
LinesEditable(d) ==
    /\ ~Locked(d)
    /\ ~docs[d].quoted
    /\ \A n \in DOMAIN docs[d].lines : docs[d].lines[n].fields.manual
    /\ InvoicesOf(d) = {}
    /\ ExportsOf(d) = {}
    /\ docs[d].commitment = "NONE"

NumberFree(d, number, others) ==
    \A i \in InvoicesOf(d) \cap others : invoices[i].number # number

Blocked(d) == \E n \in DOMAIN docs[d].lines : docs[d].lines[n].fields.pending

(***************************************************************************)
(* Matching                                                                *)
(***************************************************************************)

SideOf(type) == IF type = "SUPPLIER" THEN "PAYER" ELSE "PAYEE"

\* The posting lines a component of an invoice is compared with.
Expected(lines, type, component) ==
    {n \in Posting(lines) : /\ lines[n].fields.side = SideOf(type)
                            /\ lines[n].fields.component = component}

\* A difference of up to one minor unit is a match.
Verdict(N, amounts, component, variance) ==
    CASE N = {} -> "UNEXPECTED"
      [] component \notin DOMAIN amounts -> "MISSING"
      [] variance \in -1 .. 1 -> "MATCHED"
      [] OTHER -> "VARIANCE"

Result(lines, type, amounts, component) ==
    LET N        == Expected(lines, type, component)
        expected == SumFunctionOnSet(Amounts(lines), N)
        invoiced == IF component \in DOMAIN amounts THEN amounts[component] ELSE 0
    IN  [line     |-> IF N = {} THEN NoValue ELSE Min(N),
         expected |-> expected,
         invoiced |-> invoiced,
         status   |-> Verdict(N, amounts, component, invoiced - expected)]

Compared(lines, type, amounts) ==
    {c \in Components : c \in DOMAIN amounts \/ Expected(lines, type, c) # {}}

Comparison(lines, type, amounts) ==
    [c \in Compared(lines, type, amounts) |-> Result(lines, type, amounts, c)]

NoResults == [c \in {} |-> NoValue]

Outcome(results) ==
    IF \A c \in DOMAIN results : results[c].status = "MATCHED"
    THEN "MATCHED" ELSE "VARIANCE"

(***************************************************************************)
(* Actions on documents                                                    *)
(***************************************************************************)

NoDocument == [status |-> "ABSENT", quoted |-> FALSE, lines |-> NoLines,
               payer |-> 0, payee |-> 0, commitment |-> "NONE"]

NoInvoice == [status |-> "ABSENT", doc |-> NoValue, number |-> NoValue,
              type |-> "SUPPLIER", amounts |-> NoLines, results |-> NoResults]

DocInit ==
    /\ docs = [d \in Documents |-> NoDocument]
    /\ invoices = [i \in Invoices |-> NoInvoice]
    /\ exports = << >>
    /\ quotationPolicy \in Policies

SetPolicy(p) ==
    /\ quotationPolicy' = p
    /\ UNCHANGED <<docs, invoices, exports>>

CreateDocument(d, payload) ==
    /\ docs[d].status = "ABSENT"
    /\ quotationPolicy # "REQUIRED"
    /\ ParentsAllowed(payload)
    /\ docs' = [docs EXCEPT ![d] =
          WithTotals([NoDocument EXCEPT !.status = "ESTIMATED"],
                     NewLines(payload, "ESTIMATED"))]
    /\ UNCHANGED <<invoices, exports, quotationPolicy>>

\* The part award_quote_request has in a document: the totals are those of the
\* option, whatever its lines add up to.
AwardDocument(d, option) ==
    /\ docs[d].status = "ABSENT"
    /\ docs' = [docs EXCEPT ![d] =
          [status |-> "ESTIMATED", quoted |-> TRUE,
           lines |-> NewLines(Stored(option.lines), "ESTIMATED"),
           payer |-> option.payer, payee |-> option.payee, commitment |-> "OPEN"]]
    /\ UNCHANGED <<invoices, exports, quotationPolicy>>

\* update_charge_document_workspace without lines; s is the status asked for or
\* None.  The totals are computed anew in every case.
UpdateDocument(d, s) ==
    LET doc == docs[d]
    IN  /\ doc.status # "ABSENT"
        /\ s # NoValue => ~Locked(d)
        /\ docs' = [docs EXCEPT ![d] =
              IF s = NoValue THEN WithTotals(doc, doc.lines)
              ELSE WithTotals([doc EXCEPT !.status = s], SyncStatuses(doc.lines, s))]
        /\ UNCHANGED <<invoices, exports, quotationPolicy>>

\* The same handler with lines: they replace the old ones.
ReplaceLines(d, s, payload) ==
    LET status == IF s = NoValue THEN docs[d].status ELSE s
    IN  /\ docs[d].status # "ABSENT"
        /\ LinesEditable(d)
        /\ ParentsAllowed(payload)
        /\ docs' = [docs EXCEPT ![d] =
              WithTotals([@ EXCEPT !.status = status], NewLines(payload, status))]
        /\ UNCHANGED <<invoices, exports, quotationPolicy>>

\* A line goes with all its descendants; every line here has a manual source.
DeleteLine(d, n) ==
    LET lines == docs[d].lines
    IN  /\ docs[d].status # "ABSENT"
        /\ LinesEditable(d)
        /\ n \in DOMAIN lines
        /\ lines[n].fields.parent = NoValue
        /\ docs' = [docs EXCEPT ![d] =
              WithTotals(@, Keep(lines, DOMAIN lines \ Subtree(lines, n)))]
        /\ UNCHANGED <<invoices, exports, quotationPolicy>>

DeleteDocument(d) ==
    /\ docs[d].status # "ABSENT"
    /\ LinesEditable(d)
    /\ docs' = [docs EXCEPT ![d] = NoDocument]
    /\ UNCHANGED <<invoices, exports, quotationPolicy>>

\* Mutated form of ApproveDocument: pending lines do not stop it.
ApprovePending(d) ==
    /\ docs[d].status \notin {"ABSENT", "APPROVED", "EXPORTED", "REVERSED", "DISPUTED"}
    /\ docs' = [docs EXCEPT
          ![d].status = "APPROVED",
          ![d].lines = [n \in DOMAIN @ |->
              [fields |-> @[n].fields, status |-> "APPROVED",
               approved |-> @[n].fields.amount]]]
    /\ UNCHANGED <<invoices, exports, quotationPolicy>>

\* No handler sets an actual amount, so the expected one is approved.
ApproveDocument(d) ==
    /\ docs[d].status \notin {"ABSENT", "APPROVED", "EXPORTED", "REVERSED", "DISPUTED"}
    /\ ~Blocked(d)
    /\ docs' = [docs EXCEPT
          ![d].status = "APPROVED",
          ![d].lines = [n \in DOMAIN @ |->
              [fields |-> @[n].fields, status |-> "APPROVED",
               approved |-> @[n].fields.amount]]]
    /\ UNCHANGED <<invoices, exports, quotationPolicy>>

\* Only posting lines go into the batch.
PostExport(d) ==
    LET lines == SyncStatuses(docs[d].lines, "EXPORTED")
    IN  /\ docs[d].status = "APPROVED"
        /\ Len(exports) < MaxExports
        /\ docs' = [docs EXCEPT ![d].status = "EXPORTED", ![d].lines = lines]
        /\ exports' = Append(exports,
              [doc |-> d, lines |-> Keep(lines, Posting(lines)),
               payer |-> docs[d].payer, payee |-> docs[d].payee])
        /\ UNCHANGED <<invoices, quotationPolicy>>

ReverseDocument(d) ==
    /\ docs[d].status \in {"APPROVED", "EXPORTED"}
    /\ docs' = [docs EXCEPT ![d].status = "REVERSED",
                            ![d].lines = SyncStatuses(@, "REVERSED")]
    /\ UNCHANGED <<invoices, exports, quotationPolicy>>

\* The part cancel_quote_commitment has in a document, whatever was done to it
\* unless it is reversed or cancelled already.
CancelWithCommitment(d) ==
    LET doc == docs[d]
    IN  /\ doc.commitment = "OPEN"
        /\ docs' = [docs EXCEPT ![d] =
              IF doc.status \in {"REVERSED", "CANCELLED"}
              THEN [doc EXCEPT !.commitment = "CANCELLED"]
              ELSE [doc EXCEPT !.commitment = "CANCELLED", !.status = "CANCELLED",
                               !.lines = SyncStatuses(doc.lines, "CANCELLED")]]
        /\ UNCHANGED <<invoices, exports, quotationPolicy>>

(***************************************************************************)
(* Actions on invoices                                                     *)
(***************************************************************************)

CreateInvoice(i, d, number, type, amounts) ==
    /\ invoices[i].status = "ABSENT"
    /\ docs[d].status # "ABSENT"
    /\ ~Locked(d)
    /\ NumberFree(d, number, Invoices)
    /\ invoices' = [invoices EXCEPT ![i] =
          [status |-> "CAPTURED", doc |-> d, number |-> number, type |-> type,
           amounts |-> amounts, results |-> NoResults]]
    /\ UNCHANGED <<docs, exports, quotationPolicy>>

\* Mutated form of UpdateInvoice: the old match is not cleared.
UpdateKeepsMatch(i, number, type, amounts) ==
    /\ invoices[i].status # "ABSENT"
    /\ ~Locked(invoices[i].doc)
    /\ NumberFree(invoices[i].doc, number, Invoices \ {i})
    /\ invoices' = [invoices EXCEPT ![i] =
          [@ EXCEPT !.number = number, !.type = type, !.amounts = amounts]]
    /\ UNCHANGED <<docs, exports, quotationPolicy>>

\* Any correction throws the match away; what is not corrected is the old value.
UpdateInvoice(i, number, type, amounts) ==
    /\ invoices[i].status # "ABSENT"
    /\ ~Locked(invoices[i].doc)
    /\ NumberFree(invoices[i].doc, number, Invoices \ {i})
    /\ invoices' = [invoices EXCEPT ![i] =
          [status |-> "CAPTURED", doc |-> @.doc, number |-> number, type |-> type,
           amounts |-> amounts, results |-> NoResults]]
    /\ UNCHANGED <<docs, exports, quotationPolicy>>

\* Matching again replaces the results.
MatchInvoice(i) ==
    LET inv     == invoices[i]
        results == Comparison(docs[inv.doc].lines, inv.type, inv.amounts)
    IN  /\ inv.status # "ABSENT"
        /\ ~Locked(inv.doc)
        /\ invoices' = [invoices EXCEPT ![i].results = results,
                                        ![i].status = Outcome(results)]
        /\ UNCHANGED <<docs, exports, quotationPolicy>>

DeleteInvoice(i) ==
    /\ invoices[i].status # "ABSENT"
    /\ ~Locked(invoices[i].doc)
    /\ invoices' = [invoices EXCEPT ![i] = NoInvoice]
    /\ UNCHANGED <<docs, exports, quotationPolicy>>

(***************************************************************************)
(* The specification                                                       *)
(***************************************************************************)

DocumentStep(d) ==
    \/ \E payload \in Payloads : CreateDocument(d, payload)
    \/ \E option \in Options : AwardDocument(d, option)
    \/ \E s \in MutableStatuses \cup {NoValue} : UpdateDocument(d, s)
    \/ \E s \in MutableStatuses \cup {NoValue}, payload \in Payloads :
          ReplaceLines(d, s, payload)
    \/ \E n \in LineNumbers : DeleteLine(d, n)
    \/ DeleteDocument(d)
    \/ ApproveDocument(d)
    \/ PostExport(d)
    \/ ReverseDocument(d)
    \/ CancelWithCommitment(d)

InvoiceStep(i) ==
    \/ \E d \in Documents, number \in InvoiceNumbers, type \in InvoiceTypes,
          amounts \in InvoiceForms : CreateInvoice(i, d, number, type, amounts)
    \/ \E number \in InvoiceNumbers, type \in InvoiceTypes, amounts \in InvoiceForms :
          UpdateInvoice(i, number, type, amounts)
    \/ MatchInvoice(i)
    \/ DeleteInvoice(i)

DocNext ==
    \/ \E p \in Policies : SetPolicy(p)
    \/ \E d \in Documents : DocumentStep(d)
    \/ \E i \in Invoices : InvoiceStep(i)

DocSpec == DocInit /\ [][DocNext]_docVars

(***************************************************************************)
(* A direct document keeps the promise of a financial record               *)
(***************************************************************************)

IsRecord(d) == docs[d].status # "ABSENT" /\ ~docs[d].quoted

Ledger(doc) ==
    [lines |-> [n \in Posting(doc.lines) |-> doc.lines[n].fields],
     payer |-> doc.payer, payee |-> doc.payee]

\* What an export batch says, in the same form.
Posted(e) ==
    [lines |-> [n \in DOMAIN e.lines |-> e.lines[n].fields],
     payer |-> e.payer, payee |-> e.payee]

RecordPhase(d) ==
    IF ~IsRecord(d) THEN "ABSENT"
    ELSE IF Locked(d) THEN docs[d].status ELSE "OPEN"

RecordLedger(d) == IF IsRecord(d) THEN Ledger(docs[d]) ELSE NoValue

RecordEvidence(d) ==
    {<<i, invoices[i]>> : i \in IF IsRecord(d) THEN InvoicesOf(d) ELSE {}}

RecordPosted(d) ==
    IF IsRecord(d) THEN {Posted(exports[x]) : x \in ExportsOf(d)} ELSE {}

Record == INSTANCE FinancialRecord WITH
    Records  <- Documents,
    NoLedger <- NoValue,
    phase    <- [d \in Documents |-> RecordPhase(d)],
    ledger   <- [d \in Documents |-> RecordLedger(d)],
    evidence <- [d \in Documents |-> RecordEvidence(d)],
    posted   <- [d \in Documents |-> RecordPosted(d)]

\* What is promised of direct documents (core-concepts.md, "Approval, Export,
\* And Reversal"): open for edits and reconciliation until it is approved, then
\* frozen with its invoices, posted at most once, and as it was posted.
IsFinancialRecord == Record!RecordSpec

(***************************************************************************)
(* Properties                                                              *)
(***************************************************************************)

\* Every variable has its type.
DocTypeOK ==
    /\ DOMAIN docs = Documents /\ \A d \in Documents : IsDocument(docs[d])
    /\ DOMAIN invoices = Invoices /\ \A i \in Invoices : IsInvoice(invoices[i])
    /\ \A x \in DOMAIN exports : IsExport(exports[x])
    /\ quotationPolicy \in Policies

\* Nothing is orphaned: no invoice and no export batch outlives its document
\* (delete_charge_document refuses while either exists), and no line outlives
\* its parent (delete_charge_document_line takes the whole subtree).
NothingOrphaned ==
    /\ \A i \in Invoices :
          invoices[i].status # "ABSENT" => docs[invoices[i].doc].status # "ABSENT"
    /\ \A x \in DOMAIN exports : docs[exports[x].doc].status # "ABSENT"
    /\ \A d \in Documents : \A n \in DOMAIN docs[d].lines :
          docs[d].lines[n].fields.parent \in DOMAIN docs[d].lines \cup {NoValue}

\* A match is never stale: what an invoice says about its match is what matching
\* it now would say, although its document can be edited, corrected and
\* cancelled in between, and a captured invoice keeps no old results.  A
\* document whose lines are controlled by a quote is no exception.
MatchIsCurrent ==
    \A i \in Invoices :
        LET inv == invoices[i]
            now == Comparison(docs[inv.doc].lines, inv.type, inv.amounts)
        IN  CASE inv.status \in {"MATCHED", "VARIANCE"} ->
                     inv.results = now /\ inv.status = Outcome(now)
              [] OTHER -> inv.results = NoResults

\* An invoice number is used once in a document, whichever way it got there
\* (create_invoice and update_invoice_workspace check it apart).
InvoiceNumbersUnique ==
    \A i, j \in Invoices :
        (/\ invoices[i].status # "ABSENT" /\ invoices[j].status # "ABSENT"
         /\ invoices[i].doc = invoices[j].doc
         /\ invoices[i].number = invoices[j].number)
        => i = j

\* Behind the approval boundary every line is approved in full and has nothing
\* left to process, however the document got there.
LockedLinesApproved ==
    \A d \in Documents : Locked(d) =>
        \A n \in DOMAIN docs[d].lines :
            /\ docs[d].lines[n].approved = docs[d].lines[n].fields.amount
            /\ ~docs[d].lines[n].fields.pending

\* The lines follow the status of their document through every handler that
\* changes it; only a cancellation leaves them behind.
LinesFollowStatus ==
    \A d \in Documents : docs[d].status # "CANCELLED" =>
        \A n \in DOMAIN docs[d].lines : docs[d].lines[n].status = docs[d].status

\* Invoices, lines and statuses hold together (the three properties above).
DocumentsSound ==
    /\ DocTypeOK
    /\ InvoiceNumbersUnique
    /\ LockedLinesApproved
    /\ LinesFollowStatus

\* The totals of a direct document are those of its posting lines.
DirectTotalsAgree ==
    \A d \in Documents : ~docs[d].quoted =>
        /\ docs[d].payer = Total(docs[d].lines, "PAYER")
        /\ docs[d].payee = Total(docs[d].lines, "PAYEE")

\* "A repeated export call on the same document returns the existing export
\* batch instead of creating a duplicate."
ExportedOnce == \A d \in Documents : Cardinality(ExportsOf(d)) <= 1
=============================================================================
