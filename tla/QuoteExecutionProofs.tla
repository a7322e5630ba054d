------------------------- MODULE QuoteExecutionProofs -------------------------
(***************************************************************************)
(* Proofs about charge documents on their own (DocSpec) and together with  *)
(* the commitments they are awarded with (ExecutionSpec).                  *)
(*                                                                         *)
(* What holds of a document holds of its record alone, so the invariant is *)
(* a predicate on one document (GoodDocument), kept by each operator that  *)
(* makes a new document of an old one, and three facts that tie invoices   *)
(* and export batches to the documents they belong to.                     *)
(***************************************************************************)
EXTENDS QuoteExecution, SequenceTheorems, FiniteSums

(***************************************************************************)
(* Lines                                                                   *)
(***************************************************************************)

\* The same lines but for their statuses and approved amounts.
SameFields(l1, l2) ==
    /\ DOMAIN l1 = DOMAIN l2
    /\ \A n \in DOMAIN l1 : l1[n].fields = l2[n].fields

LEMMA SameFieldsSameComparison ==
    ASSUME NEW l1, NEW l2, SameFields(l1, l2)
    PROVE  /\ Posting(l1) = Posting(l2)
           /\ Amounts(l1) = Amounts(l2)
           /\ \A side : Total(l1, side) = Total(l2, side)
           /\ \A type, amounts : Comparison(l1, type, amounts) = Comparison(l2, type, amounts)
<1>1. Posting(l1) = Posting(l2) /\ Amounts(l1) = Amounts(l2)
  BY DEF SameFields, Posting, Amounts
<1>2. ASSUME NEW side PROVE Total(l1, side) = Total(l2, side)
  <2>1. {n \in Posting(l1) : l1[n].fields.side = side} = {n \in Posting(l2) : l2[n].fields.side = side}
    BY <1>1 DEF SameFields, Posting
  <2>2. QED  BY <1>1, <2>1 DEF Total
<1>3. ASSUME NEW type, NEW amounts
      PROVE  Comparison(l1, type, amounts) = Comparison(l2, type, amounts)
  <2>1. ASSUME NEW c PROVE Expected(l1, type, c) = Expected(l2, type, c)
    BY <1>1 DEF SameFields, Posting, Expected
  <2>2. ASSUME NEW c PROVE Result(l1, type, amounts, c) = Result(l2, type, amounts, c)
    BY <1>1, <2>1 DEF Result
  <2>3. Compared(l1, type, amounts) = Compared(l2, type, amounts)
    BY <2>1 DEF Compared
  <2>4. QED  BY <2>2, <2>3 DEF Comparison
<1>4. QED  BY <1>1, <1>2, <1>3

\* Sums over lines are integers.
LEMMA SumsOfLines ==
    ASSUME NEW lines, IsPartial(lines, LineNumbers, LineType)
    PROVE  /\ \A N \in SUBSET DOMAIN lines : SumFunctionOnSet(Amounts(lines), N) \in Int
           /\ \A side : Total(lines, side) \in Int
<1>1. \A n \in DOMAIN lines : Amounts(lines)[n] \in Int
  BY DEF IsPartial, LineType, FieldsType, Amounts
<1>2. IsFiniteSet(DOMAIN lines)
  BY DocumentConstants, FS_Subset DEF IsPartial
<1>3. ASSUME NEW N \in SUBSET DOMAIN lines
      PROVE  SumFunctionOnSet(Amounts(lines), N) \in Int
  <2>1. IsFiniteSet(N)
    BY <1>2, FS_Subset
  <2>2. \A n \in N : Amounts(lines)[n] \in Int
    BY <1>1
  <2>3. QED  BY <2>1, <2>2, SumTakeOut
<1>4. ASSUME NEW side PROVE Total(lines, side) \in Int
  <2>1. {n \in Posting(lines) : lines[n].fields.side = side} \in SUBSET DOMAIN lines
    BY DEF Posting
  <2>2. QED  BY <1>3, <2>1 DEF Total
<1>5. QED  BY <1>3, <1>4

\* The results of a match have their type.
LEMMA ComparisonType ==
    ASSUME NEW lines, IsPartial(lines, LineNumbers, LineType), NEW type,
           NEW amounts, IsPartial(amounts, Components, Int)
    PROVE  IsPartial(Comparison(lines, type, amounts), Components, ResultType)
<1>1. ASSUME NEW c \in Compared(lines, type, amounts)
      PROVE  Result(lines, type, amounts, c) \in ResultType
  <2> DEFINE N == Expected(lines, type, c)
             expected == SumFunctionOnSet(Amounts(lines), N)
             invoiced == IF c \in DOMAIN amounts THEN amounts[c] ELSE 0
  <2>1. N \in SUBSET DOMAIN lines /\ N \in SUBSET LineNumbers
    BY DEF Expected, Posting, IsPartial
  <2>2. expected \in Int
    BY <2>1, SumsOfLines
  <2>3. invoiced \in Int
    BY DEF IsPartial
  <2>4. N # {} => Min(N) \in LineNumbers
    <3> HAVE N # {}
    <3>1. N \in SUBSET Nat
      BY <2>1, DocumentConstants
    <3>2. \E m \in N : \A x \in N : m <= x
      BY <3>1, LeastExists
    <3>3. Min(N) \in N
      BY <3>2 DEF Min
    <3>4. QED  BY <2>1, <3>3
  <2>5. Verdict(N, amounts, c, invoiced - expected) \in {"MATCHED", "VARIANCE", "UNEXPECTED", "MISSING"}
    BY DEF Verdict
  <2>6. Result(lines, type, amounts, c)
           = [line |-> IF N = {} THEN NoValue ELSE Min(N), expected |-> expected,
              invoiced |-> invoiced, status |-> Verdict(N, amounts, c, invoiced - expected)]
    BY DEF Result
  <2> HIDE DEF N, expected, invoiced
  <2>7. QED  BY <2>2, <2>3, <2>4, <2>5, <2>6 DEF ResultType
<1>2. Compared(lines, type, amounts) \subseteq Components
  BY DEF Compared
<1>3. QED  BY <1>1, <1>2 DEF IsPartial, Comparison

(***************************************************************************)
(* One document                                                            *)
(***************************************************************************)

LinesApproved(lines) ==
    \A n \in DOMAIN lines :
        /\ lines[n].approved = lines[n].fields.amount
        /\ ~lines[n].fields.pending

ParentsKept(lines) ==
    \A n \in DOMAIN lines : lines[n].fields.parent \in DOMAIN lines \cup {NoValue}

TotalsAgree(doc) ==
    /\ doc.payer = Total(doc.lines, "PAYER")
    /\ doc.payee = Total(doc.lines, "PAYEE")

\* What every document keeps.  The commitment tells whether it was awarded, and
\* only a cancelled commitment cancels it.
GoodDocument(doc) ==
    /\ IsDocument(doc)
    /\ doc.status \in LockedStatuses => LinesApproved(doc.lines)
    /\ doc.status # "CANCELLED" => \A n \in DOMAIN doc.lines : doc.lines[n].status = doc.status
    /\ ParentsKept(doc.lines)
    /\ ~doc.quoted => TotalsAgree(doc)
    /\ doc.quoted <=> doc.commitment # "NONE"
    /\ doc.status = "CANCELLED" => doc.commitment = "CANCELLED"
    /\ doc.status = "ABSENT" => doc.commitment = "NONE"

\* A document before it is created and after it is deleted.
LEMMA NoDocumentGood == GoodDocument(NoDocument)
<1>1. DOMAIN NoLines = {}
  BY DEF NoLines
<1>2. IsPartial(NoLines, LineNumbers, LineType)
  BY <1>1 DEF IsPartial
<1>3. ASSUME NEW side PROVE Total(NoLines, side) = 0
  <2>1. {n \in Posting(NoLines) : NoLines[n].fields.side = side} = {}
    BY <1>1 DEF Posting
  <2>2. QED  BY <2>1, SumEmpty DEF Total
<1>4. IsDocument(NoDocument)
  BY <1>2 DEF NoDocument, IsDocument
<1>5. TotalsAgree(NoDocument)
  BY <1>3 DEF TotalsAgree, NoDocument
<1>6. QED
  BY <1>1, <1>4, <1>5 DEF GoodDocument, NoDocument, LinesApproved, ParentsKept, LockedStatuses

\* New lines: parents are among them, and they have the status of the document.
LEMMA NewLinesGood ==
    ASSUME NEW payload, IsPartial(payload, LineNumbers, FieldsType),
           ParentsAllowed(payload) \/ \A n \in DOMAIN payload : payload[n].parent = NoValue,
           NEW s \in MutableStatuses
    PROVE  /\ IsPartial(NewLines(payload, s), LineNumbers, LineType)
           /\ ParentsKept(NewLines(payload, s))
           /\ \A n \in DOMAIN NewLines(payload, s) : NewLines(payload, s)[n].status = s
<1>1. ASSUME NEW n \in DOMAIN payload
      PROVE  /\ [fields |-> payload[n], status |-> s, approved |-> NoValue] \in LineType
             /\ payload[n].parent \in DOMAIN payload \cup {NoValue}
  <2>1. payload[n] \in FieldsType
    BY DEF IsPartial
  <2>2. payload[n].parent \in DOMAIN payload \cup {NoValue}
    BY DEF ParentsAllowed
  <2>3. QED  BY <2>1, <2>2 DEF LineType
<1>2. QED  BY <1>1 DEF NewLines, IsPartial, ParentsKept

\* Whatever lines a direct document that is open is given, its totals follow.
LEMMA WithTotalsGood ==
    ASSUME NEW doc, IsDocument(doc), ~doc.quoted, doc.commitment = "NONE",
           doc.status \in MutableStatuses,
           NEW lines, IsPartial(lines, LineNumbers, LineType), ParentsKept(lines),
           \A n \in DOMAIN lines : lines[n].status = doc.status
    PROVE  GoodDocument(WithTotals(doc, lines))
<1> DEFINE new == WithTotals(doc, lines)
<1>1. /\ DOMAIN new = DOMAIN doc /\ new.status = doc.status /\ new.quoted = doc.quoted
      /\ new.commitment = doc.commitment /\ new.lines = lines
      /\ new.payer = Total(lines, "PAYER") /\ new.payee = Total(lines, "PAYEE")
  BY DEF WithTotals, IsDocument
<1>2. new.payer \in Int /\ new.payee \in Int
  BY <1>1, SumsOfLines
<1> HIDE DEF new
<1>3. IsDocument(new)
  BY <1>1, <1>2 DEF IsDocument
<1>4. new.status \notin LockedStatuses /\ new.status # "CANCELLED" /\ new.status # "ABSENT"
  BY <1>1 DEF MutableStatuses, LockedStatuses
<1>5. GoodDocument(new)
  BY <1>1, <1>3, <1>4 DEF GoodDocument, TotalsAgree
<1>6. QED  BY <1>5 DEF new

\* A document whose lines keep their fields stays good when its status, and the
\* lines' with it, move as they should.
LEMMA RestatedGood ==
    ASSUME NEW doc, GoodDocument(doc), NEW new, IsDocument(new),
           SameFields(new.lines, doc.lines), new.quoted = doc.quoted,
           new.commitment # "NONE" <=> doc.commitment # "NONE",
           TotalsAgree(new) \/ (new.payer = doc.payer /\ new.payee = doc.payee),
           new.status # "ABSENT",
           new.status = "CANCELLED" => new.commitment = "CANCELLED",
           new.status \in LockedStatuses => LinesApproved(new.lines),
           new.status # "CANCELLED" => \A n \in DOMAIN new.lines : new.lines[n].status = new.status
    PROVE  GoodDocument(new)
<1>1. ParentsKept(new.lines)
  BY DEF GoodDocument, ParentsKept, SameFields
<1>2. ASSUME ~new.quoted PROVE TotalsAgree(new)
  <2>1. CASE TotalsAgree(new)
    BY <2>1
  <2>2. CASE new.payer = doc.payer /\ new.payee = doc.payee
    BY <1>2, <2>2, SameFieldsSameComparison DEF GoodDocument, TotalsAgree
  <2>3. QED  BY <2>1, <2>2
<1>3. QED  BY <1>1, <1>2 DEF GoodDocument

\* Lines that take another status keep everything else.
LEMMA SyncedLines ==
    ASSUME NEW lines, IsPartial(lines, LineNumbers, LineType),
           NEW s \in MutableStatuses \cup LockedStatuses
    PROVE  /\ IsPartial(SyncStatuses(lines, s), LineNumbers, LineType)
           /\ SameFields(SyncStatuses(lines, s), lines)
           /\ \A n \in DOMAIN lines : /\ SyncStatuses(lines, s)[n].status = s
                                     /\ SyncStatuses(lines, s)[n].approved = lines[n].approved
<1>1. ASSUME NEW n \in DOMAIN lines
      PROVE  /\ [lines[n] EXCEPT !.status = s] \in LineType
             /\ [lines[n] EXCEPT !.status = s].fields = lines[n].fields
             /\ [lines[n] EXCEPT !.status = s].status = s
             /\ [lines[n] EXCEPT !.status = s].approved = lines[n].approved
  <2>1. lines[n] \in LineType
    BY DEF IsPartial
  <2>2. QED  BY <2>1 DEF LineType
<1>2. SyncStatuses(lines, s) = [n \in DOMAIN lines |-> [lines[n] EXCEPT !.status = s]]
  BY DEF SyncStatuses
<1>3. QED  BY <1>1, <1>2 DEF IsPartial, SameFields

\* CANCELLED is no status of a line: the lines stay as they are.
LEMMA CancelledLines ==
    ASSUME NEW lines
    PROVE  SyncStatuses(lines, "CANCELLED") = lines
BY DEF SyncStatuses, MutableStatuses, LockedStatuses

\* update_charge_document_workspace without lines, with and without a status.
LEMMA UpdateGood ==
    ASSUME NEW doc, GoodDocument(doc), doc.status # "ABSENT"
    PROVE  /\ LET new == WithTotals(doc, doc.lines)
              IN  /\ GoodDocument(new) /\ new.status = doc.status /\ new.quoted = doc.quoted
                  /\ new.commitment = doc.commitment /\ SameFields(new.lines, doc.lines)
           /\ \A s \in MutableStatuses : doc.status \notin LockedStatuses =>
              LET new == WithTotals([doc EXCEPT !.status = s], SyncStatuses(doc.lines, s))
              IN  /\ GoodDocument(new) /\ new.status = s /\ new.quoted = doc.quoted
                  /\ new.commitment = doc.commitment /\ SameFields(new.lines, doc.lines)
<1>1. IsDocument(doc) /\ IsPartial(doc.lines, LineNumbers, LineType)
  BY DEF GoodDocument, IsDocument
<1>2. ASSUME NEW s, NEW lines, IsPartial(lines, LineNumbers, LineType), NEW base,
             IsDocument(base), base.status = s, base.quoted = doc.quoted,
             base.commitment = doc.commitment, SameFields(lines, doc.lines),
             s # "ABSENT", s = "CANCELLED" => doc.commitment = "CANCELLED",
             s \in LockedStatuses => LinesApproved(lines),
             s # "CANCELLED" => \A n \in DOMAIN lines : lines[n].status = s
      PROVE  LET new == WithTotals(base, lines)
             IN  /\ GoodDocument(new) /\ new.status = s /\ new.quoted = doc.quoted
                 /\ new.commitment = doc.commitment /\ SameFields(new.lines, doc.lines)
  <2> DEFINE new == WithTotals(base, lines)
  <2>1. /\ DOMAIN new = DOMAIN base /\ new.status = s /\ new.quoted = doc.quoted
        /\ new.commitment = doc.commitment /\ new.lines = lines
        /\ new.payer = Total(lines, "PAYER") /\ new.payee = Total(lines, "PAYEE")
    BY <1>2 DEF WithTotals, IsDocument
  <2>2. new.payer \in Int /\ new.payee \in Int
    BY <1>2, <2>1, SumsOfLines
  <2> HIDE DEF new
  <2>3. IsDocument(new) /\ TotalsAgree(new)
    BY <1>2, <2>1, <2>2 DEF IsDocument, TotalsAgree
  <2>4. GoodDocument(new)
    BY <1>2, <2>1, <2>3, RestatedGood
  <2>5. QED  BY <1>2, <2>1, <2>4 DEF new
<1>3. SameFields(doc.lines, doc.lines)
  BY DEF SameFields
<1>4. LET new == WithTotals(doc, doc.lines)
      IN  /\ GoodDocument(new) /\ new.status = doc.status /\ new.quoted = doc.quoted
          /\ new.commitment = doc.commitment /\ SameFields(new.lines, doc.lines)
  <2>1. /\ doc.status = "CANCELLED" => doc.commitment = "CANCELLED"
        /\ doc.status \in LockedStatuses => LinesApproved(doc.lines)
        /\ doc.status # "CANCELLED" => \A n \in DOMAIN doc.lines : doc.lines[n].status = doc.status
    BY DEF GoodDocument
  <2>2. QED  BY <1>1, <1>2, <1>3, <2>1
<1>5. ASSUME NEW s \in MutableStatuses, doc.status \notin LockedStatuses
      PROVE  LET new == WithTotals([doc EXCEPT !.status = s], SyncStatuses(doc.lines, s))
             IN  /\ GoodDocument(new) /\ new.status = s /\ new.quoted = doc.quoted
                 /\ new.commitment = doc.commitment /\ SameFields(new.lines, doc.lines)
  <2> DEFINE base == [doc EXCEPT !.status = s]
             lines == SyncStatuses(doc.lines, s)
  <2>1. /\ IsDocument(base) /\ base.status = s /\ base.quoted = doc.quoted
        /\ base.commitment = doc.commitment
    BY <1>1 DEF IsDocument, MutableStatuses
  <2>2. /\ IsPartial(lines, LineNumbers, LineType) /\ SameFields(lines, doc.lines)
        /\ \A n \in DOMAIN lines : lines[n].status = s
    BY <1>1, SyncedLines DEF SameFields
  <2>3. s \notin LockedStatuses /\ s # "CANCELLED" /\ s # "ABSENT"
    BY DEF MutableStatuses, LockedStatuses
  <2> HIDE DEF base, lines
  <2>4. LET new == WithTotals(base, lines)
        IN  /\ GoodDocument(new) /\ new.status = s /\ new.quoted = doc.quoted
            /\ new.commitment = doc.commitment /\ SameFields(new.lines, doc.lines)
    BY <1>2, <2>1, <2>2, <2>3
  <2>5. QED  BY <2>4 DEF base, lines
<1>6. QED  BY <1>4, <1>5

\* approve_document: the lines are approved at their own amounts, and none of
\* them was pending.
LEMMA ApprovedGood ==
    ASSUME NEW doc, GoodDocument(doc), NEW new, DOMAIN new = DOMAIN doc,
           \A n \in DOMAIN doc.lines : ~doc.lines[n].fields.pending,
           new.status = "APPROVED", new.quoted = doc.quoted,
           new.payer = doc.payer, new.payee = doc.payee, new.commitment = doc.commitment,
           new.lines = [n \in DOMAIN doc.lines |->
              [fields |-> doc.lines[n].fields, status |-> "APPROVED",
               approved |-> doc.lines[n].fields.amount]]
    PROVE  GoodDocument(new) /\ SameFields(new.lines, doc.lines)
<1>1. IsDocument(doc) /\ IsPartial(doc.lines, LineNumbers, LineType)
  BY DEF GoodDocument, IsDocument
<1>2. ASSUME NEW n \in DOMAIN doc.lines PROVE new.lines[n] \in LineType
  <2>1. doc.lines[n] \in LineType
    BY <1>1 DEF IsPartial
  <2>2. doc.lines[n].fields \in FieldsType /\ doc.lines[n].fields.amount \in Int
    BY <2>1 DEF LineType, FieldsType
  <2>3. QED  BY <2>2 DEF LineType, LockedStatuses
<1>3. IsPartial(new.lines, LineNumbers, LineType)
  BY <1>1, <1>2 DEF IsPartial
<1>4. IsDocument(new)
  BY <1>1, <1>3 DEF IsDocument, LockedStatuses
<1>5. SameFields(new.lines, doc.lines) /\ LinesApproved(new.lines)
  BY DEF SameFields, LinesApproved
<1>6. \A n \in DOMAIN new.lines : new.lines[n].status = new.status
  OBVIOUS
<1>7. QED  BY <1>4, <1>5, <1>6, RestatedGood

\* post_export and reverse_document: locked lines stay approved.
LEMMA LockedStaysGood ==
    ASSUME NEW doc, GoodDocument(doc), doc.status \in LockedStatuses,
           NEW s \in LockedStatuses, NEW new, DOMAIN new = DOMAIN doc,
           new.status = s, new.quoted = doc.quoted,
           new.payer = doc.payer, new.payee = doc.payee, new.commitment = doc.commitment,
           new.lines = SyncStatuses(doc.lines, s)
    PROVE  GoodDocument(new) /\ SameFields(new.lines, doc.lines)
<1>1. IsDocument(doc) /\ IsPartial(doc.lines, LineNumbers, LineType)
  BY DEF GoodDocument, IsDocument
<1>2. /\ IsPartial(new.lines, LineNumbers, LineType) /\ SameFields(new.lines, doc.lines)
      /\ \A n \in DOMAIN doc.lines : /\ new.lines[n].status = s
                                    /\ new.lines[n].approved = doc.lines[n].approved
  BY <1>1, SyncedLines
<1>3. IsDocument(new)
  BY <1>1, <1>2 DEF IsDocument
<1>4. LinesApproved(new.lines)
  BY <1>2 DEF GoodDocument, LinesApproved, SameFields
<1>5. \A n \in DOMAIN new.lines : new.lines[n].status = new.status
  BY <1>2 DEF SameFields
<1>6. s # "ABSENT" /\ s # "CANCELLED"
  BY DEF LockedStatuses
<1>7. QED  BY <1>2, <1>3, <1>4, <1>5, <1>6, RestatedGood

\* cancel_quote_commitment: a reversed document keeps its status, any other is
\* cancelled with its lines as they were.
LEMMA CancelledGood ==
    ASSUME NEW doc, GoodDocument(doc), doc.commitment = "OPEN",
           NEW new, DOMAIN new = DOMAIN doc,
           new.quoted = doc.quoted, new.payer = doc.payer, new.payee = doc.payee,
           new.commitment = "CANCELLED", new.lines = doc.lines,
           \/ (doc.status \in {"REVERSED", "CANCELLED"} /\ new.status = doc.status)
           \/ new.status = "CANCELLED"
    PROVE  GoodDocument(new) /\ new.status # "ABSENT" /\ SameFields(new.lines, doc.lines)
<1>1. IsDocument(doc) /\ IsPartial(doc.lines, LineNumbers, LineType)
  BY DEF GoodDocument, IsDocument
<1>2. IsDocument(new)
  BY <1>1 DEF IsDocument
<1>3. new.status # "ABSENT" /\ SameFields(new.lines, doc.lines)
  BY DEF SameFields
<1>4. /\ new.status \in LockedStatuses => LinesApproved(new.lines)
      /\ new.status # "CANCELLED" => \A n \in DOMAIN new.lines : new.lines[n].status = new.status
  BY DEF GoodDocument, LockedStatuses
<1>5. QED  BY <1>2, <1>3, <1>4, RestatedGood

\* What is left when a line goes with all that descends from it has its parents.
LEMMA SubtreeTakesChildren ==
    ASSUME NEW lines, ParentsKept(lines), NEW root \in DOMAIN lines
    PROVE  ParentsKept(Keep(lines, DOMAIN lines \ Subtree(lines, root)))
<1>1. ASSUME NEW n \in DOMAIN lines, lines[n].fields.parent \in Subtree(lines, root)
      PROVE  n \in Subtree(lines, root)
  <2> SUFFICES ASSUME NEW S \in SUBSET DOMAIN lines, root \in S, Children(lines, S) \subseteq S
               PROVE  n \in S
    BY DEF Subtree
  <2>1. lines[n].fields.parent \in S
    BY <1>1 DEF Subtree
  <2>2. QED  BY <2>1 DEF Children
<1>2. QED  BY <1>1 DEF ParentsKept, Keep

LEMMA KeptLines ==
    ASSUME NEW lines, IsPartial(lines, LineNumbers, LineType), NEW N \in SUBSET DOMAIN lines
    PROVE  /\ IsPartial(Keep(lines, N), LineNumbers, LineType)
           /\ \A n \in N : Keep(lines, N)[n] = lines[n]
           /\ DOMAIN Keep(lines, N) = N
BY DEF IsPartial, Keep

(***************************************************************************)
(* The invariant of documents, invoices and export batches                 *)
(***************************************************************************)

ExportRecords ==
    [doc : Documents, lines : UNION {[N -> LineType] : N \in SUBSET LineNumbers},
     payer : Int, payee : Int]

\* No invoice without its document.
InvoicesBelong ==
    \A i \in Invoices :
        invoices[i].status # "ABSENT" => docs[invoices[i].doc].status # "ABSENT"

\* No export batch without its document, and no second one before the
\* commitment is cancelled: until then only the export moves a document to
\* EXPORTED, and nothing takes it out of EXPORTED and REVERSED.
ExportsBelong ==
    /\ \A x \in DOMAIN exports : docs[exports[x].doc].status # "ABSENT"
    /\ \A d \in Documents : docs[d].commitment # "CANCELLED" =>
          /\ docs[d].status \notin {"EXPORTED", "REVERSED"} => ExportsOf(d) = {}
          /\ \A x, y \in ExportsOf(d) : x = y

DocInv ==
    /\ DOMAIN docs = Documents /\ \A d \in Documents : GoodDocument(docs[d])
    /\ DOMAIN invoices = Invoices /\ \A i \in Invoices : IsInvoice(invoices[i])
    /\ exports \in Seq(ExportRecords)
    /\ quotationPolicy \in Policies
    /\ InvoicesBelong
    /\ InvoiceNumbersUnique
    /\ MatchIsCurrent
    /\ ExportsBelong

LEMMA DocInitInv == DocInit => DocInv
<1> SUFFICES ASSUME DocInit PROVE DocInv
  OBVIOUS
<1>1. DOMAIN docs = Documents /\ \A d \in Documents : docs[d] = NoDocument
  BY DEF DocInit
<1>2. DOMAIN invoices = Invoices /\ \A i \in Invoices : invoices[i] = NoInvoice
  BY DEF DocInit
<1>3. IsInvoice(NoInvoice)
  BY DEF NoInvoice, IsInvoice, IsPartial, NoLines, NoResults, InvoiceTypes
<1>4. exports = << >> /\ exports \in Seq(ExportRecords) /\ quotationPolicy \in Policies
  BY DEF DocInit
<1>5. \A d \in Documents : GoodDocument(docs[d])
  BY <1>1, NoDocumentGood
<1>6. InvoicesBelong /\ InvoiceNumbersUnique /\ MatchIsCurrent
  BY <1>2 DEF InvoicesBelong, InvoiceNumbersUnique, MatchIsCurrent, NoInvoice
<1>7. ExportsBelong
  BY <1>4 DEF ExportsBelong, ExportsOf
<1>8. QED  BY <1>1, <1>2, <1>3, <1>4, <1>5, <1>6, <1>7 DEF DocInv

(***************************************************************************)
(* Steps of a document                                                     *)
(***************************************************************************)

\* An invoice or an export batch of a document that was never there: none.
LEMMA AbsentHasNothing ==
    ASSUME DocInv, NEW d \in Documents, docs[d].status = "ABSENT"
    PROVE  InvoicesOf(d) = {} /\ ExportsOf(d) = {}
BY DEF DocInv, InvoicesBelong, ExportsBelong, InvoicesOf, ExportsOf

LEMMA ExportsTyped ==
    ASSUME DocInv
    PROVE  \A x \in DOMAIN exports : exports[x] \in ExportRecords /\ exports[x].doc \in Documents
<1>1. \A x \in DOMAIN exports : exports[x] \in ExportRecords
  BY DEF DocInv
<1>2. QED  BY <1>1 DEF ExportRecords

\* What a step of one document must do for its invoices and export batches.
DocumentMay(d) ==
    /\ DOMAIN docs' = Documents
    /\ \A e \in Documents \ {d} : docs'[e] = docs[e]
    /\ GoodDocument(docs'[d])
    /\ docs[d].status # "ABSENT" => docs'[d].status # "ABSENT" \/ (InvoicesOf(d) = {} /\ ExportsOf(d) = {})
    /\ SameFields(docs'[d].lines, docs[d].lines) \/ InvoicesOf(d) = {}
    /\ UNCHANGED <<invoices, exports, quotationPolicy>>

\* The exports of d stay what they should be.
ExportsMay(d) ==
    \/ ExportsOf(d) = {}
    \/ docs'[d].commitment = "CANCELLED"
    \/ /\ docs'[d].commitment = docs[d].commitment
       /\ docs[d].status \in {"EXPORTED", "REVERSED"} => docs'[d].status \in {"EXPORTED", "REVERSED"}

\* The invoices keep what they owe their document through a step of it.
LEMMA InvoicesStay ==
    ASSUME DocInv, NEW d \in Documents, invoices' = invoices, DOMAIN docs' = Documents,
           \A e \in Documents \ {d} : docs'[e] = docs[e],
           docs'[d].status # "ABSENT" \/ InvoicesOf(d) = {},
           SameFields(docs'[d].lines, docs[d].lines) \/ InvoicesOf(d) = {}
    PROVE  InvoicesBelong' /\ InvoiceNumbersUnique' /\ MatchIsCurrent'
<1>1. \A i \in Invoices : invoices[i].status # "ABSENT" => invoices[i].doc \in Documents
  BY DEF DocInv, IsInvoice
<1>2. InvoicesBelong'
  BY <1>1 DEF DocInv, InvoicesBelong, InvoicesOf
<1>3. InvoiceNumbersUnique'
  BY DEF DocInv, InvoiceNumbersUnique
<1>4. MatchIsCurrent'
  <2> SUFFICES ASSUME NEW i \in Invoices, invoices[i].status \in {"MATCHED", "VARIANCE"}
               PROVE  Comparison(docs'[invoices[i].doc].lines, invoices[i].type, invoices[i].amounts)
                        = Comparison(docs[invoices[i].doc].lines, invoices[i].type, invoices[i].amounts)
    BY DEF DocInv, MatchIsCurrent
  <2>1. invoices[i].doc \in Documents /\ i \in InvoicesOf(invoices[i].doc)
    BY <1>1 DEF InvoicesOf
  <2>2. CASE invoices[i].doc # d
    BY <2>1, <2>2
  <2>3. CASE invoices[i].doc = d
    BY <2>1, <2>3, SameFieldsSameComparison
  <2>4. QED  BY <2>2, <2>3
<1>5. QED  BY <1>2, <1>3, <1>4

LEMMA DocumentKeepsInv ==
    ASSUME DocInv, NEW d \in Documents, DocumentMay(d), ExportsMay(d)
    PROVE  DocInv'
<1>1. docs'[d].status # "ABSENT" \/ (InvoicesOf(d) = {} /\ ExportsOf(d) = {})
  BY AbsentHasNothing DEF DocumentMay
<1>2. InvoicesBelong' /\ InvoiceNumbersUnique' /\ MatchIsCurrent'
  BY <1>1, InvoicesStay DEF DocumentMay
<1>3. \A e \in Documents : ExportsOf(e)' = ExportsOf(e)
  BY DEF DocumentMay, ExportsOf
<1>4. ExportsBelong'
  <2>1. \A x \in DOMAIN exports : docs'[exports[x].doc].status # "ABSENT"
    <3>1. \A x \in DOMAIN exports : exports[x].doc \in Documents
      BY ExportsTyped
    <3>2. QED  BY <1>1, <3>1 DEF DocInv, ExportsBelong, ExportsOf, DocumentMay
  <2>2. ASSUME NEW e \in Documents, docs'[e].commitment # "CANCELLED"
        PROVE  /\ docs'[e].status \notin {"EXPORTED", "REVERSED"} => ExportsOf(e) = {}
               /\ \A x, y \in ExportsOf(e) : x = y
    <3>1. CASE e # d
      BY <2>2, <3>1 DEF DocInv, ExportsBelong, DocumentMay
    <3>2. CASE e = d
      BY <2>2, <3>2 DEF DocInv, ExportsBelong, ExportsMay
    <3>3. QED  BY <3>1, <3>2
  <2>3. QED  BY <1>3, <2>1, <2>2 DEF ExportsBelong, DocumentMay
<1>5. \A e \in Documents : GoodDocument(docs[e])'
  <2>1. ASSUME NEW e \in Documents PROVE GoodDocument(docs'[e])
    BY DEF DocInv, DocumentMay
  <2>2. QED  BY <2>1 DEF GoodDocument, IsDocument, TotalsAgree
<1>6. QED  BY <1>2, <1>4, <1>5 DEF DocInv, DocumentMay

\* An action of a document, the condition it adds and what it makes of it.
LEMMA CreateKeepsInv ==
    ASSUME DocInv, NEW d \in Documents, NEW payload \in Payloads, CreateDocument(d, payload)
    PROVE  DocInv'
<1> DEFINE base == [NoDocument EXCEPT !.status = "ESTIMATED"]
           lines == NewLines(payload, "ESTIMATED")
           new == WithTotals(base, lines)
<1>1. /\ IsDocument(base) /\ ~base.quoted /\ base.commitment = "NONE" /\ base.status = "ESTIMATED"
  BY NoDocumentGood DEF GoodDocument, IsDocument, NoDocument, MutableStatuses
<1>2. /\ IsPartial(lines, LineNumbers, LineType) /\ ParentsKept(lines)
      /\ \A n \in DOMAIN lines : lines[n].status = "ESTIMATED"
  BY DocumentConstants, NewLinesGood DEF CreateDocument, MutableStatuses
<1>3. docs' = [docs EXCEPT ![d] = new] /\ docs[d].status = "ABSENT"
  BY DEF CreateDocument
<1> HIDE DEF base, lines
<1>4. GoodDocument(new)
  BY <1>1, <1>2, WithTotalsGood DEF MutableStatuses
<1> HIDE DEF new
<1>5. DocumentMay(d) /\ ExportsMay(d)
  BY <1>3, <1>4, AbsentHasNothing DEF DocumentMay, ExportsMay, DocInv, CreateDocument
<1>6. QED  BY <1>5, DocumentKeepsInv

LEMMA AwardKeepsInv ==
    ASSUME DocInv, NEW d \in Documents, NEW option \in Options, AwardDocument(d, option)
    PROVE  DocInv'
<1> DEFINE lines == NewLines(Stored(option.lines), "ESTIMATED")
           new == [status |-> "ESTIMATED", quoted |-> TRUE, lines |-> lines,
                   payer |-> option.payer, payee |-> option.payee, commitment |-> "OPEN"]
<1>1. /\ IsPartial(Stored(option.lines), LineNumbers, FieldsType)
      /\ \A n \in DOMAIN Stored(option.lines) : Stored(option.lines)[n].parent = NoValue
  BY DocumentConstants DEF IsPartial, Stored
<1>2. /\ IsPartial(lines, LineNumbers, LineType) /\ ParentsKept(lines)
      /\ \A n \in DOMAIN lines : lines[n].status = "ESTIMATED"
  BY <1>1, NewLinesGood DEF MutableStatuses
<1>3. docs' = [docs EXCEPT ![d] = new] /\ docs[d].status = "ABSENT"
  BY DEF AwardDocument
<1> HIDE DEF lines
<1>4. GoodDocument(new)
  BY <1>2, DocumentConstants DEF GoodDocument, IsDocument, MutableStatuses, LockedStatuses
<1> HIDE DEF new
<1>5. DocumentMay(d) /\ ExportsMay(d)
  BY <1>3, <1>4, AbsentHasNothing DEF DocumentMay, ExportsMay, DocInv, AwardDocument
<1>6. QED  BY <1>5, DocumentKeepsInv

LEMMA UpdateKeepsInv ==
    ASSUME DocInv, NEW d \in Documents, NEW s \in MutableStatuses \cup {NoValue},
           UpdateDocument(d, s)
    PROVE  DocInv'
<1>1. /\ GoodDocument(docs[d]) /\ docs[d].status # "ABSENT" /\ DOMAIN docs = Documents
      /\ UNCHANGED <<invoices, exports, quotationPolicy>>
  BY DEF DocInv, UpdateDocument
<1>2. CASE s = NoValue
  <2> DEFINE new == WithTotals(docs[d], docs[d].lines)
  <2>1. docs' = [docs EXCEPT ![d] = new]
    BY <1>2 DEF UpdateDocument
  <2>2. /\ GoodDocument(new) /\ new.status = docs[d].status
        /\ new.commitment = docs[d].commitment /\ SameFields(new.lines, docs[d].lines)
    BY <1>1, UpdateGood
  <2> HIDE DEF new
  <2>3. DOMAIN docs' = Documents /\ docs'[d] = new /\ \A e \in Documents \ {d} : docs'[e] = docs[e]
    BY <1>1, <2>1
  <2>4. DocumentMay(d)
    <3>1. SameFields(docs'[d].lines, docs[d].lines) /\ GoodDocument(docs'[d])
      BY <2>2, <2>3, Zenon
    <3>2. docs'[d].status # "ABSENT"
      BY <1>1, <2>2, <2>3
    <3>3. QED  BY <1>1, <2>3, <3>1, <3>2 DEF DocumentMay
  <2>5. ExportsMay(d)
    BY <2>2, <2>3 DEF ExportsMay
  <2>6. QED  BY <2>4, <2>5, DocumentKeepsInv
<1>3. CASE s # NoValue
  <2> DEFINE new == WithTotals([docs[d] EXCEPT !.status = s], SyncStatuses(docs[d].lines, s))
  <2>1. docs' = [docs EXCEPT ![d] = new] /\ s \in MutableStatuses
        /\ docs[d].status \notin LockedStatuses
    BY <1>3 DEF UpdateDocument, Locked
  <2>2. /\ GoodDocument(new) /\ new.status = s
        /\ new.commitment = docs[d].commitment /\ SameFields(new.lines, docs[d].lines)
    BY <1>1, <2>1, UpdateGood
  <2> HIDE DEF new
  <2>3. DOMAIN docs' = Documents /\ docs'[d] = new /\ \A e \in Documents \ {d} : docs'[e] = docs[e]
    BY <1>1, <2>1
  <2>4. DocumentMay(d)
    <3>1. SameFields(docs'[d].lines, docs[d].lines) /\ GoodDocument(docs'[d])
      BY <2>2, <2>3, Zenon
    <3>2. docs'[d].status # "ABSENT"
      BY <2>1, <2>2, <2>3 DEF MutableStatuses
    <3>3. QED  BY <1>1, <2>3, <3>1, <3>2 DEF DocumentMay
  <2>5. ExportsMay(d)
    BY <2>1, <2>2, <2>3 DEF ExportsMay, LockedStatuses
  <2>6. QED  BY <2>4, <2>5, DocumentKeepsInv
<1>4. QED  BY <1>2, <1>3

\* What may still be edited: a direct document that is open, with no invoice and
\* no export batch.
LEMMA EditableDirect ==
    ASSUME DocInv, NEW d \in Documents, docs[d].status # "ABSENT", LinesEditable(d)
    PROVE  /\ IsDocument(docs[d]) /\ docs[d].status \in MutableStatuses
           /\ ~docs[d].quoted /\ docs[d].commitment = "NONE"
           /\ InvoicesOf(d) = {} /\ ExportsOf(d) = {}
BY DEF DocInv, GoodDocument, IsDocument, LinesEditable, Locked

LEMMA ReplaceKeepsInv ==
    ASSUME DocInv, NEW d \in Documents, NEW s \in MutableStatuses \cup {NoValue},
           NEW payload \in Payloads, ReplaceLines(d, s, payload)
    PROVE  DocInv'
<1> DEFINE t == IF s = NoValue THEN docs[d].status ELSE s
           base == [docs[d] EXCEPT !.status = t]
           lines == NewLines(payload, t)
           new == WithTotals(base, lines)
<1>1. /\ IsDocument(docs[d]) /\ docs[d].status \in MutableStatuses
      /\ ~docs[d].quoted /\ docs[d].commitment = "NONE"
      /\ InvoicesOf(d) = {} /\ ExportsOf(d) = {}
  BY EditableDirect DEF ReplaceLines
<1>2. t \in MutableStatuses
  BY <1>1
<1>3. docs' = [docs EXCEPT ![d] = new]
  BY DEF ReplaceLines
<1> HIDE DEF t
<1>4. IsDocument(base) /\ ~base.quoted /\ base.commitment = "NONE" /\ base.status = t
  BY <1>1, <1>2 DEF IsDocument
<1>5. /\ IsPartial(lines, LineNumbers, LineType) /\ ParentsKept(lines)
      /\ \A n \in DOMAIN lines : lines[n].status = t
  BY <1>2, DocumentConstants, NewLinesGood DEF ReplaceLines
<1> HIDE DEF base, lines
<1>6. GoodDocument(new) /\ new.status = t /\ new.commitment = "NONE"
  <2>1. GoodDocument(new)
    BY <1>2, <1>4, <1>5, WithTotalsGood
  <2>2. QED  BY <1>4, <2>1 DEF WithTotals, IsDocument
<1> HIDE DEF new
<1>7. DocumentMay(d) /\ ExportsMay(d)
  BY <1>1, <1>3, <1>6 DEF DocumentMay, ExportsMay, DocInv, ReplaceLines
<1>8. QED  BY <1>7, DocumentKeepsInv

LEMMA DeleteLineKeepsInv ==
    ASSUME DocInv, NEW d \in Documents, NEW n \in LineNumbers, DeleteLine(d, n)
    PROVE  DocInv'
<1> DEFINE doc == docs[d]
           lines == Keep(doc.lines, DOMAIN doc.lines \ Subtree(doc.lines, n))
           new == WithTotals(doc, lines)
<1>1. /\ IsDocument(doc) /\ doc.status \in MutableStatuses
      /\ ~doc.quoted /\ doc.commitment = "NONE"
      /\ InvoicesOf(d) = {} /\ ExportsOf(d) = {}
  BY EditableDirect DEF DeleteLine
<1>2. docs' = [docs EXCEPT ![d] = new] /\ n \in DOMAIN doc.lines
  BY DEF DeleteLine
<1>3. /\ ParentsKept(doc.lines) /\ IsPartial(doc.lines, LineNumbers, LineType)
      /\ \A m \in DOMAIN doc.lines : doc.lines[m].status = doc.status
  BY <1>1 DEF DocInv, GoodDocument, IsDocument, MutableStatuses
<1> HIDE DEF doc
<1>4. /\ IsPartial(lines, LineNumbers, LineType) /\ ParentsKept(lines)
      /\ \A m \in DOMAIN lines : lines[m].status = doc.status
  BY <1>2, <1>3, KeptLines, SubtreeTakesChildren
<1> HIDE DEF lines
<1>5. GoodDocument(new)
  BY <1>1, <1>4, WithTotalsGood
<1>6. new.status = doc.status /\ new.commitment = "NONE"
  BY <1>1 DEF WithTotals, IsDocument
<1> HIDE DEF new
<1>7. DocumentMay(d) /\ ExportsMay(d)
  BY <1>1, <1>2, <1>5, <1>6 DEF DocumentMay, ExportsMay, DocInv, DeleteLine
<1>8. QED  BY <1>7, DocumentKeepsInv

LEMMA DeleteKeepsInv ==
    ASSUME DocInv, NEW d \in Documents, DeleteDocument(d)
    PROVE  DocInv'
<1>1. InvoicesOf(d) = {} /\ ExportsOf(d) = {}
  BY EditableDirect DEF DeleteDocument
<1>2. DocumentMay(d) /\ ExportsMay(d)
  BY <1>1, NoDocumentGood DEF DocumentMay, ExportsMay, DocInv, DeleteDocument
<1>3. QED  BY <1>2, DocumentKeepsInv

LEMMA ApproveKeepsInv ==
    ASSUME DocInv, NEW d \in Documents, ApproveDocument(d)
    PROVE  DocInv'
<1>1. GoodDocument(docs[d]) /\ IsDocument(docs[d]) /\ DOMAIN docs = Documents
  BY DEF DocInv, GoodDocument
<1>2. /\ DOMAIN docs' = Documents /\ \A e \in Documents \ {d} : docs'[e] = docs[e]
      /\ DOMAIN docs'[d] = DOMAIN docs[d]
      /\ docs'[d].status = "APPROVED" /\ docs'[d].quoted = docs[d].quoted
      /\ docs'[d].payer = docs[d].payer /\ docs'[d].payee = docs[d].payee
      /\ docs'[d].commitment = docs[d].commitment
      /\ docs'[d].lines = [n \in DOMAIN docs[d].lines |->
              [fields |-> docs[d].lines[n].fields, status |-> "APPROVED",
               approved |-> docs[d].lines[n].fields.amount]]
  BY <1>1 DEF ApproveDocument, IsDocument
<1>3. \A n \in DOMAIN docs[d].lines : ~docs[d].lines[n].fields.pending
  BY DEF ApproveDocument, Blocked
<1>4. GoodDocument(docs'[d]) /\ SameFields(docs'[d].lines, docs[d].lines)
  BY <1>1, <1>2, <1>3, ApprovedGood
<1>5. DocumentMay(d) /\ ExportsMay(d)
  BY <1>2, <1>4 DEF DocumentMay, ExportsMay, ApproveDocument
<1>6. QED  BY <1>5, DocumentKeepsInv

LEMMA ReverseDocumentKeepsInv ==
    ASSUME DocInv, NEW d \in Documents, ReverseDocument(d)
    PROVE  DocInv'
<1>1. /\ GoodDocument(docs[d]) /\ IsDocument(docs[d]) /\ DOMAIN docs = Documents
      /\ docs[d].status \in LockedStatuses
  BY DEF DocInv, GoodDocument, ReverseDocument, LockedStatuses
<1>2. /\ DOMAIN docs' = Documents /\ \A e \in Documents \ {d} : docs'[e] = docs[e]
      /\ DOMAIN docs'[d] = DOMAIN docs[d]
      /\ docs'[d].status = "REVERSED" /\ docs'[d].quoted = docs[d].quoted
      /\ docs'[d].payer = docs[d].payer /\ docs'[d].payee = docs[d].payee
      /\ docs'[d].commitment = docs[d].commitment
      /\ docs'[d].lines = SyncStatuses(docs[d].lines, "REVERSED")
  BY <1>1 DEF ReverseDocument, IsDocument
<1>3. GoodDocument(docs'[d]) /\ SameFields(docs'[d].lines, docs[d].lines)
  BY <1>1, <1>2, LockedStaysGood DEF LockedStatuses
<1>4. DocumentMay(d) /\ ExportsMay(d)
  BY <1>2, <1>3 DEF DocumentMay, ExportsMay, ReverseDocument
<1>5. QED  BY <1>4, DocumentKeepsInv

LEMMA CancelWithCommitmentKeepsInv ==
    ASSUME DocInv, NEW d \in Documents, CancelWithCommitment(d)
    PROVE  DocInv'
<1>1. /\ GoodDocument(docs[d]) /\ IsDocument(docs[d]) /\ DOMAIN docs = Documents
      /\ docs[d].commitment = "OPEN"
  BY DEF DocInv, GoodDocument, CancelWithCommitment
<1>2. /\ DOMAIN docs' = Documents /\ \A e \in Documents \ {d} : docs'[e] = docs[e]
      /\ DOMAIN docs'[d] = DOMAIN docs[d]
      /\ docs'[d].quoted = docs[d].quoted
      /\ docs'[d].payer = docs[d].payer /\ docs'[d].payee = docs[d].payee
      /\ docs'[d].commitment = "CANCELLED"
      /\ docs'[d].lines = docs[d].lines
      /\ \/ (docs[d].status \in {"REVERSED", "CANCELLED"} /\ docs'[d].status = docs[d].status)
         \/ docs'[d].status = "CANCELLED"
  <2>1. CASE docs[d].status \in {"REVERSED", "CANCELLED"}
    BY <1>1, <2>1 DEF CancelWithCommitment, IsDocument
  <2>2. CASE docs[d].status \notin {"REVERSED", "CANCELLED"}
    <3>1. SyncStatuses(docs[d].lines, "CANCELLED") = docs[d].lines
      BY CancelledLines
    <3>2. QED  BY <1>1, <2>2, <3>1 DEF CancelWithCommitment, IsDocument
  <2>3. QED  BY <2>1, <2>2
<1>3. GoodDocument(docs'[d]) /\ docs'[d].status # "ABSENT" /\ SameFields(docs'[d].lines, docs[d].lines)
  BY <1>1, <1>2, CancelledGood
<1>4. DocumentMay(d) /\ ExportsMay(d)
  BY <1>2, <1>3 DEF DocumentMay, ExportsMay, CancelWithCommitment
<1>5. QED  BY <1>4, DocumentKeepsInv

\* What post_export does to the document and to the list of batches.
LEMMA PostEffect ==
    ASSUME DocInv, NEW d \in Documents, PostExport(d)
    PROVE  /\ docs[d].status = "APPROVED"
           /\ DOMAIN docs' = Documents /\ \A e \in Documents \ {d} : docs'[e] = docs[e]
           /\ docs'[d].status = "EXPORTED" /\ docs'[d].quoted = docs[d].quoted
           /\ docs'[d].payer = docs[d].payer /\ docs'[d].payee = docs[d].payee
           /\ docs'[d].commitment = docs[d].commitment
           /\ GoodDocument(docs'[d]) /\ SameFields(docs'[d].lines, docs[d].lines)
           /\ exports' \in Seq(ExportRecords) /\ Len(exports') = Len(exports) + 1
           /\ \A x \in 1 .. Len(exports) : exports'[x] = exports[x]
           /\ exports'[Len(exports) + 1]
                 = [doc |-> d, lines |-> Keep(docs'[d].lines, Posting(docs'[d].lines)),
                    payer |-> docs[d].payer, payee |-> docs[d].payee]
           /\ UNCHANGED <<invoices, quotationPolicy>>
<1> DEFINE lines == SyncStatuses(docs[d].lines, "EXPORTED")
           batch == [doc |-> d, lines |-> Keep(lines, Posting(lines)),
                     payer |-> docs[d].payer, payee |-> docs[d].payee]
<1>1. /\ GoodDocument(docs[d]) /\ IsDocument(docs[d]) /\ DOMAIN docs = Documents
      /\ docs[d].status = "APPROVED"
  BY DEF DocInv, GoodDocument, PostExport
<1>2. /\ DOMAIN docs' = Documents /\ \A e \in Documents \ {d} : docs'[e] = docs[e]
      /\ DOMAIN docs'[d] = DOMAIN docs[d]
      /\ docs'[d].status = "EXPORTED" /\ docs'[d].quoted = docs[d].quoted
      /\ docs'[d].payer = docs[d].payer /\ docs'[d].payee = docs[d].payee
      /\ docs'[d].commitment = docs[d].commitment
      /\ docs'[d].lines = lines
  BY <1>1 DEF PostExport, IsDocument
<1>3. exports' = Append(exports, batch) /\ UNCHANGED <<invoices, quotationPolicy>>
  BY DEF PostExport
<1>4. GoodDocument(docs'[d]) /\ SameFields(docs'[d].lines, docs[d].lines)
  BY <1>1, <1>2, LockedStaysGood DEF LockedStatuses
<1>5. batch \in ExportRecords
  <2>1. IsPartial(lines, LineNumbers, LineType)
    BY <1>2, <1>4 DEF GoodDocument, IsDocument
  <2> HIDE DEF lines
  <2>2. IsPartial(Keep(lines, Posting(lines)), LineNumbers, LineType)
    BY <2>1, KeptLines DEF Posting
  <2>3. docs[d].payer \in Int /\ docs[d].payee \in Int
    BY <1>1 DEF IsDocument
  <2>4. QED  BY <2>2, <2>3 DEF ExportRecords, IsPartial
<1>6. exports \in Seq(ExportRecords)
  BY DEF DocInv
<1> HIDE DEF lines, batch
<1>7. /\ exports' \in Seq(ExportRecords) /\ Len(exports') = Len(exports) + 1
      /\ \A x \in 1 .. Len(exports) : exports'[x] = exports[x]
      /\ exports'[Len(exports) + 1] = batch
  BY <1>3, <1>5, <1>6
<1>8. QED  BY <1>1, <1>2, <1>3, <1>4, <1>7 DEF batch

LEMMA PostKeepsInv ==
    ASSUME DocInv, NEW d \in Documents, PostExport(d)
    PROVE  DocInv'
<1> DEFINE last == Len(exports) + 1
<1>1. /\ docs[d].status = "APPROVED"
      /\ DOMAIN docs' = Documents /\ \A e \in Documents \ {d} : docs'[e] = docs[e]
      /\ docs'[d].status = "EXPORTED" /\ docs'[d].commitment = docs[d].commitment
      /\ GoodDocument(docs'[d]) /\ SameFields(docs'[d].lines, docs[d].lines)
      /\ exports' \in Seq(ExportRecords) /\ Len(exports') = Len(exports) + 1
      /\ \A x \in 1 .. Len(exports) : exports'[x] = exports[x]
      /\ UNCHANGED <<invoices, quotationPolicy>>
      /\ exports'[last] = [doc |-> d, lines |-> Keep(docs'[d].lines, Posting(docs'[d].lines)),
                           payer |-> docs[d].payer, payee |-> docs[d].payee]
      /\ exports'[last].doc = d
  BY PostEffect
<1>2. /\ DOMAIN exports = 1 .. Len(exports) /\ Len(exports) \in Nat
      /\ DOMAIN exports' = 1 .. Len(exports')
  BY <1>1 DEF DocInv
<1>3. DOMAIN exports' = DOMAIN exports \cup {last} /\ last \notin DOMAIN exports
  BY <1>1, <1>2
<1>4. InvoicesBelong' /\ InvoiceNumbersUnique' /\ MatchIsCurrent'
  BY <1>1, InvoicesStay
<1>5. /\ ExportsOf(d)' = ExportsOf(d) \cup {last}
      /\ \A e \in Documents \ {d} : ExportsOf(e)' = ExportsOf(e)
  BY <1>1, <1>2, <1>3 DEF ExportsOf
<1>6. ExportsBelong'
  <2>1. \A x \in DOMAIN exports' : docs'[exports'[x].doc].status # "ABSENT"
    BY <1>1, <1>2, <1>3, ExportsTyped DEF DocInv, ExportsBelong
  <2>2. ASSUME NEW e \in Documents, docs'[e].commitment # "CANCELLED"
        PROVE  /\ docs'[e].status \notin {"EXPORTED", "REVERSED"} => ExportsOf(e)' = {}
               /\ \A x, y \in ExportsOf(e)' : x = y
    <3>1. CASE e # d
      BY <1>1, <1>5, <2>2, <3>1 DEF DocInv, ExportsBelong
    <3>2. CASE e = d
      <4>1. ExportsOf(d) = {}
        BY <1>1, <2>2, <3>2 DEF DocInv, ExportsBelong
      <4>2. QED  BY <1>1, <1>5, <3>2, <4>1
    <3>3. QED  BY <3>1, <3>2
  <2>3. QED  BY <2>1, <2>2 DEF ExportsBelong
<1>7. \A e \in Documents : GoodDocument(docs[e])'
  <2>1. ASSUME NEW e \in Documents PROVE GoodDocument(docs'[e])
    BY <1>1 DEF DocInv
  <2>2. QED  BY <2>1 DEF GoodDocument, IsDocument, TotalsAgree
<1>8. QED  BY <1>1, <1>4, <1>6, <1>7 DEF DocInv

(***************************************************************************)
(* Steps of an invoice                                                     *)
(***************************************************************************)

\* An invoice step changes one invoice, which has its type, belongs to a
\* document that is there, has a number of its own and a match that is current.
LEMMA InvoiceKeepsInv ==
    ASSUME DocInv, NEW i \in Invoices, DOMAIN invoices' = Invoices,
           \A j \in Invoices \ {i} : invoices'[j] = invoices[j],
           UNCHANGED <<docs, exports, quotationPolicy>>,
           IsInvoice(invoices'[i]),
           invoices'[i].status # "ABSENT" =>
              /\ docs[invoices'[i].doc].status # "ABSENT"
              /\ \A j \in Invoices \ {i} :
                    (invoices[j].status # "ABSENT" /\ invoices[j].doc = invoices'[i].doc)
                    => invoices[j].number # invoices'[i].number,
           LET inv == invoices'[i]
               now == Comparison(docs[inv.doc].lines, inv.type, inv.amounts)
           IN  \/ inv.status \in {"MATCHED", "VARIANCE"} /\ inv.results = now
                     /\ inv.status = Outcome(now)
               \/ inv.status \in {"ABSENT", "CAPTURED"} /\ inv.results = NoResults
    PROVE  DocInv'
<1>1. InvoicesBelong'
  BY DEF DocInv, InvoicesBelong
<1>2. InvoiceNumbersUnique'
  BY DEF DocInv, InvoiceNumbersUnique
<1>3. MatchIsCurrent'
  <2>1. ASSUME NEW j \in Invoices \ {i}
        PROVE  LET inv == invoices'[j]
                   now == Comparison(docs'[inv.doc].lines, inv.type, inv.amounts)
               IN  CASE inv.status \in {"MATCHED", "VARIANCE"} ->
                            inv.results = now /\ inv.status = Outcome(now)
                     [] OTHER -> inv.results = NoResults
    BY DEF DocInv, MatchIsCurrent
  <2>2. LET inv == invoices'[i]
            now == Comparison(docs'[inv.doc].lines, inv.type, inv.amounts)
        IN  CASE inv.status \in {"MATCHED", "VARIANCE"} ->
                     inv.results = now /\ inv.status = Outcome(now)
              [] OTHER -> inv.results = NoResults
    OBVIOUS
  <2>3. QED  BY <2>1, <2>2 DEF MatchIsCurrent
<1>4. ExportsBelong'
  BY DEF DocInv, ExportsBelong, ExportsOf
<1>5. \A j \in Invoices : IsInvoice(invoices[j])'
  <2>1. ASSUME NEW j \in Invoices PROVE IsInvoice(invoices'[j])
    BY DEF DocInv
  <2>2. QED  BY <2>1 DEF IsInvoice
<1>6. \A d \in Documents : GoodDocument(docs[d])'
  <2>1. ASSUME NEW d \in Documents PROVE GoodDocument(docs'[d])
    BY DEF DocInv
  <2>2. QED  BY <2>1 DEF GoodDocument, IsDocument, TotalsAgree
<1>7. QED  BY <1>1, <1>2, <1>3, <1>4, <1>5, <1>6 DEF DocInv

\* An invoice as it is captured or corrected, with no match.
LEMMA CapturedInvoice ==
    ASSUME NEW d \in Documents, NEW number \in InvoiceNumbers, NEW type \in InvoiceTypes,
           NEW amounts \in InvoiceForms
    PROVE  IsInvoice([status |-> "CAPTURED", doc |-> d, number |-> number, type |-> type,
                      amounts |-> amounts, results |-> NoResults])
<1>1. IsPartial(amounts, Components, Int) /\ IsPartial(NoResults, Components, ResultType)
  BY DocumentConstants DEF IsPartial, NoResults
<1>2. QED  BY <1>1 DEF IsInvoice

LEMMA CreateInvoiceKeepsInv ==
    ASSUME DocInv, NEW i \in Invoices, NEW d \in Documents, NEW number \in InvoiceNumbers,
           NEW type \in InvoiceTypes, NEW amounts \in InvoiceForms,
           CreateInvoice(i, d, number, type, amounts)
    PROVE  DocInv'
<1> DEFINE new == [status |-> "CAPTURED", doc |-> d, number |-> number, type |-> type,
                   amounts |-> amounts, results |-> NoResults]
<1>1. IsInvoice(new)
  BY CapturedInvoice
<1>2. /\ DOMAIN invoices' = Invoices /\ invoices'[i] = new
      /\ \A j \in Invoices \ {i} : invoices'[j] = invoices[j]
      /\ UNCHANGED <<docs, exports, quotationPolicy>>
      /\ docs[d].status # "ABSENT" /\ NumberFree(d, number, Invoices)
  BY DEF DocInv, CreateInvoice
<1>3. \A j \in Invoices \ {i} :
          (invoices[j].status # "ABSENT" /\ invoices[j].doc = d) => invoices[j].number # number
  BY <1>2 DEF NumberFree, InvoicesOf
<1>4. QED  BY <1>1, <1>2, <1>3, InvoiceKeepsInv

LEMMA UpdateInvoiceKeepsInv ==
    ASSUME DocInv, NEW i \in Invoices, NEW number \in InvoiceNumbers,
           NEW type \in InvoiceTypes, NEW amounts \in InvoiceForms,
           UpdateInvoice(i, number, type, amounts)
    PROVE  DocInv'
<1> DEFINE d == invoices[i].doc
           new == [status |-> "CAPTURED", doc |-> d, number |-> number, type |-> type,
                   amounts |-> amounts, results |-> NoResults]
<1>1. d \in Documents /\ docs[d].status # "ABSENT"
  BY DEF DocInv, IsInvoice, InvoicesBelong, UpdateInvoice
<1>2. IsInvoice(new)
  BY <1>1, CapturedInvoice
<1>3. /\ DOMAIN invoices' = Invoices /\ invoices'[i] = new
      /\ \A j \in Invoices \ {i} : invoices'[j] = invoices[j]
      /\ UNCHANGED <<docs, exports, quotationPolicy>>
      /\ NumberFree(d, number, Invoices \ {i})
  BY DEF DocInv, UpdateInvoice
<1>4. \A j \in Invoices \ {i} :
          (invoices[j].status # "ABSENT" /\ invoices[j].doc = d) => invoices[j].number # number
  BY <1>3 DEF NumberFree, InvoicesOf
<1>5. QED  BY <1>1, <1>2, <1>3, <1>4, InvoiceKeepsInv

LEMMA MatchInvoiceKeepsInv ==
    ASSUME DocInv, NEW i \in Invoices, MatchInvoice(i)
    PROVE  DocInv'
<1> DEFINE inv == invoices[i]
           results == Comparison(docs[inv.doc].lines, inv.type, inv.amounts)
<1>1. IsInvoice(inv) /\ inv.status # "ABSENT" /\ inv.doc \in Documents
      /\ docs[inv.doc].status # "ABSENT"
  BY DEF DocInv, IsInvoice, InvoicesBelong, MatchInvoice
<1>2. IsPartial(results, Components, ResultType)
  <2>1. IsPartial(docs[inv.doc].lines, LineNumbers, LineType)
    BY <1>1 DEF DocInv, GoodDocument, IsDocument
  <2>2. IsPartial(inv.amounts, Components, Int)
    BY <1>1 DEF IsInvoice
  <2>3. QED  BY <2>1, <2>2, ComparisonType
<1>3. /\ DOMAIN invoices' = Invoices /\ DOMAIN invoices'[i] = DOMAIN inv
      /\ invoices'[i].results = results /\ invoices'[i].status = Outcome(results)
      /\ invoices'[i].doc = inv.doc /\ invoices'[i].number = inv.number
      /\ invoices'[i].type = inv.type /\ invoices'[i].amounts = inv.amounts
      /\ \A j \in Invoices \ {i} : invoices'[j] = invoices[j]
      /\ UNCHANGED <<docs, exports, quotationPolicy>>
  BY <1>1 DEF DocInv, MatchInvoice, IsInvoice
<1>4. Outcome(results) \in {"MATCHED", "VARIANCE"}
  BY DEF Outcome
<1>5. \A j \in Invoices \ {i} :
          (invoices[j].status # "ABSENT" /\ invoices[j].doc = inv.doc) => invoices[j].number # inv.number
  BY <1>1 DEF DocInv, InvoiceNumbersUnique
<1> HIDE DEF results, inv
<1>6. IsInvoice(invoices'[i])
  BY <1>1, <1>2, <1>3, <1>4 DEF IsInvoice
<1>7. results = Comparison(docs[invoices'[i].doc].lines, invoices'[i].type, invoices'[i].amounts)
  BY <1>3 DEF results
<1>8. QED  BY <1>1, <1>3, <1>4, <1>5, <1>6, <1>7, InvoiceKeepsInv

LEMMA DeleteInvoiceKeepsInv ==
    ASSUME DocInv, NEW i \in Invoices, DeleteInvoice(i)
    PROVE  DocInv'
<1>1. /\ DOMAIN invoices' = Invoices /\ invoices'[i] = NoInvoice
      /\ \A j \in Invoices \ {i} : invoices'[j] = invoices[j]
      /\ UNCHANGED <<docs, exports, quotationPolicy>>
  BY DEF DocInv, DeleteInvoice
<1>2. IsInvoice(NoInvoice)
  BY DEF NoInvoice, IsInvoice, IsPartial, NoLines, NoResults, InvoiceTypes
<1>3. NoInvoice.status = "ABSENT" /\ NoInvoice.results = NoResults
  BY DEF NoInvoice
<1>4. QED  BY <1>1, <1>2, <1>3, InvoiceKeepsInv

(***************************************************************************)
(* The invariant is inductive                                              *)
(***************************************************************************)

LEMMA DocStutterKeepsInv ==
    ASSUME DocInv, UNCHANGED <<docs, invoices, exports>>, quotationPolicy' \in Policies
    PROVE  DocInv'
<1>1. InvoicesBelong' /\ InvoiceNumbersUnique' /\ MatchIsCurrent'
  BY DEF DocInv, InvoicesBelong, InvoiceNumbersUnique, MatchIsCurrent
<1>2. ExportsBelong'
  BY DEF DocInv, ExportsBelong, ExportsOf
<1>3. QED  BY <1>1, <1>2 DEF DocInv

LEMMA DocStepKeepsInv ==
    ASSUME DocInv, [DocNext]_docVars
    PROVE  DocInv'
<1>1. CASE UNCHANGED docVars
  BY <1>1, DocStutterKeepsInv DEF docVars, DocInv
<1>2. ASSUME NEW p \in Policies, SetPolicy(p) PROVE DocInv'
  BY <1>2, DocStutterKeepsInv DEF SetPolicy
<1>3. ASSUME NEW d \in Documents, DocumentStep(d) PROVE DocInv'
  BY <1>3, CreateKeepsInv, AwardKeepsInv, UpdateKeepsInv, ReplaceKeepsInv, DeleteLineKeepsInv,
     DeleteKeepsInv, ApproveKeepsInv, PostKeepsInv, ReverseDocumentKeepsInv,
     CancelWithCommitmentKeepsInv DEF DocumentStep
<1>4. ASSUME NEW i \in Invoices, InvoiceStep(i) PROVE DocInv'
  BY <1>4, CreateInvoiceKeepsInv, UpdateInvoiceKeepsInv, MatchInvoiceKeepsInv,
     DeleteInvoiceKeepsInv DEF InvoiceStep
<1>5. QED  BY <1>1, <1>2, <1>3, <1>4 DEF DocNext

\* Every step on documents, invoices and export batches keeps the invariant.
THEOREM DocInvariant == DocSpec => []DocInv
BY DocInitInv, DocStepKeepsInv, PTL DEF DocSpec

\* What the invariant says in the terms of module ChargeDocument.
LEMMA DocInvMeans ==
    ASSUME DocInv
    PROVE  DocumentsSound /\ NothingOrphaned /\ MatchIsCurrent /\ DirectTotalsAgree
<1>1. DocTypeOK
  <2>1. ASSUME NEW x \in DOMAIN exports PROVE IsExport(exports[x])
    <3>1. exports[x] \in ExportRecords
      BY ExportsTyped
    <3>2. QED  BY <3>1 DEF ExportRecords, IsExport, IsPartial
  <2>2. QED  BY <2>1 DEF DocInv, DocTypeOK, GoodDocument
<1>2. InvoiceNumbersUnique /\ MatchIsCurrent
  BY DEF DocInv
<1>3. LockedLinesApproved
  BY DEF DocInv, GoodDocument, LockedLinesApproved, LinesApproved, Locked
<1>4. LinesFollowStatus
  BY DEF DocInv, GoodDocument, LinesFollowStatus
<1>5. NothingOrphaned
  BY DEF DocInv, GoodDocument, NothingOrphaned, InvoicesBelong, ExportsBelong, ParentsKept
<1>6. DirectTotalsAgree
  BY DEF DocInv, GoodDocument, DirectTotalsAgree, TotalsAgree
<1>7. QED  BY <1>1, <1>2, <1>3, <1>4, <1>5, <1>6 DEF DocumentsSound

\* Types, invoice numbers that are unique within a document, lines that follow
\* their document and are approved behind the approval boundary.
THEOREM DocumentsAreSound == DocSpec => []DocumentsSound
BY DocInvariant, DocInvMeans, PTL

\* No invoice, export batch or line outlives what it belongs to.
THEOREM NothingIsOrphaned == DocSpec => []NothingOrphaned
BY DocInvariant, DocInvMeans, PTL

\* A match says what matching again would say, whatever was done to the document.
THEOREM MatchesStayCurrent == DocSpec => []MatchIsCurrent
BY DocInvariant, DocInvMeans, PTL

\* The totals of a direct document are those of its posting lines.
THEOREM DirectTotalsAreSums == DocSpec => []DirectTotalsAgree
BY DocInvariant, DocInvMeans, PTL

(***************************************************************************)
(* Direct documents are financial records                                  *)
(***************************************************************************)

\* Nothing that module FinancialRecord sees of document d changes.
RecordKept(d) ==
    /\ RecordPhase(d)' = RecordPhase(d) /\ RecordLedger(d)' = RecordLedger(d)
    /\ RecordEvidence(d)' = RecordEvidence(d) /\ RecordPosted(d)' = RecordPosted(d)

\* The steps of module FinancialRecord, at one document.
RecordMoves(d) ==
    \/ RecordKept(d)
    \/ /\ RecordPhase(d) = "ABSENT" /\ RecordPhase(d)' = "OPEN"
       /\ RecordEvidence(d)' = RecordEvidence(d) /\ RecordPosted(d)' = RecordPosted(d)
    \/ /\ RecordPhase(d) = "OPEN" /\ RecordPhase(d)' = "OPEN" /\ RecordEvidence(d) = {}
       /\ RecordEvidence(d)' = RecordEvidence(d) /\ RecordPosted(d)' = RecordPosted(d)
    \/ /\ RecordPhase(d) = "OPEN" /\ RecordPhase(d)' = "OPEN"
       /\ RecordLedger(d)' = RecordLedger(d) /\ RecordPosted(d)' = RecordPosted(d)
    \/ /\ RecordPhase(d) = "OPEN" /\ RecordPhase(d)' = "ABSENT" /\ RecordEvidence(d) = {}
       /\ RecordLedger(d)' = NoValue
       /\ RecordEvidence(d)' = RecordEvidence(d) /\ RecordPosted(d)' = RecordPosted(d)
    \/ /\ RecordPhase(d) = "OPEN" /\ RecordPhase(d)' = "APPROVED"
       /\ RecordLedger(d)' = RecordLedger(d) /\ RecordEvidence(d)' = RecordEvidence(d)
       /\ RecordPosted(d)' = RecordPosted(d)
    \/ /\ RecordPhase(d) = "APPROVED" /\ RecordPhase(d)' = "EXPORTED"
       /\ RecordPosted(d)' = {RecordLedger(d)}
       /\ RecordLedger(d)' = RecordLedger(d) /\ RecordEvidence(d)' = RecordEvidence(d)
    \/ /\ RecordPhase(d) \in {"APPROVED", "EXPORTED"} /\ RecordPhase(d)' = "REVERSED"
       /\ RecordLedger(d)' = RecordLedger(d) /\ RecordEvidence(d)' = RecordEvidence(d)
       /\ RecordPosted(d)' = RecordPosted(d)

RecordStepOrStutter == Record!RecordNext \/ UNCHANGED Record!recordVars

\* A step of one document that moves its record is a step of the records.
LEMMA RecordMovesIsStep ==
    ASSUME NEW d \in Documents, RecordMoves(d), \A e \in Documents \ {d} : RecordKept(e)
    PROVE  RecordStepOrStutter
<1> DEFINE phase == [e \in Documents |-> RecordPhase(e)]
           ledger == [e \in Documents |-> RecordLedger(e)]
           evidence == [e \in Documents |-> RecordEvidence(e)]
           posted == [e \in Documents |-> RecordPosted(e)]
<1>1. /\ \A to : RecordPhase(d)' = to => phase' = [phase EXCEPT ![d] = to]
      /\ \A L : RecordPosted(d)' = {L} => posted' = [posted EXCEPT ![d] = {L}]
      /\ RecordLedger(d)' = NoValue => ledger' = [ledger EXCEPT ![d] = NoValue]
  BY DEF RecordKept
<1>2. /\ RecordPhase(d)' = RecordPhase(d) => phase' = phase
      /\ RecordLedger(d)' = RecordLedger(d) => ledger' = ledger
      /\ RecordEvidence(d)' = RecordEvidence(d) => evidence' = evidence
      /\ RecordPosted(d)' = RecordPosted(d) => posted' = posted
  BY DEF RecordKept
<1>3. Record!OnlyAt(d, ledger, ledger') /\ Record!OnlyAt(d, evidence, evidence')
  BY DEF RecordKept, Record!OnlyAt
<1>4. phase[d] = RecordPhase(d) /\ ledger[d] = RecordLedger(d) /\ evidence[d] = RecordEvidence(d)
  OBVIOUS
<1>5. CASE RecordKept(d)
  BY <1>2, <1>5 DEF RecordStepOrStutter, Record!recordVars, RecordKept
<1>6. CASE /\ RecordPhase(d) = "ABSENT" /\ RecordPhase(d)' = "OPEN"
           /\ RecordEvidence(d)' = RecordEvidence(d) /\ RecordPosted(d)' = RecordPosted(d)
  <2>1. Record!Open(d)
    BY <1>1, <1>2, <1>3, <1>4, <1>6 DEF Record!Open, Record!Moves
  <2>2. QED  BY <2>1 DEF RecordStepOrStutter, Record!RecordNext
<1>7. CASE /\ RecordPhase(d) = "OPEN" /\ RecordPhase(d)' = "OPEN" /\ RecordEvidence(d) = {}
           /\ RecordEvidence(d)' = RecordEvidence(d) /\ RecordPosted(d)' = RecordPosted(d)
  <2>1. Record!Edit(d)
    BY <1>1, <1>2, <1>3, <1>4, <1>7 DEF Record!Edit, Record!Moves
  <2>2. QED  BY <2>1 DEF RecordStepOrStutter, Record!RecordNext
<1>8. CASE /\ RecordPhase(d) = "OPEN" /\ RecordPhase(d)' = "OPEN"
           /\ RecordLedger(d)' = RecordLedger(d) /\ RecordPosted(d)' = RecordPosted(d)
  <2>1. Record!Reconcile(d)
    BY <1>1, <1>2, <1>3, <1>4, <1>8 DEF Record!Reconcile, Record!Moves
  <2>2. QED  BY <2>1 DEF RecordStepOrStutter, Record!RecordNext
<1>9. CASE /\ RecordPhase(d) = "OPEN" /\ RecordPhase(d)' = "ABSENT" /\ RecordEvidence(d) = {}
           /\ RecordLedger(d)' = NoValue
           /\ RecordEvidence(d)' = RecordEvidence(d) /\ RecordPosted(d)' = RecordPosted(d)
  <2>1. Record!Drop(d)
    BY <1>1, <1>2, <1>4, <1>9 DEF Record!Drop, Record!Moves
  <2>2. QED  BY <2>1 DEF RecordStepOrStutter, Record!RecordNext
<1>10. CASE /\ RecordPhase(d) = "OPEN" /\ RecordPhase(d)' = "APPROVED"
            /\ RecordLedger(d)' = RecordLedger(d) /\ RecordEvidence(d)' = RecordEvidence(d)
            /\ RecordPosted(d)' = RecordPosted(d)
  <2>1. Record!Approve(d)
    BY <1>1, <1>2, <1>4, <1>10 DEF Record!Approve, Record!Moves
  <2>2. QED  BY <2>1 DEF RecordStepOrStutter, Record!RecordNext
<1>11. CASE /\ RecordPhase(d) = "APPROVED" /\ RecordPhase(d)' = "EXPORTED"
            /\ RecordPosted(d)' = {RecordLedger(d)}
            /\ RecordLedger(d)' = RecordLedger(d) /\ RecordEvidence(d)' = RecordEvidence(d)
  <2>1. Record!Post(d)
    BY <1>1, <1>2, <1>4, <1>11 DEF Record!Post, Record!Moves
  <2>2. QED  BY <2>1 DEF RecordStepOrStutter, Record!RecordNext
<1>12. CASE /\ RecordPhase(d) \in {"APPROVED", "EXPORTED"} /\ RecordPhase(d)' = "REVERSED"
            /\ RecordLedger(d)' = RecordLedger(d) /\ RecordEvidence(d)' = RecordEvidence(d)
            /\ RecordPosted(d)' = RecordPosted(d)
  <2>1. Record!Reverse(d)
    BY <1>1, <1>2, <1>4, <1>12 DEF Record!Reverse, Record!Moves
  <2>2. QED  BY <2>1 DEF RecordStepOrStutter, Record!RecordNext
<1>13. QED
  BY <1>5, <1>6, <1>7, <1>8, <1>9, <1>10, <1>11, <1>12 DEF RecordMoves

LEMMA RecordOf ==
    ASSUME NEW e \in Documents, docs'[e] = docs[e],
           InvoicesOf(e)' = InvoicesOf(e), \A i \in InvoicesOf(e) : invoices'[i] = invoices[i],
           ExportsOf(e)' = ExportsOf(e), \A x \in ExportsOf(e) : exports'[x] = exports[x]
    PROVE  RecordKept(e)
<1>1. IsRecord(e)' = IsRecord(e)
  BY DEF IsRecord
<1>2. RecordPhase(e)' = RecordPhase(e)
  BY <1>1 DEF RecordPhase, Locked
<1>3. RecordLedger(e)' = RecordLedger(e)
  BY <1>1 DEF RecordLedger
<1>4. RecordEvidence(e)' = RecordEvidence(e)
  BY <1>1 DEF RecordEvidence
<1>5. RecordPosted(e)' = RecordPosted(e)
  BY <1>1 DEF RecordPosted
<1>6. QED  BY <1>2, <1>3, <1>4, <1>5 DEF RecordKept

\* A step of document d alone: the other records stay, and so does what d was
\* reconciled with and posted as, if it stays direct or has nothing of the kind.
LEMMA OnlyOneRecord ==
    ASSUME NEW d \in Documents, \A e \in Documents \ {d} : docs'[e] = docs[e],
           UNCHANGED <<invoices, exports>>
    PROVE  /\ \A e \in Documents \ {d} : RecordKept(e)
           /\ IsRecord(d)' = IsRecord(d) \/ (InvoicesOf(d) = {} /\ ExportsOf(d) = {})
              => /\ RecordEvidence(d)' = RecordEvidence(d)
                 /\ RecordPosted(d)' = RecordPosted(d)
           /\ InvoicesOf(d) = {} => RecordEvidence(d) = {}
<1>1. \A e \in Documents : InvoicesOf(e)' = InvoicesOf(e) /\ ExportsOf(e)' = ExportsOf(e)
  BY DEF InvoicesOf, ExportsOf
<1>2. \A e \in Documents \ {d} : RecordKept(e)
  BY <1>1, RecordOf
<1>3. ASSUME IsRecord(d)' = IsRecord(d)
      PROVE  RecordEvidence(d)' = RecordEvidence(d) /\ RecordPosted(d)' = RecordPosted(d)
  BY <1>1, <1>3 DEF RecordEvidence, RecordPosted
<1>4. ASSUME InvoicesOf(d) = {}, ExportsOf(d) = {}
      PROVE  RecordEvidence(d)' = RecordEvidence(d) /\ RecordPosted(d)' = RecordPosted(d)
  BY <1>1, <1>4 DEF RecordEvidence, RecordPosted
<1>5. InvoicesOf(d) = {} => RecordEvidence(d) = {}
  BY DEF RecordEvidence
<1>6. QED  BY <1>2, <1>3, <1>4, <1>5

\* The ledger of a direct document stays while the fields of its lines do.
LEMMA LedgerStays ==
    ASSUME NEW doc, NEW new, GoodDocument(doc), GoodDocument(new), ~doc.quoted, ~new.quoted,
           SameFields(new.lines, doc.lines)
    PROVE  Ledger(new) = Ledger(doc)
<1>1. /\ Posting(new.lines) = Posting(doc.lines)
      /\ \A side : Total(new.lines, side) = Total(doc.lines, side)
  BY SameFieldsSameComparison
<1>2. new.payer = doc.payer /\ new.payee = doc.payee
  BY <1>1 DEF GoodDocument, TotalsAgree
<1>3. [n \in Posting(new.lines) |-> new.lines[n].fields]
         = [n \in Posting(doc.lines) |-> doc.lines[n].fields]
  BY <1>1 DEF SameFields, Posting
<1>4. QED  BY <1>2, <1>3 DEF Ledger

\* A step that keeps the fields and where a direct document is locked or
\* approved, posted, reversed: only its phase moves.
LEMMA RestatedRecord ==
    ASSUME DocInv, DocInv', NEW d \in Documents, \A e \in Documents \ {d} : docs'[e] = docs[e],
           UNCHANGED <<invoices, exports>>, docs[d].status # "ABSENT", docs'[d].status # "ABSENT",
           docs'[d].quoted = docs[d].quoted, SameFields(docs'[d].lines, docs[d].lines),
           ~docs[d].quoted =>
              \/ RecordPhase(d)' = RecordPhase(d)
              \/ (RecordPhase(d) = "OPEN" /\ RecordPhase(d)' = "APPROVED")
              \/ (RecordPhase(d) \in {"APPROVED", "EXPORTED"} /\ RecordPhase(d)' = "REVERSED")
    PROVE  RecordStepOrStutter
<1>1. IsRecord(d)' = IsRecord(d)
  BY DEF IsRecord
<1>2. /\ \A e \in Documents \ {d} : RecordKept(e)
      /\ RecordEvidence(d)' = RecordEvidence(d) /\ RecordPosted(d)' = RecordPosted(d)
  BY <1>1, OnlyOneRecord
<1>3. RecordLedger(d)' = RecordLedger(d)
  <2>1. CASE ~IsRecord(d)
    BY <1>1, <2>1 DEF RecordLedger
  <2>2. CASE IsRecord(d)
    <3>1. GoodDocument(docs[d])
      BY DEF DocInv
    <3>2. GoodDocument(docs'[d])
      <4>1. GoodDocument(docs[d])'
        BY DEF DocInv
      <4>2. QED  BY <4>1 DEF GoodDocument, IsDocument, TotalsAgree
    <3>3. Ledger(docs'[d]) = Ledger(docs[d])
      BY <2>2, <3>1, <3>2, LedgerStays DEF IsRecord
    <3>4. Ledger(docs[d])' = Ledger(docs'[d])
      BY DEF Ledger
    <3>5. QED  BY <1>1, <2>2, <3>3, <3>4 DEF RecordLedger
  <2>3. QED  BY <2>1, <2>2
<1>4. RecordMoves(d)
  <2>1. CASE docs[d].quoted
    <3>1. RecordPhase(d)' = RecordPhase(d)
      BY <1>1, <2>1 DEF RecordPhase, IsRecord
    <3>2. QED  BY <1>2, <1>3, <3>1 DEF RecordMoves, RecordKept
  <2>2. CASE ~docs[d].quoted
    BY <1>2, <1>3, <2>2 DEF RecordMoves, RecordKept
  <2>3. QED  BY <2>1, <2>2
<1>5. QED  BY <1>2, <1>4, RecordMovesIsStep

LEMMA CreateRecords ==
    ASSUME DocInv, NEW d \in Documents, NEW payload \in Payloads, CreateDocument(d, payload)
    PROVE  RecordStepOrStutter
<1>1. InvoicesOf(d) = {} /\ ExportsOf(d) = {} /\ docs[d].status = "ABSENT"
  BY AbsentHasNothing DEF CreateDocument
<1>2. /\ \A e \in Documents \ {d} : docs'[e] = docs[e]
      /\ docs'[d].status = "ESTIMATED" /\ docs'[d].quoted = FALSE
      /\ UNCHANGED <<invoices, exports>>
  BY DEF DocInv, CreateDocument, WithTotals, NoDocument
<1>3. RecordPhase(d) = "ABSENT" /\ RecordPhase(d)' = "OPEN"
  BY <1>1, <1>2 DEF RecordPhase, IsRecord, Locked, LockedStatuses
<1>4. QED  BY <1>1, <1>2, <1>3, OnlyOneRecord, RecordMovesIsStep DEF RecordMoves

LEMMA AwardRecords ==
    ASSUME DocInv, NEW d \in Documents, NEW option \in Options, AwardDocument(d, option)
    PROVE  RecordStepOrStutter
<1>1. /\ \A e \in Documents \ {d} : docs'[e] = docs[e]
      /\ docs[d].status = "ABSENT" /\ docs'[d].quoted
      /\ UNCHANGED <<invoices, exports>>
  BY DEF DocInv, AwardDocument
<1>2. ~IsRecord(d) /\ ~IsRecord(d)' /\ IsRecord(d)' = IsRecord(d)
  BY <1>1 DEF IsRecord
<1>3. RecordPhase(d)' = RecordPhase(d) /\ RecordLedger(d)' = RecordLedger(d)
  BY <1>2 DEF RecordPhase, RecordLedger
<1>4. QED  BY <1>1, <1>2, <1>3, OnlyOneRecord, RecordMovesIsStep DEF RecordMoves, RecordKept

LEMMA UpdateRecords ==
    ASSUME DocInv, DocInv', NEW d \in Documents, NEW s \in MutableStatuses \cup {NoValue},
           UpdateDocument(d, s)
    PROVE  RecordStepOrStutter
<1>1. /\ GoodDocument(docs[d]) /\ docs[d].status # "ABSENT" /\ DOMAIN docs = Documents
      /\ UNCHANGED <<invoices, exports>>
  BY DEF DocInv, UpdateDocument
<1>2. CASE s = NoValue
  <2> DEFINE new == WithTotals(docs[d], docs[d].lines)
  <2>1. docs' = [docs EXCEPT ![d] = new]
    BY <1>2 DEF UpdateDocument
  <2>2. /\ new.status = docs[d].status /\ new.quoted = docs[d].quoted
        /\ SameFields(new.lines, docs[d].lines)
    BY <1>1, UpdateGood
  <2> HIDE DEF new
  <2>3. docs'[d] = new /\ \A e \in Documents \ {d} : docs'[e] = docs[e]
    BY <1>1, <2>1
  <2>4. RecordPhase(d)' = RecordPhase(d)
    BY <2>2, <2>3 DEF RecordPhase, IsRecord, Locked
  <2>5. QED  BY <1>1, <2>2, <2>3, <2>4, RestatedRecord
<1>3. CASE s # NoValue
  <2> DEFINE new == WithTotals([docs[d] EXCEPT !.status = s], SyncStatuses(docs[d].lines, s))
  <2>1. docs' = [docs EXCEPT ![d] = new] /\ s \in MutableStatuses
        /\ docs[d].status \notin LockedStatuses
    BY <1>3 DEF UpdateDocument, Locked
  <2>2. /\ new.status = s /\ new.quoted = docs[d].quoted /\ SameFields(new.lines, docs[d].lines)
    BY <1>1, <2>1, UpdateGood
  <2> HIDE DEF new
  <2>3. docs'[d] = new /\ \A e \in Documents \ {d} : docs'[e] = docs[e]
    BY <1>1, <2>1
  <2>4. s # "ABSENT" /\ s \notin LockedStatuses
    BY <2>1 DEF MutableStatuses, LockedStatuses
  <2>5. RecordPhase(d)' = RecordPhase(d)
    BY <1>1, <2>1, <2>2, <2>3, <2>4 DEF RecordPhase, IsRecord, Locked
  <2>6. QED  BY <1>1, <2>2, <2>3, <2>4, <2>5, RestatedRecord
<1>4. QED  BY <1>2, <1>3

LEMMA EditRecords ==
    ASSUME DocInv, NEW d \in Documents,
           \/ \E s \in MutableStatuses \cup {NoValue}, payload \in Payloads :
                 ReplaceLines(d, s, payload)
           \/ \E n \in LineNumbers : DeleteLine(d, n)
    PROVE  RecordStepOrStutter
<1>1. docs[d].status # "ABSENT" /\ LinesEditable(d)
  BY DEF ReplaceLines, DeleteLine
<1>2. /\ IsDocument(docs[d]) /\ docs[d].status \in MutableStatuses /\ ~docs[d].quoted
      /\ InvoicesOf(d) = {} /\ ExportsOf(d) = {}
  BY <1>1, EditableDirect
<1>3. /\ \A e \in Documents \ {d} : docs'[e] = docs[e]
      /\ docs'[d].status \in MutableStatuses /\ ~docs'[d].quoted
      /\ UNCHANGED <<invoices, exports>>
  <2>1. ASSUME NEW s \in MutableStatuses \cup {NoValue}, NEW payload \in Payloads,
               ReplaceLines(d, s, payload)
        PROVE  /\ \A e \in Documents \ {d} : docs'[e] = docs[e]
               /\ docs'[d].status \in MutableStatuses /\ ~docs'[d].quoted
               /\ UNCHANGED <<invoices, exports>>
    BY <1>2, <2>1 DEF DocInv, ReplaceLines, WithTotals, IsDocument
  <2>2. ASSUME NEW n \in LineNumbers, DeleteLine(d, n)
        PROVE  /\ \A e \in Documents \ {d} : docs'[e] = docs[e]
               /\ docs'[d].status \in MutableStatuses /\ ~docs'[d].quoted
               /\ UNCHANGED <<invoices, exports>>
    BY <1>2, <2>2 DEF DocInv, DeleteLine, WithTotals, IsDocument
  <2>3. QED  BY <2>1, <2>2
<1>4. RecordPhase(d) = "OPEN" /\ RecordPhase(d)' = "OPEN"
  BY <1>2, <1>3 DEF RecordPhase, IsRecord, Locked, LockedStatuses, MutableStatuses
<1>5. QED  BY <1>2, <1>3, <1>4, OnlyOneRecord, RecordMovesIsStep DEF RecordMoves

LEMMA DeleteRecords ==
    ASSUME DocInv, NEW d \in Documents, DeleteDocument(d)
    PROVE  RecordStepOrStutter
<1>1. /\ docs[d].status \in MutableStatuses /\ ~docs[d].quoted
      /\ InvoicesOf(d) = {} /\ ExportsOf(d) = {}
  BY EditableDirect DEF DeleteDocument
<1>2. /\ \A e \in Documents \ {d} : docs'[e] = docs[e]
      /\ docs'[d].status = "ABSENT"
      /\ UNCHANGED <<invoices, exports>>
  BY DEF DocInv, DeleteDocument, NoDocument
<1>3. RecordPhase(d) = "OPEN" /\ RecordPhase(d)' = "ABSENT" /\ RecordLedger(d)' = NoValue
  BY <1>1, <1>2 DEF RecordPhase, IsRecord, Locked, LockedStatuses, MutableStatuses, RecordLedger
<1>4. QED  BY <1>1, <1>2, <1>3, OnlyOneRecord, RecordMovesIsStep DEF RecordMoves

LEMMA ApproveRecords ==
    ASSUME DocInv, DocInv', NEW d \in Documents, ApproveDocument(d)
    PROVE  RecordStepOrStutter
<1>1. IsDocument(docs[d]) /\ DOMAIN docs = Documents
  BY DEF DocInv, GoodDocument
<1>2. /\ \A e \in Documents \ {d} : docs'[e] = docs[e]
      /\ docs'[d].status = "APPROVED" /\ docs'[d].quoted = docs[d].quoted
      /\ docs'[d].lines = [n \in DOMAIN docs[d].lines |->
              [fields |-> docs[d].lines[n].fields, status |-> "APPROVED",
               approved |-> docs[d].lines[n].fields.amount]]
      /\ UNCHANGED <<invoices, exports>>
      /\ docs[d].status \notin {"ABSENT", "APPROVED", "EXPORTED", "REVERSED"}
  BY <1>1 DEF ApproveDocument, IsDocument
<1>3. SameFields(docs'[d].lines, docs[d].lines)
  BY <1>2 DEF SameFields
<1>4. ~docs[d].quoted => RecordPhase(d) = "OPEN" /\ RecordPhase(d)' = "APPROVED"
  BY <1>2 DEF RecordPhase, IsRecord, Locked, LockedStatuses
<1>5. QED  BY <1>2, <1>3, <1>4, RestatedRecord

LEMMA ReverseRecords ==
    ASSUME DocInv, DocInv', NEW d \in Documents, ReverseDocument(d)
    PROVE  RecordStepOrStutter
<1>1. IsDocument(docs[d]) /\ DOMAIN docs = Documents
  BY DEF DocInv, GoodDocument
<1>2. /\ \A e \in Documents \ {d} : docs'[e] = docs[e]
      /\ docs'[d].status = "REVERSED" /\ docs'[d].quoted = docs[d].quoted
      /\ docs'[d].lines = SyncStatuses(docs[d].lines, "REVERSED")
      /\ UNCHANGED <<invoices, exports>>
      /\ docs[d].status \in {"APPROVED", "EXPORTED"}
  BY <1>1 DEF ReverseDocument, IsDocument
<1>3. SameFields(docs'[d].lines, docs[d].lines)
  BY <1>1, <1>2, SyncedLines DEF IsDocument, LockedStatuses
<1>4. ~docs[d].quoted => /\ RecordPhase(d) \in {"APPROVED", "EXPORTED"}
                         /\ RecordPhase(d)' = "REVERSED"
  BY <1>2 DEF RecordPhase, IsRecord, Locked, LockedStatuses
<1>5. QED  BY <1>2, <1>3, <1>4, RestatedRecord

\* Only an awarded document has a commitment to cancel.
LEMMA CancelRecords ==
    ASSUME DocInv, NEW d \in Documents, CancelWithCommitment(d)
    PROVE  RecordStepOrStutter
<1>1. IsDocument(docs[d]) /\ docs[d].quoted /\ DOMAIN docs = Documents
  BY DEF DocInv, GoodDocument, CancelWithCommitment
<1>2. /\ \A e \in Documents \ {d} : docs'[e] = docs[e]
      /\ docs'[d].quoted
      /\ UNCHANGED <<invoices, exports>>
  BY <1>1 DEF CancelWithCommitment, IsDocument
<1>3. ~IsRecord(d) /\ ~IsRecord(d)' /\ IsRecord(d)' = IsRecord(d)
  BY <1>1, <1>2 DEF IsRecord
<1>4. RecordPhase(d)' = RecordPhase(d) /\ RecordLedger(d)' = RecordLedger(d)
  BY <1>3 DEF RecordPhase, RecordLedger
<1>5. QED  BY <1>2, <1>3, <1>4, OnlyOneRecord, RecordMovesIsStep DEF RecordMoves, RecordKept

LEMMA PostRecords ==
    ASSUME DocInv, NEW d \in Documents, PostExport(d)
    PROVE  RecordStepOrStutter
<1> DEFINE last == Len(exports) + 1
           batch == [doc |-> d, lines |-> Keep(docs'[d].lines, Posting(docs'[d].lines)),
                     payer |-> docs[d].payer, payee |-> docs[d].payee]
<1>1. /\ docs[d].status = "APPROVED"
      /\ \A e \in Documents \ {d} : docs'[e] = docs[e]
      /\ docs'[d].status = "EXPORTED" /\ docs'[d].quoted = docs[d].quoted
      /\ docs'[d].payer = docs[d].payer /\ docs'[d].payee = docs[d].payee
      /\ GoodDocument(docs'[d]) /\ SameFields(docs'[d].lines, docs[d].lines)
      /\ exports' \in Seq(ExportRecords) /\ Len(exports') = Len(exports) + 1
      /\ \A x \in 1 .. Len(exports) : exports'[x] = exports[x]
      /\ exports'[last] = batch
      /\ invoices' = invoices
  BY PostEffect
<1> HIDE DEF batch
<1>2. batch.doc = d
  BY DEF batch
<1>3. /\ DOMAIN exports = 1 .. Len(exports) /\ Len(exports) \in Nat
      /\ DOMAIN exports' = 1 .. Len(exports')
  BY <1>1 DEF DocInv
<1>4. DOMAIN exports' = DOMAIN exports \cup {last} /\ last \notin DOMAIN exports
  BY <1>1, <1>3
<1>5. /\ ExportsOf(d)' = ExportsOf(d) \cup {last}
      /\ \A e \in Documents \ {d} : ExportsOf(e)' = ExportsOf(e)
      /\ \A e \in Documents : \A x \in ExportsOf(e) : exports'[x] = exports[x]
      /\ \A e \in Documents : InvoicesOf(e)' = InvoicesOf(e)
  BY <1>1, <1>2, <1>3, <1>4 DEF ExportsOf, InvoicesOf
<1>6. \A e \in Documents \ {d} : RecordKept(e)
  BY <1>1, <1>5, RecordOf
<1>7. IsRecord(d)' = IsRecord(d)
  BY <1>1 DEF IsRecord
<1>8. RecordEvidence(d)' = RecordEvidence(d)
  BY <1>1, <1>5, <1>7 DEF RecordEvidence
<1>9. CASE docs[d].quoted
  <2>1. ~IsRecord(d)
    BY <1>9 DEF IsRecord
  <2>2. RecordKept(d)
    BY <1>7, <1>8, <2>1 DEF RecordKept, RecordPhase, RecordLedger, RecordPosted
  <2>3. QED  BY <1>6, <2>2, RecordMovesIsStep DEF RecordMoves
<1>10. CASE ~docs[d].quoted
  <2>1. IsRecord(d) /\ docs[d].commitment # "CANCELLED" /\ GoodDocument(docs[d])
    BY <1>1, <1>10 DEF IsRecord, DocInv, GoodDocument
  <2>2. ExportsOf(d) = {}
    BY <1>1, <2>1 DEF DocInv, ExportsBelong
  <2>3. Ledger(docs'[d]) = Ledger(docs[d])
    BY <1>1, <1>10, <2>1, LedgerStays
  <2>4. RecordLedger(d)' = RecordLedger(d) /\ RecordLedger(d) = Ledger(docs[d])
    <3>1. Ledger(docs[d])' = Ledger(docs'[d])
      BY DEF Ledger
    <3>2. QED  BY <1>7, <2>1, <2>3, <3>1 DEF RecordLedger
  <2>5. Posted(batch) = Ledger(docs'[d])
    <3>1. /\ DOMAIN batch.lines = Posting(docs'[d].lines)
          /\ \A n \in Posting(docs'[d].lines) : batch.lines[n] = docs'[d].lines[n]
          /\ batch.payer = docs'[d].payer /\ batch.payee = docs'[d].payee
      BY <1>1 DEF batch, Keep
    <3>2. QED  BY <3>1 DEF Posted, Ledger
  <2>6. RecordPosted(d)' = {RecordLedger(d)}
    <3>1. RecordPosted(d)' = {Posted(exports'[x]) : x \in ExportsOf(d)'}
      BY <1>7, <2>1 DEF RecordPosted, Posted
    <3>2. ExportsOf(d)' = {last}
      BY <1>5, <2>2
    <3>3. QED  BY <1>1, <2>3, <2>4, <2>5, <3>1, <3>2
  <2>7. RecordPhase(d) = "APPROVED" /\ RecordPhase(d)' = "EXPORTED"
    BY <1>1, <1>7, <2>1 DEF RecordPhase, Locked, LockedStatuses
  <2>8. QED  BY <1>6, <1>8, <2>4, <2>6, <2>7, RecordMovesIsStep DEF RecordMoves
<1>11. QED  BY <1>9, <1>10

\* An invoice is captured, corrected, matched and deleted only while its
\* document is there and not locked.
LEMMA InvoiceRecords ==
    ASSUME DocInv, NEW i \in Invoices, InvoiceStep(i)
    PROVE  RecordStepOrStutter
<1>1. UNCHANGED <<docs, exports>> /\ \A j \in Invoices \ {i} : invoices'[j] = invoices[j]
  BY DEF DocInv, InvoiceStep, CreateInvoice, UpdateInvoice, MatchInvoice, DeleteInvoice
<1>2. PICK d \in Documents :
         /\ docs[d].status # "ABSENT" /\ ~Locked(d)
         /\ invoices[i].status # "ABSENT" => invoices[i].doc = d
         /\ invoices'[i].status # "ABSENT" => invoices'[i].doc = d
  <2>1. ASSUME invoices[i].status # "ABSENT"
        PROVE  invoices[i].doc \in Documents /\ docs[invoices[i].doc].status # "ABSENT"
    BY <2>1 DEF DocInv, IsInvoice, InvoicesBelong
  <2>2. ASSUME NEW d \in Documents, NEW number \in InvoiceNumbers, NEW type \in InvoiceTypes,
               NEW amounts \in InvoiceForms, CreateInvoice(i, d, number, type, amounts)
        PROVE  /\ docs[d].status # "ABSENT" /\ ~Locked(d)
               /\ invoices[i].status # "ABSENT" => invoices[i].doc = d
               /\ invoices'[i].status # "ABSENT" => invoices'[i].doc = d
    BY <2>2 DEF CreateInvoice, DocInv
  <2>3. ASSUME NEW number \in InvoiceNumbers, NEW type \in InvoiceTypes,
               NEW amounts \in InvoiceForms, UpdateInvoice(i, number, type, amounts)
        PROVE  /\ invoices[i].status # "ABSENT" /\ ~Locked(invoices[i].doc)
               /\ invoices'[i].doc = invoices[i].doc
    BY <2>3 DEF UpdateInvoice, DocInv
  <2>4. ASSUME MatchInvoice(i)
        PROVE  /\ invoices[i].status # "ABSENT" /\ ~Locked(invoices[i].doc)
               /\ invoices'[i].doc = invoices[i].doc
    BY <2>4 DEF MatchInvoice, DocInv, IsInvoice
  <2>5. ASSUME DeleteInvoice(i)
        PROVE  /\ invoices[i].status # "ABSENT" /\ ~Locked(invoices[i].doc)
               /\ invoices'[i].status = "ABSENT"
    BY <2>5 DEF DeleteInvoice, DocInv, NoInvoice
  <2>6. QED  BY <2>1, <2>2, <2>3, <2>4, <2>5 DEF InvoiceStep
<1>3. \A e \in Documents : ExportsOf(e)' = ExportsOf(e)
  BY <1>1 DEF ExportsOf
<1>4. ASSUME NEW e \in Documents \ {d} PROVE RecordKept(e)
  <2>1. InvoicesOf(e)' = InvoicesOf(e) /\ \A j \in InvoicesOf(e) : invoices'[j] = invoices[j]
    BY <1>1, <1>2 DEF InvoicesOf
  <2>2. QED  BY <1>1, <1>3, <2>1, RecordOf
<1>5. IsRecord(d)' = IsRecord(d)
  BY <1>1 DEF IsRecord
<1>6. /\ RecordPhase(d)' = RecordPhase(d) /\ RecordLedger(d)' = RecordLedger(d)
      /\ RecordPosted(d)' = RecordPosted(d)
  BY <1>1, <1>3, <1>5 DEF RecordPhase, Locked, RecordLedger, RecordPosted
<1>7. CASE docs[d].quoted
  <2>1. ~IsRecord(d)
    BY <1>7 DEF IsRecord
  <2>2. RecordEvidence(d)' = RecordEvidence(d)
    BY <1>5, <2>1 DEF RecordEvidence
  <2>3. QED  BY <1>4, <1>6, <2>2, RecordMovesIsStep DEF RecordMoves, RecordKept
<1>8. CASE ~docs[d].quoted
  <2>1. RecordPhase(d) = "OPEN"
    BY <1>2, <1>8 DEF RecordPhase, IsRecord
  <2>2. QED  BY <1>4, <1>6, <2>1, RecordMovesIsStep DEF RecordMoves
<1>9. QED  BY <1>7, <1>8

\* A direct document keeps what module FinancialRecord promises: what is to be
\* posted is only edited while it is open and without invoices, is frozen with
\* its invoices once it is approved, and is posted once, as it was approved.
THEOREM DocumentsAreRecords == DocSpec => IsFinancialRecord
<1>1. DocInit => Record!RecordInit
  <2> SUFFICES ASSUME DocInit PROVE Record!RecordInit
    OBVIOUS
  <2>1. ASSUME NEW d \in Documents
        PROVE  /\ RecordPhase(d) = "ABSENT" /\ RecordLedger(d) = NoValue
               /\ RecordEvidence(d) = {} /\ RecordPosted(d) = {}
    <3>1. ~IsRecord(d)
      BY DEF DocInit, IsRecord, NoDocument
    <3>2. QED  BY <3>1 DEF RecordPhase, RecordLedger, RecordEvidence, RecordPosted
  <2>2. QED  BY <2>1 DEF Record!RecordInit
<1>2. DocInv /\ DocInv' /\ [DocNext]_docVars => [Record!RecordNext]_(Record!recordVars)
  <2> SUFFICES ASSUME DocInv, DocInv', [DocNext]_docVars
               PROVE  RecordStepOrStutter
    BY DEF RecordStepOrStutter
  <2>1. ASSUME UNCHANGED <<docs, invoices, exports>> PROVE RecordStepOrStutter
    <3>1. ASSUME NEW d \in Documents PROVE RecordKept(d)
      BY <2>1, RecordOf DEF InvoicesOf, ExportsOf
    <3>2. QED
      BY <3>1 DEF RecordKept, RecordStepOrStutter, Record!recordVars
  <2>2. ASSUME NEW d \in Documents, DocumentStep(d) PROVE RecordStepOrStutter
    BY <2>2, CreateRecords, AwardRecords, UpdateRecords, EditRecords, DeleteRecords,
       ApproveRecords, PostRecords, ReverseRecords, CancelRecords DEF DocumentStep
  <2>3. ASSUME NEW i \in Invoices, InvoiceStep(i) PROVE RecordStepOrStutter
    BY <2>3, InvoiceRecords
  <2>4. QED  BY <2>1, <2>2, <2>3 DEF DocNext, docVars, SetPolicy
<1>3. QED
  BY <1>1, <1>2, DocInvariant, PTL DEF DocSpec, IsFinancialRecord, Record!RecordSpec

(***************************************************************************)
(* Documents and commitments together                                      *)
(***************************************************************************)

\* In step with the ledger a document does what module ChargeDocument lets it do.
LEMMA ExecutionStepIsDocStep ==
    ASSUME [ExecutionNext]_executionVars
    PROVE  [DocNext]_docVars
<1>1. ASSUME NEW c \in Commitments, NEW award \in Awards, Award(c, award) PROVE DocNext
  <2>1. c \in Documents /\ award.option \in Options
    BY ExecutionConstants
  <2>2. QED  BY <1>1, <2>1 DEF Award, DocNext, DocumentStep
<1>2. ASSUME NEW c \in Commitments, CancelCommitment(c) PROVE DocNext
  BY <1>2, ExecutionConstants DEF CancelCommitment, DocNext, DocumentStep
<1>3. ASSUME NEW d \in Documents, DocumentAlone(d) PROVE DocNext
  BY <1>3 DEF DocumentAlone, DocNext, DocumentStep
<1>4. ASSUME NEW i \in Invoices, Reconcile(i) PROVE DocNext
  BY <1>4 DEF Reconcile, DocNext
<1>5. ASSUME NEW p \in Policies, SetPolicy(p) PROVE DocNext
  BY <1>5 DEF DocNext
<1>6. QED
  BY <1>1, <1>2, <1>3, <1>4, <1>5 DEF ExecutionNext, Consume, ReverseConsumption, executionVars

\* What is proved of documents on their own holds beside commitments too.
THEOREM ExecutionImplementsDocuments == ExecutionSpec => DocSpec
<1>1. ExecutionInit => DocInit
  BY DEF ExecutionInit
<1>2. QED  BY <1>1, ExecutionStepIsDocStep, PTL DEF ExecutionSpec, DocSpec

\* The invariant of the composition: the documents' own, and the state of each
\* commitment read off its document.
ExecutionInv ==
    /\ DocInv
    /\ DOMAIN status = Commitments
    /\ \A c \in Commitments : status[c] \in Ledgers!CommitmentStatus
    /\ CommitmentsBacked
    /\ \A c \in Commitments : docs[c].status # "ABSENT" => docs[c].quoted

LEMMA ExecutionInitInv == ExecutionInit => ExecutionInv
<1> SUFFICES ASSUME ExecutionInit PROVE ExecutionInv
  OBVIOUS
<1>1. DocInv
  BY DocInitInv DEF ExecutionInit
<1>2. /\ DOMAIN status = Commitments /\ \A c \in Commitments : status[c] = "ABSENT"
  BY DEF ExecutionInit, Ledgers!LedgerInit
<1>3. \A c \in Commitments : docs[c].status = "ABSENT" /\ docs[c].commitment = "NONE"
  BY ExecutionConstants DEF ExecutionInit, DocInit, NoDocument
<1>4. CommitmentsBacked
  BY <1>2, <1>3 DEF CommitmentsBacked
<1>5. QED  BY <1>1, <1>2, <1>3, <1>4 DEF ExecutionInv, Ledgers!CommitmentStatus

\* What a document does on its own leaves its commitment alone, never removes a
\* document that was awarded, and moves its status as the ledger expects.
LEMMA AloneMoves ==
    ASSUME ExecutionInv, NEW d \in Documents, DocumentAlone(d)
    PROVE  /\ \A e \in Documents \ {d} : docs'[e] = docs[e]
           /\ UNCHANGED commitmentVars
           /\ d \in Commitments =>
                 /\ docs[d].status # "ABSENT" /\ docs'[d].status # "ABSENT"
                 /\ docs'[d].commitment = docs[d].commitment /\ docs'[d].quoted = docs[d].quoted
                 /\ \/ docs'[d].status = docs[d].status
                    \/ docs'[d].status \in Ledgers!DocumentMoves(docs[d].status)
<1>1. /\ DocInv /\ GoodDocument(docs[d]) /\ IsDocument(docs[d]) /\ DOMAIN docs = Documents
      /\ d \in Commitments /\ docs[d].status # "ABSENT" => docs[d].quoted
  BY DEF ExecutionInv, DocInv, GoodDocument
<1>2. UNCHANGED commitmentVars
  BY DEF DocumentAlone
<1>3. \A e \in Documents \ {d} : docs'[e] = docs[e]
  BY <1>1 DEF DocumentAlone, CreateDocument, UpdateDocument, ReplaceLines, DeleteLine,
     DeleteDocument, ApproveDocument, PostExport, ReverseDocument
<1>4. ASSUME d \in Commitments
      PROVE  /\ docs[d].status # "ABSENT" /\ docs'[d].status # "ABSENT"
             /\ docs'[d].commitment = docs[d].commitment /\ docs'[d].quoted = docs[d].quoted
             /\ \/ docs'[d].status = docs[d].status
                \/ docs'[d].status \in Ledgers!DocumentMoves(docs[d].status)
  <2>1. ASSUME NEW s \in MutableStatuses \cup {NoValue}, UpdateDocument(d, s)
        PROVE  /\ docs[d].status # "ABSENT" /\ docs'[d].status # "ABSENT"
               /\ docs'[d].commitment = docs[d].commitment /\ docs'[d].quoted = docs[d].quoted
               /\ \/ docs'[d].status = docs[d].status
                  \/ docs'[d].status \in Ledgers!DocumentMoves(docs[d].status)
    <3>1. CASE s = NoValue
      BY <1>1, <2>1, <3>1 DEF UpdateDocument, WithTotals, IsDocument
    <3>2. CASE s # NoValue
      <4>1. /\ docs'[d].status = s /\ docs'[d].commitment = docs[d].commitment
            /\ docs'[d].quoted = docs[d].quoted
            /\ s \in MutableStatuses /\ docs[d].status \notin LockedStatuses \cup {"ABSENT"}
        BY <1>1, <2>1, <3>2 DEF UpdateDocument, WithTotals, IsDocument, Locked
      <4>2. docs[d].status \in MutableStatuses \cup {"CANCELLED"}
        BY <1>1, <4>1 DEF IsDocument
      <4>3. s = docs[d].status \/ s \in Ledgers!DocumentMoves(docs[d].status)
        BY <4>1, <4>2 DEF MutableStatuses, Ledgers!DocumentMoves
      <4>4. QED  BY <4>1, <4>3 DEF MutableStatuses
    <3>3. QED  BY <3>1, <3>2
  <2>2. ~LinesEditable(d) \/ docs[d].status = "ABSENT"
    BY <1>1, <1>4 DEF LinesEditable
  <2>3. ASSUME ApproveDocument(d)
        PROVE  /\ docs[d].status # "ABSENT" /\ docs'[d].status = "APPROVED"
               /\ docs'[d].commitment = docs[d].commitment /\ docs'[d].quoted = docs[d].quoted
               /\ "APPROVED" \in Ledgers!DocumentMoves(docs[d].status)
    <3>1. docs[d].status \in {"ESTIMATED", "ACCRUED", "ACTUAL", "CANCELLED"}
      BY <1>1, <2>3 DEF ApproveDocument, IsDocument, MutableStatuses, LockedStatuses
    <3>2. "APPROVED" \in Ledgers!DocumentMoves(docs[d].status)
      BY <3>1 DEF Ledgers!DocumentMoves
    <3>3. QED  BY <1>1, <2>3, <3>2 DEF ApproveDocument, IsDocument
  <2>4. ASSUME PostExport(d)
        PROVE  /\ docs[d].status = "APPROVED" /\ docs'[d].status = "EXPORTED"
               /\ docs'[d].commitment = docs[d].commitment /\ docs'[d].quoted = docs[d].quoted
               /\ "EXPORTED" \in Ledgers!DocumentMoves("APPROVED")
    BY <1>1, <2>4 DEF PostExport, IsDocument, Ledgers!DocumentMoves
  <2>5. ASSUME ReverseDocument(d)
        PROVE  /\ docs[d].status \in {"APPROVED", "EXPORTED"} /\ docs'[d].status = "REVERSED"
               /\ docs'[d].commitment = docs[d].commitment /\ docs'[d].quoted = docs[d].quoted
               /\ "REVERSED" \in Ledgers!DocumentMoves(docs[d].status)
    BY <1>1, <2>5 DEF ReverseDocument, IsDocument, Ledgers!DocumentMoves
  <2>6. QED
    BY <1>4, <2>1, <2>2, <2>3, <2>4, <2>5
    DEF DocumentAlone, ReplaceLines, DeleteLine, DeleteDocument
<1>5. QED  BY <1>2, <1>3, <1>4

\* A step keeps the commitments backed if it moves a commitment and its document
\* together.
LEMMA ExecutionStepKeepsInv ==
    ASSUME ExecutionInv, [ExecutionNext]_executionVars
    PROVE  ExecutionInv'
<1> DEFINE Backed(c) ==
        /\ status'[c] \in Ledgers!CommitmentStatus
        /\ docs'[c].commitment = CASE status'[c] = "ABSENT"    -> "NONE"
                                   [] status'[c] = "CANCELLED" -> "CANCELLED"
                                   [] OTHER                    -> "OPEN"
        /\ docs'[c].status # "ABSENT" => docs'[c].quoted
<1>1. DocInv'
  BY ExecutionStepIsDocStep, DocStepKeepsInv DEF ExecutionInv
<1>2. SUFFICES DOMAIN status' = Commitments /\ \A c \in Commitments : Backed(c)
  BY <1>1 DEF ExecutionInv, CommitmentsBacked, Ledgers!CommitmentStatus
<1>3. DOMAIN docs = Documents /\ Commitments \subseteq Documents
  BY ExecutionConstants DEF ExecutionInv, DocInv
<1>4. ASSUME NEW c \in Commitments, docs'[c] = docs[c], status'[c] = status[c]
      PROVE  Backed(c)
  BY <1>4 DEF ExecutionInv, CommitmentsBacked
<1>5. ASSUME NEW c \in Commitments, NEW award \in Awards, Award(c, award)
      PROVE  DOMAIN status' = Commitments /\ \A k \in Commitments : Backed(k)
  <2>1. /\ DOMAIN status' = Commitments /\ status'[c] = "ACTIVE"
        /\ \A k \in Commitments \ {c} : status'[k] = status[k]
    BY <1>5 DEF Award, Ledgers!OpenCommitment, ExecutionInv
  <2>2. /\ docs'[c].commitment = "OPEN" /\ docs'[c].quoted
        /\ \A k \in Commitments \ {c} : docs'[k] = docs[k]
    BY <1>3, <1>5 DEF Award, AwardDocument
  <2>3. Backed(c)
    BY <2>1, <2>2 DEF Ledgers!CommitmentStatus
  <2>4. QED  BY <1>4, <2>1, <2>2, <2>3
<1>6. ASSUME NEW c \in Commitments, NEW id \in Identities, NEW draw \in Draws,
             Consume(c, id, draw)
      PROVE  DOMAIN status' = Commitments /\ \A k \in Commitments : Backed(k)
  <2>1. /\ DOMAIN status' = Commitments /\ status[c] = "ACTIVE"
        /\ status'[c] \in {"ACTIVE", "CONSUMED"}
        /\ \A k \in Commitments \ {c} : status'[k] = status[k]
    BY <1>6 DEF Consume, Ledgers!Consume, ExecutionInv
  <2>2. docs' = docs
    BY <1>6 DEF Consume, docVars
  <2>3. Backed(c)
    BY <2>1, <2>2 DEF ExecutionInv, CommitmentsBacked, Ledgers!CommitmentStatus
  <2>4. QED  BY <1>4, <2>1, <2>2, <2>3
<1>7. ASSUME NEW i \in DOMAIN consumptions, ReverseConsumption(i)
      PROVE  DOMAIN status' = Commitments /\ \A k \in Commitments : Backed(k)
  <2>1. /\ DOMAIN status' = Commitments
        /\ \A k \in Commitments : \/ status'[k] = status[k]
                                  \/ (status[k] = "CONSUMED" /\ status'[k] = "ACTIVE")
    BY <1>7 DEF ReverseConsumption, Ledgers!ReverseConsumption, ExecutionInv
  <2>2. docs' = docs
    BY <1>7 DEF ReverseConsumption, docVars
  <2>3. ASSUME NEW k \in Commitments PROVE Backed(k)
    BY <2>1, <2>2 DEF ExecutionInv, CommitmentsBacked, Ledgers!CommitmentStatus
  <2>4. QED  BY <2>1, <2>3
<1>8. ASSUME NEW c \in Commitments, CancelCommitment(c)
      PROVE  DOMAIN status' = Commitments /\ \A k \in Commitments : Backed(k)
  <2>1. /\ DOMAIN status' = Commitments /\ status'[c] = "CANCELLED"
        /\ \A k \in Commitments \ {c} : status'[k] = status[k]
    BY <1>8 DEF CancelCommitment, Ledgers!CancelCommitment, ExecutionInv
  <2>2. GoodDocument(docs[c]) /\ IsDocument(docs[c]) /\ docs[c].commitment = "OPEN"
    BY <1>3, <1>8 DEF ExecutionInv, DocInv, GoodDocument, CancelCommitment, CancelWithCommitment
  <2>3. /\ docs'[c].commitment = "CANCELLED" /\ docs'[c].quoted = docs[c].quoted
        /\ \A k \in Commitments \ {c} : docs'[k] = docs[k]
    BY <1>3, <1>8, <2>2 DEF CancelCommitment, CancelWithCommitment, IsDocument
  <2>4. docs[c].quoted
    BY <2>2 DEF GoodDocument
  <2>5. Backed(c)
    BY <2>1, <2>3, <2>4 DEF Ledgers!CommitmentStatus
  <2>6. QED  BY <1>4, <2>1, <2>3, <2>5
<1>9. ASSUME NEW d \in Documents, DocumentAlone(d)
      PROVE  DOMAIN status' = Commitments /\ \A k \in Commitments : Backed(k)
  <2>1. /\ \A e \in Documents \ {d} : docs'[e] = docs[e]
        /\ UNCHANGED commitmentVars
        /\ d \in Commitments =>
              /\ docs[d].status # "ABSENT"
              /\ docs'[d].commitment = docs[d].commitment /\ docs'[d].quoted = docs[d].quoted
    BY <1>9, AloneMoves
  <2>2. status' = status
    BY <2>1 DEF commitmentVars
  <2>3. d \in Commitments => Backed(d)
    BY <2>1, <2>2 DEF ExecutionInv, CommitmentsBacked
  <2>4. QED  BY <1>3, <1>4, <2>1, <2>2, <2>3 DEF ExecutionInv
<1>10. ASSUME docs' = docs, status' = status
       PROVE  DOMAIN status' = Commitments /\ \A k \in Commitments : Backed(k)
  BY <1>4, <1>10 DEF ExecutionInv
<1>11. ASSUME NEW i \in Invoices, Reconcile(i) PROVE docs' = docs /\ status' = status
  BY <1>11 DEF Reconcile, commitmentVars, InvoiceStep, CreateInvoice, UpdateInvoice,
     MatchInvoice, DeleteInvoice
<1> HIDE DEF Backed
<1>12. QED
  BY <1>5, <1>6, <1>7, <1>8, <1>9, <1>10, <1>11
  DEF ExecutionNext, executionVars, docVars, commitmentVars, SetPolicy

\* Every step of documents and commitments together keeps the invariant.
THEOREM ExecutionInvariant == ExecutionSpec => []ExecutionInv
BY ExecutionInitInv, ExecutionStepKeepsInv, PTL DEF ExecutionSpec

\* A commitment and its document are made and cancelled together, and what was
\* awarded is never deleted.
THEOREM CommitmentsAreBacked == ExecutionSpec => []CommitmentsBacked
BY ExecutionInvariant, PTL DEF ExecutionInv

\* A document is exported at most once while its commitment is not cancelled.
THEOREM ExportedAtMostOnce == ExecutionSpec => []ExportedOnceWhileCommitted
<1>1. ExecutionInv => ExportedOnceWhileCommitted
  <2> SUFFICES ASSUME ExecutionInv, NEW c \in Commitments, status[c] # "CANCELLED"
               PROVE  Cardinality(ExportsOf(c)) <= 1
    BY DEF ExportedOnceWhileCommitted
  <2>1. c \in Documents /\ docs[c].commitment # "CANCELLED"
    BY ExecutionConstants DEF ExecutionInv, CommitmentsBacked
  <2>2. \A x, y \in ExportsOf(c) : x = y
    BY <2>1 DEF ExecutionInv, DocInv, ExportsBelong
  <2>3. CASE ExportsOf(c) = {}
    BY <2>3, FS_EmptySet
  <2>4. CASE ExportsOf(c) # {}
    <3>1. PICK x : ExportsOf(c) = {x}
      BY <2>2, <2>4
    <3>2. QED  BY <3>1, FS_Singleton
  <2>5. QED  BY <2>3, <2>4
<1>2. QED  BY <1>1, ExecutionInvariant, PTL

\* Seen from a commitment, its document does only what module QuoteCommitment
\* lets it do: each step is a step of the ledger or leaves it alone.
THEOREM ExecutionImplementsLedger == ExecutionSpec => ImplementsLedger
<1>1. ExecutionInit => Ledgers!LedgerInit
  BY DEF ExecutionInit
<1>2. ExecutionInv /\ [ExecutionNext]_executionVars => [Ledgers!LedgerNext]_(Ledgers!ledgerVars)
  <2> SUFFICES ASSUME ExecutionInv, [ExecutionNext]_executionVars
               PROVE  Ledgers!LedgerNext \/ UNCHANGED Ledgers!ledgerVars
    OBVIOUS
  <2>1. ASSUME NEW c \in Commitments, NEW award \in Awards, Award(c, award)
        PROVE  Ledgers!LedgerNext
    BY <2>1 DEF Award, Ledgers!LedgerNext
  <2>2. ASSUME NEW c \in Commitments, NEW id \in Identities, NEW draw \in Draws,
               Consume(c, id, draw)
        PROVE  Ledgers!LedgerNext
    BY <2>2 DEF Consume, Ledgers!LedgerNext
  <2>3. ASSUME NEW i \in DOMAIN consumptions, ReverseConsumption(i)
        PROVE  Ledgers!LedgerNext
    BY <2>3 DEF ReverseConsumption, Ledgers!LedgerNext
  <2>4. ASSUME NEW c \in Commitments, CancelCommitment(c)
        PROVE  Ledgers!LedgerNext
    BY <2>4 DEF CancelCommitment, Ledgers!LedgerNext
  <2>5. ASSUME NEW d \in Documents, DocumentAlone(d)
        PROVE  Ledgers!LedgerNext \/ UNCHANGED Ledgers!ledgerVars
    <3>1. /\ \A e \in Documents \ {d} : docs'[e] = docs[e]
          /\ UNCHANGED commitmentVars
          /\ d \in Commitments =>
                \/ docs'[d].status = docs[d].status
                \/ docs'[d].status \in Ledgers!DocumentMoves(docs[d].status)
      BY <2>5, AloneMoves
    <3>2. UNCHANGED <<status, terms, consumed, consumptions>> /\ Commitments \subseteq Documents
      BY <3>1, ExecutionConstants DEF commitmentVars
    <3>3. CASE d \in Commitments /\ docs'[d].status # docs[d].status
      <4> DEFINE before == [c \in Commitments |-> docs[c].status]
                 after  == [c \in Commitments |-> docs'[c].status]
      <4>1. docs'[d].status \in Ledgers!DocumentMoves(before[d])
        BY <3>1, <3>3
      <4>2. after = [before EXCEPT ![d] = docs'[d].status]
        <5>1. \A c \in Commitments \ {d} : after[c] = before[c]
          BY <3>1, <3>2
        <5>2. QED  BY <3>3, <5>1
      <4>3. Ledgers!DocumentStep(d)
        <5> HIDE DEF before, after
        <5>1. \E s \in Ledgers!DocumentMoves(before[d]) : after = [before EXCEPT ![d] = s]
          BY <4>1, <4>2
        <5>2. QED  BY <3>2, <5>1 DEF Ledgers!DocumentStep, before, after
      <4>4. QED  BY <3>3, <4>3 DEF Ledgers!LedgerNext
    <3>4. CASE d \notin Commitments \/ docs'[d].status = docs[d].status
      BY <3>1, <3>2, <3>4 DEF Ledgers!ledgerVars
    <3>5. QED  BY <3>3, <3>4
  <2>6. ASSUME NEW i \in Invoices, Reconcile(i)
        PROVE  UNCHANGED <<docs, status, terms, consumed, consumptions>>
    BY <2>6 DEF Reconcile, commitmentVars, InvoiceStep, CreateInvoice, UpdateInvoice,
       MatchInvoice, DeleteInvoice
  <2>7. ASSUME UNCHANGED <<docs, status, terms, consumed, consumptions>>
        PROVE  UNCHANGED Ledgers!ledgerVars
    BY <2>7 DEF Ledgers!ledgerVars
  <2>8. QED
    BY <2>1, <2>2, <2>3, <2>4, <2>5, <2>6, <2>7
    DEF ExecutionNext, executionVars, docVars, commitmentVars, SetPolicy
<1>3. QED
  BY <1>1, <1>2, ExecutionInvariant, PTL DEF ExecutionSpec, ImplementsLedger, Ledgers!LedgerSpec
=============================================================================
