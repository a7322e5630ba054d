---------------------------- MODULE QuoteExecution ----------------------------
(***************************************************************************)
(* Commitments and charge documents together: an award makes one of each,  *)
(* a cancellation takes both, and in between the commitment is consumed    *)
(* and the document approved, exported and reversed by handlers that do    *)
(* not look at each other (app/domain/service.py).                         *)
(*                                                                         *)
(* A commitment is known by the id of its document; the other documents    *)
(* are direct.                                                             *)
(***************************************************************************)
EXTENDS ChargeDocument

CONSTANTS
    Commitments,    \* the documents that may be awarded
    Awards,         \* what an award sets up: the option and the terms it commits
    Draws, Identities, MaxRows      \* see QuoteCommitment

VARIABLES
    status,         \* commitment -> its status
    terms,          \* commitment -> what the award committed
    consumed,       \* commitment -> what is booked against it
    consumptions    \* every consumption row

commitmentVars == <<status, terms, consumed, consumptions>>
executionVars == <<docVars, commitmentVars>>

\* The ledger of module QuoteCommitment, which sees of a document its status.
Ledgers == INSTANCE QuoteCommitment WITH
    Terms    <- {award.terms : award \in Awards},
    document <- [c \in Commitments |-> docs[c].status]

\* What a commitment and its document have in common.
ASSUME ExecutionConstants ==
    /\ Commitments \subseteq Documents
    /\ \A award \in Awards :
          award.option \in Options /\ award.terms \in Ledgers!TermsType

ExecutionInit == DocInit /\ Ledgers!LedgerInit

\* award_quote_request makes the document, _ensure_quote_commitment the
\* commitment, in one transaction.
Award(c, award) ==
    /\ AwardDocument(c, award.option)
    /\ Ledgers!OpenCommitment(c, award.terms)

Consume(c, id, draw) ==
    /\ UNCHANGED docVars
    /\ Ledgers!Consume(c, id, draw)

ReverseConsumption(i) ==
    /\ UNCHANGED docVars
    /\ Ledgers!ReverseConsumption(i)

\* Mutated form of CancelCommitment: the document is left alone.
CancelAlone(c) ==
    /\ status[c] \in {"ACTIVE", "CONSUMED"}
    /\ Ledgers!Unused(c)
    /\ status' = [status EXCEPT ![c] = "CANCELLED"]
    /\ UNCHANGED <<docVars, terms, consumed, consumptions>>

CancelCommitment(c) ==
    /\ CancelWithCommitment(c)
    /\ Ledgers!CancelCommitment(c)

\* Everything a document does on its own.
DocumentAlone(d) ==
    /\ \/ d \notin Commitments /\ \E payload \in Payloads : CreateDocument(d, payload)
       \/ \E s \in MutableStatuses \cup {NoValue} : UpdateDocument(d, s)
       \/ \E s \in MutableStatuses \cup {NoValue}, payload \in Payloads :
             ReplaceLines(d, s, payload)
       \/ \E n \in LineNumbers : DeleteLine(d, n)
       \/ DeleteDocument(d)
       \/ ApproveDocument(d)
       \/ PostExport(d)
       \/ ReverseDocument(d)
    /\ UNCHANGED commitmentVars

Reconcile(i) == InvoiceStep(i) /\ UNCHANGED commitmentVars

ExecutionNext ==
    \/ \E c \in Commitments, award \in Awards : Award(c, award)
    \/ \E c \in Commitments, id \in Identities, draw \in Draws : Consume(c, id, draw)
    \/ \E i \in DOMAIN consumptions : ReverseConsumption(i)
    \/ \E c \in Commitments : CancelCommitment(c)
    \/ \E d \in Documents : DocumentAlone(d)
    \/ \E i \in Invoices : Reconcile(i)
    \/ \E p \in Policies : SetPolicy(p) /\ UNCHANGED commitmentVars

ExecutionSpec == ExecutionInit /\ [][ExecutionNext]_executionVars

(***************************************************************************)
(* Properties                                                              *)
(***************************************************************************)

\* Seen from a commitment, its document does only what module QuoteCommitment
\* lets it do: the ledger's properties hold here too.
ImplementsLedger == Ledgers!LedgerSpec

\* A commitment and its document are made together, are cancelled together and
\* never lose each other: what was awarded cannot be deleted.
CommitmentsBacked ==
    \A c \in Commitments :
        docs[c].commitment = CASE status[c] = "ABSENT"    -> "NONE"
                               [] status[c] = "CANCELLED" -> "CANCELLED"
                               [] OTHER                   -> "OPEN"

\* While a commitment is not cancelled its document is exported once, however
\* often the commitment is consumed and reversed in between.
ExportedOnceWhileCommitted ==
    \A c \in Commitments :
        status[c] # "CANCELLED" => Cardinality(ExportsOf(c)) <= 1
=============================================================================
