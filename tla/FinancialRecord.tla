---------------------------- MODULE FinancialRecord ----------------------------
(***************************************************************************)
(* What a charge document promises as a financial record: it is open to    *)
(* edits and to the reconciliation of invoices until it is approved; from  *)
(* then on what goes to the ledger and the invoices it was reconciled with *)
(* are frozen; it is posted at most once, as it was approved; and it is    *)
(* reversed instead of being deleted.                                      *)
(***************************************************************************)
CONSTANTS
    Records,        \* the records
    NoLedger        \* the ledger of a record that does not exist

VARIABLES
    phase,          \* record -> how far it has come
    ledger,         \* record -> the lines and totals that are to be posted
    evidence,       \* record -> the invoices it is reconciled with
    posted          \* record -> the ledgers that were posted for it

recordVars == <<phase, ledger, evidence, posted>>

RecordInit ==
    /\ phase = [r \in Records |-> "ABSENT"]
    /\ ledger = [r \in Records |-> NoLedger]
    /\ evidence = [r \in Records |-> {}]
    /\ posted = [r \in Records |-> {}]

Moves(r, from, to) ==
    /\ phase[r] = from
    /\ phase' = [phase EXCEPT ![r] = to]

\* f may take any new value at r, and at r only.
OnlyAt(r, old, new) ==
    /\ DOMAIN new = Records
    /\ \A q \in Records \ {r} : new[q] = old[q]

Open(r) ==
    /\ Moves(r, "ABSENT", "OPEN")
    /\ OnlyAt(r, ledger, ledger')
    /\ UNCHANGED <<evidence, posted>>

Edit(r) ==
    /\ Moves(r, "OPEN", "OPEN")
    /\ OnlyAt(r, ledger, ledger')
    /\ evidence[r] = {}
    /\ UNCHANGED <<evidence, posted>>

Reconcile(r) ==
    /\ Moves(r, "OPEN", "OPEN")
    /\ OnlyAt(r, evidence, evidence')
    /\ UNCHANGED <<ledger, posted>>

\* Only a record without evidence is dropped.
Drop(r) ==
    /\ Moves(r, "OPEN", "ABSENT")
    /\ evidence[r] = {}
    /\ ledger' = [ledger EXCEPT ![r] = NoLedger]
    /\ UNCHANGED <<evidence, posted>>

Approve(r) ==
    /\ Moves(r, "OPEN", "APPROVED")
    /\ UNCHANGED <<ledger, evidence, posted>>

Post(r) ==
    /\ Moves(r, "APPROVED", "EXPORTED")
    /\ posted' = [posted EXCEPT ![r] = {ledger[r]}]
    /\ UNCHANGED <<ledger, evidence>>

Reverse(r) ==
    /\ Moves(r, "APPROVED", "REVERSED") \/ Moves(r, "EXPORTED", "REVERSED")
    /\ UNCHANGED <<ledger, evidence, posted>>

RecordNext ==
    \E r \in Records :
        \/ Open(r) \/ Edit(r) \/ Reconcile(r) \/ Drop(r)
        \/ Approve(r) \/ Post(r) \/ Reverse(r)

RecordSpec == RecordInit /\ [][RecordNext]_recordVars
=============================================================================
