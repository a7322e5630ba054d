--------------------------- MODULE QuoteCommitment ---------------------------
(***************************************************************************)
(* The ledger of a quote commitment: the capacity and value an award sets  *)
(* aside, the consumptions that bookings and shipments draw from it, their *)
(* reversal, and the cancellation that also cancels the charge document.   *)
(* ChargeManagementService keeps it in app/domain/service.py; every        *)
(* operation is one transaction, so it is one action here.  A request the  *)
(* service refuses (HTTP 4xx) rolls back, and a retry it recognises only   *)
(* reads: both leave the state alone and need no action.                   *)
(*                                                                         *)
(* Amounts are whole minor units of the quote's currency, measures whole   *)
(* units of their dimension; NoValue is Python's None.                     *)
(***************************************************************************)
EXTENDS OptionalValues, Integers, Sequences, FiniteSets, FiniteSetsExt

CONSTANTS
    Commitments,    \* commitment ids
    Terms,          \* the terms an award may commit
    Draws,          \* the measures and amounts a consume request may ask for
    Identities,     \* the source identities consume requests carry: records of a
                    \* source and a reference (source_object_id, reference_number)
    MaxRows         \* bound: consumption rows ever written

(***************************************************************************)
(* Types                                                                   *)
(***************************************************************************)

\* The measured dimensions of a commitment.  quantity is never None.
Dims == {"container", "package", "weight", "quantity"}

\* The dimensions _commitment_fully_consumed and _any_remaining look at first.
SpecificDims == {"container", "package", "weight"}

\* The dimensions whose capacity check falls back on the quantity.
FallbackDims == {"container", "package"}

OptionalNat == Nat \cup {NoValue}

\* What is committed: a quote may leave every specific dimension open.
TermsType == {t \in [measure : [Dims -> OptionalNat], amount : Nat] :
                  t.measure["quantity"] \in Nat}

\* QuoteCommitmentConsumeRequest: every given value is positive.
DrawType == [measure : [Dims -> OptionalNat \ {0}], amount : OptionalNat \ {0}]

Balance == [measure : [Dims -> Nat], amount : Nat]

CommitmentStatus == {"ABSENT", "ACTIVE", "CONSUMED", "CANCELLED"}

\* A persisted consumption; amount is the booked one, which may stay None.
RowType == [commitment : Commitments, identity : Identities,
            measure : [Dims -> OptionalNat], amount : OptionalNat,
            explicit : BOOLEAN, status : {"ACTIVE", "REVERSED"}]

DocumentStatus == {"ABSENT", "ESTIMATED", "ACCRUED", "ACTUAL", "DISPUTED",
                   "APPROVED", "EXPORTED", "REVERSED", "CANCELLED"}

ASSUME CommitmentConstants ==
    /\ NoValue \notin Int
    /\ Terms \subseteq TermsType
    /\ Draws \subseteq DrawType
    /\ MaxRows \in Nat

VARIABLES
    status,         \* commitment -> its status
    terms,          \* commitment -> what the award committed
    consumed,       \* commitment -> what is booked against it
    consumptions,   \* every consumption row, in the order of their ids
    document        \* commitment -> status of the charge document it is linked to

ledgerVars == <<status, terms, consumed, consumptions, document>>

(***************************************************************************)
(* Balances                                                                *)
(***************************************************************************)

\* dec(None) is 0.
Dec(v) == IF v = NoValue THEN 0 ELSE v

\* money(n / d): half up on minor units.
RoundHalfUp(n, d) == (2 * n + d) \div (2 * d)

AtLeastZero(n) == IF n < 0 THEN 0 ELSE n

\* _remaining is None for a dimension that was not committed.
Tracked(t) == {d \in SpecificDims : t.measure[d] # NoValue}

Remaining(t, b, d) == Dec(t.measure[d]) - b.measure[d]

RemainingAmount(t, b) == t.amount - b.amount

\* container_count or committed_quantity: 0 and None both fall through.
CapacityOf(t, d) ==
    IF d \in FallbackDims /\ Dec(t.measure[d]) = 0
    THEN t.measure["quantity"]
    ELSE t.measure[d]

\* Mutated form of DrawnFrom: what is booked already is forgotten.
NothingDrawn(t, b, d) == 0

\* The balance compared with CapacityOf: only None selects the quantity.
DrawnFrom(t, b, d) ==
    IF d \in FallbackDims /\ t.measure[d] = NoValue
    THEN b.measure["quantity"]
    ELSE b.measure[d]

HasCapacity(t, b, draw) ==
    /\ \A d \in Dims : draw.measure[d] # NoValue =>
          /\ CapacityOf(t, d) # NoValue
          /\ CapacityOf(t, d) - DrawnFrom(t, b, d) >= draw.measure[d]
    /\ draw.amount # NoValue => RemainingAmount(t, b) >= draw.amount

HasUse(draw) == draw.amount # NoValue \/ \E d \in Dims : draw.measure[d] # NoValue

\* The dimension a proportional amount is taken from: the first one that is
\* both asked for and committed.
BasisOrder == <<"container", "package", "weight", "quantity">>

Bases(t, draw) ==
    {i \in DOMAIN BasisOrder :
        /\ draw.measure[BasisOrder[i]] # NoValue
        /\ Dec(t.measure[BasisOrder[i]]) > 0}

\* Mutated form of TakesTheRest: the last draw is rounded like any other.
TakesMoreThanTheRest(t, b, draw, d) == draw.measure[d] > Remaining(t, b, d)

\* A draw that takes what is left of its basis takes what is left of the
\* amount too, so that rounding loses nothing.
TakesTheRest(t, b, draw, d) == draw.measure[d] >= Remaining(t, b, d)

ProportionalAmount(t, b, draw) ==
    IF Bases(t, draw) = {} THEN NoValue
    ELSE LET d == BasisOrder[Min(Bases(t, draw))]
         IN  IF TakesTheRest(t, b, draw, d)
             THEN RemainingAmount(t, b)
             ELSE RoundHalfUp(t.amount * draw.measure[d], t.measure[d])

BookedAmount(t, b, draw) ==
    IF draw.amount # NoValue THEN draw.amount ELSE ProportionalAmount(t, b, draw)

ApplyDraw(b, measure, amount) ==
    [measure |-> [d \in Dims |-> b.measure[d] + Dec(measure[d])],
     amount  |-> b.amount + Dec(amount)]

\* Mutated form of UndoDraw: the amount is not given back.
UndoMeasureOnly(b, measure, amount) ==
    [measure |-> [d \in Dims |-> AtLeastZero(b.measure[d] - Dec(measure[d]))],
     amount  |-> b.amount]

UndoDraw(b, measure, amount) ==
    [measure |-> [d \in Dims |-> AtLeastZero(b.measure[d] - Dec(measure[d]))],
     amount  |-> AtLeastZero(b.amount - Dec(amount))]

FitsAmount(t, b, amount) == amount # NoValue => amount <= RemainingAmount(t, b)

FullyConsumed(t, b) ==
    IF Tracked(t) # {} THEN \A d \in Tracked(t) : Remaining(t, b, d) <= 0
    ELSE IF t.measure["quantity"] > 0 THEN Remaining(t, b, "quantity") <= 0
    ELSE RemainingAmount(t, b) <= 0

\* Mutated form of AnyRemaining: quantity and amount are not looked at.
AnySpecificRemaining(t, b) == \E d \in Tracked(t) : Remaining(t, b, d) > 0

AnyRemaining(t, b) ==
    \/ \E d \in Tracked(t) : Remaining(t, b, d) > 0
    \/ Remaining(t, b, "quantity") > 0
    \/ RemainingAmount(t, b) > 0

(***************************************************************************)
(* Source identities                                                       *)
(***************************************************************************)

\* The reference only identifies a consumption that has no source object.
SameIdentity(id1, id2) ==
    \/ id1.source # NoValue /\ id1.source = id2.source
    \/ id1.source = NoValue /\ id2.source = NoValue /\ id1.reference = id2.reference

RowsOf(c) == {i \in DOMAIN consumptions : consumptions[i].commitment = c}

ActiveRows(c) == {i \in RowsOf(c) : consumptions[i].status = "ACTIVE"}

Unused(c) == ActiveRows(c) = {}

\* Mutated form of Existing: a reversed row no longer claims its identity.
ExistingActive(c, id) ==
    {i \in ActiveRows(c) : SameIdentity(consumptions[i].identity, id)}

\* The row a consume request of c with this identity finds, reversed or not.
Existing(c, id) == {i \in RowsOf(c) : SameIdentity(consumptions[i].identity, id)}

(***************************************************************************)
(* Actions                                                                 *)
(***************************************************************************)

NoTerms == [measure |-> [d \in Dims |-> 0], amount |-> 0]

LedgerInit ==
    /\ status = [c \in Commitments |-> "ABSENT"]
    /\ terms = [c \in Commitments |-> NoTerms]
    /\ consumed = [c \in Commitments |-> NoTerms]
    /\ consumptions = << >>
    /\ document = [c \in Commitments |-> "ABSENT"]

\* Award creates the commitment together with an ESTIMATED document.
OpenCommitment(c, t) ==
    /\ status[c] = "ABSENT"
    /\ status' = [status EXCEPT ![c] = "ACTIVE"]
    /\ terms' = [terms EXCEPT ![c] = t]
    /\ document' = [document EXCEPT ![c] = "ESTIMATED"]
    /\ UNCHANGED <<consumed, consumptions>>

\* _apply_consumption and the status that follows from it.
Consume(c, id, draw) ==
    LET amount  == BookedAmount(terms[c], consumed[c], draw)
        balance == ApplyDraw(consumed[c], draw.measure, amount)
    IN  /\ Existing(c, id) = {}
        /\ status[c] = "ACTIVE"
        /\ HasUse(draw)
        /\ HasCapacity(terms[c], consumed[c], draw)
        /\ FitsAmount(terms[c], consumed[c], amount)
        /\ Len(consumptions) < MaxRows
        /\ consumptions' = Append(consumptions,
              [commitment |-> c, identity |-> id, measure |-> draw.measure,
               amount |-> amount, explicit |-> draw.amount # NoValue,
               status |-> "ACTIVE"])
        /\ consumed' = [consumed EXCEPT ![c] = balance]
        /\ status' = [status EXCEPT ![c] =
                         IF FullyConsumed(terms[c], balance) THEN "CONSUMED" ELSE @]
        /\ UNCHANGED <<terms, document>>

\* Reversing gives the draw back and may reopen a CONSUMED commitment.
ReverseConsumption(i) ==
    LET row     == consumptions[i]
        c       == row.commitment
        balance == UndoDraw(consumed[c], row.measure, row.amount)
    IN  /\ row.status = "ACTIVE"
        /\ consumptions' = [consumptions EXCEPT ![i].status = "REVERSED"]
        /\ consumed' = [consumed EXCEPT ![c] = balance]
        /\ status' = [status EXCEPT ![c] =
                         IF @ = "CONSUMED" /\ AnyRemaining(terms[c], balance)
                         THEN "ACTIVE" ELSE @]
        /\ UNCHANGED <<terms, document>>

\* Cancelling takes the charge document with it, whatever its status, unless
\* that is reversed or cancelled already.
CancelCommitment(c) ==
    /\ status[c] \in {"ACTIVE", "CONSUMED"}
    /\ Unused(c)
    /\ status' = [status EXCEPT ![c] = "CANCELLED"]
    /\ document' = [document EXCEPT ![c] =
                       IF @ \in {"REVERSED", "CANCELLED"} THEN @ ELSE "CANCELLED"]
    /\ UNCHANGED <<terms, consumed, consumptions>>

\* The document's own handlers (workspace update, approval, export, reversal;
\* module ChargeDocument) move it without looking at the commitment.
DocumentMoves(s) ==
    CASE s \in {"ESTIMATED", "ACCRUED", "ACTUAL", "CANCELLED"} ->
             {"ESTIMATED", "ACCRUED", "ACTUAL", "DISPUTED", "APPROVED"}
      [] s = "DISPUTED" -> {"ESTIMATED", "ACCRUED", "ACTUAL"}
      [] s = "APPROVED" -> {"EXPORTED", "REVERSED"}
      [] s = "EXPORTED" -> {"REVERSED"}
      [] OTHER -> {}

DocumentStep(c) ==
    /\ \E s \in DocumentMoves(document[c]) : document' = [document EXCEPT ![c] = s]
    /\ UNCHANGED <<status, terms, consumed, consumptions>>

LedgerNext ==
    \/ \E c \in Commitments :
         \/ \E t \in Terms : OpenCommitment(c, t)
         \/ \E id \in Identities, draw \in Draws : Consume(c, id, draw)
         \/ CancelCommitment(c)
         \/ DocumentStep(c)
    \/ \E i \in DOMAIN consumptions : ReverseConsumption(i)

LedgerSpec == LedgerInit /\ [][LedgerNext]_ledgerVars

(***************************************************************************)
(* Properties                                                              *)
(***************************************************************************)

\* Every variable has its type; in particular no balance goes negative.
LedgerTypeOK ==
    /\ status \in [Commitments -> CommitmentStatus]
    /\ terms \in [Commitments -> TermsType]
    /\ consumed \in [Commitments -> Balance]
    /\ consumptions \in Seq(RowType)
    /\ document \in [Commitments -> DocumentStatus]

\* One source object is booked once for a commitment: no two rows, reversed
\* ones included, answer to the same identity, so a retry finds one row at most
\* (the lookup at the head of consume_quote_commitment).
IdentityConsumedOnce ==
    \A i, j \in DOMAIN consumptions :
        (/\ consumptions[i].commitment = consumptions[j].commitment
         /\ SameIdentity(consumptions[i].identity, consumptions[j].identity))
        => i = j

\* What every consumption row has booked.
AmountsBooked == [i \in DOMAIN consumptions |-> Dec(consumptions[i].amount)]

MeasuresBooked(d) == [i \in DOMAIN consumptions |-> Dec(consumptions[i].measure[d])]

\* What is booked on a commitment is the sum of its consumptions that are not
\* reversed, in every dimension and in the amount: consume and reverse keep the
\* balance columns and the history in step.
BalancesAreBooked ==
    \A c \in Commitments :
        /\ consumed[c].amount = SumFunctionOnSet(AmountsBooked, ActiveRows(c))
        /\ \A d \in Dims :
              consumed[c].measure[d] = SumFunctionOnSet(MeasuresBooked(d), ActiveRows(c))

\* No draw goes beyond what was committed: never in the amount, the weight or
\* the quantity, nor in containers and packages once some are committed
\* (_commitment_has_capacity and the amount check that follows it).
WithinCommitment ==
    \A c \in Commitments :
        /\ consumed[c].amount <= terms[c].amount
        /\ \A d \in Dims :
              (d \notin FallbackDims \/ Dec(terms[c].measure[d]) > 0)
              => consumed[c].measure[d] <= Dec(terms[c].measure[d])

\* A commitment is cancelled only when nothing is drawn from it any more, and
\* nothing is drawn afterwards.
CancelledCommitmentUnused ==
    \A c \in Commitments : status[c] = "CANCELLED" => ActiveRows(c) = {}

\* CONSUMED is never stale: after a reversal the status is left CONSUMED only
\* if the commitment is still exhausted.
ConsumedMeansExhausted ==
    \A c \in Commitments :
        status[c] = "CONSUMED" => FullyConsumed(terms[c], consumed[c])

\* Rounding loses no money: when a commitment is used up by draws on one
\* dimension whose amounts the service derived, exactly the committed amount is
\* booked, whatever was reversed and drawn again in between
\* (_proportional_amount).  A dimension committed as 0 is left out: it counts
\* as used up from the start, and the first draw ends the commitment.
DerivedDrawsExhaustAmount ==
    \A c \in Commitments, d \in Dims :
        (/\ status[c] = "CONSUMED"
         /\ \A i \in RowsOf(c) :
               /\ ~consumptions[i].explicit
               /\ \A e \in Dims : (consumptions[i].measure[e] # NoValue) <=> (e = d)
         /\ \A e \in Tracked(terms[c]) \cup {d} : Dec(terms[c].measure[e]) > 0)
        => consumed[c].amount = terms[c].amount

=============================================================================
