------------------------ MODULE QuoteCommitmentProofs ------------------------
(***************************************************************************)
(* Proofs about the commitment ledger, for every set of commitments,       *)
(* terms, draws and identities and every bound on the rows.                *)
(***************************************************************************)
EXTENDS QuoteCommitment, SequenceTheorems, FiniteSums

(***************************************************************************)
(* Lemmas about the operators on balances                                  *)
(***************************************************************************)

\* The first basis of a proportional amount is one of them.
LEMMA FirstBasis ==
    ASSUME NEW S \in SUBSET (1..4), S # {}
    PROVE  Min(S) \in S
<1>1. \E x \in S : \A y \in S : x <= y
  <2>1. CASE 1 \in S  BY <2>1
  <2>2. CASE 1 \notin S /\ 2 \in S  BY <2>2
  <2>3. CASE 1 \notin S /\ 2 \notin S /\ 3 \in S  BY <2>3
  <2>4. CASE 1 \notin S /\ 2 \notin S /\ 3 \notin S
    <3>1. PICK x \in S : TRUE  OBVIOUS
    <3>2. \A y \in S : y = 4  BY <2>4
    <3>3. QED  BY <3>1, <3>2
  <2>5. QED  BY <2>1, <2>2, <2>3, <2>4
<1>2. QED  BY <1>1 DEF Min

\* money() of a quotient of non-negative amounts is a non-negative amount.
LEMMA RoundedIsNat ==
    ASSUME NEW n \in Nat, NEW d \in Nat \ {0}
    PROVE  RoundHalfUp(n, d) \in Nat
<1>1. 2 * n + d \in Nat /\ 2 * d \in Nat \ {0}  OBVIOUS
<1>2. ASSUME NEW a \in Nat, NEW b \in Nat \ {0} PROVE a \div b \in Nat
  BY <1>2
<1>3. QED  BY <1>1, <1>2 DEF RoundHalfUp

\* What a consumption books as its amount is None or not negative, as long as
\* the commitment's amount is not overdrawn.
LEMMA BookedAmountType ==
    ASSUME NoValue \notin Int,
           NEW t \in TermsType, NEW b \in Balance, NEW draw \in DrawType,
           b.amount <= t.amount
    PROVE  BookedAmount(t, b, draw) \in OptionalNat
<1>1. CASE draw.amount # NoValue
  BY <1>1 DEF BookedAmount, DrawType, OptionalNat
<1>2. CASE draw.amount = NoValue /\ Bases(t, draw) = {}
  BY <1>2 DEF BookedAmount, ProportionalAmount, OptionalNat
<1>3. CASE draw.amount = NoValue /\ Bases(t, draw) # {}
  <2> DEFINE d == BasisOrder[Min(Bases(t, draw))]
  <2>1. Min(Bases(t, draw)) \in Bases(t, draw)
    <3>1. Bases(t, draw) \in SUBSET (1..4)  BY DEF Bases, BasisOrder
    <3>2. QED  BY <3>1, <1>3, FirstBasis
  <2>2. d \in Dims /\ draw.measure[d] # NoValue /\ Dec(t.measure[d]) > 0
    <3> DEFINE i == Min(Bases(t, draw))
    <3>1. i \in 1..4 /\ draw.measure[BasisOrder[i]] # NoValue
          /\ Dec(t.measure[BasisOrder[i]]) > 0
      <4>1. DOMAIN BasisOrder = 1..4  BY DEF BasisOrder
      <4>2. i \in Bases(t, draw)  BY <2>1
      <4> HIDE DEF i
      <4>3. QED  BY <4>1, <4>2 DEF Bases
    <3>2. \A k \in 1..4 : BasisOrder[k] \in Dims
      BY DEF BasisOrder, Dims
    <3>3. QED  BY <3>1, <3>2
  <2>3. draw.measure[d] \in Nat /\ t.measure[d] \in Nat \ {0}
    BY <2>2 DEF DrawType, TermsType, OptionalNat, Dec
  <2>4. RemainingAmount(t, b) \in Nat
    BY DEF RemainingAmount, TermsType, Balance
  <2>5. t.amount * draw.measure[d] \in Nat
    BY <2>3 DEF TermsType
  <2>6. RoundHalfUp(t.amount * draw.measure[d], t.measure[d]) \in Nat
    BY <2>3, <2>5, RoundedIsNat
  <2>7. ProportionalAmount(t, b, draw) \in Nat
    BY <1>3, <2>4, <2>6 DEF ProportionalAmount
  <2>8. QED  BY <1>3, <2>7 DEF BookedAmount, OptionalNat
<1>4. QED  BY <1>1, <1>2, <1>3

(***************************************************************************)
(* The inductive invariant                                                 *)
(***************************************************************************)

\* A commitment that was never awarded has nothing booked.
AbsentUntouched ==
    \A c \in Commitments : status[c] = "ABSENT" => consumed[c] = NoTerms

LedgerInv ==
    /\ LedgerTypeOK
    /\ WithinCommitment
    /\ IdentityConsumedOnce
    /\ CancelledCommitmentUnused
    /\ ConsumedMeansExhausted
    /\ AbsentUntouched
    /\ BalancesAreBooked
    /\ DerivedDrawsExhaustAmount

LEMMA LedgerInitInv == LedgerInit => LedgerInv
<1> SUFFICES ASSUME LedgerInit PROVE LedgerInv
  OBVIOUS
<1> USE DEF LedgerInit
<1>1. NoTerms \in TermsType /\ NoTerms \in Balance
  BY DEF NoTerms, TermsType, Balance, OptionalNat, Dims
<1>2. LedgerTypeOK
  BY <1>1 DEF LedgerTypeOK, CommitmentStatus, DocumentStatus
<1>3. WithinCommitment
  BY DEF WithinCommitment, NoTerms, Dec, Dims
<1>4. IdentityConsumedOnce /\ CancelledCommitmentUnused
  BY DEF IdentityConsumedOnce, CancelledCommitmentUnused
<1>5. ConsumedMeansExhausted /\ AbsentUntouched
  BY DEF ConsumedMeansExhausted, AbsentUntouched
<1>6. BalancesAreBooked
  BY SumEmpty DEF BalancesAreBooked, NoTerms, ActiveRows, RowsOf
<1>7. DerivedDrawsExhaustAmount
  BY DEF DerivedDrawsExhaustAmount
<1>8. QED  BY <1>2, <1>3, <1>4, <1>5, <1>6, <1>7 DEF LedgerInv

\* Booking a draw within capacity keeps the balance non-negative and within
\* what was committed.
LEMMA ApplyDrawBounded ==
    ASSUME NoValue \notin Int,
           NEW t \in TermsType, NEW b \in Balance, NEW draw \in DrawType,
           NEW amount \in OptionalNat,
           HasCapacity(t, b, draw), FitsAmount(t, b, amount), b.amount <= t.amount
    PROVE  LET new == ApplyDraw(b, draw.measure, amount)
           IN  /\ new \in Balance
               /\ new.amount <= t.amount
               /\ \A d \in Dims :
                     (/\ d \notin FallbackDims \/ Dec(t.measure[d]) > 0
                      /\ b.measure[d] <= Dec(t.measure[d]))
                     => new.measure[d] <= Dec(t.measure[d])
<1> DEFINE new == ApplyDraw(b, draw.measure, amount)
<1>1. \A d \in Dims : Dec(draw.measure[d]) \in Nat /\ b.measure[d] \in Nat
  BY DEF DrawType, OptionalNat, Dec, Balance
<1>2. Dec(amount) \in Nat /\ b.amount \in Nat /\ t.amount \in Nat
  BY DEF OptionalNat, Dec, Balance, TermsType
<1>3. new \in Balance
  BY <1>1, <1>2 DEF ApplyDraw, Balance
<1>4. new.amount <= t.amount
  BY <1>2 DEF ApplyDraw, FitsAmount, RemainingAmount, Dec
<1>5. ASSUME NEW d \in Dims,
             d \notin FallbackDims \/ Dec(t.measure[d]) > 0,
             b.measure[d] <= Dec(t.measure[d])
      PROVE  new.measure[d] <= Dec(t.measure[d])
  <2>1. new.measure[d] = b.measure[d] + Dec(draw.measure[d])
    BY DEF ApplyDraw
  <2>2. CASE draw.measure[d] = NoValue
    BY <2>1, <2>2, <1>1, <1>5 DEF Dec
  <2>3. CASE draw.measure[d] # NoValue
    <3>1. CapacityOf(t, d) = t.measure[d] /\ t.measure[d] # NoValue
      BY <2>3, <1>5 DEF HasCapacity, CapacityOf, Dec
    <3>2. DrawnFrom(t, b, d) = b.measure[d]
      BY <3>1 DEF DrawnFrom
    <3>3. t.measure[d] \in Nat /\ Dec(t.measure[d]) = t.measure[d]
      BY <3>1 DEF TermsType, OptionalNat, Dec
    <3>4. t.measure[d] - b.measure[d] >= draw.measure[d]
      BY <2>3, <3>1, <3>2 DEF HasCapacity
    <3>5. QED  BY <2>1, <2>3, <3>3, <3>4, <1>1 DEF Dec
  <2>4. QED  BY <2>2, <2>3
<1>6. QED  BY <1>3, <1>4, <1>5

\* Giving a draw back never raises a balance.
LEMMA UndoDrawShrinks ==
    ASSUME NoValue \notin Int,
           NEW b \in Balance, NEW measure \in [Dims -> OptionalNat],
           NEW amount \in OptionalNat
    PROVE  LET new == UndoDraw(b, measure, amount)
           IN  /\ new \in Balance
               /\ new.amount <= b.amount
               /\ \A d \in Dims : new.measure[d] <= b.measure[d]
<1> DEFINE new == UndoDraw(b, measure, amount)
<1>1. \A d \in Dims : Dec(measure[d]) \in Nat /\ b.measure[d] \in Nat
  BY DEF OptionalNat, Dec, Balance
<1>2. Dec(amount) \in Nat /\ b.amount \in Nat
  BY DEF OptionalNat, Dec, Balance
<1>3. new \in Balance
  BY <1>1, <1>2 DEF UndoDraw, Balance, AtLeastZero
<1>4. new.amount <= b.amount
  BY <1>2 DEF UndoDraw, AtLeastZero
<1>5. \A d \in Dims : new.measure[d] <= b.measure[d]
  BY <1>1 DEF UndoDraw, AtLeastZero
<1>6. QED  BY <1>3, <1>4, <1>5

\* A commitment with nothing left anywhere is fully consumed.
LEMMA NothingLeftIsExhausted ==
    ASSUME NoValue \notin Int,
           NEW t \in TermsType, NEW b \in Balance, ~AnyRemaining(t, b)
    PROVE  FullyConsumed(t, b)
<1>1. \A d \in Tracked(t) : Remaining(t, b, d) \in Int
  BY DEF Tracked, SpecificDims, Dims, TermsType, OptionalNat, Balance, Remaining, Dec
<1>2. Remaining(t, b, "quantity") \in Int /\ RemainingAmount(t, b) \in Int
  BY DEF Dims, TermsType, OptionalNat, Balance, Remaining, RemainingAmount, Dec
<1>3. QED  BY <1>1, <1>2 DEF AnyRemaining, FullyConsumed

(***************************************************************************)
(* What is booked, row by row                                              *)
(***************************************************************************)

\* What a row books is a natural number in the amount and in every dimension,
\* and a commitment has finitely many rows.
LEMMA RowsBookNumbers ==
    ASSUME NoValue \notin Int, LedgerTypeOK, NEW c \in Commitments
    PROVE  /\ IsFiniteSet(ActiveRows(c))
           /\ ActiveRows(c) \subseteq DOMAIN consumptions
           /\ \A i \in DOMAIN consumptions :
                 /\ AmountsBooked[i] \in Nat
                 /\ \A d \in Dims : MeasuresBooked(d)[i] \in Nat
<1>1. DOMAIN consumptions = 1 .. Len(consumptions) /\ Len(consumptions) \in Nat
  BY DEF LedgerTypeOK
<1>2. ActiveRows(c) \subseteq DOMAIN consumptions
  BY DEF ActiveRows, RowsOf
<1>3. IsFiniteSet(ActiveRows(c))
  <2>1. IsFiniteSet(DOMAIN consumptions)
    BY <1>1, FS_Interval
  <2>2. QED  BY <1>2, <2>1, FS_Subset
<1>4. \A i \in DOMAIN consumptions : consumptions[i] \in RowType
  BY DEF LedgerTypeOK
<1>5. QED
  BY <1>2, <1>3, <1>4 DEF AmountsBooked, MeasuresBooked, RowType, OptionalNat, Dec

\* The rows of the other commitments are not touched by a step that touches
\* those of c: what is booked on the others stays.
LEMMA OtherRowsKept ==
    ASSUME NoValue \notin Int, LedgerTypeOK, NEW k \in Commitments,
           ActiveRows(k)' = ActiveRows(k), DOMAIN consumptions \subseteq DOMAIN consumptions',
           \A i \in ActiveRows(k) : /\ consumptions'[i].amount = consumptions[i].amount
                                   /\ consumptions'[i].measure = consumptions[i].measure
    PROVE  /\ SumFunctionOnSet(AmountsBooked, ActiveRows(k))'
                = SumFunctionOnSet(AmountsBooked, ActiveRows(k))
           /\ \A d \in Dims : SumFunctionOnSet(MeasuresBooked(d), ActiveRows(k))'
                = SumFunctionOnSet(MeasuresBooked(d), ActiveRows(k))
<1>1. IsFiniteSet(ActiveRows(k)) /\ ActiveRows(k) \subseteq DOMAIN consumptions
  BY RowsBookNumbers
<1>2. \A i \in ActiveRows(k) : AmountsBooked'[i] = AmountsBooked[i]
  BY <1>1 DEF AmountsBooked
<1>3. ASSUME NEW d \in Dims
      PROVE  \A i \in ActiveRows(k) : MeasuresBooked(d)'[i] = MeasuresBooked(d)[i]
  BY <1>1 DEF MeasuresBooked
<1>4. SumFunctionOnSet(AmountsBooked', ActiveRows(k)) = SumFunctionOnSet(AmountsBooked, ActiveRows(k))
  BY <1>1, <1>2, SumCongruence
<1>5. ASSUME NEW d \in Dims
      PROVE  SumFunctionOnSet(MeasuresBooked(d)', ActiveRows(k))
                 = SumFunctionOnSet(MeasuresBooked(d), ActiveRows(k))
  BY <1>1, <1>3, SumCongruence
<1>6. QED  BY <1>4, <1>5

\* Reversing a row takes what it booked out of the sums, and out of no sum more
\* than it holds.
LEMMA ReversedRowLeavesSums ==
    ASSUME NoValue \notin Int, LedgerTypeOK, NEW k \in Commitments, NEW i \in ActiveRows(k),
           ActiveRows(k)' = ActiveRows(k) \ {i}, DOMAIN consumptions' = DOMAIN consumptions,
           \A j \in DOMAIN consumptions : /\ consumptions'[j].amount = consumptions[j].amount
                                         /\ consumptions'[j].measure = consumptions[j].measure
    PROVE  /\ SumFunctionOnSet(AmountsBooked, ActiveRows(k)) \in Nat
           /\ Dec(consumptions[i].amount) <= SumFunctionOnSet(AmountsBooked, ActiveRows(k))
           /\ SumFunctionOnSet(AmountsBooked, ActiveRows(k))'
                 = SumFunctionOnSet(AmountsBooked, ActiveRows(k)) - Dec(consumptions[i].amount)
           /\ \A d \in Dims :
                 /\ SumFunctionOnSet(MeasuresBooked(d), ActiveRows(k)) \in Nat
                 /\ Dec(consumptions[i].measure[d])
                       <= SumFunctionOnSet(MeasuresBooked(d), ActiveRows(k))
                 /\ SumFunctionOnSet(MeasuresBooked(d), ActiveRows(k))'
                       = SumFunctionOnSet(MeasuresBooked(d), ActiveRows(k))
                         - Dec(consumptions[i].measure[d])
<1>1. /\ IsFiniteSet(ActiveRows(k)) /\ ActiveRows(k) \subseteq DOMAIN consumptions
      /\ \A j \in ActiveRows(k) :
            AmountsBooked[j] \in Nat /\ \A d \in Dims : MeasuresBooked(d)[j] \in Nat
  BY RowsBookNumbers
<1>2. /\ \A j \in ActiveRows(k) \ {i} : AmountsBooked'[j] = AmountsBooked[j]
      /\ AmountsBooked[i] = Dec(consumptions[i].amount)
  BY <1>1 DEF AmountsBooked
<1>3. ASSUME NEW d \in Dims
      PROVE  /\ \A j \in ActiveRows(k) \ {i} : MeasuresBooked(d)'[j] = MeasuresBooked(d)[j]
             /\ MeasuresBooked(d)[i] = Dec(consumptions[i].measure[d])
  BY <1>1 DEF MeasuresBooked
<1>4. /\ SumFunctionOnSet(AmountsBooked, ActiveRows(k)) \in Nat
      /\ SumFunctionOnSet(AmountsBooked', ActiveRows(k) \ {i})
            = SumFunctionOnSet(AmountsBooked, ActiveRows(k)) - AmountsBooked[i]
      /\ AmountsBooked[i] <= SumFunctionOnSet(AmountsBooked, ActiveRows(k))
  <2>1. \A j \in ActiveRows(k) : AmountsBooked[j] \in Nat
    BY <1>1
  <2>2. \A j \in ActiveRows(k) \ {i} : AmountsBooked'[j] = AmountsBooked[j]
    BY <1>2
  <2>3. QED  BY <1>1, <2>1, <2>2, SumWithout
<1>5. ASSUME NEW d \in Dims
      PROVE  /\ SumFunctionOnSet(MeasuresBooked(d), ActiveRows(k)) \in Nat
             /\ SumFunctionOnSet(MeasuresBooked(d)', ActiveRows(k) \ {i})
                   = SumFunctionOnSet(MeasuresBooked(d), ActiveRows(k)) - MeasuresBooked(d)[i]
             /\ MeasuresBooked(d)[i] <= SumFunctionOnSet(MeasuresBooked(d), ActiveRows(k))
  <2> DEFINE booked == MeasuresBooked(d)
             bookedNext == MeasuresBooked(d)'
             rows == ActiveRows(k)
  <2>1. \A j \in rows : booked[j] \in Nat
    BY <1>1
  <2>2. \A j \in rows \ {i} : bookedNext[j] = booked[j]
    BY <1>3
  <2>3. IsFiniteSet(rows) /\ i \in rows
    BY <1>1
  <2> HIDE DEF booked, bookedNext, rows
  <2>4. /\ SumFunctionOnSet(booked, rows) \in Nat
        /\ SumFunctionOnSet(bookedNext, rows \ {i}) = SumFunctionOnSet(booked, rows) - booked[i]
        /\ booked[i] <= SumFunctionOnSet(booked, rows)
    BY <2>1, <2>2, <2>3, SumWithout, Z3T(30)
  <2>5. QED  BY <2>4 DEF booked, bookedNext, rows
<1>6. QED  BY <1>2, <1>3, <1>4, <1>5

\* When draws on one dimension, whose amounts are derived, use a commitment up,
\* the last one is taken from that dimension and takes the rest of the amount.
LEMMA LastDrawTakesTheRest ==
    ASSUME NoValue \notin Int,
           NEW t \in TermsType, NEW b \in Balance, NEW draw \in DrawType, NEW d \in Dims,
           draw.amount = NoValue,
           \A e \in Dims : (draw.measure[e] # NoValue) <=> (e = d),
           \A e \in Tracked(t) \cup {d} : Dec(t.measure[e]) > 0,
           \A e \in Dims \ {d} : b.measure[e] = 0,
           FullyConsumed(t, ApplyDraw(b, draw.measure, BookedAmount(t, b, draw)))
    PROVE  ApplyDraw(b, draw.measure, BookedAmount(t, b, draw)).amount = t.amount
<1> DEFINE new == ApplyDraw(b, draw.measure, BookedAmount(t, b, draw))
<1>1. \A e \in Dims : new.measure[e] = b.measure[e] + Dec(draw.measure[e])
  BY DEF ApplyDraw
<1>2. ASSUME NEW e \in Tracked(t) PROVE e = d
  <2> SUFFICES ASSUME e # d PROVE FALSE
    OBVIOUS
  <2>1. e \in Dims /\ draw.measure[e] = NoValue
    BY DEF Tracked, SpecificDims, Dims
  <2>2. new.measure[e] = 0
    BY <1>1, <2>1 DEF Dec
  <2>3. Remaining(t, new, e) <= 0
    BY DEF FullyConsumed
  <2>4. QED  BY <2>1, <2>2, <2>3 DEF Remaining, Dec, TermsType, OptionalNat
<1>3. Remaining(t, new, d) <= 0
  <2>1. CASE Tracked(t) # {}
    BY <1>2, <2>1 DEF FullyConsumed
  <2>2. CASE Tracked(t) = {}
    <3>1. t.measure[d] # NoValue
      BY DEF Dec
    <3>2. d = "quantity"
      BY <2>2, <3>1 DEF Tracked, SpecificDims, Dims
    <3>3. QED  BY <2>2, <3>1, <3>2 DEF FullyConsumed, Dec
  <2>3. QED  BY <2>1, <2>2
<1>4. TakesTheRest(t, b, draw, d)
  <2>1. draw.measure[d] \in Nat /\ b.measure[d] \in Nat /\ Dec(t.measure[d]) \in Nat
    BY DEF DrawType, OptionalNat, Balance, TermsType, Dec
  <2>2. new.measure[d] = b.measure[d] + draw.measure[d]
    BY <1>1 DEF Dec
  <2>3. QED  BY <1>3, <2>1, <2>2 DEF TakesTheRest, Remaining
<1>5. BookedAmount(t, b, draw) = RemainingAmount(t, b)
  <2>1. Bases(t, draw) # {}
    <3>1. \E i \in 1 .. 4 : BasisOrder[i] = d
      BY DEF BasisOrder, Dims
    <3>2. DOMAIN BasisOrder = 1 .. 4
      BY DEF BasisOrder
    <3>3. QED  BY <3>1, <3>2 DEF Bases
  <2>2. Min(Bases(t, draw)) \in Bases(t, draw)
    <3>1. Bases(t, draw) \in SUBSET (1..4)  BY DEF Bases, BasisOrder
    <3>2. QED  BY <2>1, <3>1, FirstBasis
  <2>3. BasisOrder[Min(Bases(t, draw))] = d
    <3>1. \A i \in 1 .. 4 : BasisOrder[i] \in Dims
      BY DEF BasisOrder, Dims
    <3>2. \A i \in Bases(t, draw) : i \in 1 .. 4 /\ draw.measure[BasisOrder[i]] # NoValue
      <4>1. DOMAIN BasisOrder = 1 .. 4
        BY DEF BasisOrder
      <4>2. QED  BY <4>1 DEF Bases
    <3>3. QED  BY <2>2, <3>1, <3>2
  <2>4. QED  BY <1>4, <2>1, <2>3 DEF BookedAmount, ProportionalAmount
<1>6. RemainingAmount(t, b) \in Int /\ RemainingAmount(t, b) = t.amount - b.amount
  BY DEF RemainingAmount, TermsType, Balance
<1>7. Dec(BookedAmount(t, b, draw)) = t.amount - b.amount
  BY <1>5, <1>6 DEF Dec
<1>8. QED  BY <1>7 DEF ApplyDraw, TermsType, Balance

(***************************************************************************)
(* One lemma per action: it keeps the invariant                            *)
(***************************************************************************)

LEMMA OpenKeepsInv ==
    ASSUME LedgerInv, NEW c \in Commitments, NEW t \in Terms, OpenCommitment(c, t)
    PROVE  LedgerInv'
<1> USE CommitmentConstants DEF LedgerInv
<1>1. LedgerTypeOK'
  BY DEF LedgerTypeOK, OpenCommitment, CommitmentStatus, DocumentStatus
<1>2. WithinCommitment'
  <2>1. consumed[c] = NoTerms
    BY DEF AbsentUntouched, OpenCommitment
  <2>2. t \in TermsType  OBVIOUS
  <2>3. 0 <= t.amount /\ \A d \in Dims : 0 <= Dec(t.measure[d])
    BY <2>2 DEF TermsType, OptionalNat, Dec
  <2>4. terms' = [terms EXCEPT ![c] = t] /\ consumed' = consumed
    BY DEF OpenCommitment
  <2>5. QED  BY <2>1, <2>3, <2>4 DEF WithinCommitment, NoTerms, LedgerTypeOK
<1>3. IdentityConsumedOnce'
  BY DEF IdentityConsumedOnce, OpenCommitment
<1>4. CancelledCommitmentUnused'
  BY DEF CancelledCommitmentUnused, OpenCommitment, ActiveRows, RowsOf, LedgerTypeOK
<1>5. ConsumedMeansExhausted'
  BY DEF ConsumedMeansExhausted, OpenCommitment, LedgerTypeOK
<1>6. AbsentUntouched'
  BY DEF AbsentUntouched, OpenCommitment, LedgerTypeOK
<1>7. BalancesAreBooked'
  BY DEF BalancesAreBooked, OpenCommitment, ActiveRows, RowsOf, AmountsBooked, MeasuresBooked
<1>8. DerivedDrawsExhaustAmount'
  <2>1. \A k \in Commitments : status'[k] = "CONSUMED" => k # c
    BY DEF OpenCommitment, LedgerTypeOK
  <2>2. \A k \in Commitments \ {c} : status'[k] = status[k] /\ terms'[k] = terms[k]
    BY DEF OpenCommitment, LedgerTypeOK
  <2>3. consumptions' = consumptions /\ consumed' = consumed
    BY DEF OpenCommitment
  <2>4. QED  BY <2>1, <2>2, <2>3 DEF DerivedDrawsExhaustAmount, RowsOf
<1>9. QED  BY <1>1, <1>2, <1>3, <1>4, <1>5, <1>6, <1>7, <1>8

LEMMA ConsumeKeepsInv ==
    ASSUME LedgerInv, NEW c \in Commitments, NEW id \in Identities, NEW draw \in Draws,
           Consume(c, id, draw)
    PROVE  LedgerInv'
<1> USE CommitmentConstants DEF LedgerInv
<1> DEFINE amount  == BookedAmount(terms[c], consumed[c], draw)
           balance == ApplyDraw(consumed[c], draw.measure, amount)
           row     == [commitment |-> c, identity |-> id, measure |-> draw.measure,
                       amount |-> amount, explicit |-> draw.amount # NoValue,
                       status |-> "ACTIVE"]
<1>1. /\ terms[c] \in TermsType
      /\ consumed[c] \in Balance
      /\ draw \in DrawType
      /\ consumed[c].amount <= terms[c].amount
  BY DEF LedgerTypeOK, WithinCommitment
<1>2. amount \in OptionalNat
  BY <1>1, BookedAmountType
<1>3. /\ HasCapacity(terms[c], consumed[c], draw)
      /\ FitsAmount(terms[c], consumed[c], amount)
      /\ status[c] = "ACTIVE"
      /\ Existing(c, id) = {}
      /\ consumptions' = Append(consumptions, row)
      /\ consumed' = [consumed EXCEPT ![c] = balance]
      /\ status' = [status EXCEPT ![c] =
                       IF FullyConsumed(terms[c], balance) THEN "CONSUMED" ELSE @]
      /\ terms' = terms /\ document' = document
  BY DEF Consume
<1>4. /\ balance \in Balance
      /\ balance.amount <= terms[c].amount
      /\ \A d \in Dims :
            (/\ d \notin FallbackDims \/ Dec(terms[c].measure[d]) > 0
             /\ consumed[c].measure[d] <= Dec(terms[c].measure[d]))
            => balance.measure[d] <= Dec(terms[c].measure[d])
  BY <1>1, <1>2, <1>3, ApplyDrawBounded
<1>5. row \in RowType
  BY <1>1, <1>2 DEF RowType, DrawType
<1> HIDE DEF amount, balance
<1>6. LedgerTypeOK'
  <2>1. consumptions' \in Seq(RowType)
    BY <1>3, <1>5, AppendProperties DEF LedgerTypeOK
  <2>2. QED  BY <2>1, <1>3, <1>4 DEF LedgerTypeOK, CommitmentStatus
<1>7. WithinCommitment'
  BY <1>3, <1>4 DEF WithinCommitment, LedgerTypeOK
<1>8. \* the new row comes last, the others are unchanged
      /\ DOMAIN consumptions' = DOMAIN consumptions \cup {Len(consumptions) + 1}
      /\ \A i \in DOMAIN consumptions :
            consumptions'[i] = consumptions[i] /\ i # Len(consumptions) + 1
      /\ consumptions'[Len(consumptions) + 1] = row
  BY <1>3, <1>5 DEF LedgerTypeOK
<1>9. IdentityConsumedOnce'
  <2>1. \A i \in DOMAIN consumptions :
           ~(consumptions[i].commitment = c /\ SameIdentity(consumptions[i].identity, id))
    BY <1>3 DEF Existing, RowsOf
  <2>2. \A id1, id2 : SameIdentity(id1, id2) => SameIdentity(id2, id1)
    BY DEF SameIdentity
  <2>3. row.commitment = c /\ row.identity = id  OBVIOUS
  <2> HIDE DEF row
  <2>4. QED  BY <2>1, <2>2, <2>3, <1>8 DEF IdentityConsumedOnce
<1>10. CancelledCommitmentUnused'
  <2> SUFFICES ASSUME NEW k \in Commitments, status'[k] = "CANCELLED"
               PROVE  ActiveRows(k)' = {}
    BY DEF CancelledCommitmentUnused
  <2>1. k # c /\ status[k] = "CANCELLED"
    BY <1>3 DEF LedgerTypeOK
  <2>2. ActiveRows(k) = {}
    BY <2>1 DEF CancelledCommitmentUnused
  <2>3. row.commitment = c  OBVIOUS
  <2> HIDE DEF row
  <2>4. QED  BY <2>1, <2>2, <2>3, <1>8 DEF ActiveRows, RowsOf
<1>11. ConsumedMeansExhausted'
  BY <1>3 DEF ConsumedMeansExhausted, LedgerTypeOK
<1>12. AbsentUntouched'
  BY <1>3 DEF AbsentUntouched, LedgerTypeOK
<1>13. /\ \A k \in Commitments \ {c} : ActiveRows(k)' = ActiveRows(k)
       /\ ActiveRows(c)' = ActiveRows(c) \cup {Len(consumptions) + 1}
  <2>1. row.commitment = c /\ row.status = "ACTIVE"  OBVIOUS
  <2> HIDE DEF row
  <2>2. QED  BY <2>1, <1>8 DEF ActiveRows, RowsOf
<1>14. BalancesAreBooked'
  <2> SUFFICES ASSUME NEW k \in Commitments
      PROVE  /\ consumed'[k].amount = SumFunctionOnSet(AmountsBooked, ActiveRows(k))'
             /\ \A d \in Dims : consumed'[k].measure[d]
                    = SumFunctionOnSet(MeasuresBooked(d), ActiveRows(k))'
    BY DEF BalancesAreBooked
  <2>1. /\ IsFiniteSet(ActiveRows(k)) /\ ActiveRows(k) \subseteq DOMAIN consumptions
        /\ \A i \in DOMAIN consumptions :
              AmountsBooked[i] \in Nat /\ \A d \in Dims : MeasuresBooked(d)[i] \in Nat
    BY RowsBookNumbers
  <2>2. CASE k # c
    <3>1. ActiveRows(k)' = ActiveRows(k)
      BY <1>13, <2>2
    <3>2. \A i \in ActiveRows(k) : consumptions'[i] = consumptions[i]
      BY <1>8, <2>1
    <3>3. DOMAIN consumptions \subseteq DOMAIN consumptions'
      BY <1>8
    <3>4. /\ SumFunctionOnSet(AmountsBooked, ActiveRows(k))'
                = SumFunctionOnSet(AmountsBooked, ActiveRows(k))
          /\ \A d \in Dims : SumFunctionOnSet(MeasuresBooked(d), ActiveRows(k))'
                = SumFunctionOnSet(MeasuresBooked(d), ActiveRows(k))
      BY <3>1, <3>2, <3>3, OtherRowsKept
    <3>5. consumed'[k] = consumed[k]
      BY <1>3, <2>2 DEF LedgerTypeOK
    <3>6. QED  BY <3>4, <3>5 DEF BalancesAreBooked
  <2>3. CASE k = c
    <3> DEFINE new == Len(consumptions) + 1
    <3>1. new \notin ActiveRows(c) /\ new \in DOMAIN consumptions'
      BY <1>8, <2>1, <2>3
    <3>2. /\ AmountsBooked'[new] = Dec(amount)
          /\ \A d \in Dims : MeasuresBooked(d)'[new] = Dec(draw.measure[d])
      BY <1>8 DEF AmountsBooked, MeasuresBooked
    <3>3. Dec(amount) \in Nat /\ \A d \in Dims : Dec(draw.measure[d]) \in Nat
      BY <1>1, <1>2 DEF DrawType, OptionalNat, Dec
    <3>4. \A i \in ActiveRows(c) : /\ AmountsBooked'[i] = AmountsBooked[i]
                                  /\ \A d \in Dims : MeasuresBooked(d)'[i] = MeasuresBooked(d)[i]
      BY <1>8, <2>1, <2>3 DEF AmountsBooked, MeasuresBooked
    <3> HIDE DEF new
    <3>5. SumFunctionOnSet(AmountsBooked', ActiveRows(c) \cup {new})
              = SumFunctionOnSet(AmountsBooked, ActiveRows(c)) + Dec(amount)
      <4>1. \A i \in ActiveRows(c) : AmountsBooked[i] \in Int
        BY <2>1, <2>3
      <4>2. QED  BY <2>1, <2>3, <3>1, <3>2, <3>3, <3>4, <4>1, SumWith
    <3>6. ASSUME NEW d \in Dims
          PROVE  SumFunctionOnSet(MeasuresBooked(d)', ActiveRows(c) \cup {new})
                     = SumFunctionOnSet(MeasuresBooked(d), ActiveRows(c)) + Dec(draw.measure[d])
      <4>1. \A i \in ActiveRows(c) : /\ MeasuresBooked(d)[i] \in Int
                                    /\ MeasuresBooked(d)'[i] = MeasuresBooked(d)[i]
        BY <2>1, <2>3, <3>4
      <4>2. MeasuresBooked(d)'[new] = Dec(draw.measure[d]) /\ Dec(draw.measure[d]) \in Int
        BY <3>2, <3>3
      <4>3. QED  BY <2>1, <2>3, <3>1, <4>1, <4>2, SumWith
    <3>7. ActiveRows(c)' = ActiveRows(c) \cup {new}
      BY <1>13 DEF new
    <3>8. /\ consumed'[c].amount = consumed[c].amount + Dec(amount)
          /\ \A d \in Dims : consumed'[c].measure[d] = consumed[c].measure[d] + Dec(draw.measure[d])
      <4>1. consumed'[c] = balance
        BY <1>3 DEF LedgerTypeOK
      <4>2. QED  BY <4>1 DEF balance, ApplyDraw
    <3>9. /\ consumed[c].amount = SumFunctionOnSet(AmountsBooked, ActiveRows(c))
          /\ \A d \in Dims :
                consumed[c].measure[d] = SumFunctionOnSet(MeasuresBooked(d), ActiveRows(c))
      BY DEF BalancesAreBooked
    <3>10. QED  BY <2>3, <3>5, <3>6, <3>7, <3>8, <3>9
  <2>4. QED  BY <2>2, <2>3
<1>15. DerivedDrawsExhaustAmount'
  <2> SUFFICES ASSUME NEW k \in Commitments, NEW d \in Dims,
                      status'[k] = "CONSUMED",
                      \A i \in RowsOf(k)' :
                         /\ ~consumptions'[i].explicit
                         /\ \A e \in Dims : (consumptions'[i].measure[e] # NoValue) <=> (e = d),
                      \A e \in Tracked(terms[k]) \cup {d} : Dec(terms[k].measure[e]) > 0
               PROVE  consumed'[k].amount = terms[k].amount
    BY <1>3 DEF DerivedDrawsExhaustAmount
  <2>1. CASE k # c
    <3>1. RowsOf(k)' = RowsOf(k)
      <4>1. row.commitment = c  OBVIOUS
      <4> HIDE DEF row
      <4>2. QED  BY <4>1, <1>8, <2>1 DEF RowsOf
    <3>2. \A i \in RowsOf(k) : consumptions'[i] = consumptions[i]
      BY <1>8 DEF RowsOf
    <3>3. status[k] = "CONSUMED" /\ consumed'[k] = consumed[k]
      BY <1>3, <2>1 DEF LedgerTypeOK
    <3>4. QED  BY <3>1, <3>2, <3>3 DEF DerivedDrawsExhaustAmount
  <2>2. CASE k = c
    <3>1. consumed'[c] = balance /\ FullyConsumed(terms[c], balance)
      BY <1>3, <2>2 DEF LedgerTypeOK
    <3>2. Len(consumptions) + 1 \in RowsOf(c)' /\ RowsOf(c) \subseteq RowsOf(c)'
      BY <1>8 DEF RowsOf
    <3>3. draw.amount = NoValue /\ \A e \in Dims : (draw.measure[e] # NoValue) <=> (e = d)
      <4>1. consumptions'[Len(consumptions) + 1].measure = draw.measure
        BY <1>8
      <4>2. consumptions'[Len(consumptions) + 1].explicit = (draw.amount # NoValue)
        BY <1>8
      <4>3. Len(consumptions) + 1 \in RowsOf(k)'
        BY <2>2, <3>2
      <4>4. ~consumptions'[Len(consumptions) + 1].explicit
        BY <4>3
      <4>5. \A e \in Dims :
               (consumptions'[Len(consumptions) + 1].measure[e] # NoValue) <=> (e = d)
        BY <4>3
      <4>6. draw.amount = NoValue
        BY <4>2, <4>4
      <4>7. QED  BY <4>1, <4>5, <4>6
    <3>5. ASSUME NEW e \in Dims \ {d} PROVE consumed[c].measure[e] = 0
      <4>1. \A i \in ActiveRows(c) : consumptions[i].measure[e] = NoValue
        <5>1. \A i \in ActiveRows(c) : i \in RowsOf(c) /\ i \in DOMAIN consumptions
          BY DEF ActiveRows, RowsOf
        <5>2. QED  BY <5>1, <1>8, <2>2, <3>2
      <4>2. \A i \in ActiveRows(c) : MeasuresBooked(e)[i] = 0
        BY <4>1 DEF MeasuresBooked, Dec, ActiveRows, RowsOf
      <4>3. IsFiniteSet(ActiveRows(c))
        BY RowsBookNumbers
      <4>4. QED  BY <4>2, <4>3, SumZero DEF BalancesAreBooked
    <3>6. balance.amount = terms[c].amount
      BY <1>1, <2>2, <3>1, <3>3, <3>5, LastDrawTakesTheRest DEF balance, amount
    <3>7. QED  BY <2>2, <3>1, <3>6
  <2>3. QED  BY <2>1, <2>2
<1>16. QED  BY <1>6, <1>7, <1>9, <1>10, <1>11, <1>12, <1>14, <1>15

LEMMA ReverseKeepsInv ==
    ASSUME LedgerInv, NEW i \in DOMAIN consumptions, ReverseConsumption(i)
    PROVE  LedgerInv'
<1> USE CommitmentConstants DEF LedgerInv
<1> DEFINE row     == consumptions[i]
           c       == row.commitment
           balance == UndoDraw(consumed[c], row.measure, row.amount)
<1>1. row \in RowType
  BY DEF LedgerTypeOK
<1>2. /\ c \in Commitments
      /\ row.measure \in [Dims -> OptionalNat]
      /\ row.amount \in OptionalNat
  BY <1>1 DEF RowType
<1>3. /\ row.status = "ACTIVE"
      /\ consumptions' = [consumptions EXCEPT ![i].status = "REVERSED"]
      /\ consumed' = [consumed EXCEPT ![c] = balance]
      /\ status' = [status EXCEPT ![c] =
                       IF @ = "CONSUMED" /\ AnyRemaining(terms[c], balance)
                       THEN "ACTIVE" ELSE @]
      /\ terms' = terms /\ document' = document
  BY DEF ReverseConsumption
<1>4. consumed[c] \in Balance /\ terms[c] \in TermsType
  BY <1>2 DEF LedgerTypeOK
<1>5. /\ balance \in Balance
      /\ balance.amount <= consumed[c].amount
      /\ \A d \in Dims : balance.measure[d] <= consumed[c].measure[d]
  BY <1>2, <1>4, UndoDrawShrinks
<1>6. /\ DOMAIN consumptions' = DOMAIN consumptions
      /\ \A j \in DOMAIN consumptions :
            /\ consumptions'[j].commitment = consumptions[j].commitment
            /\ consumptions'[j].identity = consumptions[j].identity
            /\ consumptions'[j].status =
                  IF j = i THEN "REVERSED" ELSE consumptions[j].status
  BY <1>3, <1>1 DEF RowType, LedgerTypeOK
<1>7. i \in ActiveRows(c)
  BY <1>3 DEF ActiveRows, RowsOf
<1> HIDE DEF balance
<1>8. LedgerTypeOK'
  <2>1. [row EXCEPT !.status = "REVERSED"] \in RowType
    BY <1>1 DEF RowType
  <2>2. consumptions' = [consumptions EXCEPT ![i] = [row EXCEPT !.status = "REVERSED"]]
    BY <1>3
  <2>3. consumptions' \in Seq(RowType)
    BY <2>1, <2>2, ExceptSeq DEF LedgerTypeOK
  <2>4. QED  BY <2>3, <1>2, <1>3, <1>5 DEF LedgerTypeOK, CommitmentStatus
<1>9. WithinCommitment'
  <2>1. /\ balance.amount <= terms[c].amount
        /\ \A d \in Dims :
              (d \notin FallbackDims \/ Dec(terms[c].measure[d]) > 0)
              => balance.measure[d] <= Dec(terms[c].measure[d])
    <3>1. balance.amount \in Nat /\ consumed[c].amount \in Nat /\ terms[c].amount \in Nat
      BY <1>4, <1>5 DEF Balance, TermsType
    <3>2. \A d \in Dims : /\ balance.measure[d] \in Nat
                          /\ consumed[c].measure[d] \in Nat
                          /\ Dec(terms[c].measure[d]) \in Nat
      BY <1>4, <1>5 DEF Balance, TermsType, OptionalNat, Dec
    <3>3. /\ consumed[c].amount <= terms[c].amount
          /\ \A d \in Dims :
                (d \notin FallbackDims \/ Dec(terms[c].measure[d]) > 0)
                => consumed[c].measure[d] <= Dec(terms[c].measure[d])
      BY <1>2 DEF WithinCommitment
    <3>4. QED  BY <3>1, <3>2, <3>3, <1>5
  <2>2. QED  BY <2>1, <1>2, <1>3 DEF WithinCommitment, LedgerTypeOK
<1>10. IdentityConsumedOnce'
  BY <1>6 DEF IdentityConsumedOnce
<1>11. CancelledCommitmentUnused'
  <2>1. \A k \in Commitments : ActiveRows(k)' \subseteq ActiveRows(k)
    BY <1>6 DEF ActiveRows, RowsOf
  <2>2. \A k \in Commitments : status'[k] = "CANCELLED" => status[k] = "CANCELLED"
    BY <1>2, <1>3 DEF LedgerTypeOK
  <2>3. QED  BY <2>1, <2>2 DEF CancelledCommitmentUnused
<1>12. ConsumedMeansExhausted'
  <2>1. ASSUME status'[c] = "CONSUMED" PROVE FullyConsumed(terms[c], balance)
    <3>1. ~AnyRemaining(terms[c], balance)
      BY <2>1, <1>2, <1>3 DEF LedgerTypeOK
    <3>2. QED  BY <3>1, <1>4, <1>5, NothingLeftIsExhausted
  <2>2. QED  BY <2>1, <1>2, <1>3 DEF ConsumedMeansExhausted, LedgerTypeOK
<1>13. AbsentUntouched'
  <2>1. ASSUME status[c] = "ABSENT" PROVE balance = NoTerms
    <3>1. consumed[c] = NoTerms
      BY <2>1, <1>2 DEF AbsentUntouched
    <3>2. /\ balance.amount = 0
          /\ \A d \in Dims : balance.measure[d] = 0
      BY <3>1, <1>4, <1>5 DEF NoTerms, Balance
    <3>3. QED  BY <3>2, <1>5 DEF NoTerms, Balance
  <2>2. \A k \in Commitments : status'[k] = "ABSENT" => status[k] = "ABSENT"
    BY <1>2, <1>3 DEF LedgerTypeOK
  <2>3. QED  BY <2>1, <2>2, <1>2, <1>3 DEF AbsentUntouched, LedgerTypeOK
<1>14. /\ ActiveRows(c)' = ActiveRows(c) \ {i}
       /\ \A k \in Commitments \ {c} : ActiveRows(k)' = ActiveRows(k)
       /\ \A k \in Commitments : RowsOf(k)' = RowsOf(k)
       /\ \A j \in DOMAIN consumptions :
             /\ consumptions'[j].measure = consumptions[j].measure
             /\ consumptions'[j].amount = consumptions[j].amount
             /\ consumptions'[j].explicit = consumptions[j].explicit
  <2>1. \A j \in DOMAIN consumptions :
             /\ consumptions'[j].measure = consumptions[j].measure
             /\ consumptions'[j].amount = consumptions[j].amount
             /\ consumptions'[j].explicit = consumptions[j].explicit
    BY <1>3, <1>1 DEF RowType, LedgerTypeOK
  <2>2. \A k \in Commitments : RowsOf(k)' = RowsOf(k)
    BY <1>6 DEF RowsOf
  <2>3. ActiveRows(c)' = ActiveRows(c) \ {i}
    BY <1>6, <2>2, <1>2 DEF ActiveRows, RowsOf
  <2>4. ASSUME NEW k \in Commitments \ {c} PROVE ActiveRows(k)' = ActiveRows(k)
    BY <1>6, <2>2 DEF ActiveRows, RowsOf
  <2>5. QED  BY <2>1, <2>2, <2>3, <2>4
<1>15. BalancesAreBooked'
  <2> SUFFICES ASSUME NEW k \in Commitments
      PROVE  /\ consumed'[k].amount = SumFunctionOnSet(AmountsBooked, ActiveRows(k))'
             /\ \A d \in Dims : consumed'[k].measure[d]
                    = SumFunctionOnSet(MeasuresBooked(d), ActiveRows(k))'
    BY DEF BalancesAreBooked
  <2>1. /\ IsFiniteSet(ActiveRows(k)) /\ ActiveRows(k) \subseteq DOMAIN consumptions
        /\ \A j \in DOMAIN consumptions :
              AmountsBooked[j] \in Nat /\ \A d \in Dims : MeasuresBooked(d)[j] \in Nat
    BY RowsBookNumbers
  <2>2. CASE k # c
    <3>1. ActiveRows(k)' = ActiveRows(k)
      BY <1>14, <2>2
    <3>2. /\ SumFunctionOnSet(AmountsBooked, ActiveRows(k))'
                = SumFunctionOnSet(AmountsBooked, ActiveRows(k))
          /\ \A d \in Dims : SumFunctionOnSet(MeasuresBooked(d), ActiveRows(k))'
                = SumFunctionOnSet(MeasuresBooked(d), ActiveRows(k))
      BY <1>6, <1>14, <2>1, <3>1, OtherRowsKept
    <3>3. consumed'[k] = consumed[k]
      BY <1>3, <2>2 DEF LedgerTypeOK
    <3>4. QED  BY <3>2, <3>3 DEF BalancesAreBooked
  <2>3. CASE k = c
    <3>1. /\ ActiveRows(k)' = ActiveRows(k) \ {i} /\ DOMAIN consumptions' = DOMAIN consumptions
          /\ \A j \in DOMAIN consumptions : /\ consumptions'[j].amount = consumptions[j].amount
                                            /\ consumptions'[j].measure = consumptions[j].measure
      BY <1>6, <1>14, <2>3
    <3>2. i \in ActiveRows(k)
      BY <1>7, <2>3
    <3>3. /\ SumFunctionOnSet(AmountsBooked, ActiveRows(k)) \in Nat
          /\ Dec(row.amount) <= SumFunctionOnSet(AmountsBooked, ActiveRows(k))
          /\ SumFunctionOnSet(AmountsBooked, ActiveRows(k))'
                = SumFunctionOnSet(AmountsBooked, ActiveRows(k)) - Dec(row.amount)
      BY <1>2, <3>1, <3>2, ReversedRowLeavesSums, CommitmentConstants
    <3>4. ASSUME NEW d \in Dims
          PROVE  /\ SumFunctionOnSet(MeasuresBooked(d), ActiveRows(k)) \in Nat
                 /\ Dec(row.measure[d]) <= SumFunctionOnSet(MeasuresBooked(d), ActiveRows(k))
                 /\ SumFunctionOnSet(MeasuresBooked(d), ActiveRows(k))'
                       = SumFunctionOnSet(MeasuresBooked(d), ActiveRows(k)) - Dec(row.measure[d])
      BY <1>2, <3>1, <3>2, ReversedRowLeavesSums, CommitmentConstants
    <3>5. /\ Dec(row.amount) \in Nat
          /\ \A d \in Dims : Dec(row.measure[d]) \in Nat
      BY <1>2 DEF OptionalNat, Dec
    <3>6. /\ consumed[k].amount = SumFunctionOnSet(AmountsBooked, ActiveRows(k))
          /\ \A d \in Dims :
                consumed[k].measure[d] = SumFunctionOnSet(MeasuresBooked(d), ActiveRows(k))
      BY <1>2 DEF BalancesAreBooked
    <3>7. balance.amount = AtLeastZero(consumed[k].amount - Dec(row.amount))
          /\ \A d \in Dims : balance.measure[d]
                = AtLeastZero(consumed[k].measure[d] - Dec(row.measure[d]))
      BY <2>3 DEF balance, UndoDraw
    <3>8. consumed'[k] = balance
      BY <1>2, <1>3, <2>3 DEF LedgerTypeOK
    <3>9. consumed'[k].amount = consumed[k].amount - Dec(row.amount)
      BY <3>3, <3>5, <3>6, <3>7, <3>8 DEF AtLeastZero
    <3>10. ASSUME NEW d \in Dims
           PROVE  consumed'[k].measure[d] = consumed[k].measure[d] - Dec(row.measure[d])
      BY <3>4, <3>5, <3>6, <3>7, <3>8 DEF AtLeastZero
    <3>11. consumed'[k].amount = SumFunctionOnSet(AmountsBooked, ActiveRows(k))'
      BY <3>3, <3>6, <3>9
    <3>12. ASSUME NEW d \in Dims
           PROVE  consumed'[k].measure[d] = SumFunctionOnSet(MeasuresBooked(d), ActiveRows(k))'
      BY <3>4, <3>6, <3>10
    <3>13. QED  BY <3>11, <3>12
  <2>4. QED  BY <2>2, <2>3
<1>16. DerivedDrawsExhaustAmount'
  <2> SUFFICES ASSUME NEW k \in Commitments, NEW d \in Dims,
                      status'[k] = "CONSUMED",
                      \A j \in RowsOf(k)' :
                         /\ ~consumptions'[j].explicit
                         /\ \A e \in Dims : (consumptions'[j].measure[e] # NoValue) <=> (e = d),
                      \A e \in Tracked(terms[k]) \cup {d} : Dec(terms[k].measure[e]) > 0
               PROVE  consumed'[k].amount = terms[k].amount
    BY <1>3 DEF DerivedDrawsExhaustAmount
  <2>1. CASE k # c
    <3>1. \A j \in RowsOf(k) :
             /\ ~consumptions[j].explicit
             /\ \A e \in Dims : (consumptions[j].measure[e] # NoValue) <=> (e = d)
      BY <1>14 DEF RowsOf
    <3>2. status[k] = "CONSUMED" /\ consumed'[k] = consumed[k]
      BY <1>3, <2>1 DEF LedgerTypeOK
    <3>3. QED  BY <3>1, <3>2 DEF DerivedDrawsExhaustAmount
  <2>2. CASE k = c
    <3>1. ~AnyRemaining(terms[c], balance) /\ consumed'[c] = balance
      BY <1>2, <1>3, <2>2 DEF LedgerTypeOK
    <3>2. RemainingAmount(terms[c], balance) \in Int /\ ~(RemainingAmount(terms[c], balance) > 0)
      BY <3>1, <1>4, <1>5 DEF AnyRemaining, RemainingAmount, Balance, TermsType
    <3>3. balance.amount <= terms[c].amount
      BY <1>2, <1>3, <1>9, <3>1 DEF WithinCommitment
    <3>4. QED  BY <2>2, <3>1, <3>2, <3>3, <1>4, <1>5 DEF RemainingAmount, Balance, TermsType
  <2>3. QED  BY <2>1, <2>2
<1>17. QED  BY <1>8, <1>9, <1>10, <1>11, <1>12, <1>13, <1>15, <1>16

LEMMA CancelKeepsInv ==
    ASSUME LedgerInv, NEW c \in Commitments, CancelCommitment(c)
    PROVE  LedgerInv'
<1> USE DEF LedgerInv
<1>1. LedgerTypeOK'
  BY DEF LedgerTypeOK, CancelCommitment, CommitmentStatus, DocumentStatus
<1>2. CancelledCommitmentUnused'
  <2>1. ActiveRows(c) = {} /\ \A k \in Commitments : ActiveRows(k)' = ActiveRows(k)
    BY DEF CancelCommitment, Unused, ActiveRows, RowsOf
  <2>2. QED
    BY <2>1 DEF CancelledCommitmentUnused, CancelCommitment, LedgerTypeOK
<1>3. WithinCommitment' /\ IdentityConsumedOnce'
  BY DEF WithinCommitment, IdentityConsumedOnce, CancelCommitment
<1>4. ConsumedMeansExhausted' /\ AbsentUntouched'
  BY DEF ConsumedMeansExhausted, AbsentUntouched, CancelCommitment, LedgerTypeOK
<1>5. BalancesAreBooked'
  BY DEF BalancesAreBooked, CancelCommitment, ActiveRows, RowsOf, AmountsBooked, MeasuresBooked
<1>6. DerivedDrawsExhaustAmount'
  <2>1. \A k \in Commitments : status'[k] = "CONSUMED" => status[k] = "CONSUMED"
    BY DEF CancelCommitment, LedgerTypeOK
  <2>2. consumptions' = consumptions /\ consumed' = consumed /\ terms' = terms
    BY DEF CancelCommitment
  <2>3. QED  BY <2>1, <2>2 DEF DerivedDrawsExhaustAmount, RowsOf
<1>7. QED  BY <1>1, <1>2, <1>3, <1>4, <1>5, <1>6

LEMMA DocumentStepKeepsInv ==
    ASSUME LedgerInv, NEW c \in Commitments, DocumentStep(c)
    PROVE  LedgerInv'
<1> USE DEF LedgerInv
<1>1. LedgerTypeOK'
  BY DEF LedgerTypeOK, DocumentStep, DocumentMoves, DocumentStatus
<1>2. UNCHANGED <<status, terms, consumed, consumptions>>
  BY DEF DocumentStep
<1>3. WithinCommitment' /\ IdentityConsumedOnce' /\ AbsentUntouched'
  BY <1>2 DEF WithinCommitment, IdentityConsumedOnce, AbsentUntouched
<1>4. CancelledCommitmentUnused' /\ ConsumedMeansExhausted'
  BY <1>2 DEF CancelledCommitmentUnused, ConsumedMeansExhausted, ActiveRows, RowsOf
<1>5. BalancesAreBooked'
  BY <1>2 DEF BalancesAreBooked, ActiveRows, RowsOf, AmountsBooked, MeasuresBooked
<1>6. DerivedDrawsExhaustAmount'
  BY <1>2 DEF DerivedDrawsExhaustAmount, RowsOf
<1>7. QED  BY <1>1, <1>3, <1>4, <1>5, <1>6

\* Every step of the ledger keeps the invariant.
THEOREM LedgerInvariant == LedgerSpec => []LedgerInv
<1>1. LedgerInv /\ [LedgerNext]_ledgerVars => LedgerInv'
  <2> SUFFICES ASSUME LedgerInv, [LedgerNext]_ledgerVars PROVE LedgerInv'
    OBVIOUS
  <2>1. CASE UNCHANGED ledgerVars
    <3> USE <2>1 DEF ledgerVars
    <3>1. LedgerTypeOK' /\ WithinCommitment' /\ IdentityConsumedOnce'
      BY DEF LedgerInv, LedgerTypeOK, WithinCommitment, IdentityConsumedOnce
    <3>2. CancelledCommitmentUnused' /\ ConsumedMeansExhausted' /\ AbsentUntouched'
      BY DEF LedgerInv, CancelledCommitmentUnused, ConsumedMeansExhausted,
         AbsentUntouched, ActiveRows, RowsOf
    <3>3. BalancesAreBooked'
      BY DEF LedgerInv, BalancesAreBooked, AmountsBooked, MeasuresBooked, ActiveRows, RowsOf
    <3>4. DerivedDrawsExhaustAmount'
      BY DEF LedgerInv, DerivedDrawsExhaustAmount, RowsOf
    <3>5. QED  BY <3>1, <3>2, <3>3, <3>4 DEF LedgerInv
  <2>2. ASSUME NEW c \in Commitments, NEW t \in Terms, OpenCommitment(c, t)
        PROVE  LedgerInv'
    BY <2>2, OpenKeepsInv
  <2>3. ASSUME NEW c \in Commitments, NEW id \in Identities, NEW draw \in Draws,
               Consume(c, id, draw)
        PROVE  LedgerInv'
    BY <2>3, ConsumeKeepsInv
  <2>4. ASSUME NEW c \in Commitments, CancelCommitment(c) PROVE LedgerInv'
    BY <2>4, CancelKeepsInv
  <2>5. ASSUME NEW c \in Commitments, DocumentStep(c) PROVE LedgerInv'
    BY <2>5, DocumentStepKeepsInv
  <2>6. ASSUME NEW i \in DOMAIN consumptions, ReverseConsumption(i) PROVE LedgerInv'
    BY <2>6, ReverseKeepsInv
  <2>7. QED  BY <2>1, <2>2, <2>3, <2>4, <2>5, <2>6 DEF LedgerNext
<1>2. QED  BY <1>1, LedgerInitInv, PTL DEF LedgerSpec

\* Balances keep their types: none is ever negative.
THEOREM LedgerTypeCorrect == LedgerSpec => []LedgerTypeOK
BY LedgerInvariant, PTL DEF LedgerInv

\* Nothing is drawn beyond what the award committed.
THEOREM NothingBeyondCommitment == LedgerSpec => []WithinCommitment
BY LedgerInvariant, PTL DEF LedgerInv

\* A source identity is booked at most once for a commitment.
THEOREM EachIdentityBookedOnce == LedgerSpec => []IdentityConsumedOnce
BY LedgerInvariant, PTL DEF LedgerInv

\* A cancelled commitment has no consumption that is not reversed.
THEOREM CancelledStaysUnused == LedgerSpec => []CancelledCommitmentUnused
BY LedgerInvariant, PTL DEF LedgerInv

\* A CONSUMED commitment is exhausted, reversals notwithstanding.
THEOREM ConsumedIsExhausted == LedgerSpec => []ConsumedMeansExhausted
BY LedgerInvariant, PTL DEF LedgerInv

\* What is booked on a commitment is the sum of its rows that are not reversed,
\* in every dimension and in the amount.
THEOREM BalancesAreSums == LedgerSpec => []BalancesAreBooked
BY LedgerInvariant, PTL DEF LedgerInv

\* Rounding loses nothing: draws on one dimension that use a commitment up book
\* exactly the committed amount.
THEOREM RoundingLosesNothing == LedgerSpec => []DerivedDrawsExhaustAmount
BY LedgerInvariant, PTL DEF LedgerInv
=============================================================================
