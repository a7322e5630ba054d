----------------------------- MODULE Calculation -----------------------------
(***************************************************************************)
(* The arithmetic of charges (app/domain/service.py, day_band_rating.py):  *)
(* rounding and bounds, calculation profiles, the amount of a rate, the    *)
(* allocation of an amount to targets, progressive day tariffs and free    *)
(* time.  All of it is pure.                                               *)
(*                                                                         *)
(* Amounts are whole minor units, quantities and percentages whole         *)
(* numbers; a quotient is kept as numerator and denominator until it is    *)
(* rounded.  NoValue is None, and also the answer to a request that is     *)
(* refused.                                                                *)
(***************************************************************************)
EXTENDS OptionalValues, Integers, Sequences, FiniteSetsExt, SequencesExt

Magnitude(n) == IF n < 0 THEN -n ELSE n

\* dec
Dec(value) == IF value = NoValue THEN 0 ELSE value

\* Python's or: 0 gives way as None does.
Or(value, other) == IF Dec(value) = 0 THEN other ELSE value

OrElse(value, other) == IF value = NoValue THEN other ELSE value

AtLeast(n, least) == IF n < least THEN least ELSE n

\* money(n / d): half away from zero.
Money(n, d) ==
    LET rounded == (2 * Magnitude(n) + d) \div (2 * d)
    IN  IF n < 0 THEN -rounded ELSE rounded

\* The minimum is applied to n / d before the maximum; the result is rounded.
\* Only an entry of a rate book may have a minimum above its maximum.
Bounded(n, d, bounds) ==
    LET raised == IF bounds.low # NoValue THEN AtLeast(n, bounds.low * d) ELSE n
    IN  IF bounds.high # NoValue /\ raised > bounds.high * d
        THEN bounds.high ELSE Money(raised, d)

(***************************************************************************)
(* What is calculated with                                                 *)
(***************************************************************************)

OptionalInt == Int \cup {NoValue}

BoundsType == [low : OptionalInt, high : OptionalInt]

\* What is known of an object or of a transaction; a key may be without value.
MeasureKeys ==
    {"chargeable", "gross", "container", "package", "quantity", "days", "reference"}

Measurements == [MeasureKeys -> OptionalInt]

IsList(s) == Len(s) \in Nat /\ DOMAIN s = 1 .. Len(s)

IsProfile(version) ==
    /\ version.bounds \in BoundsType
    /\ IsList(version.factors)
    /\ \A factor \in Range(version.factors) :
        factor.key \in MeasureKeys /\ factor.default \in OptionalInt

(***************************************************************************)
(* Calculation profiles                                                    *)
(***************************************************************************)

\* A factor reads the transaction's input if its resolver allows it, else the
\* object's measure, else its default.
FactorGiven(factor, inputs, measures) ==
    IF factor.fromInput /\ inputs[factor.key] # NoValue THEN inputs[factor.key]
    ELSE OrElse(measures[factor.key], factor.default)

\* A factor without a positive value is 1, or refused when it is required.
FactorValue(factor, inputs, measures) ==
    LET given == FactorGiven(factor, inputs, measures)
    IN  IF Dec(given) > 0 THEN given ELSE IF factor.required THEN NoValue ELSE 1

\* The product of all factors, in whatever sequence they are listed.
Quantity(version, inputs, measures) ==
    LET values == [i \in DOMAIN version.factors |->
                        FactorValue(version.factors[i], inputs, measures)]
    IN  IF \E i \in DOMAIN values : values[i] = NoValue THEN NoValue
        ELSE FoldLeft(LAMBDA product, value : product * value, 1, values)

\* _evaluate_calculation_profile, for the methods FLAT_AMOUNT,
\* PERCENT_OF_REFERENCE and the products of factors.
Evaluated(version, rate, flat, inputs, measures) ==
    CASE version.method = "FLAT_AMOUNT" ->
            IF OrElse(flat, rate) = NoValue THEN NoValue
            ELSE Bounded(OrElse(flat, rate), 1, version.bounds)
      [] version.method = "PERCENT_OF_REFERENCE" ->
            LET reference == OrElse(inputs["reference"], measures["reference"])
            IN  IF rate = NoValue \/ reference = NoValue THEN NoValue
                ELSE Bounded(reference * rate, 100, version.bounds)
      [] OTHER ->
            LET quantity == Quantity(version, inputs, measures)
            IN  IF rate = NoValue \/ quantity = NoValue THEN NoValue
                ELSE Bounded(rate * quantity, 1, version.bounds)

(***************************************************************************)
(* Amounts without a profile                                               *)
(***************************************************************************)

\* What a basis is multiplied by: of days the input, then the measure, where they
\* are given.  A count gives way to the quantity also when it is 0; FLAT stands
\* for every basis that is not listed.
BasisQuantity(basis, inputs, measures) ==
    CASE basis = "CHARGEABLE_WEIGHT" -> Dec(measures["chargeable"])
      [] basis = "CONTAINER" -> Dec(Or(measures["container"], measures["quantity"]))
      [] basis = "DAY" -> Dec(OrElse(inputs["days"], OrElse(measures["days"], measures["quantity"])))
      [] OTHER -> 1

\* _calculate_amount: less than one unit is charged as one.
Amount(entry, inputs, measures, base) ==
    IF entry.basis = "PERCENT"
    THEN IF base = NoValue THEN NoValue ELSE Bounded(base * entry.rate, 100, entry.bounds)
    ELSE Bounded(entry.rate * AtLeast(BasisQuantity(entry.basis, inputs, measures), 1),
                 1, entry.bounds)

\* preview_calculation without a profile: any quantity, and none is floored.
PreviewAmount(request) ==
    IF request.basis = "PERCENT"
    THEN Bounded(request.base * request.rate, 100, request.bounds)
    ELSE Bounded(request.rate * (IF request.basis = "FLAT" THEN 1 ELSE request.quantity),
                 1, request.bounds)

(***************************************************************************)
(* Allocation                                                              *)
(***************************************************************************)

Total(values) == SumFunctionOnSet(values, DOMAIN values)

\* The parts of a whole, rounded down, and what rounding took off each, in
\* units of 1 / total.
Floors(whole, drivers) == [i \in DOMAIN drivers |-> (whole * drivers[i]) \div Total(drivers)]

Fractions(whole, drivers) == [i \in DOMAIN drivers |-> (whole * drivers[i]) % Total(drivers)]

\* Mutated form of Precedes: the first targets come first.
PrecedesInList(fractions, i, j) == i < j

\* The order in which targets take the units left over.
Precedes(fractions, i, j) ==
    \/ fractions[i] > fractions[j]
    \/ fractions[i] = fractions[j] /\ i < j

Remainders(whole, drivers) ==
    LET fractions == Fractions(whole, drivers)
        left == whole - Total(Floors(whole, drivers))
        ahead(i) == Cardinality({j \in DOMAIN drivers : Precedes(fractions, j, i)})
    IN  [i \in DOMAIN drivers |-> IF ahead(i) < left THEN 1 ELSE 0]

\* Drivers that are all zero are replaced by ones if the policy is EQUAL.
Drivers(targets, policy) ==
    IF Total(targets) = 0 /\ policy = "EQUAL" THEN [i \in DOMAIN targets |-> 1] ELSE targets

\* _preview_allocations: targets are given by their drivers.
Allocations(amount, targets, policy) ==
    LET drivers == Drivers(targets, policy)
        whole == Magnitude(amount)
        sign == IF amount < 0 THEN -1 ELSE 1
    IN  IF targets = << >> THEN << >>
        ELSE IF Total(drivers) <= 0 THEN NoValue
        ELSE [i \in DOMAIN drivers |->
                sign * (Floors(whole, drivers)[i] + Remainders(whole, drivers)[i])]

(***************************************************************************)
(* Progressive day tariffs                                                 *)
(***************************************************************************)

\* Bands are listed by their first day; end NoValue is an open end.
Contiguous(bands) ==
    \A i \in DOMAIN bands :
        /\ bands[i].start = IF i = 1 THEN 1 ELSE bands[i - 1].end + 1
        /\ bands[i].rate > 0
        /\ IF bands[i].end = NoValue THEN i = Len(bands) ELSE bands[i].end >= bands[i].start

InBand(band, day) == band.start <= day /\ (band.end = NoValue \/ day <= band.end)

RateFor(bands, day) ==
    LET i == SelectInSeq(bands, LAMBDA band : InBand(band, day))
    IN  IF i = 0 THEN NoValue ELSE bands[i].rate

\* Mutated form of BilledDays: the first day of a band is not counted.
BilledDaysAfterStart(band, days) ==
    LET last == IF band.end = NoValue \/ days < band.end THEN days ELSE band.end
    IN  AtLeast(last - band.start, 0)

BilledDays(band, days) ==
    LET last == IF band.end = NoValue \/ days < band.end THEN days ELSE band.end
    IN  AtLeast(last - band.start + 1, 0)

StartsBefore(bands, i, j) ==
    \/ bands[i].start < bands[j].start
    \/ bands[i].start = bands[j].start /\ i < j

\* sorted keeps bands that start on the same day in their order.
ByStart(bands) ==
    LET before(i) == Cardinality({j \in DOMAIN bands : StartsBefore(bands, j, i)})
    IN  [k \in DOMAIN bands |-> bands[CHOOSE i \in DOMAIN bands : before(i) = k - 1]]

\* progressive_day_amount.  Bands that lie past an open end make it ambiguous.
DayAmount(unordered, days, requireNext) ==
    LET bands == ByStart(unordered)
        current == RateFor(bands, AtLeast(days, 1))
        upcoming == RateFor(bands, days + 1)
    IN  IF \/ days < 0 \/ bands = << >>
           \/ \E i \in 1 .. Len(bands) - 1 : bands[i].end = NoValue
           \/ ~Contiguous(bands)
           \/ days > 0 /\ current = NoValue
           \/ requireNext /\ upcoming = NoValue
        THEN NoValue
        ELSE [amount |-> Total([i \in DOMAIN bands |-> bands[i].rate * BilledDays(bands[i], days)]),
              current |-> Dec(OrElse(current, upcoming)), upcoming |-> upcoming]

(***************************************************************************)
(* Free time                                                               *)
(***************************************************************************)

\* A rule is about one scope; its event and its facts may be left open, and it
\* needs its two timestamps, in order.
RuleMatches(rule, request) ==
    /\ rule.scope = request.scope
    /\ rule.event # NoValue => rule.event = request.event
    /\ rule.facts \subseteq request.facts
    /\ {rule.from, rule.to} \subseteq DOMAIN request.times
    /\ request.times[rule.from] <= request.times[rule.to]

RuleSpecificity(rule) ==
    Cardinality(rule.facts)
    + (IF rule.scope.type = "GLOBAL" THEN 0 ELSE 2)
    + (IF rule.scope.id = NoValue THEN 0 ELSE 1)
    + (IF rule.event = NoValue THEN 0 ELSE 1)

\* The rank of a rule: the candidates are sorted in reverse.
RuleBefore(a, b) ==
    \/ RuleSpecificity(a) > RuleSpecificity(b)
    \/ /\ RuleSpecificity(a) = RuleSpecificity(b)
       /\ a.priority < b.priority \/ (a.priority = b.priority /\ a.sequence < b.sequence)

\* _match_free_time_rule; sequences are unique in a version.
FreeTimeRule(rules, request) ==
    LET matching == {rule \in rules : RuleMatches(rule, request)}
    IN  IF matching = {} THEN NoValue
        ELSE CHOOSE rule \in matching : \A other \in matching \ {rule} : RuleBefore(rule, other)

\* preview_free_time_duration, in whole days.
FreeTime(rules, request) ==
    LET rule == FreeTimeRule(rules, request)
    IN  IF rule = NoValue THEN NoValue
        ELSE [rule |-> rule,
              chargeable |-> AtLeast(request.times[rule.to] - request.times[rule.from] - rule.free, 0)]
=============================================================================
