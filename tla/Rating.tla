------------------------------- MODULE Rating --------------------------------
(***************************************************************************)
(* What a quote is charged (app/domain/service.py): which contract applies *)
(* to it and by which route, which entry of a rate book prices each line   *)
(* and on which date, what a template's percentage steps are percentages   *)
(* of, and what the customer pays beyond the cost.  And the previews that  *)
(* calculate without a quote.                                              *)
(*                                                                         *)
(* All of it only reads a catalogue, whose own life is that of             *)
(* PricingCatalog, ProfileVersions and ReferenceData: a behaviour is one   *)
(* request and its answer.  What is inactive is not in the catalogue.      *)
(***************************************************************************)
EXTENDS Calculation, TLC

CONSTANTS
    Catalogues,         \* what quotes are rated from
    Quotes,             \* the quotes to be rated
    CalculationRequests,    \* requests to preview_calculation
    Tariffs,            \* bands, days and whether the next day needs a price
    FreeTimeRules,      \* the published rules of a free-time profile
    FreeTimeRequests    \* requests to preview_free_time_duration

VARIABLES request, answer

ratingVars == <<request, answer>>

(***************************************************************************)
(* What is rated                                                           *)
(***************************************************************************)

\* A reference is None or to an element of a list.
Ref(list) == DOMAIN list \cup {NoValue}

OptionalProfile(profile) == profile = NoValue \/ IsProfile(profile)

IsEntry(cat, entry) ==
    /\ IsFiniteSet(DOMAIN entry.scope)
    /\ entry.priority \in Int /\ entry.rate \in Int
    /\ entry.low \in OptionalInt /\ entry.bounds \in BoundsType
    /\ entry.component \in DOMAIN cat.components /\ OptionalProfile(entry.profile)
    /\ entry.currency \in DOMAIN cat.fx

IsContractLine(cat, line) ==
    /\ {"component", "book", "profile"} \subseteq DOMAIN line
    /\ line.book \in Ref(cat.books) /\ line.template \in Ref(cat.templates)
    /\ OptionalProfile(line.profile)

IsContract(cat, contract) ==
    /\ contract.book \in Ref(cat.books) /\ contract.template \in Ref(cat.templates)
    /\ IsList(contract.lines) /\ \A line \in Range(contract.lines) : IsContractLine(cat, line)
    /\ \A route \in Range(contract.routes) : route.template \in DOMAIN cat.templates

\* Rates and prices may have either sign, an exchange rate a denominator.
IsCatalogue(cat) ==
    /\ IsList(cat.contracts) /\ \A contract \in Range(cat.contracts) : IsContract(cat, contract)
    /\ \A book \in Range(cat.books) :
        IsList(book.entries) /\ \A entry \in Range(book.entries) : IsEntry(cat, entry)
    /\ \A template \in Range(cat.templates) :
        /\ IsList(template.steps)
        /\ \A step \in Range(template.steps) : step.book \in Ref(cat.books)
    /\ \A component \in Range(cat.components) : OptionalProfile(component.profile)
    /\ \A rate \in Range(cat.fx) : rate.num \in Int /\ rate.den \in Nat \ {0}

IsQuote(quote) ==
    /\ quote.measures \in Measurements /\ quote.inputs \in Measurements
    /\ quote.base \in OptionalInt
    /\ quote.margin \in [fixed : Int, percent : Int, perContainer : Int, minimum : Int]

\* Drivers are no less than 0.
IsCalculationRequest(r) ==
    /\ r.base \in Int /\ r.rate \in Int /\ r.quantity \in Int /\ r.bounds \in BoundsType
    /\ r.inputs \in Measurements /\ r.measures \in Measurements /\ OptionalProfile(r.profile)
    /\ r.fx.num \in Int /\ r.fx.den \in Nat \ {0} /\ r.targets \in Seq(Nat)

IsTariff(t) ==
    /\ IsList(t.bands) /\ t.days \in Int /\ t.requireNext \in BOOLEAN
    /\ \A band \in Range(t.bands) :
        band.start \in Int /\ band.end \in OptionalInt /\ band.rate \in Int

DayAnswers == [amount : Int, current : Int, upcoming : OptionalInt]

AreFreeTimeRules(rules) ==
    /\ IsFiniteSet(rules)
    /\ \A rule \in rules :
        IsFiniteSet(rule.facts) /\ rule.priority \in Int /\ rule.sequence \in Int
    /\ \A rule, other \in rules : rule.sequence = other.sequence => rule = other

\* What is rated is made of whole numbers and of references that lead somewhere;
\* None is neither a number nor an answer.
ASSUME RatingConstants ==
    /\ NoValue \notin Int /\ NoValue \notin DayAnswers
    /\ \A cat \in Catalogues : IsCatalogue(cat)
    /\ \A quote \in Quotes : IsQuote(quote)
    /\ \A r \in CalculationRequests : IsCalculationRequest(r)
    /\ \A t \in Tariffs : IsTariff(t)
    /\ \A rules \in FreeTimeRules : AreFreeTimeRules(rules)

\* Scopes and parties are partial maps: what is left open is not in the domain.
Agrees(scope, facts) ==
    \A field \in DOMAIN scope : field \in DOMAIN facts /\ facts[field] = scope[field]

Specificity(scope) == Cardinality(DOMAIN scope)

\* _date_is_valid: both ends are included, and may be open.
Within(window, date) ==
    /\ window.from # NoValue => window.from <= date
    /\ window.to # NoValue => date <= window.to

(***************************************************************************)
(* The pricing date                                                        *)
(***************************************************************************)

ScopeOrder == <<"customer", "company", "forwarder", "carrier", "vendor", "GLOBAL">>

Assigned(cat, quote, scope) ==
    {a \in cat.assignments :
        /\ a.scope = scope
        /\ scope # "GLOBAL" => Agrees(scope :> a.owner, quote.facts)}

\* _resolve_business_date_profile_assignment_for_quote; a scope has one
\* assignment (OneAssignmentApplies of ProfileVersions).
AssignedKeys(cat, quote) ==
    LET i == SelectInSeq(ScopeOrder, LAMBDA scope : Assigned(cat, quote, scope) # {})
    IN  IF i = 0 THEN << >> ELSE (CHOOSE a \in Assigned(cat, quote, ScopeOrder[i]) : TRUE).keys

\* The keys of the component's profile or basis, or those of the assigned
\* profile; the quote itself has none.
DateKeys(cat, quote, component) ==
    IF component = NoValue THEN << >>
    ELSE IF cat.components[component].policy = "INHERIT_PROFILE" THEN AssignedKeys(cat, quote)
    ELSE cat.components[component].keys

\* The first date that is there, by the mode's keys where there are none; from
\* is valid_from, or else today.
FirstDate(quote, keys) ==
    LET sought == IF keys = << >> THEN quote.modeKeys ELSE keys
        i == SelectInSeq(sought, LAMBDA key : key \in DOMAIN quote.dates)
    IN  IF i = 0 THEN quote.from ELSE quote.dates[sought[i]]

\* _quote_pricing_date
PricingDate(cat, quote, component) ==
    IF quote.serviceDate # NoValue THEN quote.serviceDate
    ELSE FirstDate(quote, DateKeys(cat, quote, component))

(***************************************************************************)
(* Contracts and routes                                                    *)
(***************************************************************************)

\* The positions that no other comes before; merits has the priority and the
\* specificity at each: the lowest priority first, then the most specific.
Foremost(merits) ==
    {i \in DOMAIN merits : \A j \in DOMAIN merits :
        \/ merits[i].priority < merits[j].priority
        \/ /\ merits[i].priority = merits[j].priority
           /\ merits[i].specificity >= merits[j].specificity}

Applies(row, quote, date) == Within(row.window, date) /\ Agrees(row.scope, quote.facts)

\* date is the pricing date of the quote itself from here on.

\* _select_contract_template_route: several are a conflict (409).
Routes(contract, quote, date) ==
    LET route(i) == contract.routes[i]
    IN  Foremost([i \in {i \in DOMAIN contract.routes : Applies(route(i), quote, date)} |->
            [priority |-> route(i).priority, specificity |-> Specificity(route(i).scope)]])

PartiesAgree(contract, quote) == Agrees(contract.parties, quote.facts)

MatchingLines(contract, quote, date) ==
    {i \in DOMAIN contract.lines : Applies(contract.lines[i], quote, date)}

\* _contract_matches_quote
ContractMatches(contract, quote, date) ==
    /\ PartiesAgree(contract, quote)
    /\ \/ contract.routes # << >> /\ Routes(contract, quote, date) # {}
       \/ (contract.routes # << >> \/ contract.lines = << >>) /\ contract.template # NoValue
       \/ contract.routes = << >> /\ MatchingLines(contract, quote, date) # {}

\* _contract_match_specificity
ContractSpecificity(contract, quote, date) ==
    LET scopes == IF contract.routes # << >>
                  THEN {contract.routes[i].scope : i \in Routes(contract, quote, date)}
                  ELSE {contract.lines[i].scope : i \in MatchingLines(contract, quote, date)}
    IN  Specificity(contract.parties) + Max({0} \cup {Specificity(s) : s \in scopes})

Valid(cat, role, date) ==
    {c \in DOMAIN cat.contracts :
        /\ cat.contracts[c].role = role /\ cat.contracts[c].status = "RELEASED"
        /\ Within(cat.contracts[c].window, date)}

\* _matching_contracts: several are a conflict.
MatchingContracts(cat, role, quote, date) ==
    Foremost([c \in {c \in Valid(cat, role, date) :
                        ContractMatches(cat.contracts[c], quote, date)} |->
        [priority |-> cat.contracts[c].priority,
         specificity |-> ContractSpecificity(cat.contracts[c], quote, date)]])

\* Ambiguous routes of any contract for the parties refuse the quote, whether
\* or not another contract would come first.
Ambiguous(cat, role, quote, date) ==
    \/ Cardinality(MatchingContracts(cat, role, quote, date)) > 1
    \/ \E c \in Valid(cat, role, date) :
        /\ PartiesAgree(cat.contracts[c], quote)
        /\ Cardinality(Routes(cat.contracts[c], quote, date)) > 1

(***************************************************************************)
(* The entry that prices a line                                            *)
(***************************************************************************)

ScaleValue(quote) ==
    LET m == quote.measures
    IN  Dec(Or(m["chargeable"], Or(m["gross"], Or(m["container"],
            Or(m["package"], m["quantity"])))))

InScale(entry, value) ==
    /\ entry.low # NoValue => value >= entry.low
    /\ entry.high # NoValue => value <= entry.high

\* _rate_entry_specificity: the bounds of the scale count like fields, the
\* charge context, which every entry has, does not.
EntrySpecificity(entry) ==
    Cardinality(DOMAIN entry.scope \ {"charge_context"})
    + Cardinality({bound \in {"low", "high"} : entry[bound] # NoValue})

\* Mutated form of EntryBefore: the priority is looked at first.
EntryBeforeByPriority(book, a, b) ==
    LET x == book.entries[a]  y == book.entries[b]
    IN  \/ x.priority < y.priority
        \/ x.priority = y.priority /\ EntrySpecificity(x) > EntrySpecificity(y)
        \/ x.priority = y.priority /\ EntrySpecificity(x) = EntrySpecificity(y) /\ a < b

\* The key that min compares; an entry's id is its position.
EntryBefore(book, a, b) ==
    LET x == book.entries[a]  y == book.entries[b]
        tied == x.priority = y.priority /\ EntrySpecificity(x) = EntrySpecificity(y)
    IN  \/ EntrySpecificity(x) > EntrySpecificity(y)
        \/ EntrySpecificity(x) = EntrySpecificity(y) /\ x.priority < y.priority
        \/ tied /\ Dec(x.low) > Dec(y.low)
        \/ tied /\ Dec(x.low) = Dec(y.low) /\ a < b

EntryApplies(entry, component, quote, date) ==
    /\ entry.component = component
    /\ Applies(entry, quote, date)
    /\ InScale(entry, ScaleValue(quote))

\* _best_rate_entry
BestEntry(book, component, quote, date) ==
    LET applying == {e \in DOMAIN book.entries :
                        EntryApplies(book.entries[e], component, quote, date)}
    IN  IF applying = {} THEN NoValue
        ELSE CHOOSE e \in applying : \A f \in applying \ {e} : EntryBefore(book, e, f)

(***************************************************************************)
(* The lines a contract charges                                            *)
(***************************************************************************)

NoWindow == [from |-> NoValue, to |-> NoValue]

\* _contract_template_execution_anchor
Anchor(contract, scope, window) ==
    [component |-> NoValue, scope |-> scope, window |-> window, book |-> contract.book,
     template |-> NoValue, profile |-> NoValue]

\* The steps for a role whose condition the quote meets.
StepsTaken(steps, role, quote) ==
    FoldLeft(LAMBDA taken, step :
                IF /\ role \in step.roles
                   /\ step.condition # NoValue => step.condition \in quote.conditions
                THEN Append(taken, step) ELSE taken,
             << >>, steps)

\* What a step adds to a line that stands for its template.
StepLine(contract, anchor, step) ==
    [line |-> [anchor EXCEPT !.component = step.component,
                             !.book = OrElse(step.book, OrElse(@, contract.book))],
     step |-> step]

\* _expand_contract_template
Expanded(cat, contract, anchor, template, role, quote) ==
    LET steps == StepsTaken(cat.templates[template].steps, role, quote)
    IN  IF ~cat.templates[template].inForce THEN << >>
        ELSE [i \in DOMAIN steps |-> StepLine(contract, anchor, steps[i])]

\* The lines a contract consists of for a quote, in their order: those of one
\* template if it has routes or no lines, else its own.
ContractLines(cat, contract, role, quote, date) ==
    LET route == Routes(contract, quote, date)
        chosen == contract.routes[CHOOSE i \in route : TRUE]
        header == Anchor(contract, << >>, NoWindow)
        ofLine(line) ==
            LET template == OrElse(line.template, contract.template)
            IN  IF template = NoValue THEN <<[line |-> line, step |-> NoValue]>>
                ELSE Expanded(cat, contract, line, template, role, quote)
    IN  IF contract.routes # << >> /\ route # {}
        THEN Expanded(cat, contract, Anchor(contract, chosen.scope, chosen.window),
                      chosen.template, role, quote)
        ELSE IF contract.routes # << >> \/ (contract.lines = << >> /\ contract.template # NoValue)
        THEN IF contract.template = NoValue THEN << >>
             ELSE Expanded(cat, contract, header, contract.template, role, quote)
        ELSE FoldLeft(LAMBDA lines, line : lines \o ofLine(line), << >>, contract.lines)

\* The calculation profile in effect for an entry, or none.
EffectiveProfile(cat, line, entry) ==
    OrElse(line.profile, OrElse(entry.profile, cat.components[entry.component].profile))

\* A percentage only takes a profile that is made for one.
IsCalculatedBy(profile, entry) ==
    /\ profile # NoValue
    /\ entry.basis = "PERCENT" => profile.method = "PERCENT_OF_REFERENCE"

\* Assigning to a key of a dictionary.
Put(f, key, value) == [k \in DOMAIN f \cup {key} |-> IF k = key THEN value ELSE f[k]]

\* The amount before conversion.  A profile has bounds of its own: those of the
\* entry are applied only without one.
SourceAmount(profile, entry, quote, base) ==
    IF entry.basis = "PERCENT" /\ base = NoValue THEN NoValue
    ELSE IF ~IsCalculatedBy(profile, entry) THEN Amount(entry, quote.inputs, quote.measures, base)
    ELSE Evaluated(profile, entry.rate, NoValue,
                   IF entry.basis = "PERCENT" THEN Put(quote.inputs, "reference", base)
                                              ELSE quote.inputs,
                   quote.measures)

\* A percentage is of the quote's own currency.
Converted(cat, amount, entry) ==
    IF entry.basis = "PERCENT" \/ amount = NoValue THEN amount
    ELSE Money(amount * cat.fx[entry.currency].num, cat.fx[entry.currency].den)

\* What a percentage is of: the subtotal that its step names, or what the quote
\* gives; nothing has been added yet to a subtotal that is not there.
PercentageBase(step, quote, subtotals) ==
    IF step = NoValue THEN quote.base
    ELSE IF step.key = NoValue THEN quote.base
    ELSE IF step.key \in DOMAIN subtotals THEN subtotals[step.key] ELSE NoValue

IsStatistical(step) == step # NoValue /\ step.statistical

\* Mutated form of Accumulates: statistical steps are added to the subtotal.
AccumulatesAll(step) == IF step = NoValue THEN FALSE ELSE step.key # NoValue /\ step.accumulates

Accumulates(step) ==
    IF step = NoValue THEN FALSE
    ELSE step.key # NoValue /\ step.accumulates /\ ~step.statistical

\* The start of a turn: what prices a line, or NoValue if the line, the rate
\* book or no entry of it applies on the date.
Priced(cat, contract, quote, expanded) ==
    LET line == expanded.line
        b == OrElse(line.book, contract.book)
        date == PricingDate(cat, quote, line.component)
        e == BestEntry(cat.books[b], line.component, quote, date)
    IN  IF ~Applies(line, quote, date) \/ b = NoValue THEN NoValue
        ELSE IF ~cat.books[b].inForce \/ ~Within(cat.books[b].window, date) THEN NoValue
        ELSE IF e = NoValue THEN NoValue
        ELSE [component |-> line.component, book |-> b, entry |-> e, date |-> date,
              step |-> expanded.step, amount |-> NoValue,
              profile |-> EffectiveProfile(cat, line, cat.books[b].entries[e])]

\* The middle of a turn.
ChargedAmount(cat, quote, subtotals, line) ==
    LET entry == cat.books[line.book].entries[line.entry]
        base == IF entry.basis = "PERCENT" THEN PercentageBase(line.step, quote, subtotals)
                                           ELSE NoValue
    IN  Converted(cat, SourceAmount(line.profile, entry, quote, base), entry)

\* The end of a turn: a line without an amount refuses the quote.
WithLine(charged, line, amount) ==
    LET key == line.step.key
        soFar == IF key \in DOMAIN charged.subtotals THEN charged.subtotals[key] ELSE 0
    IN  IF amount = NoValue THEN NoValue
        ELSE [lines |-> Append(charged.lines, [line EXCEPT !.amount = amount]),
              subtotals |-> IF ~Accumulates(line.step) THEN charged.subtotals
                            ELSE Put(charged.subtotals, key, soFar + amount)]

\* One turn of the loop of _rate_contract; charged is NoValue once it has been
\* refused.
Charge(cat, contract, quote, charged, expanded) ==
    LET line == Priced(cat, contract, quote, expanded)
    IN  IF charged = NoValue THEN NoValue
        ELSE IF line = NoValue THEN charged
        ELSE WithLine(charged, line, ChargedAmount(cat, quote, charged.subtotals, line))

LinesOf(charged) == IF charged = NoValue THEN NoValue ELSE charged.lines

\* _rate_contract
RatedLines(cat, contract, role, quote, date) ==
    LinesOf(FoldLeft(LAMBDA soFar, expanded : Charge(cat, contract, quote, soFar, expanded),
                     [lines |-> << >>, subtotals |-> << >>],
                     ContractLines(cat, contract, role, quote, date)))

(***************************************************************************)
(* Options                                                                 *)
(***************************************************************************)

AmountsOf(lines) == [i \in DOMAIN lines |-> lines[i].amount]

\* Lines that are only statistical count for no total.
LineTotal(lines) ==
    SumFunctionOnSet(AmountsOf(lines), {i \in DOMAIN lines : ~IsStatistical(lines[i].step)})

\* Mutated form of CostOf: everything that is listed is a cost.
CostOfAllLines(lines) == SumFunctionOnSet(AmountsOf(lines), DOMAIN lines)

\* What a margin is a percentage of.
CostOf(lines) == LineTotal(lines)

MarginLine(amount) ==
    [component |-> "MARGIN_MARKUP", book |-> NoValue, entry |-> NoValue, date |-> NoValue,
     step |-> NoValue, profile |-> NoValue, amount |-> amount]

\* _derive_payee_lines_from_margin, in hundredths until the end.
WithMargin(quote, lines) ==
    LET rules == quote.margin
        agreed == 100 * rules.fixed + rules.percent * CostOf(lines)
                  + 100 * rules.perContainer * Dec(quote.measures["container"])
        margin == AtLeast(agreed, 100 * rules.minimum)
    IN  IF margin = 0 THEN lines ELSE Append(lines, MarginLine(Money(margin, 100)))

\* _create_option and _create_customer_pricing_option.
Option(payer, payee, derived) ==
    [payer |-> payer, payee |-> payee, derived |-> derived,
     cost |-> LineTotal(payer), price |-> LineTotal(payee)]

TheOne(set) == CHOOSE x \in set : TRUE

\* What the contract for a role charges, in a set: empty without a contract.
ContractCharges(cat, role, quote, date) ==
    {RatedLines(cat, cat.contracts[c], role, quote, date) :
        c \in MatchingContracts(cat, role, quote, date)}

\* The option made of what the contracts charge; NoValue is a refusal.
Offered(quote, payers, payees, providerCost) ==
    LET payer == TheOne(payers)
        payee == TheOne(payees)
    IN  IF ~providerCost
        THEN IF payees \subseteq {NoValue, << >>} THEN NoValue ELSE Option(<< >>, payee, FALSE)
        ELSE IF payers \subseteq {NoValue, << >>} \/ payees = {NoValue} THEN NoValue
        ELSE IF payees = {} THEN Option(payer, WithMargin(quote, payer), TRUE)
        ELSE Option(payer, payee, FALSE)

RatedOn(cat, quote, providerCost, date) ==
    IF \E role \in {"PAYER", "PAYEE"} : Ambiguous(cat, role, quote, date) THEN NoValue
    ELSE Offered(quote, ContractCharges(cat, "PAYER", quote, date),
                 ContractCharges(cat, "PAYEE", quote, date), providerCost)

\* rate_quote_request without options of offers.
Rated(cat, quote, providerCost) ==
    RatedOn(cat, quote, providerCost, PricingDate(cat, quote, NoValue))

(***************************************************************************)
(* Requests                                                                *)
(***************************************************************************)

RatingInit == request = NoValue /\ answer = NoValue

RateQuoteRequest(cat, quote, providerCost) ==
    /\ request' = [kind |-> "quote", cat |-> cat, quote |-> quote, providerCost |-> providerCost]
    /\ answer' = Rated(cat, quote, providerCost)

\* The amount, or that of a profile, is converted and then allocated to the
\* targets.
Calculated(r) ==
    LET source == IF r.profile = NoValue THEN PreviewAmount(r)
                  ELSE Evaluated(r.profile, r.rate, r.rate, r.inputs, r.measures)
        amount == Money(source * r.fx.num, r.fx.den)
        parts == IF source = NoValue THEN NoValue ELSE Allocations(amount, r.targets, r.policy)
    IN  IF parts = NoValue THEN NoValue
        ELSE [amount |-> amount, parts |-> parts, unallocated |-> amount - Total(parts)]

PreviewCalculation(r) ==
    /\ request' = [kind |-> "calculation", of |-> r]
    /\ answer' = Calculated(r)

PriceDays(t) ==
    /\ request' = [kind |-> "days", of |-> t]
    /\ answer' = DayAmount(t.bands, t.days, t.requireNext)

PreviewFreeTime(rules, r) ==
    /\ request' = [kind |-> "freeTime", rules |-> rules, of |-> r]
    /\ answer' = FreeTime(rules, r)

RatingNext ==
    /\ request = NoValue
    /\ \/ \E cat \in Catalogues, quote \in Quotes, providerCost \in BOOLEAN :
            RateQuoteRequest(cat, quote, providerCost)
       \/ \E r \in CalculationRequests : PreviewCalculation(r)
       \/ \E t \in Tariffs : PriceDays(t)
       \/ \E rules \in FreeTimeRules, r \in FreeTimeRequests : PreviewFreeTime(rules, r)

RatingSpec == RatingInit /\ [][RatingNext]_ratingVars

(***************************************************************************)
(* Properties                                                              *)
(***************************************************************************)

Asked(kind) == IF request = NoValue THEN FALSE ELSE request.kind = kind

Answered(kind) == Asked(kind) /\ answer # NoValue

\* The parts of an amount add up to it, each is within one unit of its exact
\* share, a target without a driver gets nothing and a larger driver never
\* less than a smaller one (_preview_allocations).
AllocationsAddUp ==
    Answered("calculation") /\ request.of.targets # << >> =>
        LET drivers == Drivers(request.of.targets, request.of.policy)
            part(i) == answer.parts[i]
        IN  /\ answer.unallocated = 0
            /\ \A i \in DOMAIN drivers :
                /\ Magnitude(part(i) * Total(drivers) - answer.amount * drivers[i])
                    < Total(drivers)
                /\ drivers[i] = 0 => part(i) = 0
            /\ \A i, j \in DOMAIN drivers :
                drivers[i] > drivers[j] => Magnitude(part(i)) >= Magnitude(part(j))

\* The bands that price a day.
PricedBy(bands, day) == {i \in DOMAIN bands : InBand(bands[i], day)}

RateOf(bands, day) == bands[CHOOSE i \in PricedBy(bands, day) : TRUE].rate

\* The days of a stay and the next one, and those up to the start of any band,
\* where all that can be wrong between two bands shows.
DaysLookedAt(stay) ==
    (1 .. stay.days + 1) \cup UNION {1 .. band.start : band \in Range(stay.bands)}

\* Bands lie one after the other from day 1 and reach the last priced day.
PricesEachDayOnce(stay) ==
    LET priced(day) == PricedBy(stay.bands, day) # {}
    IN  /\ stay.days >= 0 /\ Len(stay.bands) > 0
        /\ \A b \in Range(stay.bands) :
            b.rate > 0 /\ b.start > 0 /\ (b.end # NoValue => b.start <= b.end)
        /\ \A d \in DaysLookedAt(stay) : Cardinality(PricedBy(stay.bands, d)) <= 1
        /\ \A d \in DaysLookedAt(stay) \ {1} : priced(d) => priced(d - 1)
        /\ stay.days > 0 => priced(stay.days)
        /\ stay.requireNext => priced(stay.days + 1)

\* A stay is priced if and only if its bands cover every day once, from the
\* first to the last priced day, and then it costs the sum of what each of its
\* days costs (progressive_day_amount).
DaysChargedOnce ==
    Asked("days") =>
        LET rates == [d \in 1 .. request.of.days |-> RateOf(request.of.bands, d)]
        IN  /\ answer # NoValue <=> PricesEachDayOnce(request.of)
            /\ PricesEachDayOnce(request.of) => answer.amount = Total(rates)

\* The lines of steps that belong to a subtotal.
Keyed(lines) ==
    {i \in DOMAIN lines : IF lines[i].step = NoValue THEN FALSE ELSE lines[i].step.key # NoValue}

\* The lines before line i that were added to the subtotal of its step.
AddedBefore(lines, i) ==
    {j \in Keyed(lines) :
        /\ j < i /\ lines[j].step.key = lines[i].step.key
        /\ lines[j].step.accumulates /\ ~lines[j].step.statistical}

\* A profile for percentages replaces the bounds of the entry.
BoundsInEffect(profile, entry) ==
    IF profile = NoValue THEN entry.bounds
    ELSE IF profile.method # "PERCENT_OF_REFERENCE" THEN entry.bounds
    ELSE profile.bounds

IsPercentageOfSteps(cat, lines, i) ==
    LET line == lines[i]
        entry == cat.books[line.book].entries[line.entry]
        before == AddedBefore(lines, i)
    IN  entry.basis = "PERCENT" =>
            /\ before # {}
            /\ line.amount = Bounded(entry.rate * SumFunctionOnSet(AmountsOf(lines), before),
                                     100, BoundsInEffect(line.profile, entry))

\* A percentage step charges its percentage of what the steps before it under
\* the same key were charged, in the quote's currency, statistical ones and
\* those that do not accumulate apart; there are such steps (_rate_contract).
PercentagesOfChargedSteps ==
    Answered("quote") =>
        \A lines \in {answer.payer, answer.payee} : \A i \in Keyed(lines) :
            IsPercentageOfSteps(request.cat, lines, i)

\* Where no contract says what the customer pays, the customer pays the cost
\* and the agreed margin on it, never less than the agreed minimum: the nearest
\* to it and of two as near the farther from zero.  Costs that are only listed
\* as a statistic do not count, and costs may be negative
\* (_derive_payee_lines_from_margin, _create_option).
MarginKept ==
    Answered("quote") /\ answer.derived =>
        LET rules == request.quote.margin
            containers == Dec(request.quote.measures["container"])
            hundredths == AtLeast(100 * rules.fixed + 100 * rules.perContainer * containers
                                  + rules.percent * answer.cost, 100 * rules.minimum)
            margin == answer.price - answer.cost
        IN  /\ margin >= rules.minimum
            /\ Magnitude(100 * margin - hundredths) <= 50
            /\ Magnitude(100 * margin - hundredths) = 50
                => Magnitude(100 * margin) > Magnitude(hundredths)

\* The entry of a line applies to the quote, and no other that does has a key
\* that is less at the first place where the two differ.
EntryUnbeaten(cat, quote, line) ==
    LET entries == cat.books[line.book].entries
        applies(e) == EntryApplies(entries[e], line.component, quote, line.date)
        key(e) == <<-EntrySpecificity(entries[e]), entries[e].priority, -Dec(entries[e].low), e>>
    IN  /\ applies(line.entry)
        /\ \A e \in DOMAIN entries \ {line.entry} : applies(e) =>
            \E k \in 1 .. 4 : /\ key(line.entry)[k] < key(e)[k]
                             /\ \A l \in 1 .. k - 1 : key(line.entry)[l] = key(e)[l]

RuleUnbeaten(rules, asked, first) ==
    \A rule \in rules \ {first} : RuleMatches(rule, asked) =>
        \/ RuleSpecificity(rule) < RuleSpecificity(first)
        \/ /\ RuleSpecificity(rule) = RuleSpecificity(first)
           /\ \/ rule.priority > first.priority
              \/ rule.priority = first.priority /\ rule.sequence > first.sequence

\* docs/core-concepts.md:186, :398: the entry that prices a line applies to the
\* quote, and no other that does is more specific, or as specific and of a
\* lower priority number, or of a higher scale floor, or older; nor is there a
\* matching free-time rule before the one that is taken
\* (_best_rate_entry, _match_free_time_rule).
WinnersUnbeaten ==
    /\ Answered("quote") =>
        \A line \in Range(answer.payer) \cup Range(answer.payee) : line.entry # NoValue =>
            EntryUnbeaten(request.cat, request.quote, line)
    /\ Answered("freeTime") => RuleUnbeaten(request.rules, request.of, answer.rule)
=============================================================================
