------------------------------- MODULE MCRating ------------------------------
(* Small catalogues, quotes, allocations and tariffs. *)
EXTENDS Rating

NoBounds == [low |-> NoValue, high |-> NoValue]

(* Rate books: two tiers that meet at 10, a lane of its own, a second currency,
   percentages with and without bounds, and a benchmark. *)
Entry(component, scope, low, high, priority, basis, rate, currency, bounds) ==
    [component |-> component, scope |-> scope, low |-> low, high |-> high, priority |-> priority,
     basis |-> basis, rate |-> rate, currency |-> currency, bounds |-> bounds,
     window |-> NoWindow, profile |-> NoValue]

(* Percentages by a profile, with bounds of its own. *)
Share == [method |-> "PERCENT_OF_REFERENCE", bounds |-> [low |-> 10, high |-> NoValue],
          factors |-> << >>]

Prices == <<
    Entry("FREIGHT", << >>, 0, 10, 2, "CHARGEABLE_WEIGHT", 37, "USD", NoBounds),
    Entry("FREIGHT", << >>, 10, 20, 2, "CHARGEABLE_WEIGHT", 31, "EUR", NoBounds),
    Entry("FREIGHT", << >>, NoValue, NoValue, 1, "FLAT", 999, "USD", NoBounds),
    [Entry("FREIGHT", "lane" :> "A", NoValue, NoValue, 1, "CONTAINER", 55, "EUR",
           [low |-> 60, high |-> NoValue]) EXCEPT !.window = [from |-> 4, to |-> NoValue]],
    Entry("BENCHMARK", << >>, NoValue, NoValue, 1, "FLAT", 501, "USD", NoBounds),
    Entry("FUEL", << >>, NoValue, NoValue, 1, "PERCENT", 15, "USD", NoBounds),
    [Entry("FUEL", "lane" :> "B", NoValue, NoValue, 1, "PERCENT", 25, "USD", [low |-> 1, high |-> 9])
        EXCEPT !.profile = Share],
    Entry("TOLL", << >>, NoValue, NoValue, 1, "PERCENT", 7, "USD", [low |-> 20, high |-> 25]),
    Entry("STORAGE", << >>, NoValue, NoValue, 1, "DAY", 13, "USD", [low |-> 50, high |-> NoValue]) >>

Step(component, key, accumulates, statistical, condition) ==
    [component |-> component, roles |-> {"PAYER", "PAYEE"}, book |-> NoValue, key |-> key,
     accumulates |-> accumulates, statistical |-> statistical, condition |-> condition]

Freight == Step("FREIGHT", "BASE", TRUE, FALSE, NoValue)
Benchmark == Step("BENCHMARK", "BASE", TRUE, TRUE, NoValue)
Fuel == Step("FUEL", "BASE", FALSE, FALSE, NoValue)
Toll == Step("TOLL", "BASE", TRUE, FALSE, "TOLLS")
Handling == [Step("STORAGE", NoValue, TRUE, FALSE, NoValue) EXCEPT !.roles = {"PAYEE"}]

TemplateChoices == {
    <<[inForce |-> TRUE, steps |-> <<Freight, Benchmark, Toll, Fuel, Handling>>]>>,
    <<[inForce |-> TRUE, steps |-> <<Fuel, Freight>>]>>,
    <<[inForce |-> FALSE, steps |-> <<Freight>>]>> }

ContractLine(component, scope, template) ==
    [component |-> component, scope |-> scope, window |-> NoWindow, book |-> NoValue,
     template |-> template, profile |-> NoValue]

Contract(role, parties, priority, template, lines, routes) ==
    [role |-> role, status |-> "RELEASED", parties |-> parties, priority |-> priority,
     window |-> NoWindow, book |-> 1, template |-> template, lines |-> lines, routes |-> routes]

Route(scope, priority) ==
    [scope |-> scope, window |-> NoWindow, template |-> 1, priority |-> priority]

ByTemplate == Contract("PAYER", << >>, 2, 1, << >>, << >>)
ByLines == Contract("PAYER", "carrier" :> 1, 2, NoValue,
    <<ContractLine("FREIGHT", << >>, NoValue), ContractLine("FUEL", "lane" :> "A", NoValue)>>, << >>)
ByRoutes == Contract("PAYER", << >>, 1, NoValue, << >>, <<Route("lane" :> "A", 1), Route(<< >>, 1)>>)
Unclear == Contract("PAYER", << >>, 3, NoValue, << >>, <<Route(<< >>, 1), Route(<< >>, 1)>>)
Sale == Contract("PAYEE", "customer" :> 1, 1, NoValue,
    <<ContractLine("STORAGE", << >>, NoValue), ContractLine("FREIGHT", << >>, 1)>>, << >>)

ContractChoices ==
    {payers \o payees :
        payers \in {<< >>, <<ByTemplate>>, <<ByLines>>, <<ByRoutes>>, <<ByTemplate, ByLines>>,
                    <<ByTemplate, Unclear>>, <<ByTemplate, [ByTemplate EXCEPT !.status = "DRAFT"]>>},
        payees \in {<< >>, <<Sale>>}}

Measured == [method |-> "PRODUCT", bounds |-> NoBounds,
    factors |-> <<[key |-> "container", fromInput |-> FALSE, required |-> FALSE, default |-> 3],
                  [key |-> "days", fromInput |-> TRUE, required |-> TRUE, default |-> NoValue]>>]

Components(storage) ==
    [c \in {"FREIGHT", "BENCHMARK", "FUEL", "TOLL", "STORAGE"} |->
        [policy |-> IF c = "FREIGHT" THEN "INHERIT_PROFILE" ELSE "LEGACY_BASIS",
         keys |-> <<"DOCUMENT_DATE">>, profile |-> IF c = "STORAGE" THEN storage ELSE NoValue]]

Catalogues_MC ==
    {[contracts |-> contracts, templates |-> templates, assignments |-> assignments,
      books |-> <<[entries |-> Prices, inForce |-> TRUE, window |-> NoWindow]>>,
      components |-> Components(storage),
      fx |-> "USD" :> [num |-> 1, den |-> 1] @@ "EUR" :> [num |-> 23, den |-> 20]] :
        contracts \in ContractChoices, templates \in TemplateChoices,
        storage \in {NoValue, Measured},
        assignments \in {{}, {[scope |-> "GLOBAL", owner |-> NoValue,
                              keys |-> <<"PICKUP", "DOCUMENT_DATE">>]}}}

MeasuresOf(chargeable, container) ==
    [chargeable |-> chargeable, gross |-> NoValue, container |-> container, package |-> NoValue,
     quantity |-> 1, days |-> NoValue, reference |-> NoValue]

Inputs(days) == [k \in MeasureKeys |-> IF k = "days" THEN days ELSE NoValue]

Quotes_MC ==
    {[facts |-> "lane" :> lane @@ "customer" :> 1 @@ "carrier" :> 1,
      serviceDate |-> NoValue, dates |-> dates, from |-> 3, modeKeys |-> <<"PICKUP">>,
      measures |-> MeasuresOf(chargeable, IF days = NoValue THEN 0 ELSE 2),
      inputs |-> Inputs(days), base |-> IF days = NoValue THEN NoValue ELSE 350,
      conditions |-> {"TOLLS"}, margin |-> margin] :
        lane \in {"A", "B"}, dates \in {<< >>, "PICKUP" :> 5 @@ "DOCUMENT_DATE" :> 3},
        chargeable \in {NoValue, 10, 25}, days \in {NoValue, 4},
        margin \in {[fixed |-> 0, percent |-> 0, perContainer |-> 0, minimum |-> 0],
                    [fixed |-> 5, percent |-> 13, perContainer |-> 7, minimum |-> 90],
                    [fixed |-> 3, percent |-> -25, perContainer |-> 0, minimum |-> -900]}}

(* Amounts of both signs, up to three targets, drivers that share a fraction or
   are zero, and a rate with a denominator. *)
CalculationRequests_MC ==
    {[profile |-> profile, basis |-> basis, base |-> 350, rate |-> rate, quantity |-> 3,
      bounds |-> bounds, inputs |-> Inputs(NoValue), measures |-> MeasuresOf(NoValue, 2),
      fx |-> fx, targets |-> targets, policy |-> policy] :
        profile \in {NoValue, [Measured EXCEPT !.method = "FLAT_AMOUNT"]},
        basis \in {"FLAT", "PERCENT", "QUANTITY"}, rate \in {-10, 0, 1, 7},
        bounds \in {NoBounds, [low |-> 2, high |-> 20]}, fx \in {[num |-> 20, den |-> 23]},
        targets \in UNION {[1 .. n -> {0, 1, 2, 5}] : n \in 0 .. 3}, policy \in {"BLOCK", "EQUAL"}}

Bands == [start : {1, 2, 3}, end : {NoValue, 1, 2, 4}, rate : {0, 5, 9}]

Tariffs_MC ==
    {[bands |-> bands, days |-> days, requireNext |-> next] :
        bands \in UNION {[1 .. n -> Bands] : n \in 0 .. 2}, days \in -1 .. 5, next \in BOOLEAN}

Scope(type, id) == [type |-> type, id |-> id]

Rule(sequence, priority, scope, event, facts, free) ==
    [sequence |-> sequence, priority |-> priority, scope |-> scope, event |-> event,
     facts |-> facts, free |-> free, from |-> "GATE_IN", to |-> "GATE_OUT"]

FreeTimeRules_MC ==
    SUBSET {Rule(1, 100, Scope("GLOBAL", NoValue), NoValue, {}, 3),
            Rule(2, 10, Scope("GLOBAL", NoValue), NoValue, {"REEFER"}, 1),
            Rule(3, 20, Scope("GLOBAL", NoValue), "STORAGE", {}, 5),
            Rule(4, 20, Scope("GLOBAL", NoValue), NoValue, {"WEEKEND"}, 7),
            Rule(5, 20, Scope("CUSTOMER", 1), NoValue, {}, 9)}

FreeTimeRequests_MC ==
    {[scope |-> scope, event |-> event, facts |-> facts, times |-> times] :
        scope \in {Scope("GLOBAL", NoValue), Scope("CUSTOMER", 1)},
        event \in {NoValue, "STORAGE"}, facts \in SUBSET {"REEFER", "WEEKEND"},
        times \in {"GATE_IN" :> 2, "GATE_IN" :> 2 @@ "GATE_OUT" :> 8,
                   "GATE_IN" :> 8 @@ "GATE_OUT" :> 2}}
=============================================================================
