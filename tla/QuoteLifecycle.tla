---------------------------- MODULE QuoteLifecycle ----------------------------
(***************************************************************************)
(* Quote requests, the provider offers submitted for them, the options     *)
(* that offers and contracts turn into, their ranking, and the award of    *)
(* one option (app/domain/service.py).  Every operation is one transaction *)
(* and one action; a refused request and a recognised retry change nothing *)
(* and need none.                                                          *)
(*                                                                         *)
(* Ids are handed out in order, so a table is a sequence and an id a       *)
(* position in it.  What pricing makes of a contract is not computed here: *)
(* rating takes any outcome (see README.md).  A quote's terms stand for    *)
(* its totals together with what it is ranked by.                          *)
(***************************************************************************)
EXTENDS OptionalValues, Integers, Sequences, FiniteSets

CONSTANTS
    Terms,          \* what an option may offer
    Key,            \* Terms -> its place in the ranking order; lower is better
    Numbers,        \* request numbers a caller may choose
    Identities,     \* executable route identities (_award_execution_identity)
    RequestRefs,    \* execution request numbers
    Policies,       \* quotation policies the settings take on
    MaxQuotes, MaxOptions           \* bounds: quotes and options ever created

\* Request numbers are integers here: q is the number generated for id q, and
\* any other one a number of another form.
ASSUME LifecycleConstants ==
    /\ Numbers \subseteq Int
    /\ Key \in [Terms -> Int]
    /\ MaxQuotes \in Nat /\ MaxOptions \in Nat
    /\ NoValue \notin Terms \cup Identities \cup RequestRefs \cup Int

VARIABLES
    quotes,         \* the quote requests
    offers,         \* the provider offers
    options,        \* the priced options
    awards,         \* the commitments, each with its charge document
    policy          \* the setting repository.quotation_policy

quoteVars == <<quotes, offers, options, awards, policy>>

OpenStatuses == {"REQUESTED", "RATED", "RANKED"}

QuoteType == [status : {"DRAFT", "AWARDED", "DELETED"} \cup OpenStatuses,
              number : Numbers \cup 1 .. MaxQuotes \cup {NoValue},
              policy : Policies, awarded : Nat \cup {NoValue}]

OfferType == [quote : Nat, terms : Terms, status : {"SUBMITTED", "WITHDRAWN", "DELETED"}]

\* offer is None for an option that was made from contracts.
OptionType == [quote : Nat, offer : Nat \cup {NoValue}, terms : Terms,
               rank : Nat \cup {NoValue}, exists : BOOLEAN]

AwardType == [quote : Nat, option : Nat, terms : Terms,
              identity : Identities \cup {NoValue},
              request : RequestRefs \cup {NoValue}]

(***************************************************************************)
(* Lookups                                                                 *)
(***************************************************************************)

OptionsOf(q) == {p \in DOMAIN options : options[p].exists /\ options[p].quote = q}

\* _quote_option_is_available: an offer's option goes with the offer.
Available(q) ==
    {p \in OptionsOf(q) :
        options[p].offer # NoValue => offers[options[p].offer].status = "SUBMITTED"}

OptionFor(o) == {p \in DOMAIN options : options[p].exists /\ options[p].offer = o}

AwardsOf(q) == {a \in DOMAIN awards : awards[a].quote = q}

Awarded(q) == quotes[q].status = "AWARDED" \/ quotes[q].awarded # NoValue

\* Mutated form of NumberFree: only other drafts are looked at.
NumberFreeAmongDrafts(number, others) ==
    \A q \in others : quotes[q].status = "DRAFT" => quotes[q].number # number

NumberFree(number, others) ==
    \A q \in others : quotes[q].status # "DELETED" => quotes[q].number # number

\* Mutated form of IdentityFree: the route is looked up within one quote.
IdentityFreeInQuote(q, identity) ==
    identity # NoValue => \A a \in DOMAIN awards :
        awards[a].quote = q => awards[a].identity # identity

\* An award that names an executable route finds the commitment of that route
\* first, whichever quote it belongs to.
IdentityFree(q, identity) ==
    identity # NoValue => \A a \in DOMAIN awards : awards[a].identity # identity

(***************************************************************************)
(* Ranking                                                                 *)
(***************************************************************************)

ListRank(p) == IF options[p].rank = NoValue THEN 999999 ELSE options[p].rank

\* sorted() is stable on the list _quote_options_for_request returns.
RankedBefore(p1, p2) ==
    LET k1 == Key[options[p1].terms]
        k2 == Key[options[p2].terms]
    IN  \/ k1 < k2
        \/ k1 = k2 /\ ListRank(p1) < ListRank(p2)
        \/ k1 = k2 /\ ListRank(p1) = ListRank(p2) /\ p1 < p2

\* Mutated form of Ranked: options that have a rank keep it.
RankedOnce(P) ==
    [p \in DOMAIN options |->
        IF p \in P /\ options[p].rank = NoValue
        THEN [options[p] EXCEPT !.rank = Cardinality({p2 \in P : RankedBefore(p2, p)}) + 1]
        ELSE options[p]]

Ranked(P) ==
    [p \in DOMAIN options |->
        IF p \in P
        THEN [options[p] EXCEPT !.rank = Cardinality({p2 \in P : RankedBefore(p2, p)}) + 1]
        ELSE options[p]]

(***************************************************************************)
(* Rating                                                                  *)
(***************************************************************************)

\* _delete_contract_options_for_quote
WithoutContractOptions(q) ==
    [p \in DOMAIN options |->
        IF options[p].quote = q /\ options[p].offer = NoValue
        THEN [options[p] EXCEPT !.exists = FALSE] ELSE options[p]]

NewOption(q, o, t) ==
    [quote |-> q, offer |-> o, terms |-> t, rank |-> NoValue, exists |-> TRUE]

FromOffers(q) == {p \in Available(q) : options[p].offer # NoValue}

\* What rate_quote_request does to the options.  At most one payer and one
\* payee contract match, so contracts make one option at most.  outcome is
\* "NO_CONTRACT", "NO_ENTRY" (no line of the contract has a rate) or terms;
\* layer is the setting provider_cost_layer_enabled.
Rates(q, outcome, layer) ==
    /\ quotes[q].status \in OpenStatuses
    /\ CASE outcome = "NO_CONTRACT" ->
                Available(q) # {} /\ UNCHANGED options
         [] outcome = "NO_ENTRY" ->
                /\ ~layer /\ FromOffers(q) # {}
                /\ options' = WithoutContractOptions(q)
         [] OTHER ->
                /\ Len(options) < MaxOptions
                /\ options' = Append(WithoutContractOptions(q),
                                     NewOption(q, NoValue, outcome))

Outcomes == {"NO_CONTRACT", "NO_ENTRY"} \cup Terms

(***************************************************************************)
(* Actions                                                                 *)
(***************************************************************************)

LifecycleInit ==
    /\ quotes = << >>
    /\ offers = << >>
    /\ options = << >>
    /\ awards = << >>
    /\ policy \in Policies

SetPolicy(p) ==
    /\ policy' = p
    /\ UNCHANGED <<quotes, offers, options, awards>>

\* number is None when the caller sends none.  A generated number that is taken
\* fails on the unique index and rolls back, the id with it.
CreateQuote(number) ==
    LET id    == Len(quotes) + 1
        given == IF number = NoValue THEN id ELSE number
    IN  /\ policy # "DIRECT_ONLY"
        /\ id <= MaxQuotes
        /\ NumberFree(given, DOMAIN quotes)
        /\ quotes' = Append(quotes, [status |-> "DRAFT", number |-> given,
                                     policy |-> policy, awarded |-> NoValue])
        /\ UNCHANGED <<offers, options, awards, policy>>

\* The workspace update of a draft: number may be set to None, s is the status
\* asked for.
UpdateDraft(q, number, s) ==
    /\ quotes[q].status = "DRAFT"
    /\ number # NoValue => NumberFree(number, DOMAIN quotes \ {q})
    /\ quotes' = [quotes EXCEPT ![q].number = number, ![q].status = s]
    /\ UNCHANGED <<offers, options, awards, policy>>

CreateOffer(q, t) ==
    /\ quotes[q].status \in OpenStatuses
    /\ Len(options) < MaxOptions
    /\ offers' = Append(offers, [quote |-> q, terms |-> t, status |-> "SUBMITTED"])
    /\ options' = Append(options, NewOption(q, Len(offers) + 1, t))
    /\ quotes' = [quotes EXCEPT ![q].status = "RATED"]
    /\ UNCHANGED <<awards, policy>>

\* Mutated form of OfferCanChange: the quote is not looked at.
OfferSubmitted(o) == offers[o].status = "SUBMITTED"

\* _assert_offer_can_change; a quote whose option has a document is AWARDED.
OfferCanChange(o) ==
    /\ offers[o].status = "SUBMITTED"
    /\ quotes[offers[o].quote].status # "AWARDED"

UpdateOffer(o, t) ==
    /\ OfferCanChange(o)
    /\ offers' = [offers EXCEPT ![o].terms = t]
    /\ options' = [p \in DOMAIN options |->
          IF p \in OptionFor(o)
          THEN [options[p] EXCEPT !.terms = t, !.rank = NoValue] ELSE options[p]]
    /\ quotes' = [quotes EXCEPT ![offers[o].quote].status = "RATED"]
    /\ UNCHANGED <<awards, policy>>

\* The quote keeps its status.
WithdrawOffer(o) ==
    /\ OfferCanChange(o)
    /\ offers' = [offers EXCEPT ![o].status = "WITHDRAWN"]
    /\ options' = [p \in DOMAIN options |->
          IF p \in OptionFor(o) THEN [options[p] EXCEPT !.rank = NoValue] ELSE options[p]]
    /\ UNCHANGED <<quotes, awards, policy>>

RateQuote(q, outcome, layer) ==
    /\ Rates(q, outcome, layer)
    /\ quotes' = [quotes EXCEPT ![q].status = "RATED"]
    /\ UNCHANGED <<offers, awards, policy>>

RankQuote(q) ==
    /\ ~Awarded(q)
    /\ Available(q) # {}
    /\ options' = Ranked(Available(q))
    /\ quotes' = [quotes EXCEPT ![q].status = "RANKED"]
    /\ UNCHANGED <<offers, awards, policy>>

\* With nothing to rank the quote is rated first; the one option there is then
\* comes first.
RateAndRankQuote(q, t) ==
    /\ ~Awarded(q)
    /\ Available(q) = {}
    /\ quotes[q].status \in OpenStatuses
    /\ Len(options) < MaxOptions
    /\ options' = Append(WithoutContractOptions(q),
                         [NewOption(q, NoValue, t) EXCEPT !.rank = 1])
    /\ quotes' = [quotes EXCEPT ![q].status = "RANKED"]
    /\ UNCHANGED <<offers, awards, policy>>

\* Mutated form of AwardOption: a second award of the quote is not recognised.
AwardAgain(q, p, identity, request) ==
    /\ quotes[q].policy # "DIRECT_ONLY"
    /\ IdentityFree(q, identity)
    /\ p \in Available(q)
    /\ \A a \in DOMAIN awards : awards[a].option # p
    /\ awards' = Append(awards, [quote |-> q, option |-> p, terms |-> options[p].terms,
                                 identity |-> identity, request |-> request])
    /\ quotes' = [quotes EXCEPT ![q].status = "AWARDED", ![q].awarded = p]
    /\ UNCHANGED <<offers, options, policy>>

\* An award that is new: the quote need not be ranked, the option must be
\* available.
AwardOption(q, p, identity, request) ==
    /\ quotes[q].policy # "DIRECT_ONLY"
    /\ IdentityFree(q, identity)
    /\ ~Awarded(q)
    /\ p \in Available(q)
    /\ awards' = Append(awards, [quote |-> q, option |-> p, terms |-> options[p].terms,
                                 identity |-> identity, request |-> request])
    /\ quotes' = [quotes EXCEPT ![q].status = "AWARDED", ![q].awarded = p]
    /\ UNCHANGED <<offers, options, policy>>

\* Awarding the same option again links its commitment to a route, unless it is
\* linked to one already.
LinkRoute(q, p, identity, request) ==
    /\ quotes[q].policy # "DIRECT_ONLY"
    /\ quotes[q].awarded = p
    /\ identity # NoValue /\ IdentityFree(q, identity)
    /\ \E a \in DOMAIN awards :
          /\ AwardsOf(q) = {a} /\ awards[a].option = p
          /\ awards[a].identity = NoValue
          /\ awards' = [awards EXCEPT ![a].identity = identity, ![a].request = request]
    /\ UNCHANGED <<quotes, offers, options, policy>>

DeleteQuote(q) ==
    /\ quotes[q].status # "DELETED"
    /\ ~Awarded(q)
    /\ quotes' = [quotes EXCEPT ![q].status = "DELETED"]
    /\ options' = [p \in DOMAIN options |->
          IF options[p].quote = q THEN [options[p] EXCEPT !.exists = FALSE]
          ELSE options[p]]
    /\ offers' = [o \in DOMAIN offers |->
          IF offers[o].quote = q THEN [offers[o] EXCEPT !.status = "DELETED"]
          ELSE offers[o]]
    /\ UNCHANGED <<awards, policy>>

QuoteStep(q) ==
    \/ \E number \in Numbers \cup {NoValue, quotes[q].number},
          s \in {"DRAFT", "REQUESTED"} : UpdateDraft(q, number, s)
    \/ \E t \in Terms : CreateOffer(q, t)
    \/ \E outcome \in Outcomes, layer \in BOOLEAN : RateQuote(q, outcome, layer)
    \/ RankQuote(q)
    \/ \E t \in Terms : RateAndRankQuote(q, t)
    \/ \E p \in DOMAIN options, identity \in Identities \cup {NoValue},
          request \in RequestRefs \cup {NoValue} :
          AwardOption(q, p, identity, request) \/ LinkRoute(q, p, identity, request)
    \/ DeleteQuote(q)

LifecycleNext ==
    \/ \E p \in Policies : SetPolicy(p)
    \/ \E number \in Numbers \cup {NoValue} : CreateQuote(number)
    \/ \E q \in DOMAIN quotes : QuoteStep(q)
    \/ \E o \in DOMAIN offers : (\E t \in Terms : UpdateOffer(o, t)) \/ WithdrawOffer(o)

LifecycleSpec == LifecycleInit /\ [][LifecycleNext]_quoteVars

(***************************************************************************)
(* Properties                                                              *)
(***************************************************************************)

\* Every variable has its type.
LifecycleTypeOK ==
    /\ quotes \in Seq(QuoteType)
    /\ offers \in Seq(OfferType)
    /\ options \in Seq(OptionType)
    /\ awards \in Seq(AwardType)
    /\ policy \in Policies

\* An award is whole and happens once: a quote is AWARDED exactly when it names
\* an awarded option and exactly one commitment was made of it, for that option
\* (award_quote_request writes the three together and reads them back apart).
AwardIsWhole ==
    \A q \in DOMAIN quotes :
        /\ quotes[q].status = "AWARDED" <=> quotes[q].awarded # NoValue
        /\ quotes[q].awarded # NoValue <=> AwardsOf(q) # {}
        /\ \A a \in AwardsOf(q) :
              AwardsOf(q) = {a} /\ awards[a].option = quotes[q].awarded

\* Provenance survives an award: the option is still there, is the quote's own,
\* and option and offer still say what was committed, although offers are
\* edited and withdrawn and options rated and deleted elsewhere.
AwardedTermsKept ==
    \A a \in DOMAIN awards :
        LET option == options[awards[a].option]
        IN  /\ option.exists /\ option.quote = awards[a].quote
            /\ option.terms = awards[a].terms
            /\ option.offer # NoValue =>
                  /\ offers[option.offer].status = "SUBMITTED"
                  /\ offers[option.offer].terms = awards[a].terms

\* "LedgerFlow prevents duplicates by the normalized source-system plus
\* accepted-plan plus route/source identity": no route has two commitments,
\* whether the identity came with the award or was linked later.
RouteAwardedOnce ==
    \A a, b \in DOMAIN awards :
        (awards[a].identity # NoValue /\ awards[a].identity = awards[b].identity) => a = b

\* A RANKED quote's ranks can be relied on: every option that can be awarded
\* has one of its own, and a better rank never goes to a worse option, although
\* offers come, change and go between rankings.
RankingIsCurrent ==
    \A q \in DOMAIN quotes : quotes[q].status = "RANKED" =>
        \A p1, p2 \in Available(q) :
            /\ options[p1].rank # NoValue
            /\ options[p1].rank = options[p2].rank => p1 = p2
            /\ options[p1].rank < options[p2].rank =>
                  Key[options[p1].terms] <= Key[options[p2].terms]

\* Offers and options only exist for a quote that was submitted, and only as
\* long as it exists; an option never outlives its offer.
NothingOutlivesItsQuote ==
    /\ \A p \in DOMAIN options : options[p].exists =>
          /\ quotes[options[p].quote].status \notin {"DRAFT", "DELETED"}
          /\ options[p].offer # NoValue => offers[options[p].offer].status # "DELETED"
    /\ \A o \in DOMAIN offers : offers[o].status # "DELETED" =>
          quotes[offers[o].quote].status \notin {"DRAFT", "DELETED"}

\* Request numbers are unique, whether chosen, generated or changed in the draft.
RequestNumbersUnique ==
    \A q1, q2 \in DOMAIN quotes :
        (/\ quotes[q1].status # "DELETED" /\ quotes[q2].status # "DELETED"
         /\ quotes[q1].number # NoValue /\ quotes[q1].number = quotes[q2].number)
        => q1 = q2

\* Quotes, offers and options refer to one another as their handlers assume.
LifecycleSound ==
    /\ LifecycleTypeOK
    /\ NothingOutlivesItsQuote
    /\ RequestNumbersUnique
=============================================================================
