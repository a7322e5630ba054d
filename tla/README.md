# LedgerFlow: a TLA+ model of the charge management service

LedgerFlow is an API that prices freight charges, turns an accepted quote into a
commitment and a charge document, reconciles supplier and customer invoices
with it and exports it to a ledger. This directory models its business core,
`app/domain/service.py` with `dimension_service.py`, `fx_service.py` and
`day_band_rating.py`, and the way each call becomes a database transaction,
`app/infrastructure/database_service.py` with `sqlalchemy_repository.py`. The
modules are read from the source; line numbers for every definition are in
`PROJECT.json` under `map`.

## Inventory

| Component | State | Operations | Talks to | Modelled |
|---|---|---|---|---|
| Quote requests, offers, options | quote status, request number, awarded option; offers; options with rank | create, update, submit, offer, edit, withdraw, rate, rank, award, delete | contracts and rates (reads), commitments and documents (award) | `QuoteLifecycle` |
| Commitment ledger | status, committed and consumed measures and amount, consumption rows | award, consume, reverse, cancel, match (reads) | document (cancel) | `QuoteCommitment` |
| Charge documents | status, lines (a tree), totals | create, award, update, replace lines, delete line, delete, approve, export, reverse, cancel | invoices and exports (guards), commitment (guard) | `ChargeDocument` |
| Invoices and match results | status, number, amounts, results | create, correct, match, delete | documents (guards, expected amounts) | `ChargeDocument` |
| Export batches | snapshot of lines and totals | post | documents | `ChargeDocument` |
| Award and cancellation across both | - | award, cancel | - | `QuoteExecution` |
| Transactional service | sessions, advisory lock, loaded copies | every call: lock, load, run, flush, commit | all of the above | `DatabaseService` |
| Relational repository | 30-odd tables, id sequences, settings | load, persist, delete removed rows, reset | PostgreSQL | partly, `DatabaseService` |
| Contracts | draft / released, lines, routes | create, update, release, price; determine | rate books, templates | `PricingCatalog`, `Rating` |
| Rate books, calculation templates | versions: code, number, draft / published / retired, lock version | create, version, publish, update, open | profiles, contracts | `PricingCatalog` |
| Calculation, allocation, business-date, free-time profiles | profiles with the version in force, versions, assignments | create, update, version, edit, publish, assign | components (which refer to them) | `ProfileVersions` |
| Components and aliases | catalogue, and the rows that name a component by code | create, update, deactivate; relink | profiles, rate books, match results | `ComponentCatalog` |
| Exchange rates | sources, rates | maintain, resolve | own transaction, no advisory lock | `ReferenceData` |
| Dimensions and caller mappings | definitions, mappings | maintain, normalise rate books and quotes | own transaction, no advisory lock | `ReferenceData` |
| Rating and calculation | none (pure) | determine and rate a contract, margin, previews, day bands, free time | all of the catalogue | `Rating`, `Calculation` |
| In-memory repository | as above | as above | tests only | no |
| HTTP routes, JWT, readiness, seeds, migrations, scripts, OpenAPI, Flutter UI | - | - | - | no |

What makes each hard, and so what its properties are about:

* **Commitment ledger.** Balances are kept incrementally next to a history, a
  status is derived from them by two different predicates, amounts are rounded
  shares, and clients retry. Balances must be the sum of the active rows, a
  source identity must be booked once, nothing may be drawn beyond what was
  committed, and no cent may be lost.
* **Charge documents.** Totals, line statuses and match results are copies kept
  in step by every handler for itself, and a dozen handlers each check their own
  part of "is this still open". Copies must agree, an approval must be a real
  boundary, and a posted document must stay what was posted.
* **Quotes.** Offers change while options are ranked and awarded; awards are
  retried with and without the identity of a route. A route must be committed
  once, an award must be whole, and ranks must be usable.
* **Pricing catalogue.** Versions are derived from one another, moved to other
  codes and published in any order, while templates and contracts refer to them
  by id. One version of a code may be in force, what was published must stay
  what it was, and a released contract's prices must not move by themselves.
* **Profiles.** Four kinds of versions that look alike and differ in what they
  check: what may be edited once retired, what may be published twice, what the
  repository forgets. A profile must have one version in force, the two ways of
  finding it must agree, and whoever was given a profile must never find it
  without one.
* **Components.** A component refers to profiles that live on, and other rows
  refer to it by a code that may change. A reference must keep resolving, and a
  row must never come to stand for another component.
* **Reference data.** Maintained in transactions of its own, next to the locked
  ones that use it. Checks are made before the write and can be overtaken; what
  is in use must stay what it was, and the past must not be converted anew.
* **Pricing.** Selections by several criteria in turn, percentages of subtotals,
  rounding, and bands with inclusive bounds. The winner must be unbeaten, parts
  must add up, and a day must be charged once.
* **Transactions.** A call loads the whole state and writes it back. Two that
  overlap would undo each other; one advisory lock prevents it, and everybody
  waits for it.

## Modules

```
FinancialRecord            what a document promises        (abstract)
      ^ refines (direct documents)
ChargeDocument             documents, lines, invoices, exports
      ^ EXTENDS, implements
QuoteExecution ----refines----> QuoteCommitment            the ledger
      ^ EXTENDS                       ^ EXTENDS
QuoteExecutionProofs            QuoteCommitmentProofs
      (both also EXTENDS FiniteSums)
QuoteLifecycle             quotes, offers, options, awards
      ^ EXTENDS
QuoteLifecycleProofs
PricingCatalog             rate books, templates, contracts
      ^ EXTENDS
PricingCatalogProofs
ProfileVersions            profiles, their versions and assignments
      ^ EXTENDS, implements
ComponentCatalog           components and aliases
      ^ EXTENDS
MasterDataProofs           both of them, and ReferenceData
      v EXTENDS                               (also EXTENDS FiniteSums)
ReferenceData              dimensions, mappings, exchange rates
Calculation                amounts, allocations, day tariffs, free time
      ^ EXTENDS
Rating                     contracts, entries, margins
      ^ EXTENDS
RatingProofs                                  (also EXTENDS FiniteSums)
DatabaseService ---refines----> AtomicStore                (abstract)
      ^ EXTENDS
DatabaseServiceProofs
FiniteSums                 lemmas: sums and folds, greatest, least and first
OptionalValues             NoValue, which all of them extend
MC*                        instances for TLC
```

`DatabaseService` justifies the others: there a call is a single atomic action,
because that is what the lock, the load and the commit give it, except to calls
that cross a rewriting read (see *Findings*).
`ReferenceData` is the exception: its calls are outside that lock, and there a
call is two steps.

Conventions shared by all modules. An action is a whole handler and its guard
its early returns; a request that is refused (HTTP 4xx) rolls back and a retry
that is recognised only reads, so neither has an action. Amounts are integers,
the minor units `money()` rounds to. `NoValue` is `None`. A definition whose
comment begins "Mutated form of" is not part of the specification: it is the
same operator with a plausible mistake, kept to show that a property notices.

### QuoteCommitment

`status`, `terms`, `consumed` and `consumptions` are the columns of the
commitment and its consumption rows; `document` is the status of the linked
charge document, moved by `DocumentStep` as the document's own handlers would.
Four dimensions are measured. The code's distinction between 0 and `None` is
kept where it matters: `CapacityOf` falls back on the quantity for both (a
Python `or`), `DrawnFrom` for `None` only. `ProportionalAmount` keeps the order
of bases and gives the remaining amount to the draw that takes what is left.
Source types are folded into `source`; the reason, party and validity fields
are left out.

### ChargeDocument and FinancialRecord

A document has its lines as a partial function from line numbers, its two
totals (the margin is their difference), whether it came from a quote, and the
state of its commitment as far as guards ask for it. Line fields that no
property tells apart (dates, rates, snapshots) are dropped; a processing
snapshot is one bit, `pending`. `Stored` models that persistence leaves out a
line whose component is not in the catalogue. `Result` is the matching of one
component, with its tolerance of one minor unit. A document id that is absent
again stands for a fresh one.

`FinancialRecord` is the promise: open, then approved and frozen with its
evidence, posted once as it was approved, reversed instead of deleted.
`ChargeDocument` implements it for direct documents; for awarded ones it does
not, as the first finding shows.

### QuoteExecution

Extends `ChargeDocument` and instantiates the ledger over the documents'
statuses. `Award` and `CancelCommitment` conjoin the two modules' actions;
everything else leaves the other side alone, as the code does.

### QuoteLifecycle

Tables are sequences because ids are handed out in order. `Terms` stand for all
that an option offers and `Key` for the ranking key computed from it; the
secondary order by previous rank and id is that of a stable sort. `Rates` takes
any outcome of the rating: no contract, a contract without an entry, or an
option. A request number is an integer, and id `q` generates number `q`.

### PricingCatalog

Rate book versions, template versions and contracts are sequences and an id a
position, since nothing is ever deleted. A version is its code, number, status,
lock version and `form`, the content a request fills in: of a book, the price of
its best entry (or none, when it has no entries) with the basis and calculation
profile the entry may name, and whether the book is active; of a template, the
books its steps pin. What both kinds share (`Family`, `NextNumber`, `Editable`,
`Edited`, `Published`) is written once, over either table. A contract's `form`
has its defaults, the templates of its conditional routes, and its lines.

`RatedLines` follows `_rate_contract`: with routes, or without lines, one template
prices the contract; otherwise each line by its template or its book. `Charges`
keeps what `_rate_contract` passes over (books that are missing, inactive or not
published). What a rate is charged by is looked up when a quote is rated, and so
is in `Charges`: the basis of the entry or else of the component (`EntryBasis`),
and the calculation profile of the line, else the entry, else the component
(`ProfileNamed`), in its published version if it has one (`EffectiveProfile`).
`terms` holds what can change there: the component, by `UpdateComponent`, and
which profiles have been published, by `PublishProfile`; a profile never gets a
second version, so its published one never changes. What amount the calculation
makes of it is `Calculation`'s. `PriceList` is `Charges` for each route a quote
could select. There
is one component, which keeps its code, and one quote, which every line, route
and entry applies to:
applicability, validity dates, preconditions, percentages of subtotals and
contract numbers are left out. Alike lines or steps are one member of a set.

A create compares the code as typed with those stored, which lets a code with
blanks around it pass; the unique index on code and version number then decides
alone. So `CreateBook` asks only for `NumberFree`, the weaker of the two; so does
`UpdateBook`, whereas `UpdateTemplate` strips first and asks for an unused code.

`workspace` is a version somebody has opened, with its lock version, which a later
update may send along or leave out. `priced` is a history variable: under which
terms a contract was released, and what it charged then.

### ProfileVersions

Profiles of all kinds are in one sequence, their versions in another. `form` is
what a request fills a version in with: whether it is an allocation for whole
documents, whether it has effective dates, and its `lines` (factors, date steps
or free-time rules, each with a number and a code). The life cycle is written
once; every difference between the kinds is an operator of its own: `Editable`
(a retired version can be edited, unless it is a calculation), `Publishable`
(anything but a calculation can be published once more), `Supersedes` (document
allocations are in force beside the others), `HasNewVersions` (calculation and
free-time profiles have one version only, because creating another reads a field
they do not have), `RulesFit` and `Replacing` (free-time rules that an edit
replaces are never deleted, and collide or come back). `Stored` is what the
repository makes of a version between two calls: that of a date loses its lock
version and its effective dates. `opened` is a version somebody has opened.

### ComponentCatalog

Extends `ProfileVersions` by components, aliases and `links`: rate books and
match results, each with the component it was made for and the id it is stored
with. `Relinked` is what the flush of an update does to all of them. Component
and alias operations leave the profiles alone, so the composition implements
`ProfileSpec`. Contact fields, posting roles and everything else that only the
caller reads are left out.

### ReferenceData

A call is two steps: `Ready`, when it has made its checks, and `Commit`, which
writes the columns it changed (`Merged`) if the unique indexes admit them and
rolls back otherwise. In between anybody may commit. `overlapped` is a history
variable: some call has committed although another one committed after its
checks. What the code promises about uses it can only promise while that has not
happened, and the properties say so; unique keys and conversions hold either
way. Dimensions and rates share no rows, so that a behaviour is about one `area`.
The structure of a dimension is its data type, allowed values and case
sensitivity; what a value is stored as by a structure, if it is valid, is the
constant `Normalized`. A rate book keeps the structures its values were written
in. A mapping keeps its own values, defaults and mapped ones, as they were
stored: that is what an update of a used mapping compares, and all it compares.
An attribute that a mapping passes on as the caller sends it has no such value;
it counts as one that all structures leave alone. `structures` of a mapping and
`mappings` of a quote are history: what the active mapping was last saved by, and
what the quote was read by. `Resolution` follows `FxRateService.resolve` and
`_resolve_fx`: the latest rate up to a date, of the pair or else of its reverse.

### Calculation and Rating

Pure. `Calculation` has the arithmetic: `Money` (half away from zero),
calculation profiles with their factors, the amount of an entry, allocation by
largest remainder, day bands, free-time rules. `Rating` has the selections of
`rate_quote_request`: the pricing date by assignments and date keys, contract,
route, lines or template steps, the entry of the rate book, subtotals, margin. A
behaviour of `RatingSpec` is one request and its answer. Amounts are minor units
and quantities whole numbers; a quotient stays a fraction until it is rounded.
Exchange rates are fractions. The properties are the reference definitions: they
are written without the operators that compute the answer. `RatingConstants` says
what is rated: amounts of either sign, references that lead somewhere, exchange
rates with a denominator, drivers that are no less than 0, finitely many
criteria, bands of whole days; and that `NoValue`, which is None and every refusal,
is neither a number nor an answer.

### DatabaseService and AtomicStore

A session is idle, waiting for the lock, or loading. `LoadRow` reads one
aggregate as of now (READ COMMITTED); `Commit` runs the method on the copy and
writes back. `flush` writes when the copy's signature changed. It then merges
every row; whether a row that was not touched is really updated depends on
whether SQLAlchemy still has the loaded object, so `Written` allows any superset
of the touched rows. `Rollback` stands for a refusal, an exception, a lost
connection and a crash: memory is lost, the lock is released by the server.
`kind` has three values: a mutation, a read, and a rewriting read, which takes no
lock and still changes its copy (`get_quote_request_workspace`). A row counts the
effects committed to it, which tells a lost one from a kept one, and the history
`overtakers` records, for each session, which kinds of calls wrote a row it had
loaded while it ran. `AtomicStore` promises that a call takes effect in one step
on the rows as they are, except while the store is *exposed*, when it may put old
rows back. `DatabaseService` implements it with `exposed` being that some
rewriting read and another call have crossed (`Crossed`): a call that was
overtaken by mutations only is never excused.

## What is checked

| Run | Instance | Shows |
|---|---|---|
| `commitment` | one commitment, 4 kinds of terms, 6 draws, 4 identities, 3 rows | `IdentityConsumedOnce`, `BalancesAreBooked`, `WithinCommitment`, `ConsumedMeansExhausted`, `DerivedDrawsExhaustAmount` |
| `charge_document` | one document, two invoices, 6 line lists, 2 options, 2 batches | `NothingOrphaned`, `MatchIsCurrent`, `DirectTotalsAgree`, `DocumentsSound` (types, invoice numbers, line statuses and their lock), and the refinement `IsFinancialRecord` |
| `execution` | one awarded and one direct document, an invoice, 2 draws | `CommitmentsBacked`, `ExportedOnceWhileCommitted`, and the refinement `ImplementsLedger` |
| `lifecycle` | two quotes, two options, three terms of which two tie | `AwardIsWhole`, `AwardedTermsKept`, `RouteAwardedOnce`, `RankingIsCurrent`, `LifecycleSound` (types, nothing outlives its quote, request numbers) |
| `database` | three sessions, two rows, three calls | the refinement `CallsAreAtomic`, rewriting reads among the calls, and `MutationsEnd` under fairness |
| `catalog` | three versions of books and templates with two codes each, one contract of two kinds, two forms of the component and a profile to publish | `OneVersionInForce`, `ReleasedVersionsKept`, `PricesHoldUntilRetired`, `EditsOverwriteWhatWasSeen`, `CatalogTypeOK` |
| `component_catalogue` | two profiles, three versions, five rows in all, two component codes, two owners | `OnePublishedVersion`, `OneAssignmentApplies`, `EditsOverwriteWhatWasSeen`, `PublishedVersionsKept`, `ComponentDatesResolve`, `LinksNeverMislead`, `CatalogueTypeOK` |
| `reference_data` | two calls at a time, five about two dimensions (three structures, two values) or four about two dates of a pair and its reverse | `UsedDimensionsKept`, `QuoteMappingsKept`, `EarlierConversionsKept` |
| `rating` | 14 sets of contracts, 3 template catalogues, quotes, calculations, tariffs, sets of free-time rules | `WinnersUnbeaten`, `PercentagesOfChargedSteps`, `MarginKept`, `AllocationsAddUp`, `DaysChargedOnce` |
| `exported_once`, `lost_update`, `pinned_contracts` | as small as shows it | the findings below |

Every property has a mutant in `PROJECT.json`: a mapped definition with a
mistake, under which the run fails.

**Bounds.** `MaxRows` 3: a draw, its reversal and another draw, or three shares
of an amount that does not divide by three. One commitment: no operator of the
ledger relates two. One document in `charge_document`: handlers of different
documents share nothing but the policy; two invoices are needed for numbers.
The line lists have a tree of three generations, a cycle of parents, a pending
snapshot, a derived source and a missing parent. `MaxExports` 2 lets a second
export happen. Two quotes let a route and a number be shared; two options let a
quote have a choice, and three terms a tie and a difference. Three sessions: one
holds the lock, one waits, one reads or rewrites. Two rows: a torn read needs no more.
Three versions are a book, its successor and a template that pins the book, or
a book and two templates, or two drafts derived from one version: what each
property relates. `MaxEdited` 3 lets a draft be edited twice, and would
let a version be edited after its publication, were the code to allow it. The contract forms have a line with a book, one with a template, a
default book and a route; one names its profile on every line, so that nothing is
left to the component, the other leaves the profile to it. Codes are
interchangeable, so TLC takes them up to `CodeSymmetry`; no property of that run
is a liveness property. In `component_catalogue` three versions are two of a
profile and one of another, or a version that is retired, edited and published
again (`MaxEdits` 3 is what that takes); two profiles are one in use and one to
change to; five rows are a profile with two versions, a component and a row that
names it. In `reference_data` two calls are what it takes to be overtaken; five
calls make a mapping and a quote by it, switch the mapping off, restructure its
dimension and switch it on again, or make a dimension, a mapping onto it and a
quote, and then change two of them. Of the structures one folds case and one
is of another data type; of the values one is stored differently or refused by
these. Behaviours about dimensions are followed until a call has been overtaken,
after which it can only be refused, or commit, and then nothing is claimed. Three-step selections in `rating` have entries, contracts and rules
that differ in one criterion each, so that each of them decides once; amounts of
both signs, drivers that tie and drivers of zero make remainders fall everywhere.

**Stopping.** The instances are bounded (rows, calls, ids), so they end in
states without a successor; the system itself waits for requests. Deadlock is
therefore not checked.

**Fairness.** Only `MutationsEnd` needs any. A session runs on (`WF` of loading
and committing): a request handler does not wait for anything else. The server
grants the lock to whoever waits for it (`SF` of `AcquireLock`): PostgreSQL
queues lock requests, so a waiting one is not overtaken forever. Nothing is
assumed about rollbacks, and new calls need not arrive.

## Findings

1. **Exported twice** (`exported_once`). Cancelling a commitment takes even an
   exported document to CANCELLED (`service.py:3772`), from where it can be
   approved and exported again. While the commitment stands, a document is
   exported once (`ExportedOnceWhileCommitted`).
2. **A read undoes a write** (`lost_update`). Calls named `get_` take no lock but
   flush; one that fills in derived fields (`get_quote_request_workspace`) finds
   its copy changed and writes all of it back (`database_service.py:22`).
3. **Pinned contracts are not reproducible** (`pinned_contracts`). The
   documentation says so of contracts pinned to a retired version
   (`docs/api-examples.md:413`), but rating passes over retired books and
   templates (`service.py:5086`, `5248`), so publishing a successor silently takes
   their lines off every contract that refers to the old one. Without such a
   retirement a released contract charges the same whenever the component and the
   published profiles it charges by are the same (`PricesHoldUntilRetired`); but
   these are looked up at rating too, so an edit of the component's basis or
   default profile, and the first publication of a profile, move its prices
   (`service.py:5480`, `7440`).

Smaller observations, not runs.

* *Documents and commitments.* A CANCELLED document can be set back to ESTIMATED;
  a reversed document's commitment can still be consumed; a dimension committed
  as 0 counts as used up, so the first draw ends such a commitment; capacity
  without container or package counts is checked against the quantity but booked
  in the container column (`service.py:4710`), so it never shrinks; a workspace
  update recomputes the totals of an exported document that was awarded from an
  offer (`service.py:4234`); two lines that name each other as parents can no
  longer be deleted one by one.
* *Quotes and contracts.* A caller may take the number that would be generated
  for a later request, which then blocks every request without a number; the
  expiry of an option is not looked at when it is awarded; a contract can be
  released by a line with a rate source while its other lines, which have none,
  never charge anything; a workspace update of a quote merges dimension values
  that were read outside the lock.
* *Profiles.* Retired allocation, date and free-time versions can be edited and
  published again under the same number; calculation and free-time profiles can
  never get a second version; because dates lose their lock version, concurrent
  edits of them overwrite one another unnoticed although a migration adds
  optimistic concurrency for them (`alembic` 0020); replaced free-time rules
  return; a profile may be given to another owner under the components that
  use it.
* *Reference data.* An update lets an unused built-in dimension be deactivated,
  which the delete refuses; inactive rates, assignments and aliases keep their
  key taken; a check of use that is overtaken lets a dimension go that a rate
  book has just been written in. A mapping that a quote names can be switched off
  (`dimension_service.py:273` asks for no use), its dimension then restructured
  and the mapping switched on with the same mappings (`:244`), in calls that do
  not overlap. `docs/caller-attribute-mapping.md:134` says that the guards "keep
  historical quote and rate provenance reproducible"; what the mapping passes on
  as it is sent is normalized otherwise from then on (`:593`), and only what
  `QuoteMappingsKept` says is kept.
* *Rating.* With a calculation profile in effect the entry's own minimum and
  maximum are not applied (`service.py:5471`), for percentages neither
  (`service.py:5492`); `docs/core-concepts.md:208`, "Rate minimum and maximum
  boundaries are applied after the formula", leaves open whose they are, and
  `PercentagesOfChargedSteps` takes them as the code does; a payee contract that matches and
  prices nothing gives an option of price 0; ambiguous routes of a contract that
  would not win still refuse the quote; the bounds of a scale count as
  specificity, so on a shared bound an open upper tier loses to the closed lower
  one; measures of 0 do not fall back to a factor's default.

## What is proved

`FiniteSums` proves what the proofs need of sums over finite sets
(`SumFunctionOnSet`): that they exist, that any element may be taken out
(`SumTakeOut`), and what one more or one less row does to them (`SumWith`,
`SumWithout`). The fold behind the sum takes its elements in an order nobody
knows, and the library's induction theorems cannot be used, so each fact is
proved by a smallest counterexample: among the subsets that violate it there is
a least (`SmallestSubset`), and taking an element out of it gives a smaller one.

`QuoteCommitmentProofs` proves, for every set of commitments, terms, draws and
identities and every `MaxRows`, that the ledger keeps `LedgerInv` and with it all
five properties of `commitment`, beside its type invariant and
`CancelledCommitmentUnused`. The assumptions are those of
`CommitmentConstants`: terms and draws have the types the request models
validate.

The invariant is the conjunction of these properties and `AbsentUntouched`. The
parts need each other: a derived amount is a natural number only because the
amount is not overdrawn (`BookedAmountType` uses `WithinCommitment`), and an award
keeps `WithinCommitment` only because a commitment that does not exist has
nothing booked (`AbsentUntouched`). A reversal takes its row's share out of every
sum (`ReversedRowLeavesSums`): that `UndoDraw` need not stop at 0, although the
code does, is because a balance is a sum that has the row in it. That rounding
loses nothing needs no fact about rounding: a draw that leaves nothing of the
dimension is given the remaining amount, whatever was rounded before it
(`LastDrawTakesTheRest`), and a reversal only leaves a commitment CONSUMED that has
no amount remaining.

`QuoteExecutionProofs` proves all properties of `charge_document` and `execution`
with their refinements, for every set of documents, invoices, line lists,
options and awards, from `DocumentConstants` and `ExecutionConstants`. The first
says that line numbers are finitely many (a document has finitely many lines),
and that the lines of an option have no parents (the award sets none).

The invariant `DocInv` has a part about each document alone (`GoodDocument`),
shown once for every operator that makes a new document of an old one, and parts
that tie invoices and export batches to documents. It says more than is checked.
`MatchIsCurrent` holds because whoever changes lines does so while there is no
invoice, and what may change behind an invoice, statuses and approved amounts,
is nothing a match looks at (`SameFieldsSameComparison`). A document came from a
quote if and only if it has a commitment, whatever its status: only so does a
direct document never reach the handlers that copy totals from an offer.
`ExportsBelong` carries the single export: until its commitment is cancelled, a
document that is not EXPORTED or REVERSED has no export batch, and there are
never two. Only cancelling a commitment leads back from there, which is the first
finding.

`DocumentsAreRecords` shows, action by action, that a step of a direct document
is one of `FinancialRecord` or leaves it alone; an awarded document has no record,
and a document that is deleted leaves one that is fresh again.
`ExecutionImplementsDocuments` and `ExecutionImplementsLedger` show that the
composition does what each of its two halves does alone, so that the theorems
about documents, and those about the ledger where `Draws` have its types, hold in
the composition. The second needs `ExecutionInv`: the status of an awarded
document only moves as `DocumentMoves` lets it, because such a document is never
deleted, and by a `CancelCommitment` only together with the commitment
(`AloneMoves`).

`DatabaseServiceProofs` proves, for every set of sessions and every number of
rows and calls, rewriting reads included, that the service implements
`AtomicStore` (`CallsAreAtomic`). The invariant `ServiceInv` is the type invariant,
`SessionsAreTidy` (an idle session remembers nothing, a waiting one has loaded
nothing, a read has nothing to change), `MutationViewCurrent` and
`NothingInvented` (no row, in the database or in a copy, shows more effects than
were applied to it). `MutationViewCurrent` is the heart: a running mutation holds
the lock, so nobody but a rewriting read can overtake it, and what a session has
loaded is current as long as nobody has. Hence a commit that has not crossed a
rewriting read, whichever rows it writes back without need, has the effect of
`Apply` on the rows its method changes (`CommitIsApply`); one that has is an
`Overwrite`, and by `NothingInvented` loses effects at worst; every other step
leaves the rows alone. The second finding is such an `Overwrite`.

`PricingCatalogProofs` proves all properties of `catalog`, the action property
included, for every set of codes, every form of books, templates and contracts
and all bounds, from `CatalogConstants` (forms are of the types the request
models validate). The invariant `CatalogInv` strengthens what is checked in three
places. In a table, a version's number is at most its id (`TableInv`): it bounds
the numbers of a family, so that there is a highest one and the next is free
(`GreatestOfBounded`, `NextNumberIsFree`). A released contract depends on no draft
(`ReleasedIsFirm`): drafts are what edits and publications change, so only a
retirement reaches it (`DependenciesKept`, `PriceListKept`). What it says of prices
is about the terms of the release, which do not change, and not about the terms
as they are, which may change and change back; `SameTermsSamePrices` leads from
one to the other. And an opened version
is older than its row, by the lock version, or has its content
(`WorkspaceSound`). What a step may do to a table is stated once (`Evolves`) and
proved for appending, editing and publishing over any table; books and templates
are its two instances, and whatever lets both tables evolve keeps the rest
(`VersionStepKeepsInv`).

`MasterDataProofs` proves all properties of
`component_catalogue`, from `ProfileConstants` and `CatalogueConstants`. The
argument turns on the pointer `published_version_id`: it always leads to a
version of the profile that is in force, and it is never taken away
(`PointersLead`, `Evolves`). So what was given a profile with a version in force,
an assignment or a component's date, finds one for ever; and since versions in
force are unique (`OneInForce`), pointer and highest number find the same. What
any step may do to the tables is stated once (`Evolves`, with `RowKept` for a
version), and assignments, opened versions and components follow from it.
`CatalogueImplementsProfiles` shows that the composition implements `ProfileSpec`,
so that the theorems about profiles hold in it as they stand. `LinksFit` says of
a row more than is checked: it is stored with a component of everybody, and those
have unique codes, so that the code it was loaded with finds that component or,
after a renaming, none.

It also proves all properties of `reference_data` and the type
invariant with its unique keys. `Serial` is the heart: as long as no call has been
overtaken and committed, what is written can be read (`Readable`), and it still
can be after each call that has not been overtaken writes what it is about to.
An active mapping adds that the structures it was saved by are those of the
dimensions it has (`NormalFormsStored`), which is what makes its dimensions count
as used. A commit makes
the others overtaken, so nothing is claimed of them. That rates of later dates
leave conversions alone follows because candidates up to a date are the same
rows before and after (`EarlierConversionsAreKept`); that the latest exists is
`GreatestExists` of `FiniteSums`.

`QuoteLifecycleProofs` proves all properties of `lifecycle` from
`LifecycleConstants`. `ReferencesFit` says what an option shares with its offer:
an edit of an offer can only touch options of the same, unawarded quote, and an
award of an option is an award of the offer's terms. Each part of the invariant
has a lemma for the steps that do not concern it (`NumbersKept`, `AwardsKept`,
`RankingKept`); rating and ranking share one (`QuotePriced`). That ranks are
distinct and in order is a fact about counting: the options before one are a
proper subset of those before a later one, so they are fewer (`RanksOf`, with
`RankingOrder`: the order of the sort is strict and total).

`RatingProofs` proves the five properties of `rating` for every catalogue, quote,
request, tariff and set of rules, from `RatingConstants`. The answer is
what the operations compute (`RatingAnswers`); everything else is about the
operators, and needs what `FiniteSums` proves of folds: a fold over a list has a
trace (`FoldTrace`), the value after each of its elements, so that an invariant of
the steps holds at the end, shown by the first place where it would not.

* `BestEntryWins`: the `CHOOSE` behind `min` finds something, because the order of
  entries is strict and total and a finite set has a first element of it
  (`FirstExists`, `BestEntryIsFirst`); and a line keeps the entry, the component
  and the date it was found with to the end of the rating.
* `PercentagesAreOfSteps`: `ChargedSoFar` says of every value of the fold over a
  contract's lines that its subtotals are the sums of the lines charged that
  accumulate (`SubtotalsOf`), and that each percentage among them was of the sum
  before it. Appending a line leaves the lines before it as they are
  (`PercentagesStay`, `SubtotalsAppended`). It was in proving this that the property
  had to be made exact: the bounds of a percentage are its profile's, if it has
  one.
* `MarginIsKept`: the price is the cost and the margin line, rounded
  (`LineTotalAppended`, `MoneyOfHundredths`); it holds for negative costs and
  margins too, and for a minimum that is negative.
* `AllocationsComplete`: what rounding down leaves is as many units as the
  fractions sum up to, and no more than there are targets that lost something.
  The first so many of a strict order are exactly so many (`FirstElements`), so all
  units are given, and none to a target that lost nothing (`UnitsGiven`). That a
  larger driver never gets less then is arithmetic of two shares (`LargerPart`).
* `DaysAreChargedOnce`: the operators see a tariff as sorted bands, the property as
  days. In a strict order every element has its own number of predecessors (`Ranks`),
  so that `ByStart`, which puts each band at the place of its rank, is a permutation
  in the order of the first days (`SortedByStart`), and prices the days as the bands
  did before (`SortingPrices`). Sorted bands follow on from one another if and only if
  no day is priced twice and none left out before a priced one: both can only go
  wrong at the start of a band (`FollowOnPricesOnce`, `OncePricedFollowsOn`). The sum
  over bands is the sum over days because each day is one more in the band that prices
  it and in no other (`BilledDayByDay`, `DaysSum`, by the first day at which the sums
  would differ).

Model-checked only: liveness (`MutationsEnd`), which is out of the proof system's
reach, as is `ENABLED`. What a recursive definition computes is proved where its
values are an invariant of a trace (`FoldTrace`), and through a smallest
counterexample elsewhere, as the induction theorems cannot be used. The runs
`exported_once`, `lost_update` and `pinned_contracts` show violations.

## Not modelled

Routes, authentication, readiness, seeds, migrations, scripts, the generated
OpenAPI file and the Flutter client keep no state of their own or only do I/O.
The in-memory repository differs from the modelled one by not rolling back
(an update that sets a status and then refuses the lines leaves the status);
it serves tests.

Of modelled components these parts are left out. Of the repository: id
sequences, the reset of an empty database (`sqlalchemy_repository.py:301`) and,
except where a module says what is lost, the mapping of rows to columns. Of
pricing: the calculation of the lines of a charge document, which takes dates and
profiles as a quote does but falls back otherwise, the snapshots kept for audit,
and matching criteria of commitments. Of dimensions: how a value is
written, and paths into the attributes of callers.

## Plan

What would come next, in this order:

1. **Document lines**: `_charge_lines_from_payloads` with its contexts, beside
   `Rating`, and whether a document charges what its quote did.
2. **Composition**: `QuoteLifecycle` with `QuoteExecution`, so that an award is
   one step of both.
3. **Persistence**: id sequences, reset on an empty database, settings.
