---------------------------- MODULE ReferenceData ----------------------------
(***************************************************************************)
(* Reference data: pricing dimensions, the caller mappings onto them       *)
(* (app/domain/dimension_service.py), and exchange rates with their        *)
(* sources (app/domain/fx_service.py).                                     *)
(*                                                                         *)
(* These calls do not take the lock of the transactional service.  A call  *)
(* reads and checks, and only later writes and commits: other calls commit *)
(* in between.  What it writes are the columns it has changed; all that    *)
(* stops it by then are the unique indexes.  Rate books and quotes are     *)
(* checked against the dimensions in the same way before the transactional *)
(* service stores them (app/api/v1/charge_management.py).                  *)
(***************************************************************************)
EXTENDS OptionalValues, Integers, Sequences, FiniteSetsExt

CONSTANTS
    Sessions,           \* calls that run at the same time
    SystemCode,         \* the built-in dimension
    DimensionCodes,     \* codes of dimensions, SystemCode among them
    Structures,         \* data type, allowed values and case sensitivity
    DataType,           \* structure -> its data type
    Values,             \* values of dimensions, however written
    Normalized,         \* structure and value -> the value as stored, if valid
    MappingCodes,       \* codes of caller mapping profiles
    Sources,            \* codes of sources of exchange rates
    Pairs,              \* currency pairs
    Dates, Rates,       \* dates and rates of exchange
    MaxCalls            \* bound: area -> calls

\* Dimensions and exchange rates share no rows: what calls about the one do to
\* the other is nothing, and a behaviour is about one of them.
Areas == {"dimensions", "rates"}

ASSUME ReferenceConstants ==
    /\ SystemCode \in DimensionCodes
    /\ Normalized \in [Structures \X Values -> Values \cup {NoValue}]
    /\ Dates \subseteq Nat /\ MaxCalls \in [Areas -> Nat]

VARIABLES
    tables,         \* table -> its committed rows, an id is a position
    pending,        \* session -> what it is about to write
    overtaken,      \* history: sessions another one has committed beside
    overlapped,     \* history: an overtaken session has committed
    calls,          \* history: calls so far
    area            \* bound: what the calls are about

referenceVars == <<tables, pending, overtaken, overlapped, calls, area>>

DimensionType == [code : DimensionCodes, structure : Structures, active : BOOLEAN]

\* Dimensions with the structure values of them are written in.
Uses == SUBSET (DimensionCodes \X Structures)

\* Values of dimensions, by code.  An attribute that is passed on as the caller
\* sends it has none of its own: that is like one all structures leave alone.
DimensionValues == SUBSET (DimensionCodes \X Values)

\* mappings: defaults and mapped values.  structures, a history: what they were
\* normalized by when the active mapping was last saved.
MappingType ==
    [code : MappingCodes, mappings : DimensionValues, structures : Uses, active : BOOLEAN]

\* dimensions: what the values of the rows of a rate book are written in.
BookType == [dimensions : Uses]

\* mappings, a history: those of the mapping when the quote was read by it.
QuoteType == [mapping : MappingCodes \cup {NoValue}, mappings : DimensionValues]

SourceType == [code : Sources, active : BOOLEAN]

\* One rate type and one conversion method; all sources of one priority.
RateType == [source : Nat, pair : Pairs, date : Dates, rate : Rates, active : BOOLEAN]

TableTypes ==
    [dimensions : Seq(DimensionType), mappings : Seq(MappingType), books : Seq(BookType),
     quotes : Seq(QuoteType), sources : Seq(SourceType), rates : Seq(RateType)]

(***************************************************************************)
(* Reading and writing                                                     *)
(***************************************************************************)

RowsOf(table) == {tables[table][i] : i \in DOMAIN tables[table]}

\* What the unique indexes of a table compare.
Key(table, row) ==
    CASE table \in {"dimensions", "mappings", "sources"} -> row.code
      [] table = "rates" -> <<row.source, row.pair, row.date>>
      [] OTHER -> NoValue

\* uq_charge_pricing_dimension_code, uq_charge_caller_mapping_profile_code,
\* uq_charge_fx_rate_source_code, uq_charge_fx_rate_natural; also what the
\* duplicate queries of the calls ask beforehand.
Admitted(table, id, row) ==
    Key(table, row) # NoValue =>
        \A other \in DOMAIN tables[table] \ {id} :
            Key(table, tables[table][other]) # Key(table, row)

\* Only columns that a call has changed are written.
Merged(current, old, new) ==
    [column \in DOMAIN new |-> IF new[column] = old[column] THEN current[column] ELSE new[column]]

\* A session makes one call after the other.
Idle(s) == pending[s] = NoValue /\ calls < MaxCalls[area]

\* A call has passed its checks and changes something; id 0 is a new row.
Ready(s, table, id, row) ==
    /\ id # 0 => row # tables[table][id]
    /\ Admitted(table, id, row)
    /\ pending' = [pending EXCEPT ![s] =
            [table |-> table, id |-> id, new |-> row,
             old |-> IF id = 0 THEN row ELSE tables[table][id]]]
    /\ calls' = calls + 1
    /\ UNCHANGED <<tables, overtaken, overlapped, area>>

Written(p) ==
    IF p.id = 0 THEN Append(tables[p.table], p.new)
    ELSE [tables[p.table] EXCEPT ![p.id] = Merged(@, p.old, p.new)]

Fits(p) ==
    LET id == IF p.id = 0 THEN Len(tables[p.table]) + 1 ELSE p.id
    IN  Admitted(p.table, id, Written(p)[id])

\* The commit at the end of the request.
Commit(s) ==
    /\ pending[s] # NoValue
    /\ Fits(pending[s])
    /\ tables' = [tables EXCEPT ![pending[s].table] = Written(pending[s])]
    /\ pending' = [pending EXCEPT ![s] = NoValue]
    /\ overtaken' = (overtaken \cup {t \in Sessions : pending[t] # NoValue}) \ {s}
    /\ overlapped' = (overlapped \/ s \in overtaken)
    /\ UNCHANGED <<calls, area>>

\* _flush_unique: refused by an index.  A call that fails for another reason
\* leaves everything as if it had never been made.
Rollback(s) ==
    /\ pending[s] # NoValue
    /\ ~Fits(pending[s])
    /\ pending' = [pending EXCEPT ![s] = NoValue]
    /\ overtaken' = overtaken \ {s}
    /\ UNCHANGED <<tables, overlapped, calls, area>>

(***************************************************************************)
(* Pricing dimensions and caller mappings                                  *)
(***************************************************************************)

\* _dimension_rows_by_code
ActiveDimensions == {d \in RowsOf("dimensions") : d.active}

ActiveCodes == {d.code : d \in ActiveDimensions}

\* What values of these dimensions are normalized by.
InStructure(codes) ==
    {<<d.code, d.structure>> : d \in {d \in ActiveDimensions : d.code \in codes}}

CodesOf(pairs) == {pair[1] : pair \in pairs}

\* _normalize_value, by the active dimension of that code.
NormalForm(code, value) ==
    Normalized[(CHOOSE d \in ActiveDimensions : d.code = code).structure, value]

Valid(given) ==
    \A v \in given : v[1] \in ActiveCodes /\ NormalForm(v[1], v[2]) # NoValue

NormalForms(given) == {<<v[1], NormalForm(v[1], v[2])>> : v \in given}

\* Mutated form of InUse: mappings are not looked at.
InUseByBooks(code) == \E b \in RowsOf("books") : code \in CodesOf(b.dimensions)

\* _dimension_in_use
InUse(code) ==
    \/ \E b \in RowsOf("books") : code \in CodesOf(b.dimensions)
    \/ \E m \in RowsOf("mappings") : m.active /\ code \in CodesOf(m.mappings)

\* Mutated form of MappingInUse: it is not asked.
MappingNeverInUse(code) == FALSE

\* _profile_in_use
MappingInUse(code) == \E q \in RowsOf("quotes") : q.mapping = code

CreateDimension(s, code, structure, active) ==
    Ready(s, "dimensions", 0, [code |-> code, structure |-> structure, active |-> active])

\* A dimension that is not in use can be deactivated here, a built-in one too.
UpdateDimension(s, d, code, structure, active) ==
    LET row == tables.dimensions[d]
        new == [code |-> code, structure |-> structure, active |-> active]
    IN  /\ row.code = SystemCode =>
            code = SystemCode /\ DataType[structure] = DataType[row.structure]
        /\ InUse(row.code) => code = row.code /\ structure = row.structure /\ active
        /\ Ready(s, "dimensions", d, new)

DeactivateDimension(s, d) ==
    LET row == tables.dimensions[d]
    IN  /\ row.code # SystemCode
        /\ ~InUse(row.code)
        /\ Ready(s, "dimensions", d, [row EXCEPT !.active = FALSE])

\* _profile_values: what is given is stored as the dimensions normalize it.
MappingFits(given, active) == Valid(given) /\ (active => given # {})

MappingRow(code, given, active) ==
    [code |-> code, mappings |-> NormalForms(given), active |-> active,
     structures |-> IF active THEN InStructure(CodesOf(given)) ELSE {}]

CreateMapping(s, code, given, active) ==
    /\ MappingFits(given, active)
    /\ Ready(s, "mappings", 0, MappingRow(code, given, active))

\* In use or not, a mapping can be switched off and on.  Its dimensions may have
\* other structures by then, if its own values are stored the same by them.
UpdateMapping(s, m, code, given, active) ==
    LET row == tables.mappings[m]
    IN  /\ MappingFits(given, active)
        /\ MappingInUse(row.code) => code = row.code /\ NormalForms(given) = row.mappings
        /\ Ready(s, "mappings", m, MappingRow(code, given, active))

\* Also when it is in use.
DeactivateMapping(s, m) ==
    Ready(s, "mappings", m, [tables.mappings[m] EXCEPT !.active = FALSE, !.structures = {}])

\* normalize_rate_book_payload before create_rate_book, create_rate_book_version
\* and update_rate_book_workspace: built-in dimensions are matched by fields.
SaveBook(s, b, codes) ==
    /\ codes \subseteq ActiveCodes \ {SystemCode}
    /\ Ready(s, "books", b, [dimensions |-> InStructure(codes)])

\* normalize_quote_payload before create_quote_request and
\* update_quote_request_workspace.
SaveQuote(s, q, mapping) ==
    /\ mapping.active
    /\ CodesOf(mapping.mappings) \subseteq ActiveCodes
    /\ Ready(s, "quotes", q, [mapping |-> mapping.code, mappings |-> mapping.mappings])

\* A quote with its dimensions given directly; the values are left out.
SavePlainQuote(s, q) ==
    Ready(s, "quotes", q, [mapping |-> NoValue, mappings |-> {}])

DimensionStep(s) ==
    \/ \E code \in DimensionCodes, structure \in Structures, active \in BOOLEAN :
        \/ CreateDimension(s, code, structure, active)
        \/ \E d \in DOMAIN tables.dimensions : UpdateDimension(s, d, code, structure, active)
    \/ \E d \in DOMAIN tables.dimensions : DeactivateDimension(s, d)
    \/ \E m \in DOMAIN tables.mappings : DeactivateMapping(s, m)
    \/ \E code \in MappingCodes, given \in DimensionValues, active \in BOOLEAN :
        \/ CreateMapping(s, code, given, active)
        \/ \E m \in DOMAIN tables.mappings : UpdateMapping(s, m, code, given, active)
    \/ \E b \in {0} \cup DOMAIN tables.books, codes \in SUBSET DimensionCodes :
        SaveBook(s, b, codes)
    \/ \E q \in {0} \cup DOMAIN tables.quotes :
        SavePlainQuote(s, q) \/ \E mapping \in RowsOf("mappings") : SaveQuote(s, q, mapping)

(***************************************************************************)
(* Exchange rates                                                          *)
(***************************************************************************)

CreateSource(s, code, active) == Ready(s, "sources", 0, [code |-> code, active |-> active])

UpdateSource(s, i, code, active) == Ready(s, "sources", i, [code |-> code, active |-> active])

DeactivateSource(s, i) == Ready(s, "sources", i, [tables.sources[i] EXCEPT !.active = FALSE])

\* An inactive rate keeps its pair and date taken.
CreateRate(s, rate) ==
    /\ tables.sources[rate.source].active
    /\ Ready(s, "rates", 0, rate)

UpdateRate(s, r, rate) ==
    /\ rate.active => tables.sources[rate.source].active
    /\ Ready(s, "rates", r, rate)

DeactivateRate(s, r) == Ready(s, "rates", r, [tables.rates[r] EXCEPT !.active = FALSE])

RateStep(s) ==
    \/ \E code \in Sources, active \in BOOLEAN :
        \/ CreateSource(s, code, active)
        \/ \E i \in DOMAIN tables.sources : UpdateSource(s, i, code, active)
    \/ \E i \in DOMAIN tables.sources : DeactivateSource(s, i)
    \/ \E r \in DOMAIN tables.rates : DeactivateRate(s, r)
    \/ \E rate \in [source : DOMAIN tables.sources, pair : Pairs, date : Dates, rate : Rates,
                    active : BOOLEAN] :
        \/ CreateRate(s, rate)
        \/ \E r \in DOMAIN tables.rates : UpdateRate(s, r, rate)

\* Mutated form of Candidates: rates of later dates count as well.
CandidatesOfAnyDate(rates, sources, pair, date) ==
    {r \in DOMAIN rates :
        rates[r].active /\ sources[rates[r].source].active /\ rates[r].pair = pair}

\* _resolve_row with allow_prior_date, any source.
Candidates(rates, sources, pair, date) ==
    {r \in DOMAIN rates :
        /\ rates[r].active /\ sources[rates[r].source].active
        /\ rates[r].pair = pair /\ rates[r].date <= date}

\* The latest date, then the latest row.
Chosen(rates, rs) ==
    CHOOSE r \in rs : \A other \in rs :
        rates[other].date < rates[r].date \/ (rates[other].date = rates[r].date /\ other <= r)

\* resolve: the pair's own rate, or one of the reverse pair to divide by.
Resolution(rates, sources, pair, date) ==
    LET direct == Candidates(rates, sources, pair, date)
        reverse == Candidates(rates, sources, <<pair[2], pair[1]>>, date)
    IN  IF direct # {} THEN [rate |-> rates[Chosen(rates, direct)].rate, inverse |-> FALSE]
        ELSE IF reverse # {} THEN [rate |-> rates[Chosen(rates, reverse)].rate, inverse |-> TRUE]
        ELSE NoValue

(***************************************************************************)
(* The specification                                                       *)
(***************************************************************************)

\* seed_system_dimensions, and the source that a reset creates.
ReferenceInit ==
    /\ \E structure \in Structures, source \in Sources :
        tables = [dimensions |-> <<[code |-> SystemCode, structure |-> structure,
                                    active |-> TRUE]>>,
                  sources |-> <<[code |-> source, active |-> TRUE]>>,
                  mappings |-> << >>, books |-> << >>, quotes |-> << >>, rates |-> << >>]
    /\ pending = [s \in Sessions |-> NoValue]
    /\ overtaken = {} /\ overlapped = FALSE /\ calls = 0
    /\ area \in Areas

ReferenceNext ==
    \E s \in Sessions :
        \/ Idle(s) /\ area = "dimensions" /\ DimensionStep(s)
        \/ Idle(s) /\ area = "rates" /\ RateStep(s)
        \/ Commit(s)
        \/ Rollback(s)

ReferenceSpec == ReferenceInit /\ [][ReferenceNext]_referenceVars

(***************************************************************************)
(* Properties                                                              *)
(***************************************************************************)

\* Rows are of their types, rates have a source, and no two rows of a table
\* share a code, or source, pair and date, although calls that ask for the same
\* one overlap (_flush_unique, app/db/models.py).
ReferenceTypeOK ==
    /\ tables \in TableTypes
    /\ \A r \in RowsOf("rates") : r.source \in DOMAIN tables.sources
    /\ \A table \in DOMAIN tables : \A i, j \in DOMAIN tables[table] :
        /\ Key(table, tables[table][i]) = Key(table, tables[table][j])
        /\ Key(table, tables[table][i]) # NoValue
        => i = j

InForceAs(uses) == uses \subseteq InStructure(DimensionCodes)

\* Unless calls have overlapped, the dimensions of every rate book and every
\* active mapping are active and normalize as they did when it was saved:
\* whatever is renamed, restructured, or switched off and on again
\* (docs/caller-attribute-mapping.md:134, _dimension_in_use).
UsedDimensionsKept ==
    ~overlapped =>
        /\ \A b \in RowsOf("books") : InForceAs(b.dimensions)
        /\ \A m \in RowsOf("mappings") : m.active =>
            CodesOf(m.mappings) \subseteq ActiveCodes /\ InForceAs(m.structures)

\* Unless calls have overlapped, the mapping a quote names is still there, and
\* still has the dimensions and the values of its own that the quote was read
\* by, although it may have been switched off, its dimensions restructured, and
\* then on again.  What it passes on as the caller sends it is then normalized
\* as the dimension is now (update_profile, _profile_in_use).
QuoteMappingsKept ==
    ~overlapped =>
        \A q \in RowsOf("quotes") : q.mapping # NoValue =>
            \E m \in RowsOf("mappings") : m.code = q.mapping /\ m.mappings = q.mappings

\* Whether the rates before and after a step are the same up to a date.
SameUpTo(date) ==
    \A r \in DOMAIN tables.rates \cup DOMAIN tables'.rates :
        \/ r \in DOMAIN tables.rates /\ r \in DOMAIN tables'.rates
            /\ tables.rates[r] = tables'.rates[r]
        \/ /\ r \in DOMAIN tables.rates => tables.rates[r].date > date
           /\ r \in DOMAIN tables'.rates => tables'.rates[r].date > date

\* Entering, changing or deactivating rates of later dates leaves every
\* conversion of an earlier date as it was, direct or by the reverse pair
\* (resolve, _resolve_row, _resolve_fx).
EarlierConversionsKept ==
    [][\A pair \in Pairs, date \in Dates :
        tables'.sources = tables.sources /\ SameUpTo(date)
        => Resolution(tables'.rates, tables'.sources, pair, date)
            = Resolution(tables.rates, tables.sources, pair, date)]_referenceVars

=============================================================================
