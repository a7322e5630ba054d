--------------------------- MODULE PricingCatalog ---------------------------
(***************************************************************************)
(* The catalogue prices come from (app/domain/service.py): rate books and  *)
(* calculation templates, which exist in numbered versions that are        *)
(* drafted, published and retired, and rate contracts, which refer to      *)
(* versions by id, are released, and from then on price quotes.            *)
(*                                                                         *)
(* Every operation is one transaction and one action; refusals and repeats *)
(* that change nothing have none.  Ids are handed out in order and nothing *)
(* is ever deleted, so a table is a sequence and an id a position in it.   *)
(*                                                                         *)
(* There is one charge component, which keeps its code, and one quote,     *)
(* which every line, route and rate entry that is active applies to.  The  *)
(* quote has a service date and the books' currency, so that neither       *)
(* business dates nor exchange rates come into its prices.  A book's price *)
(* stands for the rate of its best entry; what is charged also depends on  *)
(* the basis and the calculation profile the rate is applied with.         *)
(***************************************************************************)
EXTENDS OptionalValues, Integers, Sequences, FiniteSetsExt

CONSTANTS
    BookCodes, TemplateCodes,                   \* codes of version families
    Profiles,                                   \* the calculation profiles
    Bases,                                      \* what a rate can be per
    BookForms, TemplateForms, ContractForms, ComponentForms,    \* what requests fill in
    MaxVersions, MaxContracts,                  \* bounds: rows ever created
    MaxEdited                                   \* bound: lock version up to which a draft is edited

\* price, basis, profile: those of the entry; the price is None for a book without
\* entries, and a basis or a profile that is None is the component's.
BookForm == [price : Nat \cup {NoValue}, basis : Bases \cup {NoValue},
             profile : Profiles \cup {NoValue}, active : BOOLEAN]

\* steps: the book each step pins; None for one that uses the contract's.
TemplateForm == [steps : SUBSET (Nat \cup {NoValue}), active : BOOLEAN]

\* profile: the calculation profile that goes before the entry's.
LineForm == [book : Nat \cup {NoValue}, template : Nat \cup {NoValue},
             profile : Profiles \cup {NoValue}]

\* book, template: the defaults; routes: the templates of conditional routes.
ContractForm == [book : Nat \cup {NoValue}, template : Nat \cup {NoValue},
                 routes : SUBSET Nat, lines : SUBSET LineForm]

\* calculation_basis, default_calculation_profile_id
ComponentForm == [basis : Bases, profile : Profiles \cup {NoValue}]

ASSUME CatalogConstants ==
    /\ BookForms \subseteq BookForm
    /\ TemplateForms \subseteq TemplateForm
    /\ ContractForms \subseteq ContractForm
    /\ ComponentForms \subseteq ComponentForm
    /\ MaxVersions \in Nat /\ MaxContracts \in Nat /\ MaxEdited \in Nat
    /\ NoValue \notin Nat /\ NoValue \notin Profiles /\ NoValue \notin Bases

VARIABLES
    books,          \* the rate book versions
    templates,      \* the calculation template versions
    contracts,      \* the contracts
    workspace,      \* a version somebody has opened to edit it
    terms,          \* the component, and the profiles that have a published version
    priced          \* history: contract -> the terms it was released under, and
                    \* what it charged then

catalogVars == <<books, templates, contracts, workspace, terms, priced>>

VersionType(codes, forms) ==
    [code : codes, number : Nat \ {0}, status : {"DRAFT", "PUBLISHED", "RETIRED"},
     lock : Nat \ {0}, form : forms]

TermsType == [component : ComponentForms, published : SUBSET Profiles]

ContractType == [status : {"DRAFT", "RELEASED"}, form : ContractForms]

(***************************************************************************)
(* Versions, the same for books and templates: rows is either table        *)
(***************************************************************************)

Family(rows, code) == {i \in DOMAIN rows : rows[i].code = code}

\* uq_charge_rate_book_code_version, uq_charge_calculation_template_code_version
NumberFree(rows, code, number) == \A i \in Family(rows, code) : rows[i].number # number

NextNumber(rows, i) == Max({rows[j].number : j \in Family(rows, rows[i].code)}) + 1

NewVersion(code, number, form) ==
    [code |-> code, number |-> number, status |-> "DRAFT", lock |-> 1, form |-> form]

\* Mutated form of Editable: retired versions can be edited.
EditableUnlessPublished(row, expected) ==
    row.status # "PUBLISHED" /\ expected \in {NoValue, row.lock}

\* expected_lock_version may be left out.
Editable(row, expected) ==
    row.status = "DRAFT" /\ expected \in {NoValue, row.lock}

\* Mutated form of Edited: the lock version stays.
EditedInPlace(row, code, form) == [row EXCEPT !.code = code, !.form = form]

Edited(row, code, form) ==
    [row EXCEPT !.code = code, !.form = form, !.lock = @ + 1]

PutInForce(row) == [row EXCEPT !.status = "PUBLISHED", !.lock = @ + 1]

\* Mutated form of Published: the version in force is not retired.
PublishedBeside(rows, i) == [rows EXCEPT ![i] = PutInForce(@)]

Published(rows, i) ==
    [j \in DOMAIN rows |->
        IF j = i THEN PutInForce(rows[j])
        ELSE IF rows[j].code = rows[i].code /\ rows[j].status = "PUBLISHED"
        THEN [rows[j] EXCEPT !.status = "RETIRED"]
        ELSE rows[j]]

InForce(row) == row.status = "PUBLISHED" /\ row.form.active

(***************************************************************************)
(* What a contract refers to, and what it prices                           *)
(***************************************************************************)

TemplatesOf(f) ==
    ({f.template} \cup f.routes \cup {l.template : l \in f.lines}) \ {NoValue}

DirectBooks(f) == ({f.book} \cup {l.book : l \in f.lines}) \ {NoValue}

PinnedBooks(f) ==
    DirectBooks(f) \cup ((UNION {templates[t].form.steps : t \in TemplatesOf(f)}) \ {NoValue})

OrElse(x, y) == IF x # NoValue THEN x ELSE y

\* _expand_contract_template: a line for each of a template's steps, with the
\* profile of the line it stands for; a template that is not in force has none.
Expanded(t, book, profile) ==
    {[book |-> OrElse(step, book), profile |-> profile] :
        step \in IF InForce(templates[t]) THEN templates[t].form.steps ELSE {}}

\* The lines _rate_contract prices when it takes this route, with the book each
\* looks its rate up in, None for none, and its own profile.  With routes, or
\* without lines, one template prices the whole contract.
RatedLines(f, route) ==
    LET template == OrElse(route, f.template)
    IN  IF f.routes # {} \/ f.lines = {}
        THEN IF template = NoValue THEN {} ELSE Expanded(template, f.book, NoValue)
        ELSE UNION {LET t == OrElse(l.template, f.template)
                        book == OrElse(l.book, f.book)
                    IN  IF t = NoValue THEN {[book |-> book, profile |-> l.profile]}
                        ELSE Expanded(t, book, l.profile) : l \in f.lines}

\* The profile a rate is to be applied with: the line's, else the entry's, else
\* the component's.
ProfileNamed(line, entry, under) ==
    OrElse(line.profile, OrElse(entry.profile, under.component.profile))

\* It is applied with its published version; without one there is no profile.
EffectiveProfile(line, entry, under) ==
    LET p == ProfileNamed(line, entry, under)
    IN  IF p \in under.published THEN p ELSE NoValue

\* _rate_entry_basis
EntryBasis(entry, under) == OrElse(entry.basis, under.component.basis)

\* Books that are missing, inactive or not published are passed over.
Charges(f, route, under) ==
    {[book |-> l.book, price |-> books[l.book].form.price,
      basis |-> EntryBasis(books[l.book].form, under),
      profile |-> EffectiveProfile(l, books[l.book].form, under)] :
        l \in {l \in RatedLines(f, route) :
                /\ l.book # NoValue
                /\ InForce(books[l.book]) /\ books[l.book].form.price # NoValue}}

\* What the contract charges on each of its routes, or on none of them.
PriceList(f, under) == [route \in f.routes \cup {NoValue} |-> Charges(f, route, under)]

\* Mutated form of Exist: the lines are not looked at.
ExistInHeader(f) ==
    /\ {f.book} \ {NoValue} \subseteq DOMAIN books
    /\ ({f.template} \cup f.routes) \ {NoValue} \subseteq DOMAIN templates

\* _require_rate_book, _require_calculation_template
Exist(f) == DirectBooks(f) \subseteq DOMAIN books /\ TemplatesOf(f) \subseteq DOMAIN templates

HasRateSource(f) ==
    \/ f.template # NoValue
    \/ f.routes # {}
    \/ \E l \in f.lines : OrElse(l.book, OrElse(l.template, f.book)) # NoValue

\* Mutated form of Releasable: the books are not looked at.
ReleasableByTemplates(f) ==
    HasRateSource(f) /\ \A t \in TemplatesOf(f) : InForce(templates[t])

Releasable(f) ==
    /\ HasRateSource(f)
    /\ \A t \in TemplatesOf(f) : InForce(templates[t])
    /\ \A b \in PinnedBooks(f) : InForce(books[b])

(***************************************************************************)
(* Type invariant: every reference leads somewhere                         *)
(***************************************************************************)

\* None, or the table, the id and the version as it was when it was opened.
IsWorkspace(w) ==
    w # NoValue =>
        \/ /\ w.table = "books" /\ w.id \in DOMAIN books
           /\ w.version \in VersionType(BookCodes, BookForms)
        \/ /\ w.table = "templates" /\ w.id \in DOMAIN templates
           /\ w.version \in VersionType(TemplateCodes, TemplateForms)

\* Versions and contracts are records of their type, a template's steps and a
\* contract's lines, routes and defaults refer to rows that exist, and only a
\* version with content is published (the foreign keys of app/db/models.py).
CatalogTypeOK ==
    /\ books \in Seq(VersionType(BookCodes, BookForms))
    /\ templates \in Seq(VersionType(TemplateCodes, TemplateForms))
    /\ \A b \in DOMAIN books : books[b].status # "DRAFT" => books[b].form.price # NoValue
    /\ \A t \in DOMAIN templates :
        /\ templates[t].form.steps \ {NoValue} \subseteq DOMAIN books
        /\ templates[t].status # "DRAFT" => templates[t].form.steps # {}
    /\ contracts \in Seq(ContractType)
    /\ \A c \in DOMAIN contracts :
        /\ DirectBooks(contracts[c].form) \subseteq DOMAIN books
        /\ TemplatesOf(contracts[c].form) \subseteq DOMAIN templates
    /\ IsWorkspace(workspace)
    /\ terms \in TermsType
    /\ Len(contracts) <= MaxContracts /\ DOMAIN priced = 1 .. MaxContracts

(***************************************************************************)
(* Rate books                                                              *)
(***************************************************************************)

CatalogInit ==
    /\ books = << >> /\ templates = << >> /\ contracts = << >>
    /\ workspace = NoValue
    /\ terms \in [component : ComponentForms, published : {{}}]
    /\ priced = [c \in 1 .. MaxContracts |-> NoValue]

RoomForVersion == Len(books) + Len(templates) < MaxVersions

\* Whether the code is taken is asked of the code as typed; blanks around it
\* are stripped later and get past the question, but not past the unique index.
CreateBook(code, form) ==
    /\ RoomForVersion
    /\ NumberFree(books, code, 1)
    /\ books' = Append(books, NewVersion(code, 1, form))
    /\ UNCHANGED <<templates, contracts, workspace, terms, priced>>

CreateBookVersion(b, form) ==
    /\ RoomForVersion
    /\ books' = Append(books, NewVersion(books[b].code, NextNumber(books, b), form))
    /\ UNCHANGED <<templates, contracts, workspace, terms, priced>>

\* A draft may move to another code; the code as typed is looked up here too.
UpdateBook(b, code, form, expected) ==
    /\ Editable(books[b], expected) /\ books[b].lock < MaxEdited
    /\ code # books[b].code => NumberFree(books, code, books[b].number)
    /\ books' = [books EXCEPT ![b] = Edited(@, code, form)]
    /\ UNCHANGED <<templates, contracts, workspace, terms, priced>>

PublishBook(b) ==
    /\ books[b].status = "DRAFT"
    /\ books[b].form.price # NoValue
    /\ books' = Published(books, b)
    /\ UNCHANGED <<templates, contracts, workspace, terms, priced>>

(***************************************************************************)
(* Calculation templates                                                   *)
(***************************************************************************)

\* _template_steps_from_payload
StepsExist(form) == form.steps \ {NoValue} \subseteq DOMAIN books

CreateTemplate(code, form) ==
    /\ RoomForVersion
    /\ NumberFree(templates, code, 1)       \* as in CreateBook
    /\ StepsExist(form)
    /\ templates' = Append(templates, NewVersion(code, 1, form))
    /\ UNCHANGED <<books, contracts, workspace, terms, priced>>

CreateTemplateVersion(t, form) ==
    /\ RoomForVersion
    /\ StepsExist(form)
    /\ templates' =
        Append(templates, NewVersion(templates[t].code, NextNumber(templates, t), form))
    /\ UNCHANGED <<books, contracts, workspace, terms, priced>>

UpdateTemplate(t, code, form, expected) ==
    /\ Editable(templates[t], expected) /\ templates[t].lock < MaxEdited
    /\ code # templates[t].code => Family(templates, code) = {}
    /\ StepsExist(form)
    /\ templates' = [templates EXCEPT ![t] = Edited(@, code, form)]
    /\ UNCHANGED <<books, contracts, workspace, terms, priced>>

PublishTemplate(t) ==
    /\ templates[t].status = "DRAFT"
    /\ templates[t].form.steps # {}
    /\ \A b \in templates[t].form.steps \ {NoValue} : InForce(books[b])
    /\ templates' = Published(templates, t)
    /\ UNCHANGED <<books, contracts, workspace, terms, priced>>

(***************************************************************************)
(* Contracts                                                               *)
(***************************************************************************)

CreateContract(form) ==
    /\ Len(contracts) < MaxContracts
    /\ Exist(form)
    /\ contracts' = Append(contracts, [status |-> "DRAFT", form |-> form])
    /\ UNCHANGED <<books, templates, workspace, terms, priced>>

UpdateContract(c, form) ==
    /\ contracts[c].status = "DRAFT"
    /\ Exist(form)
    /\ contracts' = [contracts EXCEPT ![c].form = form]
    /\ UNCHANGED <<books, templates, workspace, terms, priced>>

\* Releasing a released contract only repeats the checks.
ReleaseContract(c) ==
    /\ contracts[c].status = "DRAFT"
    /\ Releasable(contracts[c].form)
    /\ contracts' = [contracts EXCEPT ![c].status = "RELEASED"]
    /\ priced' = [priced EXCEPT ![c] =
                    [terms |-> terms, list |-> PriceList(contracts[c].form, terms)]]
    /\ UNCHANGED <<books, templates, workspace, terms>>

(***************************************************************************)
(* The charge component and the calculation profiles                       *)
(***************************************************************************)

\* Neither handler looks at the contracts that charge by the component or the
\* profile.
UpdateComponent(form) ==
    /\ terms' = [terms EXCEPT !.component = form]
    /\ UNCHANGED <<books, templates, contracts, workspace, priced>>

\* publish_calculation_profile_version; a calculation profile never has a second
\* version, so that the published one is never replaced.
PublishProfile(p) ==
    /\ terms' = [terms EXCEPT !.published = @ \cup {p}]
    /\ UNCHANGED <<books, templates, contracts, workspace, priced>>

(***************************************************************************)
(* The specification                                                       *)
(***************************************************************************)

\* get_rate_book_workspace, get_calculation_template_workspace, as far as an
\* edit may follow.
OpenWorkspace(table, rows, i) ==
    /\ rows[i].status = "DRAFT"
    /\ workspace' = [table |-> table, id |-> i, version |-> rows[i]]
    /\ UNCHANGED <<books, templates, contracts, terms, priced>>

\* The lock version an editor sends: none, or that of the opened workspace.
ExpectedLocks(table, i) ==
    {NoValue} \cup IF workspace = NoValue THEN {}
                   ELSE IF workspace.table = table /\ workspace.id = i
                   THEN {workspace.version.lock} ELSE {}

BookStep ==
    \/ \E code \in BookCodes, form \in BookForms : CreateBook(code, form)
    \/ \E b \in DOMAIN books :
        \/ PublishBook(b)
        \/ OpenWorkspace("books", books, b)
        \/ \E form \in BookForms :
            \/ CreateBookVersion(b, form)
            \/ \E code \in BookCodes, expected \in ExpectedLocks("books", b) :
                UpdateBook(b, code, form, expected)

TemplateStep ==
    \/ \E code \in TemplateCodes, form \in TemplateForms : CreateTemplate(code, form)
    \/ \E t \in DOMAIN templates :
        \/ PublishTemplate(t)
        \/ OpenWorkspace("templates", templates, t)
        \/ \E form \in TemplateForms :
            \/ CreateTemplateVersion(t, form)
            \/ \E code \in TemplateCodes, expected \in ExpectedLocks("templates", t) :
                UpdateTemplate(t, code, form, expected)

ContractStep ==
    \/ \E form \in ContractForms : CreateContract(form)
    \/ \E c \in DOMAIN contracts :
        \/ ReleaseContract(c)
        \/ \E form \in ContractForms : UpdateContract(c, form)

TermsStep ==
    \/ \E form \in ComponentForms : UpdateComponent(form)
    \/ \E p \in Profiles : PublishProfile(p)

CatalogNext == BookStep \/ TemplateStep \/ ContractStep \/ TermsStep

CatalogSpec == CatalogInit /\ [][CatalogNext]_catalogVars

(***************************************************************************)
(* Properties                                                              *)
(***************************************************************************)

\* At most one version of a code is published at a time, whatever was drafted
\* from what, renamed and published in which order (publish_rate_book,
\* publish_calculation_template).
OneVersionInForce ==
    \A rows \in {books, templates} : \A i, j \in DOMAIN rows :
        /\ rows[i].code = rows[j].code
        /\ rows[i].status = "PUBLISHED" /\ rows[j].status = "PUBLISHED"
        => i = j

\* A code and a version number name one row, also when several drafts are
\* derived from one version or a draft moves to another code
\* (create_rate_book_version, update_rate_book_workspace).
VersionNumbersUnique ==
    \A rows \in {books, templates} : \A i, j \in DOMAIN rows :
        rows[i].code = rows[j].code /\ rows[i].number = rows[j].number => i = j

\* What has once been published is what it was for good, retired or not, and
\* what has been released is never edited (docs/core-concepts.md:190,258,292).
KeptVersion(before, after) ==
    before.status # "DRAFT" =>
        /\ after.code = before.code /\ after.number = before.number
        /\ after.form = before.form
        /\ after.status \in {before.status, "RETIRED"}

ReleasedVersionsKept ==
    [][/\ \A b \in DOMAIN books : KeptVersion(books[b], books'[b])
       /\ \A t \in DOMAIN templates : KeptVersion(templates[t], templates'[t])
       /\ \A c \in DOMAIN contracts :
            contracts[c].status = "RELEASED" => contracts'[c] = contracts[c]]_catalogVars

\* The versions a contract depends on, directly or by a template.
DependsOnRetired(f) ==
    \/ \E t \in TemplatesOf(f) : templates[t].status = "RETIRED"
    \/ \E b \in PinnedBooks(f) : books[b].status = "RETIRED"

\* What the contract rates on any of its routes.
LinesWithBook(f) ==
    {l \in UNION {RatedLines(f, route) : route \in f.routes \cup {NoValue}} : l.book # NoValue}

\* Whether basis or profile of a rate are left to the component.
RestsOnComponent(f) ==
    \E l \in LinesWithBook(f) :
        LET entry == books[l.book].form
        IN  NoValue \in {entry.basis, OrElse(l.profile, entry.profile)}

ProfilesOf(f) ==
    {ProfileNamed(l, books[l.book].form, terms) : l \in LinesWithBook(f)}

\* The terms are the same again, as far as the contract charges by them.
SameTerms(f, before) ==
    /\ RestsOnComponent(f) => terms.component = before.component
    /\ ProfilesOf(f) \cap terms.published = ProfilesOf(f) \cap before.published

\* Until a version it depends on is retired, a released contract charges, on
\* every route, what it charged when it was released, whenever its component,
\* if anything is left to it, and the published ones of its profiles are
\* the same: no draft, rename or publication elsewhere in the catalogue, no other
\* profile and, if lines and entries say everything, no edit of the component
\* reaches it (release_contract, _rate_contract, _resolve_effective_quote_calculation).
PricesHoldUntilRetired ==
    \A c \in DOMAIN contracts :
        LET f == contracts[c].form
        IN  /\ contracts[c].status = "RELEASED" /\ ~DependsOnRetired(f)
            /\ SameTerms(f, priced[c].terms)
            => PriceList(f, terms) = priced[c].list

\* A draft whose lock version is still the one an editor has opened still reads
\* as the editor saw it, so an update that sends that lock version overwrites
\* nothing unseen (expected_lock_version).
EditsOverwriteWhatWasSeen ==
    workspace # NoValue =>
        LET row == IF workspace.table = "books" THEN books[workspace.id]
                                                ELSE templates[workspace.id]
            seen == workspace.version
        IN  row.lock = seen.lock => row.code = seen.code /\ row.form = seen.form

\* docs/api-examples.md:413: publishing a new version retires the one before
\* "while contracts pinned to it remain reproducible".
PinnedContractsReproducible ==
    \A c \in DOMAIN contracts :
        contracts[c].status = "RELEASED" =>
            PriceList(contracts[c].form, terms) = priced[c].list
=============================================================================
