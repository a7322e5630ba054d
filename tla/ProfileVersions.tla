--------------------------- MODULE ProfileVersions ---------------------------
(***************************************************************************)
(* The profiles a charge is calculated, allocated, dated and freed of time *)
(* by (app/domain/service.py).  A profile has versions that are drafted,   *)
(* published and retired; business date profiles are assigned to owners.   *)
(* The four kinds share one life cycle and differ in what they check; the  *)
(* model keeps every difference.                                           *)
(*                                                                         *)
(* A call works on a copy of the database and writes it back.  The state   *)
(* is what the next call loads: Stored says what gets lost on the way      *)
(* (app/infrastructure/sqlalchemy_repository.py).                          *)
(***************************************************************************)
EXTENDS OptionalValues, Integers, Sequences, FiniteSetsExt

CONSTANTS
    Codes,              \* profile codes
    Owners,             \* who a profile may belong to, "SYSTEM" among them
    Scopes,             \* owner and shipment scope of an assignment
    Forms,              \* kind -> what requests fill a version in with
    MaxProfiles, MaxVersions,   \* bounds: rows
    MaxEdits            \* bound: edits and publications the lock versions count

Kinds == {"ALLOCATION", "CALCULATION", "BUSINESS_DATE", "FREE_TIME"}

\* business_purpose, which only business date profiles have.
PurposesOf(kind) ==
    IF kind = "BUSINESS_DATE" THEN {"EXCHANGE_RATE_DATE", "PAYMENT_BASELINE_DATE"}
                              ELSE {NoValue}

\* document: an allocation with source_level DOCUMENT.  window: whether there
\* are effective dates.  lines: the factors, date steps or free-time rules, a
\* number and a code (date key) each.
Form == [document : BOOLEAN, window : BOOLEAN, lines : SUBSET (Nat \X STRING)]

ASSUME ProfileConstants ==
    /\ Forms \in [Kinds -> SUBSET Form]
    /\ \A kind \in Kinds \ {"ALLOCATION"} : \A form \in Forms[kind] : ~form.document
    /\ "SYSTEM" \in Owners
    /\ MaxProfiles \in Nat /\ MaxVersions \in Nat /\ MaxEdits \in Nat
    /\ NoValue \notin Nat

VARIABLES
    profiles,       \* the profiles of all kinds
    versions,       \* their versions
    assignments,    \* the assignments of business date profiles
    opened          \* a version somebody has opened to edit it

profileVars == <<profiles, versions, assignments, opened>>

\* published: published_version_id.
ProfileType ==
    [kind : Kinds, code : Codes, owner : Owners, purpose : UNION {PurposesOf(k) : k \in Kinds},
     published : Nat \cup {NoValue}]

VersionType ==
    [profile : Nat, number : Nat \ {0}, status : {"DRAFT", "PUBLISHED", "RETIRED"},
     lock : Nat \ {0}, form : Form]

\* An assignment's purpose is that of its profile; priorities are left out, see
\* OneAssignmentApplies.
AssignmentType == [profile : Nat, scope : Scopes, active : BOOLEAN]

(***************************************************************************)
(* Profiles and their versions                                             *)
(***************************************************************************)

KindOf(v) == profiles[versions[v].profile].kind

VersionsOf(p) == {v \in DOMAIN versions : versions[v].profile = p}

PublishedVersions(p) == {v \in VersionsOf(p) : versions[v].status = "PUBLISHED"}

Edits == MapThenSumSet(LAMBDA v : versions[v].lock - 1, DOMAIN versions)

\* Each kind has a table of its own.
NameFree(kind, code, owner, except) ==
    \A p \in DOMAIN profiles \ except :
        profiles[p].kind = kind /\ profiles[p].code = code => profiles[p].owner # owner

NextNumber(p) == Max({0} \cup {versions[v].number : v \in VersionsOf(p)}) + 1

\* _normalized_business_date_profile_version_payload: there are steps, and only
\* a payment baseline is taken from the invoice.
Accepted(kind, purpose, form) ==
    kind = "BUSINESS_DATE" =>
        /\ form.lines # {}
        /\ purpose = "EXCHANGE_RATE_DATE" => \A l \in form.lines : l[2] # "INVOICE_DATE"

\* _load_business_date_profiles takes neither lock_version nor the effective
\* dates from the rows, and the next flush writes the defaults it loads.
Stored(kind, row) ==
    IF kind = "BUSINESS_DATE" THEN [row EXCEPT !.lock = 1, !.form.window = FALSE] ELSE row

NewVersion(kind, p, number, form) ==
    Stored(kind, [profile |-> p, number |-> number, status |-> "DRAFT", lock |-> 1,
                  form |-> form])

\* Mutated form of Editable: the version in force can be edited.
EditableAlways(v, expected) == expected \in {NoValue, versions[v].lock}

\* Retired versions can be edited, except those of calculations.
\* expected_lock_version may be left out.
Editable(v, expected) ==
    /\ versions[v].status # "PUBLISHED"
    /\ KindOf(v) = "CALCULATION" => versions[v].status = "DRAFT"
    /\ expected \in {NoValue, versions[v].lock}

\* uq_charge_free_time_rule_sequence, uq_charge_free_time_rule_code: the rules
\* an edit replaces stay in the database (_delete_removed_rows does not know
\* them), so no new rule may share its number or its code with an old one.
RulesFit(old, new) ==
    \A o \in old.lines, n \in new.lines : o[1] # n[1] /\ o[2] # n[2]

\* The old rules are back at the next load.
Replacing(kind, old, new) ==
    IF kind = "FREE_TIME" THEN [new EXCEPT !.lines = @ \cup old.lines] ELSE new

\* Mutated form of Edited: the lock version stays.
EditedInPlace(kind, row, form) == [row EXCEPT !.form = Replacing(kind, row.form, form)]

Edited(kind, row, form) ==
    Stored(kind, [row EXCEPT !.form = Replacing(kind, row.form, form), !.lock = @ + 1])

\* Mutated form of Supersedes: a version only retires those of its form.
SupersedesItsForm(row, other) ==
    row.profile = other.profile /\ other.status = "PUBLISHED" /\ row.form = other.form

\* Document allocations are in force beside the others.
Supersedes(row, other) ==
    /\ row.profile = other.profile
    /\ other.status = "PUBLISHED"
    /\ row.form.document = other.form.document

PutInForce(kind, row) == Stored(kind, [row EXCEPT !.status = "PUBLISHED", !.lock = @ + 1])

Published(v) ==
    [w \in DOMAIN versions |->
        IF w = v THEN PutInForce(KindOf(v), versions[v])
        ELSE IF Supersedes(versions[v], versions[w])
        THEN [versions[w] EXCEPT !.status = "RETIRED"]
        ELSE versions[w]]

\* Only calculations ask for a draft, and for factors (all of them multiply
\* rates here); the other kinds publish anything, and once more.
Publishable(v) ==
    KindOf(v) = "CALCULATION" => versions[v].status = "DRAFT" /\ versions[v].form.lines # {}

(***************************************************************************)
(* Which version applies                                                   *)
(***************************************************************************)

Latest(vs) ==
    IF vs = {} THEN NoValue
    ELSE CHOOSE v \in vs : \A w \in vs : versions[w].number <= versions[v].number

\* _require_published_business_date_profile_version
DateVersion(p) == Latest(PublishedVersions(p))

\* _resolve_allocation_profile_reference without a version id
AllocationVersion(p) ==
    Latest({v \in PublishedVersions(p) : ~versions[v].form.document})

\* _resolve_calculation_profile_reference without a version id
CalculationVersion(p) ==
    IF profiles[p].published # NoValue THEN profiles[p].published
                                       ELSE Latest(PublishedVersions(p))

\* _require_published_free_time_profile_version
FreeTimeVersion(p) ==
    IF profiles[p].published # NoValue THEN profiles[p].published
                                       ELSE Latest(PublishedVersions(p))

\* Mutated form of AssignmentFree: only the profile's own are looked at.
AssignmentFreeOfProfile(p, scope, except) ==
    \A a \in assignments \ except : a.profile = p => a.scope # scope

\* _business_date_profile_assignment_exists: inactive ones count.
AssignmentFree(p, scope, except) ==
    \A a \in assignments \ except :
        profiles[a.profile].purpose = profiles[p].purpose => a.scope # scope

(***************************************************************************)
(* Type invariant                                                          *)
(***************************************************************************)

\* None, or the id of the version, its lock version and what it read then.
IsOpened(o) == o # NoValue => o.id \in DOMAIN versions /\ o.lock \in Nat /\ o.form \in Form

\* Profiles, versions and assignments are records of their types that refer to
\* one another, only allocations distribute documents, date versions have steps
\* and take the invoice's date only for a payment baseline (app/domain/models.py).
ProfileTypeOK ==
    /\ profiles \in Seq(ProfileType)
    /\ versions \in Seq(VersionType)
    /\ \A v \in DOMAIN versions :
        /\ versions[v].profile \in DOMAIN profiles
        /\ versions[v].form.document => KindOf(v) = "ALLOCATION"
        /\ KindOf(v) = "BUSINESS_DATE" =>
            /\ versions[v].form.lines # {}
            /\ (\E l \in versions[v].form.lines : l[2] = "INVOICE_DATE")
                => profiles[versions[v].profile].purpose = "PAYMENT_BASELINE_DATE"
    /\ assignments \subseteq AssignmentType
    /\ \A a \in assignments :
        a.profile \in DOMAIN profiles /\ profiles[a.profile].kind = "BUSINESS_DATE"
    /\ IsOpened(opened)

(***************************************************************************)
(* Operations                                                              *)
(***************************************************************************)

\* seed_calculation_profiles, seed_business_date_profiles,
\* seed_allocation_profiles: one version each, published.
Seeded(kind, code, purpose, form) ==
    /\ profiles = <<[kind |-> kind, code |-> code, owner |-> "SYSTEM",
                     purpose |-> purpose, published |-> 1]>>
    /\ versions = <<Stored(kind, [profile |-> 1, number |-> 1, status |-> "PUBLISHED",
                                  lock |-> 1, form |-> form])>>

\* One of the seeded profiles, or none of them looked at.
ProfileInit ==
    /\ \/ profiles = << >> /\ versions = << >>
       \/ \E kind \in Kinds \ {"FREE_TIME"}, code \in Codes :
            \E purpose \in PurposesOf(kind) \ {"PAYMENT_BASELINE_DATE"}, form \in Forms[kind] :
                Accepted(kind, purpose, form) /\ Seeded(kind, code, purpose, form)
    /\ assignments = {} /\ opened = NoValue

CreateProfile(kind, code, owner, purpose, form) ==
    /\ Len(profiles) < MaxProfiles /\ Len(versions) < MaxVersions
    /\ NameFree(kind, code, owner, {})
    /\ Accepted(kind, purpose, form)
    /\ profiles' = Append(profiles,
            [kind |-> kind, code |-> code, owner |-> owner, purpose |-> purpose,
             published |-> NoValue])
    /\ versions' = Append(versions, NewVersion(kind, Len(profiles) + 1, 1, form))
    /\ UNCHANGED <<assignments, opened>>

\* Who uses the profile is not asked, whoever it is given to.
UpdateProfile(p, code, owner) ==
    /\ NameFree(profiles[p].kind, code, owner, {p})
    /\ profiles' = [profiles EXCEPT ![p].code = code, ![p].owner = owner]
    /\ UNCHANGED <<versions, assignments, opened>>

\* create_calculation_profile_version and create_free_time_profile_version
\* read a business_purpose that these profiles do not have: they always fail.
HasNewVersions(p) == profiles[p].kind \in {"ALLOCATION", "BUSINESS_DATE"}

CreateVersion(p, form) ==
    /\ Len(versions) < MaxVersions
    /\ HasNewVersions(p)
    /\ Accepted(profiles[p].kind, profiles[p].purpose, form)
    /\ versions' = Append(versions, NewVersion(profiles[p].kind, p, NextNumber(p), form))
    /\ UNCHANGED <<profiles, assignments, opened>>

UpdateVersion(v, form, expected) ==
    /\ Editable(v, expected) /\ Edits < MaxEdits
    /\ Accepted(KindOf(v), profiles[versions[v].profile].purpose, form)
    /\ KindOf(v) = "FREE_TIME" => RulesFit(versions[v].form, form)
    /\ versions' = [versions EXCEPT ![v] = Edited(KindOf(v), @, form)]
    /\ UNCHANGED <<profiles, assignments, opened>>

PublishVersion(v) ==
    /\ Publishable(v) /\ Edits < MaxEdits
    /\ versions' = Published(v)
    /\ profiles' = [profiles EXCEPT ![versions[v].profile].published = v]
    /\ UNCHANGED <<assignments, opened>>

Assignable(p) == profiles[p].kind = "BUSINESS_DATE" /\ DateVersion(p) # NoValue

CreateAssignment(p, scope, active) ==
    /\ Assignable(p)
    /\ AssignmentFree(p, scope, {})
    /\ assignments' = assignments \cup {[profile |-> p, scope |-> scope, active |-> active]}
    /\ UNCHANGED <<profiles, versions, opened>>

\* The profile of an assignment never changes.
UpdateAssignment(a, scope, active) ==
    /\ Assignable(a.profile)
    /\ AssignmentFree(a.profile, scope, {a})
    /\ assignments' =
        (assignments \ {a}) \cup {[profile |-> a.profile, scope |-> scope, active |-> active]}
    /\ UNCHANGED <<profiles, versions, opened>>

DeleteAssignment(a) ==
    /\ assignments' = assignments \ {a}
    /\ UNCHANGED <<profiles, versions, opened>>

\* A version is listed with its profile, as far as an edit may follow.
OpenVersion(v) ==
    /\ Editable(v, NoValue)
    /\ opened' = [id |-> v, lock |-> versions[v].lock, form |-> versions[v].form]
    /\ UNCHANGED <<profiles, versions, assignments>>

\* The lock version an editor sends: none, or that of the opened version.
ExpectedLocks(v) ==
    {NoValue} \cup IF opened = NoValue THEN {}
                   ELSE IF opened.id = v THEN {opened.lock} ELSE {}

VersionStep ==
    \/ \E kind \in Kinds, code \in Codes, owner \in Owners :
        \E purpose \in PurposesOf(kind), form \in Forms[kind] :
            CreateProfile(kind, code, owner, purpose, form)
    \/ \E p \in DOMAIN profiles :
        \/ \E code \in Codes, owner \in Owners : UpdateProfile(p, code, owner)
        \/ \E form \in Forms[profiles[p].kind] : CreateVersion(p, form)
    \/ \E v \in DOMAIN versions :
        \/ OpenVersion(v)
        \/ PublishVersion(v)
        \/ \E form \in Forms[KindOf(v)], expected \in ExpectedLocks(v) :
            UpdateVersion(v, form, expected)

AssignmentStep ==
    \E scope \in Scopes, active \in BOOLEAN :
        \/ \E p \in DOMAIN profiles : CreateAssignment(p, scope, active)
        \/ \E a \in assignments : UpdateAssignment(a, scope, active) \/ DeleteAssignment(a)

ProfileNext == VersionStep \/ AssignmentStep

ProfileSpec == ProfileInit /\ [][ProfileNext]_profileVars

(***************************************************************************)
(* Properties                                                              *)
(***************************************************************************)

\* A profile has at most one published version, two for an allocation that has
\* one for documents, whatever is drafted, retired, edited and published once
\* more in which order; and the two ways calls find the version in force, the
\* pointer and the highest published number, agree
\* (publish_*_profile_version, published_version_id,
\* _resolve_*_profile_reference, _require_published_*_profile_version).
OnePublishedVersion ==
    /\ \A v, w \in DOMAIN versions :
        /\ versions[v].status = "PUBLISHED" /\ versions[w].status = "PUBLISHED"
        /\ versions[v].profile = versions[w].profile
        /\ versions[v].form.document = versions[w].form.document
        => v = w
    /\ \A p \in DOMAIN profiles :
        /\ profiles[p].published # NoValue => profiles[p].published \in PublishedVersions(p)
        /\ profiles[p].kind # "ALLOCATION" => profiles[p].published = DateVersion(p)

\* For an owner and shipment scope, at most one active assignment applies to a
\* purpose, so that the priorities of assignments never decide
\* (_resolve_business_date_profile_assignment_for_document), and the profile
\* it assigns still has a version in force (409 otherwise, in every calculation
\* of the scope).
OneAssignmentApplies ==
    /\ \A a, b \in assignments :
        /\ a.active /\ b.active /\ a.scope = b.scope
        /\ profiles[a.profile].purpose = profiles[b.profile].purpose
        => a = b
    /\ \A a \in assignments : DateVersion(a.profile) # NoValue

SeenByEditor(o) == versions[o.id].lock = o.lock => versions[o.id].form = o.form

\* A version whose lock version is still the one an editor has opened reads as
\* the editor saw it, so an update that sends that lock version overwrites
\* nothing unseen; dates, whose lock versions are not loaded, excepted
\* (expected_lock_version).
EditsOverwriteWhatWasSeen ==
    opened # NoValue /\ KindOf(opened.id) # "BUSINESS_DATE" => SeenByEditor(opened)

\* The version in force never changes, and a calculation that has been
\* published is what it was for good, retired or not: no edit and no
\* publication of another version reaches it (update_*_profile_version).
PublishedVersionsKept ==
    [][\A v \in DOMAIN versions :
        /\ versions[v].status = "PUBLISHED"
            => versions'[v].form = versions[v].form /\ versions'[v].status # "DRAFT"
        /\ KindOf(v) = "CALCULATION" /\ versions[v].status # "DRAFT"
            => /\ versions'[v].form = versions[v].form
               /\ versions'[v].status \in {versions[v].status, "RETIRED"}]_profileVars
=============================================================================
