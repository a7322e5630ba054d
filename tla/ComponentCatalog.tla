-------------------------- MODULE ComponentCatalog --------------------------
(***************************************************************************)
(* Charge components and their aliases (app/domain/service.py), which use  *)
(* the profiles of ProfileVersions, and the rows of other tables that name *)
(* their component by its code and are stored with its id.                 *)
(*                                                                         *)
(* A component belongs to everybody or to a forwarder and may only use     *)
(* profiles of its own or of everybody.  Nothing is deleted here: a delete *)
(* deactivates.                                                            *)
(***************************************************************************)
EXTENDS ProfileVersions

CONSTANTS
    ComponentCodes,     \* codes of components
    Labels,             \* what an alias stands for, its forwarder aside
    MaxRows             \* bound: rows of all tables together, see Rows

ASSUME CatalogueConstants == MaxRows \in Nat

VARIABLES
    components,     \* the charge components
    aliases,        \* other names of components
    links           \* rate books without entries and match results

componentVars == <<components, aliases, links>>

catalogueVars == <<profileVars, componentVars>>

Forwarders == Owners \ {"SYSTEM", "GLOBAL"}

ComponentOwners == {"GLOBAL"} \cup Forwarders

\* date: business_date_profile_id, None unless the date policy of the component
\* is PROFILE_OVERRIDE; pinned: allocation_profile_version_id.
ComponentType ==
    [code : ComponentCodes, owner : ComponentOwners, active : BOOLEAN,
     date : Nat \cup {NoValue}, allocation : Nat \cup {NoValue},
     pinned : Nat \cup {NoValue}, calculation : Nat \cup {NoValue}]

\* calculation: the version of the default calculation profile.
AliasType ==
    [component : Nat, label : Labels, forwarder : Forwarders \cup {NoValue},
     active : BOOLEAN, calculation : Nat \cup {NoValue}]

\* named: the component the row has been made for; stored: charge_component_id.
LinkType == [named : Nat, stored : Nat \cup {NoValue}]

(***************************************************************************)
(* What a component refers to                                              *)
(***************************************************************************)

OfKind(kind) == {p \in DOMAIN profiles : profiles[p].kind = kind}

\* Mutated form of DateReferenceFits: the purpose is not looked at.
DateReferenceInForce(p) == p # NoValue => DateVersion(p) # NoValue

\* _resolve_business_date_component_reference
DateReferenceFits(p) ==
    p # NoValue => profiles[p].purpose = "EXCHANGE_RATE_DATE" /\ DateVersion(p) # NoValue

\* Mutated form of AllocationReferences: profile and version are checked apart.
AllocationReferencesApart ==
    [allocation : OfKind("ALLOCATION"),
     pinned : {v \in DOMAIN versions : KindOf(v) = "ALLOCATION"}]

\* _resolve_allocation_profile_reference with the profile of the version
AllocationReferences ==
    {[allocation |-> NoValue, pinned |-> NoValue]}
    \cup {[allocation |-> versions[v].profile, pinned |-> v] :
            v \in {v \in DOMAIN versions :
                    KindOf(v) = "ALLOCATION" /\ ~versions[v].form.document}}
    \cup {[allocation |-> p, pinned |-> AllocationVersion(p)] :
            p \in {p \in OfKind("ALLOCATION") : AllocationVersion(p) # NoValue}}

\* _require_component_profile_owners
OwnerFits(owner, p) ==
    p # NoValue =>
        \/ profiles[p].owner \in {"GLOBAL", "SYSTEM"}
        \/ owner # "GLOBAL" /\ profiles[p].owner = owner

\* Mutated form of CodeFree: only components that are active are looked at.
CodeFreeOfActive(code, owner, except) ==
    \A c \in DOMAIN components \ except :
        components[c].code = code /\ components[c].active => components[c].owner # owner

CodeFree(code, owner, except) ==
    \A c \in DOMAIN components \ except :
        components[c].code = code => components[c].owner # owner

\* components_by_code
ByCode(cs, code) ==
    LET found == {c \in DOMAIN cs : cs[c].owner = "GLOBAL" /\ cs[c].code = code}
    IN  IF found = {} THEN NoValue ELSE CHOOSE c \in found : TRUE

\* Every flush looks the id up by the code the row was loaded with, which is
\* the component's as it was before the call (_persist_rate_books,
\* _persist_match_results).
Relinked(cs) ==
    {[l EXCEPT !.stored = IF @ = NoValue THEN NoValue ELSE ByCode(cs, components[@].code)] :
        l \in links}

\* _alias_from_payload
AliasFits(c, forwarder) ==
    components[c].owner \in Forwarders => components[c].owner = forwarder

\* _alias_key_exists
AliasFree(label, forwarder, except) ==
    \A a \in DOMAIN aliases \ except :
        aliases[a].label = label => aliases[a].forwarder # forwarder

\* The request's calculation profile, or the component's.
AliasOf(c, label, forwarder, p) ==
    LET profile == IF p # NoValue THEN p ELSE components[c].calculation
    IN  [component |-> c, label |-> label, forwarder |-> forwarder, active |-> TRUE,
         calculation |-> IF profile = NoValue THEN NoValue ELSE CalculationVersion(profile)]

(***************************************************************************)
(* Operations                                                              *)
(***************************************************************************)

CatalogueInit == ProfileInit /\ components = << >> /\ aliases = << >> /\ links = {}

ComponentFits(owner, date, allocation, calculation) ==
    /\ DateReferenceFits(date)
    /\ \A p \in {date, allocation.allocation, calculation} : OwnerFits(owner, p)

CreateComponent(code, owner, date, allocation, calculation) ==
    /\ CodeFree(code, owner, {})
    /\ ComponentFits(owner, date, allocation, calculation)
    /\ components' = Append(components,
            [code |-> code, owner |-> owner, active |-> TRUE, date |-> date,
             allocation |-> allocation.allocation, pinned |-> allocation.pinned,
             calculation |-> calculation])
    /\ UNCHANGED <<profileVars, aliases, links>>

\* The owner cannot be changed.  is_active is left at its default.
UpdateComponent(c, code, date, allocation, calculation) ==
    /\ CodeFree(code, components[c].owner, {c})
    /\ ComponentFits(components[c].owner, date, allocation, calculation)
    /\ components' = [components EXCEPT ![c] =
            [code |-> code, owner |-> @.owner, active |-> TRUE, date |-> date,
             allocation |-> allocation.allocation, pinned |-> allocation.pinned,
             calculation |-> calculation]]
    /\ links' = Relinked(components')
    /\ UNCHANGED <<profileVars, aliases>>

DeleteComponent(c) ==
    /\ components' = [components EXCEPT ![c].active = FALSE]
    /\ UNCHANGED <<profileVars, aliases, links>>

CreateAlias(c, label, forwarder, p) ==
    /\ AliasFits(c, forwarder)
    /\ AliasFree(label, forwarder, {})
    /\ aliases' = Append(aliases, AliasOf(c, label, forwarder, p))
    /\ UNCHANGED <<profileVars, components, links>>

\* An alias may move to another component.
UpdateAlias(a, c, label, forwarder, p) ==
    /\ AliasFits(c, forwarder)
    /\ AliasFree(label, forwarder, {a})
    /\ aliases' = [aliases EXCEPT ![a] = AliasOf(c, label, forwarder, p)]
    /\ UNCHANGED <<profileVars, components, links>>

DeleteAlias(a) ==
    /\ aliases' = [aliases EXCEPT ![a].active = FALSE]
    /\ UNCHANGED <<profileVars, components, links>>

\* create_rate_book, match_invoice: a row names a component by its code.
MakeLink(code) ==
    /\ ByCode(components, code) # NoValue
    /\ links' = links \cup {[named |-> ByCode(components, code),
                             stored |-> ByCode(components, code)]}
    /\ UNCHANGED <<profileVars, components, aliases>>

ComponentStep ==
    \/ \E code \in ComponentCodes : MakeLink(code)
    \/ \E c \in DOMAIN components : DeleteComponent(c)
    \/ \E code \in ComponentCodes, date \in {NoValue} \cup OfKind("BUSINESS_DATE"),
          allocation \in AllocationReferences,
          calculation \in {NoValue} \cup OfKind("CALCULATION") :
        \/ \E owner \in ComponentOwners :
            CreateComponent(code, owner, date, allocation, calculation)
        \/ \E c \in DOMAIN components :
            UpdateComponent(c, code, date, allocation, calculation)

AliasStep ==
    \/ \E a \in DOMAIN aliases : DeleteAlias(a)
    \/ \E c \in DOMAIN components, label \in Labels, forwarder \in Forwarders \cup {NoValue},
          p \in {NoValue} \cup OfKind("CALCULATION") :
        \/ CreateAlias(c, label, forwarder, p)
        \/ \E a \in DOMAIN aliases : UpdateAlias(a, c, label, forwarder, p)

\* An opened version counts like a row; assignments are bounded by Scopes.
Rows ==
    Len(profiles) + Len(versions) + (IF opened = NoValue THEN 0 ELSE 1)
        + Len(components) + Len(aliases) + Cardinality(links)

CatalogueNext ==
    /\ \/ ProfileNext /\ UNCHANGED componentVars
       \/ ComponentStep
       \/ AliasStep
    /\ Rows' <= MaxRows

CatalogueSpec == CatalogueInit /\ [][CatalogueNext]_catalogueVars

(***************************************************************************)
(* Properties                                                              *)
(***************************************************************************)

\* Components and aliases are records of their types that refer to one another
\* and to versions of the right kinds, and a forwarder's components have no
\* aliases of others (app/db/models.py, _alias_from_payload).
CatalogueTypeOK ==
    /\ ProfileTypeOK
    /\ components \in Seq(ComponentType)
    /\ \A c \in DOMAIN components :
        /\ components[c].calculation \in {NoValue} \cup OfKind("CALCULATION")
        /\ (components[c].pinned = NoValue) = (components[c].allocation = NoValue)
        /\ components[c].pinned # NoValue =>
            components[c].pinned \in VersionsOf(components[c].allocation)
    /\ aliases \in Seq(AliasType)
    /\ \A a \in DOMAIN aliases :
        /\ aliases[a].component \in DOMAIN components
        /\ LET owner == components[aliases[a].component].owner
           IN  owner \in Forwarders => aliases[a].forwarder = owner
    /\ links \subseteq LinkType

\* The date profile of a component was made for exchange rates and still has a
\* version in force, whatever has been drafted and published since the
\* component was given it: calculations with it never fail for want of one
\* (_resolve_business_date_component_reference, _resolve_business_date_date).
ComponentDatesResolve ==
    \A c \in DOMAIN components :
        LET p == components[c].date
        IN  p # NoValue =>
                /\ p \in OfKind("BUSINESS_DATE")
                /\ profiles[p].purpose = "EXCHANGE_RATE_DATE"
                /\ DateVersion(p) # NoValue

\* A row that names its component by code may lose it when the component is
\* renamed, but never comes to stand for another one (update_component,
\* _persist_rate_books, _persist_match_results).
LinksNeverMislead ==
    \A l \in links : l.stored \in {l.named, NoValue}
=============================================================================
