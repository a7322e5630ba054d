------------------------- MODULE MasterDataProofs --------------------------
(***************************************************************************)
(* Proofs about the data charges are determined from: profiles, their      *)
(* versions and assignments; charge components, their aliases and the rows *)
(* that name them, beside profiles that change all the time; dimensions,   *)
(* caller mappings and exchange rates, maintained by calls that overlap.   *)
(***************************************************************************)
EXTENDS ComponentCatalog, ReferenceData, SequenceTheorems, FiniteSums


(***************************************************************************)
(* Profiles: the inductive invariant                                       *)
(***************************************************************************)

\* What the version of a profile looks like.  Dates lose their effective dates
\* (Stored), which is why publishing one once more changes nothing.
RowFits(row, profile) ==
    /\ row.form.document => profile.kind = "ALLOCATION"
    /\ profile.kind = "BUSINESS_DATE" =>
        /\ row.form.lines # {}
        /\ ~row.form.window
        /\ (\E l \in row.form.lines : l[2] = "INVOICE_DATE")
            => profile.purpose = "PAYMENT_BASELINE_DATE"

\* A version number is at most the id of its row: that is why a highest number
\* exists and the next one is in range.
RowsFit ==
    /\ profiles \in Seq(ProfileType)
    /\ versions \in Seq(VersionType)
    /\ \A p \in DOMAIN profiles : profiles[p].purpose \in PurposesOf(profiles[p].kind)
    /\ \A v \in DOMAIN versions :
        /\ versions[v].profile \in DOMAIN profiles
        /\ versions[v].number <= v
        /\ RowFits(versions[v], profiles[versions[v].profile])

OneInForce ==
    \A v, w \in DOMAIN versions :
        /\ versions[v].status = "PUBLISHED" /\ versions[w].status = "PUBLISHED"
        /\ versions[v].profile = versions[w].profile
        /\ versions[v].form.document = versions[w].form.document
        => v = w

\* published_version_id leads to a version in force, and is None while there is
\* none.
PointersLead ==
    /\ \A p \in DOMAIN profiles : profiles[p].published # NoValue =>
        /\ profiles[p].published \in DOMAIN versions
        /\ versions[profiles[p].published].profile = p
        /\ versions[profiles[p].published].status = "PUBLISHED"
    /\ \A v \in DOMAIN versions : versions[v].status = "PUBLISHED" =>
        profiles[versions[v].profile].published # NoValue

Tables == RowsFit /\ OneInForce /\ PointersLead

AssignmentsFit ==
    /\ assignments \subseteq AssignmentType
    /\ \A a \in assignments :
        /\ a.profile \in DOMAIN profiles
        /\ profiles[a.profile].kind = "BUSINESS_DATE"
        /\ profiles[a.profile].published # NoValue
    /\ \A a, b \in assignments :
        a.scope = b.scope /\ profiles[a.profile].purpose = profiles[b.profile].purpose => a = b

\* Lock versions only grow, except those of dates.
OpenedFits ==
    opened # NoValue =>
        /\ opened.id \in DOMAIN versions /\ opened.lock \in Nat /\ opened.form \in Form
        /\ KindOf(opened.id) # "BUSINESS_DATE" =>
            /\ opened.lock <= versions[opened.id].lock
            /\ SeenByEditor(opened)

ProfileInv == Tables /\ AssignmentsFit /\ OpenedFits

\* How a version may change in a step.
RowKept(kind, before, after) ==
    /\ after.profile = before.profile
    /\ before.status = "PUBLISHED" => after.form = before.form /\ after.status # "DRAFT"
    /\ kind = "CALCULATION" /\ before.status # "DRAFT" =>
        after.form = before.form /\ after.status \in {before.status, "RETIRED"}
    /\ kind # "BUSINESS_DATE" =>
        after.lock > before.lock \/ (after.lock = before.lock /\ after.form = before.form)

\* How the tables may change in a step.
Evolves ==
    /\ DOMAIN profiles \subseteq DOMAIN profiles'
    /\ DOMAIN versions \subseteq DOMAIN versions'
    /\ \A p \in DOMAIN profiles :
        /\ profiles'[p].kind = profiles[p].kind /\ profiles'[p].purpose = profiles[p].purpose
        /\ profiles[p].published # NoValue => profiles'[p].published # NoValue
    /\ \A v \in DOMAIN versions : RowKept(KindOf(v), versions[v], versions'[v])

(***************************************************************************)
(* Profiles: lemmas                                                        *)
(***************************************************************************)

\* The greatest number of a set is what Max finds.
LEMMA GreatestUpTo ==
    ASSUME NEW n \in Nat, NEW S \in SUBSET (0 .. n), S # {}
    PROVE  Max(S) \in S /\ \A x \in S : x <= Max(S)
<1>1. \E x \in S : \A y \in S : x >= y  BY GreatestExists
<1>2. Max(S) \in S /\ \A y \in S : Max(S) >= y  BY <1>1 DEF Max
<1>3. QED  BY <1>2

\* What the tables' types say of their rows.
LEMMA TableRows ==
    ASSUME RowsFit
    PROVE  /\ Len(profiles) \in Nat /\ DOMAIN profiles = 1 .. Len(profiles)
           /\ Len(versions) \in Nat /\ DOMAIN versions = 1 .. Len(versions)
           /\ \A p \in DOMAIN profiles : profiles[p] \in ProfileType
           /\ \A v \in DOMAIN versions : versions[v] \in VersionType
BY LenProperties, ElementOfSeq DEF RowsFit

\* The next number of a profile is within the range of ids.
LEMMA NextNumberInRange ==
    ASSUME RowsFit, NEW p
    PROVE  NextNumber(p) \in 1 .. Len(versions) + 1
<1> DEFINE S == {0} \cup {versions[v].number : v \in VersionsOf(p)}
<1>1. Len(versions) \in Nat /\ DOMAIN versions = 1 .. Len(versions)
      /\ \A v \in DOMAIN versions : versions[v] \in VersionType
  BY TableRows
<1>2. \A v \in DOMAIN versions : versions[v].number \in 0 .. Len(versions)
  <2>1. TAKE v \in DOMAIN versions
  <2>2. versions[v].number \in Nat \ {0}  BY <1>1 DEF VersionType
  <2>3. versions[v].number <= v  BY DEF RowsFit
  <2>4. QED  BY <1>1, <2>2, <2>3
<1>3. S \in SUBSET (0 .. Len(versions)) /\ S # {}  BY <1>1, <1>2 DEF VersionsOf
<1>4. NextNumber(p) = Max(S) + 1  BY DEF NextNumber
<1> HIDE DEF S
<1>5. Max(S) \in 0 .. Len(versions)  BY <1>1, <1>3, GreatestUpTo
<1>6. QED  BY <1>1, <1>4, <1>5

\* What Stored leaves of a version.
LEMMA StoredRow ==
    ASSUME NEW kind \in Kinds, NEW row \in VersionType, NEW after, after = Stored(kind, row)
    PROVE  /\ after \in VersionType
           /\ after.profile = row.profile /\ after.number = row.number
           /\ after.status = row.status
           /\ after.form.document = row.form.document /\ after.form.lines = row.form.lines
           /\ kind = "BUSINESS_DATE" => ~after.form.window
           /\ kind # "BUSINESS_DATE" \/ ~row.form.window => after.form = row.form
           /\ kind # "BUSINESS_DATE" => after.lock = row.lock
<1>1. CASE kind # "BUSINESS_DATE"  BY <1>1 DEF Stored
<1>2. CASE kind = "BUSINESS_DATE"
  <2> DEFINE first == [row EXCEPT !.lock = 1]
             bare == [row.form EXCEPT !.window = FALSE]
  <2>1. first \in VersionType /\ first.form = row.form  BY DEF VersionType
  <2>2. row.form \in Form  BY DEF VersionType
  <2>3. /\ bare \in Form /\ ~bare.window /\ bare.document = row.form.document
        /\ bare.lines = row.form.lines
    BY <2>2 DEF Form
  <2>4. ~row.form.window => bare = row.form  BY <2>2 DEF Form
  <2>5. after = [first EXCEPT !.form = bare]
    BY <1>2, <2>1 DEF Stored, VersionType
  <2>6. /\ first.profile = row.profile /\ first.number = row.number
        /\ first.status = row.status
    BY DEF VersionType
  <2> HIDE DEF first, bare
  <2>7. after \in VersionType /\ after.form = bare /\ after.profile = first.profile
        /\ after.number = first.number /\ after.status = first.status
    BY <2>1, <2>3, <2>5 DEF VersionType
  <2>8. QED  BY <1>2, <2>3, <2>4, <2>6, <2>7
<1>3. QED  BY <1>1, <1>2

\* A version with one field changed.
LEMMA RowField ==
    ASSUME NEW row \in VersionType
    PROVE  /\ \A form \in Form : [row EXCEPT !.form = form] \in VersionType
           /\ \A lock \in Nat \ {0} : [row EXCEPT !.lock = lock] \in VersionType
           /\ \A status \in {"DRAFT", "PUBLISHED", "RETIRED"} :
                [row EXCEPT !.status = status] \in VersionType
BY DEF VersionType

\* What an edit changes in a version.
LEMMA EditedRow ==
    ASSUME NEW kind \in Kinds, NEW row \in VersionType, NEW form \in Form,
           NEW after, after = Edited(kind, row, form)
    PROVE  /\ after \in VersionType
           /\ after.profile = row.profile /\ after.number = row.number
           /\ after.status = row.status
           /\ after.form.document = form.document
           /\ kind = "BUSINESS_DATE" => ~after.form.window /\ after.form.lines = form.lines
           /\ kind # "BUSINESS_DATE" => after.lock > row.lock
<1> DEFINE content == Replacing(kind, row.form, form)
           filled == [row EXCEPT !.form = content]
           lock == row.lock + 1
           whole == [filled EXCEPT !.lock = lock]
<1>1. /\ content \in Form /\ content.document = form.document
      /\ kind = "BUSINESS_DATE" => content.lines = form.lines
  <2>1. CASE kind = "FREE_TIME"
    <3> DEFINE lines == form.lines \cup row.form.lines
    <3>1. lines \in SUBSET (Nat \X STRING)
      <4>1. row.form \in Form  BY DEF VersionType
      <4>2. QED  BY <4>1 DEF Form
    <3>2. content = [form EXCEPT !.lines = lines]  BY <2>1 DEF Replacing, Form
    <3> HIDE DEF lines
    <3>3. QED  BY <2>1, <3>1, <3>2 DEF Form
  <2>2. CASE kind # "FREE_TIME"  BY <2>2 DEF Replacing
  <2>3. QED  BY <2>1, <2>2
<1>2. row.lock \in Nat \ {0} /\ lock \in Nat \ {0} /\ lock > row.lock  BY DEF VersionType
<1>3. after = Stored(kind, whole)  BY DEF Edited, VersionType
<1> HIDE DEF content
<1>4. filled \in VersionType  BY <1>1, RowField
<1>5. /\ filled.profile = row.profile /\ filled.number = row.number
      /\ filled.status = row.status /\ filled.form = content
  BY DEF VersionType
<1> HIDE DEF filled, lock
<1>6. /\ whole \in VersionType
      /\ whole.profile = filled.profile /\ whole.number = filled.number
      /\ whole.status = filled.status /\ whole.form = filled.form /\ whole.lock = lock
  BY <1>2, <1>4, RowField DEF VersionType
<1> HIDE DEF whole
<1>7. QED  BY <1>1, <1>2, <1>3, <1>5, <1>6, StoredRow

\* What a publication changes in the version that is published.
LEMMA RowInForce ==
    ASSUME NEW kind \in Kinds, NEW row \in VersionType, NEW after,
           after = PutInForce(kind, row), kind = "BUSINESS_DATE" => ~row.form.window
    PROVE  /\ after \in VersionType
           /\ after.profile = row.profile /\ after.number = row.number
           /\ after.status = "PUBLISHED" /\ after.form = row.form
           /\ kind # "BUSINESS_DATE" => after.lock > row.lock
<1> DEFINE set == [row EXCEPT !.status = "PUBLISHED"]
           lock == row.lock + 1
           whole == [set EXCEPT !.lock = lock]
<1>1. row.lock \in Nat \ {0} /\ lock \in Nat \ {0} /\ lock > row.lock  BY DEF VersionType
<1>2. after = Stored(kind, whole)  BY DEF PutInForce, VersionType
<1>3. set \in VersionType  BY RowField
<1>4. /\ set.profile = row.profile /\ set.number = row.number
      /\ set.status = "PUBLISHED" /\ set.form = row.form
  BY DEF VersionType
<1> HIDE DEF set, lock
<1>5. /\ whole \in VersionType
      /\ whole.profile = set.profile /\ whole.number = set.number
      /\ whole.status = set.status /\ whole.form = set.form /\ whole.lock = lock
  BY <1>1, <1>3, RowField DEF VersionType
<1> HIDE DEF whole
<1>6. whole.form.window = row.form.window  BY <1>4, <1>5
<1>7. QED  BY <1>1, <1>2, <1>4, <1>5, <1>6, StoredRow

(***************************************************************************)
(* Profiles: steps                                                         *)
(***************************************************************************)

\* The first row of a version that is drafted.
LEMMA DraftFits ==
    ASSUME NEW profile \in ProfileType, profile.purpose \in PurposesOf(profile.kind),
           NEW form \in Forms[profile.kind], Accepted(profile.kind, profile.purpose, form),
           NEW p \in Nat, NEW n \in Nat \ {0},
           NEW row, row = NewVersion(profile.kind, p, n, form)
    PROVE  /\ row \in VersionType /\ row.profile = p /\ row.number = n
           /\ row.status = "DRAFT" /\ RowFits(row, profile)
<1> DEFINE kind == profile.kind
           draft == [profile |-> p, number |-> n, status |-> "DRAFT", lock |-> 1,
                     form |-> form]
<1>1. kind \in Kinds  BY DEF ProfileType
<1>2. form \in Form /\ (form.document => kind = "ALLOCATION")
  BY <1>1, ProfileConstants
<1>3. /\ draft \in VersionType /\ draft.profile = p /\ draft.number = n
      /\ draft.status = "DRAFT" /\ draft.form = form
  BY <1>2 DEF VersionType
<1>4. row = Stored(kind, draft)  BY DEF NewVersion
<1> HIDE DEF draft
<1>5. /\ row \in VersionType /\ row.profile = p /\ row.number = n
      /\ row.status = "DRAFT" /\ row.form.document = form.document
      /\ row.form.lines = form.lines
      /\ kind = "BUSINESS_DATE" => ~row.form.window
  BY <1>1, <1>3, <1>4, StoredRow
<1>6. kind = "BUSINESS_DATE" =>
        /\ row.form.lines # {}
        /\ (\E l \in row.form.lines : l[2] = "INVOICE_DATE")
            => profile.purpose = "PAYMENT_BASELINE_DATE"
  BY <1>5 DEF Accepted, PurposesOf
<1>7. QED  BY <1>2, <1>5, <1>6 DEF RowFits

\* A draft is added, and perhaps a profile without a version in force.
LEMMA DraftAdded ==
    ASSUME Tables, NEW row \in VersionType, versions' = Append(versions, row),
           row.status = "DRAFT", row.number <= Len(versions) + 1,
           profiles' \in Seq(ProfileType), DOMAIN profiles \subseteq DOMAIN profiles',
           \A p \in DOMAIN profiles : profiles'[p] = profiles[p],
           \A p \in DOMAIN profiles' \ DOMAIN profiles :
                /\ profiles'[p].published = NoValue
                /\ profiles'[p].purpose \in PurposesOf(profiles'[p].kind),
           row.profile \in DOMAIN profiles', RowFits(row, profiles'[row.profile])
    PROVE  Tables' /\ Evolves
<1>1. RowsFit  BY DEF Tables
<1>2. Len(versions) \in Nat /\ DOMAIN versions = 1 .. Len(versions)
      /\ \A v \in DOMAIN versions : versions[v] \in VersionType
  BY <1>1, TableRows
<1>3. /\ versions' \in Seq(VersionType)
      /\ DOMAIN versions' = 1 .. Len(versions) + 1
      /\ \A v \in DOMAIN versions : versions'[v] = versions[v]
      /\ versions'[Len(versions) + 1] = row
  BY <1>1, <1>2, AppendProperties, LenProperties DEF RowsFit
<1>4. \A v \in DOMAIN versions' : v \in DOMAIN versions \/ v = Len(versions) + 1
  BY <1>2, <1>3
<1>5. RowsFit'
  <2>1. ASSUME NEW v \in DOMAIN versions'
        PROVE  /\ versions'[v].profile \in DOMAIN profiles'
               /\ versions'[v].number <= v
               /\ RowFits(versions'[v], profiles'[versions'[v].profile])
    <3>1. CASE v \in DOMAIN versions
      BY <3>1, <1>1, <1>3 DEF RowsFit
    <3>2. CASE v = Len(versions) + 1  BY <3>2, <1>3
    <3>3. QED  BY <1>4, <3>1, <3>2
  <2>2. \A p \in DOMAIN profiles' : profiles'[p].purpose \in PurposesOf(profiles'[p].kind)
    BY <1>1 DEF RowsFit
  <2>3. QED  BY <1>3, <2>1, <2>2 DEF RowsFit
<1>6. OneInForce'  BY <1>3, <1>4 DEF Tables, OneInForce
<1>7. PointersLead'
  <2>1. ASSUME NEW p \in DOMAIN profiles', profiles'[p].published # NoValue
        PROVE  /\ profiles'[p].published \in DOMAIN versions'
               /\ versions'[profiles'[p].published].profile = p
               /\ versions'[profiles'[p].published].status = "PUBLISHED"
    <3>1. p \in DOMAIN profiles /\ profiles'[p] = profiles[p]  BY <2>1
    <3>2. QED  BY <2>1, <3>1, <1>2, <1>3 DEF Tables, PointersLead
  <2>2. ASSUME NEW v \in DOMAIN versions', versions'[v].status = "PUBLISHED"
        PROVE  profiles'[versions'[v].profile].published # NoValue
    <3>1. v \in DOMAIN versions  BY <2>2, <1>3, <1>4
    <3>2. versions'[v] = versions[v] /\ versions[v].profile \in DOMAIN profiles
      BY <3>1, <1>1, <1>3 DEF RowsFit
    <3>3. QED  BY <2>2, <3>1, <3>2 DEF Tables, PointersLead
  <2>3. QED  BY <2>1, <2>2 DEF PointersLead
<1>8. Evolves
  <2>1. \A v \in DOMAIN versions : RowKept(KindOf(v), versions[v], versions'[v])
    BY <1>2, <1>3 DEF RowKept, VersionType
  <2>2. QED  BY <1>2, <1>3, <2>1 DEF Evolves
<1>9. QED  BY <1>5, <1>6, <1>7, <1>8 DEF Tables

LEMMA CreateProfileStep ==
    ASSUME Tables, NEW kind \in Kinds, NEW code \in Codes, NEW owner \in Owners,
           NEW purpose \in PurposesOf(kind), NEW form \in Forms[kind],
           CreateProfile(kind, code, owner, purpose, form)
    PROVE  Tables' /\ Evolves
<1> DEFINE profile == [kind |-> kind, code |-> code, owner |-> owner, purpose |-> purpose,
                       published |-> NoValue]
           row == NewVersion(kind, Len(profiles) + 1, 1, form)
<1>1. RowsFit  BY DEF Tables
<1>2. /\ Len(profiles) \in Nat /\ DOMAIN profiles = 1 .. Len(profiles)
      /\ Len(versions) \in Nat
  BY <1>1, TableRows
<1>3. profile \in ProfileType /\ profile.kind = kind /\ profile.purpose = purpose
      /\ profile.published = NoValue
  BY DEF ProfileType
<1>4. Accepted(kind, purpose, form) /\ profiles' = Append(profiles, profile)
      /\ versions' = Append(versions, row)
  BY DEF CreateProfile
<1> HIDE DEF profile
<1>5. /\ row \in VersionType /\ row.profile = Len(profiles) + 1 /\ row.number = 1
      /\ row.status = "DRAFT" /\ RowFits(row, profile)
  <2>1. Len(profiles) + 1 \in Nat /\ 1 \in Nat \ {0}  BY <1>2
  <2>2. QED  BY <1>3, <1>4, <2>1, DraftFits
<1> HIDE DEF row
<1>6. /\ profiles' \in Seq(ProfileType)
      /\ DOMAIN profiles' = 1 .. Len(profiles) + 1
      /\ \A p \in DOMAIN profiles : profiles'[p] = profiles[p]
      /\ profiles'[Len(profiles) + 1] = profile
  BY <1>1, <1>2, <1>3, <1>4, AppendProperties, LenProperties DEF RowsFit
<1>7. \A p \in DOMAIN profiles' \ DOMAIN profiles : p = Len(profiles) + 1
  BY <1>2, <1>6
<1>8. DOMAIN profiles \subseteq DOMAIN profiles' /\ row.profile \in DOMAIN profiles'
  BY <1>2, <1>5, <1>6
<1>9. row.number <= Len(versions) + 1  BY <1>2, <1>5
<1>10. QED  BY <1>3, <1>4, <1>5, <1>6, <1>7, <1>8, <1>9, DraftAdded

LEMMA CreateVersionStep ==
    ASSUME Tables, NEW p \in DOMAIN profiles, NEW form \in Forms[profiles[p].kind],
           CreateVersion(p, form)
    PROVE  Tables' /\ Evolves
<1> DEFINE profile == profiles[p]
           row == NewVersion(profile.kind, p, NextNumber(p), form)
<1>1. RowsFit  BY DEF Tables
<1>2. /\ DOMAIN profiles = 1 .. Len(profiles) /\ Len(profiles) \in Nat
      /\ profile \in ProfileType /\ Len(versions) \in Nat
  BY <1>1, TableRows
<1>3. NextNumber(p) \in 1 .. Len(versions) + 1  BY <1>1, NextNumberInRange
<1>4. /\ Accepted(profile.kind, profile.purpose, form)
      /\ versions' = Append(versions, row) /\ profiles' = profiles
  BY DEF CreateVersion
<1>5. p \in Nat /\ NextNumber(p) \in Nat \ {0} /\ NextNumber(p) <= Len(versions) + 1
  BY <1>2, <1>3
<1>6. profile.purpose \in PurposesOf(profile.kind)  BY <1>1 DEF RowsFit
<1>7. /\ row \in VersionType /\ row.profile = p /\ row.number = NextNumber(p)
      /\ row.status = "DRAFT" /\ RowFits(row, profile)
  <2>1. form \in Forms[profile.kind]  OBVIOUS
  <2> DEFINE n == NextNumber(p)
  <2>2. n \in Nat \ {0}  BY <1>5
  <2>3. row = NewVersion(profile.kind, p, n, form)  OBVIOUS
  <2> HIDE DEF profile, row, n
  <2>4. QED  BY <2>1, <2>2, <2>3, <1>2, <1>4, <1>5, <1>6, DraftFits DEF n
<1> HIDE DEF row
<1>8. profiles' \in Seq(ProfileType)  BY <1>1, <1>4 DEF RowsFit
<1>9. QED  BY <1>4, <1>5, <1>7, <1>8, DraftAdded

LEMMA UpdateProfileStep ==
    ASSUME Tables, NEW p \in DOMAIN profiles, NEW code \in Codes, NEW owner \in Owners,
           UpdateProfile(p, code, owner)
    PROVE  Tables' /\ Evolves
<1> DEFINE coded == [profiles[p] EXCEPT !.code = code]
           after == [coded EXCEPT !.owner = owner]
<1>1. RowsFit  BY DEF Tables
<1>2. /\ DOMAIN profiles = 1 .. Len(profiles) /\ Len(profiles) \in Nat
      /\ \A q \in DOMAIN profiles : profiles[q] \in ProfileType
      /\ \A v \in DOMAIN versions : versions[v] \in VersionType
  BY <1>1, TableRows
<1>3. coded \in ProfileType  BY <1>2 DEF ProfileType
<1>4. after \in ProfileType
  <2> HIDE DEF coded
  <2>1. QED  BY <1>3 DEF ProfileType
<1>5. /\ after.kind = profiles[p].kind /\ after.purpose = profiles[p].purpose
      /\ after.published = profiles[p].published
  BY <1>2 DEF ProfileType
<1>6. profiles' = [profiles EXCEPT ![p] = after] /\ versions' = versions
  BY <1>2 DEF UpdateProfile, ProfileType
<1> HIDE DEF after
<1>7. /\ profiles' \in Seq(ProfileType) /\ DOMAIN profiles' = DOMAIN profiles
      /\ \A q \in DOMAIN profiles : profiles'[q] = IF q = p THEN after ELSE profiles[q]
  BY <1>1, <1>2, <1>4, <1>6, ExceptSeq, LenProperties DEF RowsFit
<1>8. \A q \in DOMAIN profiles :
        /\ profiles'[q].kind = profiles[q].kind /\ profiles'[q].purpose = profiles[q].purpose
        /\ profiles'[q].published = profiles[q].published
  BY <1>5, <1>7
<1>9. RowsFit'
  <2>1. \A v \in DOMAIN versions : RowFits(versions[v], profiles'[versions[v].profile])
    BY <1>1, <1>8 DEF RowsFit, RowFits
  <2>2. QED  BY <1>1, <1>6, <1>7, <1>8, <2>1 DEF RowsFit
<1>10. OneInForce'  BY <1>6 DEF Tables, OneInForce
<1>11. PointersLead'
  BY <1>1, <1>6, <1>7, <1>8 DEF Tables, PointersLead, RowsFit
<1>12. Evolves
  <2>1. \A v \in DOMAIN versions : RowKept(KindOf(v), versions[v], versions[v])
    BY <1>2 DEF RowKept, VersionType
  <2>2. QED  BY <1>6, <1>7, <1>8, <2>1 DEF Evolves
<1>13. QED  BY <1>9, <1>10, <1>11, <1>12 DEF Tables

LEMMA UpdateVersionStep ==
    ASSUME Tables, NEW v \in DOMAIN versions, NEW form \in Forms[KindOf(v)], NEW expected,
           UpdateVersion(v, form, expected)
    PROVE  Tables' /\ Evolves
<1> DEFINE old == versions[v]
           profile == profiles[old.profile]
           kind == profile.kind
           row == Edited(kind, old, form)
<1>1. RowsFit  BY DEF Tables
<1>2. /\ DOMAIN versions = 1 .. Len(versions) /\ Len(versions) \in Nat
      /\ \A w \in DOMAIN versions : versions[w] \in VersionType
      /\ profile \in ProfileType
  BY <1>1, TableRows DEF RowsFit
<1>3. /\ old.status # "PUBLISHED" /\ (kind = "CALCULATION" => old.status = "DRAFT")
      /\ Accepted(kind, profile.purpose, form)
      /\ versions' = [versions EXCEPT ![v] = row] /\ profiles' = profiles
  BY DEF UpdateVersion, Editable, KindOf
<1>4. kind \in Kinds /\ profile.purpose \in PurposesOf(kind)
  BY <1>1, <1>2 DEF ProfileType, RowsFit
<1>5. form \in Form /\ (form.document => kind = "ALLOCATION")
  BY <1>4, ProfileConstants DEF KindOf
<1>6. /\ row \in VersionType /\ row.profile = old.profile /\ row.number = old.number
      /\ row.status = old.status /\ row.form.document = form.document
      /\ kind = "BUSINESS_DATE" => ~row.form.window /\ row.form.lines = form.lines
      /\ kind # "BUSINESS_DATE" => row.lock > old.lock
  <2>1. old \in VersionType  BY <1>2
  <2> HIDE DEF old, kind
  <2>2. QED  BY <2>1, <1>4, <1>5, EditedRow
<1>7. RowFits(row, profile)
  <2>1. kind = "BUSINESS_DATE" =>
            form.lines # {} /\ ((\E l \in form.lines : l[2] = "INVOICE_DATE")
                                    => profile.purpose = "PAYMENT_BASELINE_DATE")
    BY <1>3, <1>4 DEF Accepted, PurposesOf
  <2> HIDE DEF row, profile
  <2>2. QED  BY <1>5, <1>6, <2>1 DEF RowFits
<1> HIDE DEF row
<1>8. /\ versions' \in Seq(VersionType) /\ DOMAIN versions' = DOMAIN versions
      /\ \A w \in DOMAIN versions : versions'[w] = IF w = v THEN row ELSE versions[w]
  BY <1>1, <1>2, <1>3, <1>6, ExceptSeq, LenProperties DEF RowsFit
<1>9. RowsFit'
  <2>1. ASSUME NEW w \in DOMAIN versions
        PROVE  /\ versions'[w].profile \in DOMAIN profiles
               /\ versions'[w].number <= w
               /\ RowFits(versions'[w], profiles[versions'[w].profile])
    <3>1. CASE w = v  BY <3>1, <1>1, <1>6, <1>7, <1>8 DEF RowsFit
    <3>2. CASE w # v  BY <3>2, <1>1, <1>8 DEF RowsFit
    <3>3. QED  BY <3>1, <3>2
  <2>2. QED  BY <1>1, <1>3, <1>8, <2>1 DEF RowsFit
<1>10. \A w \in DOMAIN versions' : versions'[w].status = "PUBLISHED" => w # v
  BY <1>3, <1>6, <1>8
<1>11. OneInForce'  BY <1>8, <1>10 DEF Tables, OneInForce
<1>12. PointersLead'
  <2>1. \A w \in DOMAIN versions :
            versions'[w].profile = versions[w].profile /\ versions'[w].status = versions[w].status
    BY <1>6, <1>8
  <2>2. QED  BY <1>3, <1>8, <2>1 DEF Tables, PointersLead
<1>13. Evolves
  <2>1. \A w \in DOMAIN versions : RowKept(KindOf(w), versions[w], versions'[w])
    <3>1. TAKE w \in DOMAIN versions
    <3>2. CASE w = v  BY <3>2, <1>3, <1>6, <1>8 DEF RowKept, KindOf
    <3>3. CASE w # v  BY <3>3, <1>2, <1>8 DEF RowKept, VersionType
    <3>4. QED  BY <3>2, <3>3
  <2>2. QED  BY <1>3, <1>8, <2>1 DEF Evolves
<1>14. QED  BY <1>9, <1>11, <1>12, <1>13 DEF Tables

LEMMA PublishVersionStep ==
    ASSUME Tables, NEW v \in DOMAIN versions, PublishVersion(v)
    PROVE  Tables' /\ Evolves
<1> DEFINE p == versions[v].profile
           pointed == [profiles[p] EXCEPT !.published = v]
<1>1. RowsFit  BY DEF Tables
<1>2. /\ DOMAIN versions = 1 .. Len(versions) /\ Len(versions) \in Nat
      /\ DOMAIN profiles = 1 .. Len(profiles) /\ Len(profiles) \in Nat
      /\ \A w \in DOMAIN versions : versions[w] \in VersionType
      /\ \A q \in DOMAIN profiles : profiles[q] \in ProfileType
      /\ p \in DOMAIN profiles
  BY <1>1, TableRows DEF RowsFit
<1>3. /\ versions' = Published(v)
      /\ KindOf(v) = "CALCULATION" => versions[v].status = "DRAFT"
  BY DEF PublishVersion, Publishable
<1>4. profiles' = [profiles EXCEPT ![p] = pointed]
  BY <1>2 DEF PublishVersion, ProfileType
<1>5. v \in Nat /\ v # NoValue  BY <1>2, ProfileConstants
<1>6. /\ pointed \in ProfileType /\ pointed.kind = profiles[p].kind
      /\ pointed.purpose = profiles[p].purpose /\ pointed.published = v
  BY <1>2, <1>5 DEF ProfileType
<1> HIDE DEF pointed
<1>7. /\ profiles' \in Seq(ProfileType) /\ DOMAIN profiles' = DOMAIN profiles
      /\ \A q \in DOMAIN profiles : profiles'[q] = IF q = p THEN pointed ELSE profiles[q]
  BY <1>1, <1>2, <1>4, <1>6, ExceptSeq, LenProperties DEF RowsFit
<1>8. \A q \in DOMAIN profiles :
        /\ profiles'[q].kind = profiles[q].kind /\ profiles'[q].purpose = profiles[q].purpose
        /\ profiles'[q].published = IF q = p THEN v ELSE profiles[q].published
  BY <1>6, <1>7
<1>9. DOMAIN versions' = DOMAIN versions  BY <1>3 DEF Published
<1>10. ASSUME NEW w \in DOMAIN versions
       PROVE  /\ versions'[w] \in VersionType
              /\ versions'[w].profile = versions[w].profile
              /\ versions'[w].number = versions[w].number
              /\ versions'[w].form = versions[w].form
              /\ KindOf(w) # "BUSINESS_DATE" => versions'[w].lock >= versions[w].lock
              /\ versions'[w].status = IF w = v THEN "PUBLISHED"
                                       ELSE IF Supersedes(versions[v], versions[w])
                                       THEN "RETIRED" ELSE versions[w].status
  <2>1. versions[w] \in VersionType /\ KindOf(w) \in Kinds
    BY <1>1, <1>2 DEF RowsFit, KindOf, ProfileType
  <2>2. versions[w].lock \in Nat  BY <2>1 DEF VersionType
  <2>3. CASE w = v
    <3>1. versions'[w] = PutInForce(KindOf(w), versions[w])  BY <2>3, <1>3 DEF Published
    <3>2. KindOf(w) = "BUSINESS_DATE" => ~versions[w].form.window
      BY <1>1 DEF RowsFit, RowFits, KindOf
    <3>3. /\ versions'[w] \in VersionType
          /\ versions'[w].profile = versions[w].profile
          /\ versions'[w].number = versions[w].number
          /\ versions'[w].status = "PUBLISHED" /\ versions'[w].form = versions[w].form
          /\ KindOf(w) # "BUSINESS_DATE" => versions'[w].lock > versions[w].lock
      BY <2>1, <3>1, <3>2, RowInForce
    <3>4. versions'[w].lock \in Nat  BY <3>3 DEF VersionType
    <3>5. QED  BY <2>2, <2>3, <3>3, <3>4
  <2>4. CASE w # v /\ Supersedes(versions[v], versions[w])
    <3>1. versions'[w] = [versions[w] EXCEPT !.status = "RETIRED"]
      BY <2>4, <1>3 DEF Published
    <3>2. QED  BY <2>1, <2>2, <2>4, <3>1 DEF VersionType
  <2>5. CASE w # v /\ ~Supersedes(versions[v], versions[w])
    <3>1. versions'[w] = versions[w]  BY <2>5, <1>3 DEF Published
    <3>2. QED  BY <2>1, <2>2, <2>5, <3>1
  <2>6. QED  BY <2>3, <2>4, <2>5
<1>11. versions' \in Seq(VersionType)
  <2>1. versions' = [w \in 1 .. Len(versions) |-> versions'[w]]
    BY <1>2, <1>3 DEF Published
  <2>2. versions' \in [1 .. Len(versions) -> VersionType]  BY <1>2, <1>10, <2>1
  <2>3. QED  BY <1>2, <2>2, SeqDef
<1>12. RowsFit'
  <2>1. ASSUME NEW w \in DOMAIN versions
        PROVE  /\ versions'[w].profile \in DOMAIN profiles'
               /\ versions'[w].number <= w
               /\ RowFits(versions'[w], profiles'[versions'[w].profile])
    <3>1. versions[w].profile \in DOMAIN profiles /\ versions[w].number <= w
          /\ RowFits(versions[w], profiles[versions[w].profile])
      BY <1>1 DEF RowsFit
    <3>2. QED  BY <1>7, <1>8, <1>10, <3>1 DEF RowFits
  <2>2. QED  BY <1>1, <1>7, <1>8, <1>9, <1>11, <2>1 DEF RowsFit
<1>13. OneInForce'
  <2>1. ASSUME NEW x \in DOMAIN versions, NEW y \in DOMAIN versions,
               versions'[x].status = "PUBLISHED", versions'[y].status = "PUBLISHED",
               versions[x].profile = versions[y].profile,
               versions[x].form.document = versions[y].form.document,
               x # v
        PROVE  x = y
    <3>1. versions[x].status = "PUBLISHED" /\ ~Supersedes(versions[v], versions[x])
      BY <2>1, <1>10
    <3>2. y # v  BY <2>1, <3>1 DEF Supersedes
    <3>3. versions[y].status = "PUBLISHED"  BY <2>1, <3>2, <1>10
    <3>4. QED  BY <2>1, <3>1, <3>3 DEF Tables, OneInForce
  <2>2. QED  BY <1>9, <1>10, <2>1 DEF OneInForce
<1>14. PointersLead'
  <2>1. ASSUME NEW q \in DOMAIN profiles, profiles'[q].published # NoValue
        PROVE  /\ profiles'[q].published \in DOMAIN versions
               /\ versions'[profiles'[q].published].profile = q
               /\ versions'[profiles'[q].published].status = "PUBLISHED"
    <3>1. CASE q = p  BY <3>1, <1>8, <1>10
    <3>2. CASE q # p
      <4> DEFINE w == profiles[q].published
      <4>1. profiles'[q].published = w  BY <3>2, <1>8
      <4>2. w \in DOMAIN versions /\ versions[w].profile = q /\ versions[w].status = "PUBLISHED"
        BY <2>1, <4>1 DEF Tables, PointersLead
      <4>3. w # v /\ ~Supersedes(versions[v], versions[w])
        BY <3>2, <4>2 DEF Supersedes
      <4> HIDE DEF w
      <4>4. QED  BY <4>1, <4>2, <4>3, <1>10
    <3>3. QED  BY <3>1, <3>2
  <2>2. ASSUME NEW w \in DOMAIN versions, versions'[w].status = "PUBLISHED"
        PROVE  profiles'[versions[w].profile].published # NoValue
    <3>1. versions[w].profile \in DOMAIN profiles  BY <1>1 DEF RowsFit
    <3>2. CASE versions[w].profile = p  BY <3>1, <3>2, <1>5, <1>8
    <3>3. CASE versions[w].profile # p
      <4>1. w # v /\ versions[w].status = "PUBLISHED"  BY <2>2, <3>3, <1>10
      <4>2. QED  BY <3>1, <3>3, <4>1, <1>8 DEF Tables, PointersLead
    <3>4. QED  BY <3>2, <3>3
  <2>3. QED  BY <1>7, <1>9, <1>10, <2>1, <2>2 DEF PointersLead
<1>15. Evolves
  <2>1. ASSUME NEW w \in DOMAIN versions
        PROVE  RowKept(KindOf(w), versions[w], versions'[w])
    <3>1. versions[w].lock \in Nat /\ versions'[w].lock \in Nat
      BY <1>2, <1>10 DEF VersionType
    <3>2. KindOf(w) = "CALCULATION" /\ versions[w].status # "DRAFT" => w # v
      BY <1>3
    <3>3. QED  BY <1>10, <3>1, <3>2 DEF RowKept
  <2>2. QED  BY <1>5, <1>7, <1>8, <1>9, <2>1 DEF Evolves
<1>16. QED  BY <1>12, <1>13, <1>14, <1>15 DEF Tables

\* The tables alone do not disturb assignments.
LEMMA AssignmentsKept ==
    ASSUME ProfileInv, Evolves, assignments' = assignments
    PROVE  AssignmentsFit'
<1>1. \A a \in assignments :
        /\ a.profile \in DOMAIN profiles
        /\ profiles[a.profile].kind = "BUSINESS_DATE"
        /\ profiles[a.profile].published # NoValue
  BY DEF ProfileInv, AssignmentsFit
<1>2. \A a \in assignments :
        /\ a.profile \in DOMAIN profiles'
        /\ profiles'[a.profile].kind = "BUSINESS_DATE"
        /\ profiles'[a.profile].published # NoValue
        /\ profiles'[a.profile].purpose = profiles[a.profile].purpose
  BY <1>1 DEF Evolves
<1>3. QED  BY <1>2 DEF ProfileInv, AssignmentsFit

\* What an editor has seen stays true, or has a higher lock version.
LEMMA OpenedKept ==
    ASSUME ProfileInv, Evolves, Tables', opened' = opened
    PROVE  OpenedFits'
<1> SUFFICES ASSUME opened # NoValue
             PROVE  /\ opened.id \in DOMAIN versions' /\ opened.lock \in Nat
                    /\ opened.form \in Form
                    /\ KindOf(opened.id)' # "BUSINESS_DATE" =>
                        /\ opened.lock <= versions'[opened.id].lock
                        /\ versions'[opened.id].lock = opened.lock
                            => versions'[opened.id].form = opened.form
  BY DEF OpenedFits, SeenByEditor
<1> DEFINE v == opened.id
<1>1. v \in DOMAIN versions /\ opened.lock \in Nat /\ opened.form \in Form
  BY DEF ProfileInv, OpenedFits
<1>2. RowsFit /\ RowsFit'  BY DEF ProfileInv, Tables
<1>3. v \in DOMAIN versions' /\ RowKept(KindOf(v), versions[v], versions'[v])
  BY <1>1 DEF Evolves
<1>4. KindOf(v)' = KindOf(v)
  <2>1. versions[v].profile \in DOMAIN profiles  BY <1>1, <1>2 DEF RowsFit
  <2>2. versions'[v].profile = versions[v].profile  BY <1>3 DEF RowKept
  <2>3. QED  BY <2>1, <2>2 DEF Evolves, KindOf
<1>5. versions[v].lock \in Nat
  <2>1. versions[v] \in VersionType  BY <1>1, <1>2, TableRows
  <2>2. QED  BY <2>1 DEF VersionType
<1>6. versions'[v].lock \in Nat
  <2>1. versions' \in Seq(VersionType)  BY <1>2 DEF RowsFit
  <2>2. versions'[v] \in VersionType  BY <1>3, <2>1, LenProperties, ElementOfSeq
  <2>3. QED  BY <2>2 DEF VersionType
<1>7. KindOf(v) # "BUSINESS_DATE" =>
        /\ opened.lock <= versions[v].lock
        /\ versions[v].lock = opened.lock => versions[v].form = opened.form
  BY DEF ProfileInv, OpenedFits, SeenByEditor
<1>8. KindOf(v) # "BUSINESS_DATE" =>
        /\ opened.lock <= versions'[v].lock
        /\ versions'[v].lock = opened.lock => versions'[v].form = opened.form
  <2> HIDE DEF v
  <2>1. QED  BY <1>1, <1>3, <1>5, <1>6, <1>7 DEF RowKept
<1>9. QED  BY <1>1, <1>3, <1>4, <1>8

\* A step on the tables.
LEMMA TableStep ==
    ASSUME ProfileInv, Tables', Evolves, assignments' = assignments, opened' = opened
    PROVE  ProfileInv' /\ Evolves
BY AssignmentsKept, OpenedKept DEF ProfileInv

\* A step that leaves the tables alone.
LEMMA TablesKept ==
    ASSUME ProfileInv, profiles' = profiles, versions' = versions
    PROVE  Tables' /\ Evolves
<1>1. Tables'  BY DEF ProfileInv, Tables, RowsFit, OneInForce, PointersLead
<1>2. \A v \in DOMAIN versions : versions[v] \in VersionType
  BY TableRows DEF ProfileInv, Tables
<1>3. \A v \in DOMAIN versions : RowKept(KindOf(v), versions[v], versions[v])
  BY <1>2 DEF RowKept, VersionType
<1>4. QED  BY <1>1, <1>3 DEF Evolves

LEMMA OpenVersionStep ==
    ASSUME ProfileInv, NEW v \in DOMAIN versions, OpenVersion(v)
    PROVE  ProfileInv' /\ Evolves
<1>1. Tables' /\ Evolves  BY TablesKept DEF OpenVersion
<1>2. AssignmentsFit'  BY <1>1, AssignmentsKept DEF OpenVersion
<1>3. versions[v].lock \in Nat /\ versions[v].form \in Form
  <2>1. versions[v] \in VersionType  BY TableRows DEF ProfileInv, Tables
  <2>2. QED  BY <2>1 DEF VersionType
<1>4. /\ opened' = [id |-> v, lock |-> versions[v].lock, form |-> versions[v].form]
      /\ versions' = versions
  BY DEF OpenVersion
<1>5. OpenedFits'  BY <1>3, <1>4 DEF OpenedFits, SeenByEditor
<1>6. QED  BY <1>1, <1>2, <1>5 DEF ProfileInv

\* A profile that can be assigned has a version in force, and its pointer leads
\* there.
LEMMA AssignableProfile ==
    ASSUME Tables, NEW p \in DOMAIN profiles, Assignable(p)
    PROVE  profiles[p].kind = "BUSINESS_DATE" /\ profiles[p].published # NoValue
<1>1. profiles[p].kind = "BUSINESS_DATE" /\ DateVersion(p) # NoValue  BY DEF Assignable
<1>2. PICK v \in PublishedVersions(p) : TRUE  BY <1>1 DEF DateVersion, Latest
<1>3. v \in DOMAIN versions /\ versions[v].profile = p /\ versions[v].status = "PUBLISHED"
  BY <1>2 DEF PublishedVersions, VersionsOf
<1>4. QED  BY <1>1, <1>3 DEF Tables, PointersLead

\* An assignment to a profile in force, for a purpose and scope that no
\* assignment that stays has.
LEMMA AssignmentAdded ==
    ASSUME ProfileInv, UNCHANGED <<profiles, versions, opened>>,
           NEW p \in DOMAIN profiles, Assignable(p), NEW scope \in Scopes,
           NEW active \in BOOLEAN, NEW gone, AssignmentFree(p, scope, gone),
           assignments' = (assignments \ gone)
                            \cup {[profile |-> p, scope |-> scope, active |-> active]}
    PROVE  ProfileInv' /\ Evolves
<1> DEFINE new == [profile |-> p, scope |-> scope, active |-> active]
<1>1. Tables' /\ Evolves  BY TablesKept
<1>2. OpenedFits'  BY <1>1, OpenedKept
<1>3. profiles[p].kind = "BUSINESS_DATE" /\ profiles[p].published # NoValue
  BY AssignableProfile DEF ProfileInv
<1>4. /\ new \in AssignmentType /\ new.profile = p /\ new.scope = scope
  <2>1. p \in Nat  BY TableRows DEF ProfileInv, Tables
  <2>2. QED  BY <2>1 DEF AssignmentType
<1>5. \A a \in assignments \ gone :
        profiles[a.profile].purpose = profiles[p].purpose => a.scope # scope
  BY DEF AssignmentFree
<1>6. AssignmentsFit  BY DEF ProfileInv
<1>7. assignments' = (assignments \ gone) \cup {new} /\ profiles' = profiles  OBVIOUS
<1> HIDE DEF new
<1>8. AssignmentsFit'
  <2>1. assignments' \subseteq AssignmentType  BY <1>4, <1>6, <1>7 DEF AssignmentsFit
  <2>2. \A a \in assignments' :
            /\ a.profile \in DOMAIN profiles
            /\ profiles[a.profile].kind = "BUSINESS_DATE"
            /\ profiles[a.profile].published # NoValue
    BY <1>3, <1>4, <1>6, <1>7 DEF AssignmentsFit
  <2>3. ASSUME NEW a \in assignments', NEW b \in assignments', a.scope = b.scope,
               profiles[a.profile].purpose = profiles[b.profile].purpose
        PROVE  a = b
    <3>1. CASE a = new /\ b = new  BY <3>1
    <3>2. CASE a = new /\ b # new  BY <2>3, <3>2, <1>4, <1>5, <1>7
    <3>3. CASE a # new /\ b = new  BY <2>3, <3>3, <1>4, <1>5, <1>7
    <3>4. CASE a # new /\ b # new
      BY <2>3, <3>4, <1>6, <1>7 DEF AssignmentsFit
    <3>5. QED  BY <3>1, <3>2, <3>3, <3>4
  <2>4. QED  BY <1>7, <2>1, <2>2, <2>3 DEF AssignmentsFit
<1>9. QED  BY <1>1, <1>2, <1>8 DEF ProfileInv

LEMMA AssignmentStepKeeps ==
    ASSUME ProfileInv, AssignmentStep
    PROVE  ProfileInv' /\ Evolves
<1>1. PICK scope \in Scopes, active \in BOOLEAN :
        \/ \E p \in DOMAIN profiles : CreateAssignment(p, scope, active)
        \/ \E a \in assignments : UpdateAssignment(a, scope, active) \/ DeleteAssignment(a)
  BY DEF AssignmentStep
<1>2. ASSUME NEW p \in DOMAIN profiles, CreateAssignment(p, scope, active)
      PROVE  ProfileInv' /\ Evolves
  <2> DEFINE new == [profile |-> p, scope |-> scope, active |-> active]
  <2>1. /\ assignments' = (assignments \ {}) \cup {new}
        /\ UNCHANGED <<profiles, versions, opened>>
        /\ Assignable(p) /\ AssignmentFree(p, scope, {})
    BY <1>2 DEF CreateAssignment
  <2>2. QED  BY <2>1, AssignmentAdded
<1>3. ASSUME NEW a \in assignments, UpdateAssignment(a, scope, active)
      PROVE  ProfileInv' /\ Evolves
  <2> DEFINE p == a.profile
             gone == {a}
             new == [profile |-> p, scope |-> scope, active |-> active]
  <2>1. /\ assignments' = (assignments \ gone) \cup {new}
        /\ UNCHANGED <<profiles, versions, opened>>
        /\ Assignable(p) /\ AssignmentFree(p, scope, gone)
    BY <1>3 DEF UpdateAssignment
  <2>2. p \in DOMAIN profiles  BY DEF ProfileInv, AssignmentsFit
  <2> HIDE DEF p, gone
  <2>3. QED  BY <2>1, <2>2, AssignmentAdded
<1>4. ASSUME NEW a \in assignments, DeleteAssignment(a)
      PROVE  ProfileInv' /\ Evolves
  <2>1. /\ assignments' \subseteq assignments /\ UNCHANGED <<profiles, versions, opened>>
    BY <1>4 DEF DeleteAssignment
  <2>2. Tables' /\ Evolves  BY <2>1, TablesKept
  <2>3. OpenedFits'  BY <2>1, <2>2, OpenedKept
  <2>4. AssignmentsFit'  BY <2>1 DEF ProfileInv, AssignmentsFit
  <2>5. QED  BY <2>2, <2>3, <2>4 DEF ProfileInv
<1>5. QED  BY <1>1, <1>2, <1>3, <1>4

LEMMA VersionStepKeeps ==
    ASSUME ProfileInv, VersionStep
    PROVE  ProfileInv' /\ Evolves
<1>1. Tables  BY DEF ProfileInv
<1>2. ASSUME NEW kind \in Kinds, NEW code \in Codes, NEW owner \in Owners,
             NEW purpose \in PurposesOf(kind), NEW form \in Forms[kind],
             CreateProfile(kind, code, owner, purpose, form)
      PROVE  ProfileInv' /\ Evolves
  <2>1. Tables' /\ Evolves  BY <1>1, <1>2, CreateProfileStep
  <2>2. QED  BY <1>2, <2>1, TableStep DEF CreateProfile
<1>3. ASSUME NEW p \in DOMAIN profiles, NEW code \in Codes, NEW owner \in Owners,
             UpdateProfile(p, code, owner)
      PROVE  ProfileInv' /\ Evolves
  <2>1. Tables' /\ Evolves  BY <1>1, <1>3, UpdateProfileStep
  <2>2. QED  BY <1>3, <2>1, TableStep DEF UpdateProfile
<1>4. ASSUME NEW p \in DOMAIN profiles, NEW form \in Forms[profiles[p].kind],
             CreateVersion(p, form)
      PROVE  ProfileInv' /\ Evolves
  <2>1. Tables' /\ Evolves  BY <1>1, <1>4, CreateVersionStep
  <2>2. QED  BY <1>4, <2>1, TableStep DEF CreateVersion
<1>5. ASSUME NEW v \in DOMAIN versions, OpenVersion(v)
      PROVE  ProfileInv' /\ Evolves
  BY <1>5, OpenVersionStep
<1>6. ASSUME NEW v \in DOMAIN versions, PublishVersion(v)
      PROVE  ProfileInv' /\ Evolves
  <2>1. Tables' /\ Evolves  BY <1>1, <1>6, PublishVersionStep
  <2>2. QED  BY <1>6, <2>1, TableStep DEF PublishVersion
<1>7. ASSUME NEW v \in DOMAIN versions, NEW form \in Forms[KindOf(v)], NEW expected,
             UpdateVersion(v, form, expected)
      PROVE  ProfileInv' /\ Evolves
  <2>1. Tables' /\ Evolves  BY <1>1, <1>7, UpdateVersionStep
  <2>2. QED  BY <1>7, <2>1, TableStep DEF UpdateVersion
<1>8. QED  BY <1>2, <1>3, <1>4, <1>5, <1>6, <1>7 DEF VersionStep

LEMMA ProfileStep ==
    ASSUME ProfileInv, [ProfileNext]_profileVars
    PROVE  ProfileInv' /\ Evolves
<1>1. CASE VersionStep  BY <1>1, VersionStepKeeps
<1>2. CASE AssignmentStep  BY <1>2, AssignmentStepKeeps
<1>3. CASE UNCHANGED profileVars
  <2>1. /\ profiles' = profiles /\ versions' = versions /\ assignments' = assignments
        /\ opened' = opened
    BY <1>3 DEF profileVars
  <2>2. Tables' /\ Evolves  BY <2>1, TablesKept
  <2>3. QED  BY <2>1, <2>2, TableStep
<1>4. QED  BY <1>1, <1>2, <1>3 DEF ProfileNext

(***************************************************************************)
(* Profiles: the invariant is kept                                         *)
(***************************************************************************)

LEMMA ProfileInitially == ProfileInit => ProfileInv
<1> SUFFICES ASSUME ProfileInit PROVE ProfileInv
  OBVIOUS
<1>1. AssignmentsFit /\ OpenedFits  BY DEF ProfileInit, AssignmentsFit, OpenedFits
<1>2. CASE profiles = << >> /\ versions = << >>
  <2>1. DOMAIN profiles = {} /\ DOMAIN versions = {}  BY <1>2
  <2>2. profiles \in Seq(ProfileType) /\ versions \in Seq(VersionType)
    BY <1>2, EmptySeq
  <2>3. Tables  BY <2>1, <2>2 DEF Tables, RowsFit, OneInForce, PointersLead
  <2>4. QED  BY <1>1, <2>3 DEF ProfileInv
<1>3. ASSUME NEW kind \in Kinds \ {"FREE_TIME"}, NEW code \in Codes,
             NEW purpose \in PurposesOf(kind) \ {"PAYMENT_BASELINE_DATE"},
             NEW form \in Forms[kind],
             Accepted(kind, purpose, form), Seeded(kind, code, purpose, form)
      PROVE  ProfileInv
  <2> DEFINE profile == [kind |-> kind, code |-> code, owner |-> "SYSTEM",
                         purpose |-> purpose, published |-> 1]
             seed == [profile |-> 1, number |-> 1, status |-> "PUBLISHED",
                      lock |-> 1, form |-> form]
             row == Stored(kind, seed)
  <2>1. form \in Form /\ (form.document => kind = "ALLOCATION")  BY ProfileConstants
  <2>2. /\ profile \in ProfileType /\ profile.kind = kind /\ profile.purpose = purpose
        /\ profile.published = 1
    <3>1. purpose \in UNION {PurposesOf(k) : k \in Kinds}  OBVIOUS
    <3>2. "SYSTEM" \in Owners  BY ProfileConstants
    <3>3. QED  BY <3>1, <3>2 DEF ProfileType
  <2>3. seed \in VersionType /\ seed.profile = 1 /\ seed.number = 1
        /\ seed.status = "PUBLISHED" /\ seed.form = form
    BY <2>1 DEF VersionType
  <2>4. profiles = <<profile>> /\ versions = <<row>>  BY <1>3 DEF Seeded
  <2> HIDE DEF profile, seed
  <2>5. /\ row \in VersionType /\ row.profile = 1 /\ row.number = 1
        /\ row.status = "PUBLISHED" /\ row.form.document = form.document
        /\ row.form.lines = form.lines
        /\ kind = "BUSINESS_DATE" => ~row.form.window
    BY <2>3, StoredRow
  <2>6. RowFits(row, profile)
    <3>1. kind = "BUSINESS_DATE" =>
            form.lines # {} /\ ~ \E l \in form.lines : l[2] = "INVOICE_DATE"
      BY <1>3 DEF Accepted, PurposesOf
    <3> HIDE DEF row
    <3>2. QED  BY <2>1, <2>2, <2>5, <3>1 DEF RowFits
  <2> HIDE DEF row
  <2>7. /\ profiles \in Seq(ProfileType) /\ DOMAIN profiles = {1} /\ profiles[1] = profile
        /\ versions \in Seq(VersionType) /\ DOMAIN versions = {1} /\ versions[1] = row
    BY <2>2, <2>4, <2>5
  <2>8. RowsFit
    <3>1. purpose \in PurposesOf(kind)  OBVIOUS
    <3>2. \A p \in DOMAIN profiles : profiles[p].purpose \in PurposesOf(profiles[p].kind)
      BY <2>2, <2>7, <3>1
    <3>3. QED  BY <2>5, <2>6, <2>7, <3>2 DEF RowsFit
  <2>9. OneInForce  BY <2>7 DEF OneInForce
  <2>10. PointersLead
    <3>1. 1 # NoValue  BY ProfileConstants
    <3>2. QED  BY <2>2, <2>5, <2>7, <3>1 DEF PointersLead
  <2>11. QED  BY <1>1, <2>8, <2>9, <2>10 DEF ProfileInv, Tables
<1>4. QED  BY <1>2, <1>3 DEF ProfileInit

\* A profile that distributes no documents has at most the version its pointer
\* leads to in force, and every call finds it.
LEMMA OneVersionFound ==
    ASSUME Tables, NEW p \in DOMAIN profiles, profiles[p].kind # "ALLOCATION"
    PROVE  profiles[p].published = DateVersion(p)
<1> DEFINE pointer == profiles[p].published
<1>1. RowsFit  BY DEF Tables
<1>2. ASSUME NEW v \in PublishedVersions(p)
      PROVE  pointer # NoValue /\ v = pointer
  <2>1. v \in DOMAIN versions /\ versions[v].profile = p /\ versions[v].status = "PUBLISHED"
    BY DEF PublishedVersions, VersionsOf
  <2>2. /\ pointer # NoValue /\ pointer \in DOMAIN versions
        /\ versions[pointer].profile = p /\ versions[pointer].status = "PUBLISHED"
    BY <2>1 DEF Tables, PointersLead
  <2>3. \A w \in DOMAIN versions : versions[w].profile = p =>
            versions[w].form.document = FALSE
    <3>1. \A w \in DOMAIN versions : versions[w].form.document \in BOOLEAN
      <4>1. \A w \in DOMAIN versions : versions[w].form \in Form
        BY <1>1, TableRows DEF VersionType
      <4>2. QED  BY <4>1 DEF Form
    <3>2. QED  BY <1>1, <3>1 DEF RowsFit, RowFits
  <2>4. versions[v].form.document = versions[pointer].form.document
    BY <2>1, <2>2, <2>3
  <2>5. QED  BY <2>1, <2>2, <2>4 DEF Tables, OneInForce
<1>3. CASE pointer = NoValue
  <2>1. PublishedVersions(p) = {}  BY <1>2, <1>3
  <2>2. QED  BY <1>3, <2>1 DEF DateVersion, Latest
<1>4. CASE pointer # NoValue
  <2>1. pointer \in PublishedVersions(p)
    BY <1>4 DEF Tables, PointersLead, PublishedVersions, VersionsOf
  <2>2. PublishedVersions(p) = {pointer}  BY <1>2, <2>1
  <2>3. versions[pointer].number <= versions[pointer].number
    <3>1. pointer \in DOMAIN versions  BY <1>4 DEF Tables, PointersLead
    <3>2. versions[pointer].number \in Nat  BY <1>1, <3>1, TableRows DEF VersionType
    <3>3. QED  BY <3>2
  <2> HIDE DEF pointer
  <2>4. DateVersion(p) = pointer  BY <2>2, <2>3 DEF DateVersion, Latest
  <2>5. QED  BY <2>4 DEF pointer
<1>5. QED  BY <1>3, <1>4

\* What the invariant says of the properties.
LEMMA ProfileConsequences ==
    ASSUME ProfileInv
    PROVE  ProfileTypeOK /\ OnePublishedVersion /\ OneAssignmentApplies
             /\ EditsOverwriteWhatWasSeen
<1>1. RowsFit /\ OneInForce /\ PointersLead /\ Tables  BY DEF ProfileInv, Tables
<1>2. ProfileTypeOK
  <2>1. profiles \in Seq(ProfileType) /\ versions \in Seq(VersionType)  BY <1>1 DEF RowsFit
  <2>2. \A v \in DOMAIN versions :
            /\ versions[v].profile \in DOMAIN profiles
            /\ versions[v].form.document => KindOf(v) = "ALLOCATION"
            /\ KindOf(v) = "BUSINESS_DATE" =>
                /\ versions[v].form.lines # {}
                /\ (\E l \in versions[v].form.lines : l[2] = "INVOICE_DATE")
                    => profiles[versions[v].profile].purpose = "PAYMENT_BASELINE_DATE"
    BY <1>1 DEF RowsFit, RowFits, KindOf
  <2>3. /\ assignments \subseteq AssignmentType
        /\ \A a \in assignments :
            a.profile \in DOMAIN profiles /\ profiles[a.profile].kind = "BUSINESS_DATE"
    BY DEF ProfileInv, AssignmentsFit
  <2>4. IsOpened(opened)  BY DEF ProfileInv, OpenedFits, IsOpened
  <2>5. QED  BY <2>1, <2>2, <2>3, <2>4 DEF ProfileTypeOK
<1>3. OnePublishedVersion
  <2>1. \A p \in DOMAIN profiles :
            profiles[p].published # NoValue => profiles[p].published \in PublishedVersions(p)
    BY <1>1 DEF PointersLead, PublishedVersions, VersionsOf
  <2>2. \A p \in DOMAIN profiles :
            profiles[p].kind # "ALLOCATION" => profiles[p].published = DateVersion(p)
    BY <1>1, OneVersionFound
  <2>3. QED  BY <1>1, <2>1, <2>2 DEF OneInForce, OnePublishedVersion
<1>4. OneAssignmentApplies
  <2>1. ASSUME NEW a \in assignments PROVE DateVersion(a.profile) # NoValue
    <3>1. /\ a.profile \in DOMAIN profiles /\ profiles[a.profile].kind = "BUSINESS_DATE"
          /\ profiles[a.profile].published # NoValue
      BY DEF ProfileInv, AssignmentsFit
    <3>2. QED  BY <1>1, <3>1, OneVersionFound
  <2>2. QED  BY <2>1 DEF ProfileInv, AssignmentsFit, OneAssignmentApplies
<1>5. EditsOverwriteWhatWasSeen
  BY DEF ProfileInv, OpenedFits, EditsOverwriteWhatWasSeen
<1>6. QED  BY <1>2, <1>3, <1>4, <1>5

LEMMA EvolvesKeepsPublished ==
    ASSUME ProfileInv, Evolves
    PROVE  \A v \in DOMAIN versions :
            /\ versions[v].status = "PUBLISHED"
                => versions'[v].form = versions[v].form /\ versions'[v].status # "DRAFT"
            /\ KindOf(v) = "CALCULATION" /\ versions[v].status # "DRAFT"
                => /\ versions'[v].form = versions[v].form
                   /\ versions'[v].status \in {versions[v].status, "RETIRED"}
BY DEF Evolves, RowKept

(***************************************************************************)
(* Profiles: theorems                                                      *)
(***************************************************************************)

\* The tables, the assignments and what editors have seen fit together in
\* every reachable state: by induction over the operations.
THEOREM ProfileInvariant == ProfileSpec => []ProfileInv
<1>1. ProfileInit => ProfileInv  BY ProfileInitially
<1>2. ProfileInv /\ [ProfileNext]_profileVars => ProfileInv'  BY ProfileStep
<1>3. QED  BY <1>1, <1>2, PTL DEF ProfileSpec

\* Profiles, versions and assignments are records that refer to one another,
\* and versions have what their kind asks for.
THEOREM ProfilesWellTyped == ProfileSpec => []ProfileTypeOK
<1>1. ProfileInv => ProfileTypeOK  BY ProfileConsequences
<1>2. QED  BY <1>1, ProfileInvariant, PTL

\* At most one version of a profile is in force (per distribution of documents),
\* and the pointer and the highest published number find the same one
\* (publish_*_profile_version, _require_published_*_profile_version).
THEOREM VersionInForceIsUnique == ProfileSpec => []OnePublishedVersion
<1>1. ProfileInv => OnePublishedVersion  BY ProfileConsequences
<1>2. QED  BY <1>1, ProfileInvariant, PTL

\* Priorities never decide between the assignments of a purpose, and an
\* assigned profile never runs out of a version in force
\* (_business_date_profile_assignment_exists).
THEOREM AssignmentIsUnambiguous == ProfileSpec => []OneAssignmentApplies
<1>1. ProfileInv => OneAssignmentApplies  BY ProfileConsequences
<1>2. QED  BY <1>1, ProfileInvariant, PTL

\* A version whose lock version is the one an editor sends reads as that editor
\* saw it, dates excepted (expected_lock_version).
THEOREM NothingUnseenOverwritten == ProfileSpec => []EditsOverwriteWhatWasSeen
<1>1. ProfileInv => EditsOverwriteWhatWasSeen  BY ProfileConsequences
<1>2. QED  BY <1>1, ProfileInvariant, PTL

\* No step edits the version in force, nor a calculation that was once
\* published (update_*_profile_version).
THEOREM VersionsInForceAreKept == ProfileSpec => PublishedVersionsKept
<1> DEFINE Kept ==
        \A v \in DOMAIN versions :
            /\ versions[v].status = "PUBLISHED"
                => versions'[v].form = versions[v].form /\ versions'[v].status # "DRAFT"
            /\ KindOf(v) = "CALCULATION" /\ versions[v].status # "DRAFT"
                => /\ versions'[v].form = versions[v].form
                   /\ versions'[v].status \in {versions[v].status, "RETIRED"}
<1>1. ProfileInv /\ [ProfileNext]_profileVars => Kept  BY ProfileStep, EvolvesKeepsPublished
<1>2. ProfileSpec => [][Kept]_profileVars
  <2> HIDE DEF Kept
  <2>1. QED  BY <1>1, ProfileInvariant, PTL DEF ProfileSpec
<1>3. QED  BY <1>2 DEF PublishedVersionsKept

\* From here on: components beside profiles.

(***************************************************************************)
(* Components: the inductive invariant                                     *)
(***************************************************************************)

\* What a component refers to in the tables ps of profiles and vs of versions.
\* A date profile has its pointer, which is never taken away: that is why it
\* still has a version in force later.
ReferencesFit(ps, vs, row) ==
    /\ row.date # NoValue =>
        /\ row.date \in DOMAIN ps /\ ps[row.date].kind = "BUSINESS_DATE"
        /\ ps[row.date].purpose = "EXCHANGE_RATE_DATE"
        /\ ps[row.date].published # NoValue
    /\ row.calculation # NoValue =>
        row.calculation \in DOMAIN ps /\ ps[row.calculation].kind = "CALCULATION"
    /\ (row.pinned = NoValue) = (row.allocation = NoValue)
    /\ row.pinned # NoValue =>
        row.pinned \in DOMAIN vs /\ vs[row.pinned].profile = row.allocation

\* uq_charge_component_code: inactive components count.
CodesUnique ==
    \A c, d \in DOMAIN components :
        components[c].code = components[d].code /\ components[c].owner = components[d].owner
        => c = d

ComponentsFit ==
    /\ components \in Seq(ComponentType)
    /\ \A c \in DOMAIN components : ReferencesFit(profiles, versions, components[c])
    /\ CodesUnique

AliasesFit ==
    /\ aliases \in Seq(AliasType)
    /\ \A a \in DOMAIN aliases :
        /\ aliases[a].component \in DOMAIN components
        /\ AliasFits(aliases[a].component, aliases[a].forwarder)

\* Rows are linked to components of everybody, the only ones found by a code.
LinksFit ==
    \A l \in links :
        /\ l \in LinkType /\ l.stored \in {l.named, NoValue}
        /\ l.stored # NoValue =>
            l.stored \in DOMAIN components /\ components[l.stored].owner = "GLOBAL"

CatalogueInv == ProfileInv /\ ComponentsFit /\ AliasesFit /\ LinksFit

(***************************************************************************)
(* Components: lemmas                                                      *)
(***************************************************************************)

\* The rows of the catalogue.
LEMMA CatalogueRows ==
    ASSUME CatalogueInv
    PROVE  /\ DOMAIN profiles \subseteq Nat /\ DOMAIN versions \subseteq Nat
           /\ Len(components) \in Nat /\ DOMAIN components = 1 .. Len(components)
           /\ \A c \in DOMAIN components : components[c] \in ComponentType
           /\ Len(aliases) \in Nat /\ DOMAIN aliases = 1 .. Len(aliases)
           /\ \A a \in DOMAIN aliases : aliases[a] \in AliasType
<1>1. RowsFit  BY DEF CatalogueInv, ProfileInv, Tables
<1>2. DOMAIN profiles \subseteq Nat /\ DOMAIN versions \subseteq Nat  BY <1>1, TableRows
<1>3. components \in Seq(ComponentType) /\ aliases \in Seq(AliasType)
  BY DEF CatalogueInv, ComponentsFit, AliasesFit
<1>4. QED  BY <1>2, <1>3, LenProperties, ElementOfSeq

\* What the profiles do leaves the references of a component in order.
LEMMA ReferencesKept ==
    ASSUME Evolves, NEW row, ReferencesFit(profiles, versions, row)
    PROVE  ReferencesFit(profiles', versions', row)
BY DEF Evolves, RowKept, ReferencesFit

\* An undistributed allocation that is in force is the only one of its profile.
LEMMA AllocationFound ==
    ASSUME Tables, NEW p \in DOMAIN profiles, AllocationVersion(p) # NoValue
    PROVE  AllocationVersion(p) \in DOMAIN versions
           /\ versions[AllocationVersion(p)].profile = p
<1> DEFINE vs == {v \in PublishedVersions(p) : ~versions[v].form.document}
<1>1. RowsFit  BY DEF Tables
<1>2. vs # {}  BY DEF AllocationVersion, Latest
<1>3. PICK v \in vs : TRUE  BY <1>2
<1>4. \A w \in vs : w \in DOMAIN versions /\ versions[w].profile = p
                    /\ versions[w].status = "PUBLISHED" /\ ~versions[w].form.document
  BY DEF PublishedVersions, VersionsOf
<1>5. \A w \in DOMAIN versions : versions[w].form.document \in BOOLEAN
  <2>1. \A w \in DOMAIN versions : versions[w].form \in Form
    BY <1>1, TableRows DEF VersionType
  <2>2. QED  BY <2>1 DEF Form
<1>6. \A w \in vs : w = v
  <2>1. TAKE w \in vs
  <2>2. versions[w].form.document = versions[v].form.document  BY <1>4, <1>5
  <2>3. QED  BY <1>4, <2>2 DEF Tables, OneInForce
<1>7. versions[v].number \in Nat  BY <1>1, <1>4, TableRows DEF VersionType
<1>8. AllocationVersion(p) = Latest(vs)  BY DEF AllocationVersion
<1> HIDE DEF vs
<1>9. \A w \in vs : versions[w].number <= versions[v].number  BY <1>6, <1>7
<1>10. AllocationVersion(p) \in vs  BY <1>2, <1>8, <1>9 DEF Latest
<1>11. QED  BY <1>4, <1>10

\* What requests may refer to.
LEMMA AllocationReferenceFits ==
    ASSUME Tables, NEW reference \in AllocationReferences
    PROVE  /\ reference.allocation \in Nat \cup {NoValue}
           /\ reference.pinned \in Nat \cup {NoValue}
           /\ (reference.pinned = NoValue) = (reference.allocation = NoValue)
           /\ reference.pinned # NoValue =>
                reference.pinned \in DOMAIN versions
                /\ versions[reference.pinned].profile = reference.allocation
<1>1. RowsFit /\ NoValue \notin Nat  BY ProfileConstants DEF Tables
<1>2. DOMAIN profiles \subseteq Nat /\ DOMAIN versions \subseteq Nat  BY <1>1, TableRows
<1>3. CASE reference = [allocation |-> NoValue, pinned |-> NoValue]  BY <1>3
<1>4. ASSUME NEW v \in DOMAIN versions,
             reference = [allocation |-> versions[v].profile, pinned |-> v]
      PROVE  /\ reference.allocation \in Nat /\ reference.pinned \in DOMAIN versions
             /\ versions[reference.pinned].profile = reference.allocation
  BY <1>1, <1>2, <1>4 DEF RowsFit
<1>5. ASSUME NEW p \in DOMAIN profiles, AllocationVersion(p) # NoValue,
             reference = [allocation |-> p, pinned |-> AllocationVersion(p)]
      PROVE  /\ reference.allocation \in Nat /\ reference.pinned \in DOMAIN versions
             /\ versions[reference.pinned].profile = reference.allocation
  BY <1>2, <1>5, AllocationFound
<1>6. QED  BY <1>1, <1>2, <1>3, <1>4, <1>5 DEF AllocationReferences, OfKind

\* A row that a request may write into the table of components.
LEMMA ComponentRow ==
    ASSUME Tables, NEW code \in ComponentCodes, NEW owner \in ComponentOwners,
           NEW date \in {NoValue} \cup OfKind("BUSINESS_DATE"),
           NEW reference \in AllocationReferences,
           NEW calculation \in {NoValue} \cup OfKind("CALCULATION"),
           DateReferenceFits(date),
           NEW row,
           row = [code |-> code, owner |-> owner, active |-> TRUE, date |-> date,
                  allocation |-> reference.allocation, pinned |-> reference.pinned,
                  calculation |-> calculation]
    PROVE  /\ row \in ComponentType /\ row.code = code /\ row.owner = owner
           /\ ReferencesFit(profiles, versions, row)
<1>1. RowsFit  BY DEF Tables
<1>2. DOMAIN profiles \subseteq Nat  BY <1>1, TableRows
<1>3. date # NoValue =>
        /\ date \in DOMAIN profiles /\ profiles[date].kind = "BUSINESS_DATE"
        /\ profiles[date].purpose = "EXCHANGE_RATE_DATE"
        /\ profiles[date].published # NoValue
  <2>1. SUFFICES ASSUME date # NoValue
                 PROVE  /\ date \in DOMAIN profiles
                        /\ profiles[date].kind = "BUSINESS_DATE"
                        /\ profiles[date].purpose = "EXCHANGE_RATE_DATE"
                        /\ profiles[date].published # NoValue
    OBVIOUS
  <2>2. date \in DOMAIN profiles /\ profiles[date].kind = "BUSINESS_DATE"
    BY <2>1 DEF OfKind
  <2>3. profiles[date].purpose = "EXCHANGE_RATE_DATE" /\ DateVersion(date) # NoValue
    BY <2>1 DEF DateReferenceFits
  <2>4. QED  BY <2>2, <2>3, AssignableProfile DEF Assignable
<1>4. calculation # NoValue =>
        calculation \in DOMAIN profiles /\ profiles[calculation].kind = "CALCULATION"
  BY DEF OfKind
<1>5. row \in ComponentType
  <2>1. date \in Nat \cup {NoValue} /\ calculation \in Nat \cup {NoValue}
    BY <1>2, <1>3, <1>4
  <2>2. reference.allocation \in Nat \cup {NoValue} /\ reference.pinned \in Nat \cup {NoValue}
    BY AllocationReferenceFits
  <2>3. QED  BY <2>1, <2>2 DEF ComponentType
<1>6. ReferencesFit(profiles, versions, row)
  <2>1. /\ row.date = date /\ row.calculation = calculation
        /\ row.allocation = reference.allocation /\ row.pinned = reference.pinned
    OBVIOUS
  <2>2. QED  BY <2>1, <1>3, <1>4, AllocationReferenceFits DEF ReferencesFit
<1>7. QED  BY <1>5, <1>6

\* The version an alias takes from its default profile.
LEMMA AliasVersionTyped ==
    ASSUME Tables, NEW p \in DOMAIN profiles, profiles[p].kind # "ALLOCATION"
    PROVE  CalculationVersion(p) \in Nat \cup {NoValue}
<1>1. RowsFit  BY DEF Tables
<1>2. profiles[p].published = DateVersion(p)  BY OneVersionFound
<1>3. CalculationVersion(p) = profiles[p].published
  BY <1>2 DEF CalculationVersion, DateVersion
<1>4. profiles[p].published \in Nat \cup {NoValue}  BY <1>1, TableRows DEF ProfileType
<1>5. QED  BY <1>3, <1>4

(***************************************************************************)
(* Components: steps                                                       *)
(***************************************************************************)

LEMMA ProfilesMove ==
    ASSUME CatalogueInv, [ProfileNext]_profileVars, UNCHANGED componentVars
    PROVE  CatalogueInv'
<1>1. ProfileInv' /\ Evolves  BY ProfileStep DEF CatalogueInv
<1>2. components' = components /\ aliases' = aliases /\ links' = links  BY DEF componentVars
<1>3. ComponentsFit'
  <2>1. \A c \in DOMAIN components : ReferencesFit(profiles', versions', components[c])
    BY <1>1, ReferencesKept DEF CatalogueInv, ComponentsFit
  <2>2. QED  BY <1>2, <2>1 DEF CatalogueInv, ComponentsFit, CodesUnique
<1>4. AliasesFit'  BY <1>2 DEF CatalogueInv, AliasesFit, AliasFits
<1>5. LinksFit'  BY <1>2 DEF CatalogueInv, LinksFit
<1>6. QED  BY <1>1, <1>3, <1>4, <1>5 DEF CatalogueInv

LEMMA CreateComponentStep ==
    ASSUME CatalogueInv, NEW code \in ComponentCodes, NEW owner \in ComponentOwners,
           NEW date \in {NoValue} \cup OfKind("BUSINESS_DATE"),
           NEW allocation \in AllocationReferences,
           NEW calculation \in {NoValue} \cup OfKind("CALCULATION"),
           CreateComponent(code, owner, date, allocation, calculation)
    PROVE  ComponentsFit' /\ AliasesFit' /\ LinksFit'
<1> DEFINE row == [code |-> code, owner |-> owner, active |-> TRUE, date |-> date,
                   allocation |-> allocation.allocation, pinned |-> allocation.pinned,
                   calculation |-> calculation]
<1>1. /\ CodeFree(code, owner, {}) /\ DateReferenceFits(date)
      /\ components' = Append(components, row)
      /\ profiles' = profiles /\ versions' = versions
      /\ aliases' = aliases /\ links' = links
  BY DEF CreateComponent, ComponentFits, profileVars
<1>2. Tables /\ ComponentsFit  BY DEF CatalogueInv, ProfileInv
<1>3. /\ row \in ComponentType /\ row.code = code /\ row.owner = owner
      /\ ReferencesFit(profiles, versions, row)
  <2>1. row = [code |-> code, owner |-> owner, active |-> TRUE, date |-> date,
               allocation |-> allocation.allocation, pinned |-> allocation.pinned,
               calculation |-> calculation]
    OBVIOUS
  <2> HIDE DEF row
  <2>2. QED  BY <1>1, <1>2, <2>1, ComponentRow
<1> HIDE DEF row
<1>4. /\ Len(components) \in Nat /\ DOMAIN components = 1 .. Len(components)
  BY CatalogueRows
<1>5. /\ components' \in Seq(ComponentType)
      /\ DOMAIN components' = 1 .. Len(components) + 1
      /\ \A c \in DOMAIN components : components'[c] = components[c]
      /\ components'[Len(components) + 1] = row
  BY <1>1, <1>2, <1>3, <1>4, AppendProperties, LenProperties DEF ComponentsFit
<1>6. \A c \in DOMAIN components' : c \in DOMAIN components \/ c = Len(components) + 1
  BY <1>4, <1>5
<1>7. DOMAIN components \subseteq DOMAIN components'  BY <1>4, <1>5
<1>8. ComponentsFit'
  <2>1. \A c \in DOMAIN components' : ReferencesFit(profiles, versions, components'[c])
    BY <1>2, <1>3, <1>5, <1>6 DEF ComponentsFit
  <2>2. ASSUME NEW c \in DOMAIN components', NEW d \in DOMAIN components',
               components'[c].code = components'[d].code,
               components'[c].owner = components'[d].owner
        PROVE  c = d
    <3>1. CASE c \in DOMAIN components /\ d \in DOMAIN components
      BY <2>2, <3>1, <1>2, <1>5 DEF ComponentsFit, CodesUnique
    <3>2. CASE c \notin DOMAIN components /\ d \notin DOMAIN components
      BY <3>2, <1>6
    <3>3. CASE c \in DOMAIN components /\ d \notin DOMAIN components
      <4>1. d = Len(components) + 1  BY <3>3, <1>6
      <4>2. components[c].code = code /\ components[c].owner = owner
        BY <2>2, <3>3, <4>1, <1>3, <1>5
      <4>3. QED  BY <3>3, <4>2, <1>1 DEF CodeFree
    <3>4. CASE c \notin DOMAIN components /\ d \in DOMAIN components
      <4>1. c = Len(components) + 1  BY <3>4, <1>6
      <4>2. components[d].code = code /\ components[d].owner = owner
        BY <2>2, <3>4, <4>1, <1>3, <1>5
      <4>3. QED  BY <3>4, <4>2, <1>1 DEF CodeFree
    <3>5. QED  BY <3>1, <3>2, <3>3, <3>4
  <2>3. QED  BY <1>1, <1>5, <2>1, <2>2 DEF ComponentsFit, CodesUnique
<1>9. AliasesFit'
  BY <1>1, <1>5, <1>7 DEF CatalogueInv, AliasesFit, AliasFits
<1>10. LinksFit'  BY <1>1, <1>5, <1>7 DEF CatalogueInv, LinksFit
<1>11. QED  BY <1>8, <1>9, <1>10

\* The components after one of them has been replaced by a row of its owner.
LEMMA ComponentReplaced ==
    ASSUME CatalogueInv, NEW c \in DOMAIN components, NEW row \in ComponentType,
           row.owner = components[c].owner, ReferencesFit(profiles, versions, row),
           CodeFree(row.code, row.owner, {c}),
           components' = [components EXCEPT ![c] = row],
           profiles' = profiles, versions' = versions, aliases' = aliases
    PROVE  /\ ComponentsFit' /\ AliasesFit'
           /\ DOMAIN components' = DOMAIN components
           /\ \A d \in DOMAIN components :
                /\ components'[d].owner = components[d].owner
                /\ components'[d] = IF d = c THEN row ELSE components[d]
<1>1. ComponentsFit  BY DEF CatalogueInv
<1>2. /\ Len(components) \in Nat /\ DOMAIN components = 1 .. Len(components)
  BY CatalogueRows
<1>3. /\ components' \in Seq(ComponentType) /\ DOMAIN components' = DOMAIN components
      /\ \A d \in DOMAIN components :
            components'[d] = IF d = c THEN row ELSE components[d]
  BY <1>1, <1>2, ExceptSeq, LenProperties DEF ComponentsFit
<1>4. \A d \in DOMAIN components : components'[d].owner = components[d].owner
  BY <1>3
<1>5. ComponentsFit'
  <2>1. \A d \in DOMAIN components' : ReferencesFit(profiles, versions, components'[d])
    BY <1>1, <1>3 DEF ComponentsFit
  <2>2. ASSUME NEW d \in DOMAIN components, NEW e \in DOMAIN components,
               components'[d].code = components'[e].code,
               components'[d].owner = components'[e].owner
        PROVE  d = e
    <3>1. CASE d = c /\ e # c
      <4>1. components[e].code = row.code /\ components[e].owner = row.owner
        BY <2>2, <3>1, <1>3
      <4>2. QED  BY <3>1, <4>1 DEF CodeFree
    <3>2. CASE d # c /\ e = c
      <4>1. components[d].code = row.code /\ components[d].owner = row.owner
        BY <2>2, <3>2, <1>3
      <4>2. QED  BY <3>2, <4>1 DEF CodeFree
    <3>3. CASE d # c /\ e # c
      BY <2>2, <3>3, <1>1, <1>3 DEF ComponentsFit, CodesUnique
    <3>4. QED  BY <3>1, <3>2, <3>3
  <2>3. QED  BY <1>3, <2>1, <2>2 DEF ComponentsFit, CodesUnique
<1>6. AliasesFit'  BY <1>3, <1>4 DEF CatalogueInv, AliasesFit, AliasFits
<1>7. QED  BY <1>3, <1>4, <1>5, <1>6

\* What a row's component is called before the call finds that component or
\* none after it.
LEMMA RelinkedFits ==
    ASSUME CatalogueInv, NEW cs, DOMAIN cs = DOMAIN components,
           \A d \in DOMAIN components : cs[d].owner = components[d].owner,
           NEW c \in DOMAIN components,
           \A d \in DOMAIN components \ {c} : cs[d] = components[d],
           \A d \in DOMAIN components \ {c} :
                cs[d].owner = cs[c].owner => cs[d].code # cs[c].code,
           NEW l \in links
    PROVE  l.stored # NoValue =>
                ByCode(cs, components[l.stored].code) \in {l.stored, NoValue}
<1> SUFFICES ASSUME l.stored # NoValue
             PROVE  ByCode(cs, components[l.stored].code) \in {l.stored, NoValue}
  OBVIOUS
<1> DEFINE s == l.stored
           code == components[s].code
           found == {d \in DOMAIN cs : cs[d].owner = "GLOBAL" /\ cs[d].code = code}
<1>1. s \in DOMAIN components /\ components[s].owner = "GLOBAL"
  BY DEF CatalogueInv, LinksFit
<1>2. CodesUnique  BY DEF CatalogueInv, ComponentsFit
<1>3. ASSUME NEW d \in found PROVE d = s
  <2>1. d \in DOMAIN components /\ components[d].owner = "GLOBAL" /\ cs[d].owner = "GLOBAL"
        /\ cs[d].code = code
    OBVIOUS
  <2>2. CASE d # c
    <3>1. components[d].code = components[s].code  BY <2>1, <2>2
    <3>2. QED  BY <1>1, <1>2, <2>1, <3>1 DEF CodesUnique
  <2>3. CASE d = c /\ s # c
    <3>1. cs[s].owner = cs[c].owner /\ cs[s].code = cs[c].code
      BY <1>1, <2>1, <2>3
    <3>2. QED  BY <1>1, <2>3, <3>1
  <2>4. QED  BY <2>2, <2>3
<1>4. ByCode(cs, code) = IF found = {} THEN NoValue ELSE CHOOSE d \in found : TRUE
  BY DEF ByCode
<1> HIDE DEF found
<1>5. QED  BY <1>3, <1>4

LEMMA UpdateComponentStep ==
    ASSUME CatalogueInv, NEW c \in DOMAIN components, NEW code \in ComponentCodes,
           NEW date \in {NoValue} \cup OfKind("BUSINESS_DATE"),
           NEW allocation \in AllocationReferences,
           NEW calculation \in {NoValue} \cup OfKind("CALCULATION"),
           UpdateComponent(c, code, date, allocation, calculation)
    PROVE  ComponentsFit' /\ AliasesFit' /\ LinksFit'
<1> DEFINE owner == components[c].owner
           row == [code |-> code, owner |-> owner, active |-> TRUE, date |-> date,
                   allocation |-> allocation.allocation, pinned |-> allocation.pinned,
                   calculation |-> calculation]
<1>1. /\ CodeFree(code, owner, {c}) /\ DateReferenceFits(date)
      /\ components' = [components EXCEPT ![c] = row]
      /\ profiles' = profiles /\ versions' = versions /\ aliases' = aliases
      /\ links' = Relinked(components')
  BY DEF UpdateComponent, ComponentFits, profileVars
<1>2. Tables  BY DEF CatalogueInv, ProfileInv
<1>3. owner \in ComponentOwners  BY CatalogueRows DEF ComponentType
<1>4. /\ row \in ComponentType /\ row.code = code /\ row.owner = owner
      /\ ReferencesFit(profiles, versions, row)
  <2>1. row = [code |-> code, owner |-> owner, active |-> TRUE, date |-> date,
               allocation |-> allocation.allocation, pinned |-> allocation.pinned,
               calculation |-> calculation]
    OBVIOUS
  <2> HIDE DEF row, owner
  <2>2. QED  BY <1>1, <1>2, <1>3, <2>1, ComponentRow
<1> HIDE DEF row
<1>5. /\ ComponentsFit' /\ AliasesFit'
      /\ DOMAIN components' = DOMAIN components
      /\ \A d \in DOMAIN components :
            /\ components'[d].owner = components[d].owner
            /\ components'[d] = IF d = c THEN row ELSE components[d]
  BY <1>1, <1>4, ComponentReplaced
<1>6. \A d \in DOMAIN components \ {c} :
        components'[d].owner = components'[c].owner
        => components'[d].code # components'[c].code
  BY <1>5 DEF ComponentsFit, CodesUnique
<1>7. \A l \in links : l.stored # NoValue =>
        ByCode(components', components[l.stored].code) \in {l.stored, NoValue}
  <2> DEFINE cs == components'
  <2>1. /\ DOMAIN cs = DOMAIN components
        /\ \A d \in DOMAIN components : cs[d].owner = components[d].owner
        /\ \A d \in DOMAIN components \ {c} : cs[d] = components[d]
        /\ \A d \in DOMAIN components \ {c} :
            cs[d].owner = cs[c].owner => cs[d].code # cs[c].code
    BY <1>5, <1>6
  <2> HIDE DEF cs
  <2>2. \A l \in links : l.stored # NoValue =>
            ByCode(cs, components[l.stored].code) \in {l.stored, NoValue}
    BY <2>1, RelinkedFits
  <2>3. QED  BY <2>2 DEF cs
<1>8. LinksFit'
  <2>1. ASSUME NEW m \in links'
        PROVE  /\ m \in LinkType /\ m.stored \in {m.named, NoValue}
               /\ m.stored # NoValue =>
                    m.stored \in DOMAIN components /\ components[m.stored].owner = "GLOBAL"
    <3>1. PICK l \in links :
            m = [l EXCEPT !.stored = IF @ = NoValue THEN NoValue
                                     ELSE ByCode(components', components[@].code)]
      BY <1>1 DEF Relinked
    <3>2. /\ l \in LinkType /\ l.stored \in {l.named, NoValue}
          /\ l.stored # NoValue =>
                l.stored \in DOMAIN components /\ components[l.stored].owner = "GLOBAL"
      BY DEF CatalogueInv, LinksFit
    <3>3. m.named = l.named /\ m.stored \in {l.stored, NoValue}
      BY <1>7, <3>1, <3>2 DEF LinkType
    <3>4. m \in LinkType
      <4>1. m.stored \in Nat \cup {NoValue}  BY <3>2, <3>3 DEF LinkType
      <4> DEFINE stored == m.stored
      <4>2. m = [l EXCEPT !.stored = stored]  BY <3>1, <3>2 DEF LinkType
      <4> HIDE DEF stored
      <4>3. stored \in Nat \cup {NoValue}  BY <4>1 DEF stored
      <4>4. QED  BY <3>2, <4>2, <4>3 DEF LinkType
    <3>5. QED  BY <3>2, <3>3, <3>4
  <2>2. QED  BY <1>5, <2>1 DEF LinksFit
<1>9. QED  BY <1>5, <1>8

LEMMA DeleteComponentStep ==
    ASSUME CatalogueInv, NEW c \in DOMAIN components, DeleteComponent(c)
    PROVE  ComponentsFit' /\ AliasesFit' /\ LinksFit'
<1> DEFINE row == [components[c] EXCEPT !.active = FALSE]
<1>1. components[c] \in ComponentType  BY CatalogueRows
<1>2. /\ row \in ComponentType /\ row.owner = components[c].owner
      /\ row.code = components[c].code /\ row.date = components[c].date
      /\ row.allocation = components[c].allocation /\ row.pinned = components[c].pinned
      /\ row.calculation = components[c].calculation
  BY <1>1 DEF ComponentType
<1>3. /\ components' = [components EXCEPT ![c] = row]
      /\ profiles' = profiles /\ versions' = versions /\ aliases' = aliases /\ links' = links
  BY <1>1 DEF DeleteComponent, ComponentType, profileVars
<1> HIDE DEF row
<1>4. ReferencesFit(profiles, versions, row)
  BY <1>2 DEF CatalogueInv, ComponentsFit, ReferencesFit
<1>5. CodeFree(row.code, row.owner, {c})
  BY <1>2 DEF CatalogueInv, ComponentsFit, CodesUnique, CodeFree
<1>6. /\ ComponentsFit' /\ AliasesFit' /\ DOMAIN components' = DOMAIN components
      /\ \A d \in DOMAIN components : components'[d].owner = components[d].owner
  BY <1>2, <1>3, <1>4, <1>5, ComponentReplaced
<1>7. LinksFit'  BY <1>3, <1>6 DEF CatalogueInv, LinksFit
<1>8. QED  BY <1>6, <1>7

LEMMA MakeLinkStep ==
    ASSUME CatalogueInv, NEW code \in ComponentCodes, MakeLink(code)
    PROVE  ComponentsFit' /\ AliasesFit' /\ LinksFit'
<1> DEFINE found == {c \in DOMAIN components :
                        components[c].owner = "GLOBAL" /\ components[c].code = code}
           made == ByCode(components, code)
           link == [named |-> made, stored |-> made]
<1>1. /\ made # NoValue /\ links' = links \cup {link}
      /\ profiles' = profiles /\ versions' = versions
      /\ components' = components /\ aliases' = aliases
  BY DEF MakeLink, profileVars
<1>2. made \in DOMAIN components /\ components[made].owner = "GLOBAL"
  <2>1. made = IF found = {} THEN NoValue ELSE CHOOSE c \in found : TRUE  BY DEF ByCode
  <2>2. made \in found  BY <1>1, <2>1
  <2>3. QED  BY <2>2
<1>3. made \in Nat  BY <1>2, CatalogueRows
<1> HIDE DEF made
<1>4. link \in LinkType /\ link.named = made /\ link.stored = made  BY <1>3 DEF LinkType
<1> HIDE DEF link
<1>5. ComponentsFit'  BY <1>1 DEF CatalogueInv, ComponentsFit, CodesUnique
<1>6. AliasesFit'  BY <1>1 DEF CatalogueInv, AliasesFit, AliasFits
<1>7. LinksFit'  BY <1>1, <1>2, <1>4 DEF CatalogueInv, LinksFit
<1>8. QED  BY <1>5, <1>6, <1>7

\* What an alias looks like when it is written.
LEMMA AliasRow ==
    ASSUME CatalogueInv, NEW c \in DOMAIN components, NEW label \in Labels,
           NEW forwarder \in Forwarders \cup {NoValue},
           NEW p \in {NoValue} \cup OfKind("CALCULATION"),
           NEW row, row = AliasOf(c, label, forwarder, p)
    PROVE  row \in AliasType /\ row.component = c /\ row.forwarder = forwarder
<1> DEFINE profile == IF p # NoValue THEN p ELSE components[c].calculation
           calculation == IF profile = NoValue THEN NoValue ELSE CalculationVersion(profile)
<1>1. Tables /\ ReferencesFit(profiles, versions, components[c])
  BY DEF CatalogueInv, ProfileInv, ComponentsFit
<1>2. profile # NoValue =>
        profile \in DOMAIN profiles /\ profiles[profile].kind = "CALCULATION"
  BY <1>1 DEF ReferencesFit, OfKind
<1>3. calculation \in Nat \cup {NoValue}  BY <1>1, <1>2, AliasVersionTyped
<1>4. row = [component |-> c, label |-> label, forwarder |-> forwarder, active |-> TRUE,
             calculation |-> calculation]
  BY DEF AliasOf
<1>5. c \in Nat  BY CatalogueRows
<1> HIDE DEF calculation
<1>6. QED  BY <1>3, <1>4, <1>5 DEF AliasType

LEMMA AliasStepKeeps ==
    ASSUME CatalogueInv, AliasStep
    PROVE  ComponentsFit' /\ AliasesFit' /\ LinksFit'
<1>1. /\ Len(aliases) \in Nat /\ DOMAIN aliases = 1 .. Len(aliases)
      /\ \A a \in DOMAIN aliases : aliases[a] \in AliasType
  BY CatalogueRows
<1>2. aliases \in Seq(AliasType) /\ AliasesFit  BY DEF CatalogueInv, AliasesFit
<1>3. ASSUME UNCHANGED <<profileVars, components, links>>
      PROVE  ComponentsFit' /\ LinksFit'
  <2>1. profiles' = profiles /\ versions' = versions /\ components' = components
        /\ links' = links
    BY <1>3 DEF profileVars
  <2>2. QED  BY <2>1 DEF CatalogueInv, ComponentsFit, CodesUnique, LinksFit
<1>4. ASSUME NEW a \in DOMAIN aliases, DeleteAlias(a)
      PROVE  ComponentsFit' /\ AliasesFit' /\ LinksFit'
  <2> DEFINE row == [aliases[a] EXCEPT !.active = FALSE]
  <2>1. aliases' = [aliases EXCEPT ![a] = row]  BY <1>1, <1>4 DEF DeleteAlias, AliasType
  <2>2. /\ row \in AliasType /\ row.component = aliases[a].component
        /\ row.forwarder = aliases[a].forwarder
    BY <1>1 DEF AliasType
  <2> HIDE DEF row
  <2>3. /\ aliases' \in Seq(AliasType) /\ DOMAIN aliases' = DOMAIN aliases
        /\ \A b \in DOMAIN aliases : aliases'[b] = IF b = a THEN row ELSE aliases[b]
    BY <1>1, <1>2, <2>1, <2>2, ExceptSeq, LenProperties
  <2>4. components' = components  BY <1>4 DEF DeleteAlias
  <2>5. AliasesFit'  BY <1>2, <2>2, <2>3, <2>4 DEF AliasesFit, AliasFits
  <2>6. QED  BY <1>3, <1>4, <2>5 DEF DeleteAlias
<1>5. ASSUME NEW c \in DOMAIN components, NEW label \in Labels,
             NEW forwarder \in Forwarders \cup {NoValue},
             NEW p \in {NoValue} \cup OfKind("CALCULATION"),
             CreateAlias(c, label, forwarder, p)
      PROVE  ComponentsFit' /\ AliasesFit' /\ LinksFit'
  <2> DEFINE row == AliasOf(c, label, forwarder, p)
  <2>1. row \in AliasType /\ row.component = c /\ row.forwarder = forwarder
    BY AliasRow
  <2>2. aliases' = Append(aliases, row) /\ AliasFits(c, forwarder) /\ components' = components
    BY <1>5 DEF CreateAlias
  <2> HIDE DEF row
  <2>3. /\ aliases' \in Seq(AliasType) /\ DOMAIN aliases' = 1 .. Len(aliases) + 1
        /\ \A b \in DOMAIN aliases : aliases'[b] = aliases[b]
        /\ aliases'[Len(aliases) + 1] = row
    BY <1>1, <1>2, <2>1, <2>2, AppendProperties, LenProperties
  <2>4. \A b \in DOMAIN aliases' : b \in DOMAIN aliases \/ b = Len(aliases) + 1
    BY <1>1, <2>3
  <2>5. AliasesFit'  BY <1>2, <2>1, <2>2, <2>3, <2>4 DEF AliasesFit, AliasFits
  <2>6. QED  BY <1>3, <1>5, <2>5 DEF CreateAlias
<1>6. ASSUME NEW c \in DOMAIN components, NEW label \in Labels,
             NEW forwarder \in Forwarders \cup {NoValue},
             NEW p \in {NoValue} \cup OfKind("CALCULATION"),
             NEW a \in DOMAIN aliases, UpdateAlias(a, c, label, forwarder, p)
      PROVE  ComponentsFit' /\ AliasesFit' /\ LinksFit'
  <2> DEFINE row == AliasOf(c, label, forwarder, p)
  <2>1. row \in AliasType /\ row.component = c /\ row.forwarder = forwarder
    BY AliasRow
  <2>2. aliases' = [aliases EXCEPT ![a] = row] /\ AliasFits(c, forwarder)
        /\ components' = components
    BY <1>6 DEF UpdateAlias
  <2> HIDE DEF row
  <2>3. /\ aliases' \in Seq(AliasType) /\ DOMAIN aliases' = DOMAIN aliases
        /\ \A b \in DOMAIN aliases : aliases'[b] = IF b = a THEN row ELSE aliases[b]
    BY <1>1, <1>2, <2>1, <2>2, ExceptSeq, LenProperties
  <2>4. AliasesFit'  BY <1>2, <2>1, <2>2, <2>3 DEF AliasesFit, AliasFits
  <2>5. QED  BY <1>3, <1>6, <2>4 DEF UpdateAlias
<1>7. QED  BY <1>4, <1>5, <1>6 DEF AliasStep

LEMMA ComponentStepKeeps ==
    ASSUME CatalogueInv, ComponentStep
    PROVE  ComponentsFit' /\ AliasesFit' /\ LinksFit'
BY CreateComponentStep, UpdateComponentStep, DeleteComponentStep, MakeLinkStep
   DEF ComponentStep

LEMMA CatalogueStep ==
    ASSUME CatalogueInv, [CatalogueNext]_catalogueVars
    PROVE  CatalogueInv'
<1>1. CASE ProfileNext /\ UNCHANGED componentVars  BY <1>1, ProfilesMove
<1>2. CASE UNCHANGED catalogueVars
  <2>1. UNCHANGED profileVars /\ UNCHANGED componentVars  BY <1>2 DEF catalogueVars
  <2>2. QED  BY <2>1, ProfilesMove
<1>3. ASSUME ComponentStep \/ AliasStep PROVE CatalogueInv'
  <2>1. UNCHANGED profileVars
    <3>1. CASE ComponentStep
      BY <3>1 DEF ComponentStep, MakeLink, DeleteComponent, CreateComponent, UpdateComponent
    <3>2. CASE AliasStep
      BY <3>2 DEF AliasStep, DeleteAlias, CreateAlias, UpdateAlias
    <3>3. QED  BY <1>3, <3>1, <3>2
  <2>2. ProfileInv'  BY <2>1, ProfileStep DEF CatalogueInv
  <2>3. QED  BY <1>3, <2>2, ComponentStepKeeps, AliasStepKeeps DEF CatalogueInv
<1>4. QED  BY <1>1, <1>2, <1>3 DEF CatalogueNext

(***************************************************************************)
(* Components: the invariant is kept                                       *)
(***************************************************************************)

LEMMA CatalogueInitially == CatalogueInit => CatalogueInv
<1> SUFFICES ASSUME CatalogueInit PROVE CatalogueInv
  OBVIOUS
<1>1. ProfileInv  BY ProfileInitially DEF CatalogueInit
<1>2. components = << >> /\ aliases = << >> /\ links = {}  BY DEF CatalogueInit
<1>3. DOMAIN components = {} /\ DOMAIN aliases = {}
      /\ components \in Seq(ComponentType) /\ aliases \in Seq(AliasType)
  BY <1>2, EmptySeq
<1>4. QED
  BY <1>1, <1>2, <1>3
     DEF CatalogueInv, ComponentsFit, CodesUnique, AliasesFit, LinksFit

\* What the invariant says of the properties.
LEMMA CatalogueConsequences ==
    ASSUME CatalogueInv
    PROVE  CatalogueTypeOK /\ ComponentDatesResolve /\ LinksNeverMislead
<1>1. Tables /\ ProfileTypeOK  BY ProfileConsequences DEF CatalogueInv, ProfileInv
<1>2. CatalogueTypeOK
  <2>1. \A c \in DOMAIN components :
            /\ components[c].calculation \in {NoValue} \cup OfKind("CALCULATION")
            /\ (components[c].pinned = NoValue) = (components[c].allocation = NoValue)
            /\ components[c].pinned # NoValue =>
                components[c].pinned \in VersionsOf(components[c].allocation)
    BY DEF CatalogueInv, ComponentsFit, ReferencesFit, OfKind, VersionsOf
  <2>2. \A a \in DOMAIN aliases :
            /\ aliases[a].component \in DOMAIN components
            /\ components[aliases[a].component].owner \in Forwarders =>
                aliases[a].forwarder = components[aliases[a].component].owner
    BY DEF CatalogueInv, AliasesFit, AliasFits
  <2>3. links \subseteq LinkType  BY DEF CatalogueInv, LinksFit
  <2>4. components \in Seq(ComponentType) /\ aliases \in Seq(AliasType)
    BY DEF CatalogueInv, ComponentsFit, AliasesFit
  <2>5. QED  BY <1>1, <2>1, <2>2, <2>3, <2>4 DEF CatalogueTypeOK
<1>3. ComponentDatesResolve
  <2>1. SUFFICES ASSUME NEW c \in DOMAIN components, components[c].date # NoValue
                 PROVE  /\ components[c].date \in OfKind("BUSINESS_DATE")
                        /\ profiles[components[c].date].purpose = "EXCHANGE_RATE_DATE"
                        /\ DateVersion(components[c].date) # NoValue
    BY DEF ComponentDatesResolve
  <2> DEFINE p == components[c].date
  <2>2. /\ p \in DOMAIN profiles /\ profiles[p].kind = "BUSINESS_DATE"
        /\ profiles[p].purpose = "EXCHANGE_RATE_DATE" /\ profiles[p].published # NoValue
    BY <2>1 DEF CatalogueInv, ComponentsFit, ReferencesFit
  <2>3. profiles[p].published = DateVersion(p)  BY <1>1, <2>2, OneVersionFound
  <2>4. QED  BY <2>2, <2>3 DEF OfKind
<1>4. LinksNeverMislead  BY DEF CatalogueInv, LinksFit, LinksNeverMislead
<1>5. QED  BY <1>2, <1>3, <1>4

(***************************************************************************)
(* Components: theorems                                                    *)
(***************************************************************************)

\* The catalogue uses the profiles as ProfileVersions describes them: what is
\* proved of profiles alone holds beside components and aliases.
THEOREM CatalogueImplementsProfiles == CatalogueSpec => ProfileSpec
<1>1. CatalogueInit => ProfileInit  BY DEF CatalogueInit
<1>2. [CatalogueNext]_catalogueVars => [ProfileNext]_profileVars
  <2>1. UNCHANGED catalogueVars => UNCHANGED profileVars  BY DEF catalogueVars
  <2>2. ComponentStep => UNCHANGED profileVars
    BY DEF ComponentStep, MakeLink, DeleteComponent, CreateComponent, UpdateComponent
  <2>3. AliasStep => UNCHANGED profileVars
    BY DEF AliasStep, DeleteAlias, CreateAlias, UpdateAlias
  <2>4. QED  BY <2>1, <2>2, <2>3 DEF CatalogueNext
<1>3. QED  BY <1>1, <1>2, PTL DEF CatalogueSpec, ProfileSpec

\* Components refer to profiles that fit, aliases to components of their
\* forwarder, and linked rows to components of everybody, in every reachable
\* state: by induction over the operations.
THEOREM CatalogueInvariant == CatalogueSpec => []CatalogueInv
<1>1. CatalogueInit => CatalogueInv  BY CatalogueInitially
<1>2. CatalogueInv /\ [CatalogueNext]_catalogueVars => CatalogueInv'  BY CatalogueStep
<1>3. QED  BY <1>1, <1>2, PTL DEF CatalogueSpec

\* Components and aliases are records that refer to one another and to
\* versions of the right kinds (_alias_from_payload).
THEOREM CatalogueWellTyped == CatalogueSpec => []CatalogueTypeOK
<1>1. CatalogueInv => CatalogueTypeOK  BY CatalogueConsequences
<1>2. QED  BY <1>1, CatalogueInvariant, PTL

\* The date profile of a component never runs out of a version in force
\* (_resolve_business_date_component_reference).
THEOREM ComponentDatesAlwaysResolve == CatalogueSpec => []ComponentDatesResolve
<1>1. CatalogueInv => ComponentDatesResolve  BY CatalogueConsequences
<1>2. QED  BY <1>1, CatalogueInvariant, PTL

\* Renaming components never makes a row stand for another component
\* (_persist_rate_books, _persist_match_results).
THEOREM LinksAreNeverMisleading == CatalogueSpec => []LinksNeverMislead
<1>1. CatalogueInv => LinksNeverMislead  BY CatalogueConsequences
<1>2. QED  BY <1>1, CatalogueInvariant, PTL

(***************************************************************************)
(* Reference data: the tables                                              *)
(***************************************************************************)

TableNames == {"dimensions", "mappings", "books", "quotes", "sources", "rates"}

RowType(table) ==
    CASE table = "dimensions" -> DimensionType
      [] table = "mappings" -> MappingType
      [] table = "books" -> BookType
      [] table = "quotes" -> QuoteType
      [] table = "sources" -> SourceType
      [] table = "rates" -> RateType

TablesFit(ts) ==
    /\ ts = [n \in TableNames |-> ts[n]]
    /\ \A n \in TableNames : ts[n] \in Seq(RowType(n))

\* What a call is about to write: rates only name sources that exist, and
\* nothing is ever deleted from a table.
WriteFits(ts, p) ==
    /\ p.table \in TableNames
    /\ p.id \in {0} \cup DOMAIN ts[p.table]
    /\ p.new \in RowType(p.table) /\ p.old \in RowType(p.table)
    /\ p.table = "rates" => p.new.source \in DOMAIN ts["sources"]

\* Where a call writes, and what.
Position(ts, p) == IF p.id = 0 THEN Len(ts[p.table]) + 1 ELSE p.id

RowWritten(ts, p) ==
    IF p.id = 0 THEN p.new ELSE Merged(ts[p.table][p.id], p.old, p.new)

\* The tables after that.
After(ts, p) ==
    [ts EXCEPT ![p.table] =
        IF p.id = 0 THEN Append(ts[p.table], p.new)
        ELSE [ts[p.table] EXCEPT ![p.id] = Merged(ts[p.table][p.id], p.old, p.new)]]

\* Tables that differ in one row.
Puts(ts, after, table, position, row) ==
    /\ \A n \in TableNames \ {table} : after[n] = ts[n]
    /\ DOMAIN after[table] = DOMAIN ts[table] \cup {position}
    /\ \A i \in DOMAIN after[table] :
        after[table][i] = IF i = position THEN row ELSE ts[table][i]

(***************************************************************************)
(* Reference data: the inductive invariant                                 *)
(***************************************************************************)

KeysUnique(ts) ==
    \A n \in TableNames : \A i, j \in DOMAIN ts[n] :
        Key(n, ts[n][i]) = Key(n, ts[n][j]) /\ Key(n, ts[n][i]) # NoValue => i = j

SourcesKnown(ts) ==
    \A r \in DOMAIN ts["rates"] : ts["rates"][r].source \in DOMAIN ts["sources"]

RowsIn(ts, table) == {ts[table][i] : i \in DOMAIN ts[table]}

\* The active dimensions with their structures.
Structured(ts) ==
    {<<d.code, d.structure>> : d \in {d \in RowsIn(ts, "dimensions") : d.active}}

\* What is written in terms of dimensions and mappings can still be read.
Readable(ts) ==
    /\ \A b \in RowsIn(ts, "books") : b.dimensions \subseteq Structured(ts)
    /\ \A m \in RowsIn(ts, "mappings") : m.active =>
        m.structures \subseteq Structured(ts) /\ CodesOf(m.structures) = CodesOf(m.mappings)
    /\ \A q \in RowsIn(ts, "quotes") : q.mapping # NoValue =>
        \E m \in RowsIn(ts, "mappings") : m.code = q.mapping /\ m.mappings = q.mappings

\* As long as no call has committed beside another one, the checks that a call
\* has made hold when it writes: nothing has been written since.
Serial ==
    /\ overlapped \in BOOLEAN
    /\ ~overlapped =>
        /\ Readable(tables)
        /\ \A s \in Sessions \ overtaken :
            pending[s] # NoValue => Readable(After(tables, pending[s]))

ReferenceInv ==
    /\ TablesFit(tables) /\ KeysUnique(tables) /\ SourcesKnown(tables)
    /\ DOMAIN pending = Sessions
    /\ \A s \in Sessions : pending[s] # NoValue => WriteFits(tables, pending[s])
    /\ Serial

(***************************************************************************)
(* Reference data: lemmas about tables                                     *)
(***************************************************************************)

\* The tables of TableTypes, table by table.
LEMMA TablesByName ==
    ASSUME NEW ts
    PROVE  ts \in TableTypes <=> TablesFit(ts)
<1>1. ASSUME ts \in TableTypes PROVE TablesFit(ts)
  BY <1>1 DEF TableTypes, TablesFit, TableNames, RowType
<1>2. ASSUME TablesFit(ts) PROVE ts \in TableTypes
  <2>1. DOMAIN ts = TableNames /\ ts = [n \in TableNames |-> ts[n]]  BY <1>2 DEF TablesFit
  <2>2. /\ ts["dimensions"] \in Seq(DimensionType) /\ ts["mappings"] \in Seq(MappingType)
        /\ ts["books"] \in Seq(BookType) /\ ts["quotes"] \in Seq(QuoteType)
        /\ ts["sources"] \in Seq(SourceType) /\ ts["rates"] \in Seq(RateType)
    BY <1>2 DEF TablesFit, TableNames, RowType
  <2>3. QED  BY <2>1, <2>2 DEF TableTypes, TableNames
<1>3. QED  BY <1>1, <1>2

\* The rows of a table are numbered and of its type.
LEMMA ReferenceRows ==
    ASSUME NEW ts, TablesFit(ts), NEW n \in TableNames
    PROVE  /\ Len(ts[n]) \in Nat /\ DOMAIN ts[n] = 1 .. Len(ts[n])
           /\ \A i \in DOMAIN ts[n] : ts[n][i] \in RowType(n)
BY LenProperties, ElementOfSeq DEF TablesFit

\* The columns a call has not changed stay, the others become the call's.
LEMMA MergedRow ==
    ASSUME NEW n \in TableNames, NEW current \in RowType(n), NEW old \in RowType(n),
           NEW new \in RowType(n)
    PROVE  /\ Merged(current, old, new) \in RowType(n)
           /\ current = old => Merged(current, old, new) = new
           /\ n = "rates" => Merged(current, old, new).source \in {current.source, new.source}
<1>1. CASE n = "dimensions"  BY <1>1 DEF RowType, DimensionType, Merged
<1>2. CASE n = "mappings"  BY <1>2 DEF RowType, MappingType, Merged
<1>3. CASE n = "books"  BY <1>3 DEF RowType, BookType, Merged
<1>4. CASE n = "quotes"  BY <1>4 DEF RowType, QuoteType, Merged
<1>5. CASE n = "sources"  BY <1>5 DEF RowType, SourceType, Merged
<1>6. CASE n = "rates"  BY <1>6 DEF RowType, RateType, Merged
<1>7. QED  BY <1>1, <1>2, <1>3, <1>4, <1>5, <1>6 DEF TableNames

\* Writing changes one row.
LEMMA RowPut ==
    ASSUME NEW ts, TablesFit(ts), NEW p, WriteFits(ts, p)
    PROVE  /\ TablesFit(After(ts, p))
           /\ Puts(ts, After(ts, p), p.table, Position(ts, p), RowWritten(ts, p))
           /\ RowWritten(ts, p) \in RowType(p.table)
<1> DEFINE n == p.table
           row == RowWritten(ts, p)
           position == Position(ts, p)
           rows == After(ts, p)[n]
<1>1. n \in TableNames /\ DOMAIN ts = TableNames /\ ts[n] \in Seq(RowType(n))
  BY DEF WriteFits, TablesFit
<1>2. /\ Len(ts[n]) \in Nat /\ DOMAIN ts[n] = 1 .. Len(ts[n])
      /\ \A i \in DOMAIN ts[n] : ts[n][i] \in RowType(n)
  BY <1>1, ReferenceRows
<1>3. /\ \A m \in TableNames \ {n} : After(ts, p)[m] = ts[m]
      /\ After(ts, p) = [m \in TableNames |-> After(ts, p)[m]]
  BY <1>1 DEF After, TablesFit
<1>4. row \in RowType(n)
  <2>1. CASE p.id = 0  BY <2>1 DEF RowWritten, WriteFits
  <2>2. CASE p.id # 0
    <3>1. p.id \in DOMAIN ts[n] /\ p.new \in RowType(n) /\ p.old \in RowType(n)
      BY <2>2 DEF WriteFits
    <3>2. QED  BY <1>1, <1>2, <2>2, <3>1, MergedRow DEF RowWritten
  <2>3. QED  BY <2>1, <2>2
<1>5. /\ rows \in Seq(RowType(n))
      /\ DOMAIN rows = DOMAIN ts[n] \cup {position}
      /\ \A i \in DOMAIN rows : rows[i] = IF i = position THEN row ELSE ts[n][i]
  <2>1. CASE p.id = 0
    <3>1. rows = Append(ts[n], row) /\ position = Len(ts[n]) + 1
      BY <1>1, <2>1 DEF After, RowWritten, Position
    <3> HIDE DEF rows, row, position, n
    <3>2. QED  BY <1>1, <1>2, <1>4, <3>1, AppendProperties, LenProperties
  <2>2. CASE p.id # 0
    <3>1. rows = [ts[n] EXCEPT ![position] = row] /\ position \in DOMAIN ts[n]
      BY <1>1, <2>2 DEF After, RowWritten, Position, WriteFits
    <3> HIDE DEF rows, row, position, n
    <3>2. QED  BY <1>1, <1>2, <1>4, <3>1, ExceptSeq, LenProperties
  <2>3. QED  BY <2>1, <2>2
<1>6. TablesFit(After(ts, p))
  <2>1. \A m \in TableNames : After(ts, p)[m] \in Seq(RowType(m))
    BY <1>3, <1>5 DEF TablesFit
  <2>2. QED  BY <1>3, <2>1 DEF TablesFit
<1>7. QED  BY <1>3, <1>4, <1>5, <1>6 DEF Puts

(***************************************************************************)
(* Reference data: reads before writes                                     *)
(***************************************************************************)

\* What a call that has passed its checks is about to write.
Intended(table, id, row) ==
    [table |-> table, id |-> id, new |-> row,
     old |-> IF id = 0 THEN row ELSE tables[table][id]]

\* If it were to write at once, the row would become what it intends.
LEMMA IntendedRow ==
    ASSUME TablesFit(tables), NEW table \in TableNames,
           NEW id \in {0} \cup DOMAIN tables[table], NEW row \in RowType(table),
           table = "rates" => row.source \in DOMAIN tables["sources"],
           NEW p, p = Intended(table, id, row)
    PROVE  /\ WriteFits(tables, p)
           /\ Puts(tables, After(tables, p), table,
                   IF id = 0 THEN Len(tables[table]) + 1 ELSE id, row)
<1>1. /\ p.table = table /\ p.id = id /\ p.new = row
      /\ p.old = IF id = 0 THEN row ELSE tables[table][id]
  BY DEF Intended
<1>2. \A i \in DOMAIN tables[table] : tables[table][i] \in RowType(table)  BY ReferenceRows
<1>3. WriteFits(tables, p)  BY <1>1, <1>2 DEF WriteFits
<1>4. RowWritten(tables, p) = row
  <2>1. CASE id = 0  BY <1>1, <2>1 DEF RowWritten
  <2>2. CASE id # 0
    <3>1. id \in DOMAIN tables[table] /\ tables[table][id] \in RowType(table)
      BY <1>2, <2>2
    <3>2. Merged(tables[table][id], tables[table][id], row) = row  BY <3>1, MergedRow
    <3>3. QED  BY <1>1, <2>2, <3>2 DEF RowWritten
  <2>3. QED  BY <2>1, <2>2
<1>5. Position(tables, p) = IF id = 0 THEN Len(tables[table]) + 1 ELSE id
  BY <1>1 DEF Position
<1>6. QED  BY <1>1, <1>3, <1>4, <1>5, RowPut

\* A call whose write would leave everything readable may become pending.
LEMMA ReadyStep ==
    ASSUME ReferenceInv, NEW s \in Sessions, NEW table \in TableNames,
           NEW id \in {0} \cup DOMAIN tables[table], NEW row \in RowType(table),
           table = "rates" => row.source \in DOMAIN tables["sources"],
           Ready(s, table, id, row),
           Readable(tables) =>
                \A after : Puts(tables, after, table,
                                IF id = 0 THEN Len(tables[table]) + 1 ELSE id, row)
                            => Readable(after)
    PROVE  ReferenceInv'
<1> DEFINE p == Intended(table, id, row)
<1>1. /\ pending' = [pending EXCEPT ![s] = p]
      /\ tables' = tables /\ overtaken' = overtaken /\ overlapped' = overlapped
  BY DEF Ready, Intended
<1>2. TablesFit(tables) /\ KeysUnique(tables) /\ SourcesKnown(tables)
      /\ DOMAIN pending = Sessions
  BY DEF ReferenceInv
<1>3. /\ WriteFits(tables, p)
      /\ Puts(tables, After(tables, p), table,
              IF id = 0 THEN Len(tables[table]) + 1 ELSE id, row)
  <2>1. p = Intended(table, id, row)  OBVIOUS
  <2> HIDE DEF p
  <2>2. QED  BY <1>2, <2>1, IntendedRow
<1> HIDE DEF p
<1>4. DOMAIN pending' = Sessions
      /\ \A t \in Sessions : pending'[t] = IF t = s THEN p ELSE pending[t]
  BY <1>1, <1>2
<1>5. \A t \in Sessions : pending'[t] # NoValue => WriteFits(tables, pending'[t])
  BY <1>3, <1>4 DEF ReferenceInv
<1>6. ~overlapped => Readable(After(tables, p))
  BY <1>3 DEF ReferenceInv, Serial
<1>7. Serial'
  BY <1>1, <1>4, <1>6 DEF ReferenceInv, Serial
<1>8. QED  BY <1>1, <1>2, <1>4, <1>5, <1>7 DEF ReferenceInv

(***************************************************************************)
(* Reference data: what each call would leave                              *)
(***************************************************************************)

\* Tables with other books, mappings and quotes than one that is put.
LEMMA PutElsewhere ==
    ASSUME TablesFit(tables), NEW after, NEW n \in TableNames, NEW position, NEW row,
           Puts(tables, after, n, position, row), Readable(tables),
           n \in {"sources", "rates"}
    PROVE  Readable(after)
<1>1. /\ after["dimensions"] = tables["dimensions"] /\ after["books"] = tables["books"]
      /\ after["mappings"] = tables["mappings"] /\ after["quotes"] = tables["quotes"]
  BY DEF Puts, TableNames
<1>2. QED  BY <1>1 DEF Readable, RowsIn, Structured

\* A dimension may change unless what is in use would be lost.
LEMMA PutDimension ==
    ASSUME TablesFit(tables), NEW after, NEW position, NEW row,
           Puts(tables, after, "dimensions", position, row), Readable(tables),
           position \in DOMAIN tables["dimensions"] =>
                LET old == tables["dimensions"][position]
                IN  InUse(old.code) =>
                        row.code = old.code /\ row.structure = old.structure /\ row.active
    PROVE  Readable(after)
<1>1. /\ after["books"] = tables["books"]
      /\ after["mappings"] = tables["mappings"] /\ after["quotes"] = tables["quotes"]
      /\ DOMAIN after["dimensions"] = DOMAIN tables["dimensions"] \cup {position}
      /\ \A i \in DOMAIN after["dimensions"] : after["dimensions"][i] =
            IF i = position THEN row ELSE tables["dimensions"][i]
  BY DEF Puts, TableNames
<1>2. ASSUME NEW u \in Structured(tables), InUse(u[1])
      PROVE  u \in Structured(after)
  <2>1. PICK i \in DOMAIN tables["dimensions"] :
            /\ tables["dimensions"][i].active
            /\ u = <<tables["dimensions"][i].code, tables["dimensions"][i].structure>>
    BY DEF Structured, RowsIn
  <2>2. i \in DOMAIN after["dimensions"]  BY <1>1, <2>1
  <2>3. /\ after["dimensions"][i].active
        /\ after["dimensions"][i].code = tables["dimensions"][i].code
        /\ after["dimensions"][i].structure = tables["dimensions"][i].structure
    <3>1. CASE i = position
      <4>1. u[1] = tables["dimensions"][position].code  BY <2>1, <3>1
      <4>2. QED  BY <1>1, <1>2, <2>1, <2>2, <3>1, <4>1
    <3>2. CASE i # position  BY <1>1, <2>1, <2>2, <3>2
    <3>3. QED  BY <3>1, <3>2
  <2>4. after["dimensions"][i] \in {d \in RowsIn(after, "dimensions") : d.active}
    BY <2>2, <2>3 DEF RowsIn
  <2>5. u = <<after["dimensions"][i].code, after["dimensions"][i].structure>>
    BY <2>1, <2>3
  <2>6. QED  BY <2>4, <2>5 DEF Structured
<1>3. ASSUME NEW b \in RowsIn(tables, "books") PROVE b.dimensions \subseteq Structured(after)
  <2>1. SUFFICES ASSUME NEW u \in b.dimensions PROVE u \in Structured(after)
    OBVIOUS
  <2>2. u \in Structured(tables)  BY DEF Readable
  <2>3. u[1] \in CodesOf(b.dimensions)  BY DEF CodesOf
  <2>4. b \in RowsOf("books")  BY DEF RowsIn, RowsOf
  <2>5. InUse(u[1])  BY <2>3, <2>4 DEF InUse
  <2>6. QED  BY <1>2, <2>2, <2>5
<1>4. ASSUME NEW m \in RowsIn(tables, "mappings"), m.active
      PROVE  m.structures \subseteq Structured(after)
  <2>1. SUFFICES ASSUME NEW u \in m.structures PROVE u \in Structured(after)
    OBVIOUS
  <2>2. u \in Structured(tables) /\ CodesOf(m.structures) = CodesOf(m.mappings)
    BY <1>4 DEF Readable
  <2>3. u[1] \in CodesOf(m.mappings)
    <3>1. u[1] \in CodesOf(m.structures)  BY DEF CodesOf
    <3>2. QED  BY <2>2, <3>1
  <2>4. m \in RowsOf("mappings")  BY DEF RowsIn, RowsOf
  <2>5. InUse(u[1])  BY <1>4, <2>3, <2>4 DEF InUse
  <2>6. QED  BY <1>2, <2>2, <2>5
<1>5. /\ RowsIn(after, "books") = RowsIn(tables, "books")
      /\ RowsIn(after, "mappings") = RowsIn(tables, "mappings")
      /\ RowsIn(after, "quotes") = RowsIn(tables, "quotes")
  BY <1>1 DEF RowsIn
<1>6. QED  BY <1>3, <1>4, <1>5 DEF Readable

\* A mapping may change unless a quote names it.
LEMMA PutMapping ==
    ASSUME TablesFit(tables), NEW after, NEW position, NEW row,
           Puts(tables, after, "mappings", position, row), Readable(tables),
           row.active =>
                /\ row.structures \subseteq Structured(tables)
                /\ CodesOf(row.structures) = CodesOf(row.mappings),
           position \in DOMAIN tables["mappings"] =>
                LET old == tables["mappings"][position]
                IN  MappingInUse(old.code) => row.code = old.code /\ row.mappings = old.mappings
    PROVE  Readable(after)
<1>1. /\ after["books"] = tables["books"] /\ after["dimensions"] = tables["dimensions"]
      /\ after["quotes"] = tables["quotes"]
      /\ DOMAIN after["mappings"] = DOMAIN tables["mappings"] \cup {position}
      /\ \A i \in DOMAIN after["mappings"] : after["mappings"][i] =
            IF i = position THEN row ELSE tables["mappings"][i]
  BY DEF Puts, TableNames
<1>2. /\ RowsIn(after, "books") = RowsIn(tables, "books")
      /\ RowsIn(after, "quotes") = RowsIn(tables, "quotes")
      /\ Structured(after) = Structured(tables)
  BY <1>1 DEF RowsIn, Structured
<1>3. ASSUME NEW m \in RowsIn(after, "mappings"), m.active
      PROVE  /\ m.structures \subseteq Structured(tables)
             /\ CodesOf(m.structures) = CodesOf(m.mappings)
  <2>1. PICK i \in DOMAIN after["mappings"] : m = after["mappings"][i]  BY DEF RowsIn
  <2>2. CASE i = position  BY <1>1, <1>3, <2>1, <2>2
  <2>3. CASE i # position
    <3>1. m \in RowsIn(tables, "mappings")  BY <1>1, <2>1, <2>3 DEF RowsIn
    <3>2. QED  BY <1>3, <3>1 DEF Readable
  <2>4. QED  BY <2>2, <2>3
<1>4. ASSUME NEW q \in RowsIn(tables, "quotes"), q.mapping # NoValue
      PROVE  \E m \in RowsIn(after, "mappings") : m.code = q.mapping /\ m.mappings = q.mappings
  <2>1. PICK i \in DOMAIN tables["mappings"] :
            tables["mappings"][i].code = q.mapping /\ tables["mappings"][i].mappings = q.mappings
    BY <1>4 DEF Readable, RowsIn
  <2>2. i \in DOMAIN after["mappings"]  BY <1>1
  <2>3. after["mappings"][i].code = q.mapping /\ after["mappings"][i].mappings = q.mappings
    <3>1. CASE i = position
      <4>1. q \in RowsOf("quotes")  BY DEF RowsIn, RowsOf
      <4>2. MappingInUse(tables["mappings"][position].code)
        BY <2>1, <3>1, <4>1 DEF MappingInUse
      <4>3. QED  BY <1>1, <2>1, <2>2, <3>1, <4>2
    <3>2. CASE i # position  BY <1>1, <2>1, <2>2, <3>2
    <3>3. QED  BY <3>1, <3>2
  <2>4. QED  BY <2>2, <2>3 DEF RowsIn
<1>5. QED  BY <1>2, <1>3, <1>4 DEF Readable

\* A rate book is written in terms of the dimensions as they are.
LEMMA PutBook ==
    ASSUME TablesFit(tables), NEW after, NEW position, NEW row,
           Puts(tables, after, "books", position, row), Readable(tables),
           row.dimensions \subseteq Structured(tables)
    PROVE  Readable(after)
<1>1. /\ after["mappings"] = tables["mappings"] /\ after["dimensions"] = tables["dimensions"]
      /\ after["quotes"] = tables["quotes"]
      /\ \A i \in DOMAIN after["books"] :
            after["books"][i] = row \/ (i \in DOMAIN tables["books"]
                                        /\ after["books"][i] = tables["books"][i])
  BY DEF Puts, TableNames
<1>2. \A b \in RowsIn(after, "books") : b = row \/ b \in RowsIn(tables, "books")
  BY <1>1 DEF RowsIn
<1>3. /\ RowsIn(after, "mappings") = RowsIn(tables, "mappings")
      /\ RowsIn(after, "quotes") = RowsIn(tables, "quotes")
      /\ Structured(after) = Structured(tables)
  BY <1>1 DEF RowsIn, Structured
<1>4. QED  BY <1>2, <1>3 DEF Readable

\* A quote names a mapping and maps like it, or none.
LEMMA PutQuote ==
    ASSUME TablesFit(tables), NEW after, NEW position, NEW row,
           Puts(tables, after, "quotes", position, row), Readable(tables),
           row.mapping # NoValue =>
                \E m \in RowsIn(tables, "mappings") :
                    m.code = row.mapping /\ m.mappings = row.mappings
    PROVE  Readable(after)
<1>1. /\ after["mappings"] = tables["mappings"] /\ after["dimensions"] = tables["dimensions"]
      /\ after["books"] = tables["books"]
      /\ \A i \in DOMAIN after["quotes"] :
            after["quotes"][i] = row \/ (i \in DOMAIN tables["quotes"]
                                         /\ after["quotes"][i] = tables["quotes"][i])
  BY DEF Puts, TableNames
<1>2. \A q \in RowsIn(after, "quotes") : q = row \/ q \in RowsIn(tables, "quotes")
  BY <1>1 DEF RowsIn
<1>3. /\ RowsIn(after, "mappings") = RowsIn(tables, "mappings")
      /\ RowsIn(after, "books") = RowsIn(tables, "books")
      /\ Structured(after) = Structured(tables)
  BY <1>1 DEF RowsIn, Structured
<1>4. QED  BY <1>2, <1>3 DEF Readable

\* The structures of dimensions as they are.
LEMMA StructuresRead ==
    ASSUME TablesFit(tables), NEW codes
    PROVE  /\ InStructure(codes) \subseteq Structured(tables)
           /\ Structured(tables) \subseteq InStructure(DimensionCodes)
           /\ InStructure(codes) \in Uses
<1>1. \A d \in RowsOf("dimensions") : d \in DimensionType
  <2>1. "dimensions" \in TableNames  BY DEF TableNames
  <2>2. \A i \in DOMAIN tables["dimensions"] : tables["dimensions"][i] \in DimensionType
    BY <2>1, ReferenceRows DEF RowType
  <2>3. QED  BY <2>2 DEF RowsOf
<1>2. RowsOf("dimensions") = RowsIn(tables, "dimensions")  BY DEF RowsOf, RowsIn
<1>3. \A d \in RowsOf("dimensions") : d.code \in DimensionCodes /\ d.structure \in Structures
  BY <1>1 DEF DimensionType
<1>4. QED  BY <1>2, <1>3 DEF InStructure, Structured, Uses, ActiveDimensions

\* What an editor gives for active dimensions is stored with the structures it
\* has been normalized by.
LEMMA NormalFormsStored ==
    ASSUME TablesFit(tables), NEW given \in DimensionValues, Valid(given)
    PROVE  /\ NormalForms(given) \in DimensionValues
           /\ CodesOf(NormalForms(given)) = CodesOf(given)
           /\ CodesOf(InStructure(CodesOf(given))) = CodesOf(given)
<1>1. \A v \in given : v[1] \in DimensionCodes /\ v[2] \in Values  BY DEF DimensionValues
<1>2. \A d \in ActiveDimensions : d \in DimensionType
  <2>1. "dimensions" \in TableNames  BY DEF TableNames
  <2>2. \A i \in DOMAIN tables["dimensions"] : tables["dimensions"][i] \in DimensionType
    BY <2>1, ReferenceRows DEF RowType
  <2>3. QED  BY <2>2 DEF ActiveDimensions, RowsOf
<1>3. ASSUME NEW v \in given PROVE NormalForm(v[1], v[2]) \in Values
  <2> DEFINE structure == (CHOOSE d \in ActiveDimensions : d.code = v[1]).structure
  <2>1. v[1] \in ActiveCodes /\ NormalForm(v[1], v[2]) # NoValue  BY DEF Valid
  <2>2. \E d \in ActiveDimensions : d.code = v[1]  BY <2>1 DEF ActiveCodes
  <2>3. structure \in Structures  BY <1>2, <2>2 DEF DimensionType
  <2>4. NormalForm(v[1], v[2]) = Normalized[<<structure, v[2]>>]  BY DEF NormalForm
  <2> HIDE DEF structure
  <2>5. <<structure, v[2]>> \in Structures \X Values  BY <1>1, <2>3
  <2>6. Normalized[<<structure, v[2]>>] \in Values \cup {NoValue}
    BY <2>5, ReferenceConstants
  <2>7. QED  BY <2>1, <2>4, <2>6
<1>4. NormalForms(given) \in DimensionValues
  BY <1>1, <1>3 DEF NormalForms, DimensionValues
<1>5. CodesOf(NormalForms(given)) = CodesOf(given)
  <2>1. ASSUME NEW u \in NormalForms(given) PROVE u[1] \in CodesOf(given)
    BY DEF CodesOf, NormalForms
  <2>2. ASSUME NEW v \in given PROVE v[1] \in CodesOf(NormalForms(given))
    <3>1. <<v[1], NormalForm(v[1], v[2])>> \in NormalForms(given)  BY DEF NormalForms
    <3>2. <<v[1], NormalForm(v[1], v[2])>>[1] = v[1]  OBVIOUS
    <3>3. QED  BY <3>1, <3>2 DEF CodesOf
  <2>3. QED  BY <2>1, <2>2 DEF CodesOf
<1>6. CodesOf(given) \subseteq ActiveCodes  BY DEF Valid, CodesOf
<1>7. CodesOf(InStructure(CodesOf(given))) = CodesOf(given)
  <2>1. ASSUME NEW code \in CodesOf(given) PROVE code \in CodesOf(InStructure(CodesOf(given)))
    <3>1. PICK d \in ActiveDimensions : d.code = code  BY <1>6 DEF ActiveCodes
    <3>2. <<d.code, d.structure>> \in InStructure(CodesOf(given))  BY <3>1 DEF InStructure
    <3>3. <<d.code, d.structure>>[1] = code  BY <3>1
    <3>4. QED  BY <3>2, <3>3 DEF CodesOf
  <2>2. ASSUME NEW u \in InStructure(CodesOf(given)) PROVE u[1] \in CodesOf(given)
    BY DEF InStructure
  <2>3. QED  BY <2>1, <2>2 DEF CodesOf
<1>8. QED  BY <1>4, <1>5, <1>7

(***************************************************************************)
(* Reference data: steps                                                   *)
(***************************************************************************)

LEMMA DimensionStepKeeps ==
    ASSUME ReferenceInv, NEW s \in Sessions, DimensionStep(s)
    PROVE  ReferenceInv'
<1>1. TablesFit(tables)  BY DEF ReferenceInv
<1>2. "dimensions" \in TableNames /\ "mappings" \in TableNames /\ "books" \in TableNames
      /\ "quotes" \in TableNames
  BY DEF TableNames
<1>3. /\ \A n \in TableNames : DOMAIN tables[n] = 1 .. Len(tables[n])
      /\ \A n \in TableNames : Len(tables[n]) \in Nat
      /\ \A i \in DOMAIN tables["dimensions"] : tables["dimensions"][i] \in DimensionType
      /\ \A i \in DOMAIN tables["mappings"] : tables["mappings"][i] \in MappingType
  BY <1>1, <1>2, ReferenceRows DEF RowType
<1>4. \A codes : InStructure(codes) \subseteq Structured(tables) /\ InStructure(codes) \in Uses
  BY <1>1, StructuresRead
<1>5. /\ RowType("dimensions") = DimensionType /\ RowType("mappings") = MappingType
      /\ RowType("books") = BookType /\ RowType("quotes") = QuoteType
  BY DEF RowType
<1>6. ASSUME NEW code \in DimensionCodes, NEW structure \in Structures,
             NEW active \in BOOLEAN, CreateDimension(s, code, structure, active)
      PROVE  ReferenceInv'
  <2> DEFINE row == [code |-> code, structure |-> structure, active |-> active]
  <2>1. Ready(s, "dimensions", 0, row)  BY <1>6 DEF CreateDimension
  <2>2. row \in RowType("dimensions")  BY <1>5 DEF DimensionType
  <2> HIDE DEF row
  <2>3. Len(tables["dimensions"]) + 1 \notin DOMAIN tables["dimensions"]
    <3>1. DOMAIN tables["dimensions"] = 1 .. Len(tables["dimensions"])  BY <1>2, <1>3
    <3>2. Len(tables["dimensions"]) \in Nat  BY <1>2, <1>3
    <3>3. QED  BY <3>1, <3>2
  <2>4. Readable(tables) => \A after :
            Puts(tables, after, "dimensions", Len(tables["dimensions"]) + 1, row)
            => Readable(after)
    BY <1>1, <2>3, PutDimension
  <2>5. QED  BY <1>2, <2>1, <2>2, <2>4, ReadyStep
<1>7. ASSUME NEW d \in DOMAIN tables["dimensions"], NEW row \in DimensionType,
             Ready(s, "dimensions", d, row),
             InUse(tables["dimensions"][d].code) =>
                /\ row.code = tables["dimensions"][d].code
                /\ row.structure = tables["dimensions"][d].structure /\ row.active
      PROVE  ReferenceInv'
  <2>1. d # 0  BY <1>2, <1>3
  <2>2. Readable(tables) => \A after :
            Puts(tables, after, "dimensions", d, row) => Readable(after)
    BY <1>1, <1>7, PutDimension
  <2>3. QED  BY <1>2, <1>5, <1>7, <2>1, <2>2, ReadyStep
<1>8. ASSUME NEW d \in DOMAIN tables.dimensions, NEW code \in DimensionCodes,
             NEW structure \in Structures, NEW active \in BOOLEAN,
             UpdateDimension(s, d, code, structure, active)
      PROVE  ReferenceInv'
  <2> DEFINE row == [code |-> code, structure |-> structure, active |-> active]
  <2>1. /\ Ready(s, "dimensions", d, row)
        /\ InUse(tables["dimensions"][d].code) =>
            /\ row.code = tables["dimensions"][d].code
            /\ row.structure = tables["dimensions"][d].structure /\ row.active
    BY <1>8 DEF UpdateDimension
  <2>2. row \in DimensionType  BY DEF DimensionType
  <2> HIDE DEF row
  <2>3. QED  BY <1>7, <2>1, <2>2
<1>9. ASSUME NEW d \in DOMAIN tables.dimensions, DeactivateDimension(s, d)
      PROVE  ReferenceInv'
  <2> DEFINE row == [tables["dimensions"][d] EXCEPT !.active = FALSE]
  <2>1. Ready(s, "dimensions", d, row) /\ ~InUse(tables["dimensions"][d].code)
    BY <1>9 DEF DeactivateDimension
  <2>2. row \in DimensionType
    <3>1. tables["dimensions"][d] \in DimensionType  BY <1>3
    <3>2. QED  BY <3>1 DEF DimensionType
  <2> HIDE DEF row
  <2>3. QED  BY <1>7, <2>1, <2>2
<1>10. ASSUME NEW id \in {0} \cup DOMAIN tables["mappings"], NEW row \in MappingType,
              Ready(s, "mappings", id, row),
              row.active =>
                /\ row.structures \subseteq Structured(tables)
                /\ CodesOf(row.structures) = CodesOf(row.mappings),
              id # 0 /\ MappingInUse(tables["mappings"][id].code) =>
                /\ row.code = tables["mappings"][id].code
                /\ row.mappings = tables["mappings"][id].mappings
       PROVE  ReferenceInv'
  <2> DEFINE position == IF id = 0 THEN Len(tables["mappings"]) + 1 ELSE id
  <2>1. position \in DOMAIN tables["mappings"] => id # 0 /\ position = id
    <3>1. DOMAIN tables["mappings"] = 1 .. Len(tables["mappings"])  BY <1>2, <1>3
    <3>2. Len(tables["mappings"]) \in Nat  BY <1>2, <1>3
    <3>3. QED  BY <3>1, <3>2
  <2>2. Readable(tables) => \A after :
            Puts(tables, after, "mappings", position, row) => Readable(after)
    <3> HIDE DEF position
    <3>1. position \in DOMAIN tables["mappings"] =>
            (MappingInUse(tables["mappings"][position].code) =>
                /\ row.code = tables["mappings"][position].code
                /\ row.mappings = tables["mappings"][position].mappings)
      BY <1>10, <2>1
    <3>2. QED  BY <1>1, <1>10, <3>1, PutMapping
  <2>3. QED  BY <1>2, <1>5, <1>10, <2>2, ReadyStep
<1>11. ASSUME NEW given \in DimensionValues, NEW code \in MappingCodes,
              NEW active \in BOOLEAN, MappingFits(given, active),
              NEW row, row = MappingRow(code, given, active)
       PROVE  /\ row \in MappingType /\ row.code = code /\ row.mappings = NormalForms(given)
              /\ row.active =>
                    /\ row.structures \subseteq Structured(tables)
                    /\ CodesOf(row.structures) = CodesOf(row.mappings)
  <2>1. /\ NormalForms(given) \in DimensionValues
        /\ CodesOf(NormalForms(given)) = CodesOf(given)
        /\ CodesOf(InStructure(CodesOf(given))) = CodesOf(given)
    BY <1>1, <1>11, NormalFormsStored DEF MappingFits
  <2>2. /\ InStructure(CodesOf(given)) \subseteq Structured(tables)
        /\ InStructure(CodesOf(given)) \in Uses
    BY <1>4
  <2>3. {} \in Uses  BY DEF Uses
  <2>4. /\ row.code = code /\ row.mappings = NormalForms(given) /\ row.active = active
        /\ row.structures = IF active THEN InStructure(CodesOf(given)) ELSE {}
    BY <1>11 DEF MappingRow
  <2>5. row \in MappingType
    BY <1>11, <2>1, <2>2, <2>3 DEF MappingType, MappingRow
  <2>6. QED  BY <2>1, <2>2, <2>4, <2>5
<1>12. ASSUME NEW given \in DimensionValues, NEW code \in MappingCodes, NEW active \in BOOLEAN,
              \/ CreateMapping(s, code, given, active)
              \/ \E m \in DOMAIN tables.mappings : UpdateMapping(s, m, code, given, active)
       PROVE  ReferenceInv'
  <2> DEFINE row == MappingRow(code, given, active)
  <2>1. MappingFits(given, active)  BY <1>12 DEF CreateMapping, UpdateMapping
  <2>2. /\ row \in MappingType /\ row.code = code /\ row.mappings = NormalForms(given)
        /\ row.active =>
                /\ row.structures \subseteq Structured(tables)
                /\ CodesOf(row.structures) = CodesOf(row.mappings)
    BY <1>11, <2>1
  <2>3. CASE CreateMapping(s, code, given, active)
    <3>1. Ready(s, "mappings", 0, row)  BY <2>3 DEF CreateMapping
    <3> HIDE DEF row
    <3>2. QED  BY <1>10, <2>2, <3>1
  <2>4. ASSUME NEW m \in DOMAIN tables.mappings, UpdateMapping(s, m, code, given, active)
        PROVE  ReferenceInv'
    <3>1. /\ Ready(s, "mappings", m, row)
          /\ MappingInUse(tables["mappings"][m].code) =>
                /\ code = tables["mappings"][m].code
                /\ NormalForms(given) = tables["mappings"][m].mappings
      BY <2>4 DEF UpdateMapping
    <3> HIDE DEF row
    <3>2. QED  BY <1>10, <2>2, <3>1
  <2>5. QED  BY <1>12, <2>3, <2>4
<1>13. ASSUME NEW m \in DOMAIN tables.mappings, DeactivateMapping(s, m)
       PROVE  ReferenceInv'
  <2> DEFINE row == [tables["mappings"][m] EXCEPT !.active = FALSE, !.structures = {}]
  <2>1. Ready(s, "mappings", m, row)  BY <1>13 DEF DeactivateMapping
  <2>2. /\ row \in MappingType /\ row.code = tables["mappings"][m].code
        /\ row.mappings = tables["mappings"][m].mappings /\ ~row.active
    <3>1. tables["mappings"][m] \in MappingType  BY <1>3
    <3>2. QED  BY <3>1 DEF MappingType, Uses
  <2> HIDE DEF row
  <2>3. QED  BY <1>10, <2>1, <2>2
<1>14. ASSUME NEW b \in {0} \cup DOMAIN tables.books, NEW codes \in SUBSET DimensionCodes,
              SaveBook(s, b, codes)
       PROVE  ReferenceInv'
  <2> DEFINE row == [dimensions |-> InStructure(codes)]
             position == IF b = 0 THEN Len(tables["books"]) + 1 ELSE b
  <2>1. Ready(s, "books", b, row)  BY <1>14 DEF SaveBook
  <2>2. row \in BookType /\ row.dimensions \subseteq Structured(tables)
    BY <1>4 DEF BookType
  <2> HIDE DEF row
  <2>3. Readable(tables) => \A after :
            Puts(tables, after, "books", position, row) => Readable(after)
    <3> HIDE DEF position
    <3>1. QED  BY <1>1, <2>2, PutBook
  <2>4. QED  BY <1>2, <1>5, <2>1, <2>2, <2>3, ReadyStep
<1>15. ASSUME NEW q \in {0} \cup DOMAIN tables["quotes"], NEW row \in QuoteType,
              Ready(s, "quotes", q, row),
              row.mapping # NoValue =>
                \E m \in RowsIn(tables, "mappings") :
                    m.code = row.mapping /\ m.mappings = row.mappings
       PROVE  ReferenceInv'
  <2> DEFINE position == IF q = 0 THEN Len(tables["quotes"]) + 1 ELSE q
  <2>1. Readable(tables) => \A after :
            Puts(tables, after, "quotes", position, row) => Readable(after)
    <3> HIDE DEF position
    <3>1. QED  BY <1>1, <1>15, PutQuote
  <2>2. QED  BY <1>2, <1>5, <1>15, <2>1, ReadyStep
<1>16. ASSUME NEW q \in {0} \cup DOMAIN tables.quotes, SavePlainQuote(s, q)
       PROVE  ReferenceInv'
  <2> DEFINE row == [mapping |-> NoValue, mappings |-> {}]
  <2>1. Ready(s, "quotes", q, row)  BY <1>16 DEF SavePlainQuote
  <2>2. row \in QuoteType /\ row.mapping = NoValue  BY DEF QuoteType, DimensionValues
  <2> HIDE DEF row
  <2>3. QED  BY <1>15, <2>1, <2>2
<1>17. ASSUME NEW q \in {0} \cup DOMAIN tables.quotes, NEW m \in RowsOf("mappings"),
              SaveQuote(s, q, m)
       PROVE  ReferenceInv'
  <2> DEFINE row == [mapping |-> m.code, mappings |-> m.mappings]
  <2>1. Ready(s, "quotes", q, row)  BY <1>17 DEF SaveQuote
  <2>2. m \in RowsIn(tables, "mappings") /\ m \in MappingType
    BY <1>3 DEF RowsIn, RowsOf
  <2>3. row \in QuoteType /\ row.mapping = m.code /\ row.mappings = m.mappings
    BY <2>2 DEF QuoteType, MappingType
  <2> HIDE DEF row
  <2>4. QED  BY <1>15, <2>1, <2>2, <2>3
<1>18. QED
  BY <1>6, <1>8, <1>9, <1>12, <1>13, <1>14, <1>16, <1>17 DEF DimensionStep

LEMMA RateStepKeeps ==
    ASSUME ReferenceInv, NEW s \in Sessions, RateStep(s)
    PROVE  ReferenceInv'
<1>1. TablesFit(tables)  BY DEF ReferenceInv
<1>2. "sources" \in TableNames /\ "rates" \in TableNames  BY DEF TableNames
<1>3. /\ RowType("sources") = SourceType /\ RowType("rates") = RateType  BY DEF RowType
<1>4. /\ \A i \in DOMAIN tables["sources"] : tables["sources"][i] \in SourceType
      /\ \A r \in DOMAIN tables["rates"] : tables["rates"][r] \in RateType
      /\ DOMAIN tables["sources"] \subseteq Nat
  BY <1>1, <1>2, <1>3, ReferenceRows
<1>5. ASSUME NEW n \in {"sources", "rates"}, NEW id \in {0} \cup DOMAIN tables[n],
             NEW row \in RowType(n), n = "rates" => row.source \in DOMAIN tables["sources"],
             Ready(s, n, id, row)
      PROVE  ReferenceInv'
  <2> DEFINE position == IF id = 0 THEN Len(tables[n]) + 1 ELSE id
  <2>1. n \in TableNames  BY DEF TableNames
  <2>2. Readable(tables) => \A after : Puts(tables, after, n, position, row) => Readable(after)
    <3> HIDE DEF position
    <3>1. QED  BY <1>1, <2>1, PutElsewhere
  <2>3. QED  BY <1>5, <2>1, <2>2, ReadyStep
<1>6. ASSUME NEW code \in Sources, NEW active \in BOOLEAN, CreateSource(s, code, active)
      PROVE  ReferenceInv'
  <2> DEFINE row == [code |-> code, active |-> active]
  <2>1. Ready(s, "sources", 0, row)  BY <1>6 DEF CreateSource
  <2>2. row \in SourceType  BY DEF SourceType
  <2> HIDE DEF row
  <2>3. QED  BY <1>3, <1>5, <2>1, <2>2
<1>7. ASSUME NEW i \in DOMAIN tables.sources, NEW code \in Sources, NEW active \in BOOLEAN,
             UpdateSource(s, i, code, active)
      PROVE  ReferenceInv'
  <2> DEFINE row == [code |-> code, active |-> active]
  <2>1. Ready(s, "sources", i, row)  BY <1>7 DEF UpdateSource
  <2>2. row \in SourceType  BY DEF SourceType
  <2> HIDE DEF row
  <2>3. QED  BY <1>3, <1>5, <2>1, <2>2
<1>8. ASSUME NEW i \in DOMAIN tables.sources, DeactivateSource(s, i) PROVE ReferenceInv'
  <2> DEFINE row == [tables["sources"][i] EXCEPT !.active = FALSE]
  <2>1. Ready(s, "sources", i, row)  BY <1>8 DEF DeactivateSource
  <2>2. row \in SourceType
    <3>1. tables["sources"][i] \in SourceType  BY <1>4
    <3>2. QED  BY <3>1 DEF SourceType
  <2> HIDE DEF row
  <2>3. QED  BY <1>3, <1>5, <2>1, <2>2
<1>9. ASSUME NEW r \in DOMAIN tables.rates, DeactivateRate(s, r) PROVE ReferenceInv'
  <2> DEFINE row == [tables["rates"][r] EXCEPT !.active = FALSE]
  <2>1. Ready(s, "rates", r, row)  BY <1>9 DEF DeactivateRate
  <2>2. row \in RateType /\ row.source \in DOMAIN tables["sources"]
    <3>1. tables["rates"][r] \in RateType  BY <1>4
    <3>2. tables["rates"][r].source \in DOMAIN tables["sources"]
      BY DEF ReferenceInv, SourcesKnown
    <3>3. QED  BY <3>1, <3>2 DEF RateType
  <2> HIDE DEF row
  <2>3. QED  BY <1>3, <1>5, <2>1, <2>2
<1>10. ASSUME NEW rate \in [source : DOMAIN tables.sources, pair : Pairs, date : Dates,
                            rate : Rates, active : BOOLEAN]
       PROVE  rate \in RateType /\ rate.source \in DOMAIN tables["sources"]
  BY <1>4 DEF RateType
<1>11. ASSUME NEW rate \in [source : DOMAIN tables.sources, pair : Pairs, date : Dates,
                            rate : Rates, active : BOOLEAN],
              CreateRate(s, rate)
       PROVE  ReferenceInv'
  <2>1. Ready(s, "rates", 0, rate)  BY <1>11 DEF CreateRate
  <2>2. QED  BY <1>3, <1>5, <1>10, <2>1
<1>12. ASSUME NEW rate \in [source : DOMAIN tables.sources, pair : Pairs, date : Dates,
                            rate : Rates, active : BOOLEAN],
              NEW r \in DOMAIN tables.rates, UpdateRate(s, r, rate)
       PROVE  ReferenceInv'
  <2>1. Ready(s, "rates", r, rate)  BY <1>12 DEF UpdateRate
  <2>2. QED  BY <1>3, <1>5, <1>10, <2>1
<1>13. QED  BY <1>6, <1>7, <1>8, <1>9, <1>11, <1>12 DEF RateStep

\* The tables that a call leaves are those it was going to leave, and no index
\* lets a second row of the same key in.
LEMMA CommitStep ==
    ASSUME ReferenceInv, NEW s \in Sessions, Commit(s)
    PROVE  ReferenceInv'
<1> DEFINE p == pending[s]
           n == p.table
           position == Position(tables, p)
           row == RowWritten(tables, p)
<1>1. /\ p # NoValue /\ Fits(p)
      /\ tables' = [tables EXCEPT ![n] = Written(p)]
      /\ pending' = [pending EXCEPT ![s] = NoValue]
      /\ overtaken' = (overtaken \cup {t \in Sessions : pending[t] # NoValue}) \ {s}
      /\ overlapped' = (overlapped \/ s \in overtaken)
  BY DEF Commit
<1>2. /\ TablesFit(tables) /\ KeysUnique(tables) /\ SourcesKnown(tables)
      /\ DOMAIN pending = Sessions /\ Serial /\ WriteFits(tables, p)
      /\ \A t \in Sessions : pending[t] # NoValue => WriteFits(tables, pending[t])
  BY <1>1 DEF ReferenceInv
<1>3. tables' = After(tables, p)  BY <1>1 DEF After, Written
<1>4. /\ TablesFit(tables') /\ row \in RowType(n)
      /\ Puts(tables, tables', n, position, row)
  BY <1>2, <1>3, RowPut
<1>5. /\ n \in TableNames
      /\ \A m \in TableNames : Len(tables[m]) \in Nat /\ DOMAIN tables[m] = 1 .. Len(tables[m])
  BY <1>2, ReferenceRows DEF WriteFits
<1>6. /\ \A m \in TableNames \ {n} : tables'[m] = tables[m]
      /\ DOMAIN tables'[n] = DOMAIN tables[n] \cup {position}
      /\ \A i \in DOMAIN tables'[n] :
            tables'[n][i] = IF i = position THEN row ELSE tables[n][i]
  BY <1>4 DEF Puts
<1>7. Admitted(n, position, row)
  <2>1. tables'[n] = Written(p)
    <3>1. DOMAIN tables = TableNames  BY <1>2 DEF TablesFit
    <3>2. QED  BY <1>1, <1>5, <3>1
  <2>2. Written(p)[position] = row
    <3>1. position \in DOMAIN tables'[n]  BY <1>6
    <3>2. QED  BY <1>6, <2>1, <3>1
  <2>3. QED  BY <1>1, <2>2 DEF Fits, Position
<1> HIDE DEF row, position
<1>8. KeysUnique(tables')
  <2>1. SUFFICES ASSUME NEW m \in TableNames, NEW i \in DOMAIN tables'[m],
                        NEW j \in DOMAIN tables'[m],
                        Key(m, tables'[m][i]) = Key(m, tables'[m][j]),
                        Key(m, tables'[m][i]) # NoValue
                 PROVE  i = j
    BY DEF KeysUnique
  <2>2. CASE m # n  BY <1>2, <1>6, <2>1, <2>2 DEF KeysUnique
  <2>3. CASE m = n
    <3>1. CASE i # position /\ j # position
      <4>1. i \in DOMAIN tables[n] /\ j \in DOMAIN tables[n]  BY <1>6, <2>3, <3>1
      <4>2. tables'[n][i] = tables[n][i] /\ tables'[n][j] = tables[n][j]
        BY <1>6, <2>3, <3>1
      <4>3. QED  BY <1>2, <1>5, <2>1, <2>3, <4>1, <4>2 DEF KeysUnique
    <3>2. CASE i = position /\ j # position
      <4>1. j \in DOMAIN tables[n] \ {position}  BY <1>6, <2>3, <3>2
      <4>2. Key(n, row) = Key(n, tables[n][j]) /\ Key(n, row) # NoValue
        BY <1>6, <2>1, <2>3, <3>2
      <4>3. QED  BY <1>7, <4>1, <4>2 DEF Admitted
    <3>3. CASE i # position /\ j = position
      <4>1. i \in DOMAIN tables[n] \ {position}  BY <1>6, <2>3, <3>3
      <4>2. Key(n, row) = Key(n, tables[n][i]) /\ Key(n, row) # NoValue
        BY <1>6, <2>1, <2>3, <3>3
      <4>3. QED  BY <1>7, <4>1, <4>2 DEF Admitted
    <3>4. QED  BY <3>1, <3>2, <3>3
  <2>4. QED  BY <2>2, <2>3
<1>9. \A m \in TableNames : DOMAIN tables[m] \subseteq DOMAIN tables'[m]
  BY <1>6
<1>10. SourcesKnown(tables')
  <2>1. "sources" \in TableNames /\ "rates" \in TableNames  BY DEF TableNames
  <2>2. CASE n # "rates"  BY <1>2, <1>6, <1>9, <2>1, <2>2 DEF SourcesKnown
  <2>3. CASE n = "rates"
    <3>1. row.source \in DOMAIN tables["sources"]
      <4>1. CASE p.id = 0  BY <1>2, <2>3, <4>1 DEF RowWritten, WriteFits, row
      <4>2. CASE p.id # 0
        <5>1. p.id \in DOMAIN tables["rates"] /\ p.new \in RowType("rates")
              /\ p.old \in RowType("rates") /\ p.new.source \in DOMAIN tables["sources"]
          BY <1>2, <2>3, <4>2 DEF WriteFits
        <5>2. tables["rates"][p.id].source \in DOMAIN tables["sources"]
              /\ tables["rates"][p.id] \in RowType("rates")
          BY <1>2, <2>1, <5>1, ReferenceRows DEF SourcesKnown
        <5>3. Merged(tables["rates"][p.id], p.old, p.new).source
                \in {tables["rates"][p.id].source, p.new.source}
          BY <2>1, <5>1, <5>2, MergedRow
        <5>4. row = Merged(tables["rates"][p.id], p.old, p.new)
          BY <2>3, <4>2 DEF RowWritten, row
        <5>5. QED  BY <5>1, <5>2, <5>3, <5>4
      <4>3. QED  BY <4>1, <4>2
    <3>2. QED  BY <1>2, <1>6, <1>9, <2>1, <2>3, <3>1 DEF SourcesKnown
  <2>4. QED  BY <2>2, <2>3
<1> HIDE DEF p, n
<1>11. \A t \in Sessions : pending'[t] # NoValue => t # s /\ pending'[t] = pending[t]
  BY <1>1, <1>2
<1>12. \A t \in Sessions : pending'[t] # NoValue => WriteFits(tables', pending'[t])
  <2>1. SUFFICES ASSUME NEW t \in Sessions, pending'[t] # NoValue
                 PROVE  WriteFits(tables', pending[t])
    BY <1>11
  <2>2. WriteFits(tables, pending[t])  BY <1>2, <1>11, <2>1
  <2>3. "sources" \in TableNames  BY DEF TableNames
  <2>4. QED  BY <1>9, <2>2, <2>3 DEF WriteFits
<1>13. Serial'
  <2>1. ~overlapped' => Readable(tables')  BY <1>1, <1>2, <1>3 DEF Serial, p
  <2>2. \A t \in Sessions \ overtaken' : pending'[t] = NoValue  BY <1>1, <1>11
  <2>3. overlapped' \in BOOLEAN  BY <1>1, <1>2 DEF Serial
  <2>4. QED  BY <2>1, <2>2, <2>3 DEF Serial
<1>14. DOMAIN pending' = Sessions  BY <1>1, <1>2
<1>15. QED  BY <1>4, <1>8, <1>10, <1>12, <1>13, <1>14 DEF ReferenceInv

LEMMA RollbackStep ==
    ASSUME ReferenceInv, NEW s \in Sessions, Rollback(s)
    PROVE  ReferenceInv'
<1>1. /\ pending' = [pending EXCEPT ![s] = NoValue] /\ overtaken' = overtaken \ {s}
      /\ tables' = tables /\ overlapped' = overlapped
  BY DEF Rollback
<1>2. DOMAIN pending = Sessions  BY DEF ReferenceInv
<1>3. \A t \in Sessions : pending'[t] # NoValue => t # s /\ pending'[t] = pending[t]
  BY <1>1, <1>2
<1>4. Serial'
  BY <1>1, <1>3 DEF ReferenceInv, Serial
<1>5. QED  BY <1>1, <1>2, <1>3, <1>4 DEF ReferenceInv

LEMMA ReferenceStep ==
    ASSUME ReferenceInv, [ReferenceNext]_referenceVars
    PROVE  ReferenceInv'
<1>1. CASE UNCHANGED referenceVars
  BY <1>1 DEF referenceVars, ReferenceInv, Serial
<1>2. CASE ReferenceNext
  BY <1>2, DimensionStepKeeps, RateStepKeeps, CommitStep, RollbackStep DEF ReferenceNext
<1>3. QED  BY <1>1, <1>2

(***************************************************************************)
(* Reference data: conversions                                             *)
(***************************************************************************)

\* Among candidates there is one of the latest date and, of that, the last.
LEMMA ChosenIsCandidate ==
    ASSUME NEW rates, NEW n \in Nat, DOMAIN rates = 1 .. n, NEW date \in Nat,
           \A r \in DOMAIN rates : rates[r].date \in Nat,
           NEW rs \in SUBSET DOMAIN rates, rs # {}, \A r \in rs : rates[r].date <= date
    PROVE  Chosen(rates, rs) \in rs
<1> DEFINE dates == {rates[r].date : r \in rs}
<1>1. dates \in SUBSET (0 .. date) /\ dates # {}  OBVIOUS
<1>2. PICK day \in dates : \A other \in dates : day >= other
  <2> HIDE DEF dates
  <2>1. QED  BY <1>1, GreatestExists
<1> DEFINE ofDay == {r \in rs : rates[r].date = day}
<1>3. ofDay \in SUBSET (0 .. n) /\ ofDay # {}  OBVIOUS
<1>4. PICK r \in ofDay : \A other \in ofDay : r >= other
  <2> HIDE DEF ofDay
  <2>1. QED  BY <1>3, GreatestExists
<1>5. r \in rs /\ r \in Nat /\ rates[r].date = day  OBVIOUS
<1>6. ASSUME NEW other \in rs
      PROVE  \/ rates[other].date < rates[r].date
             \/ rates[other].date = rates[r].date /\ other <= r
  <2>1. rates[other].date \in Nat /\ day \in Nat /\ other \in Nat /\ day >= rates[other].date
    BY <1>1, <1>2
  <2>2. CASE rates[other].date = day
    <3>1. r >= other  BY <1>4, <2>2
    <3> HIDE DEF dates, ofDay
    <3>2. QED  BY <1>5, <2>1, <2>2, <3>1
  <2>3. CASE rates[other].date # day
    <3> HIDE DEF dates, ofDay
    <3>1. QED  BY <1>5, <2>1, <2>3
  <2>4. QED  BY <2>2, <2>3
<1>7. QED  BY <1>5, <1>6 DEF Chosen

\* A conversion of a date only looks at rates up to that date.
LEMMA ResolutionOfEarlierRates ==
    ASSUME NEW rates1, NEW n \in Nat, DOMAIN rates1 = 1 .. n,
           NEW rates2, NEW sources1, NEW pair, NEW date \in Nat,
           \A r \in DOMAIN rates1 : rates1[r].date \in Nat,
           \A r \in DOMAIN rates2 : rates2[r].date \in Nat,
           \A r \in DOMAIN rates1 \cup DOMAIN rates2 :
                \/ r \in DOMAIN rates1 /\ r \in DOMAIN rates2 /\ rates1[r] = rates2[r]
                \/ /\ r \in DOMAIN rates1 => rates1[r].date > date
                   /\ r \in DOMAIN rates2 => rates2[r].date > date
    PROVE  Resolution(rates2, sources1, pair, date) = Resolution(rates1, sources1, pair, date)
<1>1. ASSUME NEW currencies
      PROVE  /\ Candidates(rates2, sources1, currencies, date)
                    = Candidates(rates1, sources1, currencies, date)
             /\ \A r \in Candidates(rates1, sources1, currencies, date) :
                    rates2[r] = rates1[r]
  <2>1. \A r \in DOMAIN rates1 : rates1[r].date <= date =>
            r \in DOMAIN rates2 /\ rates2[r] = rates1[r]
    OBVIOUS
  <2>2. \A r \in DOMAIN rates2 : rates2[r].date <= date =>
            r \in DOMAIN rates1 /\ rates2[r] = rates1[r]
    OBVIOUS
  <2>3. QED  BY <2>1, <2>2 DEF Candidates
<1>2. ASSUME NEW rs, \A r \in rs : rates2[r] = rates1[r]
      PROVE  Chosen(rates2, rs) = Chosen(rates1, rs)
  <2> DEFINE First(r) == \A other \in rs :
                \/ rates1[other].date < rates1[r].date
                \/ rates1[other].date = rates1[r].date /\ other <= r
             Second(r) == \A other \in rs :
                \/ rates2[other].date < rates2[r].date
                \/ rates2[other].date = rates2[r].date /\ other <= r
  <2>1. \A r \in rs : First(r) <=> Second(r)  BY <1>2
  <2>2. /\ Chosen(rates1, rs) = CHOOSE r \in rs : First(r)
        /\ Chosen(rates2, rs) = CHOOSE r \in rs : Second(r)
    BY DEF Chosen
  <2> HIDE DEF First, Second
  <2>3. (CHOOSE r \in rs : First(r)) = (CHOOSE r \in rs : Second(r))  BY <2>1, Zenon
  <2>4. QED  BY <2>2, <2>3
<1>3. ASSUME NEW currencies, Candidates(rates1, sources1, currencies, date) # {}
      PROVE  rates2[Chosen(rates2, Candidates(rates2, sources1, currencies, date))]
                = rates1[Chosen(rates1, Candidates(rates1, sources1, currencies, date))]
  <2> DEFINE rs == Candidates(rates1, sources1, currencies, date)
  <2>1. Candidates(rates2, sources1, currencies, date) = rs
        /\ \A r \in rs : rates2[r] = rates1[r]
    BY <1>1
  <2>2. Chosen(rates2, rs) = Chosen(rates1, rs)  BY <1>2, <2>1
  <2>3. rs \in SUBSET DOMAIN rates1 /\ rs # {} /\ \A r \in rs : rates1[r].date <= date
    BY <1>3 DEF Candidates
  <2> HIDE DEF rs
  <2>4. Chosen(rates1, rs) \in rs  BY <2>3, ChosenIsCandidate
  <2>5. QED  BY <2>1, <2>2, <2>4 DEF rs
<1>4. QED  BY <1>1, <1>3 DEF Resolution

(***************************************************************************)
(* Reference data: the invariant                                           *)
(***************************************************************************)

LEMMA ReferenceInitially == ReferenceInit => ReferenceInv
<1> SUFFICES ASSUME ReferenceInit PROVE ReferenceInv
  OBVIOUS
<1>1. PICK structure \in Structures, source \in Sources :
        tables = [dimensions |-> <<[code |-> SystemCode, structure |-> structure,
                                    active |-> TRUE]>>,
                  sources |-> <<[code |-> source, active |-> TRUE]>>,
                  mappings |-> << >>, books |-> << >>, quotes |-> << >>, rates |-> << >>]
  BY DEF ReferenceInit
<1> DEFINE dimension == [code |-> SystemCode, structure |-> structure, active |-> TRUE]
           first == [code |-> source, active |-> TRUE]
<1>2. dimension \in DimensionType /\ first \in SourceType
  BY ReferenceConstants DEF DimensionType, SourceType
<1>3. /\ tables["dimensions"] = <<dimension>> /\ tables["sources"] = <<first>>
      /\ tables["mappings"] = << >> /\ tables["books"] = << >>
      /\ tables["quotes"] = << >> /\ tables["rates"] = << >>
      /\ tables = [n \in TableNames |-> tables[n]]
  BY <1>1 DEF TableNames
<1> HIDE DEF dimension, first
<1>4. /\ tables["dimensions"] \in Seq(DimensionType) /\ tables["sources"] \in Seq(SourceType)
      /\ tables["mappings"] \in Seq(MappingType) /\ tables["books"] \in Seq(BookType)
      /\ tables["quotes"] \in Seq(QuoteType) /\ tables["rates"] \in Seq(RateType)
      /\ DOMAIN tables["dimensions"] = {1} /\ DOMAIN tables["sources"] = {1}
      /\ DOMAIN tables["mappings"] = {} /\ DOMAIN tables["books"] = {}
      /\ DOMAIN tables["quotes"] = {} /\ DOMAIN tables["rates"] = {}
  <2>1. << >> \in Seq(MappingType) /\ << >> \in Seq(BookType) /\ << >> \in Seq(QuoteType)
        /\ << >> \in Seq(RateType)
    BY EmptySeq
  <2>2. <<dimension>> \in Seq(DimensionType) /\ <<first>> \in Seq(SourceType)  BY <1>2
  <2>3. QED  BY <1>3, <2>1, <2>2
<1>5. TablesFit(tables)  BY <1>3, <1>4 DEF TablesFit, TableNames, RowType
<1>6. KeysUnique(tables)
  <2>1. \A n \in TableNames : \A i, j \in DOMAIN tables[n] : i = j
    BY <1>4 DEF TableNames
  <2>2. QED  BY <2>1 DEF KeysUnique
<1>7. SourcesKnown(tables)  BY <1>4 DEF SourcesKnown
<1>8. pending = [s \in Sessions |-> NoValue] /\ overlapped = FALSE  BY DEF ReferenceInit
<1>9. Readable(tables)  BY <1>4 DEF Readable, RowsIn
<1>10. QED  BY <1>5, <1>6, <1>7, <1>8, <1>9 DEF ReferenceInv, Serial

\* What the invariant says of the properties.
LEMMA ReferenceConsequences ==
    ASSUME ReferenceInv
    PROVE  ReferenceTypeOK /\ UsedDimensionsKept /\ QuoteMappingsKept
<1>1. TablesFit(tables) /\ KeysUnique(tables) /\ SourcesKnown(tables) /\ Serial
  BY DEF ReferenceInv
<1>2. ReferenceTypeOK
  <2>1. tables \in TableTypes /\ DOMAIN tables = TableNames
    BY <1>1, TablesByName DEF TablesFit
  <2>2. \A r \in RowsOf("rates") : r.source \in DOMAIN tables.sources
    BY <1>1 DEF RowsOf, SourcesKnown
  <2>3. QED  BY <1>1, <2>1, <2>2 DEF ReferenceTypeOK, KeysUnique
<1>3. \A n : RowsOf(n) = RowsIn(tables, n)  BY DEF RowsOf, RowsIn
<1>4. UsedDimensionsKept
  <2>1. Structured(tables) \subseteq InStructure(DimensionCodes)  BY <1>1, StructuresRead
  <2>2. CodesOf(InStructure(DimensionCodes)) \subseteq ActiveCodes
    BY DEF CodesOf, InStructure, ActiveCodes
  <2>3. ASSUME ~overlapped, NEW m \in RowsOf("mappings"), m.active
        PROVE  CodesOf(m.mappings) \subseteq ActiveCodes /\ InForceAs(m.structures)
    <3>1. m.structures \subseteq Structured(tables) /\ CodesOf(m.structures) = CodesOf(m.mappings)
      BY <1>1, <1>3, <2>3 DEF Serial, Readable
    <3>2. m.structures \subseteq InStructure(DimensionCodes)  BY <2>1, <3>1
    <3>3. CodesOf(m.structures) \subseteq CodesOf(InStructure(DimensionCodes))
      BY <3>2 DEF CodesOf
    <3>4. QED  BY <2>2, <3>1, <3>2, <3>3 DEF InForceAs
  <2>4. QED  BY <1>1, <1>3, <2>1, <2>3 DEF Serial, Readable, UsedDimensionsKept, InForceAs
<1>5. QuoteMappingsKept  BY <1>1, <1>3 DEF Serial, Readable, QuoteMappingsKept
<1>6. QED  BY <1>2, <1>4, <1>5

(***************************************************************************)
(* Reference data: theorems                                                *)
(***************************************************************************)

\* Rows keep their types and keys, and a call that has not been overtaken
\* leaves what it has checked, in every reachable state: by induction over the
\* operations.
THEOREM ReferenceInvariant == ReferenceSpec => []ReferenceInv
<1>1. ReferenceInit => ReferenceInv  BY ReferenceInitially
<1>2. ReferenceInv /\ [ReferenceNext]_referenceVars => ReferenceInv'  BY ReferenceStep
<1>3. QED  BY <1>1, <1>2, PTL DEF ReferenceSpec

\* However calls overlap, no two rows of a table share a code, or source, pair
\* and date, and every rate has its source (_flush_unique).
THEOREM ReferenceKeysAreUnique == ReferenceSpec => []ReferenceTypeOK
<1>1. ReferenceInv => ReferenceTypeOK  BY ReferenceConsequences
<1>2. QED  BY <1>1, ReferenceInvariant, PTL

\* Unless calls have overlapped, the dimensions of rate books and active mappings
\* normalize as they did when these were saved (_dimension_in_use).
THEOREM UsedDimensionsAreKept == ReferenceSpec => []UsedDimensionsKept
<1>1. ReferenceInv => UsedDimensionsKept  BY ReferenceConsequences
<1>2. QED  BY <1>1, ReferenceInvariant, PTL

\* Unless calls have overlapped, the mapping a quote names still has the
\* dimensions and the values of its own that the quote was read by
\* (update_profile, _profile_in_use).
THEOREM QuoteMappingsAreKept == ReferenceSpec => []QuoteMappingsKept
<1>1. ReferenceInv => QuoteMappingsKept  BY ReferenceConsequences
<1>2. QED  BY <1>1, ReferenceInvariant, PTL

\* Rates of later dates never change a conversion of an earlier one, however
\* calls overlap (resolve, _resolve_row).
THEOREM EarlierConversionsAreKept == ReferenceSpec => EarlierConversionsKept
<1> DEFINE Kept ==
        \A pair \in Pairs, date \in Dates :
            tables'.sources = tables.sources /\ SameUpTo(date)
            => Resolution(tables'.rates, tables'.sources, pair, date)
                = Resolution(tables.rates, tables.sources, pair, date)
<1>1. ASSUME TablesFit(tables), TablesFit(tables') PROVE Kept
  <2>1. "rates" \in TableNames  BY DEF TableNames
  <2>2. /\ Len(tables["rates"]) \in Nat
        /\ DOMAIN tables["rates"] = 1 .. Len(tables["rates"])
        /\ \A r \in DOMAIN tables["rates"] : tables["rates"][r] \in RateType
        /\ \A r \in DOMAIN tables'["rates"] : tables'["rates"][r] \in RateType
    BY <1>1, <2>1, ReferenceRows DEF RowType
  <2>3. /\ \A r \in DOMAIN tables["rates"] : tables["rates"][r].date \in Nat
        /\ \A r \in DOMAIN tables'["rates"] : tables'["rates"][r].date \in Nat
    BY <2>2, ReferenceConstants DEF RateType
  <2>4. SUFFICES ASSUME NEW pair \in Pairs, NEW date \in Dates,
                        tables'.sources = tables.sources, SameUpTo(date)
                 PROVE  Resolution(tables'.rates, tables'.sources, pair, date)
                            = Resolution(tables.rates, tables.sources, pair, date)
    OBVIOUS
  <2> DEFINE rates1 == tables.rates
             rates2 == tables'.rates
             n == Len(rates1)
  <2>5. \A r \in DOMAIN rates1 \cup DOMAIN rates2 :
            \/ r \in DOMAIN rates1 /\ r \in DOMAIN rates2 /\ rates1[r] = rates2[r]
            \/ /\ r \in DOMAIN rates1 => rates1[r].date > date
               /\ r \in DOMAIN rates2 => rates2[r].date > date
    BY <2>4 DEF SameUpTo
  <2>6. date \in Nat  BY ReferenceConstants
  <2>7. n \in Nat /\ DOMAIN rates1 = 1 .. n  BY <2>2
  <2>8. Resolution(rates2, tables.sources, pair, date)
            = Resolution(rates1, tables.sources, pair, date)
    <3> HIDE DEF rates1, rates2, n
    <3>1. /\ \A r \in DOMAIN rates1 : rates1[r].date \in Nat
          /\ \A r \in DOMAIN rates2 : rates2[r].date \in Nat
      BY <2>3 DEF rates1, rates2
    <3>2. QED  BY <2>5, <2>6, <2>7, <3>1, ResolutionOfEarlierRates
  <2>9. QED  BY <2>4, <2>8
<1>2. ReferenceInv /\ ReferenceInv' => Kept  BY <1>1 DEF ReferenceInv
<1>3. ReferenceSpec => [][Kept]_referenceVars
  <2> HIDE DEF Kept
  <2>1. QED  BY <1>2, ReferenceInvariant, PTL DEF ReferenceSpec
<1>4. QED  BY <1>3 DEF EarlierConversionsKept
=============================================================================
