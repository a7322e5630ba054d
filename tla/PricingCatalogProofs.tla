------------------------ MODULE PricingCatalogProofs ------------------------
(***************************************************************************)
(* Proofs about the pricing catalogue, for every set of codes, every form  *)
(* of books, templates and contracts and all bounds.                       *)
(***************************************************************************)
EXTENDS PricingCatalog, SequenceTheorems, WellFoundedInduction, TLAPS

(***************************************************************************)
(* One table of versions                                                   *)
(***************************************************************************)

\* What holds of a table of versions.  A version number is at most the id of
\* its row: that is why a highest number exists, and the next one is in range.
TableInv(rows, codes, forms) ==
    /\ rows \in Seq(VersionType(codes, forms))
    /\ \A i \in DOMAIN rows : rows[i].number <= i
    /\ \A i, j \in DOMAIN rows :
        rows[i].code = rows[j].code /\ rows[i].number = rows[j].number => i = j
    /\ \A i, j \in DOMAIN rows :
        /\ rows[i].code = rows[j].code
        /\ rows[i].status = "PUBLISHED" /\ rows[j].status = "PUBLISHED"
        => i = j

SameContent(before, after) == after.code = before.code /\ after.form = before.form

\* How a table may change in a step: rows stay, what was published stays what
\* it was, and content changes only together with the lock version.
Evolves(rows, next) ==
    /\ DOMAIN rows \subseteq DOMAIN next
    /\ \A i \in DOMAIN rows :
        /\ KeptVersion(rows[i], next[i])
        /\ \/ next[i].lock > rows[i].lock
           \/ next[i].lock = rows[i].lock /\ SameContent(rows[i], next[i])

\* Every non-empty set of numbers up to n has a greatest one.
LEMMA GreatestOfBounded ==
    ASSUME NEW n \in Nat, NEW S \in SUBSET (1 .. n), S # {}
    PROVE  Max(S) \in S /\ \A x \in S : x <= Max(S)
<1> DEFINE T == {n - x : x \in S}
<1>1. T \subseteq Nat /\ T # {}
  <2>1. \A x \in S : n - x \in Nat  OBVIOUS
  <2>2. QED  BY <2>1
<1>2. PICK t \in T : \A y \in T : ~(<<y, t>> \in OpToRel(<, Nat))
  <2> HIDE DEF T
  <2>1. QED  BY <1>1, NatLessThanWellFounded, WFMin
<1>3. PICK m \in S : t = n - m  BY <1>2
<1>4. \A y \in T : ~(y < t)
  <2>1. \A y \in T : y \in Nat /\ t \in Nat  BY <1>1, <1>2
  <2>2. QED  BY <1>2, <2>1 DEF OpToRel
<1>5. \A x \in S : m >= x  BY <1>3, <1>4
<1>6. \E x \in S : \A y \in S : x >= y  BY <1>3, <1>5
<1>7. Max(S) \in S /\ \A y \in S : Max(S) >= y  BY <1>6 DEF Max
<1>8. QED  BY <1>7

\* The next number of a family is free in it, and within the range of ids.
LEMMA NextNumberIsFree ==
    ASSUME NEW codes, NEW forms, NEW rows, TableInv(rows, codes, forms),
           NEW i \in DOMAIN rows
    PROVE  /\ NextNumber(rows, i) \in 1 .. Len(rows) + 1
           /\ NumberFree(rows, rows[i].code, NextNumber(rows, i))
<1> DEFINE S == {rows[j].number : j \in Family(rows, rows[i].code)}
<1>1. Len(rows) \in Nat /\ DOMAIN rows = 1 .. Len(rows)
      /\ \A j \in DOMAIN rows : rows[j] \in VersionType(codes, forms)
  BY LenProperties, ElementOfSeq DEF TableInv
<1>2. \A j \in DOMAIN rows : rows[j].number \in 1 .. Len(rows)
  <2>1. TAKE j \in DOMAIN rows
  <2>2. rows[j].number \in Nat \ {0}  BY <1>1 DEF VersionType
  <2>3. rows[j].number <= j  BY DEF TableInv
  <2>4. QED  BY <1>1, <2>2, <2>3
<1>3. S \in SUBSET (1 .. Len(rows))  BY <1>2 DEF Family
<1>4. rows[i].number \in S  BY DEF Family
<1>5. Max(S) \in S /\ \A x \in S : x <= Max(S)
  <2> HIDE DEF S
  <2>1. QED  BY <1>1, <1>3, <1>4, GreatestOfBounded
<1>6. NextNumber(rows, i) = Max(S) + 1  BY DEF NextNumber
<1>7. Max(S) \in 1 .. Len(rows)
  <2> HIDE DEF S
  <2>1. QED  BY <1>3, <1>5
<1>8. \A j \in Family(rows, rows[i].code) : rows[j].number # Max(S) + 1
  <2>1. TAKE j \in Family(rows, rows[i].code)
  <2>2. rows[j].number \in S  OBVIOUS
  <2> HIDE DEF S
  <2>3. QED  BY <2>2, <1>1, <1>3, <1>5, <1>7
<1> HIDE DEF S
<1>9. QED  BY <1>1, <1>6, <1>7, <1>8 DEF NumberFree

\* A new draft with a number that is free.
LEMMA AppendKeepsTable ==
    ASSUME NEW codes, NEW forms, NEW rows, TableInv(rows, codes, forms),
           NEW code \in codes, NEW form \in forms, NEW n \in 1 .. Len(rows) + 1,
           NumberFree(rows, code, n),
           NEW next, next = Append(rows, NewVersion(code, n, form))
    PROVE  TableInv(next, codes, forms) /\ Evolves(rows, next)
<1> DEFINE new == NewVersion(code, n, form)
<1>1. Len(rows) \in Nat /\ DOMAIN rows = 1 .. Len(rows)
      /\ \A j \in DOMAIN rows : rows[j] \in VersionType(codes, forms)
  BY LenProperties, ElementOfSeq DEF TableInv
<1>2. new \in VersionType(codes, forms)  BY <1>1 DEF NewVersion, VersionType
<1>3. /\ next \in Seq(VersionType(codes, forms))
      /\ DOMAIN next = 1 .. Len(rows) + 1
      /\ \A j \in DOMAIN rows : next[j] = rows[j]
      /\ next[Len(rows) + 1] = new
  <2> HIDE DEF new
  <2>1. next = Append(rows, new)  BY DEF new
  <2>2. QED  BY <1>1, <1>2, <2>1, AppendProperties, LenProperties DEF TableInv
<1>4. new.code = code /\ new.number = n /\ new.status = "DRAFT"  BY DEF NewVersion
<1>5. Evolves(rows, next)
  BY <1>1, <1>3 DEF Evolves, KeptVersion, SameContent
<1>6. \A j \in DOMAIN rows : rows[j].code = code => rows[j].number # n
  BY DEF NumberFree, Family
<1>7. \A j \in DOMAIN next : j \in DOMAIN rows \/ j = Len(rows) + 1
  BY <1>1, <1>3
<1> HIDE DEF new
<1>8. \A j \in DOMAIN next : next[j].number <= j
  <2>1. TAKE j \in DOMAIN next
  <2>2. CASE j \in DOMAIN rows  BY <2>2, <1>3 DEF TableInv
  <2>3. CASE j = Len(rows) + 1  BY <2>3, <1>1, <1>3, <1>4
  <2>4. QED  BY <2>2, <2>3, <1>7
<1>9. \A j, k \in DOMAIN next :
        next[j].code = next[k].code /\ next[j].number = next[k].number => j = k
  BY <1>3, <1>4, <1>6, <1>7 DEF TableInv
<1>10. \A j, k \in DOMAIN next :
        /\ next[j].code = next[k].code
        /\ next[j].status = "PUBLISHED" /\ next[k].status = "PUBLISHED"
        => j = k
  BY <1>3, <1>4, <1>7 DEF TableInv
<1>11. QED  BY <1>3, <1>5, <1>8, <1>9, <1>10 DEF TableInv

\* A version with one field changed.
LEMMA VersionField ==
    ASSUME NEW codes, NEW forms, NEW row \in VersionType(codes, forms)
    PROVE  /\ \A code \in codes : [row EXCEPT !.code = code] \in VersionType(codes, forms)
           /\ \A form \in forms : [row EXCEPT !.form = form] \in VersionType(codes, forms)
           /\ \A status \in {"DRAFT", "PUBLISHED", "RETIRED"} :
                [row EXCEPT !.status = status] \in VersionType(codes, forms)
BY DEF VersionType

\* What an edit changes in a version.
LEMMA EditedVersion ==
    ASSUME NEW codes, NEW forms, NEW row \in VersionType(codes, forms),
           NEW code \in codes, NEW form \in forms, NEW after,
           after = Edited(row, code, form)
    PROVE  /\ after \in VersionType(codes, forms)
           /\ after.code = code /\ after.form = form
           /\ after.number = row.number /\ after.status = row.status
           /\ after.lock = row.lock + 1 /\ after.lock > row.lock
<1> DEFINE moved == [row EXCEPT !.code = code]
           filled == [moved EXCEPT !.form = form]
           lock == row.lock + 1
<1>1. lock \in Nat \ {0} /\ lock > row.lock  BY DEF VersionType
<1>2. after = [filled EXCEPT !.lock = lock]  BY DEF Edited, VersionType
<1>3. moved \in VersionType(codes, forms)  BY VersionField
<1>4. filled \in VersionType(codes, forms)
  <2> HIDE DEF moved
  <2>1. QED  BY <1>3, VersionField
<1>5. after \in VersionType(codes, forms)
  <2> HIDE DEF filled, lock
  <2>1. QED  BY <1>1, <1>2, <1>4 DEF VersionType
<1>6. QED  BY <1>1, <1>5 DEF Edited, VersionType

\* What a publication changes in the version that is published.
LEMMA PublishedVersion ==
    ASSUME NEW codes, NEW forms, NEW row \in VersionType(codes, forms), NEW after,
           after = PutInForce(row)
    PROVE  /\ after \in VersionType(codes, forms)
           /\ after.code = row.code /\ after.form = row.form
           /\ after.number = row.number /\ after.status = "PUBLISHED"
           /\ after.lock = row.lock + 1
<1> DEFINE set == [row EXCEPT !.status = "PUBLISHED"]
           lock == row.lock + 1
<1>1. lock \in Nat \ {0}  BY DEF VersionType
<1>2. after = [set EXCEPT !.lock = lock]  BY DEF PutInForce, VersionType
<1>3. set \in VersionType(codes, forms)  BY VersionField
<1>4. after \in VersionType(codes, forms)
  <2> HIDE DEF set, lock
  <2>1. QED  BY <1>1, <1>2, <1>3 DEF VersionType
<1>5. QED  BY <1>4 DEF PutInForce, VersionType

Replaced(rows, i, row) == [rows EXCEPT ![i] = row]

\* An edited draft, under its own code or another one it is unique in.
LEMMA EditKeepsTable ==
    ASSUME NEW codes, NEW forms, NEW rows, TableInv(rows, codes, forms),
           NEW i \in DOMAIN rows, rows[i].status = "DRAFT",
           NEW code \in codes, NEW form \in forms,
           code # rows[i].code => NumberFree(rows, code, rows[i].number),
           NEW row, row = Edited(rows[i], code, form),
           NEW next, next = Replaced(rows, i, row)
    PROVE  /\ TableInv(next, codes, forms) /\ Evolves(rows, next)
           /\ DOMAIN next = DOMAIN rows
           /\ \A j \in DOMAIN rows \ {i} : next[j] = rows[j]
           /\ next[i].status = "DRAFT" /\ next[i].form = form
<1>1. Len(rows) \in Nat /\ DOMAIN rows = 1 .. Len(rows)
      /\ \A j \in DOMAIN rows : rows[j] \in VersionType(codes, forms)
  BY LenProperties, ElementOfSeq DEF TableInv
<1>2. row \in VersionType(codes, forms)  BY <1>1, EditedVersion
<1>3. /\ row.code = code /\ row.form = form /\ row.status = rows[i].status
      /\ row.number = rows[i].number /\ row.lock > rows[i].lock
  BY <1>1, EditedVersion
<1>4. /\ next \in Seq(VersionType(codes, forms)) /\ DOMAIN next = DOMAIN rows
      /\ \A j \in DOMAIN rows : next[j] = IF j = i THEN row ELSE rows[j]
  BY <1>1, <1>2, ExceptSeq, LenProperties DEF TableInv, Replaced
<1>5. Evolves(rows, next)
  BY <1>3, <1>4 DEF Evolves, KeptVersion, SameContent
<1>6. \A j \in DOMAIN next : next[j].number <= j
  BY <1>3, <1>4 DEF TableInv
<1>7. \A j, k \in DOMAIN next :
        next[j].code = next[k].code /\ next[j].number = next[k].number => j = k
  <2>1. \A j \in DOMAIN rows : j # i /\ rows[j].code = code => rows[j].number # rows[i].number
    BY DEF NumberFree, Family, TableInv
  <2>2. QED  BY <1>3, <1>4, <2>1 DEF TableInv
<1>8. \A j, k \in DOMAIN next :
        /\ next[j].code = next[k].code
        /\ next[j].status = "PUBLISHED" /\ next[k].status = "PUBLISHED"
        => j = k
  BY <1>3, <1>4 DEF TableInv
<1>9. QED  BY <1>3, <1>4, <1>5, <1>6, <1>7, <1>8 DEF TableInv

\* A published draft.
LEMMA PublishKeepsTable ==
    ASSUME NEW codes, NEW forms, NEW rows, TableInv(rows, codes, forms),
           NEW i \in DOMAIN rows, rows[i].status = "DRAFT",
           NEW next, next = Published(rows, i)
    PROVE  /\ TableInv(next, codes, forms) /\ Evolves(rows, next)
           /\ DOMAIN next = DOMAIN rows
           /\ \A j \in DOMAIN rows : next[j].form = rows[j].form
           /\ \A j \in DOMAIN rows \ {i} :
                next[j].status # "DRAFT" => rows[j].status # "DRAFT"
<1>1. Len(rows) \in Nat /\ DOMAIN rows = 1 .. Len(rows)
      /\ \A j \in DOMAIN rows : rows[j] \in VersionType(codes, forms)
  BY LenProperties, ElementOfSeq DEF TableInv
<1>2. DOMAIN next = 1 .. Len(rows)  BY <1>1 DEF Published
<1>3. ASSUME NEW j \in DOMAIN rows
      PROVE  /\ next[j] \in VersionType(codes, forms)
             /\ next[j].code = rows[j].code /\ next[j].number = rows[j].number
             /\ next[j].form = rows[j].form
             /\ next[j].lock = IF j = i THEN rows[j].lock + 1 ELSE rows[j].lock
             /\ next[j].status = IF j = i THEN "PUBLISHED"
                                 ELSE IF rows[j].code = rows[i].code
                                         /\ rows[j].status = "PUBLISHED"
                                 THEN "RETIRED" ELSE rows[j].status
  <2>1. rows[j] \in VersionType(codes, forms)  BY <1>1
  <2>2. CASE j = i
    <3>1. next[j] = PutInForce(rows[j])
      BY <2>2 DEF Published
    <3>2. /\ next[j] \in VersionType(codes, forms)
          /\ next[j].code = rows[j].code /\ next[j].form = rows[j].form
          /\ next[j].number = rows[j].number /\ next[j].status = "PUBLISHED"
          /\ next[j].lock = rows[j].lock + 1
      BY <2>1, <3>1, PublishedVersion
    <3>3. QED  BY <2>2, <3>2
  <2>3. CASE j # i /\ rows[j].code = rows[i].code /\ rows[j].status = "PUBLISHED"
    <3>1. next[j] = [rows[j] EXCEPT !.status = "RETIRED"]
      BY <2>3 DEF Published
    <3>2. QED  BY <2>1, <2>3, <3>1 DEF VersionType
  <2>4. CASE j # i /\ ~(rows[j].code = rows[i].code /\ rows[j].status = "PUBLISHED")
    <3>1. next[j] = rows[j]  BY <2>4 DEF Published
    <3>2. QED  BY <2>1, <2>4, <3>1
  <2>5. QED  BY <2>2, <2>3, <2>4
<1>4. next \in Seq(VersionType(codes, forms)) /\ DOMAIN next = DOMAIN rows
  <2>1. next \in [1 .. Len(rows) -> VersionType(codes, forms)]
    <3>1. next = [j \in 1 .. Len(rows) |-> next[j]]  BY <1>1 DEF Published
    <3>2. QED  BY <1>1, <1>3, <3>1
  <2>2. QED  BY <1>1, <1>2, <2>1, SeqDef
<1>5. \A j \in DOMAIN rows : rows[j].lock \in Nat  BY <1>1 DEF VersionType
<1>6. Evolves(rows, next)
  BY <1>3, <1>4, <1>5 DEF Evolves, KeptVersion, SameContent
<1>7. \A j \in DOMAIN next : next[j].number <= j
  BY <1>3, <1>4 DEF TableInv
<1>8. \A j, k \in DOMAIN next :
        next[j].code = next[k].code /\ next[j].number = next[k].number => j = k
  BY <1>3, <1>4 DEF TableInv
<1>9. \A j, k \in DOMAIN next :
        /\ next[j].code = next[k].code
        /\ next[j].status = "PUBLISHED" /\ next[k].status = "PUBLISHED"
        => j = k
  BY <1>3, <1>4 DEF TableInv
<1>10. \A j \in DOMAIN rows \ {i} :
        next[j].status # "DRAFT" => rows[j].status # "DRAFT"
  BY <1>3
<1>11. QED  BY <1>3, <1>4, <1>6, <1>7, <1>8, <1>9, <1>10 DEF TableInv

(***************************************************************************)
(* What released contracts depend on                                       *)
(***************************************************************************)

\* Nothing a contract with this form depends on is a draft.
NoDrafts(f) ==
    /\ \A t \in TemplatesOf(f) : templates[t].status # "DRAFT"
    /\ \A b \in PinnedBooks(f) : books[b].status # "DRAFT"

CatalogEvolves == Evolves(books, books') /\ Evolves(templates, templates')

\* What a contract looks up when it prices is among what it depends on.
Pinned(f, lines) == \A l \in lines : l.book \in PinnedBooks(f) \cup {NoValue}

LEMMA RatedBooksArePinned ==
    ASSUME NEW f \in ContractForm, NEW route \in f.routes \cup {NoValue}
    PROVE  Pinned(f, RatedLines(f, route))
<1>1. ASSUME NEW t \in TemplatesOf(f), NEW book \in DirectBooks(f) \cup {NoValue},
             NEW profile
      PROVE  Pinned(f, Expanded(t, book, profile))
  <2>1. \A step \in templates[t].form.steps :
            OrElse(step, book) \in PinnedBooks(f) \cup {NoValue}
    BY <1>1 DEF PinnedBooks, OrElse
  <2>2. \A l \in Expanded(t, book, profile) :
            \E step \in templates[t].form.steps : l.book = OrElse(step, book)
    BY DEF Expanded
  <2>3. QED  BY <2>1, <2>2 DEF Pinned
<1>2. f.book \in DirectBooks(f) \cup {NoValue}  BY DEF DirectBooks
<1>3. ASSUME NEW l \in f.lines
      PROVE  OrElse(l.book, f.book) \in DirectBooks(f) \cup {NoValue}
  BY DEF DirectBooks, OrElse
<1>4. ASSUME NEW l \in f.lines, OrElse(l.template, f.template) # NoValue
      PROVE  OrElse(l.template, f.template) \in TemplatesOf(f)
  BY <1>4 DEF TemplatesOf, OrElse
<1>5. CASE f.routes # {} \/ f.lines = {}
  <2>1. CASE OrElse(route, f.template) = NoValue
    BY <1>5, <2>1 DEF RatedLines, Pinned
  <2>2. CASE OrElse(route, f.template) # NoValue
    <3>1. OrElse(route, f.template) \in TemplatesOf(f)
      BY <2>2 DEF TemplatesOf, OrElse
    <3>2. RatedLines(f, route) = Expanded(OrElse(route, f.template), f.book, NoValue)
      BY <1>5, <2>2 DEF RatedLines
    <3>3. QED  BY <1>1, <1>2, <3>1, <3>2
  <2>3. QED  BY <2>1, <2>2
<1>6. CASE ~(f.routes # {} \/ f.lines = {})
  <2> DEFINE Of(l) == LET t == OrElse(l.template, f.template)
                          book == OrElse(l.book, f.book)
                      IN  IF t = NoValue THEN {[book |-> book, profile |-> l.profile]}
                          ELSE Expanded(t, book, l.profile)
  <2>1. RatedLines(f, route) = UNION {Of(l) : l \in f.lines}
    BY <1>6 DEF RatedLines
  <2>2. ASSUME NEW l \in f.lines PROVE Pinned(f, Of(l))
    <3>1. CASE OrElse(l.template, f.template) = NoValue
      BY <1>3, <3>1 DEF PinnedBooks, Pinned
    <3>2. CASE OrElse(l.template, f.template) # NoValue
      BY <1>1, <1>3, <1>4, <3>2
    <3>3. QED  BY <3>1, <3>2
  <2> HIDE DEF Of
  <2>3. QED  BY <2>1, <2>2 DEF Pinned
<1>7. QED  BY <1>5, <1>6

\* As versions evolve, a contract that depends on no draft goes on to depend
\* on the same versions.
LEMMA DependenciesKept ==
    ASSUME CatalogEvolves, NEW f \in ContractForm, Exist(f), NoDrafts(f),
           \A t \in DOMAIN templates : StepsExist(templates[t].form)
    PROVE  /\ NoDrafts(f)'
           /\ PinnedBooks(f)' = PinnedBooks(f)
           /\ PinnedBooks(f) \subseteq DOMAIN books
           /\ \A t \in TemplatesOf(f) :
                /\ templates'[t].form = templates[t].form
                /\ templates'[t].status \in {templates[t].status, "RETIRED"}
           /\ \A b \in PinnedBooks(f) :
                /\ books'[b].form = books[b].form
                /\ books'[b].status \in {books[b].status, "RETIRED"}
<1>1. \A t \in TemplatesOf(f) :
        /\ t \in DOMAIN templates
        /\ templates'[t].form = templates[t].form
        /\ templates'[t].status \in {templates[t].status, "RETIRED"}
  BY DEF CatalogEvolves, Evolves, KeptVersion, NoDrafts, Exist
<1>2. PinnedBooks(f)' = PinnedBooks(f)
  <2>1. {templates'[t].form.steps : t \in TemplatesOf(f)}
        = {templates[t].form.steps : t \in TemplatesOf(f)}
    BY <1>1
  <2>2. QED  BY <2>1 DEF PinnedBooks
<1>3. PinnedBooks(f) \subseteq DOMAIN books
  <2>1. \A t \in TemplatesOf(f) : templates[t].form.steps \ {NoValue} \subseteq DOMAIN books
    BY <1>1 DEF StepsExist
  <2>2. QED  BY <2>1 DEF PinnedBooks, Exist
<1>4. \A b \in PinnedBooks(f) :
        /\ books'[b].form = books[b].form
        /\ books'[b].status \in {books[b].status, "RETIRED"}
  BY <1>3 DEF CatalogEvolves, Evolves, KeptVersion, NoDrafts
<1>5. NoDrafts(f)'
  BY <1>1, <1>2, <1>4 DEF NoDrafts
<1>6. QED  BY <1>1, <1>2, <1>3, <1>4, <1>5

\* Until one of them is retired, it rates what it rated, whatever the terms.
LEMMA PriceListKept ==
    ASSUME CatalogEvolves, NEW f \in ContractForm, Exist(f), NoDrafts(f),
           \A t \in DOMAIN templates : StepsExist(templates[t].form),
           ~DependsOnRetired(f)', NEW CONSTANT under
    PROVE  ~DependsOnRetired(f) /\ PriceList(f, under)' = PriceList(f, under)
<1>1. /\ PinnedBooks(f)' = PinnedBooks(f)
      /\ \A t \in TemplatesOf(f) :
            /\ templates'[t].form = templates[t].form
            /\ templates'[t].status = templates[t].status
      /\ \A b \in PinnedBooks(f) :
            /\ books'[b].form = books[b].form
            /\ books'[b].status = books[b].status
  BY DependenciesKept DEF DependsOnRetired
<1>2. ~DependsOnRetired(f)  BY <1>1 DEF DependsOnRetired
<1>3. ASSUME NEW t \in TemplatesOf(f), NEW book, NEW profile
      PROVE  Expanded(t, book, profile)' = Expanded(t, book, profile)
  <2>1. /\ templates'[t].form = templates[t].form
        /\ InForce(templates'[t]) = InForce(templates[t])
    BY <1>1 DEF InForce
  <2>2. QED  BY <2>1 DEF Expanded
<1>4. ASSUME NEW route \in f.routes \cup {NoValue}
      PROVE  RatedLines(f, route)' = RatedLines(f, route)
  <2>1. OrElse(route, f.template) # NoValue =>
            OrElse(route, f.template) \in TemplatesOf(f)
    BY DEF OrElse, TemplatesOf
  <2>2. \A l \in f.lines : OrElse(l.template, f.template) # NoValue =>
            OrElse(l.template, f.template) \in TemplatesOf(f)
    BY DEF OrElse, TemplatesOf
  <2>3. CASE f.routes # {} \/ f.lines = {}
    <3>1. CASE OrElse(route, f.template) = NoValue  BY <2>3, <3>1 DEF RatedLines
    <3>2. CASE OrElse(route, f.template) # NoValue
      <4>1. RatedLines(f, route) = Expanded(OrElse(route, f.template), f.book, NoValue)
        BY <2>3, <3>2 DEF RatedLines
      <4>2. RatedLines(f, route)' = Expanded(OrElse(route, f.template), f.book, NoValue)'
        BY <2>3, <3>2 DEF RatedLines
      <4>3. QED  BY <1>3, <2>1, <3>2, <4>1, <4>2
    <3>3. QED  BY <3>1, <3>2
  <2>4. CASE ~(f.routes # {} \/ f.lines = {})
    <3> DEFINE Of(l) == LET t == OrElse(l.template, f.template)
                            book == OrElse(l.book, f.book)
                        IN  IF t = NoValue THEN {[book |-> book, profile |-> l.profile]}
                            ELSE Expanded(t, book, l.profile)
               OfNext(l) == LET t == OrElse(l.template, f.template)
                                book == OrElse(l.book, f.book)
                            IN  IF t = NoValue THEN {[book |-> book, profile |-> l.profile]}
                                ELSE Expanded(t, book, l.profile)'
    <3>1. RatedLines(f, route) = UNION {Of(l) : l \in f.lines}
      BY <2>4 DEF RatedLines
    <3>2. RatedLines(f, route)' = UNION {OfNext(l) : l \in f.lines}
      BY <2>4 DEF RatedLines
    <3>3. \A l \in f.lines : OfNext(l) = Of(l)
      BY <1>3, <2>2
    <3> HIDE DEF Of, OfNext
    <3>4. QED  BY <3>1, <3>2, <3>3
  <2>5. QED  BY <2>3, <2>4
<1>5. ASSUME NEW route \in f.routes \cup {NoValue}
      PROVE  Charges(f, route, under)' = Charges(f, route, under)
  <2>1. \A l \in RatedLines(f, route) : l.book # NoValue =>
            /\ books'[l.book].form = books[l.book].form
            /\ InForce(books'[l.book]) = InForce(books[l.book])
    BY <1>1, RatedBooksArePinned DEF InForce, Pinned
  <2>2. QED  BY <1>4, <2>1 DEF Charges
<1>6. PriceList(f, under)' = PriceList(f, under)  BY <1>5 DEF PriceList
<1>7. QED  BY <1>2, <1>6

\* The same terms make the same charges.
LEMMA SameTermsSamePrices ==
    ASSUME NEW f, NEW before, SameTerms(f, before)
    PROVE  PriceList(f, terms) = PriceList(f, before)
<1>1. ASSUME NEW route \in f.routes \cup {NoValue}, NEW l \in RatedLines(f, route),
             l.book # NoValue
      PROVE  LET entry == books[l.book].form
             IN  /\ EntryBasis(entry, terms) = EntryBasis(entry, before)
                 /\ EffectiveProfile(l, entry, terms) = EffectiveProfile(l, entry, before)
  <2> DEFINE entry == books[l.book].form
  <2>1. l \in LinesWithBook(f)  BY <1>1 DEF LinesWithBook
  <2>2. NoValue \in {entry.basis, OrElse(l.profile, entry.profile)} =>
            terms.component = before.component
    BY <2>1 DEF RestsOnComponent, SameTerms
  <2>3. EntryBasis(entry, terms) = EntryBasis(entry, before)
    BY <2>2 DEF EntryBasis, OrElse
  <2>4. ProfileNamed(l, entry, terms) = ProfileNamed(l, entry, before)
    BY <2>2 DEF ProfileNamed, OrElse
  <2>5. ProfileNamed(l, entry, terms) \in ProfilesOf(f)  BY <2>1 DEF ProfilesOf
  <2>6. ProfileNamed(l, entry, terms) \in terms.published
        <=> ProfileNamed(l, entry, terms) \in before.published
    BY <2>5 DEF SameTerms
  <2>7. EffectiveProfile(l, entry, terms) = EffectiveProfile(l, entry, before)
    BY <2>4, <2>6 DEF EffectiveProfile
  <2>8. QED  BY <2>3, <2>7
<1>2. ASSUME NEW route \in f.routes \cup {NoValue}
      PROVE  Charges(f, route, terms) = Charges(f, route, before)
  BY <1>1 DEF Charges
<1>3. QED  BY <1>2 DEF PriceList

(***************************************************************************)
(* The inductive invariant                                                 *)
(***************************************************************************)

FilledBooks == \A b \in DOMAIN books : books[b].status # "DRAFT" => books[b].form.price # NoValue

FilledTemplates ==
    \A t \in DOMAIN templates :
        /\ StepsExist(templates[t].form)
        /\ templates[t].status # "DRAFT" => templates[t].form.steps # {}

ContractsRefer ==
    /\ contracts \in Seq(ContractType)
    /\ \A c \in DOMAIN contracts : Exist(contracts[c].form)
    /\ Len(contracts) <= MaxContracts /\ DOMAIN priced = 1 .. MaxContracts

\* The opened version is older than the row, or the same.
NotNewer(rows, w) ==
    \/ rows[w.id].lock > w.version.lock
    \/ rows[w.id].lock = w.version.lock /\ SameContent(w.version, rows[w.id])

WorkspaceSound ==
    workspace # NoValue =>
        \/ /\ workspace.table = "books" /\ workspace.id \in DOMAIN books
           /\ workspace.version \in VersionType(BookCodes, BookForms)
           /\ NotNewer(books, workspace)
        \/ /\ workspace.table = "templates" /\ workspace.id \in DOMAIN templates
           /\ workspace.version \in VersionType(TemplateCodes, TemplateForms)
           /\ NotNewer(templates, workspace)

\* Depends on no draft, and charges what it did by the terms of its release.
Firm(f, record) ==
    /\ NoDrafts(f)
    /\ ~DependsOnRetired(f) => PriceList(f, record.terms) = record.list

\* A released contract depends on no draft: only then can a draft be edited or
\* published without a released price moving.
ReleasedIsFirm ==
    \A c \in DOMAIN contracts : contracts[c].status = "RELEASED" =>
        Firm(contracts[c].form, priced[c])

CatalogInv ==
    /\ TableInv(books, BookCodes, BookForms)
    /\ TableInv(templates, TemplateCodes, TemplateForms)
    /\ FilledBooks /\ FilledTemplates
    /\ ContractsRefer
    /\ WorkspaceSound
    /\ terms \in TermsType
    /\ ReleasedIsFirm

\* A table that stays the same evolves.
LEMMA UnchangedEvolves ==
    ASSUME NEW rows, NEW next, next = rows
    PROVE  Evolves(rows, next)
BY DEF Evolves, KeptVersion, SameContent

\* The contracts need not move when the versions do.
LEMMA ContractsBesideVersions ==
    ASSUME CatalogInv, CatalogEvolves, UNCHANGED <<contracts, priced>>
    PROVE  ContractsRefer' /\ ReleasedIsFirm'
<1>1. ContractsRefer'
  <2>1. DOMAIN books \subseteq DOMAIN books' /\ DOMAIN templates \subseteq DOMAIN templates'
    BY DEF CatalogEvolves, Evolves
  <2>2. \A c \in DOMAIN contracts : Exist(contracts[c].form)'
    BY <2>1 DEF CatalogInv, ContractsRefer, Exist
  <2>3. QED  BY <2>2 DEF CatalogInv, ContractsRefer
<1>2. ReleasedIsFirm'
  <2> SUFFICES ASSUME NEW c \in DOMAIN contracts, contracts[c].status = "RELEASED"
               PROVE  Firm(contracts[c].form, priced[c])'
    BY DEF ReleasedIsFirm
  <2>1. contracts[c].form \in ContractForm /\ Exist(contracts[c].form)
    <3>1. contracts[c] \in ContractType
      BY ElementOfSeq, LenProperties DEF CatalogInv, ContractsRefer
    <3>2. QED  BY <3>1, CatalogConstants DEF CatalogInv, ContractsRefer, ContractType
  <2>2. Firm(contracts[c].form, priced[c])
    BY DEF CatalogInv, ReleasedIsFirm
  <2>3. \A t \in DOMAIN templates : StepsExist(templates[t].form)
    BY DEF CatalogInv, FilledTemplates
  <2>4. ASSUME NEW CONSTANT f, NEW CONSTANT record,
               f = contracts[c].form, record = priced[c]
        PROVE  Firm(f, record)'
    <3>1. f \in ContractForm /\ Exist(f) /\ Firm(f, record)  BY <2>1, <2>2, <2>4
    <3>2. NoDrafts(f)'  BY <2>3, <3>1, DependenciesKept DEF Firm
    <3>3. ASSUME ~DependsOnRetired(f)'
          PROVE  /\ ~DependsOnRetired(f)
                 /\ PriceList(f, record.terms)' = PriceList(f, record.terms)
      BY <2>3, <3>1, <3>3, PriceListKept DEF Firm
    <3>4. QED  BY <3>1, <3>2, <3>3 DEF Firm
  <2>5. QED  BY <2>4
<1>3. QED  BY <1>1, <1>2

\* The opened version need not move when the versions do.
LEMMA WorkspaceBesideVersions ==
    ASSUME CatalogInv, CatalogEvolves, UNCHANGED workspace,
           TableInv(books, BookCodes, BookForms)',
           TableInv(templates, TemplateCodes, TemplateForms)'
    PROVE  WorkspaceSound'
<1>1. ASSUME NEW codes, NEW forms, NEW rows, NEW next, Evolves(rows, next), NEW w,
             TableInv(rows, codes, forms), TableInv(next, codes, forms),
             w.id \in DOMAIN rows, w.version \in VersionType(codes, forms),
             NotNewer(rows, w)
      PROVE  w.id \in DOMAIN next /\ NotNewer(next, w)
  <2>1. w.id \in DOMAIN next  BY <1>1 DEF Evolves
  <2>2. rows[w.id] \in VersionType(codes, forms) /\ next[w.id] \in VersionType(codes, forms)
    BY <1>1, <2>1, ElementOfSeq, LenProperties DEF TableInv
  <2>3. rows[w.id].lock \in Nat /\ next[w.id].lock \in Nat /\ w.version.lock \in Nat
    BY <1>1, <2>2 DEF VersionType
  <2>4. \/ next[w.id].lock > rows[w.id].lock
        \/ next[w.id].lock = rows[w.id].lock /\ SameContent(rows[w.id], next[w.id])
    BY <1>1 DEF Evolves
  <2>5. NotNewer(next, w)
    BY <1>1, <2>3, <2>4 DEF NotNewer, SameContent
  <2>6. QED  BY <2>1, <2>5
<1>2. CASE workspace = NoValue  BY <1>2 DEF WorkspaceSound
<1>3. CASE workspace # NoValue /\ workspace.table = "books"
  BY <1>1, <1>3 DEF CatalogInv, CatalogEvolves, WorkspaceSound
<1>4. CASE workspace # NoValue /\ workspace.table # "books"
  BY <1>1, <1>4 DEF CatalogInv, CatalogEvolves, WorkspaceSound
<1>5. QED  BY <1>2, <1>3, <1>4

\* Whatever evolves the two tables and keeps them, keeps the invariant.
LEMMA VersionStepKeepsInv ==
    ASSUME CatalogInv, CatalogEvolves, UNCHANGED <<contracts, workspace, terms, priced>>,
           TableInv(books, BookCodes, BookForms)',
           TableInv(templates, TemplateCodes, TemplateForms)',
           FilledBooks', FilledTemplates'
    PROVE  CatalogInv'
BY ContractsBesideVersions, WorkspaceBesideVersions DEF CatalogInv

(***************************************************************************)
(* Every step keeps the invariant, and lets both tables evolve             *)
(***************************************************************************)

LEMMA OnlyBooksMove ==
    ASSUME CatalogInv, TableInv(books, BookCodes, BookForms)', Evolves(books, books'),
           FilledBooks', UNCHANGED <<templates, contracts, workspace, terms, priced>>
    PROVE  CatalogInv' /\ CatalogEvolves
<1>1. CatalogEvolves  BY UnchangedEvolves DEF CatalogEvolves
<1>2. TableInv(templates, TemplateCodes, TemplateForms)'  BY DEF CatalogInv
<1>3. FilledTemplates'
  BY DEF CatalogInv, FilledTemplates, StepsExist, Evolves
<1>4. QED  BY <1>1, <1>2, <1>3, VersionStepKeepsInv

LEMMA OnlyTemplatesMove ==
    ASSUME CatalogInv, TableInv(templates, TemplateCodes, TemplateForms)',
           Evolves(templates, templates'),
           FilledTemplates', UNCHANGED <<books, contracts, workspace, terms, priced>>
    PROVE  CatalogInv' /\ CatalogEvolves
<1>1. CatalogEvolves  BY UnchangedEvolves DEF CatalogEvolves
<1>2. TableInv(books, BookCodes, BookForms)' /\ FilledBooks'
  BY DEF CatalogInv, FilledBooks
<1>3. QED  BY <1>1, <1>2, VersionStepKeepsInv

LEMMA BookStepKeepsInv ==
    ASSUME CatalogInv, BookStep
    PROVE  CatalogInv' /\ CatalogEvolves
<1>1. TableInv(books, BookCodes, BookForms)  BY DEF CatalogInv
<1>2. Len(books) \in Nat /\ DOMAIN books = 1 .. Len(books)
  BY <1>1, LenProperties DEF TableInv
<1>3. ASSUME NEW code \in BookCodes, NEW form \in BookForms, NEW n \in 1 .. Len(books) + 1,
             NumberFree(books, code, n), books' = Append(books, NewVersion(code, n, form)),
             UNCHANGED <<templates, contracts, workspace, terms, priced>>
      PROVE  CatalogInv' /\ CatalogEvolves
  <2>1. TableInv(books', BookCodes, BookForms) /\ Evolves(books, books')
    BY <1>1, <1>3, AppendKeepsTable
  <2>2. FilledBooks'
    <3>1. \A b \in DOMAIN books' :
            \/ b \in DOMAIN books /\ books'[b] = books[b]
            \/ books'[b] = NewVersion(code, n, form)
      <4> DEFINE new == NewVersion(code, n, form)
      <4> HIDE DEF new
      <4>1. books' = Append(books, new)  BY <1>3 DEF new
      <4>2. QED  BY <1>1, <1>2, <4>1 DEF new, TableInv
    <3>2. QED  BY <3>1 DEF CatalogInv, FilledBooks, NewVersion
  <2>3. QED  BY <1>3, <2>1, <2>2, OnlyBooksMove
<1>4. ASSUME NEW code \in BookCodes, NEW form \in BookForms, CreateBook(code, form)
      PROVE  CatalogInv' /\ CatalogEvolves
  <2>1. 1 \in 1 .. Len(books) + 1  BY <1>2
  <2>2. QED  BY <1>3, <1>4, <2>1 DEF CreateBook
<1>5. ASSUME NEW b \in DOMAIN books, NEW form \in BookForms, CreateBookVersion(b, form)
      PROVE  CatalogInv' /\ CatalogEvolves
  <2>1. books[b].code \in BookCodes
    <3>1. books[b] \in VersionType(BookCodes, BookForms)
      BY <1>1, <1>2, ElementOfSeq DEF TableInv
    <3>2. QED  BY <3>1 DEF VersionType
  <2>2. /\ NextNumber(books, b) \in 1 .. Len(books) + 1
        /\ NumberFree(books, books[b].code, NextNumber(books, b))
    BY <1>1, NextNumberIsFree
  <2>3. QED  BY <1>3, <1>5, <2>1, <2>2 DEF CreateBookVersion
<1>6. ASSUME NEW b \in DOMAIN books, NEW code \in BookCodes, NEW form \in BookForms,
             NEW expected, UpdateBook(b, code, form, expected)
      PROVE  CatalogInv' /\ CatalogEvolves
  <2> DEFINE row == Edited(books[b], code, form)
  <2> HIDE DEF row
  <2>1. /\ books[b].status = "DRAFT"
        /\ code # books[b].code => NumberFree(books, code, books[b].number)
        /\ books' = Replaced(books, b, row) /\ row = Edited(books[b], code, form)
        /\ UNCHANGED <<templates, contracts, workspace, terms, priced>>
    BY <1>6 DEF UpdateBook, Editable, Replaced, row
  <2>2. /\ TableInv(books', BookCodes, BookForms) /\ Evolves(books, books')
        /\ DOMAIN books' = DOMAIN books
        /\ \A j \in DOMAIN books \ {b} : books'[j] = books[j]
        /\ books'[b].status = "DRAFT"
    BY <1>1, <2>1, EditKeepsTable
  <2>3. FilledBooks'  BY <2>2 DEF CatalogInv, FilledBooks
  <2>4. QED  BY <2>1, <2>2, <2>3, OnlyBooksMove
<1>7. ASSUME NEW b \in DOMAIN books, PublishBook(b)
      PROVE  CatalogInv' /\ CatalogEvolves
  <2>1. /\ TableInv(books', BookCodes, BookForms) /\ Evolves(books, books')
        /\ DOMAIN books' = DOMAIN books
        /\ \A j \in DOMAIN books : books'[j].form = books[j].form
        /\ \A j \in DOMAIN books \ {b} :
                books'[j].status # "DRAFT" => books[j].status # "DRAFT"
    BY <1>1, <1>7, PublishKeepsTable DEF PublishBook
  <2>2. FilledBooks'  BY <1>7, <2>1 DEF CatalogInv, FilledBooks, PublishBook
  <2>3. QED  BY <1>7, <2>1, <2>2, OnlyBooksMove DEF PublishBook
<1>8. ASSUME NEW b \in DOMAIN books, OpenWorkspace("books", books, b)
      PROVE  CatalogInv' /\ CatalogEvolves
  <2>1. /\ workspace'.table = "books" /\ workspace'.id = b
        /\ workspace'.version = books[b]
        /\ UNCHANGED <<books, templates, contracts, terms, priced>>
    BY <1>8 DEF OpenWorkspace
  <2>2. CatalogEvolves  BY <2>1, UnchangedEvolves DEF CatalogEvolves
  <2>3. ContractsRefer' /\ ReleasedIsFirm'  BY <2>1, <2>2, ContractsBesideVersions
  <2>4. WorkspaceSound'
    <3>1. books[b] \in VersionType(BookCodes, BookForms)
      BY <1>1, <1>2, ElementOfSeq DEF TableInv
    <3>2. QED  BY <2>1, <3>1 DEF WorkspaceSound, NotNewer, SameContent
  <2>5. QED
    BY <2>1, <2>2, <2>3, <2>4 DEF CatalogInv, FilledBooks, FilledTemplates, StepsExist
<1>9. QED  BY <1>4, <1>5, <1>6, <1>7, <1>8 DEF BookStep

LEMMA TemplateStepKeepsInv ==
    ASSUME CatalogInv, TemplateStep
    PROVE  CatalogInv' /\ CatalogEvolves
<1>1. TableInv(templates, TemplateCodes, TemplateForms)  BY DEF CatalogInv
<1>2. Len(templates) \in Nat /\ DOMAIN templates = 1 .. Len(templates)
  BY <1>1, LenProperties DEF TableInv
<1>3. ASSUME NEW code \in TemplateCodes, NEW form \in TemplateForms,
             NEW n \in 1 .. Len(templates) + 1, NumberFree(templates, code, n),
             StepsExist(form), templates' = Append(templates, NewVersion(code, n, form)),
             UNCHANGED <<books, contracts, workspace, terms, priced>>
      PROVE  CatalogInv' /\ CatalogEvolves
  <2>1. /\ TableInv(templates', TemplateCodes, TemplateForms)
        /\ Evolves(templates, templates')
    BY <1>1, <1>3, AppendKeepsTable
  <2>2. FilledTemplates'
    <3>1. \A t \in DOMAIN templates' :
            \/ t \in DOMAIN templates /\ templates'[t] = templates[t]
            \/ templates'[t] = NewVersion(code, n, form)
      <4> DEFINE new == NewVersion(code, n, form)
      <4> HIDE DEF new
      <4>1. templates' = Append(templates, new)  BY <1>3 DEF new
      <4>2. QED  BY <1>1, <1>2, <4>1 DEF new, TableInv
    <3>2. NewVersion(code, n, form).form = form /\ NewVersion(code, n, form).status = "DRAFT"
      BY DEF NewVersion
    <3>3. QED
      BY <1>3, <3>1, <3>2 DEF CatalogInv, FilledTemplates, StepsExist
  <2>3. QED  BY <1>3, <2>1, <2>2, OnlyTemplatesMove
<1>4. ASSUME NEW code \in TemplateCodes, NEW form \in TemplateForms,
             CreateTemplate(code, form)
      PROVE  CatalogInv' /\ CatalogEvolves
  <2>1. 1 \in 1 .. Len(templates) + 1  BY <1>2
  <2>2. QED  BY <1>3, <1>4, <2>1 DEF CreateTemplate
<1>5. ASSUME NEW t \in DOMAIN templates, NEW form \in TemplateForms,
             CreateTemplateVersion(t, form)
      PROVE  CatalogInv' /\ CatalogEvolves
  <2>1. templates[t].code \in TemplateCodes
    <3>1. templates[t] \in VersionType(TemplateCodes, TemplateForms)
      BY <1>1, <1>2, ElementOfSeq DEF TableInv
    <3>2. QED  BY <3>1 DEF VersionType
  <2>2. /\ NextNumber(templates, t) \in 1 .. Len(templates) + 1
        /\ NumberFree(templates, templates[t].code, NextNumber(templates, t))
    BY <1>1, NextNumberIsFree
  <2>3. QED  BY <1>3, <1>5, <2>1, <2>2 DEF CreateTemplateVersion
<1>6. ASSUME NEW t \in DOMAIN templates, NEW code \in TemplateCodes,
             NEW form \in TemplateForms, NEW expected,
             UpdateTemplate(t, code, form, expected)
      PROVE  CatalogInv' /\ CatalogEvolves
  <2> DEFINE row == Edited(templates[t], code, form)
  <2> HIDE DEF row
  <2>1. /\ templates[t].status = "DRAFT" /\ StepsExist(form)
        /\ code # templates[t].code => Family(templates, code) = {}
        /\ templates' = Replaced(templates, t, row) /\ row = Edited(templates[t], code, form)
        /\ UNCHANGED <<books, contracts, workspace, terms, priced>>
    BY <1>6 DEF UpdateTemplate, Editable, Replaced, row
  <2>2. code # templates[t].code => NumberFree(templates, code, templates[t].number)
    BY <2>1 DEF NumberFree
  <2>3. /\ TableInv(templates', TemplateCodes, TemplateForms)
        /\ Evolves(templates, templates')
        /\ DOMAIN templates' = DOMAIN templates
        /\ \A j \in DOMAIN templates \ {t} : templates'[j] = templates[j]
        /\ templates'[t].status = "DRAFT" /\ templates'[t].form = form
    BY <1>1, <2>1, <2>2, EditKeepsTable
  <2>4. FilledTemplates'
    BY <2>1, <2>3 DEF CatalogInv, FilledTemplates, StepsExist
  <2>5. QED  BY <2>1, <2>3, <2>4, OnlyTemplatesMove
<1>7. ASSUME NEW t \in DOMAIN templates, PublishTemplate(t)
      PROVE  CatalogInv' /\ CatalogEvolves
  <2>1. /\ TableInv(templates', TemplateCodes, TemplateForms)
        /\ Evolves(templates, templates')
        /\ DOMAIN templates' = DOMAIN templates
        /\ \A j \in DOMAIN templates : templates'[j].form = templates[j].form
        /\ \A j \in DOMAIN templates \ {t} :
                templates'[j].status # "DRAFT" => templates[j].status # "DRAFT"
    BY <1>1, <1>7, PublishKeepsTable DEF PublishTemplate
  <2>2. FilledTemplates'
    BY <1>7, <2>1 DEF CatalogInv, FilledTemplates, StepsExist, PublishTemplate
  <2>3. QED  BY <1>7, <2>1, <2>2, OnlyTemplatesMove DEF PublishTemplate
<1>8. ASSUME NEW t \in DOMAIN templates, OpenWorkspace("templates", templates, t)
      PROVE  CatalogInv' /\ CatalogEvolves
  <2>1. /\ workspace'.table = "templates" /\ workspace'.id = t
        /\ workspace'.version = templates[t]
        /\ UNCHANGED <<books, templates, contracts, terms, priced>>
    BY <1>8 DEF OpenWorkspace
  <2>2. CatalogEvolves  BY <2>1, UnchangedEvolves DEF CatalogEvolves
  <2>3. ContractsRefer' /\ ReleasedIsFirm'  BY <2>1, <2>2, ContractsBesideVersions
  <2>4. WorkspaceSound'
    <3>1. templates[t] \in VersionType(TemplateCodes, TemplateForms)
      BY <1>1, <1>2, ElementOfSeq DEF TableInv
    <3>2. QED  BY <2>1, <3>1 DEF WorkspaceSound, NotNewer, SameContent
  <2>5. QED
    BY <2>1, <2>2, <2>3, <2>4 DEF CatalogInv, FilledBooks, FilledTemplates, StepsExist
<1>9. QED  BY <1>4, <1>5, <1>6, <1>7, <1>8 DEF TemplateStep

\* Versions and workspace stay the same.
LEMMA OnlyContractsMove ==
    ASSUME CatalogInv, UNCHANGED <<books, templates, workspace>>, terms' \in TermsType,
           ContractsRefer', ReleasedIsFirm'
    PROVE  CatalogInv' /\ CatalogEvolves
<1>1. CatalogEvolves  BY UnchangedEvolves DEF CatalogEvolves
<1>2. WorkspaceSound'  BY DEF CatalogInv, WorkspaceSound, NotNewer
<1>3. FilledBooks' /\ FilledTemplates'
  BY DEF CatalogInv, FilledBooks, FilledTemplates, StepsExist
<1>4. QED  BY <1>1, <1>2, <1>3 DEF CatalogInv

\* While no version moves, a contract stays as firm as it was.
LEMMA SameVersionsSamePrices ==
    ASSUME UNCHANGED <<books, templates>>, NEW CONSTANT f, NEW CONSTANT record
    PROVE  Exist(f)' = Exist(f) /\ Firm(f, record)' = Firm(f, record)
<1>1. PinnedBooks(f)' = PinnedBooks(f)  BY DEF PinnedBooks
<1>2. \A route : RatedLines(f, route)' = RatedLines(f, route)
  BY DEF RatedLines, Expanded
<1>3. \A route : Charges(f, route, record.terms)' = Charges(f, route, record.terms)
  BY <1>2 DEF Charges
<1>4. PriceList(f, record.terms)' = PriceList(f, record.terms)  BY <1>3 DEF PriceList
<1>5. QED  BY <1>1, <1>4 DEF Exist, Firm, NoDrafts, DependsOnRetired

\* A released contract is firm after such a step if it was before, as it is then.
LEMMA FirmContractsStay ==
    ASSUME UNCHANGED <<books, templates>>,
           \A c \in DOMAIN contracts' : contracts'[c].status = "RELEASED" =>
                Firm(contracts'[c].form, priced'[c])
    PROVE  ReleasedIsFirm'
<1> SUFFICES ASSUME NEW c \in DOMAIN contracts', contracts'[c].status = "RELEASED"
             PROVE  Firm(contracts[c].form, priced[c])'
  BY DEF ReleasedIsFirm
<1>1. ASSUME NEW CONSTANT f, NEW CONSTANT record,
             f = contracts'[c].form, record = priced'[c]
      PROVE  Firm(f, record)'
  <2>1. Firm(f, record)  BY <1>1
  <2>2. QED  BY <2>1, SameVersionsSamePrices
<1>2. QED  BY <1>1

ReleasedContractsKept ==
    \A c \in DOMAIN contracts :
        contracts[c].status = "RELEASED" => contracts'[c] = contracts[c]

\* What can be released depends on no draft, being all in force.
LEMMA ReleasableIsFirm ==
    ASSUME NEW f, Releasable(f)
    PROVE  NoDrafts(f)
BY DEF Releasable, NoDrafts, InForce

LEMMA ContractStepKeepsInv ==
    ASSUME CatalogInv, ContractStep
    PROVE  CatalogInv' /\ CatalogEvolves /\ ReleasedContractsKept
<1>1. /\ contracts \in Seq(ContractType) /\ Len(contracts) \in Nat
      /\ DOMAIN contracts = 1 .. Len(contracts)
      /\ \A c \in DOMAIN contracts : contracts[c] \in ContractType
  BY LenProperties, ElementOfSeq DEF CatalogInv, ContractsRefer
<1>2. ASSUME NEW form \in ContractForms, CreateContract(form)
      PROVE  CatalogInv' /\ CatalogEvolves /\ ReleasedContractsKept
  <2> DEFINE new == [status |-> "DRAFT", form |-> form]
  <2>1. new \in ContractType /\ new.status = "DRAFT" /\ new.form = form
    BY DEF ContractType
  <2> HIDE DEF new
  <2>2. /\ contracts' = Append(contracts, new) /\ Exist(form) /\ Len(contracts) < MaxContracts
        /\ UNCHANGED <<books, templates, workspace, terms, priced>>
    BY <1>2 DEF CreateContract, new
  <2>3. /\ contracts' \in Seq(ContractType) /\ Len(contracts') = Len(contracts) + 1
        /\ DOMAIN contracts' = 1 .. Len(contracts) + 1
        /\ \A c \in DOMAIN contracts : contracts'[c] = contracts[c]
        /\ contracts'[Len(contracts) + 1] = new
    BY <1>1, <2>1, <2>2, AppendProperties, LenProperties
  <2>4. \A c \in DOMAIN contracts' : c \in DOMAIN contracts \/ c = Len(contracts) + 1
    BY <1>1, <2>3
  <2>5. ContractsRefer'
    BY <1>1, <2>1, <2>2, <2>3, <2>4, CatalogConstants DEF CatalogInv, ContractsRefer, Exist
  <2>6. ReleasedIsFirm'
    <3>1. ASSUME NEW c \in DOMAIN contracts', contracts'[c].status = "RELEASED"
          PROVE  c \in DOMAIN contracts /\ contracts'[c] = contracts[c]
      BY <2>1, <2>3, <2>4, <3>1
    <3>2. QED
      BY <2>2, <3>1, FirmContractsStay DEF CatalogInv, ReleasedIsFirm
  <2>7. QED
    BY <2>2, <2>3, <2>5, <2>6, OnlyContractsMove DEF CatalogInv, ReleasedContractsKept
<1>3. ASSUME NEW c \in DOMAIN contracts, NEW form \in ContractForms, UpdateContract(c, form)
      PROVE  CatalogInv' /\ CatalogEvolves /\ ReleasedContractsKept
  <2>1. /\ contracts[c].status = "DRAFT" /\ Exist(form)
        /\ contracts' = [contracts EXCEPT ![c].form = form]
        /\ UNCHANGED <<books, templates, workspace, terms, priced>>
    BY <1>3 DEF UpdateContract
  <2>2. [contracts[c] EXCEPT !.form = form] \in ContractType
    BY <1>1 DEF ContractType
  <2>3. /\ contracts' \in Seq(ContractType) /\ Len(contracts') = Len(contracts)
        /\ DOMAIN contracts' = DOMAIN contracts
    <3> DEFINE changed == [contracts[c] EXCEPT !.form = form]
    <3>1. contracts' = [contracts EXCEPT ![c] = changed]  BY <2>1
    <3> HIDE DEF changed
    <3>2. changed \in ContractType  BY <2>2 DEF changed
    <3>3. QED  BY <1>1, <3>1, <3>2, ExceptSeq
  <2>4. /\ contracts'[c].status = "DRAFT" /\ contracts'[c].form = form
        /\ \A d \in DOMAIN contracts \ {c} : contracts'[d] = contracts[d]
    BY <1>1, <2>1 DEF ContractType
  <2>5. ContractsRefer'
    BY <2>1, <2>3, <2>4 DEF CatalogInv, ContractsRefer, Exist
  <2>6. ReleasedIsFirm'
    <3>1. ASSUME NEW d \in DOMAIN contracts, contracts'[d].status = "RELEASED"
          PROVE  contracts'[d] = contracts[d]
      BY <2>4, <3>1
    <3>2. QED
      BY <2>1, <2>3, <3>1, FirmContractsStay DEF CatalogInv, ReleasedIsFirm
  <2>7. ReleasedContractsKept  BY <2>1, <2>4 DEF ReleasedContractsKept
  <2>8. QED  BY <2>1, <2>5, <2>6, <2>7, OnlyContractsMove DEF CatalogInv
<1>4. ASSUME NEW c \in DOMAIN contracts, ReleaseContract(c)
      PROVE  CatalogInv' /\ CatalogEvolves /\ ReleasedContractsKept
  <2>1. /\ contracts[c].status = "DRAFT" /\ Releasable(contracts[c].form)
        /\ contracts' = [contracts EXCEPT ![c].status = "RELEASED"]
        /\ priced' = [priced EXCEPT ![c] =
                        [terms |-> terms, list |-> PriceList(contracts[c].form, terms)]]
        /\ UNCHANGED <<books, templates, workspace, terms>>
    BY <1>4 DEF ReleaseContract
  <2>2. [contracts[c] EXCEPT !.status = "RELEASED"] \in ContractType
    BY <1>1 DEF ContractType
  <2>3. /\ contracts' \in Seq(ContractType) /\ Len(contracts') = Len(contracts)
        /\ DOMAIN contracts' = DOMAIN contracts
    <3> DEFINE changed == [contracts[c] EXCEPT !.status = "RELEASED"]
    <3>1. contracts' = [contracts EXCEPT ![c] = changed]  BY <2>1
    <3> HIDE DEF changed
    <3>2. changed \in ContractType  BY <2>2 DEF changed
    <3>3. QED  BY <1>1, <3>1, <3>2, ExceptSeq
  <2>4. /\ contracts'[c].form = contracts[c].form
        /\ \A d \in DOMAIN contracts \ {c} : contracts'[d] = contracts[d]
    BY <1>1, <2>1 DEF ContractType
  <2>5. /\ DOMAIN priced' = DOMAIN priced /\ c \in DOMAIN priced
        /\ priced'[c].list = PriceList(contracts[c].form, priced'[c].terms)
        /\ \A d \in DOMAIN priced \ {c} : priced'[d] = priced[d]
    BY <1>1, <2>1, CatalogConstants DEF CatalogInv, ContractsRefer
  <2>6. ContractsRefer'
    BY <2>1, <2>3, <2>4, <2>5 DEF CatalogInv, ContractsRefer, Exist
  <2>7. ReleasedIsFirm'
    <3>1. ASSUME NEW d \in DOMAIN contracts, contracts'[d].status = "RELEASED"
          PROVE  Firm(contracts'[d].form, priced'[d])
      <4>1. CASE d = c
        <5>1. NoDrafts(contracts[c].form)  BY <2>1, ReleasableIsFirm
        <5>2. QED  BY <2>4, <2>5, <4>1, <5>1 DEF Firm
      <4>2. CASE d # c
        <5>1. contracts'[d] = contracts[d] /\ priced'[d] = priced[d]
          BY <1>1, <2>4, <2>5, <4>2, CatalogConstants DEF CatalogInv, ContractsRefer
        <5>2. QED  BY <3>1, <5>1 DEF CatalogInv, ReleasedIsFirm
      <4>3. QED  BY <4>1, <4>2
    <3>2. QED  BY <2>1, <2>3, <3>1, FirmContractsStay
  <2>8. ReleasedContractsKept  BY <2>1, <2>4 DEF ReleasedContractsKept
  <2>9. QED  BY <2>1, <2>6, <2>7, <2>8, OnlyContractsMove DEF CatalogInv
<1>5. QED  BY <1>2, <1>3, <1>4 DEF ContractStep

\* New terms move no version and no contract.
LEMMA TermsStepKeepsInv ==
    ASSUME CatalogInv, TermsStep
    PROVE  CatalogInv' /\ CatalogEvolves /\ ReleasedContractsKept
<1>1. UNCHANGED <<books, templates, contracts, workspace, priced>>
  BY DEF TermsStep, UpdateComponent, PublishProfile
<1>2. terms' \in TermsType
  <2>1. terms \in TermsType  BY DEF CatalogInv
  <2>2. ASSUME NEW form \in ComponentForms, UpdateComponent(form)
        PROVE  terms' \in TermsType
    BY <2>1, <2>2 DEF UpdateComponent, TermsType
  <2>3. ASSUME NEW p \in Profiles, PublishProfile(p)
        PROVE  terms' \in TermsType
    BY <2>1, <2>3 DEF PublishProfile, TermsType
  <2>4. QED  BY <2>2, <2>3 DEF TermsStep
<1>3. CatalogEvolves  BY <1>1, UnchangedEvolves DEF CatalogEvolves
<1>4. ContractsRefer' /\ ReleasedIsFirm'
  BY <1>1, <1>3, ContractsBesideVersions
<1>5. QED  BY <1>1, <1>2, <1>4, OnlyContractsMove DEF ReleasedContractsKept

\* Versions being opened, created, changed and published leave contracts alone.
LEMMA VersionStepsKeepContracts ==
    ASSUME BookStep \/ TemplateStep
    PROVE  UNCHANGED <<contracts, priced>>
BY DEF BookStep, TemplateStep, CreateBook, CreateBookVersion, UpdateBook, PublishBook,
       CreateTemplate, CreateTemplateVersion, UpdateTemplate, PublishTemplate, OpenWorkspace

LEMMA CatalogStep ==
    ASSUME CatalogInv, [CatalogNext]_catalogVars
    PROVE  CatalogInv' /\ CatalogEvolves /\ ReleasedContractsKept
<1>1. CASE BookStep \/ TemplateStep
  <2>1. CatalogInv' /\ CatalogEvolves
    BY <1>1, BookStepKeepsInv, TemplateStepKeepsInv
  <2>2. ReleasedContractsKept
    BY <1>1, VersionStepsKeepContracts DEF ReleasedContractsKept
  <2>3. QED  BY <2>1, <2>2
<1>2. CASE ContractStep  BY <1>2, ContractStepKeepsInv
<1>3. CASE TermsStep  BY <1>3, TermsStepKeepsInv
<1>4. CASE UNCHANGED catalogVars
  <2>1. UNCHANGED <<books, templates, contracts, workspace, terms, priced>>
    BY <1>4 DEF catalogVars
  <2>2. CatalogEvolves  BY <2>1, UnchangedEvolves DEF CatalogEvolves
  <2>3. ContractsRefer' /\ ReleasedIsFirm'
    BY <2>1, <2>2, ContractsBesideVersions
  <2>4. CatalogInv'  BY <2>1, <2>3, OnlyContractsMove DEF CatalogInv
  <2>5. QED  BY <2>1, <2>2, <2>4 DEF ReleasedContractsKept
<1>5. QED  BY <1>1, <1>2, <1>3, <1>4 DEF CatalogNext

(***************************************************************************)
(* The theorems                                                            *)
(***************************************************************************)

\* Both tables of versions are sound, every reference leads somewhere, and what
\* a released contract depends on is never a draft again: the invariant all the
\* others follow from (ChargeManagementService's catalogue operations).
THEOREM CatalogInvariant == CatalogSpec => []CatalogInv
<1>1. CatalogInit => CatalogInv
  <2> SUFFICES ASSUME CatalogInit PROVE CatalogInv  OBVIOUS
  <2>1. /\ books = << >> /\ templates = << >> /\ contracts = << >>
        /\ workspace = NoValue /\ DOMAIN priced = 1 .. MaxContracts
        /\ terms \in TermsType
    BY DEF CatalogInit, TermsType
  <2>2. \A S : << >> \in Seq(S) /\ Len(<< >>) = 0 /\ DOMAIN << >> = {}
    BY EmptySeq
  <2>3. QED
    BY <2>1, <2>2, CatalogConstants
    DEF CatalogInv, TableInv, FilledBooks, FilledTemplates, ContractsRefer,
        WorkspaceSound, ReleasedIsFirm
<1>2. CatalogInv /\ [CatalogNext]_catalogVars => CatalogInv'  BY CatalogStep
<1>3. QED  BY <1>1, <1>2, PTL DEF CatalogSpec

\* Versions, contracts and the workspace have their types, and every reference
\* leads to a row that exists (the foreign keys of app/db/models.py).
THEOREM CatalogTypes == CatalogSpec => []CatalogTypeOK
<1>1. CatalogInv => CatalogTypeOK
  BY DEF CatalogInv, CatalogTypeOK, TableInv, FilledBooks, FilledTemplates, StepsExist,
         ContractsRefer, Exist, WorkspaceSound, IsWorkspace
<1>2. QED  BY <1>1, CatalogInvariant, PTL

\* At most one version of a code is in force (publish_rate_book,
\* publish_calculation_template).
THEOREM OneVersionIsInForce == CatalogSpec => []OneVersionInForce
<1>1. CatalogInv => OneVersionInForce
  BY DEF CatalogInv, TableInv, OneVersionInForce
<1>2. QED  BY <1>1, CatalogInvariant, PTL

\* A code and a version number name one row (create_rate_book_version,
\* update_rate_book_workspace).
THEOREM VersionNumbersAreUnique == CatalogSpec => []VersionNumbersUnique
<1>1. CatalogInv => VersionNumbersUnique
  BY DEF CatalogInv, TableInv, VersionNumbersUnique
<1>2. QED  BY <1>1, CatalogInvariant, PTL

\* Until something it depends on is retired, a released contract prices every
\* route as when it was released, whenever the component and the published
\* profiles it charges by are what they were then (release_contract,
\* _rate_contract, _resolve_effective_quote_calculation).
THEOREM PricesHold == CatalogSpec => []PricesHoldUntilRetired
<1>1. CatalogInv => PricesHoldUntilRetired
  <2> SUFFICES ASSUME CatalogInv, NEW c \in DOMAIN contracts,
                      contracts[c].status = "RELEASED",
                      ~DependsOnRetired(contracts[c].form),
                      SameTerms(contracts[c].form, priced[c].terms)
               PROVE  PriceList(contracts[c].form, terms) = priced[c].list
    BY DEF PricesHoldUntilRetired
  <2>1. PriceList(contracts[c].form, priced[c].terms) = priced[c].list
    BY DEF CatalogInv, ReleasedIsFirm, Firm
  <2>2. QED  BY <2>1, SameTermsSamePrices
<1>2. QED  BY <1>1, CatalogInvariant, PTL

\* An edit that sends the lock version of an opened workspace overwrites only
\* what the editor has seen (expected_lock_version).
THEOREM EditsAreSeen == CatalogSpec => []EditsOverwriteWhatWasSeen
<1>1. CatalogInv => EditsOverwriteWhatWasSeen
  <2> SUFFICES ASSUME CatalogInv, workspace # NoValue
               PROVE  EditsOverwriteWhatWasSeen
    BY DEF EditsOverwriteWhatWasSeen
  <2>1. CASE workspace.table = "books"
    <3>1. /\ workspace.id \in DOMAIN books
          /\ workspace.version \in VersionType(BookCodes, BookForms)
          /\ NotNewer(books, workspace)
      BY <2>1 DEF CatalogInv, WorkspaceSound
    <3>2. books[workspace.id] \in VersionType(BookCodes, BookForms)
      BY <3>1, ElementOfSeq, LenProperties DEF CatalogInv, TableInv
    <3>3. books[workspace.id].lock \in Nat /\ workspace.version.lock \in Nat
      BY <3>1, <3>2 DEF VersionType
    <3>4. QED
      BY <2>1, <3>1, <3>3 DEF NotNewer, SameContent, EditsOverwriteWhatWasSeen
  <2>2. CASE workspace.table # "books"
    <3>1. /\ workspace.id \in DOMAIN templates
          /\ workspace.version \in VersionType(TemplateCodes, TemplateForms)
          /\ NotNewer(templates, workspace)
      BY <2>2 DEF CatalogInv, WorkspaceSound
    <3>2. templates[workspace.id] \in VersionType(TemplateCodes, TemplateForms)
      BY <3>1, ElementOfSeq, LenProperties DEF CatalogInv, TableInv
    <3>3. templates[workspace.id].lock \in Nat /\ workspace.version.lock \in Nat
      BY <3>1, <3>2 DEF VersionType
    <3>4. QED
      BY <2>2, <3>1, <3>3 DEF NotNewer, SameContent, EditsOverwriteWhatWasSeen
  <2>3. QED  BY <2>1, <2>2
<1>2. QED  BY <1>1, CatalogInvariant, PTL

\* What was published stays what it was, retired or not, and what was released
\* is never edited (update_rate_book_workspace, update_contract).
THEOREM ReleasedVersionsAreKept == CatalogSpec => ReleasedVersionsKept
<1>1. CatalogInv /\ [CatalogNext]_catalogVars =>
        [/\ \A b \in DOMAIN books : KeptVersion(books[b], books'[b])
         /\ \A t \in DOMAIN templates : KeptVersion(templates[t], templates'[t])
         /\ \A c \in DOMAIN contracts :
              contracts[c].status = "RELEASED" => contracts'[c] = contracts[c]]_catalogVars
  BY CatalogStep DEF CatalogEvolves, Evolves, ReleasedContractsKept
<1>2. QED  BY <1>1, CatalogInvariant, PTL DEF CatalogSpec, ReleasedVersionsKept
=============================================================================
