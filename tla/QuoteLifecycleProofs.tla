------------------------ MODULE QuoteLifecycleProofs ------------------------
(***************************************************************************)
(* Proofs about quotes, offers, options, their ranking and awards, for     *)
(* every set of terms, numbers and routes and any number of quotes.        *)
(***************************************************************************)
EXTENDS QuoteLifecycle, SequenceTheorems, FiniteSetTheorems, TLAPS

(***************************************************************************)
(* The inductive invariant                                                 *)
(***************************************************************************)

\* The tables refer to one another, and an option mirrors its offer: that is
\* why an award of the option is an award of the offer.
ReferencesFit ==
    /\ \A o \in DOMAIN offers : offers[o].quote \in DOMAIN quotes
    /\ \A p \in DOMAIN options :
        /\ options[p].quote \in DOMAIN quotes
        /\ options[p].offer # NoValue =>
            /\ options[p].offer \in DOMAIN offers
            /\ offers[options[p].offer].quote = options[p].quote
            /\ options[p].exists => options[p].terms = offers[options[p].offer].terms
    /\ \A a \in DOMAIN awards :
        awards[a].quote \in DOMAIN quotes /\ awards[a].option \in DOMAIN options

AwardsFit == AwardIsWhole /\ AwardedTermsKept /\ RouteAwardedOnce

LifecycleInv ==
    /\ LifecycleTypeOK
    /\ ReferencesFit
    /\ NothingOutlivesItsQuote
    /\ RequestNumbersUnique
    /\ AwardsFit
    /\ RankingIsCurrent

(***************************************************************************)
(* Lemmas about tables                                                     *)
(***************************************************************************)

LEMMA Appended ==
    ASSUME NEW T, NEW s \in Seq(T), NEW e \in T, NEW t, t = Append(s, e)
    PROVE  /\ t \in Seq(T) /\ Len(s) \in Nat /\ DOMAIN s = 1 .. Len(s)
           /\ DOMAIN t = DOMAIN s \cup {Len(s) + 1} /\ Len(s) + 1 \notin DOMAIN s
           /\ \A i \in DOMAIN s : t[i] = s[i]
           /\ t[Len(s) + 1] = e
BY AppendProperties, LenProperties

LEMMA Replaced ==
    ASSUME NEW T, NEW s \in Seq(T), NEW k \in DOMAIN s, NEW e \in T,
           NEW t, t = [s EXCEPT ![k] = e]
    PROVE  /\ t \in Seq(T) /\ DOMAIN t = DOMAIN s
           /\ \A i \in DOMAIN s : t[i] = IF i = k THEN e ELSE s[i]
BY ExceptSeq, LenProperties

LEMMA Mapped ==
    ASSUME NEW T, NEW s \in Seq(T), NEW t, t = [i \in DOMAIN s |-> t[i]],
           \A i \in DOMAIN s : t[i] \in T
    PROVE  t \in Seq(T) /\ DOMAIN t = DOMAIN s
<1>1. Len(s) \in Nat /\ DOMAIN s = 1 .. Len(s)  BY LenProperties
<1>2. t \in [1 .. Len(s) -> T]  BY <1>1
<1>3. QED  BY <1>1, <1>2, SeqDef

\* The rows of every table.
LEMMA Rows ==
    ASSUME LifecycleTypeOK
    PROVE  /\ \A q \in DOMAIN quotes : quotes[q] \in QuoteType
           /\ \A o \in DOMAIN offers : offers[o] \in OfferType
           /\ \A p \in DOMAIN options : options[p] \in OptionType
           /\ \A a \in DOMAIN awards : awards[a] \in AwardType
           /\ DOMAIN quotes \subseteq Nat /\ DOMAIN offers \subseteq Nat
           /\ DOMAIN options = 1 .. Len(options) /\ Len(options) \in Nat
           /\ DOMAIN offers = 1 .. Len(offers) /\ Len(offers) \in Nat
           /\ DOMAIN quotes = 1 .. Len(quotes) /\ Len(quotes) \in Nat
BY LenProperties, ElementOfSeq DEF LifecycleTypeOK

\* A quote takes a status.
LEMMA StatusSet ==
    ASSUME LifecycleTypeOK, NEW q \in DOMAIN quotes, NEW status,
           status \in {"DRAFT", "AWARDED", "DELETED"} \cup OpenStatuses,
           quotes' = [quotes EXCEPT ![q].status = status]
    PROVE  /\ quotes' \in Seq(QuoteType) /\ DOMAIN quotes' = DOMAIN quotes
           /\ \A r \in DOMAIN quotes :
                /\ quotes'[r].status = IF r = q THEN status ELSE quotes[r].status
                /\ quotes'[r].number = quotes[r].number
                /\ quotes'[r].awarded = quotes[r].awarded
<1> DEFINE row == [quotes[q] EXCEPT !.status = status]
<1>1. quotes[q] \in QuoteType /\ quotes \in Seq(QuoteType)  BY Rows DEF LifecycleTypeOK
<1>2. /\ row \in QuoteType /\ row.status = status /\ row.number = quotes[q].number
      /\ row.awarded = quotes[q].awarded
  BY <1>1 DEF QuoteType
<1>3. quotes' = [quotes EXCEPT ![q] = row]  BY <1>1 DEF QuoteType
<1> HIDE DEF row
<1>4. QED  BY <1>1, <1>2, <1>3, Replaced

(***************************************************************************)
(* What leaves the parts of the invariant alone                            *)
(***************************************************************************)

\* Request numbers, when none is added or changed and nothing is undeleted.
LEMMA NumbersKept ==
    ASSUME LifecycleInv, DOMAIN quotes' = DOMAIN quotes,
           \A q \in DOMAIN quotes :
                /\ quotes'[q].number = quotes[q].number
                /\ quotes'[q].status # "DELETED" => quotes[q].status # "DELETED"
    PROVE  RequestNumbersUnique'
BY DEF LifecycleInv, RequestNumbersUnique

\* Awards, when awarded quotes, their offers and options are not touched.
LEMMA AwardsKept ==
    ASSUME LifecycleInv, awards' = awards, DOMAIN quotes \subseteq DOMAIN quotes',
           \A q \in DOMAIN quotes :
                /\ quotes'[q].awarded = quotes[q].awarded
                /\ quotes'[q].status = "AWARDED" <=> quotes[q].status = "AWARDED",
           \A q \in DOMAIN quotes' \ DOMAIN quotes :
                quotes'[q].awarded = NoValue /\ quotes'[q].status # "AWARDED",
           \A p \in DOMAIN options : quotes[options[p].quote].status = "AWARDED" =>
                /\ options'[p].exists = options[p].exists
                /\ options'[p].quote = options[p].quote
                /\ options'[p].offer = options[p].offer
                /\ options'[p].terms = options[p].terms,
           \A o \in DOMAIN offers : quotes[offers[o].quote].status = "AWARDED" =>
                offers'[o].status = offers[o].status /\ offers'[o].terms = offers[o].terms
    PROVE  AwardsFit'
<1>1. \A a \in DOMAIN awards :
        awards[a].quote \in DOMAIN quotes /\ awards[a].option \in DOMAIN options
  BY DEF LifecycleInv, ReferencesFit
<1>2. AwardIsWhole /\ AwardedTermsKept /\ RouteAwardedOnce  BY DEF LifecycleInv, AwardsFit
<1>3. \A q : AwardsOf(q)' = AwardsOf(q)  BY DEF AwardsOf
<1>4. AwardIsWhole'
  <2>1. \A q \in DOMAIN quotes' \ DOMAIN quotes : AwardsOf(q) = {}  BY <1>1 DEF AwardsOf
  <2>2. QED  BY <1>2, <1>3, <2>1 DEF AwardIsWhole
<1>5. AwardedTermsKept'
  <2>1. SUFFICES ASSUME NEW a \in DOMAIN awards
                 PROVE  LET option == options'[awards[a].option]
                        IN  /\ option.exists /\ option.quote = awards[a].quote
                            /\ option.terms = awards[a].terms
                            /\ option.offer # NoValue =>
                                /\ offers'[option.offer].status = "SUBMITTED"
                                /\ offers'[option.offer].terms = awards[a].terms
    BY DEF AwardedTermsKept
  <2> DEFINE p == awards[a].option
             q == awards[a].quote
  <2>2. p \in DOMAIN options /\ q \in DOMAIN quotes  BY <1>1
  <2>3. /\ options[p].exists /\ options[p].quote = q /\ options[p].terms = awards[a].terms
        /\ options[p].offer # NoValue =>
            /\ offers[options[p].offer].status = "SUBMITTED"
            /\ offers[options[p].offer].terms = awards[a].terms
    BY <1>2 DEF AwardedTermsKept
  <2>4. quotes[q].status = "AWARDED"
    <3>1. a \in AwardsOf(q)  BY DEF AwardsOf
    <3>2. QED  BY <1>2, <2>2, <3>1 DEF AwardIsWhole
  <2>5. options[p].offer # NoValue =>
            options[p].offer \in DOMAIN offers /\ offers[options[p].offer].quote = q
    BY <2>2, <2>3 DEF LifecycleInv, ReferencesFit
  <2> HIDE DEF p, q
  <2>6. QED  BY <2>2, <2>3, <2>4, <2>5 DEF p, q
<1>6. RouteAwardedOnce'  BY <1>2 DEF RouteAwardedOnce
<1>7. QED  BY <1>4, <1>5, <1>6 DEF AwardsFit

\* The ranks of a quote whose options have not changed, except that some are
\* gone.
LEMMA RankingKept ==
    ASSUME LifecycleInv,
           \A q \in DOMAIN quotes' : quotes'[q].status = "RANKED" =>
                /\ q \in DOMAIN quotes /\ quotes[q].status = "RANKED"
                /\ \A p \in Available(q)' :
                    /\ p \in Available(q)
                    /\ options'[p].rank = options[p].rank
                    /\ options'[p].terms = options[p].terms
    PROVE  RankingIsCurrent'
<1>1. SUFFICES ASSUME NEW q \in DOMAIN quotes', quotes'[q].status = "RANKED",
                      NEW p1 \in Available(q)', NEW p2 \in Available(q)'
               PROVE  /\ options'[p1].rank # NoValue
                      /\ options'[p1].rank = options'[p2].rank => p1 = p2
                      /\ options'[p1].rank < options'[p2].rank =>
                            Key[options'[p1].terms] <= Key[options'[p2].terms]
  BY DEF RankingIsCurrent
<1>2. /\ q \in DOMAIN quotes /\ quotes[q].status = "RANKED"
      /\ p1 \in Available(q) /\ p2 \in Available(q)
      /\ options'[p1].rank = options[p1].rank /\ options'[p2].rank = options[p2].rank
      /\ options'[p1].terms = options[p1].terms /\ options'[p2].terms = options[p2].terms
  BY <1>1
<1>3. QED  BY <1>2 DEF LifecycleInv, RankingIsCurrent

(***************************************************************************)
(* Steps on quotes                                                         *)
(***************************************************************************)

LEMMA CreateQuoteStep ==
    ASSUME LifecycleInv, NEW number \in Numbers \cup {NoValue}, CreateQuote(number)
    PROVE  LifecycleInv'
<1> DEFINE id == Len(quotes) + 1
           given == IF number = NoValue THEN id ELSE number
           row == [status |-> "DRAFT", number |-> given, policy |-> policy,
                   awarded |-> NoValue]
<1>1. /\ id <= MaxQuotes /\ NumberFree(given, DOMAIN quotes)
      /\ quotes' = Append(quotes, row)
      /\ UNCHANGED <<offers, options, awards, policy>>
  BY DEF CreateQuote
<1>2. LifecycleTypeOK /\ quotes \in Seq(QuoteType)  BY DEF LifecycleInv, LifecycleTypeOK
<1>3. row \in QuoteType /\ row.status = "DRAFT" /\ row.number = given /\ row.awarded = NoValue
  <2>1. id \in 1 .. MaxQuotes  BY <1>1, <1>2, Rows, LifecycleConstants
  <2>2. policy \in Policies  BY <1>2 DEF LifecycleTypeOK
  <2>3. QED  BY <2>1, <2>2 DEF QuoteType
<1> HIDE DEF row, given
<1>4. /\ quotes' \in Seq(QuoteType) /\ DOMAIN quotes' = DOMAIN quotes \cup {id}
      /\ id \notin DOMAIN quotes /\ quotes'[id] = row
      /\ \A q \in DOMAIN quotes : quotes'[q] = quotes[q]
  BY <1>1, <1>2, <1>3, Appended
<1> HIDE DEF id
<1>5. LifecycleTypeOK'  BY <1>1, <1>2, <1>4 DEF LifecycleTypeOK
<1>6. ReferencesFit'  BY <1>1, <1>4 DEF LifecycleInv, ReferencesFit
<1>7. NothingOutlivesItsQuote'
  BY <1>1, <1>4 DEF LifecycleInv, ReferencesFit, NothingOutlivesItsQuote
<1>8. RequestNumbersUnique'
  <2>1. ASSUME NEW q1 \in DOMAIN quotes', NEW q2 \in DOMAIN quotes',
               quotes'[q1].status # "DELETED", quotes'[q2].status # "DELETED",
               quotes'[q1].number # NoValue, quotes'[q1].number = quotes'[q2].number
        PROVE  q1 = q2
    <3>1. CASE q1 = id /\ q2 # id  BY <2>1, <3>1, <1>1, <1>3, <1>4 DEF NumberFree
    <3>2. CASE q1 # id /\ q2 = id  BY <2>1, <3>2, <1>1, <1>3, <1>4 DEF NumberFree
    <3>3. CASE q1 # id /\ q2 # id
      BY <2>1, <3>3, <1>4 DEF LifecycleInv, RequestNumbersUnique
    <3>4. QED  BY <3>1, <3>2, <3>3
  <2>2. QED  BY <2>1 DEF RequestNumbersUnique
<1>9. AwardsFit'  BY <1>1, <1>3, <1>4, AwardsKept
<1>10. RankingIsCurrent'
  <2>1. \A q \in DOMAIN quotes' : quotes'[q].status = "RANKED" =>
            q \in DOMAIN quotes /\ quotes[q].status = "RANKED"
    BY <1>3, <1>4
  <2>2. \A q : Available(q)' = Available(q)  BY <1>1 DEF Available, OptionsOf
  <2>3. QED  BY <1>1, <2>1, <2>2, RankingKept
<1>11. QED  BY <1>5, <1>6, <1>7, <1>8, <1>9, <1>10 DEF LifecycleInv

LEMMA UpdateDraftStep ==
    ASSUME LifecycleInv, NEW q \in DOMAIN quotes,
           NEW number \in Numbers \cup {NoValue, quotes[q].number},
           NEW s \in {"DRAFT", "REQUESTED"}, UpdateDraft(q, number, s)
    PROVE  LifecycleInv'
<1> DEFINE numbered == [quotes[q] EXCEPT !.number = number]
           row == [numbered EXCEPT !.status = s]
<1>1. LifecycleTypeOK /\ quotes \in Seq(QuoteType) /\ quotes[q] \in QuoteType
  BY Rows DEF LifecycleInv, LifecycleTypeOK
<1>2. numbered \in QuoteType /\ numbered.number = number
      /\ numbered.awarded = quotes[q].awarded
  BY <1>1 DEF QuoteType
<1>3. quotes[q].status = "DRAFT" /\ UNCHANGED <<offers, options, awards, policy>>
      /\ (number # NoValue => NumberFree(number, DOMAIN quotes \ {q}))
      /\ quotes' = [quotes EXCEPT ![q] = row]
  BY <1>1 DEF UpdateDraft, QuoteType
<1> HIDE DEF numbered
<1>4. row \in QuoteType /\ row.number = number /\ row.status = s
      /\ row.awarded = quotes[q].awarded
  BY <1>2 DEF QuoteType, OpenStatuses
<1> HIDE DEF row
<1>5. /\ quotes' \in Seq(QuoteType) /\ DOMAIN quotes' = DOMAIN quotes
      /\ \A r \in DOMAIN quotes : quotes'[r] = IF r = q THEN row ELSE quotes[r]
  BY <1>1, <1>3, <1>4, Replaced
<1>6. LifecycleTypeOK'  BY <1>1, <1>3, <1>5 DEF LifecycleTypeOK
<1>7. ReferencesFit'  BY <1>3, <1>5 DEF LifecycleInv, ReferencesFit
<1>8. NothingOutlivesItsQuote'
  BY <1>3, <1>5 DEF LifecycleInv, ReferencesFit, NothingOutlivesItsQuote
<1>9. RequestNumbersUnique'
  <2>1. ASSUME NEW q1 \in DOMAIN quotes, NEW q2 \in DOMAIN quotes,
               quotes'[q1].status # "DELETED", quotes'[q2].status # "DELETED",
               quotes'[q1].number # NoValue, quotes'[q1].number = quotes'[q2].number
        PROVE  q1 = q2
    <3>1. CASE q1 = q /\ q2 # q  BY <2>1, <3>1, <1>3, <1>4, <1>5 DEF NumberFree
    <3>2. CASE q1 # q /\ q2 = q  BY <2>1, <3>2, <1>3, <1>4, <1>5 DEF NumberFree
    <3>3. CASE q1 # q /\ q2 # q
      BY <2>1, <3>3, <1>5 DEF LifecycleInv, RequestNumbersUnique
    <3>4. QED  BY <3>1, <3>2, <3>3
  <2>2. QED  BY <1>5, <2>1 DEF RequestNumbersUnique
<1>10. AwardsFit'
  <2>1. s # "AWARDED"  OBVIOUS
  <2>2. \A r \in DOMAIN quotes :
            /\ quotes'[r].awarded = quotes[r].awarded
            /\ quotes'[r].status = "AWARDED" <=> quotes[r].status = "AWARDED"
    BY <1>3, <1>4, <1>5, <2>1
  <2>3. QED  BY <1>3, <1>5, <2>2, AwardsKept
<1>11. RankingIsCurrent'
  <2>1. \A r \in DOMAIN quotes' : quotes'[r].status = "RANKED" =>
            r \in DOMAIN quotes /\ quotes[r].status = "RANKED"
    BY <1>4, <1>5
  <2>2. \A r : Available(r)' = Available(r)  BY <1>3 DEF Available, OptionsOf
  <2>3. QED  BY <1>3, <2>1, <2>2, RankingKept
<1>12. QED  BY <1>6, <1>7, <1>8, <1>9, <1>10, <1>11 DEF LifecycleInv

LEMMA DeleteQuoteStep ==
    ASSUME LifecycleInv, NEW q \in DOMAIN quotes, DeleteQuote(q)
    PROVE  LifecycleInv'
<1>1. /\ ~Awarded(q) /\ quotes' = [quotes EXCEPT ![q].status = "DELETED"]
      /\ options' = [p \in DOMAIN options |->
            IF options[p].quote = q THEN [options[p] EXCEPT !.exists = FALSE] ELSE options[p]]
      /\ offers' = [o \in DOMAIN offers |->
            IF offers[o].quote = q THEN [offers[o] EXCEPT !.status = "DELETED"] ELSE offers[o]]
      /\ awards' = awards /\ policy' = policy
  BY DEF DeleteQuote
<1>2. LifecycleTypeOK  BY DEF LifecycleInv
<1>3. /\ quotes' \in Seq(QuoteType) /\ DOMAIN quotes' = DOMAIN quotes
      /\ \A r \in DOMAIN quotes :
            /\ quotes'[r].status = IF r = q THEN "DELETED" ELSE quotes[r].status
            /\ quotes'[r].number = quotes[r].number
            /\ quotes'[r].awarded = quotes[r].awarded
  BY <1>1, <1>2, StatusSet
<1>4. \A p \in DOMAIN options :
        /\ options'[p] \in OptionType
        /\ options'[p].quote = options[p].quote /\ options'[p].offer = options[p].offer
        /\ options'[p].terms = options[p].terms /\ options'[p].rank = options[p].rank
        /\ options[p].quote = q => ~options'[p].exists
        /\ options[p].quote # q => options'[p].exists = options[p].exists
  <2>1. TAKE p \in DOMAIN options
  <2>2. options[p] \in OptionType  BY <1>2, Rows
  <2>3. CASE options[p].quote = q
    <3>1. options'[p] = [options[p] EXCEPT !.exists = FALSE]  BY <1>1, <2>3
    <3>2. QED  BY <2>2, <2>3, <3>1 DEF OptionType
  <2>4. CASE options[p].quote # q
    <3>1. options'[p] = options[p]  BY <1>1, <2>4
    <3>2. QED  BY <2>2, <2>4, <3>1 DEF OptionType
  <2>5. QED  BY <2>3, <2>4
<1>5. \A o \in DOMAIN offers :
        /\ offers'[o] \in OfferType
        /\ offers'[o].quote = offers[o].quote /\ offers'[o].terms = offers[o].terms
        /\ offers'[o].status = IF offers[o].quote = q THEN "DELETED" ELSE offers[o].status
  <2>1. TAKE o \in DOMAIN offers
  <2>2. offers[o] \in OfferType  BY <1>2, Rows
  <2>3. CASE offers[o].quote = q
    <3>1. offers'[o] = [offers[o] EXCEPT !.status = "DELETED"]  BY <1>1, <2>3
    <3>2. QED  BY <2>2, <2>3, <3>1 DEF OfferType
  <2>4. CASE offers[o].quote # q
    <3>1. offers'[o] = offers[o]  BY <1>1, <2>4
    <3>2. QED  BY <2>2, <2>4, <3>1 DEF OfferType
  <2>5. QED  BY <2>3, <2>4
<1>6. options' \in Seq(OptionType) /\ DOMAIN options' = DOMAIN options
  <2>1. options \in Seq(OptionType)  BY <1>2 DEF LifecycleTypeOK
  <2>2. options' = [p \in DOMAIN options |-> options'[p]]  BY <1>1
  <2> DEFINE t == options'
  <2>3. t = [p \in DOMAIN options |-> t[p]] /\ \A p \in DOMAIN options : t[p] \in OptionType
    BY <1>4, <2>2
  <2> HIDE DEF t
  <2>4. t \in Seq(OptionType) /\ DOMAIN t = DOMAIN options  BY <2>1, <2>3, Mapped
  <2>5. QED  BY <2>4 DEF t
<1>7. offers' \in Seq(OfferType) /\ DOMAIN offers' = DOMAIN offers
  <2>1. offers \in Seq(OfferType)  BY <1>2 DEF LifecycleTypeOK
  <2> DEFINE t == offers'
  <2>2. t = [o \in DOMAIN offers |-> t[o]] /\ \A o \in DOMAIN offers : t[o] \in OfferType
    BY <1>1, <1>5
  <2> HIDE DEF t
  <2>3. t \in Seq(OfferType) /\ DOMAIN t = DOMAIN offers  BY <2>1, <2>2, Mapped
  <2>4. QED  BY <2>3 DEF t
<1>8. LifecycleTypeOK'  BY <1>1, <1>2, <1>3, <1>6, <1>7 DEF LifecycleTypeOK
<1>9. ReferencesFit'
  BY <1>1, <1>3, <1>4, <1>5, <1>6, <1>7 DEF LifecycleInv, ReferencesFit
<1>10. NothingOutlivesItsQuote'
  <2>1. \A p \in DOMAIN options : options'[p].exists =>
            /\ quotes'[options'[p].quote].status \notin {"DRAFT", "DELETED"}
            /\ options'[p].offer # NoValue => offers'[options'[p].offer].status # "DELETED"
    BY <1>3, <1>4, <1>5 DEF LifecycleInv, ReferencesFit, NothingOutlivesItsQuote
  <2>2. \A o \in DOMAIN offers : offers'[o].status # "DELETED" =>
            quotes'[offers'[o].quote].status \notin {"DRAFT", "DELETED"}
    BY <1>3, <1>5 DEF LifecycleInv, ReferencesFit, NothingOutlivesItsQuote
  <2>3. QED  BY <1>6, <1>7, <2>1, <2>2 DEF NothingOutlivesItsQuote
<1>11. RequestNumbersUnique'  BY <1>3, NumbersKept
<1>12. AwardsFit'
  <2>1. quotes[q].status # "AWARDED"  BY <1>1 DEF Awarded
  <2>2. \A r \in DOMAIN quotes :
            /\ quotes'[r].awarded = quotes[r].awarded
            /\ quotes'[r].status = "AWARDED" <=> quotes[r].status = "AWARDED"
    BY <1>3, <2>1
  <2>3. \A p \in DOMAIN options : quotes[options[p].quote].status = "AWARDED" =>
            /\ options'[p].exists = options[p].exists
            /\ options'[p].quote = options[p].quote /\ options'[p].offer = options[p].offer
            /\ options'[p].terms = options[p].terms
    BY <1>4, <2>1
  <2>4. \A o \in DOMAIN offers : quotes[offers[o].quote].status = "AWARDED" =>
            offers'[o].status = offers[o].status /\ offers'[o].terms = offers[o].terms
    BY <1>5, <2>1
  <2>5. QED  BY <1>1, <1>3, <2>2, <2>3, <2>4, AwardsKept
<1>13. RankingIsCurrent'
  <2>1. \A r \in DOMAIN quotes' : quotes'[r].status = "RANKED" =>
            r \in DOMAIN quotes /\ quotes[r].status = "RANKED"
    BY <1>3
  <2>2. ASSUME NEW r, NEW p \in Available(r)'
        PROVE  p \in DOMAIN options /\ p \in Available(r)
    <3>1. /\ p \in DOMAIN options /\ options'[p].exists /\ options'[p].quote = r
          /\ options'[p].offer # NoValue => offers'[options'[p].offer].status = "SUBMITTED"
      BY <1>6 DEF Available, OptionsOf
    <3>2. options[p].exists /\ options[p].quote = r /\ options[p].offer = options'[p].offer
      BY <1>4, <3>1
    <3>3. options[p].offer # NoValue => offers[options[p].offer].status = "SUBMITTED"
      BY <1>5, <3>1, <3>2 DEF LifecycleInv, ReferencesFit
    <3>4. QED  BY <3>1, <3>2, <3>3 DEF Available, OptionsOf
  <2>3. QED  BY <1>4, <2>1, <2>2, RankingKept
<1>14. QED
  BY <1>8, <1>9, <1>10, <1>11, <1>12, <1>13 DEF LifecycleInv

(***************************************************************************)
(* Steps on offers                                                         *)
(***************************************************************************)

LEMMA CreateOfferStep ==
    ASSUME LifecycleInv, NEW q \in DOMAIN quotes, NEW t \in Terms, CreateOffer(q, t)
    PROVE  LifecycleInv'
<1> DEFINE offer == [quote |-> q, terms |-> t, status |-> "SUBMITTED"]
           o == Len(offers) + 1
           option == NewOption(q, o, t)
           p == Len(options) + 1
<1>1. /\ quotes[q].status \in OpenStatuses
      /\ offers' = Append(offers, offer) /\ options' = Append(options, option)
      /\ quotes' = [quotes EXCEPT ![q].status = "RATED"]
      /\ awards' = awards /\ policy' = policy
  BY DEF CreateOffer
<1>2. LifecycleTypeOK /\ offers \in Seq(OfferType) /\ options \in Seq(OptionType)
  BY DEF LifecycleInv, LifecycleTypeOK
<1>3. q \in Nat /\ o \in Nat  BY <1>2, Rows
<1>4. offer \in OfferType /\ offer.quote = q /\ offer.terms = t /\ offer.status = "SUBMITTED"
  BY <1>3 DEF OfferType
<1> HIDE DEF offer, o
<1>5. /\ option \in OptionType /\ option.quote = q /\ option.offer = o /\ option.terms = t
      /\ option.exists
  BY <1>3 DEF NewOption, OptionType
<1> HIDE DEF option
<1>6. /\ offers' \in Seq(OfferType) /\ DOMAIN offers' = DOMAIN offers \cup {o}
      /\ o \notin DOMAIN offers /\ offers'[o] = offer
      /\ \A x \in DOMAIN offers : offers'[x] = offers[x]
  BY <1>1, <1>2, <1>4, Appended DEF o
<1>7. /\ options' \in Seq(OptionType) /\ DOMAIN options' = DOMAIN options \cup {p}
      /\ p \notin DOMAIN options /\ options'[p] = option
      /\ \A x \in DOMAIN options : options'[x] = options[x]
  BY <1>1, <1>2, <1>5, Appended
<1> HIDE DEF p
<1>8. /\ quotes' \in Seq(QuoteType) /\ DOMAIN quotes' = DOMAIN quotes
      /\ \A r \in DOMAIN quotes :
            /\ quotes'[r].status = IF r = q THEN "RATED" ELSE quotes[r].status
            /\ quotes'[r].number = quotes[r].number
            /\ quotes'[r].awarded = quotes[r].awarded
  BY <1>1, <1>2, StatusSet DEF OpenStatuses
<1>9. LifecycleTypeOK'  BY <1>1, <1>2, <1>6, <1>7, <1>8 DEF LifecycleTypeOK
<1>10. o # NoValue  BY <1>3, LifecycleConstants
<1>11. ReferencesFit'
  <2>1. \A x \in DOMAIN offers' : offers'[x].quote \in DOMAIN quotes
    BY <1>4, <1>6 DEF LifecycleInv, ReferencesFit
  <2>2. ASSUME NEW x \in DOMAIN options'
        PROVE  /\ options'[x].quote \in DOMAIN quotes
               /\ options'[x].offer # NoValue =>
                    /\ options'[x].offer \in DOMAIN offers'
                    /\ offers'[options'[x].offer].quote = options'[x].quote
                    /\ options'[x].exists =>
                        options'[x].terms = offers'[options'[x].offer].terms
    <3>1. CASE x = p  BY <3>1, <1>4, <1>5, <1>6, <1>7
    <3>2. CASE x # p  BY <3>2, <1>6, <1>7 DEF LifecycleInv, ReferencesFit
    <3>3. QED  BY <3>1, <3>2
  <2>3. \A a \in DOMAIN awards :
            awards[a].quote \in DOMAIN quotes /\ awards[a].option \in DOMAIN options
    BY DEF LifecycleInv, ReferencesFit
  <2>4. QED  BY <1>1, <1>7, <1>8, <2>1, <2>2, <2>3 DEF ReferencesFit
<1>12. NothingOutlivesItsQuote'
  <2>1. \A r \in DOMAIN quotes : quotes[r].status \notin {"DRAFT", "DELETED"}
            => quotes'[r].status \notin {"DRAFT", "DELETED"}
    BY <1>8
  <2>2. quotes'[q].status \notin {"DRAFT", "DELETED"}  BY <1>8
  <2>3. ASSUME NEW x \in DOMAIN options', options'[x].exists
        PROVE  /\ quotes'[options'[x].quote].status \notin {"DRAFT", "DELETED"}
               /\ options'[x].offer # NoValue => offers'[options'[x].offer].status # "DELETED"
    <3>1. CASE x = p  BY <3>1, <1>4, <1>5, <1>6, <1>7, <2>2
    <3>2. CASE x # p
      BY <2>3, <3>2, <1>6, <1>7, <2>1 DEF LifecycleInv, ReferencesFit, NothingOutlivesItsQuote
    <3>3. QED  BY <3>1, <3>2
  <2>4. ASSUME NEW x \in DOMAIN offers', offers'[x].status # "DELETED"
        PROVE  quotes'[offers'[x].quote].status \notin {"DRAFT", "DELETED"}
    <3>1. CASE x = o  BY <3>1, <1>4, <1>6, <2>2
    <3>2. CASE x # o
      BY <2>4, <3>2, <1>6, <2>1 DEF LifecycleInv, ReferencesFit, NothingOutlivesItsQuote
    <3>3. QED  BY <3>1, <3>2
  <2>5. QED  BY <2>3, <2>4 DEF NothingOutlivesItsQuote
<1>13. RequestNumbersUnique'
  <2>1. \A r \in DOMAIN quotes :
            quotes'[r].status # "DELETED" => quotes[r].status # "DELETED"
    BY <1>1, <1>8 DEF OpenStatuses
  <2>2. QED  BY <1>8, <2>1, NumbersKept
<1>14. AwardsFit'
  <2>1. \A r \in DOMAIN quotes :
            /\ quotes'[r].awarded = quotes[r].awarded
            /\ quotes'[r].status = "AWARDED" <=> quotes[r].status = "AWARDED"
    BY <1>1, <1>8 DEF OpenStatuses
  <2>2. QED  BY <1>1, <1>6, <1>7, <1>8, <2>1, AwardsKept
<1>15. RankingIsCurrent'
  <2>1. ASSUME NEW r \in DOMAIN quotes', quotes'[r].status = "RANKED"
        PROVE  /\ r \in DOMAIN quotes /\ quotes[r].status = "RANKED"
               /\ \A x \in Available(r)' :
                    /\ x \in Available(r)
                    /\ options'[x].rank = options[x].rank
                    /\ options'[x].terms = options[x].terms
    <3>1. r \in DOMAIN quotes /\ r # q /\ quotes[r].status = "RANKED"  BY <1>8, <2>1
    <3>2. ASSUME NEW x \in Available(r)'
          PROVE  /\ x \in Available(r)
                 /\ options'[x].rank = options[x].rank /\ options'[x].terms = options[x].terms
      <4>1. /\ x \in DOMAIN options' /\ options'[x].exists /\ options'[x].quote = r
            /\ options'[x].offer # NoValue =>
                offers'[options'[x].offer].status = "SUBMITTED"
        BY DEF Available, OptionsOf
      <4>2. x \in DOMAIN options /\ options'[x] = options[x]  BY <1>5, <1>7, <3>1, <4>1
      <4>3. options[x].offer # NoValue => options[x].offer \in DOMAIN offers
        BY <4>2 DEF LifecycleInv, ReferencesFit
      <4>4. QED  BY <1>6, <4>1, <4>2, <4>3 DEF Available, OptionsOf
    <3>3. QED  BY <3>1, <3>2
  <2>2. QED  BY <2>1, RankingKept
<1>16. QED
  BY <1>9, <1>11, <1>12, <1>13, <1>14, <1>15 DEF LifecycleInv

\* The quote of an offer that can change is open.
LEMMA ChangingOffer ==
    ASSUME LifecycleInv, NEW o \in DOMAIN offers, OfferCanChange(o)
    PROVE  /\ offers[o].quote \in DOMAIN quotes
           /\ quotes[offers[o].quote].status \in OpenStatuses
<1>1. offers[o].quote \in DOMAIN quotes  BY DEF LifecycleInv, ReferencesFit
<1>2. quotes[offers[o].quote] \in QuoteType  BY <1>1, Rows DEF LifecycleInv
<1>3. quotes[offers[o].quote].status \notin {"DRAFT", "DELETED", "AWARDED"}
  BY DEF OfferCanChange, LifecycleInv, NothingOutlivesItsQuote
<1>4. QED  BY <1>1, <1>2, <1>3 DEF QuoteType

LEMMA UpdateOfferStep ==
    ASSUME LifecycleInv, NEW o \in DOMAIN offers, NEW t \in Terms, UpdateOffer(o, t)
    PROVE  LifecycleInv'
<1> DEFINE q == offers[o].quote
           offer == [offers[o] EXCEPT !.terms = t]
<1>1. /\ OfferCanChange(o) /\ offers' = [offers EXCEPT ![o].terms = t]
      /\ options' = [p \in DOMAIN options |->
            IF p \in OptionFor(o)
            THEN [options[p] EXCEPT !.terms = t, !.rank = NoValue] ELSE options[p]]
      /\ quotes' = [quotes EXCEPT ![q].status = "RATED"]
      /\ awards' = awards /\ policy' = policy
  BY DEF UpdateOffer
<1>2. LifecycleTypeOK /\ offers \in Seq(OfferType) /\ offers[o] \in OfferType
      /\ options \in Seq(OptionType)
  BY Rows DEF LifecycleInv, LifecycleTypeOK
<1>3. q \in DOMAIN quotes /\ quotes[q].status \in OpenStatuses  BY <1>1, ChangingOffer
<1>4. offer \in OfferType /\ offer.quote = q /\ offer.terms = t
      /\ offer.status = offers[o].status
  BY <1>2 DEF OfferType
<1>5. offers' = [offers EXCEPT ![o] = offer]  BY <1>1, <1>2 DEF OfferType
<1> HIDE DEF offer
<1>6. /\ offers' \in Seq(OfferType) /\ DOMAIN offers' = DOMAIN offers
      /\ \A x \in DOMAIN offers : offers'[x] = IF x = o THEN offer ELSE offers[x]
  BY <1>2, <1>4, <1>5, Replaced
<1>7. \A x \in DOMAIN offers :
        offers'[x].quote = offers[x].quote /\ offers'[x].status = offers[x].status
  BY <1>4, <1>6
<1>8. \A p \in DOMAIN options :
        /\ options'[p] \in OptionType
        /\ options'[p].quote = options[p].quote /\ options'[p].offer = options[p].offer
        /\ options'[p].exists = options[p].exists
        /\ p \in OptionFor(o) => options'[p].terms = t
        /\ p \notin OptionFor(o) => options'[p] = options[p]
  <2>1. TAKE p \in DOMAIN options
  <2>2. options[p] \in OptionType  BY <1>2, Rows
  <2>3. CASE p \in OptionFor(o)
    <3> DEFINE termed == [options[p] EXCEPT !.terms = t]
    <3>1. termed \in OptionType /\ termed.quote = options[p].quote
          /\ termed.offer = options[p].offer /\ termed.exists = options[p].exists
          /\ termed.terms = t
      BY <2>2 DEF OptionType
    <3>2. options'[p] = [termed EXCEPT !.rank = NoValue]
      BY <1>1, <2>2, <2>3 DEF OptionType
    <3> HIDE DEF termed
    <3>3. QED  BY <2>3, <3>1, <3>2 DEF OptionType
  <2>4. CASE p \notin OptionFor(o)
    <3>1. options'[p] = options[p]  BY <1>1, <2>4
    <3>2. QED  BY <2>2, <2>4, <3>1
  <2>5. QED  BY <2>3, <2>4
<1>9. options' \in Seq(OptionType) /\ DOMAIN options' = DOMAIN options
  <2> DEFINE s == options'
  <2>1. s = [p \in DOMAIN options |-> s[p]] /\ \A p \in DOMAIN options : s[p] \in OptionType
    BY <1>1, <1>8
  <2> HIDE DEF s
  <2>2. s \in Seq(OptionType) /\ DOMAIN s = DOMAIN options  BY <1>2, <2>1, Mapped
  <2>3. QED  BY <2>2 DEF s
<1> HIDE DEF q
<1>10. /\ quotes' \in Seq(QuoteType) /\ DOMAIN quotes' = DOMAIN quotes
       /\ \A r \in DOMAIN quotes :
            /\ quotes'[r].status = IF r = q THEN "RATED" ELSE quotes[r].status
            /\ quotes'[r].number = quotes[r].number
            /\ quotes'[r].awarded = quotes[r].awarded
  BY <1>1, <1>2, <1>3, StatusSet DEF OpenStatuses
<1>11. LifecycleTypeOK'  BY <1>1, <1>2, <1>6, <1>9, <1>10 DEF LifecycleTypeOK
<1>12. ReferencesFit'
  <2>1. ASSUME NEW p \in DOMAIN options
        PROVE  /\ options'[p].quote \in DOMAIN quotes
               /\ options'[p].offer # NoValue =>
                    /\ options'[p].offer \in DOMAIN offers
                    /\ offers'[options'[p].offer].quote = options'[p].quote
                    /\ options'[p].exists =>
                        options'[p].terms = offers'[options'[p].offer].terms
    <3>1. /\ options[p].quote \in DOMAIN quotes
          /\ options[p].offer # NoValue =>
                /\ options[p].offer \in DOMAIN offers
                /\ offers[options[p].offer].quote = options[p].quote
                /\ options[p].exists => options[p].terms = offers[options[p].offer].terms
      BY DEF LifecycleInv, ReferencesFit
    <3>2. CASE p \in OptionFor(o)
      <4>1. options[p].offer = o  BY <3>2 DEF OptionFor
      <4>2. QED  BY <1>4, <1>6, <1>7, <1>8, <3>1, <3>2, <4>1
    <3>3. CASE p \notin OptionFor(o)
      <4>1. ~options[p].exists \/ options[p].offer # o  BY <3>3 DEF OptionFor
      <4>2. QED  BY <1>6, <1>7, <1>8, <3>1, <3>3, <4>1
    <3>4. QED  BY <3>2, <3>3
  <2>2. \A x \in DOMAIN offers : offers'[x].quote \in DOMAIN quotes
    BY <1>7 DEF LifecycleInv, ReferencesFit
  <2>3. \A a \in DOMAIN awards :
            awards[a].quote \in DOMAIN quotes /\ awards[a].option \in DOMAIN options
    BY DEF LifecycleInv, ReferencesFit
  <2>4. QED  BY <1>1, <1>6, <1>9, <1>10, <2>1, <2>2, <2>3 DEF ReferencesFit
<1>13. NothingOutlivesItsQuote'
  <2>1. \A r \in DOMAIN quotes : quotes[r].status \notin {"DRAFT", "DELETED"}
            => quotes'[r].status \notin {"DRAFT", "DELETED"}
    BY <1>10
  <2>2. \A p \in DOMAIN options : options'[p].exists =>
            /\ quotes'[options'[p].quote].status \notin {"DRAFT", "DELETED"}
            /\ options'[p].offer # NoValue => offers'[options'[p].offer].status # "DELETED"
    BY <1>7, <1>8, <2>1 DEF LifecycleInv, ReferencesFit, NothingOutlivesItsQuote
  <2>3. \A x \in DOMAIN offers : offers'[x].status # "DELETED" =>
            quotes'[offers'[x].quote].status \notin {"DRAFT", "DELETED"}
    BY <1>7, <2>1 DEF LifecycleInv, ReferencesFit, NothingOutlivesItsQuote
  <2>4. QED  BY <1>6, <1>9, <2>2, <2>3 DEF NothingOutlivesItsQuote
<1>14. RequestNumbersUnique'
  <2>1. \A r \in DOMAIN quotes :
            quotes'[r].status # "DELETED" => quotes[r].status # "DELETED"
    BY <1>3, <1>10 DEF OpenStatuses
  <2>2. QED  BY <1>10, <2>1, NumbersKept
<1>15. AwardsFit'
  <2>1. \A r \in DOMAIN quotes :
            /\ quotes'[r].awarded = quotes[r].awarded
            /\ quotes'[r].status = "AWARDED" <=> quotes[r].status = "AWARDED"
    BY <1>3, <1>10 DEF OpenStatuses
  <2>2. quotes[q].status # "AWARDED"  BY <1>3 DEF OpenStatuses
  <2>3. ASSUME NEW p \in DOMAIN options, quotes[options[p].quote].status = "AWARDED"
        PROVE  options'[p] = options[p]
    <3>1. p \notin OptionFor(o)
      <4>1. p \in OptionFor(o) => options[p].offer = o  BY DEF OptionFor
      <4>2. o # NoValue  BY <1>2, Rows, LifecycleConstants
      <4>3. options[p].offer = o => options[p].quote = q
        BY <4>2 DEF LifecycleInv, ReferencesFit, q
      <4>4. QED  BY <2>2, <2>3, <4>1, <4>3
    <3>2. QED  BY <1>8, <3>1
  <2>4. ASSUME NEW x \in DOMAIN offers, quotes[offers[x].quote].status = "AWARDED"
        PROVE  offers'[x] = offers[x]
    BY <1>6, <2>2, <2>4 DEF q
  <2>5. QED  BY <1>1, <1>10, <2>1, <2>3, <2>4, AwardsKept
<1>16. RankingIsCurrent'
  <2>1. ASSUME NEW r \in DOMAIN quotes', quotes'[r].status = "RANKED"
        PROVE  /\ r \in DOMAIN quotes /\ quotes[r].status = "RANKED"
               /\ \A x \in Available(r)' :
                    /\ x \in Available(r)
                    /\ options'[x].rank = options[x].rank
                    /\ options'[x].terms = options[x].terms
    <3>1. r \in DOMAIN quotes /\ r # q /\ quotes[r].status = "RANKED"  BY <1>10, <2>1
    <3>2. ASSUME NEW x \in Available(r)'
          PROVE  /\ x \in Available(r)
                 /\ options'[x].rank = options[x].rank /\ options'[x].terms = options[x].terms
      <4>1. /\ x \in DOMAIN options /\ options'[x].exists /\ options'[x].quote = r
            /\ options'[x].offer # NoValue =>
                offers'[options'[x].offer].status = "SUBMITTED"
        BY <1>9 DEF Available, OptionsOf
      <4>2. /\ options[x].exists /\ options[x].quote = r /\ options[x].offer = options'[x].offer
        BY <1>8, <4>1
      <4>3. options[x].offer # NoValue =>
                options[x].offer \in DOMAIN offers /\ offers[options[x].offer].quote = r
        BY <4>1, <4>2 DEF LifecycleInv, ReferencesFit
      <4>4. x \in Available(r)
        BY <1>7, <4>1, <4>2, <4>3 DEF Available, OptionsOf
      <4>5. x \notin OptionFor(o)
        <5>1. x \in OptionFor(o) => options[x].offer = o  BY DEF OptionFor
        <5>2. o # NoValue  BY <1>2, Rows, LifecycleConstants
        <5>3. QED  BY <3>1, <4>3, <5>1, <5>2 DEF q
      <4>6. QED  BY <1>8, <4>1, <4>4, <4>5
    <3>3. QED  BY <3>1, <3>2
  <2>2. QED  BY <2>1, RankingKept
<1>17. QED
  BY <1>11, <1>12, <1>13, <1>14, <1>15, <1>16 DEF LifecycleInv

LEMMA WithdrawOfferStep ==
    ASSUME LifecycleInv, NEW o \in DOMAIN offers, WithdrawOffer(o)
    PROVE  LifecycleInv'
<1> DEFINE offer == [offers[o] EXCEPT !.status = "WITHDRAWN"]
<1>1. /\ OfferCanChange(o) /\ offers' = [offers EXCEPT ![o].status = "WITHDRAWN"]
      /\ options' = [p \in DOMAIN options |->
            IF p \in OptionFor(o) THEN [options[p] EXCEPT !.rank = NoValue] ELSE options[p]]
      /\ quotes' = quotes /\ awards' = awards /\ policy' = policy
  BY DEF WithdrawOffer
<1>2. LifecycleTypeOK /\ offers \in Seq(OfferType) /\ offers[o] \in OfferType
      /\ options \in Seq(OptionType) /\ o # NoValue
  BY Rows, LifecycleConstants DEF LifecycleInv, LifecycleTypeOK
<1>3. quotes[offers[o].quote].status \in OpenStatuses  BY <1>1, ChangingOffer
<1>4. offer \in OfferType /\ offer.quote = offers[o].quote /\ offer.terms = offers[o].terms
      /\ offer.status = "WITHDRAWN"
  BY <1>2 DEF OfferType
<1>5. offers' = [offers EXCEPT ![o] = offer]  BY <1>1, <1>2 DEF OfferType
<1> HIDE DEF offer
<1>6. /\ offers' \in Seq(OfferType) /\ DOMAIN offers' = DOMAIN offers
      /\ \A x \in DOMAIN offers : offers'[x] = IF x = o THEN offer ELSE offers[x]
  BY <1>2, <1>4, <1>5, Replaced
<1>7. \A x \in DOMAIN offers :
        /\ offers'[x].quote = offers[x].quote /\ offers'[x].terms = offers[x].terms
        /\ x = o => offers'[x].status = "WITHDRAWN"
        /\ x # o => offers'[x].status = offers[x].status
  BY <1>4, <1>6
<1>8. \A p \in DOMAIN options :
        /\ options'[p] \in OptionType
        /\ options'[p].quote = options[p].quote /\ options'[p].offer = options[p].offer
        /\ options'[p].exists = options[p].exists /\ options'[p].terms = options[p].terms
        /\ p \notin OptionFor(o) => options'[p] = options[p]
  <2>1. TAKE p \in DOMAIN options
  <2>2. options[p] \in OptionType  BY <1>2, Rows
  <2>3. CASE p \in OptionFor(o)
    <3>1. options'[p] = [options[p] EXCEPT !.rank = NoValue]  BY <1>1, <2>3
    <3>2. QED  BY <2>2, <2>3, <3>1 DEF OptionType
  <2>4. CASE p \notin OptionFor(o)
    <3>1. options'[p] = options[p]  BY <1>1, <2>4
    <3>2. QED  BY <2>2, <2>4, <3>1
  <2>5. QED  BY <2>3, <2>4
<1>9. options' \in Seq(OptionType) /\ DOMAIN options' = DOMAIN options
  <2> DEFINE s == options'
  <2>1. s = [p \in DOMAIN options |-> s[p]] /\ \A p \in DOMAIN options : s[p] \in OptionType
    BY <1>1, <1>8
  <2> HIDE DEF s
  <2>2. s \in Seq(OptionType) /\ DOMAIN s = DOMAIN options  BY <1>2, <2>1, Mapped
  <2>3. QED  BY <2>2 DEF s
<1>10. LifecycleTypeOK'  BY <1>1, <1>2, <1>6, <1>9 DEF LifecycleTypeOK
<1>11. ReferencesFit'  BY <1>1, <1>6, <1>7, <1>8, <1>9 DEF LifecycleInv, ReferencesFit
<1>12. NothingOutlivesItsQuote'
  <2>1. \A x \in DOMAIN offers : offers'[x].status # "DELETED" => offers[x].status # "DELETED"
    BY <1>1, <1>7 DEF OfferCanChange
  <2>2. \A x \in DOMAIN offers : offers[x].status # "DELETED" => offers'[x].status # "DELETED"
    BY <1>7
  <2>3. QED
    BY <1>1, <1>6, <1>7, <1>8, <1>9, <2>1, <2>2
       DEF LifecycleInv, ReferencesFit, NothingOutlivesItsQuote
<1>13. RequestNumbersUnique'  BY <1>1, NumbersKept
<1>14. AwardsFit'
  <2>1. ASSUME NEW p \in DOMAIN options, quotes[options[p].quote].status = "AWARDED"
        PROVE  options'[p] = options[p]
    <3>1. p \notin OptionFor(o)
      <4>1. p \in OptionFor(o) => options[p].offer = o  BY DEF OptionFor
      <4>2. options[p].offer = o => options[p].quote = offers[o].quote
        BY <1>2 DEF LifecycleInv, ReferencesFit
      <4>3. QED  BY <1>3, <2>1, <4>1, <4>2 DEF OpenStatuses
    <3>2. QED  BY <1>8, <3>1
  <2>2. ASSUME NEW x \in DOMAIN offers, quotes[offers[x].quote].status = "AWARDED"
        PROVE  offers'[x] = offers[x]
    BY <1>3, <1>6, <2>2 DEF OpenStatuses
  <2>3. QED  BY <1>1, <2>1, <2>2, AwardsKept
<1>15. RankingIsCurrent'
  <2>1. ASSUME NEW r \in DOMAIN quotes, NEW x \in Available(r)'
        PROVE  /\ x \in Available(r)
               /\ options'[x].rank = options[x].rank /\ options'[x].terms = options[x].terms
    <3>1. /\ x \in DOMAIN options /\ options[x].exists /\ options[x].quote = r
          /\ options[x].offer # NoValue => offers'[options[x].offer].status = "SUBMITTED"
      BY <1>8, <1>9 DEF Available, OptionsOf
    <3>2. options[x].offer # NoValue => options[x].offer \in DOMAIN offers
      BY <3>1 DEF LifecycleInv, ReferencesFit
    <3>3. options[x].offer # o  BY <1>2, <1>7, <3>1, <3>2
    <3>4. x \in Available(r)  BY <1>7, <3>1, <3>2, <3>3 DEF Available, OptionsOf
    <3>5. x \notin OptionFor(o)  BY <3>3 DEF OptionFor
    <3>6. QED  BY <1>8, <3>1, <3>4, <3>5
  <2>2. QED  BY <1>1, <2>1, RankingKept
<1>16. QED
  BY <1>10, <1>11, <1>12, <1>13, <1>14, <1>15 DEF LifecycleInv

(***************************************************************************)
(* Rating and ranking                                                      *)
(***************************************************************************)

\* What a ranking must achieve for the options P with the rows s.
RanksFit(P, s) ==
    \A p1, p2 \in P :
        /\ s[p1].rank # NoValue
        /\ s[p1].rank = s[p2].rank => p1 = p2
        /\ s[p1].rank < s[p2].rank => Key[s[p1].terms] <= Key[s[p2].terms]

\* Rating and ranking an open quote: its options are removed, added or ranked,
\* those of the other quotes stay as they are.
LEMMA QuotePriced ==
    ASSUME LifecycleInv, NEW q \in DOMAIN quotes, quotes[q].status \in OpenStatuses,
           NEW status \in {"RATED", "RANKED"},
           quotes' = [quotes EXCEPT ![q].status = status],
           UNCHANGED <<offers, awards, policy>>,
           options' \in Seq(OptionType), DOMAIN options \subseteq DOMAIN options',
           \A p \in DOMAIN options :
                /\ options'[p].quote = options[p].quote /\ options'[p].offer = options[p].offer
                /\ options'[p].terms = options[p].terms
                /\ options'[p].exists => options[p].exists
                /\ options[p].quote # q => options'[p] = options[p],
           \A p \in DOMAIN options' \ DOMAIN options :
                options'[p].quote = q /\ options'[p].offer = NoValue,
           status = "RANKED" => RanksFit(Available(q)', options')
    PROVE  LifecycleInv'
<1>1. LifecycleTypeOK  BY DEF LifecycleInv
<1>2. /\ quotes' \in Seq(QuoteType) /\ DOMAIN quotes' = DOMAIN quotes
      /\ \A r \in DOMAIN quotes :
            /\ quotes'[r].status = IF r = q THEN status ELSE quotes[r].status
            /\ quotes'[r].number = quotes[r].number
            /\ quotes'[r].awarded = quotes[r].awarded
  <2>1. status \in {"DRAFT", "AWARDED", "DELETED"} \cup OpenStatuses  BY DEF OpenStatuses
  <2>2. QED  BY <1>1, <2>1, StatusSet
<1>3. LifecycleTypeOK'  BY <1>1, <1>2 DEF LifecycleTypeOK
<1>4. ReferencesFit'
  <2>1. ASSUME NEW p \in DOMAIN options'
        PROVE  /\ options'[p].quote \in DOMAIN quotes
               /\ options'[p].offer # NoValue =>
                    /\ options'[p].offer \in DOMAIN offers
                    /\ offers[options'[p].offer].quote = options'[p].quote
                    /\ options'[p].exists =>
                        options'[p].terms = offers[options'[p].offer].terms
    BY DEF LifecycleInv, ReferencesFit
  <2>2. \A o \in DOMAIN offers : offers[o].quote \in DOMAIN quotes
    BY DEF LifecycleInv, ReferencesFit
  <2>3. \A a \in DOMAIN awards :
            awards[a].quote \in DOMAIN quotes /\ awards[a].option \in DOMAIN options
    BY DEF LifecycleInv, ReferencesFit
  <2>4. QED  BY <1>2, <2>1, <2>2, <2>3 DEF ReferencesFit
<1>5. NothingOutlivesItsQuote'
  <2>1. \A r \in DOMAIN quotes : (quotes[r].status \notin {"DRAFT", "DELETED"} \/ r = q)
            => quotes'[r].status \notin {"DRAFT", "DELETED"}
    BY <1>2
  <2>2. ASSUME NEW p \in DOMAIN options', options'[p].exists
        PROVE  /\ quotes'[options'[p].quote].status \notin {"DRAFT", "DELETED"}
               /\ options'[p].offer # NoValue => offers[options'[p].offer].status # "DELETED"
    BY <2>1, <2>2 DEF LifecycleInv, ReferencesFit, NothingOutlivesItsQuote
  <2>3. ASSUME NEW o \in DOMAIN offers, offers[o].status # "DELETED"
        PROVE  quotes'[offers[o].quote].status \notin {"DRAFT", "DELETED"}
    BY <2>1, <2>3 DEF LifecycleInv, ReferencesFit, NothingOutlivesItsQuote
  <2>4. QED  BY <2>2, <2>3 DEF NothingOutlivesItsQuote
<1>6. RequestNumbersUnique'
  <2>1. \A r \in DOMAIN quotes :
            quotes'[r].status # "DELETED" => quotes[r].status # "DELETED"
    BY <1>2 DEF OpenStatuses
  <2>2. QED  BY <1>2, <2>1, NumbersKept
<1>7. AwardsFit'
  <2>1. \A r \in DOMAIN quotes :
            /\ quotes'[r].awarded = quotes[r].awarded
            /\ quotes'[r].status = "AWARDED" <=> quotes[r].status = "AWARDED"
    BY <1>2 DEF OpenStatuses
  <2>2. \A p \in DOMAIN options :
            quotes[options[p].quote].status = "AWARDED" => options'[p] = options[p]
    BY DEF OpenStatuses
  <2>3. QED  BY <1>2, <2>1, <2>2, AwardsKept
<1>8. RankingIsCurrent'
  <2>1. SUFFICES ASSUME NEW r \in DOMAIN quotes, quotes'[r].status = "RANKED"
                 PROVE  RanksFit(Available(r)', options')
    BY <1>2 DEF RankingIsCurrent, RanksFit
  <2>2. CASE r = q  BY <1>2, <2>1, <2>2
  <2>3. CASE r # q
    <3>1. quotes[r].status = "RANKED"  BY <1>2, <2>1, <2>3
    <3>2. RanksFit(Available(r), options)
      BY <3>1 DEF LifecycleInv, RankingIsCurrent, RanksFit
    <3>3. ASSUME NEW p \in Available(r)'
          PROVE  p \in Available(r) /\ options'[p] = options[p]
      <4>1. /\ p \in DOMAIN options' /\ options'[p].exists /\ options'[p].quote = r
            /\ options'[p].offer # NoValue => offers[options'[p].offer].status = "SUBMITTED"
        BY DEF Available, OptionsOf
      <4>2. p \in DOMAIN options /\ options'[p] = options[p]  BY <2>3, <4>1
      <4>3. QED  BY <4>1, <4>2 DEF Available, OptionsOf
    <3>4. QED  BY <3>2, <3>3 DEF RanksFit
  <2>4. QED  BY <2>2, <2>3
<1>9. QED  BY <1>3, <1>4, <1>5, <1>6, <1>7, <1>8 DEF LifecycleInv

LEMMA ContractOptionsRemoved ==
    ASSUME LifecycleTypeOK, NEW q, NEW s, s = WithoutContractOptions(q)
    PROVE  /\ s \in Seq(OptionType) /\ DOMAIN s = DOMAIN options
           /\ \A p \in DOMAIN options :
                /\ s[p].quote = options[p].quote /\ s[p].offer = options[p].offer
                /\ s[p].terms = options[p].terms /\ s[p].rank = options[p].rank
                /\ s[p].exists => options[p].exists
                /\ options[p].quote # q \/ options[p].offer # NoValue => s[p] = options[p]
                /\ options[p].quote = q /\ options[p].offer = NoValue => ~s[p].exists
<1>1. s = [p \in DOMAIN options |->
            IF options[p].quote = q /\ options[p].offer = NoValue
            THEN [options[p] EXCEPT !.exists = FALSE] ELSE options[p]]
  BY DEF WithoutContractOptions
<1>2. options \in Seq(OptionType)  BY DEF LifecycleTypeOK
<1>3. ASSUME NEW p \in DOMAIN options
      PROVE  /\ s[p] \in OptionType
             /\ s[p].quote = options[p].quote /\ s[p].offer = options[p].offer
             /\ s[p].terms = options[p].terms /\ s[p].rank = options[p].rank
             /\ s[p].exists => options[p].exists
             /\ options[p].quote # q \/ options[p].offer # NoValue => s[p] = options[p]
             /\ options[p].quote = q /\ options[p].offer = NoValue => ~s[p].exists
  <2>1. options[p] \in OptionType  BY Rows
  <2>2. CASE options[p].quote = q /\ options[p].offer = NoValue
    <3>1. s[p] = [options[p] EXCEPT !.exists = FALSE]  BY <1>1, <2>2
    <3>2. QED  BY <2>1, <2>2, <3>1 DEF OptionType
  <2>3. CASE ~(options[p].quote = q /\ options[p].offer = NoValue)
    <3>1. s[p] = options[p]  BY <1>1, <2>3
    <3>2. QED  BY <2>1, <2>3, <3>1
  <2>4. QED  BY <2>2, <2>3
<1>4. s = [p \in DOMAIN options |-> s[p]]  BY <1>1
<1>5. s \in Seq(OptionType) /\ DOMAIN s = DOMAIN options  BY <1>2, <1>3, <1>4, Mapped
<1>6. QED  BY <1>3, <1>5

LEMMA RateQuoteStep ==
    ASSUME LifecycleInv, NEW q \in DOMAIN quotes, NEW outcome \in Outcomes,
           NEW layer \in BOOLEAN, RateQuote(q, outcome, layer)
    PROVE  LifecycleInv'
<1> DEFINE kept == WithoutContractOptions(q)
           new == NewOption(q, NoValue, outcome)
<1>1. LifecycleTypeOK /\ options \in Seq(OptionType) /\ q \in Nat
  BY Rows DEF LifecycleInv, LifecycleTypeOK
<1>2. /\ quotes[q].status \in OpenStatuses
      /\ quotes' = [quotes EXCEPT ![q].status = "RATED"]
      /\ UNCHANGED <<offers, awards, policy>>
  BY DEF RateQuote, Rates
<1>3. \/ options' = options
      \/ options' = kept
      \/ outcome \in Terms /\ options' = Append(kept, new)
  BY DEF RateQuote, Rates, Outcomes
<1>4. /\ kept \in Seq(OptionType) /\ DOMAIN kept = DOMAIN options
      /\ \A p \in DOMAIN options :
            /\ kept[p].quote = options[p].quote /\ kept[p].offer = options[p].offer
            /\ kept[p].terms = options[p].terms
            /\ kept[p].exists => options[p].exists
            /\ options[p].quote # q => kept[p] = options[p]
  BY <1>1, ContractOptionsRemoved
<1> HIDE DEF kept
<1>5. CASE options' = options  BY <1>1, <1>2, <1>5, QuotePriced
<1>6. CASE options' = kept  BY <1>2, <1>4, <1>6, QuotePriced
<1>7. CASE outcome \in Terms /\ options' = Append(kept, new)
  <2>1. new \in OptionType /\ new.quote = q /\ new.offer = NoValue
    BY <1>1, <1>7 DEF NewOption, OptionType
  <2> HIDE DEF new
  <2>2. /\ options' \in Seq(OptionType)
        /\ DOMAIN options' = DOMAIN options \cup {Len(kept) + 1}
        /\ Len(kept) + 1 \notin DOMAIN options
        /\ options'[Len(kept) + 1] = new
        /\ \A p \in DOMAIN options : options'[p] = kept[p]
    BY <1>4, <1>7, <2>1, Appended
  <2>3. \A p \in DOMAIN options' \ DOMAIN options :
            options'[p].quote = q /\ options'[p].offer = NoValue
    BY <2>1, <2>2
  <2>4. \A p \in DOMAIN options :
            /\ options'[p].quote = options[p].quote /\ options'[p].offer = options[p].offer
            /\ options'[p].terms = options[p].terms
            /\ options'[p].exists => options[p].exists
            /\ options[p].quote # q => options'[p] = options[p]
    BY <1>4, <2>2
  <2>5. QED  BY <1>2, <2>2, <2>3, <2>4, QuotePriced
<1>8. QED  BY <1>3, <1>5, <1>6, <1>7

LEMMA RateAndRankQuoteStep ==
    ASSUME LifecycleInv, NEW q \in DOMAIN quotes, NEW t \in Terms, RateAndRankQuote(q, t)
    PROVE  LifecycleInv'
<1> DEFINE kept == WithoutContractOptions(q)
           new == [NewOption(q, NoValue, t) EXCEPT !.rank = 1]
           n == Len(kept) + 1
<1>1. LifecycleTypeOK /\ options \in Seq(OptionType) /\ q \in Nat
  BY Rows DEF LifecycleInv, LifecycleTypeOK
<1>2. /\ quotes[q].status \in OpenStatuses /\ Available(q) = {}
      /\ quotes' = [quotes EXCEPT ![q].status = "RANKED"]
      /\ UNCHANGED <<offers, awards, policy>>
      /\ options' = Append(kept, new)
  BY DEF RateAndRankQuote
<1>3. /\ kept \in Seq(OptionType) /\ DOMAIN kept = DOMAIN options
      /\ \A p \in DOMAIN options :
            /\ kept[p].quote = options[p].quote /\ kept[p].offer = options[p].offer
            /\ kept[p].terms = options[p].terms
            /\ kept[p].exists => options[p].exists
            /\ options[p].quote # q => kept[p] = options[p]
  BY <1>1, ContractOptionsRemoved
<1> HIDE DEF kept
<1>4. new \in OptionType /\ new.quote = q /\ new.offer = NoValue /\ new.rank = 1
  BY <1>1 DEF NewOption, OptionType
<1> HIDE DEF new
<1>5. /\ options' \in Seq(OptionType) /\ DOMAIN options' = DOMAIN options \cup {n}
      /\ n \notin DOMAIN options /\ options'[n] = new
      /\ \A p \in DOMAIN options : options'[p] = kept[p]
  BY <1>2, <1>3, <1>4, Appended
<1> HIDE DEF n
<1>6. ASSUME NEW p \in Available(q)'  PROVE  p = n
  <2>1. /\ p \in DOMAIN options' /\ options'[p].exists /\ options'[p].quote = q
        /\ options'[p].offer # NoValue => offers[options'[p].offer].status = "SUBMITTED"
    BY <1>2 DEF Available, OptionsOf
  <2>2. p \in DOMAIN options => p \in Available(q)
    BY <1>3, <1>5, <2>1 DEF Available, OptionsOf
  <2>3. QED  BY <1>2, <1>5, <2>1, <2>2
<1>7. 1 # NoValue /\ Key[options'[n].terms] <= Key[options'[n].terms]
  <2>1. Key[options'[n].terms] \in Int
    BY <1>4, <1>5, LifecycleConstants DEF OptionType
  <2>2. QED  BY <2>1, LifecycleConstants
<1>8. RanksFit(Available(q)', options')
  BY <1>4, <1>5, <1>6, <1>7 DEF RanksFit
<1>9. \A p \in DOMAIN options' \ DOMAIN options :
        options'[p].quote = q /\ options'[p].offer = NoValue
  BY <1>4, <1>5
<1>10. \A p \in DOMAIN options :
        /\ options'[p].quote = options[p].quote /\ options'[p].offer = options[p].offer
        /\ options'[p].terms = options[p].terms
        /\ options'[p].exists => options[p].exists
        /\ options[p].quote # q => options'[p] = options[p]
  BY <1>3, <1>5
<1>11. QED  BY <1>2, <1>5, <1>8, <1>9, <1>10, QuotePriced

\* The ranking order is a strict total order on the options there are.
LEMMA RankingOrder ==
    ASSUME LifecycleTypeOK
    PROVE  /\ \A p \in DOMAIN options : ~RankedBefore(p, p) /\ Key[options[p].terms] \in Int
           /\ \A p1, p2 \in DOMAIN options : RankedBefore(p1, p2) =>
                Key[options[p1].terms] <= Key[options[p2].terms]
           /\ \A p1, p2 \in DOMAIN options :
                p1 # p2 => RankedBefore(p1, p2) \/ RankedBefore(p2, p1)
           /\ \A p1, p2, p3 \in DOMAIN options :
                RankedBefore(p1, p2) /\ RankedBefore(p2, p3) => RankedBefore(p1, p3)
<1>1. \A p \in DOMAIN options :
        p \in Int /\ Key[options[p].terms] \in Int /\ ListRank(p) \in Int
  BY Rows, LifecycleConstants DEF OptionType, ListRank
<1> HIDE DEF ListRank
<1>2. QED  BY <1>1 DEF RankedBefore

LEMMA RanksOf ==
    ASSUME LifecycleTypeOK, NEW P \in SUBSET DOMAIN options, NEW s, s = Ranked(P)
    PROVE  /\ s \in Seq(OptionType) /\ DOMAIN s = DOMAIN options
           /\ \A p \in DOMAIN options :
                /\ s[p].quote = options[p].quote /\ s[p].offer = options[p].offer
                /\ s[p].terms = options[p].terms
                /\ s[p].exists => options[p].exists
                /\ p \notin P => s[p] = options[p]
           /\ RanksFit(P, s)
<1> DEFINE Before(p) == {p2 \in P : RankedBefore(p2, p)}
           Place(p) == Cardinality(Before(p)) + 1
<1>1. options \in Seq(OptionType) /\ P \subseteq DOMAIN options  BY DEF LifecycleTypeOK
<1>2. IsFiniteSet(P)
  <2>1. DOMAIN options = 1 .. Len(options) /\ Len(options) \in Nat  BY Rows
  <2>2. IsFiniteSet(DOMAIN options)  BY <2>1, FS_Interval
  <2>3. QED  BY <1>1, <2>2, FS_Subset
<1>3. \A p : IsFiniteSet(Before(p)) /\ Cardinality(Before(p)) \in Nat
  BY <1>2, FS_Subset, FS_CardinalityType
<1>4. ASSUME NEW p1 \in P, NEW p2 \in P, RankedBefore(p1, p2)
      PROVE  Place(p1) < Place(p2)
  <2>1. Before(p1) \subseteq Before(p2)  BY <1>1, <1>4, RankingOrder
  <2>2. p1 \in Before(p2) /\ p1 \notin Before(p1)  BY <1>1, <1>4, RankingOrder
  <2> HIDE DEF Before
  <2>3. Cardinality(Before(p1)) <= Cardinality(Before(p2))
        /\ Cardinality(Before(p1)) # Cardinality(Before(p2))
    BY <1>3, <2>1, <2>2, FS_Subset
  <2>4. QED  BY <1>3, <2>3
<1>5. s = [p \in DOMAIN options |->
            IF p \in P THEN [options[p] EXCEPT !.rank = Place(p)] ELSE options[p]]
  BY DEF Ranked
<1>6. \A p : Place(p) \in Nat  BY <1>3
<1> HIDE DEF Place
<1>7. ASSUME NEW p \in DOMAIN options
      PROVE  /\ s[p] \in OptionType
             /\ s[p].quote = options[p].quote /\ s[p].offer = options[p].offer
             /\ s[p].terms = options[p].terms
             /\ s[p].exists => options[p].exists
             /\ p \notin P => s[p] = options[p]
             /\ p \in P => s[p].rank = Place(p)
  <2>1. options[p] \in OptionType  BY Rows
  <2>2. CASE p \in P
    <3>1. s[p] = [options[p] EXCEPT !.rank = Place(p)]  BY <1>5, <2>2
    <3>2. QED  BY <1>6, <2>1, <2>2, <3>1 DEF OptionType
  <2>3. CASE p \notin P
    <3>1. s[p] = options[p]  BY <1>5, <2>3
    <3>2. QED  BY <2>1, <2>3, <3>1
  <2>4. QED  BY <2>2, <2>3
<1>8. s \in Seq(OptionType) /\ DOMAIN s = DOMAIN options
  <2>1. s = [p \in DOMAIN options |-> s[p]]  BY <1>5
  <2>2. QED  BY <1>1, <1>7, <2>1, Mapped
<1>9. RanksFit(P, s)
  <2>1. SUFFICES ASSUME NEW p1 \in P, NEW p2 \in P
                 PROVE  /\ s[p1].rank # NoValue
                        /\ s[p1].rank = s[p2].rank => p1 = p2
                        /\ s[p1].rank < s[p2].rank =>
                            Key[s[p1].terms] <= Key[s[p2].terms]
    BY DEF RanksFit
  <2>2. /\ s[p1].rank = Place(p1) /\ s[p2].rank = Place(p2)
        /\ s[p1].terms = options[p1].terms /\ s[p2].terms = options[p2].terms
    BY <1>1, <1>7
  <2>3. Place(p1) # NoValue  BY <1>6, LifecycleConstants
  <2>4. p1 = p2 \/ RankedBefore(p1, p2) \/ RankedBefore(p2, p1)  BY <1>1, RankingOrder
  <2>5. Place(p1) = Place(p2) => p1 = p2  BY <1>4, <1>6, <2>4
  <2>6. Place(p1) < Place(p2) => RankedBefore(p1, p2)  BY <1>4, <1>6, <2>4
  <2>7. RankedBefore(p1, p2) => Key[options[p1].terms] <= Key[options[p2].terms]
    BY <1>1, RankingOrder
  <2>8. QED  BY <2>2, <2>3, <2>5, <2>6, <2>7
<1>10. QED  BY <1>7, <1>8, <1>9

LEMMA RankQuoteStep ==
    ASSUME LifecycleInv, NEW q \in DOMAIN quotes, RankQuote(q)
    PROVE  LifecycleInv'
<1> DEFINE P == Available(q)
           s == Ranked(P)
<1>1. /\ ~Awarded(q) /\ P # {} /\ options' = s
      /\ quotes' = [quotes EXCEPT ![q].status = "RANKED"]
      /\ UNCHANGED <<offers, awards, policy>>
  BY DEF RankQuote
<1>2. LifecycleTypeOK  BY DEF LifecycleInv
<1>3. P \in SUBSET DOMAIN options /\ \A p \in P : options[p].exists /\ options[p].quote = q
  BY DEF Available, OptionsOf
<1>4. quotes[q].status \in OpenStatuses
  <2>1. quotes[q] \in QuoteType  BY <1>2, Rows
  <2>2. quotes[q].status \notin {"DRAFT", "DELETED"}
    BY <1>1, <1>3 DEF LifecycleInv, NothingOutlivesItsQuote
  <2>3. QED  BY <1>1, <2>1, <2>2 DEF QuoteType, Awarded
<1> HIDE DEF P
<1>5. /\ s \in Seq(OptionType) /\ DOMAIN s = DOMAIN options
      /\ \A p \in DOMAIN options :
            /\ s[p].quote = options[p].quote /\ s[p].offer = options[p].offer
            /\ s[p].terms = options[p].terms
            /\ s[p].exists => options[p].exists
            /\ p \notin P => s[p] = options[p]
      /\ RanksFit(P, s)
  BY <1>2, <1>3, RanksOf
<1> HIDE DEF s
<1>6. \A p \in DOMAIN options : options[p].quote # q => options'[p] = options[p]
  BY <1>1, <1>3, <1>5
<1>7. Available(q)' \subseteq P
  <2>1. SUFFICES ASSUME NEW p \in Available(q)'  PROVE p \in P
    OBVIOUS
  <2>2. /\ p \in DOMAIN options' /\ options'[p].exists /\ options'[p].quote = q
        /\ options'[p].offer # NoValue => offers[options'[p].offer].status = "SUBMITTED"
    BY <1>1 DEF Available, OptionsOf
  <2>3. QED  BY <1>1, <1>5, <2>2 DEF P, Available, OptionsOf
<1>8. RanksFit(Available(q)', options')  BY <1>1, <1>5, <1>7 DEF RanksFit
<1>9. QED  BY <1>1, <1>4, <1>5, <1>6, <1>8, QuotePriced

(***************************************************************************)
(* Awards                                                                  *)
(***************************************************************************)

LEMMA AwardOptionStep ==
    ASSUME LifecycleInv, NEW q \in DOMAIN quotes, NEW p \in DOMAIN options,
           NEW identity \in Identities \cup {NoValue},
           NEW request \in RequestRefs \cup {NoValue},
           AwardOption(q, p, identity, request)
    PROVE  LifecycleInv'
<1> DEFINE award == [quote |-> q, option |-> p, terms |-> options[p].terms,
                     identity |-> identity, request |-> request]
           marked == [quotes[q] EXCEPT !.status = "AWARDED"]
           row == [marked EXCEPT !.awarded = p]
           n == Len(awards) + 1
<1>1. /\ IdentityFree(q, identity) /\ ~Awarded(q) /\ p \in Available(q)
      /\ awards' = Append(awards, award)
      /\ quotes' = [quotes EXCEPT ![q].status = "AWARDED", ![q].awarded = p]
      /\ offers' = offers /\ options' = options /\ policy' = policy
  BY DEF AwardOption
<1>2. /\ LifecycleTypeOK /\ quotes \in Seq(QuoteType) /\ quotes[q] \in QuoteType
      /\ awards \in Seq(AwardType) /\ options[p] \in OptionType
      /\ q \in Nat /\ p \in Nat /\ p # NoValue
  BY Rows, LifecycleConstants DEF LifecycleInv, LifecycleTypeOK
<1>3. options[p].exists /\ options[p].quote = q
      /\ (options[p].offer # NoValue => offers[options[p].offer].status = "SUBMITTED")
  BY <1>1 DEF Available, OptionsOf
<1>4. quotes[q].status \in OpenStatuses
  <2>1. quotes[q].status \notin {"DRAFT", "DELETED"}
    BY <1>3 DEF LifecycleInv, NothingOutlivesItsQuote
  <2>2. QED  BY <1>1, <1>2, <2>1 DEF QuoteType, Awarded
<1>5. /\ award \in AwardType /\ award.quote = q /\ award.option = p
      /\ award.terms = options[p].terms /\ award.identity = identity
  BY <1>2 DEF AwardType, OptionType
<1> HIDE DEF award
<1>6. marked \in QuoteType /\ marked.status = "AWARDED" /\ marked.number = quotes[q].number
  BY <1>2 DEF QuoteType
<1>7. quotes' = [quotes EXCEPT ![q] = row]  BY <1>1, <1>2 DEF QuoteType
<1> HIDE DEF marked
<1>8. /\ row \in QuoteType /\ row.status = "AWARDED" /\ row.awarded = p
      /\ row.number = quotes[q].number
  BY <1>2, <1>6 DEF QuoteType
<1> HIDE DEF row
<1>9. /\ quotes' \in Seq(QuoteType) /\ DOMAIN quotes' = DOMAIN quotes
      /\ \A r \in DOMAIN quotes : quotes'[r] = IF r = q THEN row ELSE quotes[r]
  BY <1>2, <1>7, <1>8, Replaced
<1>10. /\ awards' \in Seq(AwardType) /\ DOMAIN awards' = DOMAIN awards \cup {n}
       /\ n \notin DOMAIN awards /\ awards'[n] = award
       /\ \A a \in DOMAIN awards : awards'[a] = awards[a]
  BY <1>1, <1>2, <1>5, Appended
<1> HIDE DEF n
<1>11. LifecycleTypeOK'  BY <1>1, <1>2, <1>9, <1>10 DEF LifecycleTypeOK
<1>12. ReferencesFit'
  <2>1. \A a \in DOMAIN awards' :
            awards'[a].quote \in DOMAIN quotes /\ awards'[a].option \in DOMAIN options
    BY <1>5, <1>10 DEF LifecycleInv, ReferencesFit
  <2>2. QED  BY <1>1, <1>9, <2>1 DEF LifecycleInv, ReferencesFit
<1>13. NothingOutlivesItsQuote'
  BY <1>1, <1>8, <1>9 DEF LifecycleInv, NothingOutlivesItsQuote, ReferencesFit
<1>14. RequestNumbersUnique'
  <2>1. \A r \in DOMAIN quotes :
            /\ quotes'[r].number = quotes[r].number
            /\ quotes'[r].status # "DELETED" => quotes[r].status # "DELETED"
    BY <1>4, <1>8, <1>9 DEF OpenStatuses
  <2>2. QED  BY <1>9, <2>1, NumbersKept
<1>15. AwardIsWhole /\ AwardedTermsKept /\ RouteAwardedOnce
  BY DEF LifecycleInv, AwardsFit
<1>16. AwardIsWhole'
  <2>1. AwardsOf(q) = {}  BY <1>1, <1>15 DEF AwardIsWhole, Awarded
  <2>2. AwardsOf(q)' = {n}  BY <1>5, <1>10, <2>1 DEF AwardsOf
  <2>3. \A r : r # q => AwardsOf(r)' = AwardsOf(r)  BY <1>5, <1>10 DEF AwardsOf
  <2>4. \A r \in DOMAIN quotes : \A a \in AwardsOf(r) : awards'[a] = awards[a]
    BY <1>10 DEF AwardsOf
  <2>5. SUFFICES ASSUME NEW r \in DOMAIN quotes
                 PROVE  /\ quotes'[r].status = "AWARDED" <=> quotes'[r].awarded # NoValue
                        /\ quotes'[r].awarded # NoValue <=> AwardsOf(r)' # {}
                        /\ \A a \in AwardsOf(r)' :
                            AwardsOf(r)' = {a} /\ awards'[a].option = quotes'[r].awarded
    BY <1>9 DEF AwardIsWhole
  <2>6. CASE r = q  BY <1>2, <1>5, <1>8, <1>9, <1>10, <2>2, <2>6
  <2>7. CASE r # q  BY <1>9, <1>15, <2>3, <2>4, <2>7 DEF AwardIsWhole
  <2>8. QED  BY <2>6, <2>7
<1>17. AwardedTermsKept'
  <2>1. SUFFICES ASSUME NEW a \in DOMAIN awards'
                 PROVE  LET option == options[awards'[a].option]
                        IN  /\ option.exists /\ option.quote = awards'[a].quote
                            /\ option.terms = awards'[a].terms
                            /\ option.offer # NoValue =>
                                /\ offers[option.offer].status = "SUBMITTED"
                                /\ offers[option.offer].terms = awards'[a].terms
    BY <1>1 DEF AwardedTermsKept
  <2>2. CASE a = n
    <3>1. options[p].offer # NoValue => options[p].terms = offers[options[p].offer].terms
      BY <1>3 DEF LifecycleInv, ReferencesFit
    <3>2. QED  BY <1>3, <1>5, <1>10, <2>2, <3>1
  <2>3. CASE a # n  BY <1>10, <1>15, <2>3 DEF AwardedTermsKept
  <2>4. QED  BY <2>2, <2>3
<1>18. RouteAwardedOnce'
  <2>1. ASSUME NEW a \in DOMAIN awards', NEW b \in DOMAIN awards',
               awards'[a].identity # NoValue, awards'[a].identity = awards'[b].identity
        PROVE  a = b
    <3>1. CASE a = n /\ b # n  BY <1>1, <1>5, <1>10, <2>1, <3>1 DEF IdentityFree
    <3>2. CASE a # n /\ b = n  BY <1>1, <1>5, <1>10, <2>1, <3>2 DEF IdentityFree
    <3>3. CASE a # n /\ b # n  BY <1>10, <1>15, <2>1, <3>3 DEF RouteAwardedOnce
    <3>4. QED  BY <3>1, <3>2, <3>3
  <2>2. QED  BY <2>1 DEF RouteAwardedOnce
<1>19. RankingIsCurrent'
  <2>1. \A r \in DOMAIN quotes' : quotes'[r].status = "RANKED" =>
            r \in DOMAIN quotes /\ quotes[r].status = "RANKED"
    BY <1>8, <1>9
  <2>2. \A r : Available(r)' = Available(r)  BY <1>1 DEF Available, OptionsOf
  <2>3. QED  BY <1>1, <2>1, <2>2, RankingKept
<1>20. QED
  BY <1>11, <1>12, <1>13, <1>14, <1>16, <1>17, <1>18, <1>19 DEF LifecycleInv, AwardsFit

LEMMA LinkRouteStep ==
    ASSUME LifecycleInv, NEW q \in DOMAIN quotes, NEW p \in DOMAIN options,
           NEW identity \in Identities \cup {NoValue},
           NEW request \in RequestRefs \cup {NoValue},
           LinkRoute(q, p, identity, request)
    PROVE  LifecycleInv'
<1>1. PICK a \in DOMAIN awards :
        awards' = [awards EXCEPT ![a].identity = identity, ![a].request = request]
  BY DEF LinkRoute
<1> DEFINE linked == [awards[a] EXCEPT !.identity = identity]
           row == [linked EXCEPT !.request = request]
<1>2. /\ identity # NoValue /\ IdentityFree(q, identity)
      /\ quotes' = quotes /\ offers' = offers /\ options' = options /\ policy' = policy
  BY DEF LinkRoute
<1>3. LifecycleTypeOK /\ awards \in Seq(AwardType) /\ awards[a] \in AwardType
  BY Rows DEF LifecycleInv, LifecycleTypeOK
<1>4. linked \in AwardType /\ linked.identity = identity /\ linked.quote = awards[a].quote
      /\ linked.option = awards[a].option /\ linked.terms = awards[a].terms
  BY <1>3 DEF AwardType
<1>5. awards' = [awards EXCEPT ![a] = row]  BY <1>1, <1>3 DEF AwardType
<1> HIDE DEF linked
<1>6. row \in AwardType /\ row.identity = identity /\ row.quote = awards[a].quote
      /\ row.option = awards[a].option /\ row.terms = awards[a].terms
  BY <1>4 DEF AwardType
<1> HIDE DEF row
<1>7. /\ awards' \in Seq(AwardType) /\ DOMAIN awards' = DOMAIN awards
      /\ \A b \in DOMAIN awards : awards'[b] = IF b = a THEN row ELSE awards[b]
  BY <1>3, <1>5, <1>6, Replaced
<1>8. \A b \in DOMAIN awards :
        /\ awards'[b].quote = awards[b].quote /\ awards'[b].option = awards[b].option
        /\ awards'[b].terms = awards[b].terms
  BY <1>6, <1>7
<1>9. LifecycleTypeOK'  BY <1>2, <1>3, <1>7 DEF LifecycleTypeOK
<1>10. ReferencesFit'  BY <1>2, <1>7, <1>8 DEF LifecycleInv, ReferencesFit
<1>11. NothingOutlivesItsQuote'  BY <1>2 DEF LifecycleInv, NothingOutlivesItsQuote
<1>12. RequestNumbersUnique'  BY <1>2, NumbersKept
<1>13. AwardIsWhole /\ AwardedTermsKept /\ RouteAwardedOnce
  BY DEF LifecycleInv, AwardsFit
<1>14. AwardIsWhole'
  <2>1. \A r : AwardsOf(r)' = AwardsOf(r)  BY <1>7, <1>8 DEF AwardsOf
  <2>2. \A r : \A b \in AwardsOf(r) : awards'[b].option = awards[b].option
    BY <1>8 DEF AwardsOf
  <2>3. QED  BY <1>2, <1>13, <2>1, <2>2 DEF AwardIsWhole
<1>15. AwardedTermsKept'  BY <1>2, <1>7, <1>8, <1>13 DEF AwardedTermsKept
<1>16. RouteAwardedOnce'
  <2>1. ASSUME NEW b \in DOMAIN awards, NEW c \in DOMAIN awards,
               awards'[b].identity # NoValue, awards'[b].identity = awards'[c].identity
        PROVE  b = c
    <3>1. CASE b = a /\ c # a  BY <1>2, <1>6, <1>7, <2>1, <3>1 DEF IdentityFree
    <3>2. CASE b # a /\ c = a  BY <1>2, <1>6, <1>7, <2>1, <3>2 DEF IdentityFree
    <3>3. CASE b # a /\ c # a  BY <1>7, <1>13, <2>1, <3>3 DEF RouteAwardedOnce
    <3>4. QED  BY <3>1, <3>2, <3>3
  <2>2. QED  BY <1>7, <2>1 DEF RouteAwardedOnce
<1>17. RankingIsCurrent'
  <2>1. \A r : Available(r)' = Available(r)  BY <1>2 DEF Available, OptionsOf
  <2>2. QED  BY <1>2, <2>1, RankingKept
<1>18. QED
  BY <1>9, <1>10, <1>11, <1>12, <1>14, <1>15, <1>16, <1>17 DEF LifecycleInv, AwardsFit

(***************************************************************************)
(* The invariant                                                           *)
(***************************************************************************)

LEMMA LifecycleInitially ==
    LifecycleInit => LifecycleInv
<1> SUFFICES ASSUME LifecycleInit  PROVE LifecycleInv
  OBVIOUS
<1>1. /\ DOMAIN quotes = {} /\ DOMAIN offers = {} /\ DOMAIN options = {} /\ DOMAIN awards = {}
      /\ policy \in Policies
  BY DEF LifecycleInit
<1>2. LifecycleTypeOK  BY DEF LifecycleInit, LifecycleTypeOK
<1>3. ReferencesFit /\ NothingOutlivesItsQuote /\ RequestNumbersUnique /\ RankingIsCurrent
  BY <1>1 DEF ReferencesFit, NothingOutlivesItsQuote, RequestNumbersUnique, RankingIsCurrent
<1>4. AwardsFit
  BY <1>1 DEF AwardsFit, AwardIsWhole, AwardedTermsKept, RouteAwardedOnce
<1>5. QED  BY <1>2, <1>3, <1>4 DEF LifecycleInv

LEMMA TablesUnchanged ==
    ASSUME LifecycleInv, UNCHANGED <<quotes, offers, options, awards>>, policy' \in Policies
    PROVE  LifecycleInv'
<1>1. LifecycleTypeOK'  BY DEF LifecycleInv, LifecycleTypeOK
<1>2. ReferencesFit' /\ NothingOutlivesItsQuote' /\ RequestNumbersUnique'
  BY DEF LifecycleInv, ReferencesFit, NothingOutlivesItsQuote, RequestNumbersUnique
<1>3. AwardsFit'  BY AwardsKept
<1>4. RankingIsCurrent'
  <2>1. \A r : Available(r)' = Available(r)  BY DEF Available, OptionsOf
  <2>2. QED  BY <2>1, RankingKept
<1>5. QED  BY <1>1, <1>2, <1>3, <1>4 DEF LifecycleInv

LEMMA LifecycleStep ==
    LifecycleInv /\ [LifecycleNext]_quoteVars => LifecycleInv'
<1> SUFFICES ASSUME LifecycleInv, [LifecycleNext]_quoteVars  PROVE LifecycleInv'
  OBVIOUS
<1>1. CASE \E p \in Policies : SetPolicy(p)  BY <1>1, TablesUnchanged DEF SetPolicy
<1>2. CASE \E number \in Numbers \cup {NoValue} : CreateQuote(number)
  BY <1>2, CreateQuoteStep
<1>3. ASSUME NEW q \in DOMAIN quotes, QuoteStep(q)  PROVE LifecycleInv'
  <2>1. CASE \E number \in Numbers \cup {NoValue, quotes[q].number},
                s \in {"DRAFT", "REQUESTED"} : UpdateDraft(q, number, s)
    BY <2>1, UpdateDraftStep
  <2>2. CASE \E t \in Terms : CreateOffer(q, t)  BY <2>2, CreateOfferStep
  <2>3. CASE \E outcome \in Outcomes, layer \in BOOLEAN : RateQuote(q, outcome, layer)
    BY <2>3, RateQuoteStep
  <2>4. CASE RankQuote(q)  BY <2>4, RankQuoteStep
  <2>5. CASE \E t \in Terms : RateAndRankQuote(q, t)  BY <2>5, RateAndRankQuoteStep
  <2>6. CASE \E p \in DOMAIN options, identity \in Identities \cup {NoValue},
                request \in RequestRefs \cup {NoValue} :
                AwardOption(q, p, identity, request) \/ LinkRoute(q, p, identity, request)
    BY <2>6, AwardOptionStep, LinkRouteStep
  <2>7. CASE DeleteQuote(q)  BY <2>7, DeleteQuoteStep
  <2>8. QED  BY <1>3, <2>1, <2>2, <2>3, <2>4, <2>5, <2>6, <2>7 DEF QuoteStep
<1>4. CASE \E o \in DOMAIN offers : (\E t \in Terms : UpdateOffer(o, t)) \/ WithdrawOffer(o)
  BY <1>4, UpdateOfferStep, WithdrawOfferStep
<1>5. CASE UNCHANGED quoteVars
  BY <1>5, TablesUnchanged DEF quoteVars, LifecycleInv, LifecycleTypeOK
<1>6. QED  BY <1>1, <1>2, <1>3, <1>4, <1>5 DEF LifecycleNext

\* The strengthened invariant holds in every reachable state.
THEOREM LifecycleInvariant == LifecycleSpec => []LifecycleInv
BY LifecycleInitially, LifecycleStep, PTL DEF LifecycleSpec

\* Quotes, offers, options and awards always have their types, no offer or
\* option outlives its quote, and no two requests share a number.
THEOREM LifecycleIsSound == LifecycleSpec => []LifecycleSound
<1>1. LifecycleInv => LifecycleSound  BY DEF LifecycleInv, LifecycleSound
<1>2. QED  BY <1>1, LifecycleInvariant, PTL

\* A quote is awarded as a whole and once, however often and with whichever
\* route an award is sent (award_quote_request).
THEOREM AwardsAreWhole == LifecycleSpec => []AwardIsWhole
<1>1. LifecycleInv => AwardIsWhole  BY DEF LifecycleInv, AwardsFit
<1>2. QED  BY <1>1, LifecycleInvariant, PTL

\* What was committed is what the awarded option and its offer still say
\* (update_quote_offer_workspace, withdraw_quote_offer, rate_quote_request).
THEOREM AwardedTermsAreKept == LifecycleSpec => []AwardedTermsKept
<1>1. LifecycleInv => AwardedTermsKept  BY DEF LifecycleInv, AwardsFit
<1>2. QED  BY <1>1, LifecycleInvariant, PTL

\* No executable route has two commitments, whether it came with an award or
\* was linked later (award_quote_request, _award_execution_identity).
THEOREM RoutesAreAwardedOnce == LifecycleSpec => []RouteAwardedOnce
<1>1. LifecycleInv => RouteAwardedOnce  BY DEF LifecycleInv, AwardsFit
<1>2. QED  BY <1>1, LifecycleInvariant, PTL

\* The ranks of a RANKED quote are distinct and in order, for every number of
\* options and every ranking key (rank_quote_request and every handler that
\* changes an offer or an option afterwards).
THEOREM RankingStaysCurrent == LifecycleSpec => []RankingIsCurrent
<1>1. LifecycleInv => RankingIsCurrent  BY DEF LifecycleInv
<1>2. QED  BY <1>1, LifecycleInvariant, PTL
=============================================================================
