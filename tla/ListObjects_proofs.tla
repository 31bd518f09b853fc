------------------------- MODULE ListObjects_proofs -------------------------
(***************************************************************************)
(* Theorems about List, for any keys, any length of a page and any number  *)
(* of them.  The heart is that a page takes the lowest ranks behind the    *)
(* token and that the next token is the highest of these: what other       *)
(* clients leave alone is then on exactly one page.                        *)
(***************************************************************************)
EXTENDS ListObjects, FiniteSetTheorems, TLAPS

-----------------------------------------------------------------------------
(* Lowest and highest ranks.                                               *)

(* A finite set has an extreme member of any total order: a smallest set   *)
(* that had none would still have none without one of its members.         *)
LEMMA ExtremeExists ==
  ASSUME NEW S, IsFiniteSet(S), S # {}, NEW R,
         \A x, y \in S : <<x, y>> \in R \/ <<y, x>> \in R,
         \A x, y, z \in S : <<x, y>> \in R /\ <<y, z>> \in R => <<x, z>> \in R
  PROVE  \E m \in S : \A s \in S : <<s, m>> \in R
<1> DEFINE Endless == {U \in SUBSET S : U # {} /\ ~ \E m \in U : \A s \in U : <<s, m>> \in R}
<1> SUFFICES ASSUME Endless # {} PROVE FALSE
  BY DEF Endless
<1>1. Endless \subseteq FiniteSubsetsOf(S)
  BY FS_FiniteSubsetsOfFinite
<1>2. PICK U \in Endless : \A V \in Endless : <<V, U>> \notin StrictSubsetOrdering(S)
  <2>1. IsWellFoundedOn(StrictSubsetOrdering(S), FiniteSubsetsOf(S))
    BY FS_StrictSubsetOrderingWellFounded
  <2> HIDE DEF Endless
  <2> QED
    BY <1>1, <2>1, WFMin
<1>3. PICK x \in U : TRUE
  OBVIOUS
<1>4. U \ {x} \in SUBSET S /\ U \ {x} # U
  BY <1>3
<1>5. U \ {x} \notin Endless
  BY <1>2, <1>4 DEF StrictSubsetOrdering
<1>6. CASE U \ {x} = {}
  BY <1>3, <1>6
<1>7. CASE \E m \in U \ {x} : \A s \in U \ {x} : <<s, m>> \in R
  <2>1. PICK m \in U \ {x} : \A s \in U \ {x} : <<s, m>> \in R
    BY <1>7
  <2>2. <<m, x>> \in R \/ <<x, m>> \in R
    BY <1>3, <2>1
  <2>3. CASE <<x, m>> \in R
    BY <1>3, <2>1, <2>3
  <2>4. CASE <<m, x>> \in R
    <3>1. \A s \in U : <<s, x>> \in R
      BY <1>3, <2>1, <2>4
    <3> QED
      BY <1>3, <3>1
  <2> QED
    BY <2>2, <2>3, <2>4
<1> QED
  BY <1>4, <1>5, <1>6, <1>7

LEMMA HighestExists ==
  ASSUME NEW S, IsFiniteSet(S), S \subseteq Nat, S # {}
  PROVE  \E m \in S : \A s \in S : s <= m
<1> DEFINE R == {p \in Nat \X Nat : p[1] <= p[2]}
<1>1. \A x, y \in S : <<x, y>> \in R <=> x <= y
  OBVIOUS
<1>2. \A x, y \in S : <<x, y>> \in R \/ <<y, x>> \in R
  OBVIOUS
<1>3. \A x, y, z \in S : <<x, y>> \in R /\ <<y, z>> \in R => <<x, z>> \in R
  OBVIOUS
<1> HIDE DEF R
<1>4. \E m \in S : \A s \in S : <<s, m>> \in R
  BY <1>2, <1>3, ExtremeExists
<1> QED
  BY <1>1, <1>4

LEMMA LowestKeyExists ==
  ASSUME NEW S \in SUBSET Keys, S # {}
  PROVE  \E l \in S : \A k \in S : l.rank <= k.rank
<1> DEFINE R == {p \in Keys \X Keys : p[2].rank <= p[1].rank}
<1>1. \A x, y \in S : <<x, y>> \in R <=> y.rank <= x.rank
  OBVIOUS
<1>2. \A k \in S : k.rank \in Nat
  BY ConstantsAssumption
<1>3. IsFiniteSet(S)
  BY FS_Subset, ConstantsAssumption
<1>4. \A x, y \in S : <<x, y>> \in R \/ <<y, x>> \in R
  BY <1>2
<1>5. \A x, y, z \in S : <<x, y>> \in R /\ <<y, z>> \in R => <<x, z>> \in R
  BY <1>2
<1> HIDE DEF R
<1>6. \E l \in S : \A k \in S : <<k, l>> \in R
  BY <1>3, <1>4, <1>5, ExtremeExists
<1> QED
  BY <1>1, <1>6

(* The ranks of keys. *)
RanksOf(keys) == {k.rank : k \in keys}

LEMMA RanksAreFinite ==
  ASSUME NEW S \in SUBSET Keys
  PROVE  IsFiniteSet(RanksOf(S)) /\ RanksOf(S) \subseteq Nat
<1> DEFINE f == [k \in S |-> k.rank]
<1>1. f \in Surjection(S, RanksOf(S))
  BY DEF Surjection, RanksOf
<1>2. IsFiniteSet(S)
  BY FS_Subset, ConstantsAssumption
<1> QED
  BY <1>1, <1>2, FS_Surjection, ConstantsAssumption DEF RanksOf

-----------------------------------------------------------------------------
(* A page: the lowest ranks behind the token, and the highest of these.    *)

Below(r) == {s \in RanksOf(Remaining) : s < r}

LEMMA PageRanksAre == PageRanks = {r \in RanksOf(Remaining) : Cardinality(Below(r)) < MaxKeys}
BY DEF PageRanks, Below, RanksOf

LEMMA RemainingRanks ==
  ASSUME TypeOK
  PROVE  /\ Remaining \in SUBSET Keys
         /\ IsFiniteSet(RanksOf(Remaining)) /\ RanksOf(Remaining) \subseteq Nat
         /\ \A r \in RanksOf(Remaining) : r \in Ranks /\ r > token
         /\ PageRanks \subseteq RanksOf(Remaining)
<1>1. Remaining \in SUBSET Keys
  BY DEF TypeOK, Remaining
<1> QED
  BY <1>1, RanksAreFinite, PageRanksAre DEF Remaining, RanksOf, Ranks

LEMMA LowestIsOnPage ==
  ASSUME TypeOK, Remaining # {}
  PROVE  PageRanks # {}
<1>1. PICK l \in Remaining : \A k \in Remaining : l.rank <= k.rank
  BY RemainingRanks, LowestKeyExists
<1>2. l.rank \in RanksOf(Remaining) /\ \A r \in RanksOf(Remaining) : l.rank <= r
  BY <1>1 DEF RanksOf
<1>3. Below(l.rank) = {}
  BY <1>2, RemainingRanks DEF Below
<1>4. Cardinality(Below(l.rank)) < MaxKeys
  BY <1>3, FS_EmptySet, ConstantsAssumption
<1> QED
  BY <1>2, <1>4, PageRanksAre

LEMMA LowerIsOnPage ==
  ASSUME TypeOK, NEW r \in PageRanks, NEW s \in RanksOf(Remaining), s <= r
  PROVE  s \in PageRanks
<1>1. r \in Nat /\ s \in Nat /\ RanksOf(Remaining) \subseteq Nat /\ IsFiniteSet(RanksOf(Remaining))
  BY RemainingRanks
<1>2. Below(s) \in SUBSET Below(r)
  BY <1>1 DEF Below
<1>3. IsFiniteSet(Below(r)) /\ IsFiniteSet(Below(s))
  BY <1>1, FS_Subset DEF Below
<1>4. Cardinality(Below(s)) <= Cardinality(Below(r))
  BY <1>2, <1>3, FS_Subset
<1>5. Cardinality(Below(r)) < MaxKeys
  BY PageRanksAre
<1>6. Cardinality(Below(s)) \in Nat /\ Cardinality(Below(r)) \in Nat
  BY <1>3, FS_CardinalityType
<1> QED
  BY <1>4, <1>5, <1>6, PageRanksAre, ConstantsAssumption

(***************************************************************************)
(* The next token is a rank behind the last one, and the page is all there *)
(* is between the two.                                                     *)
(***************************************************************************)
LEMMA PageUpToToken ==
  ASSUME TypeOK, Remaining # {}
  PROVE  /\ NextToken \in Ranks /\ NextToken > token
         /\ \A k \in Remaining : k \in Page <=> k.rank <= NextToken
<1>1. PageRanks # {} /\ PageRanks \subseteq Nat /\ IsFiniteSet(PageRanks)
  BY LowestIsOnPage, RemainingRanks, FS_Subset
<1>2. \E r \in PageRanks : \A s \in PageRanks : s <= r
  BY <1>1, HighestExists
<1>3. NextToken \in PageRanks /\ \A s \in PageRanks : s <= NextToken
  BY <1>2 DEF NextToken
<1>4. NextToken \in Ranks /\ NextToken > token
  BY <1>3, RemainingRanks
<1>5. ASSUME NEW k \in Remaining PROVE k.rank \in PageRanks <=> k.rank <= NextToken
  <2>1. k.rank \in RanksOf(Remaining)
    BY DEF RanksOf
  <2> QED
    BY <1>3, <2>1, LowerIsOnPage
<1> QED
  BY <1>4, <1>5 DEF Page

-----------------------------------------------------------------------------
(* What a page adds.                                                       *)

NamesOf(listed) == {e.name : e \in listed}

(* Everything on the page that has a name is shown under it by now. *)
LEMMA PageIsShown ==
  ASSUME TypeOK, NEW k \in Page, k.kind # "self"
  PROVE  k.name \in seen \cup NamesOf(NewEntries)
<1>1. CASE k.name \in CommonPrefixes
  <2>1. CASE k.name \in seen
    BY <2>1
  <2>2. CASE k.name \notin seen
    <3>1. [name |-> k.name, dir |-> TRUE] \in NewEntries
      BY <1>1, <2>2 DEF NewEntries, NewDirectories
    <3> QED
      BY <3>1 DEF NamesOf
  <2> QED
    BY <2>1, <2>2
<1>2. CASE k.name \notin CommonPrefixes
  <2> DEFINE SameName == {l \in Contents : l.name = k.name /\ l.kind # "self"}
  <2>1. k \in SameName /\ SameName \in SUBSET Keys
    BY <1>2 DEF CommonPrefixes, Contents, Page, Remaining, TypeOK
  <2>2. PICK l \in SameName : \A m \in SameName : l.rank <= m.rank
    BY <2>1, LowestKeyExists
  <2>3. l \in Contents /\ l.name = k.name /\ l.kind # "self"
    BY <2>2
  <2>4. CASE k.name \in seen
    BY <2>4
  <2>5. CASE k.name \notin seen
    <3>1. Shown(l)
      BY <1>2, <2>2, <2>3, <2>5 DEF Shown, NewDirectories
    <3>2. EntryOf(l) \in NewEntries /\ EntryOf(l).name = k.name
      BY <2>3, <3>1 DEF NewEntries, EntryOf
    <3> QED
      BY <3>2 DEF NamesOf
  <2> QED
    BY <2>4, <2>5
<1> QED
  BY <1>1, <1>2

(* What the page adds was not there, and is there once. *)
LEMMA NewEntriesAre ==
  ASSUME TypeOK, NEW e \in NewEntries
  PROVE  \/ /\ e.name \in NewDirectories /\ e.dir = TRUE
            /\ e = [name |-> e.name, dir |-> TRUE]
         \/ \E k \in Contents : Shown(k) /\ e = EntryOf(k) /\ e.name = k.name
<1>1. CASE e \in [name : NewDirectories, dir : {TRUE}]
  <2>1. e.name \in NewDirectories /\ e.dir = TRUE
    BY <1>1
  <2>2. e = [name |-> e.name, dir |-> e.dir]
    BY <1>1
  <2> QED
    BY <2>1, <2>2
<1>2. CASE e \in {EntryOf(k) : k \in {l \in Contents : Shown(l)}}
  BY <1>2 DEF EntryOf
<1> QED
  BY <1>1, <1>2 DEF NewEntries

LEMMA NewNamesDiffer ==
  ASSUME TypeOK
  PROVE  /\ NewEntries \subseteq Entries
         /\ \A e \in NewEntries : e.name \notin seen
         /\ \A e, d \in NewEntries : d.name = e.name => d = e
<1>1. \A k \in Page : k \in Keys /\ k.rank \in Nat
  BY ConstantsAssumption DEF Page, Remaining, TypeOK
<1>2. NewDirectories \subseteq Names
  BY <1>1 DEF NewDirectories, CommonPrefixes, Rolled, Names
<1>3. \A k \in Contents : k \in Page
  BY DEF Contents
<1>4. ASSUME NEW e \in NewEntries PROVE e \in Entries
  <2>1. CASE e.name \in NewDirectories /\ e = [name |-> e.name, dir |-> TRUE]
    <3>1. e.name \in Names
      BY <1>2, <2>1
    <3>2. [name |-> e.name, dir |-> TRUE] \in Entries
      BY <3>1 DEF Entries
    <3> QED
      BY <2>1, <3>2
  <2>2. CASE \E k \in Contents : Shown(k) /\ e = EntryOf(k)
    <3>1. PICK k \in Contents : Shown(k) /\ e = EntryOf(k)
      BY <2>2
    <3>2. k.name \in Names
      BY <1>1, <1>3, <3>1 DEF Shown, Names
    <3> QED
      BY <3>1, <3>2 DEF Entries, EntryOf
  <2> QED
    BY <2>1, <2>2, NewEntriesAre
<1>5. ASSUME NEW e \in NewEntries PROVE e.name \notin seen
  BY NewEntriesAre DEF NewDirectories, Shown
<1>6. ASSUME NEW k \in Contents, NEW l \in Contents, Shown(k), Shown(l), k.name = l.name
      PROVE  EntryOf(k) = EntryOf(l)
  <2>1. k.rank <= l.rank /\ l.rank <= k.rank
    BY <1>6 DEF Shown
  <2>2. k.rank = l.rank
    BY <1>1, <1>3, <2>1
  <2>3. k.kind = l.kind \/ {k.kind, l.kind} = {"marker", "child"}
    BY <1>1, <1>3, <2>2, ConstantsAssumption
  <2>4. k.kind # "child" /\ l.kind # "child"
    BY DEF Contents, Rolled
  <2> QED
    BY <1>6, <2>3, <2>4 DEF EntryOf
<1>7. ASSUME NEW e \in NewEntries, NEW d \in NewEntries, d.name = e.name PROVE d = e
  <2>1. CASE e.name \in NewDirectories
    BY <1>7, <2>1, NewEntriesAre DEF Shown
  <2>2. CASE e.name \notin NewDirectories
    BY <1>6, <1>7, <2>2, NewEntriesAre
  <2> QED
    BY <2>1, <2>2
<1> QED
  BY <1>4, <1>5, <1>7

-----------------------------------------------------------------------------
(***************************************************************************)
(* The inductive invariant: the names seen are those of the result, and    *)
(* what has been there all along is among them as far as the token has     *)
(* come.                                                                   *)
(***************************************************************************)
ListInv ==
  /\ TypeOK
  /\ pc # "failed" => seen = NamesOf(entries)
  /\ pc = "page" => \A k \in steady : k.kind # "self" /\ k.rank <= token => k.name \in seen
  /\ pc = "done" /\ ~cutShort => \A k \in steady : k.kind # "self" => k.name \in seen

LEMMA ListInit == Init => ListInv
<1> SUFFICES ASSUME Init PROVE ListInv
  OBVIOUS
<1>1. TypeOK /\ pc = "page" /\ seen = {} /\ entries = {} /\ token = 0
  BY DEF Init, TypeOK
<1>2. \A k \in steady : ~(k.rank <= token)
  BY <1>1, ConstantsAssumption DEF TypeOK
<1> QED
  BY <1>1, <1>2 DEF ListInv, NamesOf

LEMMA StepListPage ==
  ASSUME ListInv, NEW tokenGiven \in BOOLEAN, ListPage(tokenGiven)
  PROVE  ListInv'
<1> USE DEF ListInv
<1>1. /\ entries' = entries \cup NewEntries /\ seen' = seen \cup NamesOf(NewEntries)
      /\ UNCHANGED <<apart, bucket, steady>> /\ seen = NamesOf(entries)
  BY DEF ListPage, NamesOf
<1>2. seen' = NamesOf(entries')
  BY <1>1 DEF NamesOf
<1>3. entries' \subseteq Entries /\ seen' \subseteq Names
  <2>1. entries' \subseteq Entries
    BY <1>1, NewNamesDiffer DEF TypeOK
  <2> QED
    BY <1>2, <2>1 DEF NamesOf, Entries
<1>4. ASSUME NEW k \in steady, k.kind # "self", k \in Page \/ k.rank <= token
      PROVE  k.name \in seen'
  BY <1>1, <1>4, PageIsShown DEF ListPage
<1>5. ASSUME NEW k \in steady
      PROVE  k.rank \in Nat /\ (k \in Remaining <=> k.rank > token) /\ token \in Nat
  BY ConstantsAssumption DEF TypeOK, Remaining, Ranks
<1>6. CASE IsTruncated /\ token' = NextToken /\ UNCHANGED <<pc, cutShort>>
  <2>1. Remaining # {}
    BY <1>6 DEF IsTruncated, Page
  <2>2. /\ NextToken \in Ranks
        /\ \A k \in Remaining : k \in Page <=> k.rank <= NextToken
    BY <2>1, PageUpToToken
  <2>3. pc' = "page" /\ token' = NextToken
    BY <1>6 DEF ListPage
  <2>4. ASSUME NEW k \in steady, k.kind # "self", k.rank <= NextToken PROVE k.name \in seen'
    <3>1. k \in Remaining \/ k.rank <= token
      BY <1>5
    <3> QED
      BY <1>4, <2>2, <2>4, <3>1
  <2>5. TypeOK'
    BY <1>1, <1>3, <1>6, <2>2, <2>3 DEF TypeOK
  <2> QED
    BY <1>1, <1>2, <2>3, <2>4, <2>5
<1>7. CASE pc' = "done" /\ cutShort' = IsTruncated /\ token' = token
  <2>1. cutShort' \in BOOLEAN /\ (~cutShort' => Page = Remaining)
    BY <1>7 DEF IsTruncated
  <2>2. ASSUME ~cutShort', NEW k \in steady, k.kind # "self" PROVE k.name \in seen'
    <3>1. k \in Remaining \/ k.rank <= token
      BY <1>5
    <3> QED
      BY <1>4, <2>1, <2>2, <3>1
  <2>3. TypeOK'
    BY <1>1, <1>3, <1>7, <2>1 DEF TypeOK
  <2> QED
    BY <1>1, <1>2, <1>7, <2>2, <2>3
<1> QED
  BY <1>6, <1>7 DEF ListPage

LEMMA ListStep ==
  ASSUME ListInv, [Next]_vars
  PROVE  ListInv'
<1>1. ASSUME NEW tokenGiven \in BOOLEAN, ListPage(tokenGiven) PROVE ListInv'
  BY <1>1, StepListPage
<1>2. CASE PageFails
  BY <1>2 DEF PageFails, ListInv, TypeOK
<1>3. CASE ListAgain
  <2>1. \A k \in bucket : ~(k.rank <= 0)
    BY ConstantsAssumption DEF ListInv, TypeOK
  <2> QED
    BY <1>3, <2>1 DEF ListAgain, ListInv, TypeOK, NamesOf
<1>4. CASE OtherClient
  <2>1. bucket' \subseteq Keys /\ steady' \subseteq bucket' /\ steady' \subseteq steady
    BY <1>4 DEF OtherClient, ListInv, TypeOK
  <2> QED
    BY <1>4, <2>1 DEF OtherClient, ListInv, TypeOK
<1>5. CASE UNCHANGED vars
  BY <1>5 DEF vars, ListInv, TypeOK
<1> QED
  BY <1>1, <1>2, <1>3, <1>4, <1>5 DEF Next

(***************************************************************************)
(* The variables of List keep their types; in particular there always is a *)
(* next token when a page is not the last.                                 *)
(***************************************************************************)
THEOREM TypeCorrect == Spec => []TypeOK
<1>1. ListInv => TypeOK
  BY DEF ListInv
<1> QED
  BY <1>1, ListInit, ListStep, PTL DEF Spec

(***************************************************************************)
(* What was there throughout the listing is shown under its name, on       *)
(* whichever page it fell, whatever other clients stored or deleted        *)
(* between the pages and whether or not the service keeps markers apart.   *)
(***************************************************************************)
THEOREM NothingIsOverlooked == Spec => []NothingOverlooked
<1>1. ListInv => NothingOverlooked
  BY DEF ListInv, NothingOverlooked, Visible, NamesOf
<1> QED
  BY <1>1, ListInit, ListStep, PTL DEF Spec

(***************************************************************************)
(* No page adds a name that is there already, or one name twice: a folder, *)
(* its marker and an object of the same name make one entry.               *)
(***************************************************************************)
THEOREM NamesAreShownOnce == Spec => []NamesOnce
<1>1. ASSUME ListInv, pc = "page", NEW e \in NewEntries
      PROVE  /\ \A d \in entries : d.name # e.name
             /\ \A d \in NewEntries : d.name = e.name => d = e
  <2>1. e.name \notin seen /\ \A d \in NewEntries : d.name = e.name => d = e
    BY <1>1, NewNamesDiffer DEF ListInv
  <2>2. \A d \in entries : d.name \in seen
    BY <1>1 DEF ListInv, NamesOf
  <2> QED
    BY <2>1, <2>2
<1>2. ListInv => NamesOnce
  BY <1>1 DEF NamesOnce
<1> QED
  BY <1>2, ListInit, ListStep, PTL DEF Spec

(***************************************************************************)
(* The token moves forward with every page that is not the last, whatever  *)
(* other clients do: the safety half of ListingEnds.  The ranks are        *)
(* finite, so that a listing whose pages are answered cannot go on for     *)
(* ever.                                                                   *)
(***************************************************************************)
Advances(tokenGiven) == ListPage(tokenGiven) /\ pc' = "page" => token' > token
PagesAdvance == [][\A tokenGiven \in BOOLEAN : Advances(tokenGiven)]_vars

THEOREM TokenMovesForward == Spec => PagesAdvance
<1>1. ASSUME ListInv, NEW tokenGiven \in BOOLEAN, ListPage(tokenGiven), pc' = "page"
      PROVE  token' > token
  <2>1. Remaining # {}
    BY <1>1 DEF ListPage, IsTruncated, Page
  <2>2. token' = NextToken
    BY <1>1 DEF ListPage
  <2> QED
    BY <1>1, <2>1, <2>2, PageUpToToken DEF ListInv
<1>2. ListInv /\ [Next]_vars => [\A tokenGiven \in BOOLEAN : Advances(tokenGiven)]_vars
  BY <1>1 DEF Advances
<1> QED
  BY <1>2, ListInit, ListStep, PTL DEF Spec, PagesAdvance
=============================================================================
