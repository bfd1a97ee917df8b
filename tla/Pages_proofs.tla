---------------------------- MODULE Pages_proofs ----------------------------
(***************************************************************************)
(* What the pages promise, for every set of rows, users, plans, prices and *)
(* terms, and any number of writes on their way.                           *)
(***************************************************************************)
EXTENDS MCPages, FiniteSetTheorems, SequenceTheorems, WellFoundedInduction, TLAPS

-----------------------------------------------------------------------------
(* Sums over a finite set *)

\* A set of numbers that holds zero and each successor holds them all.
LEMMA NatSets ==
  ASSUME NEW S, 0 \in S, \A n \in Nat : n \in S => n + 1 \in S
  PROVE  Nat \subseteq S
<1> DEFINE T == Nat \ S
<1>1. SUFFICES ASSUME T # {} PROVE FALSE
  OBVIOUS
<1>2. PICK x \in T : \A y \in T : ~(<<y, x>> \in OpToRel(<, Nat))
  <2> HIDE DEF T
  <2>1. T \subseteq Nat
    BY DEF T
  <2> QED BY <1>1, <2>1, NatLessThanWellFounded, WFMin
<1>3. x # 0 /\ x - 1 \in Nat /\ x - 1 \in T
  OBVIOUS
<1>4. <<x - 1, x>> \in OpToRel(<, Nat)
  BY <1>3 DEF OpToRel
<1> QED BY <1>2, <1>3, <1>4

\* The function that SumFunction folds f with, by the sets of what is left to add.
IsSum(sum, S, f) ==
  sum = [u \in SUBSET S |->
    IF u = {} THEN 0 ELSE f[CHOOSE x \in u : TRUE] + sum[u \ {CHOOSE x \in u : TRUE}]]

\* The fold of a sum exists.
LEMMA SumExists ==
  ASSUME NEW S, IsFiniteSet(S), NEW f
  PROVE  \E sum : IsSum(sum, S, f)
<1> DEFINE Pick(u) == CHOOSE x \in u : TRUE
           Upto(n) == {u \in SUBSET S : Cardinality(u) <= n}
           Adds(g, n) == \A u \in Upto(n) :
              g[u] = IF u = {} THEN 0 ELSE f[Pick(u)] + g[u \ {Pick(u)}]
           N == {n \in Nat : \E g : g = [u \in Upto(n) |-> g[u]] /\ Adds(g, n)}
<1>1. \A u \in SUBSET S : u # {} =>
        /\ u \ {Pick(u)} \in SUBSET S
        /\ Cardinality(u \ {Pick(u)}) = Cardinality(u) - 1 /\ Cardinality(u) \in Nat
  <2> SUFFICES ASSUME NEW u \in SUBSET S, u # {}
               PROVE  /\ u \ {Pick(u)} \in SUBSET S
                      /\ Cardinality(u \ {Pick(u)}) = Cardinality(u) - 1 /\ Cardinality(u) \in Nat
    OBVIOUS
  <2>1. Pick(u) \in u
    OBVIOUS
  <2>2. IsFiniteSet(u)
    BY FS_Subset
  <2> HIDE DEF Pick
  <2> QED BY <2>1, <2>2, FS_RemoveElement, FS_CardinalityType
<1> HIDE DEF Pick
<1>2. 0 \in N
  <2> DEFINE g == [u \in Upto(0) |-> 0]
  <2>1. \A u \in SUBSET S : Cardinality(u) <= 0 => u = {}
    BY FS_Subset, FS_CardinalityType, FS_EmptySet
  <2>2. g = [u \in Upto(0) |-> g[u]] /\ Adds(g, 0)
    BY <2>1
  <2> QED BY <2>2
<1>3. ASSUME NEW n \in Nat, n \in N PROVE n + 1 \in N
  <2>1. PICK h : h = [u \in Upto(n) |-> h[u]] /\ Adds(h, n)
    BY <1>3
  <2> DEFINE g == [u \in Upto(n + 1) |-> IF u = {} THEN 0 ELSE f[Pick(u)] + h[u \ {Pick(u)}]]
  <2>2. \A u \in Upto(n) : u \in Upto(n + 1) /\ g[u] = h[u]
    <3>1. \A u \in SUBSET S : Cardinality(u) <= n => Cardinality(u) <= n + 1
      <4> SUFFICES ASSUME NEW u \in SUBSET S, Cardinality(u) <= n PROVE Cardinality(u) <= n + 1
        OBVIOUS
      <4>1. Cardinality(u) \in Nat
        BY FS_Subset, FS_CardinalityType
      <4> QED BY <4>1
    <3> QED BY <2>1, <3>1
  <2>3. \A u \in Upto(n + 1) : u # {} => u \ {Pick(u)} \in Upto(n)
    BY <1>1
  <2>4. Adds(g, n + 1)
    BY <2>2, <2>3
  <2>5. g = [u \in Upto(n + 1) |-> g[u]]
    OBVIOUS
  <2> HIDE DEF g, Adds, Upto
  <2> QED BY <2>4, <2>5
<1> HIDE DEF N
<1>4. Nat \subseteq N
  BY <1>2, <1>3, NatSets
<1>5. Cardinality(S) \in Nat /\ \A u \in SUBSET S : Cardinality(u) <= Cardinality(S)
  BY FS_Subset, FS_CardinalityType
<1>6. Upto(Cardinality(S)) = SUBSET S
  BY <1>5
<1>7. PICK g : g = [u \in Upto(Cardinality(S)) |-> g[u]] /\ Adds(g, Cardinality(S))
  BY <1>4, <1>5 DEF N
<1>8. g = [u \in SUBSET S |-> g[u]]
      /\ \A u \in SUBSET S : g[u] = IF u = {} THEN 0 ELSE f[Pick(u)] + g[u \ {Pick(u)}]
  BY <1>6, <1>7
<1>9. g = [u \in SUBSET S |-> IF u = {} THEN 0 ELSE f[Pick(u)] + g[u \ {Pick(u)}]]
  BY <1>8
<1> QED BY <1>9 DEF Pick, IsSum

\* A sum of natural numbers is one.
LEMMA SumNat ==
  ASSUME NEW S, IsFiniteSet(S), NEW f \in [S -> Nat]
  PROVE  SumFunction(f) \in Nat
<1> DEFINE sum == CHOOSE g : IsSum(g, S, f)
<1>1. SumFunction(f) = sum[S]
  <2>1. DOMAIN f = S
    OBVIOUS
  <2> QED BY <2>1, Zenon DEF SumFunction, SumFunctionOnSet, FoldFunctionOnSet, MapThenFoldSet, IsSum
<1>2. IsSum(sum, S, f)
  BY SumExists
<1> HIDE DEF sum
<1> DEFINE N == {n \in Nat : \A u \in SUBSET S : Cardinality(u) <= n => sum[u] \in Nat}
<1>3. \A u \in SUBSET S : Cardinality(u) \in Nat /\ IsFiniteSet(u)
  BY FS_Subset, FS_CardinalityType
<1>4. sum[{}] = 0
  BY <1>2 DEF IsSum
<1>5. 0 \in N
  <2>1. \A u \in SUBSET S : Cardinality(u) <= 0 => u = {}
    BY <1>3, FS_EmptySet
  <2> QED BY <1>4, <2>1
<1>6. ASSUME NEW n \in Nat, n \in N PROVE n + 1 \in N
  <2>0. SUFFICES ASSUME NEW u \in SUBSET S, Cardinality(u) <= n + 1 PROVE sum[u] \in Nat
    OBVIOUS
  <2> SUFFICES ASSUME u # {} PROVE sum[u] \in Nat
    BY <1>4
  <2> DEFINE x == CHOOSE x \in u : TRUE
  <2>1. x \in u
    OBVIOUS
  <2>2. sum[u] = f[x] + sum[u \ {x}]
    BY <1>2 DEF IsSum
  <2> HIDE DEF x
  <2>3. Cardinality(u \ {x}) = Cardinality(u) - 1
    BY <1>3, <2>1, FS_RemoveElement
  <2>4. sum[u \ {x}] \in Nat
    <3>1. Cardinality(u \ {x}) <= n
      BY <1>3, <2>0, <2>3
    <3> QED BY <1>6, <3>1
  <2> QED BY <2>1, <2>2, <2>4
<1> HIDE DEF N
<1>7. Nat \subseteq N
  BY <1>5, <1>6, NatSets
<1> QED BY <1>1, <1>3, <1>7 DEF N

-----------------------------------------------------------------------------
(* Sequences *)

LEMMA Appended ==
  ASSUME NEW S, NEW seq \in Seq(S), NEW w
  PROVE  /\ Append(seq, w) \in Seq(S \cup {w})
         /\ DOMAIN seq \subseteq DOMAIN Append(seq, w)
         /\ \A i \in DOMAIN seq : Append(seq, w)[i] = seq[i]
         /\ \A i \in DOMAIN Append(seq, w) : i \in DOMAIN seq \/ Append(seq, w)[i] = w
         /\ \E i \in DOMAIN Append(seq, w) : Append(seq, w)[i] = w
<1>1. Len(seq) \in Nat /\ DOMAIN seq = 1..Len(seq)
  OBVIOUS
<1>2. Append(seq, w) \in Seq(S \cup {w})
  OBVIOUS
<1>3. Len(Append(seq, w)) = Len(seq) + 1
  OBVIOUS
<1>4. DOMAIN Append(seq, w) = 1..(Len(seq) + 1)
  BY <1>2, <1>3
<1>5. \A i \in 1..Len(seq) : Append(seq, w)[i] = seq[i]
  BY <1>1
<1>6. Append(seq, w)[Len(seq) + 1] = w
  BY <1>1
<1>7. \A i \in 1..(Len(seq) + 1) : i \in 1..Len(seq) \/ i = Len(seq) + 1
  BY <1>1
<1>8. Len(seq) + 1 \in DOMAIN Append(seq, w) /\ DOMAIN seq \subseteq DOMAIN Append(seq, w)
  BY <1>1, <1>4
<1> QED BY <1>1, <1>2, <1>4, <1>5, <1>6, <1>7, <1>8

LEMMA Shifted ==
  ASSUME NEW S, NEW seq \in Seq(S), NEW i \in DOMAIN seq
  PROVE  /\ RemoveAt(seq, i) \in Seq(S)
         /\ Len(seq) \in Nat /\ DOMAIN seq = 1..Len(seq) /\ DOMAIN RemoveAt(seq, i) = 1..(Len(seq) - 1)
         /\ \A k \in 1..(Len(seq) - 1) : RemoveAt(seq, i)[k] = IF k < i THEN seq[k] ELSE seq[k + 1]
<1> DEFINE n == Len(seq)
           r == RemoveAt(seq, i)
           a == SubSeq(seq, 1, i - 1)
           b == SubSeq(seq, i + 1, n)
<1>1. n \in Nat /\ DOMAIN seq = 1..n /\ i \in 1..n
  OBVIOUS
<1>2. a \in Seq(S) /\ Len(a) = i - 1 /\ \A k \in 1..(i - 1) : a[k] = seq[k]
  BY <1>1
<1>3. b \in Seq(S) /\ Len(b) = n - i /\ \A k \in 1..(n - i) : b[k] = seq[k + i]
  <2>1. i + 1 \in Int /\ n \in Int /\ \A k \in (i + 1)..n : seq[k] \in S
    BY <1>1
  <2> HIDE DEF n
  <2>2. /\ b \in Seq(S) /\ Len(b) = IF i + 1 <= n THEN n - (i + 1) + 1 ELSE 0
        /\ \A k \in 1..(n - (i + 1) + 1) : b[k] = seq[(i + 1) + k - 1]
    BY ONLY <2>1, SubSeqProperties
  <2>3. \A k \in 1..(n - i) : (i + 1) + k - 1 = k + i
    BY <1>1
  <2>4. Len(b) = n - i /\ n - (i + 1) + 1 = n - i
    BY <1>1, <2>2
  <2> QED BY ONLY <2>2, <2>3, <2>4
<1>4. r = a \o b
  BY DEF RemoveAt
<1> HIDE DEF a, b, r, n
<1>5. /\ r \in Seq(S) /\ Len(r) = Len(a) + Len(b)
      /\ \A k \in 1..(Len(a) + Len(b)) : r[k] = IF k <= Len(a) THEN a[k] ELSE b[k - Len(a)]
  <2>1. a \in Seq(S) /\ b \in Seq(S)
    BY <1>2, <1>3
  <2>2. /\ a \o b \in Seq(S) /\ Len(a \o b) = Len(a) + Len(b)
        /\ \A k \in 1..(Len(a) + Len(b)) : (a \o b)[k] = IF k <= Len(a) THEN a[k] ELSE b[k - Len(a)]
    BY ONLY <2>1, ConcatProperties
  <2> QED BY ONLY <1>4, <2>2
<1>6. Len(r) = n - 1 /\ DOMAIN r = 1..(n - 1)
  <2>1. Len(r) = n - 1
    BY ONLY <1>1, <1>2, <1>3, <1>5
  <2>2. DOMAIN r = 1..Len(r)
    BY ONLY <1>5
  <2> QED BY ONLY <2>1, <2>2
<1>7. \A k \in 1..(n - 1) : r[k] = IF k < i THEN seq[k] ELSE seq[k + 1]
  <2>1. ASSUME NEW k \in 1..(n - 1), k < i PROVE r[k] = seq[k]
    BY ONLY <1>1, <1>2, <1>3, <1>5, <2>1
  <2>2. ASSUME NEW k \in 1..(n - 1), ~(k < i) PROVE r[k] = seq[k + 1]
    <3>1. k - (i - 1) \in 1..(n - i) /\ (k - (i - 1)) + i = k + 1
      BY ONLY <1>1, <2>2
    <3>2. r[k] = b[k - (i - 1)]
      BY ONLY <1>1, <1>2, <1>3, <1>5, <2>2
    <3> QED BY ONLY <1>3, <3>1, <3>2
  <2> QED BY ONLY <2>1, <2>2
<1> QED BY ONLY <1>1, <1>5, <1>6, <1>7 DEF n, r

LEMMA Removed ==
  ASSUME NEW S, NEW seq \in Seq(S), NEW i \in DOMAIN seq
  PROVE  /\ RemoveAt(seq, i) \in Seq(S)
         /\ \A j \in DOMAIN seq \ {i} : \E k \in DOMAIN RemoveAt(seq, i) : RemoveAt(seq, i)[k] = seq[j]
         /\ \A k \in DOMAIN RemoveAt(seq, i) : \E j \in DOMAIN seq \ {i} : RemoveAt(seq, i)[k] = seq[j]
<1> DEFINE n == Len(seq)
           r == RemoveAt(seq, i)
<1>1. n \in Nat /\ DOMAIN seq = 1..n /\ i \in 1..n
  OBVIOUS
<1>2. r \in Seq(S)
  BY Shifted
<1>3. DOMAIN r = 1..(n - 1)
  BY Shifted
<1>4. \A k \in 1..(n - 1) : r[k] = IF k < i THEN seq[k] ELSE seq[k + 1]
  BY Shifted
<1> HIDE DEF r, n
<1>5. ASSUME NEW j \in DOMAIN seq \ {i} PROVE \E k \in DOMAIN r : r[k] = seq[j]
  <2>1. CASE j < i
    <3>1. j \in DOMAIN r /\ r[j] = seq[j]
      BY <1>1, <1>3, <1>4, <2>1
    <3> QED BY <3>1
  <2>2. CASE j > i
    <3>1. j - 1 \in DOMAIN r /\ r[j - 1] = seq[j]
      BY <1>1, <1>3, <1>4, <2>2
    <3> QED BY <3>1
  <2> QED BY <1>1, <2>1, <2>2
<1>6. ASSUME NEW k \in DOMAIN r PROVE \E j \in DOMAIN seq \ {i} : r[k] = seq[j]
  <2>1. CASE k < i
    <3>1. k \in DOMAIN seq \ {i} /\ r[k] = seq[k]
      BY <1>1, <1>3, <1>4, <2>1
    <3> QED BY <3>1
  <2>2. CASE k >= i
    <3>1. k + 1 \in DOMAIN seq \ {i} /\ r[k] = seq[k + 1]
      BY <1>1, <1>3, <1>4, <2>2
    <3> QED BY <3>1
  <2> QED BY <1>1, <1>3, <2>1, <2>2
<1> QED BY <1>2, <1>5, <1>6 DEF r

LEMMA AsSequence ==
  ASSUME NEW S, NEW n \in Nat, NEW seq \in [1..n -> S]
  PROVE  seq \in Seq(S)
OBVIOUS

\* A sequence is one over its own elements.
LEMMA OwnElements ==
  ASSUME NEW S, NEW seq \in Seq(S)
  PROVE  seq \in Seq({seq[i] : i \in DOMAIN seq})
<1>1. Len(seq) \in Nat /\ seq = [i \in 1..Len(seq) |-> seq[i]] /\ DOMAIN seq = 1..Len(seq)
  OBVIOUS
<1> DEFINE R == {seq[i] : i \in DOMAIN seq}
<1>2. \A i \in 1..Len(seq) : seq[i] \in R
  BY <1>1
<1> HIDE DEF R
<1>3. seq \in [1..Len(seq) -> R]
  BY <1>1, <1>2
<1>4. seq \in Seq(R)
  BY <1>1, <1>3, AsSequence
<1> QED BY <1>4 DEF R

-----------------------------------------------------------------------------
(* The simplified analysis *)

\* The amounts are numbers.
LEMMA SuggestionNat ==
  ASSUME NEW q \in SimpleForms, NEW list \in PriceLists \cup {NoList}
  PROVE  SuggestedCapex(q, list) \in Nat
<1>1. CASE list = NoList
  BY <1>1 DEF SuggestedCapex
<1>2. CASE list # NoList
  <2> DEFINE f == [y \in Types |-> q.stations[y] * list[y].price_brl]
  <2>1. list \in [Types -> [price_brl : Nat \ {0}, power_kw : Nat]] /\ q.stations \in [Types -> 0..MaxQuantity]
    BY <1>2, PriceAssumption DEF SimpleForms
  <2>2. ASSUME NEW y \in Types PROVE q.stations[y] * list[y].price_brl \in Nat
    <3>1. q.stations[y] \in Nat /\ list[y].price_brl \in Nat
      BY <2>1, PriceAssumption
    <3> QED BY <3>1
  <2>3. f \in [Types -> Nat]
    BY <2>2
  <2>4. SuggestedCapex(q, list) = SumFunction(f)
    BY <1>2 DEF SuggestedCapex
  <2> HIDE DEF f
  <2> QED BY <2>3, <2>4, SumNat, PriceAssumption
<1> QED BY <1>1, <1>2

\* The form holds numbers, and unless the user decided otherwise the CAPEX in
\* force is the one suggested last.
PanelInv ==
  /\ s \in SimpleForms /\ configs \in PriceLists \cup {NoList}
  /\ suggestedBefore \in Nat /\ typedCapex \in BOOLEAN
  /\ ~typedCapex => suggestedBefore = 0 \/ EffectiveCapex(s) = suggestedBefore

LEMMA PanelStarts == SimpleInit => PanelInv
<1> SUFFICES ASSUME SimpleInit PROVE PanelInv
  OBVIOUS
<1>1. s \in SimpleForms
  BY PriceAssumption DEF SimpleInit, DEFAULT_SIMPLE, SimpleForms, Modes
<1> QED BY <1>1 DEF PanelInv, SimpleInit

\* A suggestion is what the form then asks for.
LEMMA SuggestionTaken ==
  ASSUME NEW q \in SimpleForms, NEW amount \in Nat
  PROVE  WithSuggestion(q, amount) \in SimpleForms /\ EffectiveCapex(WithSuggestion(q, amount)) = amount
BY DEF SimpleForms, Modes, WithSuggestion, EffectiveCapex

LEMMA PanelStep == PanelInv /\ (SimpleNext \/ UNCHANGED simpleVars) => PanelInv'
<1> SUFFICES ASSUME PanelInv, SimpleNext \/ UNCHANGED simpleVars PROVE PanelInv'
  OBVIOUS
<1> DEFINE amount == SuggestedCapex(s, configs)
<1>0. amount \in Nat
  BY SuggestionNat DEF PanelInv
<1> HIDE DEF amount
<1>1. CASE SuggestCapex
  <2>1. suggestedBefore' = amount /\ s' = WithSuggestion(s, amount) /\ typedCapex' = FALSE /\ configs' = configs
    BY <1>1 DEF SuggestCapex, amount
  <2> QED BY <1>0, <2>1, SuggestionTaken DEF PanelInv
<1>2. CASE ~SuggestionDue(amount) /\ PanelEvent
  <2>1. CASE PricesArrive
    BY <2>1 DEF PanelInv, PricesArrive, formVars
  <2>2. CASE EditTerms
    <3>1. PICK terms \in TermSets : s' = [s EXCEPT !.terms = terms]
      BY <2>2 DEF EditTerms
    <3>2. s' \in SimpleForms /\ EffectiveCapex(s') = EffectiveCapex(s)
      BY <3>1 DEF PanelInv, SimpleForms, EffectiveCapex
    <3> QED BY <2>2, <3>2 DEF PanelInv, EditTerms
  <2>3. CASE UseSuggested
    <3>1. s' = WithSuggestion(s, amount) /\ amount > 0
          /\ typedCapex' = FALSE /\ configs' = configs /\ suggestedBefore' = suggestedBefore
      BY <2>3 DEF UseSuggested, amount
    <3>2. amount = suggestedBefore
      BY <1>2, <3>1 DEF SuggestionDue
    <3> QED BY <1>0, <3>1, <3>2, SuggestionTaken DEF PanelInv
  <2>4. CASE SetCapexMode
    <3>1. PICK m \in Modes : s' = [s EXCEPT !.capex_mode = m]
      BY <2>4 DEF SetCapexMode
    <3>2. s' \in SimpleForms
      BY <3>1 DEF PanelInv, SimpleForms
    <3> QED BY <2>4, <3>2 DEF PanelInv, SetCapexMode
  <2>5. CASE TypeCapex
    <3>1. PICK typed \in Amounts : s' = WithSuggestion(s, typed)
      BY <2>5 DEF TypeCapex
    <3>2. s' \in SimpleForms
      BY <3>1, SuggestionTaken, PriceAssumption DEF PanelInv
    <3> QED BY <2>5, <3>2 DEF PanelInv, TypeCapex
  <2>6. ASSUME NEW y \in Types, UpdateStation(y) PROVE PanelInv'
    <3>1. PICK quantity \in 0..MaxQuantity : s' = [s EXCEPT !.stations[y] = quantity]
      BY <2>6 DEF UpdateStation
    <3>2. s' \in SimpleForms /\ EffectiveCapex(s') = EffectiveCapex(s)
      BY <3>1 DEF PanelInv, SimpleForms, EffectiveCapex
    <3> QED BY <2>6, <3>2 DEF PanelInv, UpdateStation
  <2>7. CASE UNCHANGED <<configs, formVars>>
    BY <2>7 DEF PanelInv, formVars
  <2>8. CASE \/ TypeSimpleName \/ HandleSaveSimple \/ HandleSimplePrint \/ AfterPrint
             \/ \E i \in DOMAIN simpleInFlight, ok \in BOOLEAN : SimpleSaveAnswer(i, ok)
             \/ \E i \in DOMAIN simpleInFlight : PdfRecorded(i)
    BY <2>7, <2>8 DEF TypeSimpleName, HandleSaveSimple, HandleSimplePrint, AfterPrint, SimpleSaveAnswer, PdfRecorded
  <2>9. ASSUME NEW c \in Library, HandleLoadSimple(c) PROVE PanelInv'
    <3>1. s' = c /\ c \in SimpleForms
      BY <2>9, PriceAssumption DEF HandleLoadSimple
    <3> QED BY <2>9, <3>1 DEF PanelInv, HandleLoadSimple
  <2>10. CASE HandleImportSimple
    <3>1. PICK typed \in Amounts : s' = [s EXCEPT !.capex_total = typed, !.capex_mode = "total"]
      BY <2>10 DEF HandleImportSimple
    <3>2. s' \in SimpleForms
      BY <3>1, PriceAssumption DEF PanelInv, SimpleForms, Modes
    <3> QED BY <2>10, <3>2 DEF PanelInv, HandleImportSimple
  <2> QED
    BY <1>2, <2>1, <2>2, <2>3, <2>4, <2>5, <2>6, <2>8, <2>9, <2>10 DEF PanelEvent
<1>3. CASE UNCHANGED simpleVars
  BY <1>3 DEF PanelInv, simpleVars, formVars
<1> QED BY <1>1, <1>2, <1>3 DEF SimpleNext, amount

\* The form keeps to PanelInv whichever page is open.
LEMMA PanelInvariant == Spec => []PanelInv
<1>1. Init => PanelInv
  BY PanelStarts DEF Init
<1>2. PanelInv /\ [Next]_<<pageVars, simpleVars, page>> => PanelInv'
  BY PanelStep DEF Next
<1> QED BY <1>1, <1>2, PTL DEF Spec

\* The CAPEX of the simplified panel follows the stations and the prices, in
\* whatever order prices, stations, mode and projects change: the effect of
\* [suggestedCapex] remembers the last suggestion, and each way to leave it
\* without deciding otherwise keeps the field at that suggestion.
THEOREM SuggestionStays == Spec => []PanelSuggestion
<1>1. PanelInv => PanelSuggestion
  <2> SUFFICES ASSUME PanelInv, SuggestedCapex(s, configs) > 0, ~SuggestionDue(SuggestedCapex(s, configs)), ~typedCapex
               PROVE  EffectiveCapex(s) = SuggestedCapex(s, configs)
    BY DEF PanelSuggestion, SuggestionInForce
  <2>1. SuggestedCapex(s, configs) \in Nat
    BY SuggestionNat DEF PanelInv
  <2> QED BY <2>1 DEF PanelInv, SuggestionDue
<1> QED BY <1>1, PanelInvariant, PTL

\* The power is a number of kW.
LEMMA PowerNat ==
  ASSUME NEW stations \in [Types -> 0..MaxQuantity], NEW list \in PriceLists \cup {NoList}
  PROVE  TotalPower(stations, list) \in Nat
<1>1. CASE ~(list # NoList /\ \E y \in Types : stations[y] > 0)
  BY <1>1 DEF TotalPower
<1>2. CASE list # NoList /\ \E y \in Types : stations[y] > 0
  <2> DEFINE f == [y \in Types |-> stations[y] * list[y].power_kw]
  <2>1. list \in [Types -> [price_brl : Nat \ {0}, power_kw : Nat]]
    BY <1>2, PriceAssumption
  <2>2. ASSUME NEW y \in Types PROVE stations[y] * list[y].power_kw \in Nat
    <3>1. stations[y] \in Nat /\ list[y].power_kw \in Nat
      BY <2>1, PriceAssumption
    <3> QED BY <3>1
  <2>3. f \in [Types -> Nat]
    BY <2>2
  <2>4. TotalPower(stations, list) = SumFunction(f)
    BY <1>2 DEF TotalPower
  <2> HIDE DEF f
  <2> QED BY <2>3, <2>4, SumNat, PriceAssumption
<1> QED BY <1>1, <1>2

\* A product grows with its factor.
LEMMA ProductGrows ==
  ASSUME NEW a \in Int, NEW b \in Int, a <= b, NEW d \in Nat
  PROVE  a * d <= b * d
<1>1. (b - a) \in Nat /\ (b - a) * d \in Nat
  OBVIOUS
<1>2. (b - a) * d = b * d - a * d
  OBVIOUS
<1>3. a * d \in Int /\ b * d \in Int
  OBVIOUS
<1> QED BY <1>1, <1>2, <1>3

\* A larger profit leaves more after its tax.
LEMMA KeepMore ==
  ASSUME NEW p \in Int, NEW q \in Int, p <= q, NEW tax \in 0..100
  PROVE  p - (IF p > 0 THEN (p * tax) \div 100 ELSE 0) <= q - (IF q > 0 THEN (q * tax) \div 100 ELSE 0)
<1>1. CASE q <= 0
  BY <1>1
<1>2. CASE p <= 0 /\ q > 0
  <2>1. q * tax <= 100 * q
    BY <1>2, ProductGrows
  <2>2. (q * tax) \div 100 <= q
    BY <2>1
  <2> QED BY <1>2, <2>2
<1>3. CASE p > 0
  <2>1. (q - p) * tax <= 100 * (q - p)
    <3> DEFINE d == q - p
    <3>1. d \in Nat
      OBVIOUS
    <3> HIDE DEF d
    <3>2. tax * d <= 100 * d
      BY <3>1, ProductGrows
    <3>3. d * tax <= 100 * d
      BY <3>1, <3>2
    <3> QED BY <3>3 DEF d
  <2>2. (q - p) * tax = q * tax - p * tax
    OBVIOUS
  <2> DEFINE m == q * tax
             n == p * tax
  <2>3. m \in Int /\ n \in Int /\ m <= n + 100 * (q - p)
    BY <2>1, <2>2
  <2> HIDE DEF m, n
  <2>4. m \div 100 <= n \div 100 + (q - p)
    BY <2>3
  <2> QED BY <1>3, <2>4 DEF m, n
<1> QED BY <1>1, <1>2, <1>3

\* The profit at occupancy x, in parts that no division rounded.
NetParts(q, list, x, rev, en, sp, tx) ==
  LET kw == TotalPower(q.stations, list) * 360
      fees == q.terms.fee * q.terms.sessions * 30
      pre == rev - en - sp - q.terms.opex IN
  /\ 100 * rev = kw * x * q.terms.tariff + fees * x
  /\ 100 * en = kw * x * q.terms.energy
  /\ 100 * sp = rev * q.terms.split
  /\ NetForOcc(q, list, x) = pre - SimpleTax(q, rev, pre)
  /\ q.terms.regime = "SN" => 100 * tx = rev * q.terms.tax /\ tx = (rev * q.terms.tax) \div 100

LEMMA NetInParts ==
  ASSUME NEW q \in SimpleForms, NEW list \in PriceLists \cup {NoList}, NEW x \in 0..100
  PROVE  \E rev, en, sp, tx \in Int : NetParts(q, list, x, rev, en, sp, tx)
<1> DEFINE P == TotalPower(q.stations, list)
           gross == P * 360 * x * q.terms.tariff + q.terms.fee * q.terms.sessions * 30 * x
           used == P * 360 * x * q.terms.energy
           rev == gross \div 100
           share == rev * q.terms.split
           taxed == rev * q.terms.tax
<1>1. q.stations \in [Types -> 0..MaxQuantity] /\ q.terms \in TermSets /\ q.terms \in Terms
  BY PriceAssumption DEF SimpleForms
<1>2. P \in Nat
  BY <1>1, PowerNat
<1>3. /\ q.terms.tariff \in Int /\ q.terms.fee \in Int /\ q.terms.sessions \in Int /\ q.terms.energy \in Int
      /\ q.terms.split \in Int /\ q.terms.tax \in Int /\ q.terms.opex \in Int
  BY <1>1 DEF Terms
<1>4. gross % 100 = 0 /\ used % 100 = 0 /\ share % 100 = 0 /\ (q.terms.regime = "SN" => taxed % 100 = 0)
  <2>1. gross = Gross(q.stations, list, q.terms, x)
    BY DEF Gross
  <2>2. used = TotalPower(q.stations, list) * 360 * x * q.terms.energy
    OBVIOUS
  <2>3. q.stations \in [Types -> 0..MaxQuantity] /\ list \in PriceLists \cup {NoList} /\ q.terms \in TermSets /\ x \in 0..100
    BY <1>1
  <2> HIDE DEF gross, used
  <2>4. /\ gross % 100 = 0 /\ used % 100 = 0
        /\ ((gross \div 100) * q.terms.split) % 100 = 0
        /\ q.terms.regime = "SN" => ((gross \div 100) * q.terms.tax) % 100 = 0
    <3> DEFINE Divides(stations, prices, terms, occ) ==
                 LET g == Gross(stations, prices, terms, occ) IN
                 /\ g % 100 = 0 /\ (TotalPower(stations, prices) * 360 * occ * terms.energy) % 100 = 0
                 /\ ((g \div 100) * terms.split) % 100 = 0
                 /\ terms.regime = "SN" => ((g \div 100) * terms.tax) % 100 = 0
    <3>1. \A stations \in [Types -> 0..MaxQuantity], prices \in PriceLists \cup {NoList}, terms \in TermSets, occ \in 0..100 :
            Divides(stations, prices, terms, occ)
      BY ONLY ExactTermsAssumption, ZenonT(30)
    <3> HIDE DEF Divides
    <3>2. Divides(q.stations, list, q.terms, x)
      BY ONLY <2>3, <3>1
    <3> QED BY ONLY <2>1, <2>2, <3>2, ZenonT(30) DEF Divides
  <2> QED BY <2>4
<1>5. NetForOcc(q, list, x) =
        (rev - used \div 100 - q.terms.opex - share \div 100)
        - SimpleTax(q, rev, rev - used \div 100 - q.terms.opex - share \div 100)
  BY DEF NetForOcc
<1>6. P * 360 * x \in Int /\ q.terms.fee * q.terms.sessions * 30 * x \in Int
  BY <1>2, <1>3
<1>7. gross \in Int /\ used \in Int
  BY <1>3, <1>6
<1>8. gross = (P * 360) * x * q.terms.tariff + (q.terms.fee * q.terms.sessions * 30) * x
      /\ used = (P * 360) * x * q.terms.energy
  OBVIOUS
<1> HIDE DEF P, gross, used
<1>9. 100 * rev = gross /\ 100 * (used \div 100) = used /\ rev \in Int /\ used \div 100 \in Int
  BY <1>4, <1>7
<1> HIDE DEF rev
<1>10. share \in Int /\ taxed \in Int
  BY <1>3, <1>9
<1>11. share = rev * q.terms.split /\ taxed = rev * q.terms.tax
  OBVIOUS
<1> HIDE DEF share, taxed
<1>12. 100 * (share \div 100) = share /\ share \div 100 \in Int /\ taxed \div 100 \in Int
       /\ (q.terms.regime = "SN" => 100 * (taxed \div 100) = taxed)
  BY <1>4, <1>10
<1> DEFINE en == used \div 100
           sp == share \div 100
           tx == taxed \div 100
<1>13. rev - en - q.terms.opex - sp = rev - en - sp - q.terms.opex
  BY <1>3, <1>9, <1>12
<1>14. NetForOcc(q, list, x) =
         rev - en - sp - q.terms.opex - SimpleTax(q, rev, rev - en - sp - q.terms.opex)
  BY <1>5, <1>13
<1>15. q.terms.regime = "SN" => 100 * tx = rev * q.terms.tax /\ tx = (rev * q.terms.tax) \div 100
  BY <1>11, <1>12
<1>16. 100 * rev = (P * 360) * x * q.terms.tariff + (q.terms.fee * q.terms.sessions * 30) * x
       /\ 100 * en = (P * 360) * x * q.terms.energy /\ 100 * sp = rev * q.terms.split
       /\ rev \in Int /\ en \in Int /\ sp \in Int /\ tx \in Int
  BY <1>8, <1>9, <1>11, <1>12
<1> HIDE DEF en, sp, tx
<1>17. NetParts(q, list, x, rev, en, sp, tx)
  BY <1>14, <1>15, <1>16, Zenon DEF P, NetParts
<1> QED BY <1>16, <1>17

\* What a point of occupancy brings, in ten-thousandths, after w percent more.
Slope(q, list, w) ==
  LET kw == TotalPower(q.stations, list) * 360
      fees == q.terms.fee * q.terms.sessions * 30
      kept == 100 - q.terms.split - w
  IN kw * (q.terms.tariff * kept - 100 * q.terms.energy) + fees * kept

\* Without rounding the profit is in proportion to the occupancy, but for the
\* fixed cost; a tax on the revenue is, too.
Proportional(q, list, x, rev, en, sp, tx) ==
  /\ 10000 * (rev - en - sp) = x * Slope(q, list, 0)
  /\ q.terms.regime = "SN" => 10000 * (rev - en - sp - tx) = x * Slope(q, list, q.terms.tax)

LEMMA NetSlope ==
  ASSUME NEW q \in SimpleForms, NEW list \in PriceLists \cup {NoList}, NEW x \in 0..100,
         NEW rev \in Int, NEW en \in Int, NEW sp \in Int, NEW tx \in Int,
         NetParts(q, list, x, rev, en, sp, tx)
  PROVE  Proportional(q, list, x, rev, en, sp, tx)
<1> DEFINE kw == TotalPower(q.stations, list) * 360
           fees == q.terms.fee * q.terms.sessions * 30
           tariff == q.terms.tariff
           cost == q.terms.energy
           split == q.terms.split
           tax == q.terms.tax
<1>1. q.stations \in [Types -> 0..MaxQuantity] /\ q.terms \in Terms
  BY PriceAssumption DEF SimpleForms
<1>2. tariff \in Int /\ cost \in Int /\ split \in Int /\ tax \in Int
  BY <1>1 DEF Terms
<1>3. kw \in Int
  BY <1>1, PowerNat
<1>4. fees \in Int
  <2>1. q.terms.fee \in Nat /\ q.terms.sessions \in Nat
    BY <1>1 DEF Terms
  <2> QED BY <2>1
<1>5. 100 * rev = kw * x * tariff + fees * x /\ 100 * en = kw * x * cost /\ 100 * sp = rev * split
  BY DEF NetParts
<1>6. q.terms.regime = "SN" => 100 * tx = rev * tax
  BY DEF NetParts
<1>7. Slope(q, list, 0) = kw * (tariff * (100 - split - 0) - 100 * cost) + fees * (100 - split - 0)
      /\ Slope(q, list, tax) = kw * (tariff * (100 - split - tax) - 100 * cost) + fees * (100 - split - tax)
  BY DEF Slope
<1> HIDE DEF kw, fees, tariff, cost, split, tax
<1>8. 10000 * (rev - en - sp) = x * (kw * (tariff * (100 - split) - 100 * cost) + fees * (100 - split))
  <2>1. 10000 * sp = (100 * rev) * split
    BY <1>2, <1>5
  <2>2. 10000 * (rev - en - sp) = (100 * rev) * (100 - split) - 100 * (100 * en)
    BY <1>2, <2>1
  <2>3. (100 * rev) * (100 - split) = (kw * x * tariff + fees * x) * (100 - split)
    BY <1>5
  <2>4. (kw * x * tariff + fees * x) * (100 - split) - 100 * (kw * x * cost)
        = x * (kw * (tariff * (100 - split) - 100 * cost) + fees * (100 - split))
    BY <1>2, <1>3, <1>4
  <2> QED BY <1>5, <2>2, <2>3, <2>4
<1>9. Slope(q, list, 0) = kw * (tariff * (100 - split) - 100 * cost) + fees * (100 - split)
  BY <1>2, <1>7
<1>10. ASSUME q.terms.regime = "SN"
       PROVE  10000 * (rev - en - sp - tx) = x * Slope(q, list, tax)
  <2>1. 10000 * tx = (100 * rev) * tax
    BY <1>2, <1>6, <1>10
  <2>2. (100 * rev) * tax = x * ((kw * tariff + fees) * tax)
    <3>1. (100 * rev) * tax = (kw * x * tariff + fees * x) * tax
      BY <1>5
    <3>2. (kw * x * tariff + fees * x) * tax = x * ((kw * tariff + fees) * tax)
      BY <1>2, <1>3, <1>4
    <3> QED BY <3>1, <3>2
  <2> DEFINE m == kw * (tariff * (100 - split) - 100 * cost) + fees * (100 - split)
             n == (kw * tariff + fees) * tax
  <2>3. Slope(q, list, tax) = m - n /\ m \in Int /\ n \in Int
    BY <1>2, <1>3, <1>4, <1>7
  <2>4. 10000 * (rev - en - sp) = x * m /\ 10000 * tx = x * n
    BY <1>8, <2>1, <2>2
  <2> HIDE DEF m, n
  <2>5. x * (m - n) = x * m - x * n
    BY <2>3
  <2> QED BY <2>3, <2>4, <2>5
<1> QED BY <1>8, <1>9, <1>10 DEF tax, Proportional

\* With a margin no point of occupancy costs anything.
LEMMA SlopeUp ==
  ASSUME NEW q \in SimpleForms, NEW list \in PriceLists \cup {NoList},
         q.terms.split + q.terms.tax <= 100,
         q.terms.tariff * (100 - q.terms.split - q.terms.tax) >= 100 * q.terms.energy,
         NEW w \in Nat, w <= q.terms.tax
  PROVE  Slope(q, list, w) \in Nat
<1> DEFINE kw == TotalPower(q.stations, list) * 360
           fees == q.terms.fee * q.terms.sessions * 30
           tariff == q.terms.tariff
           cost == q.terms.energy
           split == q.terms.split
           tax == q.terms.tax
           kept == 100 - split - w
<1>1. q.stations \in [Types -> 0..MaxQuantity] /\ q.terms \in Terms
  BY PriceAssumption DEF SimpleForms
<1>2. tariff \in Nat /\ cost \in Nat /\ split \in Nat /\ tax \in Nat
  BY <1>1 DEF Terms
<1>3. kw \in Nat
  BY <1>1, PowerNat
<1>4. fees \in Nat
  <2>1. q.terms.fee \in Nat /\ q.terms.sessions \in Nat
    BY <1>1 DEF Terms
  <2> QED BY <2>1
<1>5. Slope(q, list, w) = kw * (tariff * kept - 100 * cost) + fees * kept
  BY DEF Slope
<1>6. split + tax <= 100 /\ tariff * (100 - split - tax) >= 100 * cost /\ w <= tax
  OBVIOUS
<1> HIDE DEF kw, fees, tariff, cost, split, tax
<1>7. kept \in Nat /\ 100 - split - tax \in Int /\ 100 - split - tax <= kept
  BY <1>2, <1>6
<1> HIDE DEF kept
<1>8. tariff * (100 - split - tax) <= tariff * kept
  <2> DEFINE less == 100 - split - tax
  <2> HIDE DEF less
  <2>1. less * tariff <= kept * tariff
    BY <1>2, <1>7, ProductGrows DEF less
  <2>2. less * tariff = tariff * less /\ kept * tariff = tariff * kept
    BY <1>2, <1>7 DEF less
  <2> QED BY <2>1, <2>2 DEF less
<1> DEFINE m == tariff * kept - 100 * cost
<1>9. m \in Nat
  <2>1. tariff * kept \in Int /\ tariff * (100 - split - tax) \in Int
    BY <1>2, <1>7
  <2> QED BY <1>2, <1>6, <1>8, <2>1
<1> HIDE DEF m
<1>10. kw * m + fees * kept \in Nat
  BY <1>3, <1>4, <1>7, <1>9
<1> QED BY <1>5, <1>10 DEF m

\* More occupancy never leaves less, while a kWh leaves a margin.
LEMMA OccupancyPays ==
  ASSUME NEW q \in SimpleForms, NEW list \in PriceLists \cup {NoList},
         q.terms.split + q.terms.tax <= 100,
         q.terms.tariff * (100 - q.terms.split - q.terms.tax) >= 100 * q.terms.energy,
         NEW a \in 0..100, NEW b \in 0..100, a <= b
  PROVE  NetForOcc(q, list, a) <= NetForOcc(q, list, b)
<1> DEFINE tax == q.terms.tax
           opex == q.terms.opex
<1>1. tax \in 0..100 /\ opex \in Nat
  BY PriceAssumption DEF SimpleForms, Terms
<1>2. PICK rev, en, sp, tx \in Int : NetParts(q, list, a, rev, en, sp, tx)
  BY NetInParts
<1>3. PICK rev2, en2, sp2, tx2 \in Int : NetParts(q, list, b, rev2, en2, sp2, tx2)
  BY NetInParts
<1> DEFINE p == rev - en - sp - opex
           p2 == rev2 - en2 - sp2 - opex
<1>4. NetForOcc(q, list, a) = p - SimpleTax(q, rev, p) /\ NetForOcc(q, list, b) = p2 - SimpleTax(q, rev2, p2)
  BY <1>2, <1>3 DEF NetParts
<1>7. Proportional(q, list, a, rev, en, sp, tx) /\ Proportional(q, list, b, rev2, en2, sp2, tx2)
  BY <1>2, <1>3, NetSlope
<1>5. CASE q.terms.regime = "SN"
  <2>1. SimpleTax(q, rev, p) = tx /\ SimpleTax(q, rev2, p2) = tx2
    BY <1>2, <1>3, <1>5 DEF NetParts, SimpleTax
  <2> DEFINE slope == Slope(q, list, tax)
  <2>2. slope \in Nat
    BY <1>1, SlopeUp
  <2>3. 10000 * (rev - en - sp - tx) = a * slope /\ 10000 * (rev2 - en2 - sp2 - tx2) = b * slope
    BY <1>5, <1>7 DEF Proportional
  <2> HIDE DEF slope, tax, opex
  <2>4. a * slope <= b * slope /\ a * slope \in Int /\ b * slope \in Int
    BY <2>2, ProductGrows
  <2> QED BY <1>1, <1>4, <2>1, <2>3, <2>4
<1>6. CASE q.terms.regime # "SN"
  <2> DEFINE zero == 0
             slope == Slope(q, list, zero)
  <2>1. slope \in Nat
    <3>1. zero \in Nat /\ zero <= q.terms.tax
      BY <1>1
    <3> HIDE DEF zero
    <3> QED BY <3>1, SlopeUp
  <2>2. 10000 * (rev - en - sp) = a * slope /\ 10000 * (rev2 - en2 - sp2) = b * slope
    BY <1>7 DEF Proportional
  <2> HIDE DEF slope, tax, opex
  <2>3. a * slope <= b * slope /\ a * slope \in Int /\ b * slope \in Int
    BY <2>1, ProductGrows
  <2>4. p \in Int /\ p2 \in Int /\ p <= p2
    BY <1>1, <2>2, <2>3
  <2>5. SimpleTax(q, rev, p) = (IF p > 0 THEN (p * tax) \div 100 ELSE 0)
        /\ SimpleTax(q, rev2, p2) = (IF p2 > 0 THEN (p2 * tax) \div 100 ELSE 0)
    BY <1>6 DEF SimpleTax, tax
  <2> HIDE DEF p, p2
  <2>6. p - (IF p > 0 THEN (p * tax) \div 100 ELSE 0) <= p2 - (IF p2 > 0 THEN (p2 * tax) \div 100 ELSE 0)
    BY <1>1, <2>4, KeepMore
  <2> QED BY <1>4, <2>5, <2>6
<1> QED BY <1>5, <1>6

\* The cards, the chart, the table and the scenarios of one form agree.
LEMMA FormsProject ==
  ASSUME s \in SimpleForms, configs \in PriceLists \cup {NoList}
  PROVE  ProjectionAgrees
<1> DEFINE net == MonthlyNet(s, configs)
           capex == EffectiveCapex(s)
<1>1. s.stations \in [Types -> 0..MaxQuantity] /\ s.terms \in Terms /\ s.terms.occ \in 0..100
  BY PriceAssumption DEF SimpleForms, Terms
<1>2. capex \in Nat
  BY DEF SimpleForms, EffectiveCapex
<1>3. NetForOcc(s, configs, s.terms.occ) = net
  BY DEF NetForOcc, MonthlyNet, SimpleRevenue, Gross
<1>4. net \in Int
  <2>1. PICK rev, en, sp, tx \in Int : NetParts(s, configs, s.terms.occ, rev, en, sp, tx)
    BY <1>1, NetInParts
  <2> DEFINE pre == rev - en - sp - s.terms.opex
  <2>2. net = pre - SimpleTax(s, rev, pre)
    BY <1>3, <2>1 DEF NetParts
  <2>3. pre \in Int
    BY <1>1 DEF Terms
  <2> HIDE DEF pre, net
  <2>4. s.terms.tax \in Int
    BY <1>1 DEF Terms
  <2>5. SimpleTax(s, rev, pre) \in Int
    BY <2>3, <2>4 DEF SimpleTax
  <2> QED BY <2>2, <2>3, <2>5
<1> DEFINE row == Breakdown(s, configs)
<1>5. row.revenue - row.costs = row.net
  <2> DEFINE revenue == SimpleRevenue(s, configs, s.terms.occ)
             energy == (TotalPower(s.stations, configs) * 360 * s.terms.occ * s.terms.energy) \div 100
             split == (revenue * s.terms.split) \div 100
             opex == s.terms.opex
             costs == energy + opex + split
             pre == revenue - energy - opex - split
  <2>1. row.revenue = revenue /\ row.costs = costs + SimpleTax(s, revenue, revenue - costs) /\ row.net = net
    BY DEF Breakdown
  <2>2. net = pre - SimpleTax(s, revenue, pre)
    BY DEF MonthlyNet
  <2>3. /\ s.terms.tariff \in Int /\ s.terms.fee \in Int /\ s.terms.sessions \in Int /\ s.terms.energy \in Int
        /\ s.terms.split \in Int /\ s.terms.tax \in Int /\ opex \in Int /\ s.terms.occ \in Int
    BY <1>1 DEF Terms
  <2>4. TotalPower(s.stations, configs) \in Int
    BY <1>1, PowerNat
  <2>5. revenue \in Int
    <3>1. Gross(s.stations, configs, s.terms, s.terms.occ) \in Int
      BY <2>3, <2>4 DEF Gross
    <3> QED BY <3>1 DEF SimpleRevenue
  <2>6. energy \in Int
    <3>1. TotalPower(s.stations, configs) * 360 * s.terms.occ * s.terms.energy \in Int
      BY <2>3, <2>4
    <3> QED BY <3>1
  <2> HIDE DEF revenue, energy, opex, net, row
  <2>7. split \in Int
    BY <2>3, <2>5
  <2> HIDE DEF split
  <2>8. revenue - costs = pre /\ pre \in Int /\ costs \in Int
    BY <2>3, <2>5, <2>6, <2>7
  <2> HIDE DEF pre, costs
  <2>9. SimpleTax(s, revenue, pre) \in Int
    BY <2>3, <2>5, <2>8 DEF SimpleTax
  <2>10. row.revenue - row.costs = revenue - costs - SimpleTax(s, revenue, pre)
    BY <2>1, <2>5, <2>8, <2>9
  <2> QED BY <2>1, <2>2, <2>8, <2>10
<1>6. ASSUME NEW y \in 1..5
      PROVE  /\ YearRow(s, configs, y).return = ChartAt(s, net, 12 * y)
             /\ YearRow(s, configs, y).return >= 0 /\ net > 0 <=> PaidBackBy(s, net, 12 * y)
             /\ YearRow(s, configs, y).roi >= 100 /\ capex > 0 => PaidBackBy(s, net, 12 * y)
  <2> DEFINE cum == net * 12 * y
  <2>1. YearRow(s, configs, y).return = cum - capex
        /\ YearRow(s, configs, y).roi = IF capex > 0 THEN (cum * 100) \div capex ELSE 0
    BY DEF YearRow
  <2>2. ChartAt(s, net, 12 * y) = net * (12 * y) - capex
        /\ (PaidBackBy(s, net, 12 * y) <=> net > 0 /\ capex <= net * (12 * y))
    BY DEF ChartAt, PaidBackBy
  <2> HIDE DEF net, capex
  <2>3. cum = net * (12 * y) /\ cum \in Int
    BY <1>4
  <2>4. cum > 0 => net > 0
    <3>1. CASE net <= 0
      <4>1. (0 - net) * (12 * y) \in Nat
        BY <1>4, <3>1
      <4>2. (0 - net) * (12 * y) = 0 - net * (12 * y)
        BY <1>4
      <4> QED BY <2>3, <4>1, <4>2
    <3> QED BY <1>4, <3>1
  <2> HIDE DEF cum
  <2>5. ASSUME (cum * 100) \div capex >= 100, capex > 0 PROVE cum >= capex
    <3> DEFINE roi == (cum * 100) \div capex
    <3>1. roi \in Int /\ capex * roi <= cum * 100
      BY <1>2, <2>3, <2>5
    <3>2. roi >= 100
      BY <2>5
    <3> HIDE DEF roi
    <3>3. 100 * capex <= roi * capex
      BY <1>2, <3>1, <3>2, ProductGrows
    <3>4. roi * capex = capex * roi
      BY <1>2, <3>1
    <3>5. capex * roi \in Int
      BY <1>2, <3>1
    <3> QED BY <1>2, <2>3, <3>1, <3>3, <3>4, <3>5
  <2> QED BY <1>2, <1>4, <2>1, <2>2, <2>3, <2>4, <2>5
<1>7. ASSUME capex > 0 PROVE PaybackCard(s, configs).text = "Sem retorno" => net <= 0
  <2>1. ~(net <= 0 \/ capex = 0) => PaybackCard(s, configs).text # "Sem retorno"
    BY Zenon DEF PaybackCard
  <2>2. capex # 0
    BY <1>2, <1>7
  <2> HIDE DEF net, capex
  <2> QED BY <2>1, <2>2, Zenon
<1>8. ASSUME s.terms.split + s.terms.tax <= 100,
             s.terms.tariff * (100 - s.terms.split - s.terms.tax) >= 100 * s.terms.energy,
             NEW a \in ScenarioOccs(s) \cup {s.terms.occ}, NEW b \in ScenarioOccs(s) \cup {s.terms.occ}, a <= b
      PROVE  NetForOcc(s, configs, a) <= NetForOcc(s, configs, b)
  <2>1. a \in 0..100 /\ b \in 0..100
    BY <1>1 DEF ScenarioOccs, Clamp
  <2> QED BY <1>8, <2>1, OccupancyPays
<1> HIDE DEF net, capex, row
<1> QED BY <1>3, <1>5, <1>6, <1>7, <1>8 DEF ProjectionAgrees, net, capex, row

\* What the simplified panel shows of a project agrees wherever it is computed
\* again, for every list of prices, terms and number of stations: calcSimple,
\* its netForOcc, the breakdown, the chart and the table.
THEOREM ProjectionsAgree == Spec => []PanelProjection
<1>1. PanelInv => PanelProjection
  BY FormsProject DEF PanelInv, PanelProjection
<1> QED BY <1>1, PanelInvariant, PTL

-----------------------------------------------------------------------------
(* Which pages open *)

\* The flags in force are those of the user who is signed in.
AccessInv ==
  page = "access" =>
    /\ DOMAIN ui = {"user", "flags", "flagsOf", "asked", "error", "cached", "route", "collapsed",
                    "drawer", "dismissed"}
    /\ ui.user \in Users \cup {NoUser}
    /\ OwnFlags

LEMMA AccessStep == page = "access" /\ AccessInv /\ AccessNext /\ UNCHANGED page => AccessInv'
<1> SUFFICES ASSUME page = "access", AccessInv, AccessNext, page' = page PROVE AccessInv'
  OBVIOUS
<1> USE DEF AccessInv, OwnFlags, Click, Render
<1>1. ASSUME NEW u \in Users, LogIn(u) PROVE AccessInv'
  BY <1>1 DEF LogIn, ClearSwrCache
<1>2. CASE LogOut
  BY <1>2 DEF LogOut, ClearSwrCache
<1>3. CASE ReloadBrowser
  BY <1>3 DEF ReloadBrowser
<1>4. CASE Revalidate
  BY <1>4 DEF Revalidate
<1>5. CASE FlagsArrive
  BY <1>5 DEF FlagsArrive
<1>6. CASE FlagsFail
  BY <1>6 DEF FlagsFail
<1>7. CASE PlanChanges
  BY <1>7 DEF PlanChanges
<1>8. CASE FollowItem
  BY <1>8 DEF FollowItem
<1>9. CASE ToggleDrawer
  BY <1>9 DEF ToggleDrawer
<1>10. CASE Collapse
  BY <1>10 DEF Collapse
<1>11. CASE DismissTrialBanner
  BY <1>11 DEF DismissTrialBanner
<1>12. CASE Redirect
  BY <1>12 DEF Redirect
<1> QED BY <1>1, <1>2, <1>3, <1>4, <1>5, <1>6, <1>7, <1>8, <1>9, <1>10, <1>11, <1>12 DEF AccessNext

\* Each item of the sidebar asks for the features its page is gated by.
LEMMA GatesMatch ==
  /\ DOMAIN NAV = 1..15
  /\ \A i \in 1..15 : NAV[i].href \in DOMAIN GATES => NAV[i].features = GATES[NAV[i].href] /\ NAV[i].features # {}
<1>1. DOMAIN NAV = 1..15
  BY DEF NAV
<1>2. ASSUME NEW i \in 1..15
      PROVE  NAV[i].href \in DOMAIN GATES => NAV[i].features = GATES[NAV[i].href] /\ NAV[i].features # {}
  <2>1. CASE i = 1
    BY <2>1 DEF NAV, GATES, Item
  <2>2. CASE i = 2
    BY <2>2 DEF NAV, GATES, Item
  <2>3. CASE i = 3
    BY <2>3 DEF NAV, GATES, Item
  <2>4. CASE i = 4
    BY <2>4 DEF NAV, GATES, Item
  <2>5. CASE i = 5
    BY <2>5 DEF NAV, GATES, Item
  <2>6. CASE i = 6
    BY <2>6 DEF NAV, GATES, Item
  <2>7. CASE i = 7
    BY <2>7 DEF NAV, GATES, Item
  <2>8. CASE i = 8
    BY <2>8 DEF NAV, GATES, Item
  <2>9. CASE i = 9
    BY <2>9 DEF NAV, GATES, Item
  <2>10. CASE i = 10
    BY <2>10 DEF NAV, GATES, Item
  <2>11. CASE i = 11
    BY <2>11 DEF NAV, GATES, Item
  <2>12. CASE i = 12
    BY <2>12 DEF NAV, GATES, Item
  <2>13. CASE i = 13
    BY <2>13 DEF NAV, GATES, Item
  <2>14. CASE i = 14
    BY <2>14 DEF NAV, GATES, Item
  <2>15. CASE i = 15
    BY <2>15 DEF NAV, GATES, Item
  <2> QED BY <2>1, <2>2, <2>3, <2>4, <2>5, <2>6, <2>7, <2>8, <2>9, <2>10, <2>11, <2>12, <2>13, <2>14, <2>15
<1> QED BY <1>1, <1>2

\* An item that is offered leads to a page that opens.
LEMMA AllowedOpens ==
  ASSUME NEW i \in DOMAIN NAV, ItemAllowed(NAV[i])
  PROVE  Opens(NAV[i].href)
<1>1. NAV[i].href \in DOMAIN GATES => NAV[i].features = GATES[NAV[i].href] /\ NAV[i].features # {}
  BY GatesMatch
<1> QED BY <1>1 DEF ItemAllowed, Opens, GateOpen

\* Every user may see the own profile.
LEMMA ProfileOpens ==
  ASSUME ui.user \in Users
  PROVE  Opens("profile")
<1>1. ui.user # NoUser /\ ui.user.role \in Everyone
  BY UsersAssumption
<1>2. ROUTE_PERMISSIONS["profile"] = Everyone
  BY DEF ROUTE_PERMISSIONS
<1>3. CanAccess(ui.user, "profile")
  <2>1. "profile" # "admin" /\ "profile" # "leads"
    OBVIOUS
  <2> QED BY <1>1, <1>2, <2>1, Zenon DEF CanAccess
<1>4. "profile" \notin DOMAIN GATES
  BY DEF GATES
<1> QED BY <1>3, <1>4 DEF Opens, GateOpen

\* The least of a set of positions.
LEMMA LeastExists ==
  ASSUME NEW open \in SUBSET (1..15), open # {}
  PROVE  \E i \in open : \A j \in open : i <= j
<1>1. PICK i \in open : \A j \in open : ~(<<j, i>> \in OpToRel(<, Nat))
  <2>1. open \subseteq Nat
    OBVIOUS
  <2>2. IsWellFoundedOn(OpToRel(<, Nat), Nat)
    BY NatLessThanWellFounded
  <2> QED BY <2>1, <2>2, WFMin
<1>2. ASSUME NEW j \in open PROVE i <= j
  <2>1. j \in Nat /\ i \in Nat
    OBVIOUS
  <2>2. j < i => <<j, i>> \in OpToRel(<, Nat)
    BY <2>1 DEF OpToRel
  <2>3. ~(j < i)
    BY <1>1, <2>2, Zenon
  <2> QED BY <2>1, <2>3
<1> QED BY <1>2

\* The sidebar, the gates and the landing on /dashboard judge a page alike, for
\* every user, role, permission and plan, whatever the flags' state, and by the
\* flags that were served for the user who is signed in.
THEOREM AccessConsistent == Spec => []AccessIsConsistent
<1>1. Init => AccessInv
  BY DEF Init, AccessInit, PageInit, AccessInv, OwnFlags
<1>2. AccessInv /\ [Next]_<<pageVars, simpleVars, page>> => AccessInv'
  <2> SUFFICES ASSUME AccessInv, [Next]_<<pageVars, simpleVars, page>>, page = "access" PROVE AccessInv'
    BY DEF Next, AccessInv
  <2>1. CASE AccessNext /\ UNCHANGED page
    BY <2>1, AccessStep
  <2>2. CASE UNCHANGED <<pageVars, simpleVars, page>>
    BY <2>2 DEF AccessInv, OwnFlags, pageVars
  <2> QED BY <2>1, <2>2 DEF Next, PageNext
<1>3. AccessInv => AccessIsConsistent
  <2> SUFFICES ASSUME AccessInv, page = "access" PROVE AccessAgrees
    BY DEF AccessIsConsistent
  <2>1. ItemsOpen
    BY AllowedOpens DEF ItemsOpen, Visible
  <2>2. LandingOpens
    <3> DEFINE open == {i \in DOMAIN NAV : ItemAllowed(NAV[i])}
    <3> SUFFICES ASSUME ui.user # NoUser PROVE Opens(FirstAccessibleRoute(NAV))
      BY DEF LandingOpens
    <3>1. CASE open = {}
      <4>1. FirstAccessibleRoute(NAV) = "profile"
        BY <3>1 DEF FirstAccessibleRoute
      <4> QED BY <4>1, ProfileOpens DEF AccessInv
    <3>2. CASE open # {}
      <4>1. FirstAccessibleRoute(NAV) = NAV[CHOOSE i \in open : \A j \in open : i <= j].href
        BY <3>2 DEF FirstAccessibleRoute
      <4>2. open \in SUBSET (1..15)
        BY GatesMatch
      <4>3. PICK i \in open : i = CHOOSE k \in open : \A j \in open : k <= j
        <5> HIDE DEF open
        <5> QED BY <3>2, <4>2, LeastExists
      <4> QED BY <4>1, <4>3, AllowedOpens
    <3> QED BY <3>1, <3>2
  <2>3. OwnFlags
    BY DEF AccessInv
  <2> QED BY <2>1, <2>2, <2>3 DEF AccessAgrees
<1> QED BY <1>1, <1>2, <1>3, PTL DEF Spec

-----------------------------------------------------------------------------
(* Forms *)

\* The settings: each form that is open was filled in from the row it saves to.
CostFields == {"open", "editing", "values", "of"}
SettingsForms ==
  /\ DOMAIN ui = {"costForm", "alertForm", "creating", "savingAlert", "activating", "hours", "savingHours",
                  "savingOrgSettings"}
  /\ DOMAIN ui.costForm = CostFields /\ DOMAIN ui.alertForm = CostFields
  /\ FormsOfTheirRow

LEMMA SettingsAnswers ==
  ASSUME SettingsForms, NEW q, NEW ok, ui' = SettingsFields(q, ok)
  PROVE  SettingsForms'
<1> USE DEF SettingsForms, FormsOfTheirRow, CostFields
<1>1. CASE q.op = "saveCost"
  <2>1. ui' = [ui EXCEPT !.creating = FALSE, !.costForm = IF ok THEN CancelForm(@) ELSE @]
    BY <1>1, Zenon DEF SettingsFields
  <2> QED BY <2>1 DEF CancelForm, BlankForm
<1>2. CASE q.op = "saveAlert"
  <2>1. ui' = [ui EXCEPT !.savingAlert = FALSE, !.alertForm = IF ok THEN CancelForm(@) ELSE @]
    BY <1>2 DEF SettingsFields
  <2> QED BY <2>1 DEF CancelForm, BlankForm
<1>3. CASE q.op \notin {"saveCost", "saveAlert"}
  <2>1. \/ ui' = [ui EXCEPT !.activating = NewRow] \/ ui' = [ui EXCEPT !.savingHours = FALSE]
        \/ ui' = [ui EXCEPT !.savingOrgSettings = FALSE] \/ ui' = ui
    BY <1>3 DEF SettingsFields
  <2> QED BY <2>1
<1> QED BY <1>1, <1>2, <1>3

LEMMA SettingsFormsStep == SettingsForms /\ SettingsNext => SettingsForms'
<1> SUFFICES ASSUME SettingsForms, SettingsNext PROVE SettingsForms'
  OBVIOUS
<1> USE DEF SettingsForms, FormsOfTheirRow, CostFields, Click, Send, SendAwaiting, Post
<1>1. ASSUME NEW r \in Rows, OpenEdit(r) \/ OpenEditAlert(r) PROVE SettingsForms'
  BY <1>1 DEF OpenEdit, OpenEditAlert, FilledFrom
<1>2. ASSUME NEW r \in Rows, ActivateConfig(r) \/ DeleteConfig(r) \/ ToggleAlert(r) \/ DeleteAlert(r)
      PROVE  SettingsForms'
  BY <1>2 DEF ActivateConfig, DeleteConfig, ToggleAlert, DeleteAlert
<1>3. CASE NewCost \/ CancelCost \/ OpenNewAlert \/ CancelAlert
  <2> USE DEF CancelForm, BlankForm
  <2>1. CASE NewCost
    BY <2>1 DEF NewCost
  <2>2. CASE CancelCost
    BY <2>2 DEF CancelCost
  <2>3. CASE OpenNewAlert
    BY <2>3 DEF OpenNewAlert
  <2>4. CASE CancelAlert
    BY <2>4 DEF CancelAlert
  <2> QED BY <1>3, <2>1, <2>2, <2>3, <2>4
<1>4. CASE EditCost \/ EditAlert
  <2>1. CASE EditCost
    <3>1. PICK f \in Edited(ui.costForm) : ui' = [ui EXCEPT !.costForm = f]
      BY <2>1 DEF EditCost
    <3>2. PICK x : f = [ui.costForm EXCEPT !.values = x]
      BY <3>1 DEF Edited
    <3> QED BY <3>1, <3>2
  <2>2. CASE EditAlert
    <3>1. PICK f \in Edited(ui.alertForm) : ui' = [ui EXCEPT !.alertForm = f]
      BY <2>2 DEF EditAlert
    <3>2. PICK x : f = [ui.alertForm EXCEPT !.values = x]
      BY <3>1 DEF Edited
    <3> QED BY <3>1, <3>2
  <2> QED BY <1>4, <2>1, <2>2
<1>5. CASE OnSave \/ SaveAlert
  <2>1. ui' = [ui EXCEPT !.creating = TRUE] \/ ui' = [ui EXCEPT !.savingAlert = TRUE]
    BY <1>5, Zenon DEF OnSave, SaveAlert
  <2> QED BY <2>1
<1>6. CASE MoveSlider \/ SaveOperatingHours \/ SaveOrgSetting
  BY <1>6 DEF MoveSlider, SaveOperatingHours, SaveOrgSetting
<1>7. CASE Serve(SettingsEffect) \/ Reload(SettingsStale) \/ \E t \in Tables : FetchRead(t)
  <2>1. ui' = ui
    BY <1>7 DEF Serve, ServeAllowed, Reload, FetchRead
  <2> QED BY <2>1
<1>8. CASE Answered(SettingsFields, SettingsStale)
  <2>1. PICK q, ok : ui' = SettingsFields(q, ok)
    BY <1>8 DEF Answered
  <2> QED BY <2>1, SettingsAnswers
<1>9. ASSUME NEW t \in Tables, FetchShown(t, SettingsArrived) PROVE SettingsForms'
  BY <1>9 DEF FetchShown, SettingsArrived
<1> QED BY <1>1, <1>2, <1>3, <1>4, <1>5, <1>6, <1>7, <1>8, <1>9 DEF SettingsNext, Background

\* The administration: the text under an item was filled in from that item.
AdminForms ==
  /\ DOMAIN ui = {"loadingAction", "editingTrial", "savingTrial", "responding", "textOf", "savingResponse",
                  "creatingCode", "deletingAllCodes", "planEditing", "draft", "planSaving"}
  /\ RepliesOfTheirItem

LEMMA AdminAnswers ==
  ASSUME AdminForms, NEW q, NEW ok, ui' = AdminFields(q, ok)
  PROVE  AdminForms'
<1> USE DEF AdminForms, RepliesOfTheirItem
<1>1. CASE q.op = "org" \/ q.op \in {"deleteOrg", "user", "createCode", "deletePending"}
  <2>1. \/ ui' = [ui EXCEPT !.savingTrial = FALSE, !.editingTrial = IF ok THEN Nobody ELSE @]
        \/ ui' = [ui EXCEPT !.loadingAction = Nobody] \/ ui' = [ui EXCEPT !.creatingCode = FALSE]
        \/ ui' = [ui EXCEPT !.deletingAllCodes = FALSE]
    BY <1>1 DEF AdminFields
  <2> QED BY <2>1
<1>2. CASE q.op = "respond"
  <2>1. \/ ui' = [ui EXCEPT !.savingResponse = FALSE, !.responding = Nobody, !.textOf = Nobody]
        \/ ui' = [ui EXCEPT !.savingResponse = FALSE]
    BY <1>2 DEF AdminFields
  <2> QED BY <2>1
<1>3. CASE q.op \notin {"org", "deleteOrg", "user", "createCode", "deletePending", "respond"}
  <2>1. ui' = [ui EXCEPT !.planSaving = FALSE, !.planEditing = @ /\ ~ok] \/ ui' = ui
    BY <1>3 DEF AdminFields
  <2> QED BY <2>1
<1> QED BY <1>1, <1>2, <1>3

LEMMA AdminFormsStep == AdminForms /\ AdminNext => AdminForms'
<1> SUFFICES ASSUME AdminForms, AdminNext PROVE AdminForms'
  OBVIOUS
<1> USE DEF AdminForms, RepliesOfTheirItem, Click, Send, SendAwaiting, Post
<1>1. ASSUME NEW o, UpdateOrgStatus(o) \/ UpdateOrgPlan(o) \/ DeleteOrg(o) \/ ToggleUser(o) PROVE AdminForms'
  BY <1>1 DEF UpdateOrgStatus, UpdateOrgPlan, DeleteOrg, ToggleUser, Act
<1>2. ASSUME NEW o, OpenTrial(o) \/ UpdateTrialDays(o) \/ CancelTrial PROVE AdminForms'
  BY <1>2 DEF OpenTrial, UpdateTrialDays, CancelTrial
<1>3. ASSUME NEW c, CreateInviteCode \/ DeleteAllPendingCodes \/ DeleteInviteCode(c) PROVE AdminForms'
  BY <1>3 DEF CreateInviteCode, DeleteAllPendingCodes, DeleteInviteCode
<1>4. ASSUME NEW f, UpdateFeedbackStatus(f) \/ DeleteFeedback(f) \/ Respond(f) \/ RespondFeedback(f) PROVE AdminForms'
  BY <1>4 DEF UpdateFeedbackStatus, DeleteFeedback, Respond, RespondFeedback
<1>5. CASE StartEdit \/ CancelEdit \/ EditDraft \/ SavePlan
  BY <1>5 DEF StartEdit, CancelEdit, EditDraft, SavePlan
<1>6. CASE Serve(AdminEffect) \/ Reload(AdminStale) \/ \E t \in Tables : FetchRead(t) \/ FetchShown(t, NoEffect)
  BY <1>6 DEF Serve, ServeAllowed, Reload, FetchRead, FetchShown, NoEffect
<1>7. CASE Answered(AdminFields, AdminStale)
  <2>1. PICK q, ok : ui' = AdminFields(q, ok)
    BY <1>7 DEF Answered
  <2> QED BY <2>1, AdminAnswers
<1> QED BY <1>1, <1>2, <1>3, <1>4, <1>5, <1>6, <1>7 DEF AdminNext, Background

\* The CAPEX: what the form would save to a record was filled in from it.
CapexForms ==
  /\ DOMAIN ui = {"showForm", "editId", "form", "saving", "deleting"}
  /\ DOMAIN ui.form = {"values", "named", "of"}
  /\ CapexFormOfRecord

LEMMA CapexFormsStep == CapexForms /\ CapexNext => CapexForms'
<1> SUFFICES ASSUME CapexForms, CapexNext PROVE CapexForms'
  OBVIOUS
<1> USE DEF CapexForms, CapexFormOfRecord, Click, Send, SendAwaiting, Post
<1>1. CASE OpenAdd \/ EditForm \/ CloseForm \/ HandleSave
  <2>1. CASE OpenAdd
    BY <2>1 DEF OpenAdd, EmptyForm
  <2>2. CASE EditForm
    <3>1. PICK r : ui' = [ui EXCEPT !.form = [ui.form EXCEPT !.values = r, !.named = TRUE]]
      BY <2>2 DEF EditForm
    <3> QED BY <3>1
  <2>3. CASE CloseForm
    BY <2>3 DEF CloseForm
  <2>4. CASE HandleSave
    <3>1. ui' = [ui EXCEPT !.saving = TRUE]
      BY <2>4, Zenon DEF HandleSave
    <3> QED BY <3>1
  <2> QED BY <1>1, <2>1, <2>2, <2>3, <2>4
<1>2. ASSUME NEW i, OpenCapex(i) \/ HandleDelete(i) PROVE CapexForms'
  <2>1. CASE OpenCapex(i)
    BY <2>1 DEF OpenCapex
  <2>2. CASE HandleDelete(i)
    BY <2>2 DEF HandleDelete
  <2> QED BY <1>2, <2>1, <2>2
<1>3. CASE ServeAllowed(CapexAllowed, CapexEffect) \/ FetchRead("capex") \/ FetchShown("capex", NoEffect)
  BY <1>3 DEF ServeAllowed, FetchRead, FetchShown, NoEffect
<1>4. CASE Answered(CapexFields, CapexStale)
  <2>1. PICK q, ok : ui' = CapexFields(q, ok)
    BY <1>4 DEF Answered
  <2> QED BY <2>1 DEF CapexFields
<1> QED BY <1>1, <1>2, <1>3, <1>4 DEF CapexNext

\* The advanced analysis: energy and tax follow the panel unless a project brought them.
InputFields == {"n_chargers", "avg_monthly_kwh", "terms", "capex_mode", "capex_override", "tax_regime", "tax_base"}
InvestForms ==
  /\ DOMAIN ui = {"analysisMode", "inputs", "hours", "kwhOf", "regimeOf", "showFillPanel", "showSavePanel",
                  "isSaving"}
  /\ InputFields \subseteq DOMAIN ui.inputs
  /\ KwhFollowsPanel /\ RegimeFollowsPanel

\* A change that ends in the effect on the suggested energy.
LEMMA SyncKeeps ==
  ASSUME InvestForms, NEW u, DOMAIN u = DOMAIN ui, InputFields \subseteq DOMAIN u.inputs,
         \/ u.kwhOf = "project"
         \/ /\ u.kwhOf = ui.kwhOf
            /\ u.inputs.avg_monthly_kwh = ui.inputs.avg_monthly_kwh,
         \/ u.regimeOf = "project"
         \/ /\ u.regimeOf = ui.regimeOf
            /\ u.inputs.tax_regime = ui.inputs.tax_regime /\ u.inputs.tax_base = ui.inputs.tax_base,
         ui' = SyncKwh(u)
  PROVE  InvestForms'
<1> USE DEF InvestForms, InputFields
<1>1. CASE SuggestedKwh(u) = SuggestedKwh(ui)
  <2>1. ui' = u
    BY <1>1 DEF SyncKwh
  <2>2. KwhFollowsPanel'
    BY <1>1, <2>1 DEF KwhFollowsPanel, KwhInSync, SuggestedKwh
  <2> QED BY <2>1, <2>2 DEF RegimeFollowsPanel
<1>2. CASE SuggestedKwh(u) # SuggestedKwh(ui)
  <2> DEFINE kwh == SuggestedKwh(u)
  <2>1. ui' = [u EXCEPT !.inputs.avg_monthly_kwh = kwh, !.kwhOf = "panel"]
    BY <1>2 DEF SyncKwh
  <2>2. kwh = u.inputs.n_chargers * u.hours
    BY DEF SuggestedKwh
  <2> HIDE DEF kwh
  <2>3. /\ ui'.inputs.avg_monthly_kwh = kwh /\ ui'.inputs.n_chargers = u.inputs.n_chargers /\ ui'.hours = u.hours
        /\ ui'.inputs.tax_regime = u.inputs.tax_regime /\ ui'.inputs.tax_base = u.inputs.tax_base
        /\ ui'.regimeOf = u.regimeOf /\ DOMAIN ui' = DOMAIN ui /\ InputFields \subseteq DOMAIN ui'.inputs
    BY <2>1
  <2>4. KwhFollowsPanel'
    BY <2>2, <2>3 DEF KwhFollowsPanel, KwhInSync, SuggestedKwh
  <2> QED BY <2>3, <2>4 DEF RegimeFollowsPanel
<1> QED BY <1>1, <1>2

\* A click on a field that neither the energy nor the tax comes from.
SameFigures(u) ==
  /\ DOMAIN u = DOMAIN ui /\ InputFields \subseteq DOMAIN u.inputs
  /\ u.kwhOf = ui.kwhOf /\ u.regimeOf = ui.regimeOf /\ u.hours = ui.hours
  /\ \A k \in {"n_chargers", "avg_monthly_kwh", "tax_regime", "tax_base"} : u.inputs[k] = ui.inputs[k]

LEMMA SameFiguresKeep == InvestForms /\ SameFigures(ui') => InvestForms'
BY DEF InvestForms, InputFields, SameFigures, KwhFollowsPanel, KwhInSync, SuggestedKwh, RegimeFollowsPanel

LEMMA InvestFormsStep == InvestForms /\ InvestNext => InvestForms'
<1> SUFFICES ASSUME InvestForms, InvestNext PROVE InvestForms'
  OBVIOUS
<1> USE DEF InvestForms, InputFields, Click, Send, SendAwaiting, Post
<1> HIDE DEF KwhFollowsPanel, RegimeFollowsPanel
<1>1. CASE SwitchAnalysis \/ ToggleFillPanel \/ ToggleSavePanel \/ HandleFillWithRealData \/ SaveProject
  <2>1. CASE SwitchAnalysis
    <3>1. PICK m : ui' = [ui EXCEPT !.analysisMode = m]
      BY <2>1 DEF SwitchAnalysis
    <3> QED BY <3>1, SameFiguresKeep DEF SameFigures
  <2>2. CASE ToggleFillPanel
    BY <2>2, SameFiguresKeep DEF ToggleFillPanel, SameFigures
  <2>3. CASE ToggleSavePanel
    BY <2>3, SameFiguresKeep DEF ToggleSavePanel, SameFigures
  <2>4. CASE HandleFillWithRealData
    <3>1. ui' = ui
      BY <2>4 DEF HandleFillWithRealData
    <3> QED BY <3>1, SameFiguresKeep DEF SameFigures
  <2>5. CASE SaveProject
    <3>1. ui' = [ui EXCEPT !.isSaving = TRUE]
      BY <2>5 DEF SaveProject
    <3> QED BY <3>1, SameFiguresKeep DEF SameFigures
  <2> QED BY <1>1, <2>1, <2>2, <2>3, <2>4, <2>5
<1>2. CASE SetTerms \/ SetCapexModeAdvanced \/ SetCapexOverride
  <2>1. CASE SetTerms
    BY <2>1, SameFiguresKeep DEF SetTerms, SameFigures
  <2>2. CASE SetCapexModeAdvanced
    <3>1. PICK m, x : ui' = [ui EXCEPT !.inputs.capex_mode = m, !.inputs.capex_override = x]
      BY <2>2, Zenon DEF SetCapexModeAdvanced
    <3> QED BY <3>1, SameFiguresKeep DEF SameFigures
  <2>3. CASE SetCapexOverride
    <3>1. PICK x : ui' = [ui EXCEPT !.inputs.capex_override = x]
      BY <2>3 DEF SetCapexOverride
    <3> QED BY <3>1, SameFiguresKeep DEF SameFigures
  <2> QED BY <1>2, <2>1, <2>2, <2>3
<1>3. CASE SetChargers
  <2>1. PICK n \in 1..2 : ui' = SyncKwh([ui EXCEPT !.inputs.n_chargers = n])
    BY <1>3 DEF SetChargers
  <2> DEFINE u == [ui EXCEPT !.inputs.n_chargers = n]
  <2>2. /\ DOMAIN u = DOMAIN ui /\ InputFields \subseteq DOMAIN u.inputs
        /\ u.kwhOf = ui.kwhOf /\ u.inputs.avg_monthly_kwh = ui.inputs.avg_monthly_kwh
        /\ u.regimeOf = ui.regimeOf /\ u.inputs.tax_regime = ui.inputs.tax_regime
        /\ u.inputs.tax_base = ui.inputs.tax_base
    OBVIOUS
  <2>3. ui' = SyncKwh(u)
    BY <2>1
  <2> HIDE DEF u, InvestForms, InputFields
  <2> QED BY <2>2, <2>3, SyncKeeps
<1>4. CASE MoveHours
  <2>1. PICK h \in HoursSet : ui' = SyncKwh([ui EXCEPT !.hours = h])
    BY <1>4 DEF MoveHours
  <2> DEFINE u == [ui EXCEPT !.hours = h]
  <2>2. DOMAIN u = DOMAIN ui /\ u.inputs = ui.inputs /\ u.kwhOf = ui.kwhOf /\ u.regimeOf = ui.regimeOf
    OBVIOUS
  <2>3. ui' = SyncKwh(u) /\ InputFields \subseteq DOMAIN u.inputs
    BY <2>1, <2>2
  <2> HIDE DEF u, InputFields
  <2> QED BY <2>2, <2>3, SyncKeeps
<1>5. CASE SelectRegime
  <2>1. PICK r : ui' = [ui EXCEPT !.inputs.tax_regime = r, !.regimeOf = "panel",
                          !.inputs.tax_base = IF r = "SN" THEN "revenue" ELSE "profit"]
    BY <1>5 DEF SelectRegime
  <2>2. RegimeFollowsPanel'
    BY <2>1 DEF RegimeFollowsPanel
  <2>3. KwhFollowsPanel'
    BY <2>1 DEF KwhFollowsPanel, KwhInSync, SuggestedKwh
  <2> QED BY <2>1, <2>2, <2>3
<1>6. ASSUME NEW i, LoadProject(i) \/ ImportProject(i) PROVE InvestForms'
  <2>1. PICK below, panel : /\ InputFields \subseteq DOMAIN below
                     /\ ui' = SyncKwh([ui EXCEPT !.inputs = Merged(below, i), !.showSavePanel = panel,
                                         !.kwhOf = "project", !.regimeOf = "project"])
    <3>1. CASE LoadProject(i)
      BY <3>1 DEF LoadProject, DEFAULT_INPUTS
    <3>2. CASE ImportProject(i)
      <4>1. [ui EXCEPT !.inputs = Merged(ui.inputs, i), !.kwhOf = "project", !.regimeOf = "project"]
            = [ui EXCEPT !.inputs = Merged(ui.inputs, i), !.showSavePanel = ui.showSavePanel,
                         !.kwhOf = "project", !.regimeOf = "project"]
        OBVIOUS
      <4> QED BY <3>2, <4>1 DEF ImportProject
    <3> QED BY <1>6, <3>1, <3>2
  <2> DEFINE merged == Merged(below, i)
             u == [ui EXCEPT !.inputs = merged, !.showSavePanel = panel,
                             !.kwhOf = "project", !.regimeOf = "project"]
  <2>2. InputFields \subseteq DOMAIN merged
    BY <2>1 DEF Merged
  <2>3. ui' = SyncKwh(u)
    BY <2>1
  <2> HIDE DEF merged
  <2>4. DOMAIN u = DOMAIN ui /\ InputFields \subseteq DOMAIN u.inputs /\ u.kwhOf = "project" /\ u.regimeOf = "project"
    BY <2>2
  <2> HIDE DEF u, InputFields
  <2> QED BY <2>3, <2>4, SyncKeeps
<1>7. ASSUME NEW i, DeleteProject(i) PROVE InvestForms'
  <2>1. ui' = ui
    BY <1>7 DEF DeleteProject
  <2> QED BY <2>1, SameFiguresKeep DEF SameFigures
<1>8. CASE Serve(InvestEffect) \/ Reload(InvestStale) \/ \E t \in Tables : FetchRead(t) \/ FetchShown(t, NoEffect)
  <2>1. ui' = ui
    BY <1>8 DEF Serve, ServeAllowed, Reload, FetchRead, FetchShown, NoEffect
  <2> QED BY <2>1, SameFiguresKeep DEF SameFigures
<1>9. CASE Answered(InvestFields, InvestStale)
  <2>1. PICK q, ok : ui' = InvestFields(q, ok)
    BY <1>9 DEF Answered
  <2>2. \/ ui' = [ui EXCEPT !.isSaving = FALSE] \/ ui' = ui
        \/ ui' = [ui EXCEPT !.showFillPanel = FALSE, !.inputs.terms = IF q.found THEN "real" ELSE @]
    BY <2>1 DEF InvestFields
  <2>3. CASE ui' = [ui EXCEPT !.isSaving = FALSE] \/ ui' = ui
    BY <2>3, SameFiguresKeep DEF SameFigures
  <2>4. ASSUME NEW x, ui' = [ui EXCEPT !.showFillPanel = FALSE, !.inputs.terms = x] PROVE InvestForms'
    BY <2>4, SameFiguresKeep DEF SameFigures
  <2> QED BY <2>2, <2>3, <2>4
<1> QED BY <1>1, <1>2, <1>3, <1>4, <1>5, <1>6, <1>7, <1>8, <1>9 DEF InvestNext, Background

\* The pages of the sign-in.
Codes == Invitations \cup OrgCodes \cup {NoCode}
Companies == {InviteOf[c] : c \in Invitations} \cup {NoName}
Answers == [about : Codes, checking : BOOLEAN, valid : BOOLEAN,
            type : {"none", "invitation", "org_invite_code"}, org : Companies]
Results == {x \in Answers : ~x.checking}
Questions == [code : Codes, answer : Results, at : {"sent", "served"}]

\* What an answer says of the code it was asked for.
Honest(q) ==
  q.at = "served" /\ q.answer.valid =>
    \/ q.answer.type = "org_invite_code"
    \/ q.answer.type = "invitation" /\ q.code \in Invitations /\ q.answer.org = InviteOf[q.code]

AuthShape ==
  /\ DOMAIN ui = {"at", "token", "code", "org", "timer", "lookup", "asked", "invite", "busy", "homing", "phase"}
  /\ DOMAIN server = {"accounts", "links", "password", "verified"}
  /\ ui.lookup \in Answers /\ ui.code \in Codes /\ ui.asked \in Seq(Questions)
  /\ ui.at \notin {"register", "accept"} => ui.asked = <<>>

\* The one request on its way belongs to the page that is open, and what was
\* served is done.
Owed(w) ==
  /\ DOMAIN w = {"req", "awaits", "at", "ok"} /\ w.at \in {"sent", "served"}
  /\ ui.busy \/ ui.at = "verify"
  /\ \/ ui.at = "login" /\ w.req.op = "login"
     \/ ui.at = "register" /\ w.req.op = "register"
     \/ /\ ui.at = "accept" /\ w.req.op = "register" /\ w.req.code = ui.token /\ ui.phase = "form"
        /\ w.at = "served" /\ w.ok => ui.token \in DOMAIN server.accounts /\ server.accounts[ui.token] = ui.invite
     \/ ui.at = "forgot" /\ w.req.op = "forgot"
     \/ ui.at = "reset" /\ w.req.op = "reset" /\ (w.at = "served" /\ w.ok => server.password = "new")
     \/ ui.at = "verify" /\ w.req.op = "verify" /\ (w.at = "served" /\ w.ok => server.verified)
AuthOwes == writes = <<>> \/ \E w : writes = <<w>> /\ Owed(w)

OnAccept ==
  ui.at = "accept" =>
    /\ ui.phase \in {"form", "done"} => ui.token \in Invitations /\ ui.invite = InviteOf[ui.token]
    /\ ui.phase = "loading" => writes = <<>>
    /\ ui.asked # <<>> =>
         /\ ui.phase = "loading"
         /\ \E q \in Questions : ui.asked = <<q>> /\ q.code = ui.token /\ Honest(q)

AuthForms == AuthShape /\ AuthOwes /\ OnAccept /\ LockedNameIsInvited /\ DoneIsDone

LEMMA RemoveOnly == ASSUME NEW w, NEW i \in DOMAIN <<w>> PROVE RemoveAt(<<w>>, i) = <<>> /\ <<w>>[i] = w
BY DEF RemoveAt

LEMMA Blank == NoLookup \in Answers /\ NoLookup \in Results /\ <<>> \in Seq(Questions)
BY DEF Results, NoLookup, Answers, Companies, Codes

LEMMA AnswersHonest ==
  ASSUME NEW code \in Codes, NEW a \in {Answer(code), Failed(code)}
  PROVE  /\ a \in Answers /\ a \in Results
         /\ a.valid => \/ a.type = "org_invite_code"
                       \/ a.type = "invitation" /\ code \in Invitations /\ a.org = InviteOf[code]
<1>0. NoName \in Companies /\ (code \in Invitations => InviteOf[code] \in Companies)
  BY DEF Companies
<1>1. CASE a = Failed(code)
  <2>1. NoLookup \in Answers /\ ~NoLookup.valid /\ ~NoLookup.checking
    BY Blank DEF NoLookup
  <2>2. Failed(code) \in Answers /\ ~Failed(code).valid /\ ~Failed(code).checking
    BY <2>1 DEF Failed, Answers
  <2> QED BY <1>1, <2>2 DEF Results
<1>2. CASE a = Answer(code)
  <2> DEFINE kind == CASE code \in DOMAIN server.accounts -> "none"
                       [] code \in Invitations \ DOMAIN server.accounts -> "invitation"
                       [] OTHER -> "org_invite_code"
             valid == code \notin DOMAIN server.accounts
             company == IF code \in Invitations \ DOMAIN server.accounts THEN InviteOf[code] ELSE NoName
  <2>1. Answer(code) = [about |-> code, checking |-> FALSE, valid |-> valid, type |-> kind, org |-> company]
    BY Zenon DEF Answer
  <2>2. code \in DOMAIN server.accounts => kind = "none"
    OBVIOUS
  <2>3. code \notin DOMAIN server.accounts /\ code \in Invitations => kind = "invitation" /\ company = InviteOf[code]
    OBVIOUS
  <2>4. code \notin DOMAIN server.accounts /\ code \notin Invitations => kind = "org_invite_code"
    OBVIOUS
  <2>5. company \in Companies /\ valid \in BOOLEAN /\ (valid <=> code \notin DOMAIN server.accounts)
    BY <1>0
  <2> HIDE DEF kind, valid, company
  <2>6. Answer(code) \in Answers
    BY <2>1, <2>2, <2>3, <2>4, <2>5 DEF Answers
  <2>7. ~Answer(code).checking /\ Answer(code).valid = valid /\ Answer(code).type = kind /\ Answer(code).org = company
    BY <2>1
  <2> QED BY <1>2, <2>2, <2>3, <2>4, <2>5, <2>6, <2>7 DEF Results
<1> QED BY <1>1, <1>2

\* A page that mounts without a question.
LEMMA Mounts ==
  ASSUME NEW at \in {"login", "register", "forgot", "dashboard"}, NEW token,
         ui' = NewPage(at, token), writes' = <<>>,
         DOMAIN server' = {"accounts", "links", "password", "verified"}
  PROVE  AuthForms'
<1>1. AuthShape'
  BY Blank DEF AuthShape, NewPage, Codes
<1>2. AuthOwes' /\ OnAccept'
  BY DEF AuthOwes, OnAccept, NewPage
<1>3. LockedNameIsInvited' /\ DoneIsDone'
  BY DEF LockedNameIsInvited, IsInvitation, DoneIsDone, NewPage, NoLookup
<1> QED BY <1>1, <1>2, <1>3 DEF AuthForms

LEMMA AuthStarts == AuthInit => AuthForms
<1> SUFFICES ASSUME AuthInit PROVE AuthForms
  OBVIOUS
<1>1. ui = NewPage("login", NoCode) /\ writes = <<>> /\ DOMAIN server = {"accounts", "links", "password", "verified"}
  BY DEF AuthInit, PageInit
<1>2. AuthShape
  BY <1>1, Blank DEF AuthShape, NewPage, Codes
<1>3. AuthOwes /\ OnAccept /\ LockedNameIsInvited /\ DoneIsDone
  BY <1>1 DEF AuthOwes, OnAccept, LockedNameIsInvited, IsInvitation, DoneIsDone, NewPage, NoLookup
<1> QED BY <1>2, <1>3 DEF AuthForms

\* The server's part.
LEMMA AuthServes == AuthForms /\ ServeAllowed(AuthAllowed, AuthEffect) => AuthForms'
<1> SUFFICES ASSUME AuthForms, ServeAllowed(AuthAllowed, AuthEffect) PROVE AuthForms'
  OBVIOUS
<1>1. PICK i \in DOMAIN writes, ok \in BOOLEAN :
        /\ writes[i].at = "sent" /\ (ok => AuthAllowed(writes[i].req))
        /\ writes' = [writes EXCEPT ![i].at = "served", ![i].ok = ok]
        /\ server' = IF ok THEN AuthEffect(writes[i].req) ELSE server
        /\ ui' = ui
  BY DEF ServeAllowed
<1>2. PICK w : writes = <<w>> /\ Owed(w)
  BY <1>1 DEF AuthForms, AuthOwes
<1> DEFINE q == w.req
           served == [w EXCEPT !.at = "served", !.ok = ok]
<1>3. /\ writes' = <<served>> /\ served.req = q /\ served.ok = ok /\ served.at = "served"
      /\ DOMAIN served = {"req", "awaits", "at", "ok"} /\ w.at = "sent" /\ (ok => AuthAllowed(q))
      /\ server' = IF ok THEN AuthEffect(q) ELSE server
  <2>0. i = 1 /\ writes[1] = w /\ DOMAIN writes = {1}
    BY <1>1, <1>2
  <2>3. writes' = [writes EXCEPT ![1] = served]
    BY <1>1, <2>0
  <2>4. writes' = <<served>>
    <3> HIDE DEF served
    <3> QED BY <1>2, <2>0, <2>3
  <2>1. i = 1 /\ writes[i] = w /\ writes' = <<served>>
    BY <2>0, <2>4
  <2>2. DOMAIN w = {"req", "awaits", "at", "ok"}
    BY <1>2 DEF Owed
  <2> QED BY <1>1, <2>1, <2>2
<1> HIDE DEF q, served
<1>4. AuthShape /\ OnAccept /\ LockedNameIsInvited /\ DoneIsDone
  BY DEF AuthForms
<1>5. CASE ~ok
  <2>1. server' = server /\ ui' = ui
    BY <1>1, <1>3, <1>5
  <2>2. AuthShape' /\ OnAccept' /\ LockedNameIsInvited' /\ DoneIsDone'
    BY <1>2, <1>3, <1>4, <2>1
    DEF AuthShape, OnAccept, LockedNameIsInvited, IsInvitation, DoneIsDone, Owed
  <2>3. Owed(served)'
    BY <1>2, <1>3, <1>5, <2>1 DEF Owed, q
  <2> QED BY <1>3, <2>2, <2>3 DEF AuthForms, AuthOwes
<1>6. CASE ok /\ q.op = "register"
  <2> DEFINE accounts == WithAccount(server.accounts, q.code, q.org)
  <2>1. server' = [server EXCEPT !.accounts = accounts]
    BY <1>3, <1>6 DEF AuthEffect
  <2>2. /\ \A c \in DOMAIN server.accounts : c \in DOMAIN accounts /\ accounts[c] = server.accounts[c]
        /\ q.code \in DOMAIN accounts
        /\ q.code \in Invitations => accounts[q.code] = InviteOf[q.code]
    <3>1. q.code \notin DOMAIN server.accounts
      BY <1>3, <1>6 DEF AuthAllowed
    <3> QED BY <3>1 DEF WithAccount
  <2> HIDE DEF accounts
  <2>3. server'.accounts = accounts /\ server'.password = server.password /\ server'.verified = server.verified
        /\ DOMAIN server' = DOMAIN server
    BY <2>1, <1>4 DEF AuthShape
  <2>4. AuthShape' /\ OnAccept' /\ LockedNameIsInvited'
    BY <1>1, <1>2, <1>4, <2>3 DEF AuthShape, OnAccept, LockedNameIsInvited, IsInvitation, Owed
  <2>5. DoneIsDone'
    BY <1>1, <1>4, <2>2, <2>3 DEF DoneIsDone
  <2>6. Owed(served)'
    BY <1>1, <1>2, <1>3, <1>4, <1>6, <2>2, <2>3 DEF Owed, OnAccept, q
  <2> QED BY <1>3, <2>4, <2>5, <2>6 DEF AuthForms, AuthOwes
<1>7. CASE ok /\ q.op # "register"
  <2>1. /\ server'.accounts = server.accounts /\ DOMAIN server' = DOMAIN server
        /\ q.op = "reset" => server'.password = "new"
        /\ q.op = "verify" => server'.verified
        /\ server'.password \in {server.password, "new"} /\ (server.verified => server'.verified)
    BY <1>3, <1>4, <1>7 DEF AuthEffect, AuthShape
  <2>2. AuthShape' /\ OnAccept' /\ LockedNameIsInvited'
    BY <1>1, <1>2, <1>4, <2>1 DEF AuthShape, OnAccept, LockedNameIsInvited, IsInvitation, Owed
  <2>3. DoneIsDone'
    BY <1>1, <1>4, <2>1 DEF DoneIsDone
  <2>4. Owed(served)'
    BY <1>1, <1>2, <1>3, <1>4, <1>7, <2>1 DEF Owed, OnAccept, q
  <2> QED BY <1>3, <2>2, <2>3, <2>4 DEF AuthForms, AuthOwes
<1> QED BY <1>5, <1>6, <1>7

\* The rest of a handler: it frees its button and says how the page goes on.
GoesOn(busy, phase, homing) == ui' = [ui EXCEPT !.busy = busy, !.phase = phase, !.homing = homing]

LEMMA PageGoesOn ==
  ASSUME AuthForms, writes' = <<>>, server' = server, NEW busy, NEW phase, NEW homing,
         GoesOn(busy, phase, homing),
         \/ phase = ui.phase
         \/ ui.at # "accept" /\ phase = "error"
         \/ /\ phase = "done"
            /\ ui.at = "accept" =>
                 ui.phase = "form" /\ ui.token \in DOMAIN server.accounts /\ server.accounts[ui.token] = ui.invite
            /\ ui.at = "reset" => server.password = "new"
            /\ ui.at = "verify" => server.verified
  PROVE  AuthForms'
<1>1. AuthShape /\ OnAccept /\ LockedNameIsInvited /\ DoneIsDone
  BY DEF AuthForms
<1>2. /\ DOMAIN ui' = DOMAIN ui /\ ui'.phase = phase
      /\ \A k \in {"at", "token", "code", "org", "timer", "lookup", "asked", "invite"} : ui'[k] = ui[k]
  BY <1>1 DEF AuthShape, GoesOn
<1>3. AuthShape'
  BY <1>1, <1>2 DEF AuthShape
<1>4. OnAccept'
  BY <1>1, <1>2 DEF OnAccept
<1>5. LockedNameIsInvited' /\ DoneIsDone'
  BY <1>1, <1>2 DEF LockedNameIsInvited, IsInvitation, DoneIsDone
<1> QED BY <1>3, <1>4, <1>5 DEF AuthForms, AuthOwes

LEMMA AuthAnswers == AuthForms /\ Answered(AuthFields, NothingStale) => AuthForms'
<1> SUFFICES ASSUME AuthForms, Answered(AuthFields, NothingStale) PROVE AuthForms'
  OBVIOUS
<1>1. PICK i \in DOMAIN writes :
        /\ writes[i].at \in {"served", "reloading"} /\ writes' = RemoveAt(writes, i)
        /\ ui' = AuthFields(writes[i].req, writes[i].ok) /\ server' = server
  BY DEF Answered
<1>2. PICK w : writes = <<w>> /\ Owed(w)
  BY <1>1 DEF AuthForms, AuthOwes
<1> DEFINE q == w.req
           ok == w.ok
<1>3. writes' = <<>> /\ w.at = "served" /\ ui' = AuthFields(q, ok)
  <2>1. writes[i] = w /\ i \in DOMAIN <<w>>
    BY <1>1, <1>2
  <2>2. writes' = <<>>
    BY <1>1, <1>2, <2>1, RemoveOnly
  <2> QED BY <1>1, <1>2, <2>1, <2>2 DEF Owed
<1>4. DOMAIN server' = {"accounts", "links", "password", "verified"}
  BY <1>1 DEF AuthForms, AuthShape
<1>5. DOMAIN ui = {"at", "token", "code", "org", "timer", "lookup", "asked", "invite", "busy", "homing", "phase"}
  BY DEF AuthForms, AuthShape
<1>6. ui' = [ui EXCEPT !.busy = FALSE] => GoesOn(FALSE, ui.phase, ui.homing)
  BY <1>5 DEF GoesOn
<1> HIDE DEF q, ok
<1>7. CASE ui.at \in {"login", "register"}
  <2>1. q.op = ui.at
    BY <1>2, <1>7 DEF Owed, q
  <2>2. CASE ok
    <3>1. ui' = NewPage(IF ui.at = "login" THEN "dashboard" ELSE "login", NoCode)
      BY <1>3, <1>7, <2>1, <2>2 DEF AuthFields
    <3> QED BY <1>3, <1>4, <3>1, Mounts
  <2>3. CASE ~ok
    <3>1. ui' = [ui EXCEPT !.busy = FALSE]
      BY <1>3, <1>7, <2>1, <2>3 DEF AuthFields, Freed
    <3> QED BY <1>1, <1>3, <1>6, <3>1, PageGoesOn
  <2> QED BY <1>7, <2>2, <2>3
<1>8. CASE ui.at = "accept"
  <2>1. q.op = "register" /\ ui.phase = "form"
        /\ (ok => ui.token \in DOMAIN server.accounts /\ server.accounts[ui.token] = ui.invite)
    BY <1>2, <1>3, <1>8 DEF Owed, q, ok
  <2>2. ui' = IF ok THEN [[ui EXCEPT !.busy = FALSE] EXCEPT !.phase = "done", !.homing = TRUE]
              ELSE [ui EXCEPT !.busy = FALSE]
    BY <1>3, <1>8, <2>1 DEF AuthFields, Freed
  <2>3. CASE ok
    <3>1. GoesOn(FALSE, "done", TRUE)
      BY <2>2, <2>3 DEF GoesOn
    <3> QED BY <1>1, <1>3, <1>8, <2>1, <2>3, <3>1, PageGoesOn
  <2>4. CASE ~ok
    BY <1>1, <1>3, <1>6, <2>2, <2>4, PageGoesOn
  <2> QED BY <2>3, <2>4
<1>9. CASE ui.at = "forgot"
  <2>1. q.op = "forgot"
    BY <1>2, <1>9 DEF Owed, q
  <2>2. ui' = [ui EXCEPT !.busy = FALSE, !.phase = IF ok THEN "done" ELSE @]
    BY <1>3, <2>1 DEF AuthFields, Freed
  <2>3. GoesOn(FALSE, IF ok THEN "done" ELSE ui.phase, ui.homing)
    BY <1>5, <2>2 DEF GoesOn
  <2> QED BY <1>1, <1>3, <1>9, <2>3, PageGoesOn
<1>10. CASE ui.at = "reset"
  <2>1. q.op = "reset" /\ (ok => server.password = "new")
    BY <1>2, <1>3, <1>10 DEF Owed, q, ok
  <2>2. \/ ok /\ ui' = [[ui EXCEPT !.busy = FALSE] EXCEPT !.phase = "done", !.homing = TRUE]
        \/ ui' = [[ui EXCEPT !.busy = FALSE] EXCEPT !.phase = "error"]
        \/ ui' = [ui EXCEPT !.busy = FALSE]
    BY <1>3, <2>1 DEF AuthFields, Freed
  <2>3. CASE ok /\ ui' = [[ui EXCEPT !.busy = FALSE] EXCEPT !.phase = "done", !.homing = TRUE]
    <3>1. GoesOn(FALSE, "done", TRUE)
      BY <2>3 DEF GoesOn
    <3> QED BY <1>1, <1>3, <1>10, <2>1, <2>3, <3>1, PageGoesOn
  <2>4. CASE ui' = [[ui EXCEPT !.busy = FALSE] EXCEPT !.phase = "error"]
    <3>1. GoesOn(FALSE, "error", ui.homing)
      BY <1>5, <2>4 DEF GoesOn
    <3> QED BY <1>1, <1>3, <1>10, <3>1, PageGoesOn
  <2>5. CASE ui' = [ui EXCEPT !.busy = FALSE]
    BY <1>1, <1>3, <1>6, <2>5, PageGoesOn
  <2> QED BY <2>2, <2>3, <2>4, <2>5
<1>11. CASE ui.at = "verify"
  <2>1. q.op = "verify" /\ (ok => server.verified)
    BY <1>2, <1>3, <1>11 DEF Owed, q, ok
  <2>2. ui' = [ui EXCEPT !.phase = IF ok THEN "done" ELSE "error"]
    BY <1>3, <2>1 DEF AuthFields
  <2>3. GoesOn(ui.busy, IF ok THEN "done" ELSE "error", ui.homing)
    BY <1>5, <2>2 DEF GoesOn
  <2> QED BY <1>1, <1>3, <1>11, <2>1, <2>3, PageGoesOn
<1> QED BY <1>2, <1>7, <1>8, <1>9, <1>10, <1>11 DEF Owed

\* A request that leaves a page whose button is free.
LEMMA AuthSends ==
  ASSUME AuthForms, NEW q, Send(q, [ui EXCEPT !.busy = TRUE]), ~ui.busy,
         \/ ui.at = "login" /\ q.op = "login"
         \/ ui.at = "register" /\ q.op = "register"
         \/ ui.at = "accept" /\ q.op = "register" /\ q.code = ui.token /\ ui.phase = "form"
         \/ ui.at = "forgot" /\ q.op = "forgot"
         \/ ui.at = "reset" /\ q.op = "reset"
  PROVE  AuthForms'
<1>1. AuthShape /\ AuthOwes /\ OnAccept /\ LockedNameIsInvited /\ DoneIsDone
  BY DEF AuthForms
<1>2. writes = <<>>
  BY <1>1 DEF AuthOwes, Owed
<1> DEFINE w == [req |-> q, awaits |-> FALSE, at |-> "sent", ok |-> TRUE]
<1>3. /\ writes' = <<w>> /\ server' = server /\ w.req = q /\ w.at = "sent"
      /\ DOMAIN w = {"req", "awaits", "at", "ok"} /\ ui' = [ui EXCEPT !.busy = TRUE]
  BY <1>2 DEF Send, Post
<1>4. /\ DOMAIN ui' = DOMAIN ui /\ ui'.busy
      /\ \A k \in {"at", "token", "code", "org", "timer", "lookup", "asked", "invite", "phase"} : ui'[k] = ui[k]
  BY <1>1, <1>3 DEF AuthShape
<1> HIDE DEF w
<1>5. AuthShape'
  BY <1>1, <1>3, <1>4 DEF AuthShape
<1>6. Owed(w)'
  BY <1>3, <1>4 DEF Owed, w
<1>7. OnAccept'
  BY <1>1, <1>3, <1>4 DEF OnAccept
<1>8. LockedNameIsInvited' /\ DoneIsDone'
  BY <1>1, <1>3, <1>4 DEF LockedNameIsInvited, IsInvitation, DoneIsDone
<1> QED BY <1>3, <1>5, <1>6, <1>7, <1>8 DEF AuthForms, AuthOwes

\* The half second after the last key, and the answers to the questions.
LEMMA AuthLooks == AuthForms /\ (DoLookup \/ LookupServed \/ LookupAnswered) => AuthForms'
<1> SUFFICES ASSUME AuthForms, DoLookup \/ LookupServed \/ LookupAnswered PROVE AuthForms'
  OBVIOUS
<1>1. AuthShape /\ AuthOwes /\ OnAccept /\ LockedNameIsInvited /\ DoneIsDone
  BY DEF AuthForms
<1>2. DOMAIN ui = {"at", "token", "code", "org", "timer", "lookup", "asked", "invite", "busy", "homing", "phase"}
  BY <1>1 DEF AuthShape
<1>3. CASE DoLookup
  <2>1. writes' = writes /\ server' = server /\ ui.at = "register"
    BY <1>3 DEF DoLookup, Render
  <2>2. CASE ui.code = NoCode
    <3>1. ui' = [ui EXCEPT !.timer = FALSE, !.lookup = NoLookup]
      BY <1>3, <2>2 DEF DoLookup, Render
    <3>2. /\ DOMAIN ui' = DOMAIN ui /\ ui'.lookup = NoLookup
          /\ \A k \in {"at", "token", "code", "org", "asked", "invite", "busy", "phase"} : ui'[k] = ui[k]
      BY <1>2, <3>1
    <3>3. AuthShape'
      BY <1>1, <2>1, <3>2, Blank DEF AuthShape
    <3>4. AuthOwes' /\ OnAccept' /\ DoneIsDone'
      BY <1>1, <2>1, <3>2 DEF AuthOwes, Owed, OnAccept, DoneIsDone
    <3>5. LockedNameIsInvited'
      BY <3>2 DEF LockedNameIsInvited, IsInvitation, NoLookup
    <3> QED BY <3>3, <3>4, <3>5 DEF AuthForms
  <2>3. CASE ui.code # NoCode
    <3> DEFINE asked == Append(ui.asked, Question(ui.code))
    <3>1. ui' = [ui EXCEPT !.timer = FALSE, !.lookup.checking = TRUE, !.asked = asked]
      BY <1>3, <2>3 DEF DoLookup, Render
    <3>2. asked \in Seq(Questions)
      <4>1. Question(ui.code) \in Questions
        BY <1>1, Blank DEF AuthShape, Question, Questions
      <4> QED BY <1>1, <4>1 DEF AuthShape
    <3> HIDE DEF asked
    <3>3. /\ DOMAIN ui' = DOMAIN ui /\ ui'.asked = asked /\ ui'.lookup = [ui.lookup EXCEPT !.checking = TRUE]
          /\ \A k \in {"at", "token", "code", "org", "invite", "busy", "phase"} : ui'[k] = ui[k]
      BY <1>2, <3>1
    <3>4. ui'.lookup \in Answers /\ \A k \in {"valid", "type", "org"} : ui'.lookup[k] = ui.lookup[k]
      BY <1>1, <3>3 DEF AuthShape, Answers
    <3>5. AuthShape'
      BY <1>1, <2>1, <3>2, <3>3, <3>4 DEF AuthShape
    <3>6. AuthOwes' /\ OnAccept' /\ DoneIsDone'
      BY <1>1, <2>1, <3>3 DEF AuthOwes, Owed, OnAccept, DoneIsDone
    <3>7. LockedNameIsInvited'
      BY <1>1, <3>3, <3>4 DEF LockedNameIsInvited, IsInvitation
    <3> QED BY <3>5, <3>6, <3>7 DEF AuthForms
  <2> QED BY <2>2, <2>3
<1>4. CASE LookupServed
  <2>0. PICK i \in DOMAIN ui.asked : \E a \in {Answer(ui.asked[i].code), Failed(ui.asked[i].code)} :
          /\ ui' = [ui EXCEPT !.asked[i].at = "served", !.asked[i].answer = a]
          /\ writes' = writes /\ server' = server
    BY <1>4 DEF LookupServed, Render
  <2>1. PICK a \in {Answer(ui.asked[i].code), Failed(ui.asked[i].code)} :
          /\ ui' = [ui EXCEPT !.asked[i].at = "served", !.asked[i].answer = a]
          /\ writes' = writes /\ server' = server
    BY <2>0
  <2> DEFINE q == ui.asked[i]
             served == [q EXCEPT !.at = "served", !.answer = a]
             asked == [ui.asked EXCEPT ![i] = served]
  <2>2. q \in Questions /\ q.code \in Codes
    <3>1. q \in Questions
      BY <1>1 DEF AuthShape
    <3> HIDE DEF q
    <3> QED BY <3>1 DEF Questions
  <2>3. served \in Questions /\ Honest(served) /\ served.code = q.code
    <3>1. /\ a \in Results
          /\ a.valid => \/ a.type = "org_invite_code"
                        \/ a.type = "invitation" /\ q.code \in Invitations /\ a.org = InviteOf[q.code]
      BY <2>2, AnswersHonest
    <3>2. /\ DOMAIN q = {"code", "answer", "at"} /\ DOMAIN served = DOMAIN q
          /\ served.at = "served" /\ served.answer = a /\ served.code = q.code
      <4>1. DOMAIN q = {"code", "answer", "at"}
        BY <2>2 DEF Questions
      <4> HIDE DEF q
      <4> QED BY <4>1
    <3>3. served \in Questions
      <4> HIDE DEF q
      <4> QED BY <2>2, <3>1 DEF Questions
    <3> HIDE DEF served
    <3> QED BY <3>1, <3>2, <3>3 DEF Honest
  <2>4. asked \in Seq(Questions)
    <3> HIDE DEF served
    <3> QED BY <1>1, <2>3 DEF AuthShape
  <2>5. /\ DOMAIN ui' = DOMAIN ui /\ ui'.asked = asked
        /\ \A k \in {"at", "token", "code", "org", "lookup", "invite", "busy", "phase"} : ui'[k] = ui[k]
    <3>1. ui' = [ui EXCEPT !.asked = asked]
      BY <1>2, <2>1
    <3> QED BY <1>2, <3>1
  <2> HIDE DEF q, served
  <2>6. AuthShape'
    <3>1. ui.asked # <<>>
      BY <1>1 DEF AuthShape
    <3> HIDE DEF asked
    <3> QED BY <1>1, <2>1, <2>4, <2>5, <3>1 DEF AuthShape
  <2>7. OnAccept'
    <3> SUFFICES ASSUME ui.at = "accept" PROVE OnAccept'
      BY <2>5 DEF OnAccept
    <3>1. ui.asked # <<>>
      BY <1>1 DEF AuthShape
    <3>2. PICK only : ui.asked = <<only>> /\ only.code = ui.token
      BY <1>1, <3>1 DEF OnAccept
    <3>3. asked = <<served>> /\ served.code = ui.token
      BY <2>3, <3>2 DEF q
    <3> QED BY <1>1, <2>1, <2>3, <2>5, <3>1, <3>3 DEF OnAccept
  <2> HIDE DEF asked
  <2>8. AuthOwes' /\ DoneIsDone' /\ LockedNameIsInvited'
    BY <1>1, <2>1, <2>5 DEF AuthOwes, Owed, DoneIsDone, LockedNameIsInvited, IsInvitation
  <2> QED BY <2>6, <2>7, <2>8, SMTT(30) DEF AuthForms
<1>5. CASE LookupAnswered
  <2>1. PICK i \in DOMAIN ui.asked :
          LET a == ui.asked[i].answer
              rest == [ui EXCEPT !.asked = RemoveAt(@, i)] IN
          /\ ui.asked[i].at = "served" /\ writes' = writes /\ server' = server
          /\ ui' = CASE ui.at = "register" -> FillOrganisation([rest EXCEPT !.lookup = a], a)
                     [] ui.at = "accept" /\ a.type = "org_invite_code" -> NewPage("register", ui.token)
                     [] OTHER -> [rest EXCEPT !.phase = IF a.valid THEN "form" ELSE "error", !.invite = a.org]
    BY <1>5, Zenon DEF LookupAnswered, Render
  <2> DEFINE q == ui.asked[i]
             a == q.answer
             asked == RemoveAt(ui.asked, i)
             rest == [ui EXCEPT !.asked = asked]
  <2>2. q \in Questions /\ a \in Answers /\ ui.asked # <<>> /\ q.at = "served"
    <3>1. q \in Questions /\ ui.asked # <<>>
      BY <1>1, <2>1 DEF AuthShape
    <3> HIDE DEF q
    <3> QED BY <2>1, <3>1 DEF Questions, Results, q
  <2>3. asked \in Seq(Questions)
    BY <1>1, Removed DEF AuthShape
  <2>4. CASE ui.at = "register"
    <3>1. ui' = FillOrganisation([rest EXCEPT !.lookup = a], a)
      <4> DEFINE x == FillOrganisation([rest EXCEPT !.lookup = a], a)
                 y == NewPage("register", ui.token)
                 z == [rest EXCEPT !.phase = IF a.valid THEN "form" ELSE "error", !.invite = a.org]
      <4>1. ui' = CASE ui.at = "register" -> x [] ui.at = "accept" /\ a.type = "org_invite_code" -> y [] OTHER -> z
        BY <2>1, Zenon
      <4>2. ui' = x
        <5> HIDE DEF x, y, z, a
        <5> QED BY <2>4, <4>1
      <4> QED BY <4>2
    <3> HIDE DEF a, asked
    <3>2. /\ DOMAIN ui' = DOMAIN ui /\ ui'.asked = asked /\ ui'.lookup = a
          /\ ui'.org = IF a.type = "invitation" THEN a.org ELSE ui.org
          /\ \A k \in {"at", "token", "code", "invite", "busy", "phase"} : ui'[k] = ui[k]
      BY <1>2, <3>1 DEF FillOrganisation
    <3>3. AuthShape'
      BY <1>1, <2>1, <2>2, <2>3, <2>4, <3>2 DEF AuthShape
    <3>4. AuthOwes'
      <4>1. ASSUME NEW w, Owed(w) PROVE Owed(w)'
        BY <2>1, <2>4, <3>2, <4>1, SMTT(30) DEF Owed
      <4> QED BY <1>1, <2>1, <4>1 DEF AuthOwes
    <3>6. OnAccept' /\ DoneIsDone'
      BY <1>1, <2>1, <2>4, <3>2 DEF OnAccept, DoneIsDone
    <3>5. LockedNameIsInvited'
      BY <2>4, <3>2 DEF LockedNameIsInvited, IsInvitation
    <3> QED BY <3>3, <3>4, <3>5, <3>6 DEF AuthForms
  <2>5. CASE ui.at = "accept"
    <3>1. PICK only : ui.asked = <<only>> /\ only.code = ui.token /\ Honest(only) /\ ui.phase = "loading"
      BY <1>1, <2>2, <2>5 DEF OnAccept
    <3>2. writes = <<>> /\ asked = <<>> /\ q = only
      <4>1. i \in DOMAIN <<only>>
        BY <3>1
      <4> QED BY <1>1, <2>5, <3>1, <4>1, RemoveOnly DEF OnAccept
    <3>3. CASE a.type = "org_invite_code"
      <4>1. ui' = NewPage("register", ui.token) /\ writes' = <<>>
        BY <2>1, <2>5, <3>2, <3>3
      <4>2. DOMAIN server' = {"accounts", "links", "password", "verified"}
        BY <1>1, <2>1 DEF AuthShape
      <4> QED BY <4>1, <4>2, Mounts
    <3>4. CASE a.type # "org_invite_code"
      <4>1. ui' = [rest EXCEPT !.phase = IF a.valid THEN "form" ELSE "error", !.invite = a.org]
        BY <2>1, <2>5, <3>4
      <4>2. a.valid => ui.token \in Invitations /\ a.org = InviteOf[ui.token]
        BY <2>2, <3>1, <3>2, <3>4 DEF Honest
      <4> HIDE DEF a, asked
      <4>3. /\ DOMAIN ui' = DOMAIN ui /\ ui'.asked = <<>> /\ ui'.invite = a.org
            /\ ui'.phase = IF a.valid THEN "form" ELSE "error"
            /\ \A k \in {"at", "token", "code", "org", "lookup", "busy"} : ui'[k] = ui[k]
        BY <1>2, <3>2, <4>1, SMTT(30)
      <4>4. AuthShape'
        BY <1>1, <2>1, <4>3, Blank DEF AuthShape
      <4>5. AuthOwes' /\ OnAccept' /\ DoneIsDone' /\ LockedNameIsInvited'
        BY <2>1, <2>5, <3>2, <4>2, <4>3 DEF AuthOwes, OnAccept, DoneIsDone, LockedNameIsInvited
      <4> QED BY <4>4, <4>5 DEF AuthForms
    <3> QED BY <3>3, <3>4
  <2> QED BY <1>1, <2>2, <2>4, <2>5 DEF AuthShape
<1> QED BY <1>3, <1>4, <1>5

\* What the user does, and an account that someone else makes.
LEMMA AuthFormsStep == AuthForms /\ AuthNext => AuthForms'
<1> SUFFICES ASSUME AuthForms, AuthNext PROVE AuthForms'
  OBVIOUS
<1>1. AuthShape /\ AuthOwes /\ OnAccept /\ LockedNameIsInvited /\ DoneIsDone
  BY DEF AuthForms
<1>2. DOMAIN ui = {"at", "token", "code", "org", "timer", "lookup", "asked", "invite", "busy", "homing", "phase"}
      /\ DOMAIN server = {"accounts", "links", "password", "verified"}
  BY <1>1 DEF AuthShape
<1>3. CASE DoLookup \/ LookupServed \/ LookupAnswered
  BY <1>3, AuthLooks
<1>4. ASSUME NEW c \in Codes, TypeCode(c) PROVE AuthForms'
  <2>1. ui' = [ui EXCEPT !.code = c, !.timer = TRUE] /\ server' = server /\ writes' = writes
    BY <1>4 DEF TypeCode, Click
  <2>2. /\ DOMAIN ui' = DOMAIN ui /\ ui'.code = c
        /\ \A k \in {"at", "token", "org", "lookup", "asked", "invite", "busy", "phase"} : ui'[k] = ui[k]
    BY <1>2, <2>1
  <2>3. AuthShape'
    BY <1>1, <2>1, <2>2 DEF AuthShape
  <2>4. AuthOwes' /\ OnAccept' /\ LockedNameIsInvited' /\ DoneIsDone'
    BY <1>1, <2>1, <2>2 DEF AuthOwes, Owed, OnAccept, LockedNameIsInvited, IsInvitation, DoneIsDone
  <2> QED BY <2>3, <2>4 DEF AuthForms
<1>5. CASE TypeOrg
  <2>1. ui' = [ui EXCEPT !.org = Company] /\ server' = server /\ writes' = writes /\ ~IsInvitation
    BY <1>5 DEF TypeOrg, Click
  <2>2. /\ DOMAIN ui' = DOMAIN ui
        /\ \A k \in {"at", "token", "code", "lookup", "asked", "invite", "busy", "phase"} : ui'[k] = ui[k]
    BY <1>2, <2>1
  <2>3. AuthShape'
    BY <1>1, <2>1, <2>2 DEF AuthShape
  <2>4. AuthOwes' /\ OnAccept' /\ LockedNameIsInvited' /\ DoneIsDone'
    BY <1>1, <2>1, <2>2 DEF AuthOwes, Owed, OnAccept, LockedNameIsInvited, IsInvitation, DoneIsDone
  <2> QED BY <2>3, <2>4 DEF AuthForms
<1>6. CASE Register \/ AcceptInvite
  <2>1. CASE Register
    BY <2>1, AuthSends DEF Register
  <2>2. CASE AcceptInvite
    BY <2>2, AuthSends DEF AcceptInvite
  <2> QED BY <1>6, <2>1, <2>2
<1>7. CASE LogInForm \/ ForgotPassword \/ ResetPassword
  BY <1>7, AuthSends DEF LogInForm, ForgotPassword, ResetPassword
<1>8. ASSUME NEW at \in {"login", "register", "forgot"}, GoTo(at) PROVE AuthForms'
  <2>1. ui' = NewPage(at, NoCode) /\ writes' = <<>> /\ server' = server
    BY <1>8 DEF GoTo, Leavable, Click
  <2> QED BY <1>2, <2>1, Mounts
<1>9. CASE GoesHome
  <2>1. ui' = NewPage("login", NoCode) /\ writes' = <<>> /\ server' = server
    BY <1>9 DEF GoesHome, Leavable, Render
  <2> QED BY <1>2, <2>1, Mounts
<1>10. ASSUME NEW c \in Codes, OpenInvite(c) PROVE AuthForms'
  <2> DEFINE phase == IF c = NoCode THEN "error" ELSE "loading"
             asked == IF c = NoCode THEN <<>> ELSE <<Question(c)>>
  <2>1. ui' = [NewPage("accept", c) EXCEPT !.phase = phase, !.asked = asked] /\ writes' = <<>> /\ server' = server
    BY <1>10 DEF OpenInvite, Leavable, Click
  <2>2. Question(c) \in Questions /\ Question(c).code = c /\ Honest(Question(c))
    BY Blank DEF Question, Questions, Honest
  <2>3. asked \in Seq(Questions) /\ (asked # <<>> => phase = "loading" /\ asked = <<Question(c)>>)
    BY <2>2
  <2> HIDE DEF phase, asked
  <2>4. /\ DOMAIN ui' = DOMAIN ui /\ ui'.at = "accept" /\ ui'.phase = phase /\ ui'.asked = asked /\ ui'.token = c
        /\ ui'.lookup = NoLookup /\ ui'.code = NoCode
    BY <1>2, <2>1 DEF NewPage
  <2>5. phase \in {"error", "loading"}
    BY DEF phase
  <2>6. AuthShape'
    BY <1>1, <2>1, <2>3, <2>4, Blank DEF AuthShape, Codes
  <2>7. AuthOwes' /\ OnAccept' /\ LockedNameIsInvited' /\ DoneIsDone'
    BY <2>1, <2>2, <2>3, <2>4, <2>5 DEF AuthOwes, OnAccept, LockedNameIsInvited, DoneIsDone
  <2> QED BY <2>6, <2>7 DEF AuthForms
<1>11. ASSUME NEW t, OpenReset(t) PROVE AuthForms'
  <2> DEFINE phase == IF t = NoCode THEN "error" ELSE "form"
  <2>1. ui' = [NewPage("reset", t) EXCEPT !.phase = phase] /\ writes' = <<>> /\ server' = server
    BY <1>11 DEF OpenReset, Leavable, Click
  <2>2. phase \in {"error", "form"}
    OBVIOUS
  <2> HIDE DEF phase
  <2>3. /\ DOMAIN ui' = DOMAIN ui /\ ui'.at = "reset" /\ ui'.phase = phase /\ ui'.asked = <<>>
        /\ ui'.lookup = NoLookup /\ ui'.code = NoCode
    BY <1>2, <2>1 DEF NewPage
  <2>4. AuthShape'
    BY <1>1, <2>1, <2>3, Blank DEF AuthShape, Codes
  <2>5. AuthOwes' /\ OnAccept' /\ LockedNameIsInvited' /\ DoneIsDone'
    BY <2>1, <2>2, <2>3 DEF AuthOwes, OnAccept, LockedNameIsInvited, DoneIsDone
  <2> QED BY <2>4, <2>5 DEF AuthForms
<1>12. CASE OpenVerification
  <2> DEFINE w == [req |-> [op |-> "verify"], awaits |-> FALSE, at |-> "sent", ok |-> TRUE]
  <2>1. ui' = [NewPage("verify", "link") EXCEPT !.phase = "loading"] /\ writes' = <<w>> /\ server' = server
    BY <1>12 DEF OpenVerification, Leavable, Send, Post
  <2>2. w.req.op = "verify" /\ w.at = "sent" /\ DOMAIN w = {"req", "awaits", "at", "ok"}
    OBVIOUS
  <2> HIDE DEF w
  <2>3. /\ DOMAIN ui' = DOMAIN ui /\ ui'.at = "verify" /\ ui'.phase = "loading" /\ ui'.asked = <<>>
        /\ ui'.lookup = NoLookup /\ ui'.code = NoCode
    BY <1>2, <2>1 DEF NewPage
  <2>4. AuthShape'
    BY <1>1, <2>1, <2>3, Blank DEF AuthShape, Codes
  <2>5. Owed(w)'
    BY <2>2, <2>3 DEF Owed
  <2>6. OnAccept' /\ LockedNameIsInvited' /\ DoneIsDone'
    BY <2>3 DEF OnAccept, LockedNameIsInvited, DoneIsDone
  <2> QED BY <2>1, <2>4, <2>5, <2>6 DEF AuthForms, AuthOwes
<1>13. ASSUME NEW c, UsedElsewhere(c) PROVE AuthForms'
  <2> DEFINE accounts == WithAccount(server.accounts, c, "theirs")
  <2>1. server' = [server EXCEPT !.accounts = accounts] /\ ui' = ui /\ writes' = writes
    BY <1>13 DEF UsedElsewhere
  <2>2. \A a \in DOMAIN server.accounts : a \in DOMAIN accounts /\ accounts[a] = server.accounts[a]
    BY DEF WithAccount
  <2> HIDE DEF accounts
  <2>3. /\ DOMAIN server' = DOMAIN server /\ server'.accounts = accounts
        /\ server'.password = server.password /\ server'.verified = server.verified
    BY <1>2, <2>1
  <2>4. AuthShape' /\ OnAccept' /\ LockedNameIsInvited' /\ DoneIsDone'
    BY <1>1, <2>1, <2>2, <2>3 DEF AuthShape, OnAccept, LockedNameIsInvited, IsInvitation, DoneIsDone
  <2>5. ASSUME NEW w, Owed(w) PROVE Owed(w)'
    BY <2>1, <2>2, <2>3, <2>5 DEF Owed
  <2>6. AuthOwes'
    BY <1>1, <2>1, <2>5 DEF AuthOwes
  <2> QED BY <2>4, <2>6 DEF AuthForms
<1>14. CASE ServeAllowed(AuthAllowed, AuthEffect)
  BY <1>14, AuthServes
<1>15. CASE Answered(AuthFields, NothingStale)
  BY <1>15, AuthAnswers
<1> QED
  BY <1>3, <1>4, <1>5, <1>6, <1>7, <1>8, <1>9, <1>10, <1>11, <1>12, <1>13, <1>14, <1>15 DEF AuthNext, Codes

\* What holds of the forms of the page that is open.
FormsInv ==
  /\ page = "settings" => SettingsForms
  /\ page = "admin" => AdminForms
  /\ page = "capex" => CapexForms
  /\ page = "investment" => InvestForms
  /\ page = "auth" => AuthForms

LEMMA FormsHold == Spec => []FormsInv
<1>1. Init => FormsInv
  <2> SUFFICES ASSUME Init PROVE FormsInv
    OBVIOUS
  <2>1. page = "settings" => SettingsForms
    <3> SUFFICES ASSUME page = "settings" PROVE SettingsForms
      OBVIOUS
    <3>1. PICK first : SettingsInit(first)
      BY DEF Init
    <3> QED BY <3>1 DEF SettingsInit, PageInit, SettingsForms, CostFields, BlankForm, FormsOfTheirRow
  <2>2. page = "admin" => AdminForms
    <3> SUFFICES ASSUME page = "admin" PROVE AdminForms
      OBVIOUS
    <3>1. AdminInit
      BY DEF Init
    <3> QED BY <3>1 DEF AdminInit, PageInit, AdminForms, RepliesOfTheirItem
  <2>3. page = "capex" => CapexForms
    <3> SUFFICES ASSUME page = "capex" PROVE CapexForms
      OBVIOUS
    <3>1. PICK first : CapexInit(first)
      BY DEF Init
    <3> QED BY <3>1 DEF CapexInit, PageInit, CapexForms, EmptyForm, CapexFormOfRecord
  <2>4. page = "investment" => InvestForms
    <3> SUFFICES ASSUME page = "investment" PROVE InvestForms
      OBVIOUS
    <3>1. PICK f, seen : InvestInit(f, seen, MCProjects)
      BY DEF Init
    <3> QED BY <3>1 DEF InvestInit, PageInit, InvestForms, InputFields, DEFAULT_INPUTS, KwhFollowsPanel, KwhInSync,
                        SuggestedKwh, RegimeFollowsPanel
  <2>5. page = "auth" => AuthForms
    BY AuthStarts DEF Init
  <2> QED BY <2>1, <2>2, <2>3, <2>4, <2>5 DEF FormsInv
<1>2. FormsInv /\ [Next]_<<pageVars, simpleVars, page>> => FormsInv'
  <2>1. ASSUME FormsInv, Next PROVE FormsInv'
    <3>1. page' = page
      BY <2>1 DEF Next
    <3>2. page = "settings" => SettingsNext
      BY <2>1 DEF Next, PageNext
    <3>3. page = "admin" => AdminNext
      BY <2>1 DEF Next, PageNext
    <3>4. page = "capex" => CapexNext
      BY <2>1 DEF Next, PageNext
    <3>5. page = "investment" => InvestNext
      BY <2>1 DEF Next, PageNext
    <3>6. page = "auth" => AuthNext
      BY <2>1 DEF Next, PageNext
    <3> QED BY <2>1, <3>1, <3>2, <3>3, <3>4, <3>5, <3>6, SettingsFormsStep, AdminFormsStep, CapexFormsStep,
               InvestFormsStep, AuthFormsStep DEF FormsInv
  <2>2. ASSUME FormsInv, UNCHANGED <<pageVars, simpleVars, page>> PROVE FormsInv'
    <3>1. ui' = ui /\ server' = server /\ writes' = writes /\ page' = page
      BY <2>2 DEF pageVars
    <3>2. (page = "settings" => SettingsForms') /\ (page = "admin" => AdminForms')
      BY <2>2, <3>1 DEF FormsInv, SettingsForms, FormsOfTheirRow, AdminForms, RepliesOfTheirItem
    <3>3. (page = "capex" => CapexForms') /\ (page = "investment" => InvestForms')
      BY <2>2, <3>1 DEF FormsInv, CapexForms, CapexFormOfRecord, InvestForms, KwhFollowsPanel, KwhInSync, SuggestedKwh,
                        RegimeFollowsPanel
    <3>4. page = "auth" => AuthForms'
      BY <2>2, <3>1 DEF FormsInv, AuthForms, AuthShape, AuthOwes, Owed, OnAccept, LockedNameIsInvited, IsInvitation,
                        DoneIsDone
    <3> QED BY <3>1, <3>2, <3>3, <3>4 DEF FormsInv
  <2> QED BY <2>1, <2>2
<1> QED BY <1>1, <1>2, PTL DEF Spec

\* A form holds the values of the row, item or invitation its page names, and what
\* depends on another field follows it, whatever the rows, the requests on their
\* way and the order of their answers.
THEOREM FormsStay == Spec => []FormsShowTheirRow
<1>1. FormsInv => FormsShowTheirRow
  <2> SUFFICES ASSUME FormsInv PROVE FormsShowTheirRow
    OBVIOUS
  <2>1. page = "settings" => FormsOfTheirRow
    BY DEF FormsInv, SettingsForms
  <2>2. page = "admin" => RepliesOfTheirItem
    BY DEF FormsInv, AdminForms
  <2>3. page = "capex" => CapexFormOfRecord
    BY DEF FormsInv, CapexForms
  <2>4. page = "investment" => KwhFollowsPanel /\ RegimeFollowsPanel
    BY DEF FormsInv, InvestForms
  <2>5. page = "auth" => LockedNameIsInvited /\ DoneIsDone
    BY DEF FormsInv, AuthForms
  <2> QED BY <2>1, <2>2, <2>3, <2>4, <2>5 DEF FormsShowTheirRow

<1> QED BY <1>1, FormsHold, PTL

-----------------------------------------------------------------------------
(* Lists *)

ListPages ==
  {"team", "settings", "admin", "leads", "investment", "map", "capex", "profile", "feedback", "notes"}

\* The lists the handler of a request that was granted asks for again.
StaleOf(q) ==
  IF page = "team" THEN TeamStale(q, TRUE) ELSE IF page = "settings" THEN SettingsStale(q, TRUE)
  ELSE IF page = "admin" THEN AdminStale(q, TRUE) ELSE IF page = "leads" THEN LeadsStale(q, TRUE)
  ELSE IF page = "investment" THEN InvestStale(q, TRUE) ELSE IF page = "capex" THEN CapexStale(q, TRUE)
  ELSE AccountStale(q, TRUE)

\* x is what the server holds; of the users of the administration, those of an
\* organisation it still has; of the team's lists, what Tells says of them.
Right(t, x) ==
  IF page = "admin" /\ t = "users"
  THEN \A o \in DOMAIN x : o \in DOMAIN server.orgs => x[o] = server.users[o]
  ELSE IF page = "team" THEN Tells(t, x)
  ELSE x = server[t]

\* A handler that was granted and has not gone on yet will ask for t.
Owing(t) == \E i \in DOMAIN writes : writes[i].at = "served" /\ writes[i].ok /\ t \in StaleOf(writes[i].req)

\* The session of the profile page has ended; it shows the lists no more.
Ended == page = "profile" /\ ~ui.signedIn

Current(t) ==
  \/ Owing(t) \/ Ended
  \/ fetching[t] = "asked"
  \/ fetching[t] = "read" /\ Right(t, reading[t])
  \/ fetching[t] = "no" /\ Right(t, shown[t])

WriteFields == {"req", "awaits", "at", "ok"}
InFlight == {writes[i] : i \in DOMAIN writes}
Shaped == writes \in Seq(InFlight) /\ \A i \in DOMAIN writes : DOMAIN writes[i] = WriteFields

Function(f, ts) == f = [t \in ts |-> f[t]]
Listed ==
  /\ Function(server, Tables) /\ Function(shown, Tables) /\ Function(reading, Tables)
  /\ fetching \in [Tables -> {"no", "asked", "read"}]
  /\ page = "admin" => {"orgs", "users"} \subseteq Tables /\ DOMAIN server.orgs = DOMAIN server.users
  /\ page = "capex" => "capex" \in Tables

ListsInv == Shaped /\ Listed /\ \A t \in Tables : Current(t)

\* What a handler leaves alone until its request is sent.
UserStep ==
  /\ UNCHANGED <<server, shown, fetching, reading, page>> /\ (Ended => Ended')
  /\ \/ writes' = writes
     \/ \E w : DOMAIN w = WriteFields /\ w.at = "sent" /\ writes' = Append(writes, w)

\* The user and the effects of a render leave what is current current.
LEMMA UserKeeps == ListsInv /\ UserStep => ListsInv'
<1> SUFFICES ASSUME ListsInv, UserStep PROVE ListsInv'
  OBVIOUS
<1>1. UNCHANGED <<server, shown, fetching, reading, page>>
  BY DEF UserStep
<1>2. Listed'
  BY <1>1 DEF ListsInv, Listed, Tables
<1>3. \A i \in DOMAIN writes : i \in DOMAIN writes' /\ writes'[i] = writes[i]
  <2>1. CASE writes' = writes
    BY <2>1
  <2>2. ASSUME NEW w, writes' = Append(writes, w) PROVE \A i \in DOMAIN writes : i \in DOMAIN writes' /\ writes'[i] = writes[i]
    BY <2>2, Appended DEF ListsInv, Shaped
  <2> QED BY <2>1, <2>2 DEF UserStep
<1>4. Shaped'
  <2>1. CASE writes' = writes
    BY <2>1 DEF ListsInv, Shaped, InFlight
  <2>2. ASSUME NEW w, DOMAIN w = WriteFields, writes' = Append(writes, w) PROVE Shaped'
    <3>1. writes' \in Seq(InFlight \cup {w}) /\ \A i \in DOMAIN writes' : (i \in DOMAIN writes /\ writes'[i] = writes[i]) \/ writes'[i] = w
      BY <1>3, <2>2, Appended DEF ListsInv, Shaped
    <3>2. writes' \in Seq(InFlight')
      BY <3>1, OwnElements DEF InFlight
    <3> QED BY <2>2, <3>1, <3>2 DEF ListsInv, Shaped
  <2> QED BY <2>1, <2>2 DEF UserStep
<1>5. ASSUME NEW t \in Tables PROVE Current(t)'
  <2>1. \A q : StaleOf(q)' = StaleOf(q)
    BY <1>1 DEF StaleOf
  <2>2. Owing(t) => Owing(t)'
    BY <1>3, <2>1 DEF Owing
  <2>3. \A x : Right(t, x) => Right(t, x)'
    BY <1>1 DEF Right, Tells
  <2>4. Current(t)
    BY DEF ListsInv
  <2>5. fetching[t]' = fetching[t] /\ reading[t]' = reading[t] /\ shown[t]' = shown[t]
    BY <1>1
  <2> QED BY <1>1, <2>2, <2>3, <2>4, <2>5 DEF Current, UserStep
<1>6. Tables' = Tables
  BY <1>1 DEF Tables
<1> QED BY <1>2, <1>4, <1>5, <1>6 DEF ListsInv

LEMMA ShapeRemoved ==
  ASSUME Shaped, NEW i \in DOMAIN writes, writes' = RemoveAt(writes, i)
  PROVE  Shaped'
<1>1. /\ writes' \in Seq(InFlight)
      /\ \A k \in DOMAIN writes' : \E j \in DOMAIN writes : writes'[k] = writes[j]
  BY Removed DEF Shaped
<1>2. writes' \in Seq(InFlight')
  BY <1>1, OwnElements DEF InFlight
<1> QED BY <1>1, <1>2 DEF Shaped

LEMMA ShapeReloading ==
  ASSUME Shaped, NEW i \in DOMAIN writes, writes' = [writes EXCEPT ![i].at = "reloading"]
  PROVE  Shaped'
<1>1. /\ DOMAIN writes' = DOMAIN writes /\ DOMAIN writes'[i] = DOMAIN writes[i]
      /\ \A j \in DOMAIN writes \ {i} : writes'[j] = writes[j]
  OBVIOUS
<1>2. writes' \in Seq(InFlight \cup {writes'[i]})
  BY <1>1 DEF Shaped
<1>3. writes' \in Seq({writes'[j] : j \in DOMAIN writes'})
  <2> DEFINE v == writes'
  <2>1. v \in Seq(InFlight \cup {v[i]})
    BY <1>2
  <2> HIDE DEF v
  <2>2. v \in Seq({v[j] : j \in DOMAIN v})
    BY <2>1, OwnElements
  <2> QED BY <2>2 DEF v
<1> QED BY <1>1, <1>3 DEF Shaped, InFlight

\* A handler that goes on asks for the lists its request changed.
LEMMA ListsAsked ==
  ASSUME ListsInv, UNCHANGED <<server, shown, reading, page>>, Ended => Ended', NEW i \in DOMAIN writes, NEW S, Ask(S),
         writes[i].at = "served" /\ writes[i].ok => StaleOf(writes[i].req) \subseteq S,
         \/ writes' = RemoveAt(writes, i)
         \/ writes[i].at = "served" /\ writes' = [writes EXCEPT ![i].at = "reloading"]
  PROVE  ListsInv'
<1>1. Tables' = Tables /\ \A q : StaleOf(q)' = StaleOf(q)
  BY DEF Tables, StaleOf
<1>2. Shaped /\ Listed /\ \A t \in Tables : Current(t)
  BY DEF ListsInv
<1>3. \A j \in DOMAIN writes \ {i} : \E k \in DOMAIN writes' : writes'[k] = writes[j]
  <2>1. CASE writes' = RemoveAt(writes, i)
    BY <1>2, <2>1, Removed DEF Shaped
  <2>2. CASE writes' = [writes EXCEPT ![i].at = "reloading"]
    <3>1. DOMAIN writes' = DOMAIN writes /\ \A j \in DOMAIN writes \ {i} : writes'[j] = writes[j]
      BY <2>2
    <3> QED BY <3>1
  <2> QED BY <2>1, <2>2
<1>4. Shaped'
  BY <1>2, ShapeRemoved, ShapeReloading
<1>5. fetching' = [t \in Tables |-> IF t \in S THEN "asked" ELSE fetching[t]]
  BY DEF Ask
<1>6. Listed'
  BY <1>1, <1>2, <1>5 DEF Listed
<1>7. ASSUME NEW t \in Tables PROVE Current(t)'
  <2>1. CASE t \in S
    BY <1>5, <2>1 DEF Current
  <2>2. CASE t \notin S
    <3>1. fetching'[t] = fetching[t]
      BY <1>5, <2>2
    <3>2. \A x : Right(t, x) => Right(t, x)'
      BY DEF Right, Tells
    <3>3. Owing(t) => Owing(t)'
      <4> SUFFICES ASSUME NEW j \in DOMAIN writes, writes[j].at = "served", writes[j].ok, t \in StaleOf(writes[j].req)
                   PROVE  Owing(t)'
        BY DEF Owing
      <4>1. j # i
        BY <2>2
      <4>2. PICK k \in DOMAIN writes' : writes'[k] = writes[j]
        BY <1>3, <4>1
      <4> QED BY <1>1, <4>2 DEF Owing
    <3>4. Current(t)
      BY <1>2
    <3> QED BY <3>1, <3>2, <3>3, <3>4 DEF Current
  <2> QED BY <2>1, <2>2
<1> QED BY <1>1, <1>4, <1>6, <1>7 DEF ListsInv

LEMMA ShapeServed ==
  ASSUME Shaped, NEW i \in DOMAIN writes, NEW ok, writes' = [writes EXCEPT ![i].at = "served", ![i].ok = ok]
  PROVE  Shaped'
<1>1. /\ DOMAIN writes' = DOMAIN writes /\ DOMAIN writes'[i] = DOMAIN writes[i]
      /\ \A j \in DOMAIN writes \ {i} : writes'[j] = writes[j]
  BY DEF Shaped, WriteFields
<1> DEFINE R == InFlight \cup {writes'[i]}
<1>2. Len(writes) \in Nat /\ DOMAIN writes = 1..Len(writes)
  BY DEF Shaped
<1>3. \A j \in DOMAIN writes' : writes'[j] \in R
  BY <1>1 DEF InFlight
<1>4. writes' = [j \in DOMAIN writes |-> writes'[j]]
  BY <1>1
<1> HIDE DEF R
<1>5. writes' \in [1..Len(writes) -> R]
  BY <1>1, <1>2, <1>3, <1>4
<1>6. writes' \in Seq(R)
  BY <1>2, <1>5, AsSequence
<1>7. writes' \in Seq({writes'[j] : j \in DOMAIN writes'})
  <2> DEFINE v == writes'
  <2>1. v \in Seq(R)
    BY <1>6
  <2> HIDE DEF v
  <2>2. v \in Seq({v[j] : j \in DOMAIN v})
    BY <2>1, OwnElements
  <2> QED BY <2>2 DEF v
<1> QED BY <1>1, <1>7 DEF Shaped, InFlight

\* What the server commits or refuses waits for its handler to go on.
LEMMA ListsServed ==
  ASSUME ListsInv, UNCHANGED <<shown, fetching, reading, page>>, Ended => Ended', NEW i \in DOMAIN writes, NEW ok \in BOOLEAN,
         writes[i].at = "sent", writes' = [writes EXCEPT ![i].at = "served", ![i].ok = ok],
         ~ok => server' = server, Listed',
         \A t \in Tables : t \in StaleOf(writes[i].req) \/ \A x : Right(t, x) => Right(t, x)',
         Tables' = Tables
  PROVE  ListsInv'
<1>1. \A q : StaleOf(q)' = StaleOf(q)
  BY DEF StaleOf
<1>2. Shaped /\ Listed /\ \A t \in Tables : Current(t)
  BY DEF ListsInv
<1>3. /\ DOMAIN writes' = DOMAIN writes /\ DOMAIN writes'[i] = DOMAIN writes[i]
      /\ \A j \in DOMAIN writes \ {i} : writes'[j] = writes[j]
      /\ writes'[i].at = "served" /\ writes'[i].ok = ok /\ writes'[i].req = writes[i].req
  BY <1>2 DEF Shaped, WriteFields
<1>4. Shaped'
  BY <1>2, ShapeServed
<1>5. ASSUME NEW t \in Tables PROVE Current(t)'
  <2>1. Owing(t) => Owing(t)'
    BY <1>1, <1>3 DEF Owing
  <2>2. CASE ok /\ t \in StaleOf(writes[i].req)
    <3>1. Owing(t)'
      BY <1>1, <1>3, <2>2 DEF Owing
    <3> QED BY <3>1 DEF Current
  <2>3. CASE ~ok
    <3>1. \A x : Right(t, x) => Right(t, x)'
      BY <2>3 DEF Right, Tells
    <3> QED BY <1>2, <2>1, <3>1 DEF Current
  <2>4. CASE t \notin StaleOf(writes[i].req)
    <3>1. \A x : Right(t, x) => Right(t, x)'
      BY <2>4
    <3> QED BY <1>2, <2>1, <3>1 DEF Current
  <2> QED BY <2>2, <2>3, <2>4
<1> QED BY <1>4, <1>5 DEF ListsInv

\* The page takes the answer that was read.
Displayed(t) ==
  /\ fetching[t] = "read" /\ fetching' = [fetching EXCEPT ![t] = "no"]
  /\ shown' = [shown EXCEPT ![t] = reading[t]] /\ UNCHANGED <<server, reading, writes>>

\* A revalidation reads the server and shows what it read.
LEMMA ListsFetched ==
  ASSUME ListsInv, page' = page, Ended => Ended', NEW t \in Tables, FetchRead(t) \/ Displayed(t)
  PROVE  ListsInv'
<1>1. server' = server /\ writes' = writes /\ Tables' = Tables /\ \A q : StaleOf(q)' = StaleOf(q)
  BY DEF FetchRead, Displayed, Tables, StaleOf
<1>2. Shaped /\ Listed /\ \A u \in Tables : Current(u)
  BY DEF ListsInv
<1>3. Shaped'
  BY <1>1, <1>2 DEF Shaped, InFlight
<1>4. \A u : (Owing(u) => Owing(u)') /\ \A x : Right(u, x) => Right(u, x)'
  BY <1>1 DEF Owing, Right, Tells
<1>5. Right(t, server[t])
  BY <1>2 DEF Right, Tells, Listed
<1>6. CASE FetchRead(t)
  <2>1. /\ fetching' = [fetching EXCEPT ![t] = "read"] /\ reading' = [reading EXCEPT ![t] = server[t]]
        /\ shown' = shown
    BY <1>6 DEF FetchRead
  <2>2. Listed'
    <3>1. Function(reading, Tables)'
      BY <1>1, <1>2, <2>1 DEF Listed, Function
    <3>2. fetching' \in [Tables -> {"no", "asked", "read"}]
      BY <1>2, <2>1 DEF Listed
    <3> QED BY <1>1, <1>2, <2>1, <3>1, <3>2 DEF Listed, Function
  <2>3. ASSUME NEW u \in Tables PROVE Current(u)'
    <3>1. CASE u = t
      <4>1. fetching'[u] = "read" /\ reading'[u] = server[u]
        BY <1>2, <2>1, <3>1 DEF Listed, Function
      <4>2. Right(u, reading[u])'
        BY <1>1, <1>5, <3>1, <4>1 DEF Right, Tells
      <4> QED BY <4>1, <4>2 DEF Current
    <3>2. CASE u # t
      <4>1. fetching'[u] = fetching[u] /\ reading'[u] = reading[u] /\ shown'[u] = shown[u]
        BY <1>2, <2>1, <3>2 DEF Listed, Function
      <4> QED BY <1>2, <1>4, <4>1 DEF Current
    <3> QED BY <3>1, <3>2
  <2> QED BY <1>1, <1>3, <2>2, <2>3 DEF ListsInv
<1>7. CASE Displayed(t)
  <2>1. /\ fetching[t] = "read" /\ fetching' = [fetching EXCEPT ![t] = "no"]
        /\ shown' = [shown EXCEPT ![t] = reading[t]] /\ reading' = reading
    BY <1>7 DEF Displayed
  <2>2. Listed'
    <3>1. Function(shown, Tables)'
      BY <1>1, <1>2, <2>1 DEF Listed, Function
    <3>2. fetching' \in [Tables -> {"no", "asked", "read"}]
      BY <1>2, <2>1 DEF Listed
    <3> QED BY <1>1, <1>2, <2>1, <3>1, <3>2 DEF Listed, Function
  <2>3. ASSUME NEW u \in Tables PROVE Current(u)'
    <3>1. CASE u = t
      <4>1. fetching'[u] = "no" /\ shown'[u] = reading[u]
        BY <1>2, <2>1, <3>1 DEF Listed, Function
      <4>2. Owing(u) \/ Ended \/ Right(u, reading[u])
        BY <1>2, <2>1, <3>1 DEF Current
      <4>3. Right(u, reading[u]) => Right(u, shown[u])'
        BY <1>1, <4>1 DEF Right, Tells
      <4> QED BY <1>4, <4>1, <4>2, <4>3 DEF Current
    <3>2. CASE u # t
      <4>1. fetching'[u] = fetching[u] /\ reading'[u] = reading[u] /\ shown'[u] = shown[u]
        BY <1>2, <2>1, <3>2 DEF Listed, Function
      <4> QED BY <1>2, <1>4, <4>1 DEF Current
    <3> QED BY <3>1, <3>2
  <2> QED BY <1>1, <1>3, <2>2, <2>3 DEF ListsInv
<1> QED BY <1>6, <1>7

LEMMA Clicks == ASSUME page' = page, ~Ended, NEW f, Click(f) \/ Render(f) PROVE UserStep
BY DEF Click, Render, UserStep

LEMMA Posts == ASSUME page' = page, ~Ended, NEW r, NEW a, NEW f, Post(r, a, f) PROVE UserStep
<1> DEFINE w == [req |-> r, awaits |-> a, at |-> "sent", ok |-> TRUE]
<1>1. writes' = Append(writes, w) /\ UNCHANGED <<server, shown, fetching, reading>>
  BY DEF Post
<1>2. DOMAIN w = WriteFields /\ w.at = "sent"
  BY DEF WriteFields
<1> HIDE DEF w
<1> QED BY <1>1, <1>2 DEF UserStep

\* Tables after a request: what its handler does not ask for is as it was.
EffectKeeps(q, data) == Function(data, Tables) /\ \A t \in Tables \ StaleOf(q) : data[t] = server[t]

\* One step of a request whose server is data.
ServedTo(i, ok, data) ==
  /\ writes[i].at = "sent" /\ writes' = [writes EXCEPT ![i].at = "served", ![i].ok = ok]
  /\ server' = (IF ok THEN data ELSE server) /\ UNCHANGED <<shown, fetching, reading, page>> /\ (Ended => Ended')

LEMMA PlainServed ==
  ASSUME ListsInv, page \notin {"admin", "team"}, NEW i \in DOMAIN writes, NEW ok \in BOOLEAN, NEW data,
         EffectKeeps(writes[i].req, data), ServedTo(i, ok, data)
  PROVE  ListsInv'
<1>1. UNCHANGED <<shown, fetching, reading, page>> /\ (Ended => Ended')
  BY DEF ServedTo
<1>2. Function(server', Tables) /\ \A t \in Tables \ StaleOf(writes[i].req) : server'[t] = server[t]
  BY DEF ServedTo, EffectKeeps, ListsInv, Listed
<1>3. Tables' = Tables
  BY <1>2 DEF Tables, Function
<1>4. Listed'
  BY <1>1, <1>2, <1>3 DEF ListsInv, Listed, Function
<1>5. \A t \in Tables \ StaleOf(writes[i].req) : \A x : Right(t, x) => Right(t, x)'
  BY <1>1, <1>2, SMTT(30) DEF Right
<1> QED BY <1>1, <1>3, <1>4, <1>5, ListsServed DEF ServedTo

\* What the team's handlers do not ask for is as they tell it: members as active,
\* roles with the same contents, the same invitations.
LEMMA TeamEffectKeeps ==
  ASSUME page = "team", page' = page, Function(server, Tables), NEW q, server' = TeamEffect(q)
  PROVE  /\ Function(server', Tables)
         /\ \A t \in Tables \ TeamStale(q, TRUE) : \A x : Right(t, x) => Right(t, x)'
<1>1. ASSUME NEW x PROVE Joined(x) = [t \in DOMAIN x |-> Joined(x)[t]]
  BY DEF Joined
<1>2. Function(server', Tables)
  <2>1. PICK k, v : server' = Joined([server EXCEPT ![k] = v])
    BY DEF TeamEffect
  <2>2. DOMAIN [server EXCEPT ![k] = v] = Tables
    BY DEF Tables
  <2> QED BY <1>1, <2>1, <2>2 DEF Function
<1>3. ASSUME NEW t \in Tables \ TeamStale(q, TRUE) PROVE
        /\ DOMAIN server'[t] = DOMAIN server[t]
        /\ t = "members" => \A p \in DOMAIN server[t] : server'[t][p].active = server[t][p].active
        /\ t = "roles" => \A r \in DOMAIN server[t] : server'[t][r].form = server[t][r].form
  <2>1. CASE q.op \in {"invite", "cancel"}
    BY <1>3, <2>1 DEF TeamEffect, TeamStale, TeamAsks, Joined, Tables
  <2>2. CASE q.op \in {"remove", "assign"}
    BY <1>3, <2>2 DEF TeamEffect, TeamStale, TeamAsks, Joined, Tables
  <2>3. CASE q.op \in {"put", "post"}
    BY <1>3, <2>3 DEF TeamEffect, TeamStale, TeamAsks, Joined, Tables
  <2>4. CASE q.op \notin {"invite", "cancel", "remove", "assign", "put", "post"}
    BY <1>3, <2>4 DEF TeamEffect, TeamStale, TeamAsks, Joined, Tables
  <2> QED BY <2>1, <2>2, <2>3, <2>4
<1> QED BY <1>2, <1>3 DEF Right, Tells

LEMMA LeadsEffectKeeps ==
  ASSUME page = "leads", Function(server, Tables), NEW q PROVE EffectKeeps(q, LeadsEffect(q))
BY DEF LeadsEffect, EffectKeeps, StaleOf, LeadsStale, Function, Tables

LEMMA SettingsEffectKeeps ==
  ASSUME page = "settings", Function(server, Tables), NEW q PROVE EffectKeeps(q, SettingsEffect(q))
BY DEF SettingsEffect, EffectKeeps, StaleOf, SettingsStale, Function, Tables

LEMMA InvestEffectKeeps ==
  ASSUME page = "investment", Function(server, Tables), NEW q PROVE EffectKeeps(q, InvestEffect(q))
BY DEF InvestEffect, EffectKeeps, StaleOf, InvestStale, Function, Tables

LEMMA CapexEffectKeeps ==
  ASSUME page = "capex", Function(server, Tables), NEW q PROVE EffectKeeps(q, CapexEffect(q))
BY DEF CapexEffect, EffectKeeps, StaleOf, CapexStale, Function, Tables

LEMMA AccountEffectKeeps ==
  ASSUME page \in {"feedback", "notes", "profile"}, Function(server, Tables), NEW q PROVE EffectKeeps(q, AccountEffect(q))
BY DEF AccountEffect, EffectKeeps, StaleOf, AccountStale, Function, Tables

\* The rest of the handlers and the revalidations of a page whose lists are S.
LEMMA TeamLists == ListsInv /\ page = "team" /\ page' = page /\ TeamNext => ListsInv'
<1> SUFFICES ASSUME ListsInv, page = "team", page' = page, TeamNext PROVE ListsInv'
  OBVIOUS
<1> USE DEF Ended
<1>1. CASE \/ \E i \in InviteIds : CancelInvite(i) \/ \E r \in RoleIds \cup {NoRole} : OnInvite(i, r)
           \/ \E p \in People : RemoveMember(p) \/ \E r \in RoleIds : AssignRole(p, r)
           \/ \E r \in RoleIds \cup {NoRole} : OpenRoleEditor(r)
           \/ \E r \in RoleIds : DeleteRole(r)
           \/ EditRole \/ CloseRoleEditor \/ SaveRole
  <2>1. UserStep
    BY <1>1, Clicks, Posts DEF OnInvite, CancelInvite, RemoveMember, AssignRole, OpenRoleEditor, DeleteRole, EditRole,
       CloseRoleEditor, SaveRole, Send
  <2> QED BY <2>1, UserKeeps
<1>2. CASE ServeAllowed(TeamAllowed, TeamEffect)
  <2>1. PICK i \in DOMAIN writes, ok \in BOOLEAN :
          /\ writes[i].at = "sent" /\ writes' = [writes EXCEPT ![i].at = "served", ![i].ok = ok]
          /\ server' = IF ok THEN TeamEffect(writes[i].req) ELSE server
    BY <1>2 DEF ServeAllowed
  <2>2. UNCHANGED <<shown, fetching, reading>>
    BY <1>2 DEF ServeAllowed
  <2>3. Function(server', Tables) /\ \A t \in Tables \ StaleOf(writes[i].req) : \A x : Right(t, x) => Right(t, x)'
    <3>1. CASE ok
      BY <2>1, <3>1, TeamEffectKeeps DEF ListsInv, Listed, StaleOf
    <3>2. CASE ~ok
      BY <2>1, <3>2 DEF ListsInv, Listed, Right, Tells
    <3> QED BY <3>1, <3>2
  <2>4. Tables' = Tables
    BY <2>3 DEF Tables, Function
  <2>5. Listed'
    BY <2>2, <2>3, <2>4 DEF ListsInv, Listed, Function
  <2> QED BY <2>1, <2>2, <2>3, <2>4, <2>5, ListsServed
<1>3. CASE Answered(TeamFields, TeamStale)
  <2>1. PICK i \in DOMAIN writes :
          /\ writes' = RemoveAt(writes, i)
          /\ \/ writes[i].at = "served" /\ Ask(TeamStale(writes[i].req, writes[i].ok))
             \/ writes[i].at = "reloading" /\ Ask({})
    BY <1>3 DEF Answered
  <2>2. UNCHANGED <<server, shown, reading>>
    BY <1>3 DEF Answered
  <2> QED BY <2>1, <2>2, ListsAsked DEF StaleOf
<1>4. ASSUME NEW t \in Tables, FetchRead(t) \/ FetchShown(t, NoEffect) PROVE ListsInv'
  <2>1. FetchRead(t) \/ Displayed(t)
    BY <1>4 DEF FetchShown, Displayed
  <2> QED BY <2>1, ListsFetched
<1> QED BY <1>1, <1>2, <1>3, <1>4 DEF TeamNext

LEMMA SettingsLists == ListsInv /\ page = "settings" /\ page' = page /\ SettingsNext => ListsInv'
<1> SUFFICES ASSUME ListsInv, page = "settings", page' = page, SettingsNext PROVE ListsInv'
  OBVIOUS
<1> USE DEF Ended
<1>1. CASE \/ \E r \in Rows : \/ OpenEdit(r) \/ ActivateConfig(r) \/ DeleteConfig(r)
                               \/ OpenEditAlert(r) \/ ToggleAlert(r) \/ DeleteAlert(r)
           \/ NewCost \/ CancelCost \/ EditCost \/ OnSave
           \/ OpenNewAlert \/ EditAlert \/ CancelAlert \/ SaveAlert
           \/ MoveSlider \/ SaveOperatingHours \/ SaveOrgSetting
  <2>1. UserStep
    BY <1>1, Clicks, Posts DEF OpenEdit, ActivateConfig, DeleteConfig, OpenEditAlert, ToggleAlert, DeleteAlert, NewCost,
       CancelCost, EditCost, OnSave, OpenNewAlert, EditAlert, CancelAlert, SaveAlert, MoveSlider, SaveOperatingHours,
       SaveOrgSetting, Send, SendAwaiting
  <2> QED BY <2>1, UserKeeps
<1>2. CASE Serve(SettingsEffect)
  <2>1. PICK i \in DOMAIN writes, ok \in BOOLEAN : ServedTo(i, ok, SettingsEffect(writes[i].req))
    BY <1>2 DEF Serve, ServeAllowed, ServedTo
  <2>2. EffectKeeps(writes[i].req, SettingsEffect(writes[i].req))
    BY SettingsEffectKeeps DEF ListsInv, Listed
  <2> QED BY <2>1, <2>2, PlainServed
<1>3. CASE Reload(SettingsStale)
  <2>1. PICK i \in DOMAIN writes : /\ writes[i].at = "served" /\ writes' = [writes EXCEPT ![i].at = "reloading"]
                                   /\ Ask(SettingsStale(writes[i].req, TRUE))
    BY <1>3 DEF Reload
  <2>2. UNCHANGED <<server, shown, reading>>
    BY <1>3 DEF Reload
  <2> QED BY <2>1, <2>2, ListsAsked DEF StaleOf
<1>4. CASE Answered(SettingsFields, SettingsStale)
  <2>1. PICK i \in DOMAIN writes :
          /\ writes' = RemoveAt(writes, i)
          /\ \/ writes[i].at = "served" /\ Ask(SettingsStale(writes[i].req, writes[i].ok))
             \/ writes[i].at = "reloading" /\ Ask({})
    BY <1>4 DEF Answered
  <2>2. UNCHANGED <<server, shown, reading>>
    BY <1>4 DEF Answered
  <2> QED BY <2>1, <2>2, ListsAsked DEF StaleOf
<1>5. ASSUME NEW t \in Tables, FetchRead(t) \/ FetchShown(t, SettingsArrived) PROVE ListsInv'
  <2>1. FetchRead(t) \/ Displayed(t)
    BY <1>5 DEF FetchShown, Displayed
  <2> QED BY <2>1, ListsFetched
<1> QED BY <1>1, <1>2, <1>3, <1>4, <1>5 DEF SettingsNext, Background

LEMMA LeadsLists == ListsInv /\ page = "leads" /\ page' = page /\ LeadsNext => ListsInv'
<1> SUFFICES ASSUME ListsInv, page = "leads", page' = page, LeadsNext PROVE ListsInv'
  OBVIOUS
<1> USE DEF Ended
<1>1. CASE \/ SetFilter \/ SetSearch \/ PreviousPage \/ NextPage \/ SetPeriod \/ SetDates
           \/ HandleAddEmail \/ CloseEmail
           \/ \E e \in EmailIds :
                HandleRemoveEmail(e) \/ StartEditingEmail(e) \/ ToggleEmailState(e) \/ HandleSaveEmailStates(e)
           \/ StartEditingConfig \/ EditConfig \/ CancelConfig \/ HandleSaveConfig
  <2>1. UserStep
    BY <1>1, Clicks, Posts DEF SetFilter, SetSearch, PreviousPage, NextPage, SetPeriod, SetDates, HandleAddEmail, CloseEmail,
       HandleRemoveEmail, StartEditingEmail, ToggleEmailState, HandleSaveEmailStates, StartEditingConfig, EditConfig,
       CancelConfig, HandleSaveConfig, Send
  <2> QED BY <2>1, UserKeeps
<1>2. CASE Serve(LeadsEffect)
  <2>1. PICK i \in DOMAIN writes, ok \in BOOLEAN : ServedTo(i, ok, LeadsEffect(writes[i].req))
    BY <1>2 DEF Serve, ServeAllowed, ServedTo
  <2>2. EffectKeeps(writes[i].req, LeadsEffect(writes[i].req))
    BY LeadsEffectKeeps DEF ListsInv, Listed
  <2> QED BY <2>1, <2>2, PlainServed
<1>3. CASE Reload(LeadsStale)
  <2>1. PICK i \in DOMAIN writes : /\ writes[i].at = "served" /\ writes' = [writes EXCEPT ![i].at = "reloading"]
                                   /\ Ask(LeadsStale(writes[i].req, TRUE))
    BY <1>3 DEF Reload
  <2>2. UNCHANGED <<server, shown, reading>>
    BY <1>3 DEF Reload
  <2> QED BY <2>1, <2>2, ListsAsked DEF StaleOf
<1>4. CASE Answered(LeadsFields, LeadsStale)
  <2>1. PICK i \in DOMAIN writes :
          /\ writes' = RemoveAt(writes, i)
          /\ \/ writes[i].at = "served" /\ Ask(LeadsStale(writes[i].req, writes[i].ok))
             \/ writes[i].at = "reloading" /\ Ask({})
    BY <1>4 DEF Answered
  <2>2. UNCHANGED <<server, shown, reading>>
    BY <1>4 DEF Answered
  <2> QED BY <2>1, <2>2, ListsAsked DEF StaleOf
<1>5. ASSUME NEW t \in Tables, FetchRead(t) \/ FetchShown(t, NoEffect) PROVE ListsInv'
  <2>1. FetchRead(t) \/ Displayed(t)
    BY <1>5 DEF FetchShown, Displayed
  <2> QED BY <2>1, ListsFetched
<1> QED BY <1>1, <1>2, <1>3, <1>4, <1>5 DEF LeadsNext, Background

LEMMA InvestLists == ListsInv /\ page = "investment" /\ page' = page /\ InvestNext => ListsInv'
<1> SUFFICES ASSUME ListsInv, page = "investment", page' = page, InvestNext PROVE ListsInv'
  OBVIOUS
<1> USE DEF Ended
<1>1. CASE \/ SwitchAnalysis
           \/ SetChargers \/ MoveHours \/ SetTerms \/ SetCapexModeAdvanced \/ SetCapexOverride \/ SelectRegime
           \/ ToggleFillPanel \/ HandleFillWithRealData \/ ToggleSavePanel \/ SaveProject
           \/ \E x \in shown.scenarios : LoadProject(x) \/ DeleteProject(x) \/ ImportProject(x)
  <2>1. UserStep
    BY <1>1, Clicks, Posts DEF SwitchAnalysis, SetChargers, MoveHours, SetTerms, SetCapexModeAdvanced, SetCapexOverride,
       SelectRegime, ToggleFillPanel, HandleFillWithRealData, ToggleSavePanel, SaveProject, LoadProject, DeleteProject,
       ImportProject, Send, SendAwaiting
  <2> QED BY <2>1, UserKeeps
<1>2. CASE Serve(InvestEffect)
  <2>1. PICK i \in DOMAIN writes, ok \in BOOLEAN : ServedTo(i, ok, InvestEffect(writes[i].req))
    BY <1>2 DEF Serve, ServeAllowed, ServedTo
  <2>2. EffectKeeps(writes[i].req, InvestEffect(writes[i].req))
    BY InvestEffectKeeps DEF ListsInv, Listed
  <2> QED BY <2>1, <2>2, PlainServed
<1>3. CASE Reload(InvestStale)
  <2>1. PICK i \in DOMAIN writes : /\ writes[i].at = "served" /\ writes' = [writes EXCEPT ![i].at = "reloading"]
                                   /\ Ask(InvestStale(writes[i].req, TRUE))
    BY <1>3 DEF Reload
  <2>2. UNCHANGED <<server, shown, reading>>
    BY <1>3 DEF Reload
  <2> QED BY <2>1, <2>2, ListsAsked DEF StaleOf
<1>4. CASE Answered(InvestFields, InvestStale)
  <2>1. PICK i \in DOMAIN writes :
          /\ writes' = RemoveAt(writes, i)
          /\ \/ writes[i].at = "served" /\ Ask(InvestStale(writes[i].req, writes[i].ok))
             \/ writes[i].at = "reloading" /\ Ask({})
    BY <1>4 DEF Answered
  <2>2. UNCHANGED <<server, shown, reading>>
    BY <1>4 DEF Answered
  <2> QED BY <2>1, <2>2, ListsAsked DEF StaleOf
<1>5. ASSUME NEW t \in Tables, FetchRead(t) \/ FetchShown(t, NoEffect) PROVE ListsInv'
  <2>1. FetchRead(t) \/ Displayed(t)
    BY <1>5 DEF FetchShown, Displayed
  <2> QED BY <2>1, ListsFetched
<1> QED BY <1>1, <1>2, <1>3, <1>4, <1>5 DEF InvestNext, Background

LEMMA CapexLists == ListsInv /\ page = "capex" /\ page' = page /\ CapexNext => ListsInv'
<1> SUFFICES ASSUME ListsInv, page = "capex", page' = page, CapexNext PROVE ListsInv'
  OBVIOUS
<1> USE DEF Ended
<1>1. CASE \/ OpenAdd \/ EditForm \/ CloseForm \/ HandleSave
           \/ \E x \in CapexRows : OpenCapex(x) \/ HandleDelete(x)
  <2>1. UserStep
    BY <1>1, Clicks, Posts DEF OpenAdd, EditForm, CloseForm, HandleSave, OpenCapex, HandleDelete, Send
  <2> QED BY <2>1, UserKeeps
<1>2. CASE ServeAllowed(CapexAllowed, CapexEffect)
  <2>1. PICK i \in DOMAIN writes, ok \in BOOLEAN : ServedTo(i, ok, CapexEffect(writes[i].req))
    BY <1>2 DEF ServeAllowed, ServedTo
  <2>2. EffectKeeps(writes[i].req, CapexEffect(writes[i].req))
    BY CapexEffectKeeps DEF ListsInv, Listed
  <2> QED BY <2>1, <2>2, PlainServed
<1>3. CASE Answered(CapexFields, CapexStale)
  <2>1. PICK i \in DOMAIN writes :
          /\ writes' = RemoveAt(writes, i)
          /\ \/ writes[i].at = "served" /\ Ask(CapexStale(writes[i].req, writes[i].ok))
             \/ writes[i].at = "reloading" /\ Ask({})
    BY <1>3 DEF Answered
  <2>2. UNCHANGED <<server, shown, reading>>
    BY <1>3 DEF Answered
  <2> QED BY <2>1, <2>2, ListsAsked DEF StaleOf, CapexStale
<1>4. CASE FetchRead("capex") \/ FetchShown("capex", NoEffect)
  <2>1. FetchRead("capex") \/ Displayed("capex")
    BY <1>4 DEF FetchShown, Displayed
  <2>2. "capex" \in Tables
    BY DEF ListsInv, Listed
  <2> QED BY <2>1, <2>2, ListsFetched
<1> QED BY <1>1, <1>2, <1>3, <1>4 DEF CapexNext

LEMMA MapLists == ListsInv /\ page = "map" /\ page' = page /\ MapNext => ListsInv'
<1> SUFFICES ASSUME ListsInv, page = "map", page' = page, MapNext PROVE ListsInv'
  BY Zenon
<1>1. UserStep
  BY Clicks DEF Ended, MapNext, SelectUF, UFArrives, UFFails, NationalArrives, MunicipalFileArrives, ChargersArrive,
     CollapseSidebar, Remount
<1> QED BY <1>1, UserKeeps

\* The feedback, the notes and the profile, as long as its session lasts.
LEMMA AccountSteps ==
  ListsInv /\ page \in {"feedback", "notes", "profile"} /\ page' = page /\ (Ended => Ended') /\ AccountBackground => ListsInv'
<1> SUFFICES ASSUME ListsInv, page \in {"feedback", "notes", "profile"}, page' = page, Ended => Ended', AccountBackground
             PROVE  ListsInv'
  OBVIOUS
<1>1. CASE Serve(AccountEffect)
  <2>1. PICK i \in DOMAIN writes, ok \in BOOLEAN : ServedTo(i, ok, AccountEffect(writes[i].req))
    BY <1>1 DEF Serve, ServeAllowed, ServedTo
  <2>2. EffectKeeps(writes[i].req, AccountEffect(writes[i].req))
    BY AccountEffectKeeps DEF ListsInv, Listed
  <2> QED BY <2>1, <2>2, PlainServed
<1>2. CASE Reload(AccountStale)
  <2>1. PICK i \in DOMAIN writes : /\ writes[i].at = "served" /\ writes' = [writes EXCEPT ![i].at = "reloading"]
                                   /\ Ask(AccountStale(writes[i].req, TRUE))
    BY <1>2 DEF Reload
  <2>2. UNCHANGED <<server, shown, reading>>
    BY <1>2 DEF Reload
  <2> QED BY <2>1, <2>2, ListsAsked DEF StaleOf
<1>3. CASE Answered(AccountFields, AccountStale)
  <2>1. PICK i \in DOMAIN writes :
          /\ writes' = RemoveAt(writes, i)
          /\ \/ writes[i].at = "served" /\ Ask(AccountStale(writes[i].req, writes[i].ok))
             \/ writes[i].at = "reloading" /\ Ask({})
    BY <1>3 DEF Answered
  <2>2. UNCHANGED <<server, shown, reading>>
    BY <1>3 DEF Answered
  <2> QED BY <2>1, <2>2, ListsAsked DEF StaleOf
<1>4. ASSUME NEW t \in Tables, FetchRead(t) \/ FetchShown(t, NoEffect) PROVE ListsInv'
  <2>1. FetchRead(t) \/ Displayed(t)
    BY <1>4 DEF FetchShown, Displayed
  <2> QED BY <2>1, ListsFetched
<1> QED BY <1>1, <1>2, <1>3, <1>4 DEF AccountBackground, Background

LEMMA FeedbackLists ==
  ListsInv /\ page = "feedback" /\ page' = page /\ (TypeFeedback \/ HandleSubmit \/ AccountBackground) => ListsInv'
<1> SUFFICES ASSUME ListsInv, page = "feedback", page' = page, TypeFeedback \/ HandleSubmit \/ AccountBackground
             PROVE  ListsInv'
  OBVIOUS
<1> USE DEF Ended
<1>1. CASE TypeFeedback \/ HandleSubmit
  <2>1. UserStep
    BY <1>1, Clicks, Posts DEF TypeFeedback, HandleSubmit, SendAwaiting
  <2> QED BY <2>1, UserKeeps
<1> QED BY <1>1, AccountSteps

LEMMA NotesLists ==
  ListsInv /\ page = "notes" /\ page' = page /\ (NotesNext \/ AccountBackground) => ListsInv'
<1> SUFFICES ASSUME ListsInv, page = "notes", page' = page, NotesNext \/ AccountBackground PROVE ListsInv'
  OBVIOUS
<1> USE DEF Ended
<1>1. CASE NotesNext
  <2>1. UserStep
    BY <1>1, Clicks, Posts DEF NotesNext, OpenDriver, CloseDriver, TypeNote, SaveNote, SendAwaiting
  <2> QED BY <2>1, UserKeeps
<1> QED BY <1>1, AccountSteps

\* What is on its way from the profile is of the profile.
ProfileShape ==
  /\ DOMAIN ui = {"name", "nameLoading", "current", "new", "confirm", "pwLoading", "uploadingLogo", "signedIn"}
  /\ \A i \in DOMAIN writes : writes[i].req.op \in {"name", "password", "logo"}

LEMMA ProfileFieldsKeep ==
  ASSUME ProfileShape, NEW i \in DOMAIN writes, NEW ok, ui' = AccountFields(writes[i].req, ok)
  PROVE  DOMAIN ui' = DOMAIN ui /\ ui'.signedIn = ui.signedIn
<1>1. writes[i].req.op \in {"name", "password", "logo"}
  BY DEF ProfileShape
<1>2. ui' = ProfileFields(writes[i].req, ok)
  BY <1>1 DEF AccountFields
<1> QED BY <1>1, <1>2 DEF ProfileFields, ProfileShape

LEMMA ProfileLists ==
  /\ ListsInv /\ ProfileShape /\ page = "profile" /\ page' = page /\ (ProfileNext \/ AccountBackground)
  => ListsInv' /\ ProfileShape'
<1> SUFFICES ASSUME ListsInv, ProfileShape, page = "profile", page' = page, ProfileNext \/ AccountBackground
             PROVE  ListsInv' /\ ProfileShape'
  OBVIOUS
<1>1. ASSUME ui.signedIn, TypeName \/ TypePassword PROVE ListsInv' /\ ProfileShape'
  <2>1. UserStep
    BY <1>1, Clicks DEF TypeName, TypePassword, Ended
  <2>2. DOMAIN ui' = DOMAIN ui /\ writes' = writes
    BY <1>1 DEF TypeName, TypePassword, Click, ProfileShape
  <2> QED BY <2>1, <2>2, UserKeeps DEF ProfileShape
<1>2. ASSUME ui.signedIn, HandleSaveName \/ HandleChangePassword \/ UploadLogo \/ RemoveLogo
      PROVE  ListsInv' /\ ProfileShape'
  <2>1. UserStep
    BY <1>2, Posts DEF HandleSaveName, HandleChangePassword, UploadLogo, RemoveLogo, Send, SendAwaiting, Ended
  <2>2. DOMAIN ui' = DOMAIN ui
    BY <1>2 DEF HandleSaveName, HandleChangePassword, UploadLogo, RemoveLogo, Send, SendAwaiting, Post, ProfileShape
  <2>3. PICK w : writes' = Append(writes, w) /\ w.req.op \in {"name", "password", "logo"}
    <3>1. PICK r, a, f : Post(r, a, f) /\ r.op \in {"name", "password", "logo"}
      <4>1. CASE HandleSaveName
        <5> DEFINE q == [op |-> "name", name |-> ui.name]
                   g == [ui EXCEPT !.nameLoading = TRUE]
        <5>1. Post(q, TRUE, g)
          BY <4>1 DEF HandleSaveName, SendAwaiting
        <5>2. q.op = "name"
          OBVIOUS
        <5> HIDE DEF q, g
        <5> QED BY <5>1, <5>2
      <4>2. CASE HandleChangePassword
        <5> DEFINE q == [op |-> "password", new |-> ui.new]
                   g == [ui EXCEPT !.pwLoading = TRUE]
        <5>1. Post(q, FALSE, g)
          BY <4>2 DEF HandleChangePassword, Send
        <5>2. q.op = "password"
          OBVIOUS
        <5> HIDE DEF q, g
        <5> QED BY <5>1, <5>2
      <4>3. CASE UploadLogo
        <5> DEFINE q == [op |-> "logo", logo |-> "image"]
                   g == [ui EXCEPT !.uploadingLogo = TRUE]
        <5>1. Post(q, TRUE, g)
          BY <4>3 DEF UploadLogo, SendAwaiting
        <5>2. q.op = "logo"
          OBVIOUS
        <5> HIDE DEF q, g
        <5> QED BY <5>1, <5>2
      <4>4. CASE RemoveLogo
        <5> DEFINE q == [op |-> "logo", logo |-> "none"]
                   g == ui
        <5>1. Post(q, TRUE, g)
          BY <4>4 DEF RemoveLogo, SendAwaiting
        <5>2. q.op = "logo"
          OBVIOUS
        <5> HIDE DEF q, g
        <5> QED BY <5>1, <5>2
      <4> QED BY <1>2, <4>1, <4>2, <4>3, <4>4
    <3> DEFINE w == [req |-> r, awaits |-> a, at |-> "sent", ok |-> TRUE]
    <3>2. writes' = Append(writes, w) /\ w.req = r
      BY <3>1 DEF Post
    <3> HIDE DEF w
    <3> QED BY <3>1, <3>2
  <2>4. \A i \in DOMAIN writes' : (i \in DOMAIN writes /\ writes'[i] = writes[i]) \/ writes'[i] = w
    BY <2>3, Appended DEF ListsInv, Shaped
  <2> QED BY <2>1, <2>2, <2>3, <2>4, UserKeeps DEF ProfileShape
<1>3. ASSUME ui.signedIn, RefreshFails PROVE ListsInv' /\ ProfileShape'
  <2>1. /\ ui' = [ui EXCEPT !.signedIn = FALSE] /\ fetching' = [fetching EXCEPT !["me"] = "no"]
        /\ UNCHANGED <<server, shown, reading, writes>>
    BY <1>3 DEF RefreshFails
  <2>2. ProfileShape' /\ Ended'
    BY <2>1 DEF ProfileShape, Ended
  <2>3. Tables' = Tables
    BY <2>1 DEF Tables
  <2>4. Shaped'
    BY <2>1 DEF ListsInv, Shaped, InFlight
  <2>5. Listed'
    <3>1. fetching' \in [Tables -> {"no", "asked", "read"}]
      BY <2>1 DEF ListsInv, Listed
    <3> QED BY <2>1, <2>3, <3>1 DEF ListsInv, Listed
  <2> QED BY <2>2, <2>3, <2>4, <2>5 DEF ListsInv, Current
<1>4. CASE AccountBackground
  <2>1. ProfileShape' /\ (Ended => Ended')
    <3>1. CASE Serve(AccountEffect) \/ Reload(AccountStale) \/ \E t \in Tables : FetchRead(t) \/ FetchShown(t, NoEffect)
      <4>1. ui' = ui
        BY <3>1 DEF Serve, ServeAllowed, Reload, FetchRead, FetchShown, NoEffect
      <4>2. \A i \in DOMAIN writes' : i \in DOMAIN writes /\ writes'[i].req = writes[i].req
        <5>1. CASE Serve(AccountEffect)
          BY <5>1 DEF Serve, ServeAllowed, ListsInv, Shaped, WriteFields
        <5>2. CASE Reload(AccountStale)
          BY <5>2 DEF Reload, ListsInv, Shaped, WriteFields
        <5>3. CASE \E t \in Tables : FetchRead(t) \/ FetchShown(t, NoEffect)
          BY <5>3 DEF FetchRead, FetchShown
        <5> QED BY <3>1, <5>1, <5>2, <5>3
      <4> QED BY <4>1, <4>2 DEF ProfileShape, Ended
    <3>2. CASE Answered(AccountFields, AccountStale)
      <4>1. PICK i \in DOMAIN writes : writes' = RemoveAt(writes, i) /\ ui' = AccountFields(writes[i].req, writes[i].ok)
        BY <3>2 DEF Answered
      <4>2. DOMAIN ui' = DOMAIN ui /\ ui'.signedIn = ui.signedIn
        BY <4>1, ProfileFieldsKeep
      <4>3. \A k \in DOMAIN writes' : \E j \in DOMAIN writes : writes'[k] = writes[j]
        BY <4>1, Removed DEF ListsInv, Shaped
      <4> QED BY <4>2, <4>3 DEF ProfileShape, Ended
    <3> QED BY <1>4, <3>1, <3>2 DEF AccountBackground, Background
  <2> QED BY <1>4, <2>1, AccountSteps
<1> QED BY <1>1, <1>2, <1>3, <1>4 DEF ProfileNext

\* Of the users, a request that is not about one leaves those of the organisations
\* that remain.
LEMMA AdminEffectKeeps ==
  ASSUME page = "admin", Listed, NEW q
  PROVE  /\ Function(AdminEffect(q), Tables)
         /\ DOMAIN AdminEffect(q).orgs = DOMAIN AdminEffect(q).users
         /\ \A t \in Tables \ (StaleOf(q) \cup {"users"}) : AdminEffect(q)[t] = server[t]
         /\ "users" \notin StaleOf(q) =>
              \A o \in DOMAIN AdminEffect(q).orgs :
                o \in DOMAIN server.orgs /\ AdminEffect(q).users[o] = server.users[o]
<1>1. {"orgs", "users"} \subseteq Tables /\ DOMAIN server.orgs = DOMAIN server.users /\ Function(server, Tables)
  BY DEF Listed
<1>2. StaleOf(q) = AdminStale(q, TRUE)
  BY DEF StaleOf
<1>3. CASE q.op = "org"
  <2>1. "users" \notin StaleOf(q) /\ "orgs" \in StaleOf(q)
    BY <1>2, <1>3 DEF AdminStale
  <2>2. AdminEffect(q) = server \/ AdminEffect(q) = [server EXCEPT !.orgs[q.org][q.field] = q.value]
    BY <1>3 DEF AdminEffect
  <2> QED BY <1>1, <2>1, <2>2 DEF Function, Tables
<1>4. CASE q.op = "deleteOrg"
  <2>1. "users" \notin StaleOf(q) /\ {"orgs", "stats"} \subseteq StaleOf(q)
    BY <1>2, <1>4 DEF AdminStale
  <2>2. AdminEffect(q) = [server EXCEPT !.orgs = Drop(@, q.org), !.users = Drop(@, q.org),
                                           !.stats = Cardinality(DOMAIN server.orgs \ {q.org})]
    BY <1>4 DEF AdminEffect
  <2> DEFINE data == AdminEffect(q)
  <2>3. /\ Function(data, Tables) /\ \A t \in Tables \ {"orgs", "users", "stats"} : data[t] = server[t]
        /\ data.orgs = Drop(server.orgs, q.org) /\ data.users = Drop(server.users, q.org)
    BY <1>1, <2>2 DEF Function, Tables
  <2> HIDE DEF data
  <2>4. DOMAIN data.orgs = DOMAIN server.orgs \ {q.org} /\ DOMAIN data.users = DOMAIN server.users \ {q.org}
    BY <2>3 DEF Drop
  <2>5. \A o \in DOMAIN data.orgs : data.users[o] = server.users[o]
    BY <1>1, <2>3, <2>4 DEF Drop
  <2>6. /\ Function(data, Tables) /\ DOMAIN data.orgs = DOMAIN data.users
        /\ \A t \in Tables \ (StaleOf(q) \cup {"users"}) : data[t] = server[t]
        /\ \A o \in DOMAIN data.orgs : o \in DOMAIN server.orgs /\ data.users[o] = server.users[o]
    BY <1>1, <2>1, <2>3, <2>4, <2>5
  <2> QED BY <2>6 DEF data
<1>5. CASE q.op = "user"
  <2>1. "users" \in StaleOf(q)
    BY <1>2, <1>5 DEF AdminStale
  <2>2. AdminEffect(q) = server \/ AdminEffect(q) = [server EXCEPT !.users[q.org][q.field] = q.value]
    BY <1>5 DEF AdminEffect
  <2> QED BY <1>1, <2>1, <2>2 DEF Function, Tables
<1>6. CASE q.op \notin {"org", "deleteOrg", "user"}
  <2>1. "users" \notin StaleOf(q)
    BY <1>2, <1>6 DEF AdminStale
  <2>2. \/ AdminEffect(q) = server
        \/ \E x : AdminEffect(q) = [server EXCEPT !.codes = x] /\ "codes" \in StaleOf(q)
        \/ \E x : AdminEffect(q) = [server EXCEPT !.feedback = x] /\ "feedback" \in StaleOf(q)
        \/ \E x : AdminEffect(q) = [server EXCEPT !.plans = x] /\ "plans" \in StaleOf(q)
    BY <1>2, <1>6 DEF AdminEffect, AdminStale
  <2>3. ASSUME NEW k \in {"codes", "feedback", "plans"}, k \in StaleOf(q), NEW x, AdminEffect(q) = [server EXCEPT ![k] = x]
        PROVE  /\ Function(AdminEffect(q), Tables)
               /\ \A t \in Tables \ {k} : AdminEffect(q)[t] = server[t]
               /\ AdminEffect(q).orgs = server.orgs /\ AdminEffect(q).users = server.users
    BY <1>1, <2>3 DEF Function, Tables
  <2> QED BY <1>1, <2>1, <2>2, <2>3 DEF Function
<1> QED BY <1>3, <1>4, <1>5, <1>6

LEMMA AdminServed ==
  ASSUME ListsInv, page = "admin", NEW i \in DOMAIN writes, NEW ok \in BOOLEAN, ServedTo(i, ok, AdminEffect(writes[i].req))
  PROVE  ListsInv'
<1> DEFINE q == writes[i].req
<1>1. UNCHANGED <<shown, fetching, reading, page>> /\ (Ended => Ended') /\ server' = (IF ok THEN AdminEffect(q) ELSE server)
  BY DEF ServedTo
<1>2. Listed
  BY DEF ListsInv
<1>3. /\ Function(server', Tables) /\ DOMAIN server'.orgs = DOMAIN server'.users
      /\ \A t \in Tables \ (StaleOf(q) \cup {"users"}) : server'[t] = server[t]
      /\ "users" \notin StaleOf(q) =>
           \A o \in DOMAIN server'.orgs : o \in DOMAIN server.orgs /\ server'.users[o] = server.users[o]
  <2>1. CASE ok
    <3>1. server' = AdminEffect(q)
      BY <1>1, <2>1
    <3> HIDE DEF q
    <3>2. /\ Function(AdminEffect(q), Tables)
          /\ DOMAIN AdminEffect(q).orgs = DOMAIN AdminEffect(q).users
          /\ \A t \in Tables \ (StaleOf(q) \cup {"users"}) : AdminEffect(q)[t] = server[t]
          /\ "users" \notin StaleOf(q) =>
               \A o \in DOMAIN AdminEffect(q).orgs :
                 o \in DOMAIN server.orgs /\ AdminEffect(q).users[o] = server.users[o]
      BY <1>2, AdminEffectKeeps
    <3> QED BY <3>1, <3>2
  <2>2. CASE ~ok
    BY <1>1, <1>2, <2>2 DEF Listed
  <2> QED BY <2>1, <2>2
<1> HIDE DEF q
<1>4. Tables' = Tables
  BY <1>3 DEF Tables, Function
<1>5. Listed'
  BY <1>1, <1>2, <1>3, <1>4 DEF Listed, Function
<1>6. ASSUME NEW t \in Tables \ StaleOf(q), NEW x, Right(t, x) PROVE Right(t, x)'
  BY <1>1, <1>3, <1>6 DEF Right
<1>7. \A t \in Tables : t \in StaleOf(q) \/ \A x : Right(t, x) => Right(t, x)'
  BY <1>6
<1> QED BY <1>1, <1>4, <1>5, <1>7, ListsServed DEF ServedTo, q

LEMMA AdminLists == ListsInv /\ page = "admin" /\ page' = page /\ AdminNext => ListsInv'
<1> SUFFICES ASSUME ListsInv, page = "admin", page' = page, AdminNext PROVE ListsInv'
  OBVIOUS
<1> USE DEF Ended
<1>1. CASE \/ \E o \in DOMAIN shown.orgs :
                UpdateOrgStatus(o) \/ UpdateOrgPlan(o) \/ DeleteOrg(o) \/ OpenTrial(o) \/ UpdateTrialDays(o)
           \/ CancelTrial
           \/ \E o \in DOMAIN shown.users : ToggleUser(o)
           \/ CreateInviteCode \/ DeleteAllPendingCodes \/ \E c \in CodeIds : DeleteInviteCode(c)
           \/ \E f \in DOMAIN shown.feedback :
                UpdateFeedbackStatus(f) \/ DeleteFeedback(f) \/ Respond(f) \/ RespondFeedback(f)
           \/ StartEdit \/ CancelEdit \/ EditDraft \/ SavePlan
  <2>1. UserStep
    BY <1>1, Clicks, Posts DEF Act, UpdateOrgStatus, UpdateOrgPlan, DeleteOrg, OpenTrial, UpdateTrialDays, CancelTrial,
       ToggleUser, CreateInviteCode, DeleteAllPendingCodes, DeleteInviteCode, UpdateFeedbackStatus, DeleteFeedback, Respond,
       RespondFeedback, StartEdit, CancelEdit, EditDraft, SavePlan, Send, SendAwaiting
  <2> QED BY <2>1, UserKeeps
<1>2. CASE Serve(AdminEffect)
  <2>1. PICK i \in DOMAIN writes, ok \in BOOLEAN : ServedTo(i, ok, AdminEffect(writes[i].req))
    BY <1>2 DEF Serve, ServeAllowed, ServedTo
  <2> QED BY <2>1, AdminServed
<1>3. CASE Reload(AdminStale)
  <2>1. PICK i \in DOMAIN writes : /\ writes[i].at = "served" /\ writes' = [writes EXCEPT ![i].at = "reloading"]
                                   /\ Ask(AdminStale(writes[i].req, TRUE))
    BY <1>3 DEF Reload
  <2>2. UNCHANGED <<server, shown, reading>>
    BY <1>3 DEF Reload
  <2> QED BY <2>1, <2>2, ListsAsked DEF StaleOf
<1>4. CASE Answered(AdminFields, AdminStale)
  <2>1. PICK i \in DOMAIN writes :
          /\ writes' = RemoveAt(writes, i)
          /\ \/ writes[i].at = "served" /\ Ask(AdminStale(writes[i].req, writes[i].ok))
             \/ writes[i].at = "reloading" /\ Ask({})
    BY <1>4 DEF Answered
  <2>2. UNCHANGED <<server, shown, reading>>
    BY <1>4 DEF Answered
  <2> QED BY <2>1, <2>2, ListsAsked DEF StaleOf
<1>5. ASSUME NEW t \in Tables, FetchRead(t) \/ FetchShown(t, NoEffect) PROVE ListsInv'
  <2>1. FetchRead(t) \/ Displayed(t)
    BY <1>5 DEF FetchShown, Displayed
  <2> QED BY <2>1, ListsFetched
<1> QED BY <1>1, <1>2, <1>3, <1>4, <1>5 DEF AdminNext, Background

-----------------------------------------------------------------------------
(* Files and figures *)

\* The files whose answer is on its way as done.
ReadDone == IF fetching.files = "read" THEN Done(reading.files) ELSE {}

\* An upload the server has not seen yet, and a request it has granted and whose
\* handler has not gone on.
Uploading(w) == w.at = "sent" /\ w.req.op \in {"upload", "example", "demo"}
Granted(w) == w.at = "served" /\ w.ok

FileFields ==
  {"at", "mount", "fresh", "prevDone", "seen", "uploading", "loadingExample", "loadingDemo", "demo", "demoOf", "dismissed"}
FilesShape ==
  /\ Shaped /\ DOMAIN ui = FileFields /\ ui.at \in {"files", "dashboard"}
  /\ \A x \in {server, shown, reading, fetching} : DOMAIN x = {"files", "figures"}
  /\ \A t \in Tables : fetching[t] \in {"no", "asked", "read"}

\* Nobody has seen the file of an upload, and no two are of one file.
UploadsAreNew ==
  \A i \in DOMAIN writes : Uploading(writes[i]) =>
    /\ writes[i].req.file \notin ui.seen \cup DOMAIN server.files \cup Done(shown.files) \cup ReadDone
    /\ \A j \in DOMAIN writes \ {i} : Uploading(writes[j]) => writes[j].req.file # writes[i].req.file

\* A file that is read as done is there, or its deletion is about to be told.
ReadsAccounted ==
  \A f \in ReadDone : f \in DOMAIN server.files \/ \E i \in DOMAIN writes : Granted(writes[i]) /\ writes[i].req.file = f

SeenIsKept == ui.prevDone \subseteq ui.seen /\ (ui.at = "files" => Done(shown.files) \subseteq ui.seen)

\* Whatever is done or was ever shown as done is among the figures.
DoneIngested ==
  \A f \in DOMAIN server.files :
    f \in ui.seen \cup Done(shown.files) \cup ReadDone \cup Done(server.files) => f \in server.figures

\* The figures that are shown, or about to be, have every file that was seen as
\* done; away from the dashboard only while a return would not ask for them.
FiguresKept ==
  ui.at = "dashboard" \/ ui.fresh =>
    /\ fetching.figures = "no" => (ui.seen \cap server.figures) \subseteq shown.figures
    /\ fetching.figures = "read" => (ui.seen \cap server.figures) \subseteq reading.figures

FilesInv == FilesShape /\ UploadsAreNew /\ ReadsAccounted /\ SeenIsKept /\ DoneIngested /\ FiguresKept

\* What the page remembers of the files.
Remembered == <<ui.at, ui.fresh, ui.prevDone, ui.seen>>

LEMMA FilesStart == ASSUME NEW first, FilesInit(first) PROVE FilesInv
<1>1. /\ server = [files |-> first, figures |-> Done(first)] /\ shown = server /\ reading = server /\ writes = <<>>
      /\ fetching = [t \in DOMAIN server |-> "no"] /\ ui.seen = {} /\ ui.prevDone = {} /\ ui.at = "dashboard"
      /\ DOMAIN ui = FileFields
  BY DEF FilesInit, PageInit, FileFields
<1>2. DOMAIN server = {"files", "figures"} /\ server.files = first /\ server.figures = Done(first)
  BY <1>1
<1>3. FilesShape
  BY <1>1, <1>2 DEF FilesShape, Shaped, Tables
<1>4. UploadsAreNew /\ SeenIsKept /\ FiguresKept /\ ReadsAccounted
  BY <1>1, <1>2 DEF UploadsAreNew, SeenIsKept, FiguresKept, ReadsAccounted, ReadDone
<1>5. DoneIngested
  BY <1>1, <1>2 DEF DoneIngested, ReadDone
<1> QED BY <1>3, <1>4, <1>5 DEF FilesInv

LEMMA FilesRemain ==
  ASSUME FilesInv, UNCHANGED <<server, shown, fetching, reading, writes>>, DOMAIN ui' = DOMAIN ui, UNCHANGED Remembered
  PROVE  FilesInv'
<1>1. ui'.at = ui.at /\ ui'.fresh = ui.fresh /\ ui'.prevDone = ui.prevDone /\ ui'.seen = ui.seen
  BY DEF Remembered
<1>2. ReadDone' = ReadDone
  BY DEF ReadDone, Done
<1>3. FilesShape'
  BY <1>1 DEF FilesInv, FilesShape, Shaped, InFlight, Tables
<1>4. UploadsAreNew' /\ ReadsAccounted'
  BY <1>1, <1>2 DEF FilesInv, UploadsAreNew, ReadsAccounted, Uploading, Granted, Done
<1>5. SeenIsKept' /\ DoneIngested' /\ FiguresKept'
  BY <1>1, <1>2 DEF FilesInv, SeenIsKept, DoneIngested, FiguresKept, Done
<1> QED BY <1>3, <1>4, <1>5 DEF FilesInv

\* A click that sends a request: an upload is of a new file.
LEMMA FilesPosted ==
  ASSUME FilesInv, NEW w, DOMAIN w = WriteFields, w.at = "sent", writes' = Append(writes, w),
         UNCHANGED <<server, shown, fetching, reading>>, DOMAIN ui' = DOMAIN ui, UNCHANGED Remembered,
         Uploading(w) => w.req.file \in New /\ (ui.at = "files" \/ Done(shown.files) = {})
  PROVE  FilesInv'
<1>1. ui'.at = ui.at /\ ui'.fresh = ui.fresh /\ ui'.prevDone = ui.prevDone /\ ui'.seen = ui.seen
  BY DEF Remembered
<1>2. ReadDone' = ReadDone
  BY DEF ReadDone, Done
<1>3. Shaped /\ FilesShape
  BY DEF FilesInv, FilesShape
<1>4. /\ writes' \in Seq(InFlight \cup {w})
      /\ \A i \in DOMAIN writes : i \in DOMAIN writes' /\ writes'[i] = writes[i]
  BY <1>3, Appended DEF Shaped
<1>5. DOMAIN writes = 1..Len(writes) /\ Len(writes) \in Nat /\ DOMAIN writes' = 1..(Len(writes) + 1)
  BY <1>3 DEF Shaped
<1>6. writes'[Len(writes) + 1] = w
  BY <1>3, <1>5 DEF Shaped
<1>7. Shaped'
  <2>1. writes' \in Seq(InFlight')
    <3> DEFINE v == writes'
    <3>1. v \in Seq(InFlight \cup {w})
      BY <1>4
    <3> HIDE DEF v
    <3>2. v \in Seq({v[i] : i \in DOMAIN v})
      BY <3>1, OwnElements
    <3> QED BY <3>2 DEF v, InFlight
  <2> QED BY <1>3, <1>4, <1>5, <1>6, <2>1 DEF Shaped
<1>8. FilesShape'
  BY <1>1, <1>3, <1>7 DEF FilesShape, Tables
<1>9. UploadsAreNew'
  <2> DEFINE f == w.req.file
  <2>1. Uploading(w) => /\ f \notin ui.seen \cup DOMAIN server.files /\ \A i \in DOMAIN writes : writes[i].req.file # f
    BY DEF New
  <2>2. Uploading(w) => f \notin Done(shown.files) \cup ReadDone
    BY <2>1 DEF FilesInv, SeenIsKept, ReadsAccounted
  <2>3. UploadsAreNew
    BY DEF FilesInv
  <2>4. ASSUME NEW i \in DOMAIN writes', Uploading(writes'[i])
        PROVE  writes'[i].req.file \notin ui.seen \cup DOMAIN server.files \cup Done(shown.files) \cup ReadDone
    <3>1. CASE i \in DOMAIN writes
      BY <1>4, <2>3, <2>4, <3>1 DEF UploadsAreNew
    <3>2. CASE i = Len(writes) + 1
      BY <1>6, <2>1, <2>2, <2>4, <3>2
    <3> QED BY <1>5, <3>1, <3>2
  <2>5. ASSUME NEW i \in DOMAIN writes', NEW j \in DOMAIN writes' \ {i}, Uploading(writes'[i]), Uploading(writes'[j])
        PROVE  writes'[j].req.file # writes'[i].req.file
    <3>1. CASE i \in DOMAIN writes /\ j \in DOMAIN writes
      BY <1>4, <2>3, <2>5, <3>1 DEF UploadsAreNew
    <3>2. CASE i = Len(writes) + 1 /\ j \in DOMAIN writes
      BY <1>4, <1>6, <2>1, <2>5, <3>2
    <3>3. CASE j = Len(writes) + 1 /\ i \in DOMAIN writes
      BY <1>4, <1>6, <2>1, <2>5, <3>3
    <3> QED BY <1>5, <3>1, <3>2, <3>3
  <2> QED BY <1>1, <1>2, <2>4, <2>5 DEF UploadsAreNew, Uploading, Done
<1>10. ReadsAccounted'
  BY <1>2, <1>4 DEF FilesInv, ReadsAccounted, Granted
<1>11. SeenIsKept' /\ DoneIngested' /\ FiguresKept'
  BY <1>1, <1>2 DEF FilesInv, SeenIsKept, DoneIngested, FiguresKept, Done
<1> QED BY <1>8, <1>9, <1>10, <1>11 DEF FilesInv

\* A request whose handler has gone on leaves the uploads on their way apart.
LEMMA UploadsStayNew ==
  ASSUME Shaped, UploadsAreNew, UNCHANGED <<server, shown>>, ui'.seen = ui.seen, ReadDone' \subseteq ReadDone,
         NEW i \in DOMAIN writes, writes' = RemoveAt(writes, i)
  PROVE  UploadsAreNew'
<1>1. /\ DOMAIN writes = 1..Len(writes) /\ Len(writes) \in Nat /\ DOMAIN writes' = 1..(Len(writes) - 1)
      /\ \A k \in 1..(Len(writes) - 1) : writes'[k] = IF k < i THEN writes[k] ELSE writes[k + 1]
  BY Shifted DEF Shaped
<1> DEFINE from(k) == IF k < i THEN k ELSE k + 1
<1>2. \A k \in DOMAIN writes' : from(k) \in DOMAIN writes /\ writes'[k] = writes[from(k)]
  BY <1>1
<1>3. \A j, k \in DOMAIN writes' : j # k => from(j) # from(k)
  BY <1>1
<1> HIDE DEF from
<1> QED BY <1>2, <1>3 DEF UploadsAreNew, Uploading, Done

\* A handler or a poll asks for the list; the answer on its way is dropped.
LEMMA FilesAsked ==
  ASSUME FilesInv, Shaped', UNCHANGED <<server, shown, reading>>, DOMAIN ui' = DOMAIN ui, UNCHANGED Remembered,
         fetching' = [t \in Tables |-> IF t = "files" THEN "asked" ELSE fetching[t]],
         \/ writes' = writes
         \/ \E i \in DOMAIN writes : ~Uploading(writes[i]) /\
              (writes' = RemoveAt(writes, i) \/ writes' = [writes EXCEPT ![i].at = "reloading"])
  PROVE  FilesInv'
<1>1. ui'.at = ui.at /\ ui'.fresh = ui.fresh /\ ui'.prevDone = ui.prevDone /\ ui'.seen = ui.seen
  BY DEF Remembered
<1>2. FilesShape /\ Shaped /\ Tables = {"files", "figures"}
  BY DEF FilesInv, FilesShape, Tables
<1>3. fetching'.files = "asked" /\ fetching'.figures = fetching.figures
  BY <1>2
<1>4. ReadDone' = {}
  BY <1>3 DEF ReadDone
<1>5. FilesShape'
  BY <1>1, <1>2 DEF FilesShape, Tables
<1>6. UploadsAreNew'
  <2>1. UploadsAreNew
    BY DEF FilesInv
  <2>2. CASE writes' = writes
    BY <1>1, <1>4, <2>1, <2>2 DEF UploadsAreNew, Uploading, Done
  <2>3. ASSUME NEW i \in DOMAIN writes, writes' = RemoveAt(writes, i) PROVE UploadsAreNew'
    BY <1>1, <1>2, <1>4, <2>1, <2>3, UploadsStayNew
  <2>4. ASSUME NEW i \in DOMAIN writes, writes' = [writes EXCEPT ![i].at = "reloading"] PROVE UploadsAreNew'
    <3>1. DOMAIN writes' = DOMAIN writes /\ \A j \in DOMAIN writes \ {i} : writes'[j] = writes[j]
      BY <2>4
    <3>2. writes'[i].at = "reloading"
      BY <1>2, <2>4 DEF Shaped, WriteFields
    <3> QED BY <1>1, <1>4, <2>1, <3>1, <3>2 DEF UploadsAreNew, Uploading, Done
  <2> QED BY <2>2, <2>3, <2>4
<1>7. ReadsAccounted'
  BY <1>4 DEF ReadsAccounted
<1>8. SeenIsKept' /\ DoneIngested' /\ FiguresKept'
  BY <1>1, <1>3, <1>4 DEF FilesInv, SeenIsKept, DoneIngested, FiguresKept, Done
<1> QED BY <1>5, <1>6, <1>7, <1>8 DEF FilesInv

\* A handler that was refused, or whose list has come, goes on without asking.
LEMMA FilesDropped ==
  ASSUME FilesInv, Shaped', UNCHANGED <<server, shown, reading>>, DOMAIN ui' = DOMAIN ui, UNCHANGED Remembered,
         fetching' = [t \in Tables |-> fetching[t]],
         NEW i \in DOMAIN writes, ~Granted(writes[i]), ~Uploading(writes[i]), writes' = RemoveAt(writes, i)
  PROVE  FilesInv'
<1>1. ui'.at = ui.at /\ ui'.fresh = ui.fresh /\ ui'.prevDone = ui.prevDone /\ ui'.seen = ui.seen
  BY DEF Remembered
<1>2. FilesShape /\ Shaped /\ Tables = {"files", "figures"}
  BY DEF FilesInv, FilesShape, Tables
<1>3. ReadDone' = ReadDone /\ fetching'.figures = fetching.figures
  BY <1>2 DEF ReadDone, Done
<1>4. FilesShape'
  BY <1>1, <1>2 DEF FilesShape, Tables
<1>5. UploadsAreNew'
  BY <1>1, <1>2, <1>3, UploadsStayNew DEF FilesInv
<1>6. ReadsAccounted'
  <2>1. \A j \in DOMAIN writes \ {i} : \E k \in DOMAIN writes' : writes'[k] = writes[j]
    BY <1>2, Removed DEF Shaped
  <2> SUFFICES ASSUME NEW f \in ReadDone, f \notin DOMAIN server.files
               PROVE  \E k \in DOMAIN writes' : Granted(writes'[k]) /\ writes'[k].req.file = f
    BY <1>3 DEF ReadsAccounted, Granted
  <2>2. PICK j \in DOMAIN writes : Granted(writes[j]) /\ writes[j].req.file = f
    BY DEF FilesInv, ReadsAccounted
  <2>3. PICK k \in DOMAIN writes' : writes'[k] = writes[j]
    BY <2>1, <2>2
  <2> QED BY <2>2, <2>3
<1>7. SeenIsKept' /\ DoneIngested' /\ FiguresKept'
  BY <1>1, <1>3 DEF FilesInv, SeenIsKept, DoneIngested, FiguresKept, Done
<1> QED BY <1>4, <1>5, <1>6, <1>7 DEF FilesInv

\* The server grants or refuses a request.
LEMMA FilesServed == FilesInv /\ ServeAllowed(FilesAllowed, FilesEffect) => FilesInv'
<1> SUFFICES ASSUME FilesInv, ServeAllowed(FilesAllowed, FilesEffect) PROVE FilesInv'
  OBVIOUS
<1>1. PICK i \in DOMAIN writes, ok \in BOOLEAN :
        /\ writes[i].at = "sent" /\ (ok => FilesAllowed(writes[i].req))
        /\ writes' = [writes EXCEPT ![i].at = "served", ![i].ok = ok]
        /\ server' = IF ok THEN FilesEffect(writes[i].req) ELSE server
  BY DEF ServeAllowed
<1>2. UNCHANGED <<shown, fetching, reading, ui>> /\ ReadDone' = ReadDone
  BY DEF ServeAllowed, ReadDone, Done
<1> DEFINE q == writes[i].req
<1>3. FilesShape /\ Shaped
  BY DEF FilesInv, FilesShape
<1>4. /\ DOMAIN writes' = DOMAIN writes /\ DOMAIN writes'[i] = DOMAIN writes[i]
      /\ \A j \in DOMAIN writes \ {i} : writes'[j] = writes[j]
      /\ writes'[i].at = "served" /\ writes'[i].ok = ok /\ writes'[i].req = q
  BY <1>1, <1>3 DEF Shaped, WriteFields
<1>5. Shaped'
  BY <1>1, <1>3, ShapeServed
<1>6. /\ DOMAIN server' = {"files", "figures"} /\ DOMAIN server = {"files", "figures"}
      /\ \/ server'.files = server.files /\ server'.figures = server.figures
         \/ /\ ok /\ q.op \in {"upload", "example", "demo"} /\ server'.figures = server.figures
            /\ DOMAIN server'.files = DOMAIN server.files \cup {q.file} /\ server'.files[q.file] = "pending"
            /\ \A f \in DOMAIN server.files \ {q.file} : server'.files[f] = server.files[f]
         \/ /\ ok /\ q.op = "reprocess" /\ server'.figures = server.figures
            /\ DOMAIN server'.files = DOMAIN server.files
            /\ \A f \in DOMAIN server.files : server'.files[f] \in {"pending", server.files[f]}
         \/ /\ ok /\ q.op = "delete" /\ server'.figures = server.figures \ {q.file}
            /\ DOMAIN server'.files = DOMAIN server.files \ {q.file}
            /\ \A f \in DOMAIN server'.files : server'.files[f] = server.files[f]
  <2>1. DOMAIN server = {"files", "figures"}
    BY <1>3 DEF FilesShape
  <2>2. CASE server' = server
    BY <2>1, <2>2
  <2>3. CASE ok /\ q.op \in {"upload", "example", "demo"}
    <3>1. CASE q.file \in DOMAIN server.files
      <4>1. server' = server
        BY <1>1, <2>3, <3>1 DEF FilesEffect
      <4> QED BY <2>1, <4>1
    <3>2. CASE q.file \notin DOMAIN server.files
      <4>1. server' = [server EXCEPT !.files = [f \in DOMAIN @ \cup {q.file} |-> IF f = q.file THEN "pending" ELSE @[f]]]
        BY <1>1, <2>3, <3>2 DEF FilesEffect
      <4>2. /\ DOMAIN server' = DOMAIN server /\ server'.figures = server.figures
            /\ server'.files = [f \in DOMAIN server.files \cup {q.file} |-> IF f = q.file THEN "pending" ELSE server.files[f]]
        BY <2>1, <4>1
      <4> HIDE DEF q
      <4> QED BY <2>1, <2>3, <4>2
    <3> QED BY <3>1, <3>2
  <2>4. CASE ok /\ q.op = "reprocess"
    <3>1. server' = [server EXCEPT !.files[q.file] = "pending"]
      BY <1>1, <2>4 DEF FilesEffect
    <3>2. /\ DOMAIN server' = DOMAIN server /\ server'.figures = server.figures
          /\ server'.files = [server.files EXCEPT ![q.file] = "pending"]
      BY <2>1, <3>1
    <3> HIDE DEF q
    <3> QED BY <2>1, <2>4, <3>2
  <2>5. CASE ok /\ q.op = "delete"
    <3>1. server' = [server EXCEPT !.files = [f \in DOMAIN @ \ {q.file} |-> @[f]], !.figures = @ \ {q.file}]
      BY <1>1, <2>5 DEF FilesEffect
    <3>2. /\ DOMAIN server' = DOMAIN server /\ server'.figures = server.figures \ {q.file}
          /\ server'.files = [f \in DOMAIN server.files \ {q.file} |-> server.files[f]]
      BY <2>1, <3>1
    <3> HIDE DEF q
    <3> QED BY <2>1, <2>5, <3>2
  <2>6. CASE ok /\ q.op \notin {"upload", "example", "demo", "reprocess", "delete"}
    <3>1. server' = server
      BY <1>1, <2>6 DEF FilesEffect
    <3> QED BY <2>1, <3>1
  <2>7. ~ok => server' = server
    BY <1>1
  <2> QED BY <2>2, <2>3, <2>4, <2>5, <2>6, <2>7
<1> HIDE DEF q
<1>7. FilesShape'
  BY <1>2, <1>3, <1>5, <1>6 DEF FilesShape, Tables
<1>8. q.op \in {"upload", "example", "demo"} =>
        /\ q.file \notin ui.seen \cup DOMAIN server.files \cup Done(shown.files) \cup ReadDone
        /\ \A j \in DOMAIN writes \ {i} : Uploading(writes[j]) => writes[j].req.file # q.file
  BY <1>1 DEF FilesInv, UploadsAreNew, Uploading, q
<1>9. UploadsAreNew'
  <2> SUFFICES ASSUME NEW j \in DOMAIN writes', Uploading(writes'[j])
               PROVE  /\ writes'[j].req.file \notin ui.seen \cup DOMAIN server'.files \cup Done(shown.files) \cup ReadDone
                      /\ \A k \in DOMAIN writes' \ {j} : Uploading(writes'[k]) => writes'[k].req.file # writes'[j].req.file
    BY <1>2 DEF UploadsAreNew, Uploading, Done
  <2>1. j # i /\ writes'[j] = writes[j] /\ j \in DOMAIN writes
    BY <1>4 DEF Uploading
  <2>2. \A k \in DOMAIN writes' : Uploading(writes'[k]) => k # i /\ writes'[k] = writes[k] /\ Uploading(writes[k])
    BY <1>4 DEF Uploading
  <2>3. \A f \in DOMAIN server'.files : f \in DOMAIN server.files \/ (q.op \in {"upload", "example", "demo"} /\ f = q.file)
    BY <1>6
  <2>4. UploadsAreNew
    BY DEF FilesInv
  <2> QED BY <1>4, <1>8, <2>1, <2>2, <2>3, <2>4 DEF UploadsAreNew
<1>10. ReadsAccounted'
  <2> SUFFICES ASSUME NEW f \in ReadDone, f \notin DOMAIN server'.files
               PROVE  \E k \in DOMAIN writes' : Granted(writes'[k]) /\ writes'[k].req.file = f
    BY <1>2 DEF ReadsAccounted, Granted
  <2>1. CASE f \in DOMAIN server.files
    <3>1. ok /\ f = q.file
      BY <1>6, <2>1
    <3> QED BY <1>4, <3>1 DEF Granted
  <2>2. CASE f \notin DOMAIN server.files
    <3>1. PICK j \in DOMAIN writes : Granted(writes[j]) /\ writes[j].req.file = f
      BY <2>2 DEF FilesInv, ReadsAccounted
    <3>2. j # i
      BY <1>1, <3>1 DEF Granted
    <3> QED BY <1>4, <3>1, <3>2
  <2> QED BY <2>1, <2>2
<1>11. SeenIsKept'
  BY <1>2 DEF FilesInv, SeenIsKept, Done
<1>12. DoneIngested'
  <2> SUFFICES ASSUME NEW f \in DOMAIN server'.files,
                      f \in ui.seen \cup Done(shown.files) \cup ReadDone \/ server'.files[f] = "done"
               PROVE  f \in server'.figures
    BY <1>2 DEF DoneIngested, Done
  <2>1. f \in DOMAIN server.files
    BY <1>6, <1>8
  <2>2. f \in ui.seen \cup Done(shown.files) \cup ReadDone \/ server.files[f] = "done"
    BY <1>6, <1>8, <2>1
  <2>3. f \in server.figures
    BY <2>1, <2>2 DEF FilesInv, DoneIngested, Done
  <2> QED BY <1>6, <1>8, <2>1, <2>3
<1>13. FiguresKept'
  <2>1. server'.figures \subseteq server.figures
    BY <1>6
  <2> QED BY <1>2, <2>1 DEF FilesInv, FiguresKept
<1> QED BY <1>7, <1>9, <1>10, <1>11, <1>12, <1>13 DEF FilesInv

\* The files that an upload must not be of.
Known == ui.seen \cup DOMAIN server.files \cup Done(shown.files) \cup ReadDone

\* A step that is of no handler.
LEMMA FilesUnmoved ==
  ASSUME FilesInv, writes' = writes, Known' \subseteq Known, DOMAIN server'.files = DOMAIN server.files,
         ReadDone' \subseteq ReadDone \cup DOMAIN server.files,
         DOMAIN ui' = FileFields, ui'.at \in {"files", "dashboard"},
         \A x \in {server', shown', reading', fetching'} : DOMAIN x = {"files", "figures"},
         \A t \in Tables : fetching'[t] \in {"no", "asked", "read"},
         SeenIsKept', DoneIngested', FiguresKept'
  PROVE  FilesInv'
<1>1. FilesShape /\ Shaped /\ Tables = {"files", "figures"} /\ Tables' = {"files", "figures"}
  BY DEF FilesInv, FilesShape, Tables
<1>2. FilesShape'
  BY <1>1 DEF FilesShape, Shaped, InFlight
<1>3. UploadsAreNew'
  BY DEF FilesInv, UploadsAreNew, Known, Uploading
<1>4. ReadsAccounted'
  BY DEF FilesInv, ReadsAccounted, Granted
<1> QED BY <1>2, <1>3, <1>4 DEF FilesInv

LEMMA FilesIngested == ASSUME FilesInv, NEW f, Ingest(f) \/ IngestFails(f) PROVE FilesInv'
<1>1. /\ f \in DOMAIN server.files /\ server.files[f] # "done"
      /\ UNCHANGED <<shown, fetching, reading, writes, ui>> /\ ReadDone' = ReadDone
  BY DEF Ingest, IngestFails, ReadDone, Done
<1>2. FilesShape /\ DOMAIN server = {"files", "figures"}
  BY DEF FilesInv, FilesShape
<1>3. /\ DOMAIN server' = DOMAIN server /\ DOMAIN server'.files = DOMAIN server.files
      /\ \A g \in DOMAIN server.files \ {f} : server'.files[g] = server.files[g]
      /\ \/ server'.figures = server.figures /\ server'.files[f] # "done"
         \/ server'.figures = server.figures \cup {f}
  <2> DEFINE at(st) == server'.files = [server.files EXCEPT ![f] = st]
  <2>1. /\ DOMAIN server' = DOMAIN server
        /\ \/ (at("processing") \/ at("error")) /\ server'.figures = server.figures
           \/ at("done") /\ server'.figures = server.figures \cup {f}
    <3>1. CASE server' = [server EXCEPT !.files[f] = "processing"]
      BY <1>2, <3>1
    <3>2. CASE server' = [server EXCEPT !.files[f] = "error"]
      BY <1>2, <3>2
    <3>3. CASE server' = [server EXCEPT !.files[f] = "done", !.figures = @ \cup {f}]
      BY <1>2, <3>3
    <3> QED BY <3>1, <3>2, <3>3 DEF Ingest, IngestFails
  <2>2. \A st : at(st) => /\ DOMAIN server'.files = DOMAIN server.files /\ server'.files[f] = st
                           /\ \A g \in DOMAIN server.files \ {f} : server'.files[g] = server.files[g]
    BY <1>1
  <2> HIDE DEF at
  <2> QED BY <2>1, <2>2
<1>4. Known' \subseteq Known
  BY <1>1, <1>3 DEF Known, Done
<1>5. SeenIsKept'
  BY <1>1 DEF FilesInv, SeenIsKept, Done
<1>6. DoneIngested'
  BY <1>1, <1>3 DEF FilesInv, DoneIngested, Done
<1>7. FiguresKept'
  <2>1. f \in ui.seen => f \in server.figures
    BY <1>1 DEF FilesInv, DoneIngested
  <2>2. (ui.seen \cap server'.figures) \subseteq (ui.seen \cap server.figures)
    BY <1>3, <2>1
  <2> QED BY <1>1, <2>2 DEF FilesInv, FiguresKept
<1>8. DOMAIN ui' = FileFields /\ ui'.at \in {"files", "dashboard"} /\ \A t \in Tables : fetching'[t] \in {"no", "asked", "read"}
  BY <1>1, <1>2 DEF FilesShape
<1>9. \A x \in {server', shown', reading', fetching'} : DOMAIN x = {"files", "figures"}
  BY <1>1, <1>2, <1>3 DEF FilesShape
<1> QED BY <1>1, <1>3, <1>4, <1>5, <1>6, <1>7, <1>8, <1>9, FilesUnmoved

LEMMA FilesRead == ASSUME FilesInv, NEW t \in Tables, FetchRead(t) PROVE FilesInv'
<1>1. /\ UNCHANGED <<server, shown, writes, ui>>
      /\ fetching' = [fetching EXCEPT ![t] = "read"] /\ reading' = [reading EXCEPT ![t] = server[t]]
  BY DEF FetchRead
<1>2. FilesShape /\ Tables = {"files", "figures"} /\ DOMAIN fetching = Tables /\ DOMAIN reading = Tables
  BY DEF FilesInv, FilesShape, Tables
<1>3. /\ t = "files" => /\ fetching'.files = "read" /\ reading'.files = server.files
                        /\ fetching'.figures = fetching.figures /\ reading'.figures = reading.figures
      /\ t = "figures" => /\ fetching'.figures = "read" /\ reading'.figures = server.figures
                          /\ fetching'.files = fetching.files /\ reading'.files = reading.files
  BY <1>1, <1>2
<1>4. ReadDone' \subseteq ReadDone \cup Done(server.files)
  BY <1>2, <1>3 DEF ReadDone, Done
<1>5. Known' \subseteq Known
  BY <1>1, <1>4 DEF Known, Done
<1>6. SeenIsKept'
  BY <1>1 DEF FilesInv, SeenIsKept, Done
<1>7. DoneIngested'
  BY <1>1, <1>4 DEF FilesInv, DoneIngested, Done
<1>8. FiguresKept'
  BY <1>1, <1>2, <1>3 DEF FilesInv, FiguresKept
<1>9. DOMAIN ui' = FileFields /\ ui'.at \in {"files", "dashboard"} /\ \A u \in Tables : fetching'[u] \in {"no", "asked", "read"}
  BY <1>1, <1>2, <1>3 DEF FilesShape
<1>10. \A x \in {server', shown', reading', fetching'} : DOMAIN x = {"files", "figures"}
  BY <1>1, <1>2 DEF FilesShape
<1>11. ReadDone' \subseteq ReadDone \cup DOMAIN server.files
  BY <1>4 DEF Done
<1> QED BY <1>1, <1>5, <1>6, <1>7, <1>8, <1>9, <1>10, <1>11, FilesUnmoved

LEMMA FiguresArrive == ASSUME FilesInv, FetchShown("figures", NoEffect) PROVE FilesInv'
<1>1. /\ UNCHANGED <<server, reading, writes, ui>> /\ fetching.figures = "read"
      /\ fetching' = [fetching EXCEPT !.figures = "no"] /\ shown' = [shown EXCEPT !.figures = reading.figures]
  BY DEF FetchShown, NoEffect
<1>2. FilesShape /\ Tables = {"files", "figures"} /\ DOMAIN fetching = Tables /\ DOMAIN shown = Tables
  BY DEF FilesInv, FilesShape, Tables
<1>3. /\ fetching'.figures = "no" /\ shown'.figures = reading.figures
      /\ fetching'.files = fetching.files /\ shown'.files = shown.files
  BY <1>1, <1>2
<1>4. ReadDone' = ReadDone /\ Known' \subseteq Known
  BY <1>1, <1>3 DEF Known, ReadDone, Done
<1>5. SeenIsKept' /\ DoneIngested' /\ FiguresKept'
  BY <1>1, <1>3, <1>4 DEF FilesInv, SeenIsKept, DoneIngested, FiguresKept, Done
<1>6. DOMAIN ui' = FileFields /\ ui'.at \in {"files", "dashboard"} /\ \A u \in Tables : fetching'[u] \in {"no", "asked", "read"}
  BY <1>1, <1>2, <1>3 DEF FilesShape
<1>7. \A x \in {server', shown', reading', fetching'} : DOMAIN x = {"files", "figures"}
  BY <1>1, <1>2 DEF FilesShape
<1> QED BY <1>1, <1>4, <1>5, <1>6, <1>7, FilesUnmoved

LEMMA ListArrives == ASSUME FilesInv, FilesArrive PROVE FilesInv'
<1> DEFINE now == Done(reading.files)
<1>1. /\ fetching.files = "read" /\ UNCHANGED <<server, reading, writes>>
      /\ shown' = [shown EXCEPT !.files = reading.files]
  BY DEF FilesArrive
<1>2. /\ FilesShape /\ Tables = {"files", "figures"} /\ DOMAIN fetching = Tables /\ DOMAIN shown = Tables
      /\ DOMAIN ui = FileFields /\ ui.at \in {"files", "dashboard"}
  BY DEF FilesInv, FilesShape, Tables
<1>3. shown'.files = reading.files /\ shown'.figures = shown.figures /\ DOMAIN shown' = Tables
  BY <1>1, <1>2
<1>4. ReadDone = now /\ Done(shown.files)' = now
  BY <1>1, <1>3 DEF ReadDone, Done
<1>5. /\ DOMAIN fetching' = Tables /\ fetching'.files = "no"
      /\ \/ fetching'.figures = fetching.figures
         \/ ui.at = "files" /\ HasNewDone(ui.prevDone, now) /\ fetching'.figures = "no"
  <2>1. CASE ui.at = "files" /\ HasNewDone(ui.prevDone, now)
    <3>1. fetching' = [[fetching EXCEPT !.files = "no"] EXCEPT !.figures = "no"]
      BY <2>1 DEF FilesArrive, Invalidated
    <3> QED BY <1>2, <2>1, <3>1
  <2>2. CASE ~(ui.at = "files" /\ HasNewDone(ui.prevDone, now))
    <3>1. fetching' = [fetching EXCEPT !.files = "no"]
      BY <2>2 DEF FilesArrive
    <3> QED BY <1>2, <3>1
  <2> QED BY <2>1, <2>2
<1>6. /\ DOMAIN ui' = FileFields /\ ui'.at = ui.at
      /\ \/ ui.at = "dashboard" /\ ui'.seen = ui.seen /\ ui'.fresh = ui.fresh /\ ui'.prevDone = ui.prevDone
         \/ /\ ui.at = "files" /\ ui'.seen = ui.seen \cup now /\ ui'.prevDone = now
            /\ ui'.fresh => ui.fresh /\ ~HasNewDone(ui.prevDone, now)
  <2>1. CASE ui.at = "files"
    <3>1. ui' = SeeDone(ui, now)
      BY <2>1 DEF FilesArrive
    <3> HIDE DEF now
    <3> QED BY <1>2, <2>1, <3>1 DEF SeeDone, FileFields
  <2>2. CASE ui.at = "dashboard"
    <3>1. ui' = ui
      BY <2>2 DEF FilesArrive
    <3> QED BY <1>2, <2>2, <3>1
  <2> QED BY <1>2, <2>1, <2>2
<1>7. ReadDone' = {}
  BY <1>5 DEF ReadDone
<1> HIDE DEF now
<1>8. Known' \subseteq Known
  BY <1>1, <1>4, <1>6, <1>7 DEF Known
<1>9. SeenIsKept'
  BY <1>4, <1>6 DEF FilesInv, SeenIsKept
<1>10. DoneIngested'
  BY <1>1, <1>4, <1>6, <1>7 DEF FilesInv, DoneIngested, Done
<1>11. FiguresKept'
  <2>1. CASE ui.at = "dashboard"
    BY <1>1, <1>3, <1>5, <1>6, <2>1 DEF FilesInv, FiguresKept
  <2>2. CASE ui.at = "files" /\ ui'.fresh
    <3>1. ui.fresh /\ ~HasNewDone(ui.prevDone, now)
      BY <1>6, <2>2
    <3>2. ui'.seen = ui.seen /\ fetching'.figures = fetching.figures
      BY <1>5, <1>6, <2>2, <3>1 DEF FilesInv, SeenIsKept, HasNewDone
    <3> QED BY <1>1, <1>3, <3>1, <3>2 DEF FilesInv, FiguresKept
  <2>3. CASE ui.at = "files" /\ ~ui'.fresh
    BY <1>6, <2>3 DEF FiguresKept
  <2> QED BY <1>2, <2>1, <2>2, <2>3
<1>12. \A u \in Tables : fetching'[u] \in {"no", "asked", "read"}
  BY <1>2, <1>5 DEF FilesShape
<1>13. \A x \in {server', shown', reading', fetching'} : DOMAIN x = {"files", "figures"}
  BY <1>1, <1>2, <1>3, <1>5 DEF FilesShape
<1>14. ui'.at \in {"files", "dashboard"} /\ ReadDone' \subseteq ReadDone \cup DOMAIN server.files
  BY <1>2, <1>6, <1>7
<1> QED BY <1>1, <1>6, <1>8, <1>9, <1>10, <1>11, <1>12, <1>13, <1>14, FilesUnmoved

LEMMA FilesVisited == ASSUME FilesInv, NEW at \in {"files", "dashboard"}, Visit(at) PROVE FilesInv'
<1> DEFINE now == Done(shown.files)
           first == [ui EXCEPT !.at = at, !.mount = @ + 1, !.prevDone = {}, !.uploading = FALSE,
                               !.loadingExample = FALSE, !.loadingDemo = FALSE]
<1>1. at # ui.at /\ UNCHANGED <<server, shown, reading, writes>>
  BY DEF Visit
<1>2. /\ FilesShape /\ Tables = {"files", "figures"} /\ DOMAIN fetching = Tables
      /\ DOMAIN ui = FileFields /\ ui.at \in {"files", "dashboard"}
  BY DEF FilesInv, FilesShape, Tables
<1>3. DOMAIN first = FileFields /\ first.at = at /\ first.fresh = ui.fresh /\ first.seen = ui.seen /\ first.prevDone = {}
  BY <1>2 DEF FileFields
<1>4. CASE at = "files"
  <2>1. ui' = SeeDone(first, now) /\ fetching' = IF now # {} THEN [fetching EXCEPT !.figures = "no"] ELSE fetching
    BY <1>4 DEF Visit
  <2> HIDE DEF now, first
  <2>2. /\ DOMAIN ui' = FileFields /\ ui'.at = "files" /\ ui'.seen = ui.seen \cup now /\ ui'.prevDone = now
        /\ ui'.fresh => ui.fresh /\ now = {}
    BY <1>3, <1>4, <2>1 DEF SeeDone, FileFields, HasNewDone
  <2>3. /\ DOMAIN fetching' = Tables /\ fetching'.files = fetching.files
        /\ fetching'.figures = IF now # {} THEN "no" ELSE fetching.figures
    BY <1>2, <2>1
  <2>4. Done(shown.files)' = now /\ ReadDone' = ReadDone
    BY <1>1, <2>3 DEF now, ReadDone, Done
  <2>5. Known' \subseteq Known
    BY <1>1, <2>2, <2>4 DEF Known, now
  <2>6. SeenIsKept'
    BY <2>2, <2>4 DEF SeenIsKept
  <2>7. DoneIngested'
    BY <1>1, <2>2, <2>4 DEF FilesInv, DoneIngested, now
  <2>8. FiguresKept'
    <3> SUFFICES ASSUME ui'.fresh PROVE FiguresKept'
      BY <2>2 DEF FiguresKept
    <3>1. ui'.seen = ui.seen /\ fetching'.figures = fetching.figures /\ ui.at = "dashboard"
      BY <1>1, <1>2, <1>4, <2>2, <2>3
    <3> QED BY <1>1, <3>1 DEF FilesInv, FiguresKept
  <2>9. \A u \in Tables : fetching'[u] \in {"no", "asked", "read"}
    BY <1>2, <2>3 DEF FilesShape
  <2>10. \A x \in {server', shown', reading', fetching'} : DOMAIN x = {"files", "figures"}
    BY <1>1, <1>2, <2>3 DEF FilesShape
  <2> QED BY <1>1, <2>2, <2>4, <2>5, <2>6, <2>7, <2>8, <2>9, <2>10, FilesUnmoved
<1>5. CASE at = "dashboard"
  <2>1. /\ ui' = [first EXCEPT !.fresh = TRUE]
        /\ fetching' = [t \in Tables |-> IF t \in {"files"} \cup (IF ui.fresh THEN {} ELSE {"figures"}) THEN "asked" ELSE fetching[t]]
    BY <1>5 DEF Visit, Ask
  <2> HIDE DEF first
  <2>2. DOMAIN ui' = FileFields /\ ui'.at = "dashboard" /\ ui'.seen = ui.seen /\ ui'.prevDone = {}
    BY <1>3, <1>5, <2>1 DEF FileFields
  <2>3. /\ DOMAIN fetching' = Tables /\ fetching'.files = "asked"
        /\ fetching'.figures = IF ui.fresh THEN fetching.figures ELSE "asked"
    BY <1>2, <2>1
  <2>4. ReadDone' = {} /\ Done(shown.files)' = Done(shown.files)
    BY <1>1, <2>3 DEF ReadDone, Done
  <2>5. Known' \subseteq Known
    BY <1>1, <2>2, <2>4 DEF Known
  <2>6. SeenIsKept'
    BY <2>2 DEF SeenIsKept
  <2>7. DoneIngested'
    BY <1>1, <2>2, <2>4 DEF FilesInv, DoneIngested
  <2>8. FiguresKept'
    BY <1>1, <2>2, <2>3 DEF FilesInv, FiguresKept
  <2>9. \A u \in Tables : fetching'[u] \in {"no", "asked", "read"}
    BY <1>2, <2>3 DEF FilesShape
  <2>10. \A x \in {server', shown', reading', fetching'} : DOMAIN x = {"files", "figures"}
    BY <1>1, <1>2, <2>3 DEF FilesShape
  <2> QED BY <1>1, <2>2, <2>4, <2>5, <2>6, <2>7, <2>8, <2>9, <2>10, FilesUnmoved
<1> QED BY <1>4, <1>5

LEMMA FilesRefreshed == ASSUME FilesInv, DemoRefreshes \/ DedupeEnds PROVE FilesInv'
<1>1. UNCHANGED <<server, shown, reading, writes>>
  BY DEF DemoRefreshes, DedupeEnds, Render
<1>2. /\ FilesShape /\ Tables = {"files", "figures"} /\ DOMAIN fetching = Tables
      /\ DOMAIN ui = FileFields /\ ui.at \in {"files", "dashboard"}
  BY DEF FilesInv, FilesShape, Tables
<1>3. /\ DOMAIN ui' = FileFields /\ ui'.at = ui.at /\ ui'.seen = ui.seen /\ ui'.prevDone = ui.prevDone
      /\ DOMAIN fetching' = Tables /\ fetching'.files = fetching.files
      /\ \/ fetching'.figures = fetching.figures /\ ~ui'.fresh
         \/ ui.at = "dashboard" /\ fetching'.figures = "asked"
         \/ ui.at # "dashboard" /\ fetching'.figures = "no" /\ ~ui'.fresh
  <2>1. CASE DemoRefreshes
    BY <1>2, <2>1 DEF DemoRefreshes, Invalidated, FileFields
  <2>2. CASE DedupeEnds
    BY <1>2, <2>2 DEF DedupeEnds, Render, FileFields
  <2> QED BY <2>1, <2>2
<1>4. ReadDone' = ReadDone /\ Known' \subseteq Known
  BY <1>1, <1>3 DEF Known, ReadDone, Done
<1>5. SeenIsKept' /\ DoneIngested'
  BY <1>1, <1>3, <1>4 DEF FilesInv, SeenIsKept, DoneIngested, Done
<1>6. FiguresKept'
  BY <1>1, <1>3 DEF FilesInv, FiguresKept
<1>7. \A u \in Tables : fetching'[u] \in {"no", "asked", "read"}
  BY <1>2, <1>3 DEF FilesShape
<1>8. \A x \in {server', shown', reading', fetching'} : DOMAIN x = {"files", "figures"}
  BY <1>1, <1>2, <1>3 DEF FilesShape
<1> QED BY <1>1, <1>2, <1>3, <1>4, <1>5, <1>6, <1>7, <1>8, FilesUnmoved

\* The handler of a request that is answered.
LEMMA FilesFieldsKeep ==
  ASSUME FilesInv, NEW q, NEW ok, ui' = FilesFields(q, ok)
  PROVE  DOMAIN ui' = DOMAIN ui /\ UNCHANGED Remembered
<1>1. DOMAIN ui = FileFields
  BY DEF FilesInv, FilesShape
<1>2. CASE q.op = "upload"
  BY <1>1, <1>2 DEF FilesFields, Remembered, FileFields
<1>3. CASE q.op = "example"
  BY <1>1, <1>3 DEF FilesFields, Remembered, FileFields
<1>4. CASE q.op = "demo" /\ ok
  BY <1>1, <1>4 DEF FilesFields, Remembered, FileFields
<1>5. CASE q.op = "demo" /\ ~ok
  BY <1>1, <1>5 DEF FilesFields, Remembered, FileFields
<1>6. CASE q.op \notin {"upload", "example", "demo"}
  BY <1>6 DEF FilesFields, Remembered
<1> QED BY <1>2, <1>3, <1>4, <1>5, <1>6

\* A click on the files page or on the onboarding card that sends a request.
LEMMA FilesSent ==
  ASSUME FilesInv, OnDrop \/ LoadExample \/ LoadDemo \/ \E f : DeleteFile(f) \/ Reprocess(f)
  PROVE  FilesInv'
<1>1. DOMAIN ui = FileFields /\ ui.at \in {"files", "dashboard"}
  BY DEF FilesInv, FilesShape
<1>2. ASSUME NEW op, NEW f, NEW a, NEW fields, Post(Request(op, f), a, fields),
             DOMAIN fields = DOMAIN ui, fields.at = ui.at, fields.fresh = ui.fresh,
             fields.prevDone = ui.prevDone, fields.seen = ui.seen,
             op \in {"upload", "example", "demo"} => f \in New /\ (ui.at = "files" \/ Done(shown.files) = {})
      PROVE  FilesInv'
  <2> DEFINE r == Request(op, f)
             w == [req |-> r, awaits |-> a, at |-> "sent", ok |-> TRUE]
  <2>1. writes' = Append(writes, w) /\ UNCHANGED <<server, shown, fetching, reading>> /\ ui' = fields
    BY <1>2 DEF Post
  <2>2. r.op = op /\ r.file = f
    BY DEF Request
  <2> HIDE DEF r
  <2>3. DOMAIN w = WriteFields /\ w.at = "sent" /\ w.req.op = op /\ w.req.file = f
    BY <2>2 DEF WriteFields
  <2> HIDE DEF w
  <2>4. UNCHANGED Remembered /\ DOMAIN ui' = DOMAIN ui
    BY <1>2, <2>1 DEF Remembered
  <2>5. Uploading(w) => w.req.file \in New /\ (ui.at = "files" \/ Done(shown.files) = {})
    BY <1>2, <2>3 DEF Uploading
  <2> QED BY <2>1, <2>3, <2>4, <2>5, FilesPosted
<1>3. CASE OnDrop
  <2>1. PICK f \in New : Post(Request("upload", f), FALSE, [ui EXCEPT !.uploading = TRUE])
    BY <1>3 DEF OnDrop, Send
  <2> DEFINE fields == [ui EXCEPT !.uploading = TRUE]
  <2>2. DOMAIN fields = DOMAIN ui /\ fields.at = ui.at /\ fields.fresh = ui.fresh /\ fields.prevDone = ui.prevDone /\ fields.seen = ui.seen
    BY <1>1 DEF FileFields
  <2>3. ui.at = "files" /\ Post(Request("upload", f), FALSE, fields)
    BY <1>3, <2>1 DEF OnDrop
  <2> HIDE DEF fields
  <2> QED BY <1>2, <2>2, <2>3
<1>4. CASE LoadExample
  <2>1. PICK f \in New : Post(Request("example", f), FALSE, [ui EXCEPT !.loadingExample = TRUE])
    BY <1>4 DEF LoadExample, Send
  <2> DEFINE fields == [ui EXCEPT !.loadingExample = TRUE]
  <2>2. DOMAIN fields = DOMAIN ui /\ fields.at = ui.at /\ fields.fresh = ui.fresh /\ fields.prevDone = ui.prevDone /\ fields.seen = ui.seen
    BY <1>1 DEF FileFields
  <2>3. ui.at = "files" /\ Post(Request("example", f), FALSE, fields)
    BY <1>4, <2>1 DEF LoadExample
  <2> HIDE DEF fields
  <2> QED BY <1>2, <2>2, <2>3
<1>5. CASE LoadDemo
  <2>1. PICK f \in New : Post(Request("demo", f), TRUE, [ui EXCEPT !.loadingDemo = TRUE])
    BY <1>5 DEF LoadDemo, SendAwaiting
  <2> DEFINE fields == [ui EXCEPT !.loadingDemo = TRUE]
  <2>2. DOMAIN fields = DOMAIN ui /\ fields.at = ui.at /\ fields.fresh = ui.fresh /\ fields.prevDone = ui.prevDone /\ fields.seen = ui.seen
    BY <1>1 DEF FileFields
  <2>3. Done(shown.files) = {} /\ Post(Request("demo", f), TRUE, fields)
    BY <1>5, <2>1 DEF LoadDemo
  <2> HIDE DEF fields
  <2> QED BY <1>2, <2>2, <2>3
<1>6. ASSUME NEW f, DeleteFile(f) PROVE FilesInv'
  <2>1. Post(Request("delete", f), FALSE, ui)
    BY <1>6 DEF DeleteFile, Send
  <2> QED BY <1>2, <2>1
<1>7. ASSUME NEW f, Reprocess(f) PROVE FilesInv'
  <2>1. Post(Request("reprocess", f), FALSE, ui)
    BY <1>7 DEF Reprocess, Send
  <2> QED BY <1>2, <2>1
<1> QED BY <1>3, <1>4, <1>5, <1>6, <1>7

\* A handler goes on.
LEMMA FilesAnswered ==
  ASSUME FilesInv, Reload(FilesStale) \/ Answered(FilesFields, FilesStale) PROVE FilesInv'
<1>1. FilesShape /\ Shaped
  BY DEF FilesInv, FilesShape
<1>2. UNCHANGED <<server, shown, reading>>
  BY DEF Reload, Answered
<1>3. CASE Reload(FilesStale)
  <2>1. PICK i \in DOMAIN writes : /\ writes[i].at = "served" /\ writes' = [writes EXCEPT ![i].at = "reloading"]
                                   /\ Ask(FilesStale(writes[i].req, TRUE))
    BY <1>3 DEF Reload
  <2>2. ui' = ui
    BY <1>3 DEF Reload
  <2>3. fetching' = [t \in Tables |-> IF t = "files" THEN "asked" ELSE fetching[t]]
    BY <2>1 DEF Ask, FilesStale
  <2>4. Shaped'
    BY <1>1, <2>1, ShapeReloading
  <2>5. ~Uploading(writes[i])
    BY <2>1 DEF Uploading
  <2>6. UNCHANGED Remembered
    BY <2>2 DEF Remembered
  <2> QED BY <1>2, <2>1, <2>2, <2>3, <2>4, <2>5, <2>6, FilesAsked
<1>4. CASE Answered(FilesFields, FilesStale)
  <2>1. PICK i \in DOMAIN writes :
          /\ \/ writes[i].at = "served" /\ Ask(FilesStale(writes[i].req, writes[i].ok))
             \/ writes[i].at = "reloading" /\ Ask({})
          /\ writes' = RemoveAt(writes, i)
          /\ ui' = FilesFields(writes[i].req, writes[i].ok)
    BY <1>4 DEF Answered
  <2>2. DOMAIN ui' = DOMAIN ui /\ UNCHANGED Remembered
    BY <2>1, FilesFieldsKeep
  <2>3. Shaped'
    BY <1>1, <2>1, ShapeRemoved
  <2>4. ~Uploading(writes[i])
    BY <2>1 DEF Uploading
  <2>5. CASE writes[i].at = "served" /\ writes[i].ok
    <3>1. fetching' = [t \in Tables |-> IF t = "files" THEN "asked" ELSE fetching[t]]
      BY <2>1, <2>5 DEF Ask, FilesStale
    <3> QED BY <1>2, <2>1, <2>2, <2>3, <2>4, <3>1, FilesAsked
  <2>6. CASE ~Granted(writes[i])
    <3>1. fetching' = [t \in Tables |-> fetching[t]]
      BY <2>1, <2>6 DEF Ask, FilesStale, Granted
    <3> QED BY <1>2, <2>1, <2>2, <2>3, <2>4, <2>6, <3>1, FilesDropped
  <2> QED BY <2>1, <2>5, <2>6 DEF Granted
<1> QED BY <1>3, <1>4

LEMMA FilesSteps == FilesInv /\ FilesNext => FilesInv'
<1> SUFFICES ASSUME FilesInv, FilesNext PROVE FilesInv'
  OBVIOUS
<1>1. ASSUME NEW f, Ingest(f) \/ IngestFails(f) PROVE FilesInv'
  BY <1>1, FilesIngested
<1>2. ASSUME OnDrop \/ LoadExample \/ LoadDemo \/ \E f : DeleteFile(f) \/ Reprocess(f) PROVE FilesInv'
  BY <1>2, FilesSent
<1>3. CASE Poll
  <2>1. fetching' = [t \in Tables |-> IF t = "files" THEN "asked" ELSE fetching[t]]
    BY <1>3 DEF Poll, Ask
  <2>2. UNCHANGED <<server, shown, reading, writes, ui>> /\ UNCHANGED Remembered /\ Shaped'
    BY <1>3 DEF Poll, Remembered, FilesInv, FilesShape, Shaped, InFlight
  <2> QED BY <2>1, <2>2, FilesAsked
<1>4. CASE Dismiss \/ DemoLoaded
  <2>1. UNCHANGED <<server, shown, fetching, reading, writes>>
    BY <1>4 DEF Dismiss, DemoLoaded, Click, Render
  <2>2. \/ ui' = [ui EXCEPT !.dismissed = TRUE]
        \/ ui' = [ui EXCEPT !.demo = "no", !.demoOf = {}, !.loadingDemo = @ /\ ui.mount \notin ui.demoOf]
    BY <1>4 DEF Dismiss, DemoLoaded, Click, Render
  <2>3. DOMAIN ui' = DOMAIN ui /\ UNCHANGED Remembered
    BY <2>2 DEF Remembered, FilesInv, FilesShape, FileFields
  <2> QED BY <2>1, <2>3, FilesRemain
<1>5. CASE FilesArrive \/ DedupeEnds \/ DemoRefreshes \/ \E at \in {"files", "dashboard"} : Visit(at)
  BY <1>5, ListArrives, FilesRefreshed, FilesVisited
<1>6. CASE ServeAllowed(FilesAllowed, FilesEffect)
  BY <1>6, FilesServed
<1>7. CASE Reload(FilesStale) \/ Answered(FilesFields, FilesStale)
  BY <1>7, FilesAnswered
<1>8. CASE \E t \in Tables : FetchRead(t)
  BY <1>8, FilesRead
<1>9. CASE FetchShown("figures", NoEffect)
  BY <1>9, FiguresArrive
<1> QED BY <1>1, <1>2, <1>3, <1>4, <1>5, <1>6, <1>7, <1>8, <1>9 DEF FilesNext

\* A page whose lists have just arrived.
LEMMA ListsStart ==
  ASSUME NEW tables, NEW fields, PageInit(tables, fields), Function(tables, DOMAIN tables),
         page = "admin" => {"orgs", "users"} \subseteq DOMAIN tables /\ DOMAIN tables.orgs = DOMAIN tables.users,
         page = "capex" => "capex" \in DOMAIN tables
  PROVE  ListsInv
<1>1. server = tables /\ shown = tables /\ reading = tables /\ writes = <<>> /\ fetching = [t \in DOMAIN tables |-> "no"]
  BY DEF PageInit
<1>2. Shaped
  BY <1>1 DEF Shaped
<1>3. Listed
  BY <1>1 DEF Listed, Function, Tables
<1>4. \A t \in Tables : Current(t)
  BY <1>1 DEF Current, Right, Tells, Tables
<1> QED BY <1>2, <1>3, <1>4 DEF ListsInv

\* The invariant behind ListsSettle.
SettleInv ==
  /\ page \in ListPages => ListsInv
  /\ page = "profile" => ProfileShape
  /\ page = "files" => FilesInv

LEMMA SettleStarts == Init => SettleInv
<1> SUFFICES ASSUME Init PROVE SettleInv
  OBVIOUS
<1>1. page = "team" => ListsInv
  <2> SUFFICES ASSUME page = "team" PROVE ListsInv
    OBVIOUS
  <2>1. PICK roles : TeamInit(roles)
    BY DEF Init
  <2> QED BY <2>1, ListsStart DEF TeamInit, Function
<1>2. page = "settings" => ListsInv
  <2> SUFFICES ASSUME page = "settings" PROVE ListsInv
    OBVIOUS
  <2>1. PICK first : SettingsInit(first)
    BY DEF Init
  <2> QED BY <2>1, ListsStart DEF SettingsInit, Function
<1>3. page = "leads" => ListsInv
  <2> SUFFICES ASSUME page = "leads" PROVE ListsInv
    OBVIOUS
  <2>1. PICK leads : LeadsInit(leads)
    BY DEF Init
  <2> QED BY <2>1, ListsStart DEF LeadsInit, Function
<1>4. page = "investment" => ListsInv
  <2> SUFFICES ASSUME page = "investment" PROVE ListsInv
    OBVIOUS
  <2>1. PICK f, seen : InvestInit(f, seen, MCProjects)
    BY DEF Init
  <2> QED BY <2>1, ListsStart DEF InvestInit, Function
<1>5. page = "capex" => ListsInv
  <2> SUFFICES ASSUME page = "capex" PROVE ListsInv
    OBVIOUS
  <2>1. PICK first : CapexInit(first)
    BY DEF Init
  <2> QED BY <2>1, ListsStart DEF CapexInit, Function
<1>6. page = "admin" => ListsInv
  <2> SUFFICES ASSUME page = "admin" PROVE ListsInv
    OBVIOUS
  <2>1. AdminInit
    BY DEF Init
  <2> QED BY <2>1, ListsStart DEF AdminInit, Function
<1>7. page = "map" => ListsInv
  <2> SUFFICES ASSUME page = "map" PROVE ListsInv
    OBVIOUS
  <2>1. MapInit
    BY DEF Init
  <2> QED BY <2>1, ListsStart DEF MapInit, Function
<1>8. page = "profile" => ListsInv /\ ProfileShape
  <2> SUFFICES ASSUME page = "profile" PROVE ListsInv /\ ProfileShape
    OBVIOUS
  <2>1. ProfileInit
    BY DEF Init
  <2>2. ListsInv
    BY <2>1, ListsStart DEF ProfileInit, Function
  <2>3. ProfileShape
    <3>1. writes = <<>>
      BY <2>1 DEF ProfileInit, PageInit
    <3>2. DOMAIN ui = {"name", "nameLoading", "current", "new", "confirm", "pwLoading", "uploadingLogo", "signedIn"}
      BY <2>1 DEF ProfileInit, PageInit
    <3> QED BY <3>1, <3>2 DEF ProfileShape
  <2> QED BY <2>2, <2>3
<1>9. page = "feedback" => ListsInv
  <2> SUFFICES ASSUME page = "feedback" PROVE ListsInv
    OBVIOUS
  <2>1. FeedbackInit
    BY DEF Init
  <2> QED BY <2>1, ListsStart DEF FeedbackInit, Function
<1>10. page = "notes" => ListsInv
  <2> SUFFICES ASSUME page = "notes" PROVE ListsInv
    OBVIOUS
  <2>1. NotesInit
    BY DEF Init
  <2> QED BY <2>1, ListsStart DEF NotesInit, Function
<1>11. page = "files" => FilesInv
  <2> SUFFICES ASSUME page = "files" PROVE FilesInv
    OBVIOUS
  <2>1. PICK first : FilesInit(first)
    BY DEF Init
  <2> QED BY <2>1, FilesStart
<1> QED BY <1>1, <1>2, <1>3, <1>4, <1>5, <1>6, <1>7, <1>8, <1>9, <1>10, <1>11 DEF SettleInv, ListPages

LEMMA SettleSteps == SettleInv /\ Next => SettleInv'
<1> SUFFICES ASSUME SettleInv, Next PROVE SettleInv'
  OBVIOUS
<1>1. page' = page
  BY DEF Next
<1>2. /\ page = "team" => TeamNext
      /\ page = "settings" => SettingsNext
      /\ page = "leads" => LeadsNext
      /\ page = "investment" => InvestNext
  BY DEF Next, PageNext
<1>3. /\ page = "capex" => CapexNext
      /\ page = "admin" => AdminNext
      /\ page = "map" => MapNext
      /\ page = "files" => FilesNext
  BY DEF Next, PageNext
<1>4. /\ page = "profile" => ProfileNext \/ AccountBackground
      /\ page = "feedback" => TypeFeedback \/ HandleSubmit \/ AccountBackground
      /\ page = "notes" => NotesNext \/ AccountBackground
  BY DEF Next, PageNext
<1>5. page \in {"team", "settings", "leads", "investment"} => ListsInv'
  BY <1>1, <1>2, TeamLists, SettingsLists, LeadsLists, InvestLists DEF SettleInv, ListPages
<1>6. page \in {"capex", "admin", "map"} => ListsInv'
  BY <1>1, <1>3, CapexLists, AdminLists, MapLists DEF SettleInv, ListPages
<1>7. page \in {"feedback", "notes"} => ListsInv'
  BY <1>1, <1>4, FeedbackLists, NotesLists DEF SettleInv, ListPages
<1>8. page = "profile" => ListsInv' /\ ProfileShape'
  BY <1>1, <1>4, ProfileLists DEF SettleInv, ListPages
<1>9. page = "files" => FilesInv'
  BY <1>3, FilesSteps DEF SettleInv
<1> QED BY <1>1, <1>5, <1>6, <1>7, <1>8, <1>9 DEF SettleInv, ListPages

\* Nothing happens.
LEMMA SettleStutters == SettleInv /\ UNCHANGED <<pageVars, page>> => SettleInv'
<1> SUFFICES ASSUME SettleInv, UNCHANGED <<pageVars, page>> PROVE SettleInv'
  OBVIOUS
<1>1. UNCHANGED <<server, shown, fetching, reading, writes, ui, page>>
  BY DEF pageVars
<1>2. page \in ListPages => ListsInv'
  BY <1>1, UserKeeps DEF SettleInv, UserStep, Ended
<1>3. page = "profile" => ProfileShape'
  BY <1>1 DEF SettleInv, ProfileShape
<1>4. page = "files" => FilesInv'
  BY <1>1, FilesRemain DEF SettleInv, Remembered
<1> QED BY <1>1, <1>2, <1>3, <1>4 DEF SettleInv

\* A page at rest owes nothing and waits for nothing.
LEMMA AtRest ==
  ASSUME ListsInv, Quiet
  PROVE  Ended \/ \A t \in Tables : Right(t, shown[t])
<1>1. \A t : ~Owing(t)
  BY DEF Quiet, Owing
<1> QED BY <1>1 DEF ListsInv, Current, Quiet

\* Every list of a page at rest is what the server holds, of the team's lists the
\* members with their activity, the roles with their contents and the invitations
\* there are: each handler asks again for those lists of which its request changed
\* that, and an answer to an older question is dropped; whoever saw a file as done
\* finds it in the figures.
THEOREM ListsStay == Spec => []ListsSettle
<1>1. SettleInv /\ [Next]_<<pageVars, simpleVars, page>> => SettleInv'
  BY SettleSteps, SettleStutters
<1>2. SettleInv => ListsSettle
  <2> SUFFICES ASSUME SettleInv PROVE ListsSettle
    OBVIOUS
  <2>1. page \in {"settings", "leads", "investment", "map", "capex", "feedback", "notes"} => PageSettles
    <3> SUFFICES ASSUME page \in {"settings", "leads", "investment", "map", "capex", "feedback", "notes"}, Quiet
                 PROVE  shown = server
      BY DEF PageSettles
    <3>1. ListsInv /\ ~Ended
      BY DEF SettleInv, ListPages, Ended
    <3>2. \A t \in Tables : shown[t] = server[t]
      BY <3>1, AtRest DEF Right
    <3> QED BY <3>1, <3>2 DEF ListsInv, Listed, Function
  <2>2. page = "admin" => AdminSettles
    <3> SUFFICES ASSUME page = "admin", Quiet
                 PROVE  /\ \A t \in Tables \ {"users"} : shown[t] = server[t]
                        /\ \A o \in DOMAIN shown.users : o \in DOMAIN shown.orgs => shown.users[o] = server.users[o]
      BY DEF AdminSettles
    <3>1. ListsInv /\ ~Ended
      BY DEF SettleInv, ListPages, Ended
    <3>2. \A t \in Tables : Right(t, shown[t])
      BY <3>1, AtRest
    <3>3. {"orgs", "users"} \subseteq Tables
      BY <3>1 DEF ListsInv, Listed
    <3>4. \A t \in Tables \ {"users"} : shown[t] = server[t]
      BY <3>2 DEF Right
    <3>5. Right("users", shown.users) /\ shown.orgs = server.orgs
      BY <3>2, <3>3, <3>4
    <3> QED BY <3>4, <3>5 DEF Right
  <2>3. page = "profile" => ProfileSettles
    <3> SUFFICES ASSUME page = "profile", ui.signedIn, Quiet PROVE shown = server
      BY DEF ProfileSettles, PageSettles
    <3>1. ListsInv /\ ~Ended
      BY DEF SettleInv, ListPages, Ended
    <3>2. \A t \in Tables : shown[t] = server[t]
      BY <3>1, AtRest DEF Right
    <3> QED BY <3>1, <3>2 DEF ListsInv, Listed, Function
  <2>4. page = "files" => FiguresFollowFiles
    BY DEF SettleInv, FilesInv, FiguresKept, FiguresFollowFiles
  <2>5. page = "team" => TeamSettles
    <3> SUFFICES ASSUME page = "team", Quiet PROVE \A t \in Tables : Tells(t, shown[t])
      BY DEF TeamSettles
    <3>1. ListsInv /\ ~Ended
      BY DEF SettleInv, ListPages, Ended
    <3> QED BY <3>1, AtRest DEF Right
  <2> QED BY <2>1, <2>2, <2>3, <2>4, <2>5 DEF ListsSettle
<1> QED BY SettleStarts, <1>1, <1>2, PTL DEF Spec

-----------------------------------------------------------------------------
(* Buttons that come back *)

\* The requests whose handlers have not gone on to their end.
Reqs == {writes[i].req : i \in DOMAIN writes}

\* A step that sends nothing and ends nothing; one that sends a request r; one
\* that ends the handler of q.
Idle == Shaped' /\ Reqs' = Reqs
Asks(r) == Shaped' /\ Reqs \subseteq Reqs' /\ r \in Reqs' /\ Reqs' \subseteq Reqs \cup {r}
Ends(q) == Shaped' /\ q \in Reqs /\ Reqs \subseteq Reqs' \cup {q} /\ Reqs' \subseteq Reqs

LEMMA ShapeAppended ==
  ASSUME Shaped, NEW w, DOMAIN w = WriteFields, writes' = Append(writes, w)
  PROVE  Shaped' /\ Reqs' = Reqs \cup {w.req}
<1>1. /\ writes' \in Seq(InFlight \cup {w})
      /\ \A i \in DOMAIN writes : i \in DOMAIN writes' /\ writes'[i] = writes[i]
      /\ \A i \in DOMAIN writes' : i \in DOMAIN writes \/ writes'[i] = w
      /\ \E i \in DOMAIN writes' : writes'[i] = w
  BY Appended DEF Shaped
<1>2. writes' \in Seq(InFlight')
  <2> DEFINE v == writes'
  <2>1. v \in Seq(InFlight \cup {w})
    BY <1>1
  <2> HIDE DEF v
  <2>2. v \in Seq({v[i] : i \in DOMAIN v})
    BY <2>1, OwnElements
  <2> QED BY <2>2 DEF v, InFlight
<1>3. Shaped'
  BY <1>1, <1>2 DEF Shaped
<1> QED BY <1>1, <1>3 DEF Reqs

LEMMA Sends == ASSUME Shaped, NEW r, NEW a, NEW fields, Post(r, a, fields) PROVE Asks(r) /\ ui' = fields
<1> DEFINE w == [req |-> r, awaits |-> a, at |-> "sent", ok |-> TRUE]
<1>1. writes' = Append(writes, w) /\ ui' = fields
  BY DEF Post
<1>2. DOMAIN w = WriteFields /\ w.req = r
  BY DEF WriteFields
<1> HIDE DEF w
<1>3. Shaped' /\ Reqs' = Reqs \cup {r}
  BY <1>1, <1>2, ShapeAppended
<1> QED BY <1>1, <1>3 DEF Asks

LEMMA Waits == ASSUME Shaped, UNCHANGED writes PROVE Idle
BY DEF Shaped, InFlight, Reqs, Idle

LEMMA AnswerBack ==
  ASSUME Shaped, NEW i \in DOMAIN writes, NEW ok, writes' = [writes EXCEPT ![i].at = "served", ![i].ok = ok]
  PROVE  Idle
<1>1. Shaped'
  BY ShapeServed
<1>2. DOMAIN writes' = DOMAIN writes /\ \A j \in DOMAIN writes : writes'[j].req = writes[j].req
  BY DEF Shaped, WriteFields
<1> QED BY <1>1, <1>2 DEF Reqs, Idle

LEMMA AwaitsLists ==
  ASSUME Shaped, NEW i \in DOMAIN writes, writes' = [writes EXCEPT ![i].at = "reloading"]
  PROVE  Idle
<1>1. Shaped'
  BY ShapeReloading
<1>2. DOMAIN writes' = DOMAIN writes /\ \A j \in DOMAIN writes : writes'[j].req = writes[j].req
  BY DEF Shaped, WriteFields
<1> QED BY <1>1, <1>2 DEF Reqs, Idle

LEMMA Handled ==
  ASSUME Shaped, NEW i \in DOMAIN writes, writes' = RemoveAt(writes, i)
  PROVE  Ends(writes[i].req)
<1>1. Shaped'
  BY ShapeRemoved
<1>2. /\ \A j \in DOMAIN writes \ {i} : \E k \in DOMAIN writes' : writes'[k] = writes[j]
      /\ \A k \in DOMAIN writes' : \E j \in DOMAIN writes : writes'[k] = writes[j]
  <2> DEFINE v == writes
             u == writes'
             w == InFlight
  <2>1. v \in Seq(w) /\ i \in DOMAIN v /\ u = RemoveAt(v, i)
    BY DEF Shaped
  <2> HIDE DEF v, u, w
  <2>2. v \in Seq(w) /\ i \in DOMAIN v
    BY <2>1
  <2>3. /\ \A j \in DOMAIN v \ {i} : \E k \in DOMAIN RemoveAt(v, i) : RemoveAt(v, i)[k] = v[j]
        /\ \A k \in DOMAIN RemoveAt(v, i) : \E j \in DOMAIN v \ {i} : RemoveAt(v, i)[k] = v[j]
    BY ONLY <2>2, Removed
  <2>4. u = RemoveAt(v, i)
    BY <2>1
  <2>5. /\ \A j \in DOMAIN v \ {i} : \E k \in DOMAIN u : u[k] = v[j]
        /\ \A k \in DOMAIN u : \E j \in DOMAIN v \ {i} : u[k] = v[j]
    BY ONLY <2>3, <2>4
  <2> QED BY ONLY <2>5 DEF v, u
<1>3. ASSUME NEW q \in Reqs, q # writes[i].req PROVE q \in Reqs'
  <2>1. PICK j \in DOMAIN writes : q = writes[j].req
    BY DEF Reqs
  <2>2. PICK k \in DOMAIN writes' : writes'[k] = writes[j]
    BY <1>2, <1>3, <2>1
  <2> QED BY <2>1, <2>2 DEF Reqs
<1>4. Reqs' \subseteq Reqs
  <2> SUFFICES ASSUME NEW k \in DOMAIN writes' PROVE writes'[k].req \in Reqs
    BY DEF Reqs
  <2>1. PICK j \in DOMAIN writes : writes'[k] = writes[j]
    BY <1>2
  <2> QED BY <2>1 DEF Reqs
<1> QED BY <1>1, <1>3, <1>4 DEF Reqs, Ends

\* The settings.
SettingsBusy ==
  /\ Shaped
  /\ DOMAIN ui = {"costForm", "alertForm", "creating", "savingAlert", "activating", "hours", "savingHours", "savingOrgSettings"}
  /\ ui.creating => \E q \in Reqs : q.op = "saveCost"
  /\ ui.savingAlert => \E q \in Reqs : q.op = "saveAlert"
  /\ ui.activating # NewRow => \E q \in Reqs : q.op = "activate" /\ q.row = ui.activating
  /\ ui.savingHours => \E q \in Reqs : q.op = "hours"
  /\ ui.savingOrgSettings => \E q \in Reqs : q.op = "timezone"
SettingsFlags(u) == <<DOMAIN u, u.creating, u.savingAlert, u.activating, u.savingHours, u.savingOrgSettings>>

LEMMA SettingsBusySteps == SettingsBusy /\ SettingsNext => SettingsBusy'
<1> SUFFICES ASSUME SettingsBusy, SettingsNext PROVE SettingsBusy'
  OBVIOUS
<1>1. ASSUME Shaped', Reqs \subseteq Reqs', SettingsFlags(ui') = SettingsFlags(ui) PROVE SettingsBusy'
  BY <1>1 DEF SettingsBusy, SettingsFlags
<1>2. CASE \/ NewCost \/ CancelCost \/ EditCost \/ OpenNewAlert \/ EditAlert \/ CancelAlert \/ MoveSlider
  <2>1. UNCHANGED writes /\ SettingsFlags(ui') = SettingsFlags(ui)
    BY <1>2 DEF NewCost, CancelCost, EditCost, OpenNewAlert, EditAlert, CancelAlert, MoveSlider, Click, SettingsFlags, SettingsBusy
  <2> QED BY <1>1, <2>1, Waits DEF SettingsBusy, Idle
<1>3. CASE \E r \in Rows : OpenEdit(r) \/ OpenEditAlert(r)
  <2>1. UNCHANGED writes /\ SettingsFlags(ui') = SettingsFlags(ui)
    BY <1>3 DEF OpenEdit, OpenEditAlert, Click, SettingsFlags, SettingsBusy
  <2> QED BY <1>1, <2>1, Waits DEF SettingsBusy, Idle
<1>4. CASE \E r \in Rows : DeleteConfig(r) \/ ToggleAlert(r) \/ DeleteAlert(r)
  <2>1. PICK r : Post(r, FALSE, ui)
    BY <1>4 DEF DeleteConfig, ToggleAlert, DeleteAlert, Send
  <2>2. Asks(r) /\ ui' = ui
    BY <2>1, Sends DEF SettingsBusy
  <2> QED BY <1>1, <2>2 DEF Asks, SettingsFlags
<1>5. CASE OnSave
  <2>1. PICK row : Post(SaveRequest("saveCost", ui.costForm, row), FALSE, [ui EXCEPT !.creating = TRUE])
    BY <1>5 DEF OnSave, Send
  <2> DEFINE r == SaveRequest("saveCost", ui.costForm, row)
  <2>2. Post(r, FALSE, [ui EXCEPT !.creating = TRUE]) /\ r.op = "saveCost"
    BY <2>1 DEF SaveRequest
  <2> HIDE DEF r
  <2>3. Asks(r) /\ ui' = [ui EXCEPT !.creating = TRUE]
    BY <2>2, Sends DEF SettingsBusy
  <2> QED BY <2>2, <2>3 DEF Asks, SettingsBusy
<1>6. CASE SaveAlert
  <2>1. PICK row : Post(SaveRequest("saveAlert", ui.alertForm, row), FALSE, [ui EXCEPT !.savingAlert = TRUE])
    BY <1>6 DEF SaveAlert, Send
  <2> DEFINE r == SaveRequest("saveAlert", ui.alertForm, row)
  <2>2. Post(r, FALSE, [ui EXCEPT !.savingAlert = TRUE]) /\ r.op = "saveAlert"
    BY <2>1 DEF SaveRequest
  <2> HIDE DEF r
  <2>3. Asks(r) /\ ui' = [ui EXCEPT !.savingAlert = TRUE]
    BY <2>2, Sends DEF SettingsBusy
  <2> QED BY <2>2, <2>3 DEF Asks, SettingsBusy
<1>7. ASSUME NEW row, ActivateConfig(row) PROVE SettingsBusy'
  <2> DEFINE r == [op |-> "activate", row |-> row]
  <2>2. Post(r, FALSE, [ui EXCEPT !.activating = row]) /\ r.op = "activate" /\ r.row = row
    BY <1>7 DEF ActivateConfig, Send
  <2> HIDE DEF r
  <2>3. Asks(r) /\ ui' = [ui EXCEPT !.activating = row]
    BY <2>2, Sends DEF SettingsBusy
  <2> QED BY <2>2, <2>3 DEF Asks, SettingsBusy
<1>8. CASE SaveOperatingHours
  <2> DEFINE r == [op |-> "hours", hours |-> ui.hours]
  <2>2. Post(r, FALSE, [ui EXCEPT !.savingHours = TRUE]) /\ r.op = "hours"
    BY <1>8 DEF SaveOperatingHours, Send
  <2> HIDE DEF r
  <2>3. Asks(r) /\ ui' = [ui EXCEPT !.savingHours = TRUE]
    BY <2>2, Sends DEF SettingsBusy
  <2> QED BY <2>2, <2>3 DEF Asks, SettingsBusy
<1>9. CASE SaveOrgSetting
  <2>1. PICK z : Post([op |-> "timezone", timezone |-> z], TRUE, [ui EXCEPT !.savingOrgSettings = TRUE])
    BY <1>9 DEF SaveOrgSetting, SendAwaiting
  <2> DEFINE r == [op |-> "timezone", timezone |-> z]
  <2>2. Post(r, TRUE, [ui EXCEPT !.savingOrgSettings = TRUE]) /\ r.op = "timezone"
    BY <2>1
  <2> HIDE DEF r
  <2>3. Asks(r) /\ ui' = [ui EXCEPT !.savingOrgSettings = TRUE]
    BY <2>2, Sends DEF SettingsBusy
  <2> QED BY <2>2, <2>3 DEF Asks, SettingsBusy
<1>10. CASE Serve(SettingsEffect) \/ Reload(SettingsStale) \/ (\E t \in Tables : FetchRead(t))
  <2>1. Idle /\ ui' = ui
    <3>1. CASE Serve(SettingsEffect)
      BY <3>1, AnswerBack DEF Serve, ServeAllowed, SettingsBusy
    <3>2. CASE Reload(SettingsStale)
      BY <3>2, AwaitsLists DEF Reload, SettingsBusy
    <3>3. CASE \E t \in Tables : FetchRead(t)
      BY <3>3, Waits DEF FetchRead, SettingsBusy
    <3> QED BY <1>10, <3>1, <3>2, <3>3
  <2> QED BY <1>1, <2>1 DEF Idle
<1>11. ASSUME NEW t, FetchShown(t, SettingsArrived) PROVE SettingsBusy'
  <2>1. UNCHANGED writes /\ (ui' = ui \/ ui' = [ui EXCEPT !.hours = reading.org.hours])
    BY <1>11 DEF FetchShown, SettingsArrived
  <2>2. SettingsFlags(ui') = SettingsFlags(ui)
    BY <2>1 DEF SettingsFlags, SettingsBusy
  <2> QED BY <1>1, <2>1, <2>2, Waits DEF SettingsBusy, Idle
<1>12. CASE Answered(SettingsFields, SettingsStale)
  <2>1. PICK q, ok : Ends(q) /\ ui' = SettingsFields(q, ok)
    BY <1>12, Handled DEF Answered, SettingsBusy
  <2>2. CASE q.op = "saveCost"
    BY <2>1, <2>2 DEF SettingsFields, SettingsBusy, Ends
  <2>3. CASE q.op = "saveAlert"
    BY <2>1, <2>3 DEF SettingsFields, SettingsBusy, Ends
  <2>4. CASE q.op = "activate"
    BY <2>1, <2>4 DEF SettingsFields, SettingsBusy, Ends
  <2>5. CASE q.op = "hours"
    BY <2>1, <2>5 DEF SettingsFields, SettingsBusy, Ends
  <2>6. CASE q.op = "timezone"
    BY <2>1, <2>6 DEF SettingsFields, SettingsBusy, Ends
  <2>7. CASE q.op \notin {"saveCost", "saveAlert", "activate", "hours", "timezone"}
    BY <2>1, <2>7 DEF SettingsFields, SettingsBusy, Ends
  <2> QED BY <2>2, <2>3, <2>4, <2>5, <2>6, <2>7
<1> QED BY <1>2, <1>3, <1>4, <1>5, <1>6, <1>7, <1>8, <1>9, <1>10, <1>11, <1>12 DEF SettingsNext, Background

\* A request that the one remembered action of the administrator waits for.
AboutRow(q) == (q.op = "org" /\ q.field # "trial") \/ q.op \in {"deleteOrg", "user"}

\* The administration.
AdminBusy ==
  /\ Shaped
  /\ DOMAIN ui = {"loadingAction", "editingTrial", "savingTrial", "responding", "textOf", "savingResponse", "creatingCode", "deletingAllCodes", "planEditing", "draft", "planSaving"}
  /\ ui.loadingAction # Nobody => \E q \in Reqs : AboutRow(q) /\ q.org = ui.loadingAction[2]
  /\ ui.savingTrial => \E q \in Reqs : q.op = "org" /\ q.field = "trial"
  /\ ui.savingResponse => \E q \in Reqs : q.op = "respond"
  /\ ui.creatingCode => \E q \in Reqs : q.op = "createCode"
  /\ ui.deletingAllCodes => \E q \in Reqs : q.op = "deletePending"
  /\ ui.planSaving => \E q \in Reqs : q.op = "plan"
AdminFlags(u) == <<DOMAIN u, u.loadingAction, u.savingTrial, u.savingResponse, u.creatingCode, u.deletingAllCodes, u.planSaving>>

LEMMA AdminBusySteps == AdminBusy /\ AdminNext => AdminBusy'
<1> SUFFICES ASSUME AdminBusy, AdminNext PROVE AdminBusy'
  OBVIOUS
<1>1. ASSUME Shaped', Reqs \subseteq Reqs', AdminFlags(ui') = AdminFlags(ui) PROVE AdminBusy'
  BY <1>1 DEF AdminBusy, AdminFlags
<1>2. CASE CancelTrial \/ StartEdit \/ CancelEdit \/ EditDraft
  <2>1. UNCHANGED writes /\ AdminFlags(ui') = AdminFlags(ui)
    BY <1>2 DEF CancelTrial, StartEdit, CancelEdit, EditDraft, Click, AdminFlags, AdminBusy
  <2> QED BY <1>1, <2>1, Waits DEF AdminBusy, Idle
<1>3. CASE \/ \E o \in DOMAIN shown.orgs : OpenTrial(o)
           \/ \E f \in DOMAIN shown.feedback : Respond(f)
  <2>1. UNCHANGED writes /\ AdminFlags(ui') = AdminFlags(ui)
    BY <1>3 DEF OpenTrial, Respond, Click, AdminFlags, AdminBusy
  <2> QED BY <1>1, <2>1, Waits DEF AdminBusy, Idle
<1>4. CASE \/ \E c \in CodeIds : DeleteInviteCode(c)
           \/ \E f \in DOMAIN shown.feedback : UpdateFeedbackStatus(f) \/ DeleteFeedback(f)
  <2>1. \E r : Asks(r) /\ ui' = ui
    BY <1>4, Sends DEF DeleteInviteCode, UpdateFeedbackStatus, DeleteFeedback, SendAwaiting, Send, AdminBusy
  <2> QED BY <1>1, <2>1 DEF Asks, AdminFlags
<1>5. ASSUME NEW action, NEW r, Act(action, r), AboutRow(r), r.org = action[2] PROVE AdminBusy'
  <2>1. Asks(r) /\ ui' = [ui EXCEPT !.loadingAction = action]
    BY <1>5, Sends DEF Act, Send, AdminBusy
  <2> QED BY <1>5, <2>1 DEF Asks, AdminBusy, AboutRow
<1>6. ASSUME NEW o, UpdateOrgStatus(o) \/ UpdateOrgPlan(o) PROVE AdminBusy'
  <2>1. PICK field, v : field # "trial" /\ Act(<<field, o>>, OrgRequest(o, field, v))
    BY <1>6 DEF UpdateOrgStatus, UpdateOrgPlan
  <2> DEFINE r == OrgRequest(o, field, v)
             action == <<field, o>>
  <2>2. Act(action, r) /\ AboutRow(r) /\ r.org = action[2]
    BY <2>1 DEF OrgRequest, AboutRow
  <2> HIDE DEF r, action
  <2> QED BY <1>5, <2>2
<1>7. ASSUME NEW o, DeleteOrg(o) PROVE AdminBusy'
  <2> DEFINE r == [op |-> "deleteOrg", org |-> o]
             action == <<"delete", o>>
  <2>1. Act(action, r) /\ AboutRow(r) /\ r.org = action[2]
    BY <1>7 DEF DeleteOrg, AboutRow
  <2> HIDE DEF r, action
  <2> QED BY <1>5, <2>1
<1>8. ASSUME NEW o, ToggleUser(o) PROVE AdminBusy'
  <2>1. PICK field, v : Act(<<field, o>>, [op |-> "user", org |-> o, field |-> field, value |-> v])
    BY <1>8 DEF ToggleUser
  <2> DEFINE r == [op |-> "user", org |-> o, field |-> field, value |-> v]
             action == <<field, o>>
  <2>2. Act(action, r) /\ AboutRow(r) /\ r.org = action[2]
    BY <2>1 DEF AboutRow
  <2> HIDE DEF r, action
  <2> QED BY <1>5, <2>2
<1>9. ASSUME NEW o, UpdateTrialDays(o) PROVE AdminBusy'
  <2> DEFINE r == OrgRequest(o, "trial", "long")
  <2>2. Post(r, FALSE, [ui EXCEPT !.savingTrial = TRUE]) /\ r.op = "org" /\ r.field = "trial"
    BY <1>9 DEF UpdateTrialDays, Send, OrgRequest
  <2> HIDE DEF r
  <2>3. Asks(r) /\ ui' = [ui EXCEPT !.savingTrial = TRUE]
    BY <2>2, Sends DEF AdminBusy
  <2> QED BY <2>2, <2>3 DEF Asks, AdminBusy
<1>10. ASSUME NEW f, RespondFeedback(f) PROVE AdminBusy'
  <2> DEFINE r == [op |-> "respond", item |-> f, value |-> "resolved"]
  <2>2. Post(r, FALSE, [ui EXCEPT !.savingResponse = TRUE]) /\ r.op = "respond"
    BY <1>10 DEF RespondFeedback, Send
  <2> HIDE DEF r
  <2>3. Asks(r) /\ ui' = [ui EXCEPT !.savingResponse = TRUE]
    BY <2>2, Sends DEF AdminBusy
  <2> QED BY <2>2, <2>3 DEF Asks, AdminBusy
<1>11. CASE CreateInviteCode
  <2>1. PICK c : Post([op |-> "createCode", code |-> c], TRUE, [ui EXCEPT !.creatingCode = TRUE])
    BY <1>11 DEF CreateInviteCode, SendAwaiting
  <2> DEFINE r == [op |-> "createCode", code |-> c]
  <2>2. Post(r, TRUE, [ui EXCEPT !.creatingCode = TRUE]) /\ r.op = "createCode"
    BY <2>1
  <2> HIDE DEF r
  <2>3. Asks(r) /\ ui' = [ui EXCEPT !.creatingCode = TRUE]
    BY <2>2, Sends DEF AdminBusy
  <2> QED BY <2>2, <2>3 DEF Asks, AdminBusy
<1>12. CASE DeleteAllPendingCodes
  <2> DEFINE r == [op |-> "deletePending"]
  <2>2. Post(r, TRUE, [ui EXCEPT !.deletingAllCodes = TRUE]) /\ r.op = "deletePending"
    BY <1>12 DEF DeleteAllPendingCodes, SendAwaiting
  <2> HIDE DEF r
  <2>3. Asks(r) /\ ui' = [ui EXCEPT !.deletingAllCodes = TRUE]
    BY <2>2, Sends DEF AdminBusy
  <2> QED BY <2>2, <2>3 DEF Asks, AdminBusy
<1>13. CASE SavePlan
  <2> DEFINE r == [op |-> "plan", draft |-> ui.draft]
  <2>2. Post(r, FALSE, [ui EXCEPT !.planSaving = TRUE]) /\ r.op = "plan"
    BY <1>13 DEF SavePlan, Send
  <2> HIDE DEF r
  <2>3. Asks(r) /\ ui' = [ui EXCEPT !.planSaving = TRUE]
    BY <2>2, Sends DEF AdminBusy
  <2> QED BY <2>2, <2>3 DEF Asks, AdminBusy
<1>14. CASE Serve(AdminEffect) \/ Reload(AdminStale) \/ (\E t \in Tables : FetchRead(t) \/ FetchShown(t, NoEffect))
  <2>1. Idle /\ ui' = ui
    <3>1. CASE Serve(AdminEffect)
      BY <3>1, AnswerBack DEF Serve, ServeAllowed, AdminBusy
    <3>2. CASE Reload(AdminStale)
      BY <3>2, AwaitsLists DEF Reload, AdminBusy
    <3>3. CASE \E t \in Tables : FetchRead(t) \/ FetchShown(t, NoEffect)
      BY <3>3, Waits DEF FetchRead, FetchShown, NoEffect, AdminBusy
    <3> QED BY <1>14, <3>1, <3>2, <3>3
  <2> QED BY <1>1, <2>1 DEF Idle
<1>15. CASE Answered(AdminFields, AdminStale)
  <2>1. PICK q, ok : Ends(q) /\ ui' = AdminFields(q, ok)
    BY <1>15, Handled DEF Answered, AdminBusy
  <2>2. CASE q.op = "org" /\ q.field = "trial"
    <3>1. ui' = [ui EXCEPT !.savingTrial = FALSE, !.editingTrial = IF ok THEN Nobody ELSE ui.editingTrial]
      BY <2>1, <2>2 DEF AdminFields
    <3>2. ~AboutRow(q)
      BY <2>2 DEF AboutRow
    <3> QED BY <2>1, <2>2, <3>1, <3>2 DEF AdminBusy, Ends
  <2>3. CASE AboutRow(q)
    BY <2>1, <2>3 DEF AdminFields, AdminBusy, Ends, AboutRow
  <2>4. CASE q.op = "createCode"
    BY <2>1, <2>4 DEF AdminFields, AdminBusy, Ends, AboutRow
  <2>5. CASE q.op = "deletePending"
    BY <2>1, <2>5 DEF AdminFields, AdminBusy, Ends, AboutRow
  <2>6. CASE q.op = "respond"
    BY <2>1, <2>6 DEF AdminFields, AdminBusy, Ends, AboutRow
  <2>7. CASE q.op = "plan"
    <3>1. ui' = [ui EXCEPT !.planSaving = FALSE, !.planEditing = ui.planEditing /\ ~ok]
      BY <2>1, <2>7 DEF AdminFields
    <3>2. ~AboutRow(q)
      BY <2>7 DEF AboutRow
    <3> QED BY <2>1, <2>7, <3>1, <3>2 DEF AdminBusy, Ends
  <2>8. CASE q.op \notin {"org", "deleteOrg", "user", "createCode", "deletePending", "respond", "plan"}
    BY <2>1, <2>8 DEF AdminFields, AdminBusy, Ends, AboutRow
  <2> QED BY <2>2, <2>3, <2>4, <2>5, <2>6, <2>7, <2>8 DEF AboutRow
<1> QED BY <1>2, <1>3, <1>4, <1>6, <1>7, <1>8, <1>9, <1>10, <1>11, <1>12, <1>13, <1>14, <1>15 DEF AdminNext, Background

\* The leads.
LeadsBusy ==
  /\ Shaped
  /\ DOMAIN ui = {"filter", "search", "leadsPage", "period", "customFrom", "customTo", "addingEmail", "expanded", "editingStates", "savingEmail", "editingConfig", "draft", "savingConfig"}
  /\ ui.addingEmail => \E q \in Reqs : q.op = "addEmail"
  /\ ui.savingEmail # NoOne => \E q \in Reqs : q.op = "states"
  /\ ui.savingConfig => \E q \in Reqs : q.op = "config"
LeadsFlags(u) == <<DOMAIN u, u.addingEmail, u.savingEmail, u.savingConfig>>

LEMMA LeadsBusySteps == LeadsBusy /\ LeadsNext => LeadsBusy'
<1> SUFFICES ASSUME LeadsBusy, LeadsNext PROVE LeadsBusy'
  OBVIOUS
<1>1. ASSUME Shaped', Reqs \subseteq Reqs', LeadsFlags(ui') = LeadsFlags(ui) PROVE LeadsBusy'
  BY <1>1 DEF LeadsBusy, LeadsFlags
<1>2. CASE SetFilter \/ SetSearch \/ PreviousPage \/ NextPage \/ SetPeriod \/ SetDates
  <2>1. UNCHANGED writes /\ LeadsFlags(ui') = LeadsFlags(ui)
    BY <1>2 DEF SetFilter, SetSearch, PreviousPage, NextPage, SetPeriod, SetDates, ResetPage, Click, LeadsFlags, LeadsBusy
  <2> QED BY <1>1, <2>1, Waits DEF LeadsBusy, Idle
<1>3. CASE CloseEmail \/ StartEditingConfig \/ EditConfig \/ CancelConfig
  <2>1. UNCHANGED writes /\ LeadsFlags(ui') = LeadsFlags(ui)
    BY <1>3 DEF CloseEmail, StartEditingConfig, EditConfig, CancelConfig, Click, LeadsFlags, LeadsBusy
  <2> QED BY <1>1, <2>1, Waits DEF LeadsBusy, Idle
<1>4. CASE \E e \in EmailIds : StartEditingEmail(e) \/ ToggleEmailState(e)
  <2>1. UNCHANGED writes /\ LeadsFlags(ui') = LeadsFlags(ui)
    BY <1>4 DEF StartEditingEmail, ToggleEmailState, Click, LeadsFlags, LeadsBusy
  <2> QED BY <1>1, <2>1, Waits DEF LeadsBusy, Idle
<1>5. CASE \E e \in EmailIds : HandleRemoveEmail(e)
  <2>1. \E r : Asks(r) /\ ui' = ui
    BY <1>5, Sends DEF HandleRemoveEmail, Send, LeadsBusy
  <2> QED BY <1>1, <2>1 DEF Asks, LeadsFlags
<1>6. CASE HandleAddEmail
  <2>1. PICK e : Post([op |-> "addEmail", email |-> e], FALSE, [ui EXCEPT !.addingEmail = TRUE])
    BY <1>6 DEF HandleAddEmail, Send
  <2> DEFINE r == [op |-> "addEmail", email |-> e]
  <2>2. Post(r, FALSE, [ui EXCEPT !.addingEmail = TRUE]) /\ r.op = "addEmail"
    BY <2>1
  <2> HIDE DEF r
  <2>3. Asks(r) /\ ui' = [ui EXCEPT !.addingEmail = TRUE]
    BY <2>2, Sends DEF LeadsBusy
  <2> QED BY <2>2, <2>3 DEF Asks, LeadsBusy
<1>7. ASSUME NEW e, HandleSaveEmailStates(e) PROVE LeadsBusy'
  <2> DEFINE r == [op |-> "states", email |-> e, states |-> ui.editingStates[e]]
  <2>2. Post(r, FALSE, [ui EXCEPT !.savingEmail = e]) /\ r.op = "states"
    BY <1>7 DEF HandleSaveEmailStates, Send
  <2> HIDE DEF r
  <2>3. Asks(r) /\ ui' = [ui EXCEPT !.savingEmail = e]
    BY <2>2, Sends DEF LeadsBusy
  <2> QED BY <2>2, <2>3 DEF Asks, LeadsBusy
<1>8. CASE HandleSaveConfig
  <2> DEFINE r == [op |-> "config", draft |-> ui.draft]
  <2>2. Post(r, FALSE, [ui EXCEPT !.savingConfig = TRUE]) /\ r.op = "config"
    BY <1>8 DEF HandleSaveConfig, Send
  <2> HIDE DEF r
  <2>3. Asks(r) /\ ui' = [ui EXCEPT !.savingConfig = TRUE]
    BY <2>2, Sends DEF LeadsBusy
  <2> QED BY <2>2, <2>3 DEF Asks, LeadsBusy
<1>9. CASE Serve(LeadsEffect) \/ Reload(LeadsStale) \/ (\E t \in Tables : FetchRead(t) \/ FetchShown(t, NoEffect))
  <2>1. Idle /\ ui' = ui
    <3>1. CASE Serve(LeadsEffect)
      BY <3>1, AnswerBack DEF Serve, ServeAllowed, LeadsBusy
    <3>2. CASE Reload(LeadsStale)
      BY <3>2, AwaitsLists DEF Reload, LeadsBusy
    <3>3. CASE \E t \in Tables : FetchRead(t) \/ FetchShown(t, NoEffect)
      BY <3>3, Waits DEF FetchRead, FetchShown, NoEffect, LeadsBusy
    <3> QED BY <1>9, <3>1, <3>2, <3>3
  <2> QED BY <1>1, <2>1 DEF Idle
<1>10. CASE Answered(LeadsFields, LeadsStale)
  <2>1. PICK q, ok : Ends(q) /\ ui' = LeadsFields(q, ok)
    BY <1>10, Handled DEF Answered, LeadsBusy
  <2>2. CASE q.op = "states"
    BY <2>1, <2>2 DEF LeadsFields, LeadsBusy, Ends
  <2>3. CASE q.op = "addEmail"
    BY <2>1, <2>3 DEF LeadsFields, LeadsBusy, Ends
  <2>4. CASE q.op = "config"
    BY <2>1, <2>4 DEF LeadsFields, LeadsBusy, Ends
  <2>5. CASE q.op \notin {"states", "addEmail", "config"}
    BY <2>1, <2>5 DEF LeadsFields, LeadsBusy, Ends
  <2> QED BY <2>2, <2>3, <2>4, <2>5
<1> QED BY <1>2, <1>3, <1>4, <1>5, <1>6, <1>7, <1>8, <1>9, <1>10 DEF LeadsNext, Background

\* The investment.
InvestBusy ==
  /\ Shaped
  /\ DOMAIN ui = {"analysisMode", "inputs", "hours", "kwhOf", "regimeOf", "showFillPanel", "showSavePanel", "isSaving"}
  /\ ui.isSaving => \E q \in Reqs : q.op = "saveProject"
InvestFlags(u) == <<DOMAIN u, u.isSaving>>

LEMMA InvestBusySteps == InvestBusy /\ InvestNext => InvestBusy'
<1> SUFFICES ASSUME InvestBusy, InvestNext PROVE InvestBusy'
  OBVIOUS
<1>1. ASSUME Shaped', Reqs \subseteq Reqs', InvestFlags(ui') = InvestFlags(ui) PROVE InvestBusy'
  BY <1>1 DEF InvestBusy, InvestFlags
<1>2. CASE SwitchAnalysis \/ SetTerms \/ SetCapexModeAdvanced \/ SetCapexOverride \/ SelectRegime \/ ToggleFillPanel \/ ToggleSavePanel
  <2>1. UNCHANGED writes /\ InvestFlags(ui') = InvestFlags(ui)
    BY <1>2 DEF SwitchAnalysis, SetTerms, SetCapexModeAdvanced, SetCapexOverride, SelectRegime, ToggleFillPanel, ToggleSavePanel, Click, InvestFlags, InvestBusy
  <2> QED BY <1>1, <2>1, Waits DEF InvestBusy, Idle
<1>3. CASE SetChargers \/ MoveHours
  <2>1. UNCHANGED writes /\ InvestFlags(ui') = InvestFlags(ui)
    BY <1>3 DEF SetChargers, MoveHours, SyncKwh, Click, InvestFlags, InvestBusy
  <2> QED BY <1>1, <2>1, Waits DEF InvestBusy, Idle
<1>4. CASE \E i \in shown.scenarios : LoadProject(i) \/ ImportProject(i)
  <2>1. UNCHANGED writes /\ InvestFlags(ui') = InvestFlags(ui)
    BY <1>4 DEF LoadProject, ImportProject, SyncKwh, Click, InvestFlags, InvestBusy
  <2> QED BY <1>1, <2>1, Waits DEF InvestBusy, Idle
<1>5. CASE HandleFillWithRealData \/ \E i \in shown.scenarios : DeleteProject(i)
  <2>1. \E r : Asks(r) /\ ui' = ui
    BY <1>5, Sends DEF HandleFillWithRealData, DeleteProject, SendAwaiting, Send, InvestBusy
  <2> QED BY <1>1, <2>1 DEF Asks, InvestFlags
<1>6. CASE SaveProject
  <2> DEFINE r == [op |-> "saveProject", inputs |-> ui.inputs]
  <2>2. Post(r, TRUE, [ui EXCEPT !.isSaving = TRUE]) /\ r.op = "saveProject"
    BY <1>6 DEF SaveProject, SendAwaiting
  <2> HIDE DEF r
  <2>3. Asks(r) /\ ui' = [ui EXCEPT !.isSaving = TRUE]
    BY <2>2, Sends DEF InvestBusy
  <2> QED BY <2>2, <2>3 DEF Asks, InvestBusy
<1>7. CASE Serve(InvestEffect) \/ Reload(InvestStale) \/ (\E t \in Tables : FetchRead(t) \/ FetchShown(t, NoEffect))
  <2>1. Idle /\ ui' = ui
    <3>1. CASE Serve(InvestEffect)
      BY <3>1, AnswerBack DEF Serve, ServeAllowed, InvestBusy
    <3>2. CASE Reload(InvestStale)
      BY <3>2, AwaitsLists DEF Reload, InvestBusy
    <3>3. CASE \E t \in Tables : FetchRead(t) \/ FetchShown(t, NoEffect)
      BY <3>3, Waits DEF FetchRead, FetchShown, NoEffect, InvestBusy
    <3> QED BY <1>7, <3>1, <3>2, <3>3
  <2> QED BY <1>1, <2>1 DEF Idle
<1>8. CASE Answered(InvestFields, InvestStale)
  <2>1. PICK q, ok : Ends(q) /\ ui' = InvestFields(q, ok)
    BY <1>8, Handled DEF Answered, InvestBusy
  <2>2. CASE q.op = "saveProject"
    BY <2>1, <2>2 DEF InvestFields, InvestBusy, Ends
  <2>3. CASE q.op # "saveProject"
    BY <2>1, <2>3 DEF InvestFields, InvestBusy, Ends
  <2> QED BY <2>2, <2>3
<1> QED BY <1>2, <1>3, <1>4, <1>5, <1>6, <1>7, <1>8 DEF InvestNext, Background

\* The investments per charger.
CapexBusy ==
  /\ Shaped
  /\ DOMAIN ui = {"showForm", "editId", "form", "saving", "deleting"}
  /\ ui.saving => \E q \in Reqs : q.op = "save"
  /\ ui.deleting # NoRecord => \E q \in Reqs : q.op = "delete"
CapexFlags(u) == <<DOMAIN u, u.saving, u.deleting>>

LEMMA CapexBusySteps == CapexBusy /\ CapexNext => CapexBusy'
<1> SUFFICES ASSUME CapexBusy, CapexNext PROVE CapexBusy'
  OBVIOUS
<1>1. ASSUME Shaped', Reqs \subseteq Reqs', CapexFlags(ui') = CapexFlags(ui) PROVE CapexBusy'
  BY <1>1 DEF CapexBusy, CapexFlags
<1>2. CASE OpenAdd \/ EditForm \/ CloseForm \/ \E i \in CapexRows : OpenCapex(i)
  <2>1. UNCHANGED writes /\ CapexFlags(ui') = CapexFlags(ui)
    BY <1>2 DEF OpenAdd, EditForm, CloseForm, OpenCapex, Click, CapexFlags, CapexBusy
  <2> QED BY <1>1, <2>1, Waits DEF CapexBusy, Idle
<1>3. CASE HandleSave
  <2>1. PICK row : Post([op |-> "save", row |-> row, new |-> ui.editId = NoRecord, values |-> ui.form.values], FALSE, [ui EXCEPT !.saving = TRUE])
    BY <1>3 DEF HandleSave, Send
  <2> DEFINE r == [op |-> "save", row |-> row, new |-> ui.editId = NoRecord, values |-> ui.form.values]
  <2>2. Post(r, FALSE, [ui EXCEPT !.saving = TRUE]) /\ r.op = "save"
    BY <2>1
  <2> HIDE DEF r
  <2>3. Asks(r) /\ ui' = [ui EXCEPT !.saving = TRUE]
    BY <2>2, Sends DEF CapexBusy
  <2> QED BY <2>2, <2>3 DEF Asks, CapexBusy
<1>4. ASSUME NEW i, HandleDelete(i) PROVE CapexBusy'
  <2> DEFINE r == [op |-> "delete", row |-> i]
  <2>2. Post(r, FALSE, [ui EXCEPT !.deleting = i]) /\ r.op = "delete"
    BY <1>4 DEF HandleDelete, Send
  <2> HIDE DEF r
  <2>3. Asks(r) /\ ui' = [ui EXCEPT !.deleting = i]
    BY <2>2, Sends DEF CapexBusy
  <2> QED BY <2>2, <2>3 DEF Asks, CapexBusy
<1>5. CASE ServeAllowed(CapexAllowed, CapexEffect) \/ FetchRead("capex") \/ FetchShown("capex", NoEffect)
  <2>1. Idle /\ ui' = ui
    <3>1. CASE ServeAllowed(CapexAllowed, CapexEffect)
      BY <3>1, AnswerBack DEF ServeAllowed, CapexBusy
    <3>2. CASE FetchRead("capex") \/ FetchShown("capex", NoEffect)
      BY <3>2, Waits DEF FetchRead, FetchShown, NoEffect, CapexBusy
    <3> QED BY <1>5, <3>1, <3>2
  <2> QED BY <1>1, <2>1 DEF Idle
<1>6. CASE Answered(CapexFields, CapexStale)
  <2>1. PICK q, ok : Ends(q) /\ ui' = CapexFields(q, ok)
    BY <1>6, Handled DEF Answered, CapexBusy
  <2>2. CASE q.op = "save"
    BY <2>1, <2>2 DEF CapexFields, CapexBusy, Ends
  <2>3. CASE q.op # "save"
    BY <2>1, <2>3 DEF CapexFields, CapexBusy, Ends
  <2> QED BY <2>2, <2>3
<1> QED BY <1>2, <1>3, <1>4, <1>5, <1>6 DEF CapexNext

\* The team.
TeamBusy ==
  /\ Shaped
  /\ DOMAIN ui = {"inviting", "showRoleEditor", "editingRole", "form", "formOf", "savingRole", "assigningMember"}
  /\ ui.inviting => \E q \in Reqs : q.op = "invite"
  /\ ui.savingRole => \E q \in Reqs : q.op \in {"put", "post"}
  /\ ui.assigningMember # NoRole => \E q \in Reqs : q.op = "assign"
TeamFlags(u) == <<DOMAIN u, u.inviting, u.savingRole, u.assigningMember>>

LEMMA TeamBusySteps == TeamBusy /\ TeamNext => TeamBusy'
<1> SUFFICES ASSUME TeamBusy, TeamNext PROVE TeamBusy'
  OBVIOUS
<1>1. ASSUME Shaped', Reqs \subseteq Reqs', TeamFlags(ui') = TeamFlags(ui) PROVE TeamBusy'
  BY <1>1 DEF TeamBusy, TeamFlags
<1>2. CASE \/ \E i \in InviteIds : CancelInvite(i)
           \/ \E p \in People : RemoveMember(p)
           \/ \E r \in RoleIds : DeleteRole(r)
  <2>1. \E r : Asks(r) /\ ui' = ui
    BY <1>2, Sends DEF CancelInvite, RemoveMember, DeleteRole, Send, TeamBusy
  <2> QED BY <1>1, <2>1 DEF Asks, TeamFlags
<1>3. CASE EditRole \/ CloseRoleEditor \/ \E r \in RoleIds \cup {NoRole} : OpenRoleEditor(r)
  <2>1. UNCHANGED writes /\ TeamFlags(ui') = TeamFlags(ui)
    BY <1>3 DEF EditRole, CloseRoleEditor, OpenRoleEditor, Click, TeamFlags, TeamBusy
  <2> QED BY <1>1, <2>1, Waits DEF TeamBusy, Idle
<1>4. ASSUME NEW i, NEW role, OnInvite(i, role) PROVE TeamBusy'
  <2> DEFINE r == [op |-> "invite", id |-> i, role |-> role]
  <2>2. Post(r, FALSE, [ui EXCEPT !.inviting = TRUE]) /\ r.op = "invite"
    BY <1>4 DEF OnInvite, Send
  <2> HIDE DEF r
  <2>3. Asks(r) /\ ui' = [ui EXCEPT !.inviting = TRUE]
    BY <2>2, Sends DEF TeamBusy
  <2> QED BY <2>2, <2>3 DEF Asks, TeamBusy
<1>5. ASSUME NEW p, NEW role, AssignRole(p, role) PROVE TeamBusy'
  <2> DEFINE r == [op |-> "assign", who |-> p, role |-> role]
  <2>2. Post(r, FALSE, [ui EXCEPT !.assigningMember = p]) /\ r.op = "assign"
    BY <1>5 DEF AssignRole, Send
  <2> HIDE DEF r
  <2>3. Asks(r) /\ ui' = [ui EXCEPT !.assigningMember = p]
    BY <2>2, Sends DEF TeamBusy
  <2> QED BY <2>2, <2>3 DEF Asks, TeamBusy
<1>6. CASE SaveRole /\ ui.editingRole # NoRole
  <2> DEFINE r == [op |-> "put", role |-> ui.editingRole, form |-> ui.form]
  <2>2. Post(r, FALSE, [ui EXCEPT !.savingRole = TRUE]) /\ r.op = "put"
    BY <1>6 DEF SaveRole, Send
  <2> HIDE DEF r
  <2>3. Asks(r) /\ ui' = [ui EXCEPT !.savingRole = TRUE]
    BY <2>2, Sends DEF TeamBusy
  <2> QED BY <2>2, <2>3 DEF Asks, TeamBusy
<1>7. CASE SaveRole /\ ui.editingRole = NoRole
  <2>1. PICK role : Post([op |-> "post", role |-> role, form |-> ui.form], FALSE, [ui EXCEPT !.savingRole = TRUE])
    BY <1>7 DEF SaveRole, Send
  <2> DEFINE r == [op |-> "post", role |-> role, form |-> ui.form]
  <2>2. Post(r, FALSE, [ui EXCEPT !.savingRole = TRUE]) /\ r.op = "post"
    BY <2>1
  <2> HIDE DEF r
  <2>3. Asks(r) /\ ui' = [ui EXCEPT !.savingRole = TRUE]
    BY <2>2, Sends DEF TeamBusy
  <2> QED BY <2>2, <2>3 DEF Asks, TeamBusy
<1>8. CASE ServeAllowed(TeamAllowed, TeamEffect) \/ (\E t \in Tables : FetchRead(t) \/ FetchShown(t, NoEffect))
  <2>1. Idle /\ ui' = ui
    <3>1. CASE ServeAllowed(TeamAllowed, TeamEffect)
      BY <3>1, AnswerBack DEF ServeAllowed, TeamBusy
    <3>2. CASE \E t \in Tables : FetchRead(t) \/ FetchShown(t, NoEffect)
      BY <3>2, Waits DEF FetchRead, FetchShown, NoEffect, TeamBusy
    <3> QED BY <1>8, <3>1, <3>2
  <2> QED BY <1>1, <2>1 DEF Idle
<1>9. CASE Answered(TeamFields, TeamStale)
  <2>1. PICK q, ok : Ends(q) /\ ui' = TeamFields(q, ok)
    BY <1>9, Handled DEF Answered, TeamBusy
  <2>2. CASE q.op = "invite"
    BY <2>1, <2>2 DEF TeamFields, TeamBusy, Ends
  <2>3. CASE q.op \in {"put", "post"}
    BY <2>1, <2>3 DEF TeamFields, TeamBusy, Ends
  <2>4. CASE q.op = "assign"
    BY <2>1, <2>4 DEF TeamFields, TeamBusy, Ends
  <2>5. CASE q.op \notin {"invite", "put", "post", "assign"}
    BY <2>1, <2>5 DEF TeamFields, TeamBusy, Ends
  <2> QED BY <2>2, <2>3, <2>4, <2>5
<1> QED BY <1>2, <1>3, <1>4, <1>5, <1>6, <1>7, <1>8, <1>9 DEF TeamNext

\* Billing.
BillingPageBusy ==
  /\ Shaped
  /\ DOMAIN ui = {"loadingPlan", "loadingPortal", "at", "toast", "bought"}
  /\ \A q \in Reqs : q.op \in {"checkout", "portal"}
  /\ ui.loadingPlan # NoPlan /\ ui.at = "page" => \E q \in Reqs : q.op = "checkout"
  /\ ui.loadingPortal /\ ui.at = "page" => \E q \in Reqs : q.op = "portal"
BillingPageFlags(u) == <<DOMAIN u, u.loadingPlan, u.loadingPortal, u.at>>

LEMMA BillingPageBusySteps == BillingPageBusy /\ (BillingPageNext \/ AccountBackground) => BillingPageBusy'
<1> SUFFICES ASSUME BillingPageBusy, (BillingPageNext \/ AccountBackground) PROVE BillingPageBusy'
  OBVIOUS
<1>1. ASSUME Shaped', Reqs \subseteq Reqs', Reqs' \subseteq Reqs, BillingPageFlags(ui') = BillingPageFlags(ui) PROVE BillingPageBusy'
  BY <1>1 DEF BillingPageBusy, BillingPageFlags
<1>2. ASSUME NEW plan, HandleCheckout(plan) PROVE BillingPageBusy'
  <2> DEFINE r == [op |-> "checkout", plan |-> plan]
  <2>2. Post(r, FALSE, [ui EXCEPT !.loadingPlan = plan]) /\ r.op = "checkout"
    BY <1>2 DEF HandleCheckout, Send
  <2> HIDE DEF r
  <2>3. Asks(r) /\ ui' = [ui EXCEPT !.loadingPlan = plan]
    BY <2>2, Sends DEF BillingPageBusy
  <2> QED BY <2>2, <2>3 DEF Asks, BillingPageBusy
<1>3. CASE HandlePortal
  <2> DEFINE r == [op |-> "portal"]
  <2>2. Post(r, FALSE, [ui EXCEPT !.loadingPortal = TRUE]) /\ r.op = "portal"
    BY <1>3 DEF HandlePortal, Send
  <2> HIDE DEF r
  <2>3. Asks(r) /\ ui' = [ui EXCEPT !.loadingPortal = TRUE]
    BY <2>2, Sends DEF BillingPageBusy
  <2> QED BY <2>2, <2>3 DEF Asks, BillingPageBusy
<1>4. CASE Webhook \/ Focus
  <2>1. UNCHANGED writes /\ ui' = ui
    BY <1>4 DEF Webhook, Focus
  <2> QED BY <1>1, <2>1, Waits DEF BillingPageBusy, Idle
<1>5. ASSUME NEW paid, ReturnFromStripe(paid) PROVE BillingPageBusy'
  <2>1. /\ writes' = <<>> /\ DOMAIN ui' = DOMAIN ui
        /\ ui'.loadingPlan = NoPlan /\ ui'.loadingPortal = FALSE
    BY <1>5 DEF ReturnFromStripe, BillingPageBusy
  <2>2. Shaped' /\ Reqs' = {}
    BY <2>1 DEF Shaped, Reqs
  <2> QED BY <2>1, <2>2 DEF BillingPageBusy
<1>6. CASE Serve(AccountEffect) \/ Reload(AccountStale) \/ (\E t \in Tables : FetchRead(t) \/ FetchShown(t, NoEffect))
  <2>1. Idle /\ ui' = ui
    <3>1. CASE Serve(AccountEffect)
      BY <3>1, AnswerBack DEF Serve, ServeAllowed, BillingPageBusy
    <3>2. CASE Reload(AccountStale)
      BY <3>2, AwaitsLists DEF Reload, BillingPageBusy
    <3>3. CASE \E t \in Tables : FetchRead(t) \/ FetchShown(t, NoEffect)
      BY <3>3, Waits DEF FetchRead, FetchShown, NoEffect, BillingPageBusy
    <3> QED BY <1>6, <3>1, <3>2, <3>3
  <2> QED BY <1>1, <2>1 DEF Idle
<1>7. CASE Answered(AccountFields, AccountStale)
  <2>1. PICK q, ok : Ends(q) /\ ui' = AccountFields(q, ok)
    BY <1>7, Handled DEF Answered, BillingPageBusy
  <2>2. q.op \in {"checkout", "portal"}
    BY <2>1 DEF Ends, BillingPageBusy
  <2>3. ui' = BillingFields(q, ok)
    BY <2>1, <2>2 DEF AccountFields
  <2>4. CASE ok
    BY <2>1, <2>2, <2>3, <2>4 DEF BillingFields, BillingPageBusy, Ends
  <2>5. CASE ~ok /\ q.op = "checkout"
    BY <2>1, <2>3, <2>5 DEF BillingFields, BillingPageBusy, Ends
  <2>6. CASE ~ok /\ q.op # "checkout"
    BY <2>1, <2>2, <2>3, <2>6 DEF BillingFields, BillingPageBusy, Ends
  <2> QED BY <2>4, <2>5, <2>6
<1> QED BY <1>2, <1>3, <1>4, <1>5, <1>6, <1>7 DEF BillingPageNext, AccountBackground, Background

\* The profile.
ProfileBusy ==
  /\ Shaped
  /\ DOMAIN ui = {"name", "nameLoading", "current", "new", "confirm", "pwLoading", "uploadingLogo", "signedIn"}
  /\ \A q \in Reqs : q.op \in {"name", "password", "logo"}
  /\ ui.nameLoading => \E q \in Reqs : q.op = "name"
  /\ ui.pwLoading => \E q \in Reqs : q.op = "password"
  /\ ui.uploadingLogo => \E q \in Reqs : q.op = "logo" /\ q.logo # "none"
ProfileFlags(u) == <<DOMAIN u, u.nameLoading, u.pwLoading, u.uploadingLogo>>

LEMMA ProfileBusySteps == ProfileBusy /\ (ProfileNext \/ AccountBackground) => ProfileBusy'
<1> SUFFICES ASSUME ProfileBusy, (ProfileNext \/ AccountBackground) PROVE ProfileBusy'
  OBVIOUS
<1>1. ASSUME Shaped', Reqs \subseteq Reqs', Reqs' \subseteq Reqs, ProfileFlags(ui') = ProfileFlags(ui) PROVE ProfileBusy'
  BY <1>1 DEF ProfileBusy, ProfileFlags
<1>2. CASE TypeName \/ TypePassword
  <2>1. UNCHANGED writes /\ ProfileFlags(ui') = ProfileFlags(ui)
    BY <1>2 DEF TypeName, TypePassword, Click, ProfileFlags, ProfileBusy
  <2> QED BY <1>1, <2>1, Waits DEF ProfileBusy, Idle
<1>3. CASE HandleSaveName
  <2> DEFINE r == [op |-> "name", name |-> ui.name]
  <2>2. Post(r, TRUE, [ui EXCEPT !.nameLoading = TRUE]) /\ r.op = "name"
    BY <1>3 DEF HandleSaveName, SendAwaiting
  <2> HIDE DEF r
  <2>3. Asks(r) /\ ui' = [ui EXCEPT !.nameLoading = TRUE]
    BY <2>2, Sends DEF ProfileBusy
  <2> QED BY <2>2, <2>3 DEF Asks, ProfileBusy
<1>4. CASE HandleChangePassword
  <2> DEFINE r == [op |-> "password", new |-> ui.new]
  <2>2. Post(r, FALSE, [ui EXCEPT !.pwLoading = TRUE]) /\ r.op = "password"
    BY <1>4 DEF HandleChangePassword, Send
  <2> HIDE DEF r
  <2>3. Asks(r) /\ ui' = [ui EXCEPT !.pwLoading = TRUE]
    BY <2>2, Sends DEF ProfileBusy
  <2> QED BY <2>2, <2>3 DEF Asks, ProfileBusy
<1>5. CASE UploadLogo
  <2> DEFINE r == [op |-> "logo", logo |-> "image"]
  <2>2. Post(r, TRUE, [ui EXCEPT !.uploadingLogo = TRUE]) /\ r.op = "logo" /\ r.logo # "none"
    BY <1>5 DEF UploadLogo, SendAwaiting
  <2> HIDE DEF r
  <2>3. Asks(r) /\ ui' = [ui EXCEPT !.uploadingLogo = TRUE]
    BY <2>2, Sends DEF ProfileBusy
  <2> QED BY <2>2, <2>3 DEF Asks, ProfileBusy
<1>6. CASE RemoveLogo
  <2> DEFINE r == [op |-> "logo", logo |-> "none"]
  <2>1. Post(r, TRUE, ui) /\ r.op = "logo"
    BY <1>6 DEF RemoveLogo, SendAwaiting
  <2> HIDE DEF r
  <2>2. Asks(r) /\ ui' = ui
    BY <2>1, Sends DEF ProfileBusy
  <2> QED BY <2>1, <2>2 DEF Asks, ProfileBusy
<1>7. CASE RefreshFails
  <2>1. UNCHANGED writes /\ ProfileFlags(ui') = ProfileFlags(ui)
    BY <1>7 DEF RefreshFails, ProfileFlags, ProfileBusy
  <2> QED BY <1>1, <2>1, Waits DEF ProfileBusy, Idle
<1>8. CASE Serve(AccountEffect) \/ Reload(AccountStale) \/ (\E t \in Tables : FetchRead(t) \/ FetchShown(t, NoEffect))
  <2>1. Idle /\ ui' = ui
    <3>1. CASE Serve(AccountEffect)
      BY <3>1, AnswerBack DEF Serve, ServeAllowed, ProfileBusy
    <3>2. CASE Reload(AccountStale)
      BY <3>2, AwaitsLists DEF Reload, ProfileBusy
    <3>3. CASE \E t \in Tables : FetchRead(t) \/ FetchShown(t, NoEffect)
      BY <3>3, Waits DEF FetchRead, FetchShown, NoEffect, ProfileBusy
    <3> QED BY <1>8, <3>1, <3>2, <3>3
  <2> QED BY <1>1, <2>1 DEF Idle
<1>9. CASE Answered(AccountFields, AccountStale)
  <2>1. PICK q, ok : Ends(q) /\ ui' = AccountFields(q, ok)
    BY <1>9, Handled DEF Answered, ProfileBusy
  <2>2. q.op \in {"name", "password", "logo"}
    BY <2>1 DEF Ends, ProfileBusy
  <2>3. ui' = ProfileFields(q, ok)
    BY <2>1, <2>2 DEF AccountFields
  <2>4. CASE q.op = "name"
    BY <2>1, <2>3, <2>4 DEF ProfileFields, ProfileBusy, Ends
  <2>5. CASE q.op = "password"
    BY <2>1, <2>3, <2>5 DEF ProfileFields, ProfileBusy, Ends
  <2>6. CASE q.op = "logo"
    BY <2>1, <2>3, <2>6 DEF ProfileFields, ProfileBusy, Ends
  <2> QED BY <2>2, <2>4, <2>5, <2>6
<1> QED BY <1>2, <1>3, <1>4, <1>5, <1>6, <1>7, <1>8, <1>9 DEF ProfileNext, AccountBackground, Background

\* The feedback.
FeedbackBusy ==
  /\ Shaped
  /\ DOMAIN ui = {"title", "content", "submitting"}
  /\ \A q \in Reqs : q.op = "feedback"
  /\ ui.submitting => \E q \in Reqs : q.op = "feedback"
FeedbackFlags(u) == <<DOMAIN u, u.submitting>>

LEMMA FeedbackBusySteps == FeedbackBusy /\ (TypeFeedback \/ HandleSubmit \/ AccountBackground) => FeedbackBusy'
<1> SUFFICES ASSUME FeedbackBusy, (TypeFeedback \/ HandleSubmit \/ AccountBackground) PROVE FeedbackBusy'
  OBVIOUS
<1>1. ASSUME Shaped', Reqs \subseteq Reqs', Reqs' \subseteq Reqs, FeedbackFlags(ui') = FeedbackFlags(ui) PROVE FeedbackBusy'
  BY <1>1 DEF FeedbackBusy, FeedbackFlags
<1>2. CASE TypeFeedback
  <2>1. UNCHANGED writes /\ FeedbackFlags(ui') = FeedbackFlags(ui)
    BY <1>2 DEF TypeFeedback, Click, FeedbackFlags, FeedbackBusy
  <2> QED BY <1>1, <2>1, Waits DEF FeedbackBusy, Idle
<1>3. CASE HandleSubmit
  <2> DEFINE r == [op |-> "feedback", content |-> ui.content]
  <2>2. Post(r, TRUE, [ui EXCEPT !.submitting = TRUE]) /\ r.op = "feedback"
    BY <1>3 DEF HandleSubmit, SendAwaiting
  <2> HIDE DEF r
  <2>3. Asks(r) /\ ui' = [ui EXCEPT !.submitting = TRUE]
    BY <2>2, Sends DEF FeedbackBusy
  <2> QED BY <2>2, <2>3 DEF Asks, FeedbackBusy
<1>4. CASE Serve(AccountEffect) \/ Reload(AccountStale) \/ (\E t \in Tables : FetchRead(t) \/ FetchShown(t, NoEffect))
  <2>1. Idle /\ ui' = ui
    <3>1. CASE Serve(AccountEffect)
      BY <3>1, AnswerBack DEF Serve, ServeAllowed, FeedbackBusy
    <3>2. CASE Reload(AccountStale)
      BY <3>2, AwaitsLists DEF Reload, FeedbackBusy
    <3>3. CASE \E t \in Tables : FetchRead(t) \/ FetchShown(t, NoEffect)
      BY <3>3, Waits DEF FetchRead, FetchShown, NoEffect, FeedbackBusy
    <3> QED BY <1>4, <3>1, <3>2, <3>3
  <2> QED BY <1>1, <2>1 DEF Idle
<1>5. CASE Answered(AccountFields, AccountStale)
  <2>1. PICK q, ok : Ends(q) /\ ui' = AccountFields(q, ok)
    BY <1>5, Handled DEF Answered, FeedbackBusy
  <2>2. q.op = "feedback"
    BY <2>1 DEF Ends, FeedbackBusy
  <2>3. ui' = FeedbackFields(q, ok)
    BY <2>1, <2>2 DEF AccountFields
  <2>4. DOMAIN ui' = DOMAIN ui /\ ui'.submitting = FALSE
    BY <2>3 DEF FeedbackFields, FeedbackBusy
  <2> QED BY <2>1, <2>4 DEF FeedbackBusy, Ends
<1> QED BY <1>2, <1>3, <1>4, <1>5 DEF AccountBackground, Background

\* The notes about a driver.
NotesBusy ==
  /\ Shaped
  /\ DOMAIN ui = {"userTag", "noteText", "noteOf", "savingNote"}
  /\ \A q \in Reqs : q.op = "note"
  /\ ui.savingNote => \E q \in Reqs : q.op = "note"
NotesFlags(u) == <<DOMAIN u, u.savingNote>>

LEMMA NotesBusySteps == NotesBusy /\ (NotesNext \/ AccountBackground) => NotesBusy'
<1> SUFFICES ASSUME NotesBusy, (NotesNext \/ AccountBackground) PROVE NotesBusy'
  OBVIOUS
<1>1. ASSUME Shaped', Reqs \subseteq Reqs', Reqs' \subseteq Reqs, NotesFlags(ui') = NotesFlags(ui) PROVE NotesBusy'
  BY <1>1 DEF NotesBusy, NotesFlags
<1>2. CASE CloseDriver \/ TypeNote \/ \E d \in Drivers : OpenDriver(d)
  <2>1. UNCHANGED writes /\ NotesFlags(ui') = NotesFlags(ui)
    BY <1>2 DEF CloseDriver, TypeNote, OpenDriver, Click, NotesFlags, NotesBusy
  <2> QED BY <1>1, <2>1, Waits DEF NotesBusy, Idle
<1>3. CASE SaveNote
  <2> DEFINE r == [op |-> "note", driver |-> ui.userTag, text |-> CurrentNote, of |-> ui.noteOf]
  <2>2. Post(r, TRUE, [ui EXCEPT !.savingNote = TRUE]) /\ r.op = "note"
    BY <1>3 DEF SaveNote, SendAwaiting
  <2> HIDE DEF r
  <2>3. Asks(r) /\ ui' = [ui EXCEPT !.savingNote = TRUE]
    BY <2>2, Sends DEF NotesBusy
  <2> QED BY <2>2, <2>3 DEF Asks, NotesBusy
<1>4. CASE Serve(AccountEffect) \/ Reload(AccountStale) \/ (\E t \in Tables : FetchRead(t) \/ FetchShown(t, NoEffect))
  <2>1. Idle /\ ui' = ui
    <3>1. CASE Serve(AccountEffect)
      BY <3>1, AnswerBack DEF Serve, ServeAllowed, NotesBusy
    <3>2. CASE Reload(AccountStale)
      BY <3>2, AwaitsLists DEF Reload, NotesBusy
    <3>3. CASE \E t \in Tables : FetchRead(t) \/ FetchShown(t, NoEffect)
      BY <3>3, Waits DEF FetchRead, FetchShown, NoEffect, NotesBusy
    <3> QED BY <1>4, <3>1, <3>2, <3>3
  <2> QED BY <1>1, <2>1 DEF Idle
<1>5. CASE Answered(AccountFields, AccountStale)
  <2>1. PICK q, ok : Ends(q) /\ ui' = AccountFields(q, ok)
    BY <1>5, Handled DEF Answered, NotesBusy
  <2>2. q.op = "note"
    BY <2>1 DEF Ends, NotesBusy
  <2>3. ui' = NotesFields(q, ok)
    BY <2>1, <2>2 DEF AccountFields
  <2>4. DOMAIN ui' = DOMAIN ui /\ ui'.savingNote = FALSE
    BY <2>3 DEF NotesFields, NotesBusy
  <2> QED BY <2>1, <2>4 DEF NotesBusy, Ends
<1> QED BY <1>2, <1>3, <1>4, <1>5 DEF NotesNext, AccountBackground, Background

\* The public page.
LandingBusy ==
  /\ Shaped
  /\ DOMAIN ui = {"step", "sector", "points", "contact", "stateUF", "cities", "city", "citiesLoading", "submitting", "result", "leadId", "specialistMsg", "specialistSending", "specialistSent"}
  /\ \A q \in Reqs : q.op \in {"cities", "simulate", "specialist"}
  /\ ui.submitting => \E q \in Reqs : q.op = "simulate"
  /\ ui.specialistSending => \E q \in Reqs : q.op = "specialist"
  /\ ui.citiesLoading => \E q \in Reqs : q.op = "cities"
LandingFlags(u) == <<DOMAIN u, u.submitting, u.specialistSending, u.citiesLoading>>

LEMMA LandingBusySteps == LandingBusy /\ LandingNext => LandingBusy'
<1> SUFFICES ASSUME LandingBusy, LandingNext PROVE LandingBusy'
  OBVIOUS
<1>1. ASSUME Shaped', Reqs \subseteq Reqs', Reqs' \subseteq Reqs, LandingFlags(ui') = LandingFlags(ui) PROVE LandingBusy'
  BY <1>1 DEF LandingBusy, LandingFlags
<1>2. CASE SelectSector \/ CountCharger \/ HandleNext \/ BackToStep1 \/ TypeContact
  <2>1. UNCHANGED writes /\ LandingFlags(ui') = LandingFlags(ui)
    BY <1>2 DEF SelectSector, CountCharger, HandleNext, BackToStep1, TypeContact, Click, LandingFlags, LandingBusy
  <2> QED BY <1>1, <2>1, Waits DEF LandingBusy, Idle
<1>3. CASE PickCity \/ TypeCity \/ TypeSpecialistMessage \/ HandleNewSimulation
  <2>1. UNCHANGED writes /\ LandingFlags(ui') = LandingFlags(ui)
    BY <1>3 DEF PickCity, TypeCity, TypeSpecialistMessage, HandleNewSimulation, NewSimulation, Click, LandingFlags, LandingBusy
  <2> QED BY <1>1, <2>1, Waits DEF LandingBusy, Idle
<1>4. CASE SelectState
  <2>1. CASE \E uf \in BrStates \ {ui.stateUF} :
                Send([op |-> "cities", uf |-> uf], [ui EXCEPT !.stateUF = uf, !.city = NoState, !.citiesLoading = TRUE])
    <3>1. PICK uf : Post([op |-> "cities", uf |-> uf], FALSE, [ui EXCEPT !.stateUF = uf, !.city = NoState, !.citiesLoading = TRUE])
      BY <2>1 DEF Send
    <3> DEFINE r == [op |-> "cities", uf |-> uf]
    <3>2. Post(r, FALSE, [ui EXCEPT !.stateUF = uf, !.city = NoState, !.citiesLoading = TRUE]) /\ r.op = "cities"
      BY <3>1
    <3> HIDE DEF r
    <3>3. Asks(r) /\ ui' = [ui EXCEPT !.stateUF = uf, !.city = NoState, !.citiesLoading = TRUE]
      BY <3>2, Sends DEF LandingBusy
    <3> QED BY <3>2, <3>3 DEF Asks, LandingBusy
  <2>2. CASE Click([ui EXCEPT !.stateUF = NoState, !.city = NoState, !.cities = NoState])
    <3>1. UNCHANGED writes /\ LandingFlags(ui') = LandingFlags(ui)
      BY <2>2 DEF Click, LandingFlags, LandingBusy
    <3> QED BY <1>1, <3>1, Waits DEF LandingBusy, Idle
  <2> QED BY <1>4, <2>1, <2>2 DEF SelectState
<1>5. CASE HandleSimulate
  <2>1. PICK l : Post([op |-> "simulate", lead |-> l, points |-> ui.points, uf |-> ui.stateUF, city |-> ui.city], FALSE, [ui EXCEPT !.submitting = TRUE])
    BY <1>5 DEF HandleSimulate, Send
  <2> DEFINE r == [op |-> "simulate", lead |-> l, points |-> ui.points, uf |-> ui.stateUF, city |-> ui.city]
  <2>2. Post(r, FALSE, [ui EXCEPT !.submitting = TRUE]) /\ r.op = "simulate"
    BY <2>1
  <2> HIDE DEF r
  <2>3. Asks(r) /\ ui' = [ui EXCEPT !.submitting = TRUE]
    BY <2>2, Sends DEF LandingBusy
  <2> QED BY <2>2, <2>3 DEF Asks, LandingBusy
<1>6. CASE HandleSendSpecialistMessage
  <2> DEFINE r == [op |-> "specialist", lead |-> ui.leadId]
  <2>2. Post(r, FALSE, [ui EXCEPT !.specialistSending = TRUE]) /\ r.op = "specialist"
    BY <1>6 DEF HandleSendSpecialistMessage, Send
  <2> HIDE DEF r
  <2>3. Asks(r) /\ ui' = [ui EXCEPT !.specialistSending = TRUE]
    BY <2>2, Sends DEF LandingBusy
  <2> QED BY <2>2, <2>3 DEF Asks, LandingBusy
<1>7. CASE ServeAllowed(LandingAllowed, LandingEffect)
  <2>1. Idle /\ ui' = ui
    <3>1. CASE ServeAllowed(LandingAllowed, LandingEffect)
      BY <3>1, AnswerBack DEF ServeAllowed, LandingBusy
    <3> QED BY <1>7, <3>1
  <2> QED BY <1>1, <2>1 DEF Idle
<1>8. CASE Answered(LandingFields, LandingStale)
  <2>1. PICK q, ok : Ends(q) /\ ui' = LandingFields(q, ok)
    BY <1>8, Handled DEF Answered, LandingBusy
  <2>2. q.op \in {"cities", "simulate", "specialist"}
    BY <2>1 DEF Ends, LandingBusy
  <2>3. CASE q.op = "cities"
    BY <2>1, <2>3 DEF LandingFields, LandingBusy, Ends
  <2>4. CASE q.op = "simulate" /\ ok
    BY <2>1, <2>4 DEF LandingFields, LandingBusy, Ends
  <2>5. CASE q.op = "simulate" /\ ~ok
    BY <2>1, <2>5 DEF LandingFields, LandingBusy, Ends
  <2>6. CASE q.op = "specialist"
    BY <2>1, <2>6 DEF LandingFields, LandingBusy, Ends
  <2> QED BY <2>2, <2>3, <2>4, <2>5, <2>6
<1> QED BY <1>2, <1>3, <1>4, <1>5, <1>6, <1>7, <1>8 DEF LandingNext

\* The contact form.
ContactBusy ==
  /\ Shaped
  /\ DOMAIN ui = {"open", "form", "sending", "sent"}
  /\ ui.sending => \E q \in Reqs : q.op = "contact"
ContactFlags(u) == <<DOMAIN u, u.sending>>

LEMMA ContactBusySteps == ContactBusy /\ ContactNext => ContactBusy'
<1> SUFFICES ASSUME ContactBusy, ContactNext PROVE ContactBusy'
  OBVIOUS
<1>1. ASSUME Shaped', Reqs \subseteq Reqs', ContactFlags(ui') = ContactFlags(ui) PROVE ContactBusy'
  BY <1>1 DEF ContactBusy, ContactFlags
<1>2. CASE OpenContact \/ CloseContact \/ EditContact \/ CloseSent
  <2>1. UNCHANGED writes /\ ContactFlags(ui') = ContactFlags(ui)
    BY <1>2 DEF OpenContact, CloseContact, EditContact, CloseSent, Click, ContactFlags, ContactBusy
  <2> QED BY <1>1, <2>1, Waits DEF ContactBusy, Idle
<1>3. CASE SubmitContact
  <2> DEFINE r == [op |-> "contact", form |-> ui.form]
  <2>2. Post(r, FALSE, [ui EXCEPT !.sending = TRUE]) /\ r.op = "contact"
    BY <1>3 DEF SubmitContact, Send
  <2> HIDE DEF r
  <2>3. Asks(r) /\ ui' = [ui EXCEPT !.sending = TRUE]
    BY <2>2, Sends DEF ContactBusy
  <2> QED BY <2>2, <2>3 DEF Asks, ContactBusy
<1>4. CASE Serve(ContactEffect)
  <2>1. Idle /\ ui' = ui
    <3>1. CASE Serve(ContactEffect)
      BY <3>1, AnswerBack DEF Serve, ServeAllowed, ContactBusy
    <3> QED BY <1>4, <3>1
  <2> QED BY <1>1, <2>1 DEF Idle
<1>5. CASE Answered(ContactFields, LandingStale)
  <2>1. PICK q, ok : Ends(q) /\ ui' = ContactFields(q, ok)
    BY <1>5, Handled DEF Answered, ContactBusy
  <2>2. CASE TRUE
    BY <2>1, <2>2 DEF ContactFields, ContactBusy, Ends
  <2> QED BY <2>2
<1> QED BY <1>2, <1>3, <1>4, <1>5 DEF ContactNext

\* The files and the onboarding card: the flags are those of the instance that is mounted.
FilesBusy ==
  /\ Shaped
  /\ DOMAIN ui = FileFields
  /\ ui.uploading => \E q \in Reqs : q.op = "upload" /\ q.mount = ui.mount
  /\ ui.loadingExample => \E q \in Reqs : q.op = "example" /\ q.mount = ui.mount
  /\ ui.loadingDemo =>
       \/ ui.demo # "no" /\ ui.mount \in ui.demoOf
       \/ \E q \in Reqs : q.op = "demo" /\ q.mount = ui.mount
FilesFlags(u) == <<DOMAIN u, u.uploading, u.loadingExample, u.loadingDemo, u.demo, u.demoOf, u.mount>>

LEMMA FilesBusySteps == FilesBusy /\ FilesNext => FilesBusy'
<1> SUFFICES ASSUME FilesBusy, FilesNext PROVE FilesBusy'
  OBVIOUS
<1>1. ASSUME Shaped', Reqs \subseteq Reqs', FilesFlags(ui') = FilesFlags(ui) PROVE FilesBusy'
  BY <1>1 DEF FilesBusy, FilesFlags
<1>2. CASE Dismiss
  <2>1. UNCHANGED writes /\ FilesFlags(ui') = FilesFlags(ui)
    BY <1>2 DEF Dismiss, Render, Click, FilesFlags, FilesBusy, FileFields
  <2> QED BY <1>1, <2>1, Waits DEF FilesBusy, Idle
<1>3. CASE DedupeEnds
  <2>1. UNCHANGED writes /\ FilesFlags(ui') = FilesFlags(ui)
    BY <1>3 DEF DedupeEnds, Render, Click, FilesFlags, FilesBusy, FileFields
  <2> QED BY <1>1, <2>1, Waits DEF FilesBusy, Idle
<1>4. CASE DemoRefreshes
  <2>1. UNCHANGED writes /\ ui.demo = "refresh" /\ ui' = [ui EXCEPT !.demo = "wait", !.fresh = ui.at = "dashboard"]
    BY <1>4 DEF DemoRefreshes
  <2>2. Idle
    BY <2>1, Waits, SMTT(30) DEF FilesBusy
  <2> QED BY <2>1, <2>2 DEF FilesBusy, FileFields, Idle
<1>5. CASE Poll \/ \E f \in FileIds : Ingest(f) \/ IngestFails(f)
  <2>1. UNCHANGED writes /\ FilesFlags(ui') = FilesFlags(ui)
    BY <1>5 DEF Poll, Ingest, IngestFails, Click, FilesFlags, FilesBusy, FileFields
  <2> QED BY <1>1, <2>1, Waits DEF FilesBusy, Idle
<1>6. CASE FilesArrive
  <2>1. UNCHANGED writes /\ (ui' = ui \/ ui' = SeeDone(ui, Done(reading.files)))
    BY <1>6 DEF FilesArrive
  <2>2. FilesFlags(ui') = FilesFlags(ui)
    BY <2>1 DEF SeeDone, FilesFlags, FilesBusy, FileFields
  <2> QED BY <1>1, <2>1, <2>2, Waits DEF FilesBusy, Idle
<1>7. ASSUME NEW at, Visit(at) PROVE FilesBusy'
  <2>1. /\ UNCHANGED writes /\ DOMAIN ui' = DOMAIN ui
        /\ ui'.uploading = FALSE /\ ui'.loadingExample = FALSE /\ ui'.loadingDemo = FALSE
    BY <1>7 DEF Visit, SeeDone, FilesBusy, FileFields
  <2> QED BY <2>1, Waits DEF FilesBusy, Idle
<1>8. CASE \E f \in FileIds : DeleteFile(f) \/ Reprocess(f)
  <2>1. \E r : Asks(r) /\ ui' = ui
    BY <1>8, Sends DEF DeleteFile, Reprocess, Send, FilesBusy
  <2> QED BY <1>1, <2>1 DEF Asks, FilesFlags
<1>9. CASE OnDrop
  <2>1. PICK f : Post(Request("upload", f), FALSE, [ui EXCEPT !.uploading = TRUE])
    BY <1>9 DEF OnDrop, Send
  <2> DEFINE r == Request("upload", f)
  <2>2. Post(r, FALSE, [ui EXCEPT !.uploading = TRUE]) /\ r.op = "upload" /\ r.mount = ui.mount
    BY <2>1 DEF Request
  <2> HIDE DEF r
  <2>3. Asks(r) /\ ui' = [ui EXCEPT !.uploading = TRUE]
    BY <2>2, Sends DEF FilesBusy
  <2> QED BY <2>2, <2>3 DEF Asks, FilesBusy, FileFields
<1>10. CASE LoadExample
  <2>1. PICK f : Post(Request("example", f), FALSE, [ui EXCEPT !.loadingExample = TRUE])
    BY <1>10 DEF LoadExample, Send
  <2> DEFINE r == Request("example", f)
  <2>2. Post(r, FALSE, [ui EXCEPT !.loadingExample = TRUE]) /\ r.op = "example" /\ r.mount = ui.mount
    BY <2>1 DEF Request
  <2> HIDE DEF r
  <2>3. Asks(r) /\ ui' = [ui EXCEPT !.loadingExample = TRUE]
    BY <2>2, Sends DEF FilesBusy
  <2> QED BY <2>2, <2>3 DEF Asks, FilesBusy, FileFields
<1>11. CASE LoadDemo
  <2>1. PICK f : Post(Request("demo", f), TRUE, [ui EXCEPT !.loadingDemo = TRUE])
    BY <1>11 DEF LoadDemo, SendAwaiting
  <2> DEFINE r == Request("demo", f)
  <2>2. Post(r, TRUE, [ui EXCEPT !.loadingDemo = TRUE]) /\ r.op = "demo" /\ r.mount = ui.mount
    BY <2>1 DEF Request
  <2> HIDE DEF r
  <2>3. Asks(r) /\ ui' = [ui EXCEPT !.loadingDemo = TRUE]
    BY <2>2, Sends DEF FilesBusy
  <2> QED BY <2>2, <2>3 DEF Asks, FilesBusy, FileFields
<1>12. CASE DemoLoaded
  <2>1. /\ UNCHANGED writes
        /\ ui' = [ui EXCEPT !.demo = "no", !.demoOf = {}, !.loadingDemo = @ /\ ui.mount \notin ui.demoOf]
    BY <1>12 DEF DemoLoaded, Render
  <2>2. Idle
    BY <2>1, Waits DEF FilesBusy
  <2> QED BY <2>1, <2>2 DEF FilesBusy, FileFields, Idle
<1>13. CASE ServeAllowed(FilesAllowed, FilesEffect) \/ Reload(FilesStale) \/ ((\E t \in Tables : FetchRead(t)) \/ FetchShown("figures", NoEffect))
  <2>1. Idle /\ ui' = ui
    <3>1. CASE ServeAllowed(FilesAllowed, FilesEffect)
      BY <3>1, AnswerBack DEF ServeAllowed, FilesBusy
    <3>2. CASE Reload(FilesStale)
      BY <3>2, AwaitsLists DEF Reload, FilesBusy
    <3>3. CASE (\E t \in Tables : FetchRead(t)) \/ FetchShown("figures", NoEffect)
      BY <3>3, Waits DEF FetchRead, FetchShown, NoEffect, FilesBusy
    <3> QED BY <1>13, <3>1, <3>2, <3>3
  <2> QED BY <1>1, <2>1 DEF Idle
<1>14. CASE Answered(FilesFields, FilesStale)
  <2>1. PICK q, ok : Ends(q) /\ ui' = FilesFields(q, ok)
    BY <1>14, Handled DEF Answered, FilesBusy
  <2>2. CASE q.op = "upload"
    BY <2>1, <2>2 DEF FilesFields, FilesBusy, Ends, FileFields
  <2>3. CASE q.op = "example"
    BY <2>1, <2>3 DEF FilesFields, FilesBusy, Ends, FileFields
  <2>4. CASE q.op = "demo" /\ ok
    BY <2>1, <2>4 DEF FilesFields, FilesBusy, Ends, FileFields
  <2>5. CASE q.op = "demo" /\ ~ok
    BY <2>1, <2>5 DEF FilesFields, FilesBusy, Ends, FileFields
  <2>6. CASE q.op \notin {"upload", "example", "demo"}
    BY <2>1, <2>6 DEF FilesFields, FilesBusy, Ends, FileFields
  <2> QED BY <2>2, <2>3, <2>4, <2>5, <2>6
<1> QED BY <1>2, <1>3, <1>4, <1>5, <1>6, <1>7, <1>8, <1>9, <1>10, <1>11, <1>12, <1>13, <1>14 DEF FilesNext

\* The pages of the sign-in: a disabled button has its request on its way, a
\* page that says it is loading its question or its link, a lookup its question.
AuthBusy ==
  /\ ui.busy => writes # <<>> /\ ui.at # "verify"
  /\ ui.phase = "loading" => \/ ui.at = "verify" /\ writes # <<>>
                             \/ ui.at = "accept" /\ ui.asked # <<>>
  /\ ui.lookup.checking => ui.at = "register" /\ ui.asked # <<>>
AuthFlags == <<ui.at, ui.busy, ui.phase, ui.lookup, ui.asked>>

LEMMA AuthKeepsBusy ==
  ASSUME AuthBusy, UNCHANGED AuthFlags, writes # <<>> => writes' # <<>>
  PROVE  AuthBusy'
BY DEF AuthBusy, AuthFlags

\* A page that mounts owes nothing.
LEMMA MountsFree == ASSUME NEW at, NEW token, ui' = NewPage(at, token) PROVE AuthBusy'
BY DEF AuthBusy, NewPage, NoLookup

\* A request makes the list of requests longer.
LEMMA SendsOne == ASSUME NEW q, NEW fields, Send(q, fields) PROVE writes' # <<>> /\ ui' = fields
BY DEF Send, Post

\* The half second after the last key, and the answers to the questions.
LEMMA AuthLooksBusy == AuthForms /\ AuthBusy /\ (DoLookup \/ LookupServed \/ LookupAnswered) => AuthBusy'
<1> SUFFICES ASSUME AuthForms, AuthBusy, DoLookup \/ LookupServed \/ LookupAnswered PROVE AuthBusy'
  OBVIOUS
<1>1. AuthShape /\ AuthOwes /\ OnAccept
  BY DEF AuthForms
<1>2. DOMAIN ui = {"at", "token", "code", "org", "timer", "lookup", "asked", "invite", "busy", "homing", "phase"}
  BY <1>1 DEF AuthShape
<1>3. CASE DoLookup
  <2>1. writes' = writes /\ ui.at = "register"
    BY <1>3 DEF DoLookup, Render
  <2>2. CASE ui.code = NoCode
    <3>1. ui' = [ui EXCEPT !.timer = FALSE, !.lookup = NoLookup]
      BY <1>3, <2>2 DEF DoLookup, Render
    <3>2. /\ ui'.lookup = NoLookup /\ ~NoLookup.checking
          /\ \A k \in {"at", "asked", "busy", "phase"} : ui'[k] = ui[k]
      BY <1>2, <3>1 DEF NoLookup
    <3> QED BY <2>1, <3>2 DEF AuthBusy
  <2>3. CASE ui.code # NoCode
    <3> DEFINE asked == Append(ui.asked, Question(ui.code))
    <3>1. ui' = [ui EXCEPT !.timer = FALSE, !.lookup.checking = TRUE, !.asked = asked]
      BY <1>3, <2>3 DEF DoLookup, Render
    <3>2. asked # <<>>
      BY <1>1 DEF AuthShape
    <3> HIDE DEF asked
    <3>3. ui'.asked = asked /\ \A k \in {"at", "busy", "phase"} : ui'[k] = ui[k]
      BY <1>2, <3>1
    <3> QED BY <2>1, <3>2, <3>3 DEF AuthBusy
  <2> QED BY <2>2, <2>3
<1>4. CASE LookupServed
  <2>0. PICK i \in DOMAIN ui.asked : \E a \in {Answer(ui.asked[i].code), Failed(ui.asked[i].code)} :
          /\ ui' = [ui EXCEPT !.asked[i].at = "served", !.asked[i].answer = a]
          /\ writes' = writes
    BY <1>4 DEF LookupServed, Render
  <2>1. PICK a \in {Answer(ui.asked[i].code), Failed(ui.asked[i].code)} :
          /\ ui' = [ui EXCEPT !.asked[i].at = "served", !.asked[i].answer = a]
          /\ writes' = writes
    BY <2>0
  <2>2. DOMAIN ui'.asked = DOMAIN ui.asked /\ \A k \in {"at", "lookup", "busy", "phase"} : ui'[k] = ui[k]
    BY <1>2, <2>1
  <2>3. ui'.asked # <<>>
    BY <2>2
  <2> QED BY <2>1, <2>2, <2>3, SMTT(30) DEF AuthBusy
<1>5. CASE LookupAnswered
  <2>1. PICK i \in DOMAIN ui.asked :
          LET a == ui.asked[i].answer
              rest == [ui EXCEPT !.asked = RemoveAt(@, i)] IN
          /\ ui.asked[i].at = "served" /\ writes' = writes
          /\ ui' = CASE ui.at = "register" -> FillOrganisation([rest EXCEPT !.lookup = a], a)
                     [] ui.at = "accept" /\ a.type = "org_invite_code" -> NewPage("register", ui.token)
                     [] OTHER -> [rest EXCEPT !.phase = IF a.valid THEN "form" ELSE "error", !.invite = a.org]
    BY <1>5, Zenon DEF LookupAnswered, Render
  <2> DEFINE q == ui.asked[i]
             a == q.answer
             asked == RemoveAt(ui.asked, i)
             rest == [ui EXCEPT !.asked = asked]
             x == FillOrganisation([rest EXCEPT !.lookup = a], a)
             y == NewPage("register", ui.token)
             z == [rest EXCEPT !.phase = IF a.valid THEN "form" ELSE "error", !.invite = a.org]
  <2>2. q \in Questions /\ ui.asked # <<>>
    BY <1>1, <2>1 DEF AuthShape
  <2>3. ~a.checking
    <3> HIDE DEF q
    <3> QED BY <2>2 DEF Questions, Results
  <2>4. ui' = CASE ui.at = "register" -> x [] ui.at = "accept" /\ a.type = "org_invite_code" -> y [] OTHER -> z
    BY <2>1, Zenon
  <2>5. CASE ui.at = "register"
    <3>1. ui' = x
      <4> HIDE DEF x, y, z, a
      <4> QED BY <2>4, <2>5
    <3> HIDE DEF a, asked
    <3>2. ui'.lookup = a /\ \A k \in {"at", "busy", "phase"} : ui'[k] = ui[k]
      BY <1>2, <3>1 DEF FillOrganisation
    <3> QED BY <2>1, <2>3, <2>5, <3>2 DEF AuthBusy
  <2>6. CASE ui.at = "accept" /\ a.type = "org_invite_code"
    <3>1. ui' = y
      <4> HIDE DEF x, y, z, a
      <4> QED BY <2>4, <2>6
    <3> QED BY <3>1, MountsFree
  <2>7. CASE ui.at = "accept" /\ a.type # "org_invite_code"
    <3>1. ui' = z
      <4> HIDE DEF x, y, z, a
      <4> QED BY <2>4, <2>7
    <3> HIDE DEF a, asked
    <3>2. /\ ui'.phase = IF a.valid THEN "form" ELSE "error"
          /\ \A k \in {"at", "busy", "lookup"} : ui'[k] = ui[k]
      BY <1>2, <3>1, SMTT(30)
    <3> QED BY <2>1, <2>7, <3>2 DEF AuthBusy
  <2> QED BY <1>1, <2>2, <2>5, <2>6, <2>7 DEF AuthShape
<1> QED BY <1>3, <1>4, <1>5

\* The end of the handler of the one request on its way.
LEMMA AuthAnswersBusy == AuthForms /\ AuthBusy /\ Answered(AuthFields, NothingStale) => AuthBusy'
<1> SUFFICES ASSUME AuthForms, AuthBusy, Answered(AuthFields, NothingStale) PROVE AuthBusy'
  OBVIOUS
<1>1. PICK i \in DOMAIN writes : ui' = AuthFields(writes[i].req, writes[i].ok)
  BY DEF Answered
<1>2. PICK w : writes = <<w>> /\ Owed(w)
  BY <1>1 DEF AuthForms, AuthOwes
<1> DEFINE q == w.req
           ok == w.ok
<1>3. ui' = AuthFields(q, ok)
  BY <1>1, <1>2
<1>4. DOMAIN ui = {"at", "token", "code", "org", "timer", "lookup", "asked", "invite", "busy", "homing", "phase"}
  BY DEF AuthForms, AuthShape
<1>5. ui.at = "verify" <=> q.op = "verify"
  BY <1>2 DEF Owed
<1>6. ui.at = "accept" => ui.phase = "form"
  BY <1>2 DEF Owed
<1> HIDE DEF q, ok
<1> DEFINE Free == [ui EXCEPT !.busy = FALSE]
<1>7. \/ \E at : ui' = NewPage(at, NoCode)
      \/ q.op = "verify" /\ ui' = [ui EXCEPT !.phase = IF ok THEN "done" ELSE "error"]
      \/ /\ q.op # "verify"
         /\ \/ ui' = Free
            \/ ui' = [Free EXCEPT !.phase = "done", !.homing = TRUE]
            \/ \E p \in {"done", "error", ui.phase} : ui' = [Free EXCEPT !.phase = p]
  <2>1. q.op \in {"login", "register", "forgot", "reset", "verify"}
    BY <1>2 DEF Owed, q
  <2>2. CASE q.op = "login"
    BY <1>3, <2>2 DEF AuthFields, Freed
  <2>3. CASE q.op = "register" /\ ui.at = "register"
    BY <1>3, <2>3 DEF AuthFields, Freed
  <2>4. CASE q.op = "register" /\ ui.at # "register"
    BY <1>3, <2>4 DEF AuthFields, Freed
  <2>5. CASE q.op = "forgot"
    <3>1. ui' = [Free EXCEPT !.phase = IF ok THEN "done" ELSE ui.phase]
      BY <1>3, <1>4, <2>5 DEF AuthFields, Freed
    <3> QED BY <2>5, <3>1
  <2>6. CASE q.op = "reset"
    BY <1>3, <2>6 DEF AuthFields, Freed
  <2>7. CASE q.op = "verify"
    BY <1>3, <2>7 DEF AuthFields
  <2> QED BY <2>1, <2>2, <2>3, <2>4, <2>5, <2>6, <2>7
<1>8. CASE \E at : ui' = NewPage(at, NoCode)
  BY <1>8, MountsFree
<1>9. CASE q.op = "verify" /\ ui' = [ui EXCEPT !.phase = IF ok THEN "done" ELSE "error"]
  <2>1. ui'.phase # "loading" /\ \A k \in {"at", "busy", "lookup", "asked"} : ui'[k] = ui[k]
    BY <1>4, <1>9
  <2> QED BY <1>5, <1>9, <2>1 DEF AuthBusy
<1>10. ASSUME q.op # "verify", NEW p \in {"done", "error", ui.phase}, NEW homing,
              ui' = [Free EXCEPT !.phase = p, !.homing = homing]
       PROVE  AuthBusy'
  <2>1. ui'.phase = p /\ ~ui'.busy /\ \A k \in {"at", "lookup", "asked"} : ui'[k] = ui[k]
    BY <1>4, <1>10
  <2> QED BY <1>5, <1>6, <1>10, <2>1 DEF AuthBusy
<1>11. ui' = Free => ui' = [Free EXCEPT !.phase = ui.phase, !.homing = ui.homing]
  BY <1>4
<1>12. ASSUME NEW p, ui' = [Free EXCEPT !.phase = p] PROVE ui' = [Free EXCEPT !.phase = p, !.homing = ui.homing]
  BY <1>4, <1>12
<1> QED BY <1>7, <1>8, <1>9, <1>10, <1>11, <1>12

LEMMA AuthBusySteps == AuthForms /\ AuthBusy /\ AuthNext => AuthBusy'
<1> SUFFICES ASSUME AuthForms, AuthBusy, AuthNext PROVE AuthBusy'
  OBVIOUS
<1>1. AuthShape /\ AuthOwes
  BY DEF AuthForms
<1>2. DOMAIN ui = {"at", "token", "code", "org", "timer", "lookup", "asked", "invite", "busy", "homing", "phase"}
  BY <1>1 DEF AuthShape
<1>3. CASE DoLookup \/ LookupServed \/ LookupAnswered
  BY <1>3, AuthLooksBusy
<1>4. CASE (\E c \in Codes : TypeCode(c)) \/ TypeOrg
  <2>1. UNCHANGED AuthFlags /\ writes' = writes
    BY <1>2, <1>4 DEF TypeCode, TypeOrg, Click, AuthFlags
  <2> QED BY <2>1, AuthKeepsBusy
<1>5. CASE Register \/ AcceptInvite \/ LogInForm \/ ForgotPassword \/ ResetPassword
  <2>1. PICK q : Send(q, [ui EXCEPT !.busy = TRUE])
    BY <1>5 DEF Register, AcceptInvite, LogInForm, ForgotPassword, ResetPassword
  <2>2. ui.at # "verify"
    BY <1>5 DEF Register, AcceptInvite, LogInForm, ForgotPassword, ResetPassword
  <2>3. writes' # <<>> /\ ui' = [ui EXCEPT !.busy = TRUE]
    BY <2>1, SendsOne
  <2>4. \A k \in {"at", "phase", "lookup", "asked"} : ui'[k] = ui[k]
    BY <1>2, <2>3
  <2> QED BY <2>2, <2>3, <2>4 DEF AuthBusy
<1>6. CASE (\E at \in {"login", "register", "forgot"} : GoTo(at)) \/ GoesHome
  BY <1>6, MountsFree DEF GoTo, GoesHome, Click, Render
<1>7. ASSUME NEW c \in Codes, OpenInvite(c) PROVE AuthBusy'
  <2> DEFINE phase == IF c = NoCode THEN "error" ELSE "loading"
             asked == IF c = NoCode THEN <<>> ELSE <<Question(c)>>
  <2>1. ui' = [NewPage("accept", c) EXCEPT !.phase = phase, !.asked = asked]
    BY <1>7 DEF OpenInvite, Click
  <2>2. phase = "loading" => asked # <<>>
    OBVIOUS
  <2> HIDE DEF phase, asked
  <2>3. ui'.at = "accept" /\ ui'.phase = phase /\ ui'.asked = asked /\ ui'.busy = FALSE /\ ui'.lookup.checking = FALSE
    BY <2>1 DEF NewPage, NoLookup
  <2> QED BY <2>2, <2>3 DEF AuthBusy
<1>8. ASSUME NEW t, OpenReset(t) PROVE AuthBusy'
  <2> DEFINE phase == IF t = NoCode THEN "error" ELSE "form"
  <2>1. ui' = [NewPage("reset", t) EXCEPT !.phase = phase] /\ phase # "loading"
    BY <1>8 DEF OpenReset, Click
  <2> HIDE DEF phase
  <2>2. ui'.phase = phase /\ ui'.busy = FALSE /\ ui'.lookup.checking = FALSE
    BY <2>1 DEF NewPage, NoLookup
  <2> QED BY <2>1, <2>2 DEF AuthBusy
<1>9. CASE OpenVerification
  <2>1. writes' # <<>> /\ ui' = [NewPage("verify", "link") EXCEPT !.phase = "loading"]
    BY <1>9, SendsOne DEF OpenVerification
  <2>2. ui'.at = "verify" /\ ui'.busy = FALSE /\ ui'.lookup.checking = FALSE
    BY <2>1 DEF NewPage, NoLookup
  <2> QED BY <2>1, <2>2 DEF AuthBusy
<1>10. ASSUME NEW c, UsedElsewhere(c) PROVE AuthBusy'
  BY <1>10, AuthKeepsBusy DEF UsedElsewhere, AuthFlags
<1>11. CASE ServeAllowed(AuthAllowed, AuthEffect)
  <2>1. PICK i \in DOMAIN writes, ok \in BOOLEAN : writes' = [writes EXCEPT ![i].at = "served", ![i].ok = ok] /\ ui' = ui
    BY <1>11 DEF ServeAllowed
  <2>2. DOMAIN writes' = DOMAIN writes /\ i \in DOMAIN writes
    BY <2>1
  <2>3. writes' # <<>>
    BY <2>2
  <2> QED BY <2>1, <2>3, AuthKeepsBusy DEF AuthFlags
<1>12. CASE Answered(AuthFields, NothingStale)
  BY <1>12, AuthAnswersBusy
<1> QED BY <1>3, <1>4, <1>5, <1>6, <1>7, <1>8, <1>9, <1>10, <1>11, <1>12 DEF AuthNext, Codes

\* The button of the panel: while it is disabled a request of it is on its way.
PanelBusy == simpleInFlight \in Seq({"save", "pdf"}) /\ SaveComesBack

LEMMA PanelBusySteps == PanelBusy /\ (SimpleNext \/ UNCHANGED simpleVars) => PanelBusy'
<1> SUFFICES ASSUME PanelBusy, SimpleNext \/ UNCHANGED simpleVars PROVE PanelBusy'
  OBVIOUS
<1>1. ASSUME UNCHANGED <<simpleInFlight, isSavingSimple>> PROVE PanelBusy'
  BY <1>1 DEF PanelBusy, SaveComesBack
<1>2. CASE UNCHANGED simpleVars
  BY <1>1, <1>2 DEF simpleVars, savingVars
<1>3. CASE \/ SuggestCapex \/ PricesArrive \/ EditTerms \/ UseSuggested \/ SetCapexMode \/ TypeCapex
           \/ (\E y \in Types : UpdateStation(y))
           \/ TypeSimpleName \/ AfterPrint \/ (\E c \in Library : HandleLoadSimple(c)) \/ HandleImportSimple
  <2>1. UNCHANGED <<simpleInFlight, isSavingSimple>>
    BY <1>3 DEF SuggestCapex, PricesArrive, EditTerms, UseSuggested, SetCapexMode, TypeCapex, UpdateStation,
                TypeSimpleName, AfterPrint, HandleLoadSimple, HandleImportSimple, savingVars
  <2> QED BY <1>1, <2>1
<1>4. ASSUME NEW how \in {"save", "pdf"}, PostSimple(how), how = "save" \/ isSavingSimple' = isSavingSimple
      PROVE  PanelBusy'
  <2>1. simpleInFlight' = Append(simpleInFlight, how)
    BY <1>4 DEF PostSimple
  <2>2. /\ simpleInFlight' \in Seq({"save", "pdf"} \cup {how})
        /\ \A i \in DOMAIN simpleInFlight : i \in DOMAIN simpleInFlight' /\ simpleInFlight'[i] = simpleInFlight[i]
        /\ \E i \in DOMAIN simpleInFlight' : simpleInFlight'[i] = how
    BY <2>1, Appended DEF PanelBusy
  <2>3. {"save", "pdf"} \cup {how} = {"save", "pdf"}
    OBVIOUS
  <2>4. simpleInFlight' \in Seq({"save", "pdf"})
    BY <2>2, <2>3
  <2> QED BY <1>4, <2>2, <2>4 DEF PanelBusy, SaveComesBack
<1>5. CASE HandleSaveSimple
  BY <1>4, <1>5 DEF HandleSaveSimple
<1>6. CASE HandleSimplePrint
  BY <1>4, <1>6 DEF HandleSimplePrint
<1>7. ASSUME NEW i \in DOMAIN simpleInFlight, SimpleSaveAnswer(i, TRUE) \/ SimpleSaveAnswer(i, FALSE) \/ PdfRecorded(i)
      PROVE  PanelBusy'
  <2> DEFINE v == simpleInFlight
             u == simpleInFlight'
             kinds == {"save", "pdf"}
  <2>1. v \in Seq(kinds) /\ i \in DOMAIN v /\ u = RemoveAt(v, i)
    BY <1>7 DEF SimpleSaveAnswer, PdfRecorded, PanelBusy
  <2>2. \/ isSavingSimple' = FALSE
        \/ v[i] = "pdf" /\ isSavingSimple' = isSavingSimple
    BY <1>7 DEF SimpleSaveAnswer, PdfRecorded, ReleasedFinally
  <2> HIDE DEF v, u, kinds
  <2>3. u \in Seq(kinds) /\ \A j \in DOMAIN v \ {i} : \E k \in DOMAIN u : u[k] = v[j]
    BY <2>1, Removed
  <2>4. (\E j \in DOMAIN v : v[j] = "save") /\ v[i] = "pdf" => \E k \in DOMAIN u : u[k] = "save"
    <3> SUFFICES ASSUME NEW j \in DOMAIN v, v[j] = "save", v[i] = "pdf" PROVE \E k \in DOMAIN u : u[k] = "save"
      OBVIOUS
    <3>1. j # i
      OBVIOUS
    <3> QED BY <2>3, <3>1
  <2> USE DEF v, u, kinds
  <2> QED BY <2>2, <2>3, <2>4 DEF PanelBusy, SaveComesBack
<1> QED BY <1>2, <1>3, <1>5, <1>6, <1>7 DEF SimpleNext, PanelEvent

\* Every flag that is up has its request on its way, on the page that is open.
BusyInv ==
  /\ page = "team" => TeamBusy
  /\ page = "settings" => SettingsBusy
  /\ page = "admin" => AdminBusy
  /\ page = "leads" => LeadsBusy
  /\ page = "investment" => InvestBusy
  /\ page = "capex" => CapexBusy
  /\ page = "files" => FilesBusy
  /\ page = "billing" => BillingPageBusy
  /\ page = "profile" => ProfileBusy
  /\ page = "feedback" => FeedbackBusy
  /\ page = "notes" => NotesBusy
  /\ page = "landing" => LandingBusy
  /\ page = "contact" => ContactBusy
  /\ page = "auth" => AuthBusy
  /\ PanelBusy

LEMMA NoRequests == ASSUME writes = <<>> PROVE Shaped /\ Reqs = {}
BY DEF Shaped, Reqs

LEMMA BusyStarts == Init => BusyInv
<1> SUFFICES ASSUME Init PROVE BusyInv
  OBVIOUS
<1>1. page = "team" => TeamBusy
  <2> SUFFICES ASSUME page = "team" PROVE TeamBusy
    OBVIOUS
  <2>1. PICK roles : TeamInit(roles)
    BY DEF Init
  <2>2. Shaped /\ Reqs = {}
    BY <2>1, NoRequests DEF TeamInit, PageInit
  <2> QED BY <2>1, <2>2 DEF TeamInit, PageInit, TeamBusy
<1>2. page = "settings" => SettingsBusy
  <2> SUFFICES ASSUME page = "settings" PROVE SettingsBusy
    OBVIOUS
  <2>1. PICK first : SettingsInit(first)
    BY DEF Init
  <2>2. Shaped /\ Reqs = {}
    BY <2>1, NoRequests DEF SettingsInit, PageInit
  <2> QED BY <2>1, <2>2 DEF SettingsInit, BlankForm, PageInit, SettingsBusy
<1>3. page = "admin" => AdminBusy
  <2> SUFFICES ASSUME page = "admin" PROVE AdminBusy
    OBVIOUS
  <2>1. AdminInit
    BY DEF Init
  <2>2. Shaped /\ Reqs = {}
    BY <2>1, NoRequests DEF AdminInit, PageInit
  <2> QED BY <2>1, <2>2 DEF AdminInit, PageInit, AdminBusy
<1>4. page = "leads" => LeadsBusy
  <2> SUFFICES ASSUME page = "leads" PROVE LeadsBusy
    OBVIOUS
  <2>1. PICK leads : LeadsInit(leads)
    BY DEF Init
  <2>2. Shaped /\ Reqs = {}
    BY <2>1, NoRequests DEF LeadsInit, PageInit
  <2> QED BY <2>1, <2>2 DEF LeadsInit, PageInit, LeadsBusy
<1>5. page = "investment" => InvestBusy
  <2> SUFFICES ASSUME page = "investment" PROVE InvestBusy
    OBVIOUS
  <2>1. PICK f, seen : InvestInit(f, seen, MCProjects)
    BY DEF Init
  <2>2. Shaped /\ Reqs = {}
    BY <2>1, NoRequests DEF InvestInit, PageInit
  <2> QED BY <2>1, <2>2 DEF InvestInit, PageInit, InvestBusy
<1>6. page = "capex" => CapexBusy
  <2> SUFFICES ASSUME page = "capex" PROVE CapexBusy
    OBVIOUS
  <2>1. PICK first : CapexInit(first)
    BY DEF Init
  <2>2. Shaped /\ Reqs = {}
    BY <2>1, NoRequests DEF CapexInit, PageInit
  <2> QED BY <2>1, <2>2 DEF CapexInit, PageInit, CapexBusy
<1>7. page = "files" => FilesBusy
  <2> SUFFICES ASSUME page = "files" PROVE FilesBusy
    OBVIOUS
  <2>1. PICK first : FilesInit(first)
    BY DEF Init
  <2>2. Shaped /\ Reqs = {}
    BY <2>1, NoRequests DEF FilesInit, PageInit
  <2> QED BY <2>1, <2>2 DEF FilesInit, FileFields, PageInit, FilesBusy
<1>8. page = "billing" => BillingPageBusy
  <2> SUFFICES ASSUME page = "billing" PROVE BillingPageBusy
    OBVIOUS
  <2>1. BillingPageInit
    BY DEF Init
  <2>2. Shaped /\ Reqs = {}
    BY <2>1, NoRequests DEF BillingPageInit, PageInit
  <2> QED BY <2>1, <2>2 DEF BillingPageInit, PageInit, BillingPageBusy
<1>9. page = "profile" => ProfileBusy
  <2> SUFFICES ASSUME page = "profile" PROVE ProfileBusy
    OBVIOUS
  <2>1. ProfileInit
    BY DEF Init
  <2>2. Shaped /\ Reqs = {}
    BY <2>1, NoRequests DEF ProfileInit, PageInit
  <2> QED BY <2>1, <2>2 DEF ProfileInit, PageInit, ProfileBusy
<1>10. page = "feedback" => FeedbackBusy
  <2> SUFFICES ASSUME page = "feedback" PROVE FeedbackBusy
    OBVIOUS
  <2>1. FeedbackInit
    BY DEF Init
  <2>2. Shaped /\ Reqs = {}
    BY <2>1, NoRequests DEF FeedbackInit, PageInit
  <2> QED BY <2>1, <2>2 DEF FeedbackInit, PageInit, FeedbackBusy
<1>11. page = "notes" => NotesBusy
  <2> SUFFICES ASSUME page = "notes" PROVE NotesBusy
    OBVIOUS
  <2>1. NotesInit
    BY DEF Init
  <2>2. Shaped /\ Reqs = {}
    BY <2>1, NoRequests DEF NotesInit, PageInit
  <2> QED BY <2>1, <2>2 DEF NotesInit, PageInit, NotesBusy
<1>12. page = "landing" => LandingBusy
  <2> SUFFICES ASSUME page = "landing" PROVE LandingBusy
    OBVIOUS
  <2>1. PICK reached, config : LandingInit(reached, config)
    BY DEF Init
  <2>2. Shaped /\ Reqs = {}
    BY <2>1, NoRequests DEF LandingInit, PageInit
  <2> QED BY <2>1, <2>2 DEF LandingInit, PageInit, LandingBusy
<1>13. page = "contact" => ContactBusy
  <2> SUFFICES ASSUME page = "contact" PROVE ContactBusy
    OBVIOUS
  <2>1. ContactInit
    BY DEF Init
  <2>2. Shaped /\ Reqs = {}
    BY <2>1, NoRequests DEF ContactInit, PageInit
  <2> QED BY <2>1, <2>2 DEF ContactInit, PageInit, ContactBusy
<1>14. page = "auth" => AuthBusy
  BY DEF Init, AuthInit, PageInit, NewPage, NoLookup, AuthBusy
<1>15. PanelBusy
  BY DEF Init, SimpleInit, PanelBusy, SaveComesBack
<1> QED BY <1>1, <1>2, <1>3, <1>4, <1>5, <1>6, <1>7, <1>8, <1>9, <1>10, <1>11, <1>12, <1>13, <1>14, <1>15 DEF BusyInv

LEMMA BusySteps == BusyInv /\ FormsInv /\ [Next]_<<pageVars, simpleVars, page>> => BusyInv'
<1>1. ASSUME BusyInv, FormsInv, Next PROVE BusyInv'
  <2>1. page' = page /\ (SimpleNext \/ UNCHANGED simpleVars)
    BY <1>1 DEF Next
  <2>2. CASE page = "panel" /\ UNCHANGED pageVars
    BY <1>1, <2>1, <2>2, PanelBusySteps DEF BusyInv
  <2>3. CASE PageNext
    <3>1. page = "team" => TeamBusy'
      BY <1>1, <2>3, TeamBusySteps DEF PageNext, BusyInv
    <3>2. page = "settings" => SettingsBusy'
      BY <1>1, <2>3, SettingsBusySteps DEF PageNext, BusyInv
    <3>3. page = "admin" => AdminBusy'
      BY <1>1, <2>3, AdminBusySteps DEF PageNext, BusyInv
    <3>4. page = "leads" => LeadsBusy'
      BY <1>1, <2>3, LeadsBusySteps DEF PageNext, BusyInv
    <3>5. page = "investment" => InvestBusy'
      BY <1>1, <2>3, InvestBusySteps DEF PageNext, BusyInv
    <3>6. page = "capex" => CapexBusy'
      BY <1>1, <2>3, CapexBusySteps DEF PageNext, BusyInv
    <3>7. page = "files" => FilesBusy'
      BY <1>1, <2>3, FilesBusySteps DEF PageNext, BusyInv
    <3>8. page = "billing" => BillingPageBusy'
      BY <1>1, <2>3, BillingPageBusySteps DEF PageNext, BusyInv
    <3>9. page = "profile" => ProfileBusy'
      BY <1>1, <2>3, ProfileBusySteps DEF PageNext, BusyInv
    <3>10. page = "feedback" => FeedbackBusy'
      BY <1>1, <2>3, FeedbackBusySteps DEF PageNext, BusyInv
    <3>11. page = "notes" => NotesBusy'
      BY <1>1, <2>3, NotesBusySteps DEF PageNext, BusyInv
    <3>12. page = "landing" => LandingBusy'
      BY <1>1, <2>3, LandingBusySteps DEF PageNext, BusyInv
    <3>13. page = "contact" => ContactBusy'
      BY <1>1, <2>3, ContactBusySteps DEF PageNext, BusyInv
    <3>14. page = "auth" => AuthBusy'
      BY <1>1, <2>3, AuthBusySteps DEF PageNext, BusyInv, FormsInv
    <3>15. PanelBusy'
      BY <1>1, <2>1, PanelBusySteps DEF BusyInv
    <3> QED BY <2>1, <3>1, <3>2, <3>3, <3>4, <3>5, <3>6, <3>7, <3>8, <3>9, <3>10, <3>11, <3>12, <3>13, <3>14, <3>15 DEF BusyInv
  <2> QED BY <1>1, <2>2, <2>3 DEF Next
<1>2. ASSUME BusyInv, UNCHANGED <<pageVars, simpleVars, page>> PROVE BusyInv'
  <2>1. ui' = ui /\ writes' = writes /\ page' = page
    BY <1>2 DEF pageVars
  <2>2. ASSUME Shaped PROVE Shaped' /\ Reqs' = Reqs
    BY <2>1, <2>2, Waits DEF Idle
  <2>3. page = "team" => TeamBusy'
    BY <1>2, <2>1, <2>2 DEF BusyInv, TeamBusy
  <2>4. page = "settings" => SettingsBusy'
    BY <1>2, <2>1, <2>2 DEF BusyInv, SettingsBusy
  <2>5. page = "admin" => AdminBusy'
    BY <1>2, <2>1, <2>2 DEF BusyInv, AdminBusy
  <2>6. page = "leads" => LeadsBusy'
    BY <1>2, <2>1, <2>2 DEF BusyInv, LeadsBusy
  <2>7. page = "investment" => InvestBusy'
    BY <1>2, <2>1, <2>2 DEF BusyInv, InvestBusy
  <2>8. page = "capex" => CapexBusy'
    BY <1>2, <2>1, <2>2 DEF BusyInv, CapexBusy
  <2>9. page = "files" => FilesBusy'
    BY <1>2, <2>1, <2>2 DEF BusyInv, FilesBusy
  <2>10. page = "billing" => BillingPageBusy'
    BY <1>2, <2>1, <2>2 DEF BusyInv, BillingPageBusy
  <2>11. page = "profile" => ProfileBusy'
    BY <1>2, <2>1, <2>2 DEF BusyInv, ProfileBusy
  <2>12. page = "feedback" => FeedbackBusy'
    BY <1>2, <2>1, <2>2 DEF BusyInv, FeedbackBusy
  <2>13. page = "notes" => NotesBusy'
    BY <1>2, <2>1, <2>2 DEF BusyInv, NotesBusy
  <2>14. page = "landing" => LandingBusy'
    BY <1>2, <2>1, <2>2 DEF BusyInv, LandingBusy
  <2>15. page = "contact" => ContactBusy'
    BY <1>2, <2>1, <2>2 DEF BusyInv, ContactBusy
  <2>16. page = "auth" => AuthBusy'
    BY <1>2, <2>1 DEF BusyInv, AuthBusy
  <2>17. PanelBusy'
    BY <1>2, PanelBusySteps DEF BusyInv
  <2> QED BY <2>1, <2>3, <2>4, <2>5, <2>6, <2>7, <2>8, <2>9, <2>10, <2>11, <2>12, <2>13, <2>14, <2>15, <2>16, <2>17 DEF BusyInv
<1> QED BY <1>1, <1>2

LEMMA FlagsReturn == BusyInv => BusyFlagsReturn
<1> SUFFICES ASSUME BusyInv PROVE BusyFlagsReturn
  OBVIOUS
<1>1. page = "team" => TeamBusyReturns
  BY DEF BusyInv, TeamBusy, TeamBusyReturns, Pending, Reqs
<1>2. page = "settings" => SettingsBusyReturns
  BY DEF BusyInv, SettingsBusy, SettingsBusyReturns, Pending, Reqs
<1>3. page = "admin" => AdminBusyReturns
  BY DEF BusyInv, AdminBusy, AdminBusyReturns, Pending, Reqs, AboutRow
<1>4. page = "leads" => LeadsBusyReturns
  BY DEF BusyInv, LeadsBusy, LeadsBusyReturns, Pending, Reqs
<1>5. page = "investment" => InvestBusyReturns
  BY DEF BusyInv, InvestBusy, InvestBusyReturns, Pending, Reqs
<1>6. page = "capex" => CapexBusyReturns
  BY DEF BusyInv, CapexBusy, CapexBusyReturns, Pending, Reqs
<1>7. page = "files" => FilesBusyReturns
  BY DEF BusyInv, FilesBusy, FilesBusyReturns, Pending, Reqs, FileFields
<1>8. page = "billing" => BillingBusyReturns
  BY DEF BusyInv, BillingPageBusy, BillingBusyReturns, Pending, Reqs
<1>9. page = "profile" => ProfileBusyReturns
  BY DEF BusyInv, ProfileBusy, ProfileBusyReturns, Pending, Reqs
<1>10. page = "feedback" => SmallFormsReturn
  BY DEF BusyInv, FeedbackBusy, SmallFormsReturn, Pending, Reqs
<1>11. page = "notes" => SmallFormsReturn
  BY DEF BusyInv, NotesBusy, SmallFormsReturn, Pending, Reqs
<1>12. page = "landing" => LandingBusyReturns
  BY DEF BusyInv, LandingBusy, LandingBusyReturns, Pending, Reqs
<1>13. page = "contact" => ContactBusyReturns
  BY DEF BusyInv, ContactBusy, ContactBusyReturns, Pending, Reqs
<1>14. page = "auth" => AuthBusyReturns
  BY DEF BusyInv, AuthBusy, AuthBusyReturns, Leavable
<1>15. page = "panel" => SaveComesBack
  BY DEF BusyInv, PanelBusy
<1> QED BY <1>1, <1>2, <1>3, <1>4, <1>5, <1>6, <1>7, <1>8, <1>9, <1>10, <1>11, <1>12, <1>13, <1>14, <1>15 DEF BusyFlagsReturn

\* A button that a handler disabled, and a page that waits, are released once their
\* requests have been answered: while a flag is up, the request whose handler will
\* lower it has not gone on to its end, whatever else is on its way, whichever answer
\* comes first and whether it is granted or refused.
THEOREM BusyFlagsStay == Spec => []BusyFlagsReturn
<1>1. BusyInv /\ FormsInv /\ [Next]_<<pageVars, simpleVars, page>> => BusyInv'
  BY BusySteps
<1> QED BY <1>1, BusyStarts, FlagsReturn, FormsHold, PTL DEF Spec

=============================================================================
