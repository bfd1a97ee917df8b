--------------------------- MODULE PageViews_proofs ---------------------------
(***************************************************************************)
(* What a page shows in two places agrees, for any data behind it: the     *)
(* filters with the address and the pills, the map with its ranking, the   *)
(* CAPEX cards with their fleet, the leads with their pages and their      *)
(* trend, and the card of the public simulator with its chart.  Each page  *)
(* has an invariant of its state and then facts about its figures: sums    *)
(* over sets by induction on the set, and recursive figures, whose         *)
(* functions are shown to exist, by induction on the month.                *)
(***************************************************************************)
EXTENDS Pages_proofs

-----------------------------------------------------------------------------
(* Numbers *)

\* A division by a positive number.
LEMMA DivBetween ==
  ASSUME NEW a \in Int, NEW d \in Nat \ {0}, NEW k \in Int
  PROVE  a \div d \in Int /\ (a \div d >= k <=> a >= d * k)
<1> DEFINE q == a \div d
<1>1. q \in Int /\ d * q <= a /\ a < d * q + d
  OBVIOUS
<1> HIDE DEF q
<1>2. CASE q >= k
  <2>1. (q - k) * d >= 0 /\ (q - k) * d = d * q - d * k
    BY <1>1, <1>2
  <2> QED BY <1>1, <1>2, <2>1 DEF q
<1>3. CASE q < k
  <2>1. (k - q - 1) * d >= 0 /\ (k - q - 1) * d = d * k - d * q - d
    BY <1>1, <1>3
  <2> QED BY <1>1, <1>3, <2>1 DEF q
<1> QED BY <1>1, <1>2, <1>3

\* A finite set of numbers that is not empty has a least and a largest.
LEMMA NatMinMax ==
  ASSUME NEW S \in SUBSET Nat, IsFiniteSet(S), S # {}
  PROVE  /\ Min(S) \in S /\ \A x \in S : Min(S) <= x
         /\ Max(S) \in S /\ \A x \in S : x <= Max(S)
<1>1. \E x \in S : \A y \in S : x <= y
  <2>1. PICK x \in S : \A y \in S : ~(<<y, x>> \in OpToRel(<, Nat))
    BY NatLessThanWellFounded, WFMin
  <2>2. ASSUME NEW y \in S PROVE x <= y
    <3>1. x \in Nat /\ y \in Nat
      OBVIOUS
    <3>2. y < x => <<y, x>> \in OpToRel(<, Nat)
      BY <3>1 DEF OpToRel
    <3>3. ~(y < x)
      BY <2>1, <3>2, Zenon
    <3> QED BY <3>1, <3>3
  <2> QED BY <2>2
<1> DEFINE HasTop(u) == \E x \in u : \A y \in u : x >= y
           N == {n \in Nat : \A u \in SUBSET S : u # {} /\ Cardinality(u) <= n => HasTop(u)}
<1>2. \A u \in SUBSET S : Cardinality(u) \in Nat /\ IsFiniteSet(u)
  BY FS_Subset, FS_CardinalityType
<1>3. 0 \in N
  <2>1. \A u \in SUBSET S : Cardinality(u) <= 0 => u = {}
    BY <1>2, FS_EmptySet
  <2> QED BY <2>1
<1>4. ASSUME NEW n \in Nat, n \in N PROVE n + 1 \in N
  <2>0. SUFFICES ASSUME NEW u \in SUBSET S, u # {}, Cardinality(u) <= n + 1 PROVE HasTop(u)
    OBVIOUS
  <2>1. PICK x : x \in u
    BY <2>0
  <2>2. CASE u \ {x} = {}
    <3>1. x \in Nat /\ u = {x}
      BY <2>1, <2>2
    <3> QED BY <3>1
  <2>3. CASE u \ {x} # {}
    <3>1. Cardinality(u \ {x}) = Cardinality(u) - 1
      BY <1>2, <2>1, FS_RemoveElement
    <3>2. HasTop(u \ {x})
      <4>1. Cardinality(u \ {x}) <= n
        BY <1>2, <2>0, <3>1
      <4> HIDE DEF HasTop
      <4> QED BY <1>4, <2>3, <4>1
    <3>3. PICK y \in u \ {x} : \A z \in u \ {x} : y >= z
      BY <3>2
    <3>4. x \in Nat /\ y \in Nat /\ \A z \in u : z \in Nat
      BY <2>1
    <3> QED BY <2>1, <3>3, <3>4
  <2> QED BY <2>2, <2>3
<1> HIDE DEF N, HasTop
<1>5. Nat \subseteq N
  BY <1>3, <1>4, NatSets
<1>6. HasTop(S)
  BY <1>2, <1>5 DEF N
<1>7. \A x \in S : x \in Nat
  OBVIOUS
<1>8. Min(S) \in S /\ \A x \in S : Min(S) <= x
  BY <1>1 DEF Min
<1>9. Max(S) \in S /\ \A x \in S : Max(S) >= x
  BY <1>6 DEF Max, HasTop
<1> QED BY <1>7, <1>8, <1>9

-----------------------------------------------------------------------------
(* Sums *)

\* What holds of the empty set, and of a set when it does of the set without any
\* one of its elements, holds of every finite set.
LEMMA SetInduction ==
  ASSUME NEW S, IsFiniteSet(S), NEW Good, {} \in Good,
         \A u \in SUBSET S : u # {} /\ (\A x \in u : u \ {x} \in Good) => u \in Good
  PROVE  S \in Good
<1> DEFINE N == {n \in Nat : \A u \in SUBSET S : Cardinality(u) <= n => u \in Good}
<1>1. \A u \in SUBSET S : Cardinality(u) \in Nat /\ IsFiniteSet(u)
  BY FS_Subset, FS_CardinalityType
<1>2. 0 \in N
  <2>1. \A u \in SUBSET S : Cardinality(u) <= 0 => u = {}
    BY <1>1, FS_EmptySet
  <2> QED BY <2>1
<1>3. ASSUME NEW n \in Nat, n \in N PROVE n + 1 \in N
  <2>0. SUFFICES ASSUME NEW u \in SUBSET S, Cardinality(u) <= n + 1, u # {} PROVE u \in Good
    OBVIOUS
  <2>1. ASSUME NEW x \in u PROVE u \ {x} \in Good
    <3>1. Cardinality(u \ {x}) = Cardinality(u) - 1
      BY <1>1, FS_RemoveElement
    <3>2. Cardinality(u \ {x}) <= n /\ u \ {x} \in SUBSET S
      BY <1>1, <2>0, <3>1
    <3> QED BY <1>3, <3>2
  <2> QED BY <2>0, <2>1
<1> HIDE DEF N
<1>4. Nat \subseteq N
  BY <1>2, <1>3, NatSets
<1> QED BY <1>1, <1>4 DEF N

\* A sum is the fold's value at the whole domain.
LEMMA SumIs ==
  ASSUME NEW S, IsFiniteSet(S), NEW f, DOMAIN f = S
  PROVE  \E sum : IsSum(sum, S, f) /\ SumFunction(f) = sum[S]
<1> DEFINE sum == CHOOSE g : IsSum(g, S, f)
<1>1. SumFunction(f) = sum[S]
  BY Zenon DEF SumFunction, SumFunctionOnSet, FoldFunctionOnSet, MapThenFoldSet, IsSum
<1>2. IsSum(sum, S, f)
  BY SumExists
<1> QED BY <1>1, <1>2

\* The value of a fold at a set that is not empty.
LEMMA SumAt ==
  ASSUME NEW S, NEW f, NEW sum, IsSum(sum, S, f)
  PROVE  /\ sum[{}] = 0
         /\ \A u \in SUBSET S : u # {} => (CHOOSE x \in u : TRUE) \in u
              /\ sum[u] = f[CHOOSE x \in u : TRUE] + sum[u \ {CHOOSE x \in u : TRUE}]
BY DEF IsSum

\* The sum of differences is the difference of the sums.
LEMMA SumDifference ==
  ASSUME NEW S, IsFiniteSet(S), NEW f \in [S -> Int], NEW g \in [S -> Int], NEW h \in [S -> Int],
         \A x \in S : f[x] = g[x] - h[x]
  PROVE  /\ SumFunction(f) \in Int /\ SumFunction(g) \in Int /\ SumFunction(h) \in Int
         /\ SumFunction(f) = SumFunction(g) - SumFunction(h)
<1>1. PICK F : IsSum(F, S, f) /\ SumFunction(f) = F[S]
  BY SumIs
<1>2. PICK G : IsSum(G, S, g) /\ SumFunction(g) = G[S]
  BY SumIs
<1>3. PICK H : IsSum(H, S, h) /\ SumFunction(h) = H[S]
  BY SumIs
<1> DEFINE Good == {u \in SUBSET S : F[u] \in Int /\ G[u] \in Int /\ H[u] \in Int /\ F[u] = G[u] - H[u]}
<1>4. {} \in Good
  BY <1>1, <1>2, <1>3, SumAt
<1>5. ASSUME NEW u \in SUBSET S, u # {}, \A x \in u : u \ {x} \in Good PROVE u \in Good
  <2>1. PICK x \in u : F[u] = f[x] + F[u \ {x}] /\ G[u] = g[x] + G[u \ {x}] /\ H[u] = h[x] + H[u \ {x}]
    <3> DEFINE x == CHOOSE x \in u : TRUE
    <3>1. F[u] = f[x] + F[u \ {x}]
      BY <1>1, <1>5, SumAt
    <3>2. G[u] = g[x] + G[u \ {x}]
      BY <1>2, <1>5, SumAt
    <3>3. H[u] = h[x] + H[u \ {x}]
      BY <1>3, <1>5, SumAt
    <3>4. x \in u
      BY <1>5
    <3> HIDE DEF x
    <3> QED BY <3>1, <3>2, <3>3, <3>4
  <2>2. u \ {x} \in Good
    BY <1>5
  <2>3. f[x] \in Int /\ g[x] \in Int /\ h[x] \in Int /\ f[x] = g[x] - h[x]
    OBVIOUS
  <2> QED BY <2>1, <2>2, <2>3
<1> HIDE DEF Good
<1>6. S \in Good
  BY <1>4, <1>5, SetInduction
<1> QED BY <1>1, <1>2, <1>3, <1>6 DEF Good

-----------------------------------------------------------------------------
(* The filters *)

FilterSets == [from : {0} \cup Dates, to : {0} \cup Dates, stations : SUBSET Stations]

\* The address carries the filters there and back.
LEMMA RoundTrip ==
  ASSUME NEW f \in FilterSets
  PROVE  ParamsToFilters(FiltersToSearch(f)) = f
<1> DEFINE ps == FiltersToSearch(f)
<1>1. /\ \A d : <<"from", d>> \in ps <=> d = f.from /\ f.from # 0
      /\ \A d : <<"to", d>> \in ps <=> d = f.to /\ f.to # 0
      /\ \A x : <<"stations", x>> \in ps <=> x \in f.stations
  BY DEF FiltersToSearch
<1>2. f.from \in {0} \cup Dates /\ f.to \in {0} \cup Dates /\ 0 \notin Dates /\ f.stations \subseteq Stations
  BY DEF FilterSets, Dates
<1> HIDE DEF ps
<1>3. (IF \E d \in Dates : <<"from", d>> \in ps THEN CHOOSE d \in Dates : <<"from", d>> \in ps ELSE 0) = f.from
  BY <1>1, <1>2
<1>4. (IF \E d \in Dates : <<"to", d>> \in ps THEN CHOOSE d \in Dates : <<"to", d>> \in ps ELSE 0) = f.to
  BY <1>1, <1>2
<1>5. {x \in Stations : <<"stations", x>> \in ps} = f.stations
  BY <1>1, <1>2
<1>6. f = [from |-> f.from, to |-> f.to, stations |-> f.stations]
  BY DEF FilterSets
<1>7. ParamsToFilters(ps) = [from |-> f.from, to |-> f.to, stations |-> f.stations]
  BY <1>3, <1>4, <1>5 DEF ParamsToFilters
<1> QED BY <1>6, <1>7 DEF ps

LEMMA ReadFilters == ASSUME NEW ps PROVE ParamsToFilters(ps) \in FilterSets
<1>1. (IF \E d \in Dates : <<"from", d>> \in ps THEN CHOOSE d \in Dates : <<"from", d>> \in ps ELSE 0) \in {0} \cup Dates
  OBVIOUS
<1>2. (IF \E d \in Dates : <<"to", d>> \in ps THEN CHOOSE d \in Dates : <<"to", d>> \in ps ELSE 0) \in {0} \cup Dates
  OBVIOUS
<1> QED BY <1>1, <1>2 DEF ParamsToFilters, FilterSets

\* No filters, no parameters; and parameters that are there are filters.
LEMMA EmptyAddress ==
  /\ NoFilters \in FilterSets /\ FiltersToSearch(NoFilters) = {} /\ ParamsToFilters({}) = NoFilters
<1>1. NoFilters \in FilterSets
  BY DEF NoFilters, FilterSets
<1>2. FiltersToSearch(NoFilters) = {}
  BY DEF NoFilters, FiltersToSearch
<1> QED BY <1>1, <1>2, RoundTrip

\* An address is empty or carries filters.
Address(url) == url = {} \/ ParamsToFilters(url) # NoFilters

LEMMA SearchIsAddress == ASSUME NEW f \in FilterSets PROVE Address(FiltersToSearch(f))
<1>1. CASE f = NoFilters
  BY <1>1, EmptyAddress DEF Address
<1>2. CASE f # NoFilters
  BY <1>2, RoundTrip DEF Address
<1> QED BY <1>1, <1>2

LEMMA LinkIsAddress == ASSUME NEW url \in Links PROVE Address(url)
<1>1. CASE url = {<<"stations", "a">>}
  <2>1. ParamsToFilters(url).stations = {"a"}
    BY <1>1 DEF ParamsToFilters, Stations
  <2> QED BY <2>1 DEF Address, NoFilters
<1>2. CASE url = {<<"from", 2>>, <<"to", 1>>}
  <2>1. \E d \in Dates : <<"from", d>> \in url
    BY <1>2 DEF Dates
  <2>2. ParamsToFilters(url).from \in Dates
    BY <2>1 DEF ParamsToFilters
  <2>3. NoFilters.from \notin Dates
    BY DEF NoFilters, Dates
  <2> QED BY <2>2, <2>3 DEF Address
<1> QED BY <1>1, <1>2 DEF Links, Address

TabFields ==
  {"filters", "url", "local", "presets", "open", "dateError", "initialized", "due", "replacing", "target", "skipped"}

\* A tab that has not taken its filters over is as it was rendered; one that has
\* and whose effects have run, and were not skipped, goes where its filters are.
TabInv(x) ==
  /\ Function(x, TabFields)
  /\ x.filters \in FilterSets /\ x.local \in FilterSets /\ x.presets \subseteq FilterSets
  /\ Address(x.url) /\ Address(x.target)
  /\ ~x.initialized => x.filters = NoFilters /\ ~x.open /\ ~x.due /\ ~x.replacing
  /\ x.initialized /\ ~x.due /\ ~x.skipped =>
       IF x.replacing THEN x.target = FiltersToSearch(x.filters) ELSE x.url = FiltersToSearch(x.filters)

\* What is stored are the filters of the tab that wrote last, and as long as none
\* has, of every tab.
FiltersInv ==
  /\ Function(ui, {"tabs", "stored", "writer", "presets"}) /\ Function(ui.tabs, Tabs)
  /\ ui.presets \subseteq FilterSets
  /\ \A t \in Tabs : TabInv(Tab(t))
  /\ \A t \in Tabs : Tab(t).initialized /\ ui.writer \in {t, NoTab} =>
       ParamsToFilters(ui.stored) = Tab(t).filters

LEMMA FiltersStart == ASSUME NEW stored, FiltersInit(stored) PROVE FiltersInv
<1>1. ui = [tabs |-> [t \in Tabs |-> Fresh({}, {})], stored |-> stored, writer |-> NoTab, presets |-> {}]
  BY DEF FiltersInit, PageInit
<1>2. TabInv(Fresh({}, {})) /\ ~Fresh({}, {}).initialized
  BY EmptyAddress DEF TabInv, Fresh, TabFields, Address, Function
<1> HIDE DEF TabInv
<1>3. \A t \in Tabs : Tab(t) = Fresh({}, {})
  BY <1>1 DEF Tab
<1> QED BY <1>1, <1>2, <1>3 DEF FiltersInv, Function

\* A step of one tab that leaves its filters and what is stored alone.
LEMMA TabChanges ==
  ASSUME FiltersInv, NEW t \in Tabs, NEW x, NEW presets, presets \subseteq FilterSets, TabInv(x),
         ui' = [ui EXCEPT !.tabs[t] = x, !.presets = presets],
         x.initialized /\ ui.writer \in {t, NoTab} => ParamsToFilters(ui.stored) = x.filters
  PROVE  FiltersInv'
<1>1. /\ Function(ui', DOMAIN ui) /\ ui'.tabs = [ui.tabs EXCEPT ![t] = x] /\ ui'.presets = presets
      /\ ui'.stored = ui.stored /\ ui'.writer = ui.writer
  BY DEF FiltersInv, Function
<1>2. Tab(t)' = x /\ \A u \in Tabs \ {t} : Tab(u)' = Tab(u)
  BY <1>1 DEF FiltersInv, Tab, Function
<1>3. \A u \in Tabs : TabInv(Tab(u))'
  <2> SUFFICES ASSUME NEW u \in Tabs PROVE TabInv(Tab(u)')
    BY DEF TabInv
  <2> HIDE DEF TabInv
  <2> QED BY <1>2 DEF FiltersInv, Function
<1>4. \A u \in Tabs : Tab(u)'.initialized /\ ui'.writer \in {u, NoTab} => ParamsToFilters(ui'.stored) = Tab(u)'.filters
  BY <1>1, <1>2 DEF FiltersInv, Function
<1>5. Function(ui'.tabs, Tabs)
  BY <1>1 DEF FiltersInv, Function
<1> QED BY <1>1, <1>3, <1>4, <1>5 DEF FiltersInv, Function

\* A step that sets the filters of a tab.
LEMMA TabWrites ==
  ASSUME FiltersInv, NEW t \in Tabs, NEW f \in FilterSets, NEW x,
         Function(x, TabFields), x.local \in FilterSets, x.presets \subseteq FilterSets, x.initialized,
         Address(x.url), Address(x.target),
         ui' = SetFilters(t, f, x)
  PROVE  FiltersInv'
<1> DEFINE y == [x EXCEPT !.filters = f, !.due = TRUE]
<1>1. TabInv(y) /\ y.filters = f /\ y.initialized
  BY DEF TabInv, TabFields, Function
<1>2. /\ Function(ui', DOMAIN ui) /\ ui'.tabs = [ui.tabs EXCEPT ![t] = y] /\ ui'.presets = ui.presets
      /\ ui'.stored = FiltersToSearch(f) /\ ui'.writer = t
  BY DEF FiltersInv, SetFilters, Function
<1> HIDE DEF y
<1>3. Tab(t)' = y /\ \A u \in Tabs \ {t} : Tab(u)' = Tab(u)
  BY <1>2 DEF FiltersInv, Tab, Function
<1>4. \A u \in Tabs : TabInv(Tab(u))'
  <2> SUFFICES ASSUME NEW u \in Tabs PROVE TabInv(Tab(u)')
    BY DEF TabInv
  <2> HIDE DEF TabInv
  <2> QED BY <1>1, <1>3 DEF FiltersInv, Function
<1>5. \A u \in Tabs : Tab(u)'.initialized /\ ui'.writer \in {u, NoTab} => ParamsToFilters(ui'.stored) = Tab(u)'.filters
  <2> SUFFICES ASSUME NEW u \in Tabs, ui'.writer \in {u, NoTab}
               PROVE  ParamsToFilters(ui'.stored) = Tab(u)'.filters
    OBVIOUS
  <2>1. u = t
    BY <1>2, TabsAssumption
  <2> QED BY <1>1, <1>2, <1>3, <2>1, RoundTrip
<1>6. Function(ui'.tabs, Tabs)
  BY <1>2 DEF FiltersInv, Function
<1> QED BY <1>2, <1>4, <1>5, <1>6 DEF FiltersInv, Function

LEMMA FiltersStep == FiltersInv /\ FiltersNext => FiltersInv'
<1> SUFFICES ASSUME FiltersInv, NEW t \in Tabs,
                    \/ MountEffects(t) \/ AddressChanges(t) \/ SyncUrl(t) \/ ReloadTab(t) \/ OpenLink(t) \/ Navigate(t)
                    \/ TogglePopover(t) \/ EditLocal(t) \/ Apply(t) \/ Clear(t)
                    \/ SavePreset(t) \/ DeletePreset(t) \/ LoadPreset(t) \/ RemovePill(t)
             PROVE  FiltersInv'
  BY DEF FiltersNext
<1> DEFINE x == Tab(t)
<1>1. TabInv(x) /\ (x.initialized /\ ui.writer \in {t, NoTab} => ParamsToFilters(ui.stored) = x.filters)
  BY DEF FiltersInv, Function
<1>2. ui.presets \subseteq FilterSets /\ Function(ui, {"tabs", "stored", "writer", "presets"}) /\ Function(ui.tabs, Tabs)
  BY DEF FiltersInv, Function
<1>3. ui = [ui EXCEPT !.presets = ui.presets]
  BY <1>2 DEF Function
<1>4. ASSUME NEW y, ui' = OnTab(t, y)
      PROVE  ui' = [ui EXCEPT !.tabs[t] = y, !.presets = ui.presets]
  BY <1>2, <1>4 DEF OnTab, Function
<1>5. ASSUME NEW y, ui' = OnTab(t, y), TabInv(y), y.initialized => x.initialized /\ y.filters = x.filters
      PROVE  FiltersInv'
  <2> HIDE DEF x, TabInv
  <2> QED BY <1>1, <1>2, <1>4, <1>5, TabChanges
<1>6. CASE MountEffects(t)
  <2> DEFINE found == Restored(x.url)
             mounted == [x EXCEPT !.initialized = TRUE]
             y == IF x.url = {} THEN mounted ELSE Replace(mounted, {})
  <2>1. ~x.initialized /\ ui' = IF found = NoFilters THEN OnTab(t, y) ELSE SetFilters(t, found, y)
    BY <1>6 DEF MountEffects, Render
  <2>2. /\ Function(y, TabFields) /\ y.filters = NoFilters /\ y.local \in FilterSets /\ y.presets \subseteq FilterSets
        /\ y.initialized /\ ~y.due /\ Address(y.url) /\ Address(y.target)
        /\ y.url = x.url /\ IF y.replacing THEN y.target = {} ELSE y.url = {}
    <3>1. Address({})
      BY DEF Address
    <3>2. CASE x.url = {}
      BY <1>1, <2>1, <3>1, <3>2 DEF TabInv, TabFields, Function
    <3>3. CASE x.url # {}
      BY <1>1, <2>1, <3>1, <3>3 DEF TabInv, TabFields, Replace, Function
    <3> QED BY <3>2, <3>3
  <2>3. CASE found = NoFilters
    <3>1. x.url = {} /\ ParamsToFilters(ui.stored) = NoFilters
      BY <1>1, <2>3 DEF Restored, TabInv, Address
    <3>2. TabInv(y)
      BY <2>2, EmptyAddress DEF TabInv
    <3>3. ui' = OnTab(t, y)
      BY <2>1, <2>3
    <3> HIDE DEF y, TabInv
    <3> QED BY <1>2, <1>4, <2>2, <3>1, <3>2, <3>3, TabChanges
  <2>4. CASE found # NoFilters
    <3>1. found \in FilterSets
      BY ReadFilters DEF Restored
    <3>2. ui' = SetFilters(t, found, y)
      BY <2>1, <2>4
    <3> HIDE DEF y, found, FiltersInv
    <3> QED BY <2>2, <3>1, <3>2, TabWrites
  <2> QED BY <2>3, <2>4
<1>7. CASE AddressChanges(t)
  <2> DEFINE y == [x EXCEPT !.replacing = FALSE, !.url = x.target]
  <2>1. ui' = OnTab(t, y) /\ x.replacing
    BY <1>7 DEF AddressChanges, Render
  <2>2. TabInv(y) /\ y.initialized = x.initialized /\ y.filters = x.filters
    BY <1>1, <2>1 DEF TabInv, TabFields, Function
  <2> HIDE DEF y
  <2> QED BY <1>5, <2>1, <2>2
<1>8. CASE SyncUrl(t)
  <2> DEFINE z == [x EXCEPT !.due = FALSE]
             search == FiltersToSearch(z.filters)
             y == IF search = z.url THEN [z EXCEPT !.skipped = z.replacing] ELSE Replace(z, search)
  <2>1. ui' = OnTab(t, y) /\ x.initialized
    BY <1>8 DEF SyncUrl, Render
  <2>2. /\ Function(z, TabFields) /\ z.filters = x.filters /\ z.url = x.url /\ z.initialized = x.initialized
        /\ Address(search)
    BY <1>1, SearchIsAddress DEF TabInv, TabFields, Function
  <2>3. CASE search = z.url
    <3>1. y = [x EXCEPT !.due = FALSE, !.skipped = x.replacing]
      BY <1>1, <2>3 DEF TabInv, TabFields, Function
    <3>2. TabInv(y) /\ y.initialized = x.initialized /\ y.filters = x.filters
      BY <1>1, <2>1, <2>2, <2>3, <3>1 DEF TabInv, TabFields, Function
    <3> HIDE DEF y
    <3> QED BY <1>5, <2>1, <3>2
  <2>4. CASE search # z.url
    <3>1. y = [x EXCEPT !.due = FALSE, !.replacing = TRUE, !.target = search, !.skipped = FALSE]
      BY <1>1, <2>4 DEF TabInv, TabFields, Replace, Function
    <3>0. search = FiltersToSearch(x.filters)
      BY <2>2
    <3>3. Address(search) /\ x.initialized
      BY <2>1, <2>2
    <3> HIDE DEF search, z, y
    <3>2. TabInv(y) /\ y.initialized = x.initialized /\ y.filters = x.filters
      BY <1>1, <3>0, <3>1, <3>3 DEF TabInv, TabFields, Function
    <3> QED BY <1>5, <2>1, <3>2
  <2> QED BY <2>3, <2>4
<1>9. CASE ReloadTab(t) \/ OpenLink(t)
  <2>1. PICK url : Address(url) /\ ui' = OnTab(t, Fresh(url, ui.presets))
    <3>1. CASE ReloadTab(t)
      BY <1>1, <3>1 DEF ReloadTab, Click, TabInv
    <3>2. CASE OpenLink(t)
      BY <3>2, LinkIsAddress DEF OpenLink, Click
    <3> QED BY <1>9, <3>1, <3>2
  <2> DEFINE y == Fresh(url, ui.presets)
  <2>2. TabInv(y) /\ ~y.initialized
    BY <1>2, <2>1, EmptyAddress DEF TabInv, Fresh, TabFields, Address, Function
  <2> HIDE DEF y
  <2> QED BY <1>5, <2>1, <2>2 DEF y
<1>10. CASE Navigate(t)
  <2> DEFINE y == [x EXCEPT !.url = {}, !.local = x.filters, !.open = FALSE, !.dateError = FALSE,
                            !.presets = ui.presets, !.replacing = FALSE, !.due = TRUE]
  <2>1. ui' = OnTab(t, y) /\ x.initialized
    BY <1>10 DEF Navigate, Click
  <2>2. TabInv(y) /\ y.initialized = x.initialized /\ y.filters = x.filters
    BY <1>1, <1>2, <2>1 DEF TabInv, TabFields, Address, Function
  <2> HIDE DEF y
  <2> QED BY <1>5, <2>1, <2>2
<1>11. CASE TogglePopover(t)
  <2> DEFINE y == [x EXCEPT !.open = ~x.open]
  <2>1. ui' = OnTab(t, y) /\ x.initialized
    BY <1>11 DEF TogglePopover, Click
  <2>2. TabInv(y) /\ y.initialized = x.initialized /\ y.filters = x.filters
    BY <1>1, <2>1 DEF TabInv, TabFields, Function
  <2> HIDE DEF y
  <2> QED BY <1>5, <2>1, <2>2
<1>12. CASE EditLocal(t)
  <2>1. PICK f, e : f \in FilterSets /\ ui' = OnTab(t, [x EXCEPT !.local = f, !.dateError = e])
    <3>1. CASE \E k \in {"from", "to"}, d \in Dates \cup {0} :
                 ui' = OnTab(t, [x EXCEPT !.local[k] = d, !.dateError = FALSE])
      <4>1. PICK k \in {"from", "to"}, d \in Dates \cup {0} :
                 ui' = OnTab(t, [x EXCEPT !.local[k] = d, !.dateError = FALSE])
        BY <3>1
      <4> DEFINE f == [x.local EXCEPT ![k] = d]
      <4>2. f \in FilterSets
        BY <1>1 DEF TabInv, FilterSets
      <4>3. [x EXCEPT !.local[k] = d, !.dateError = FALSE] = [x EXCEPT !.local = f, !.dateError = FALSE]
        BY <1>1 DEF TabInv, TabFields, Function
      <4> HIDE DEF f
      <4> QED BY <4>1, <4>2, <4>3
    <3>2. CASE \E s1 \in Stations : ui' = OnTab(t, [x EXCEPT !.local.stations = SymDiff(x.local.stations, {s1})])
      <4>1. PICK s1 \in Stations : ui' = OnTab(t, [x EXCEPT !.local.stations = SymDiff(x.local.stations, {s1})])
        BY <3>2
      <4> DEFINE f == [x.local EXCEPT !.stations = SymDiff(x.local.stations, {s1})]
      <4>2. f \in FilterSets
        BY <1>1 DEF TabInv, FilterSets, SymDiff
      <4>3. [x EXCEPT !.local.stations = SymDiff(x.local.stations, {s1})]
              = [x EXCEPT !.local = f, !.dateError = x.dateError]
        BY <1>1 DEF TabInv, TabFields, Function
      <4> HIDE DEF f
      <4> QED BY <4>1, <4>2, <4>3
    <3>3. \/ \E k \in {"from", "to"}, d \in Dates \cup {0} :
                ui' = OnTab(t, [x EXCEPT !.local[k] = d, !.dateError = FALSE])
          \/ \E s1 \in Stations : ui' = OnTab(t, [x EXCEPT !.local.stations = SymDiff(x.local.stations, {s1})])
      BY <1>12, Zenon DEF EditLocal, Click
    <3> QED BY <3>1, <3>2, <3>3
  <2> DEFINE y == [x EXCEPT !.local = f, !.dateError = e]
  <2>2. TabInv(y) /\ y.initialized = x.initialized /\ y.filters = x.filters
    BY <1>1, <2>1 DEF TabInv, TabFields, Function
  <2> HIDE DEF y
  <2> QED BY <1>5, <2>1, <2>2 DEF y
<1>13. ASSUME NEW f \in FilterSets, NEW local \in FilterSets, NEW open, NEW e, x.initialized,
              ui' = SetFilters(t, f, [x EXCEPT !.local = local, !.open = open, !.dateError = e])
       PROVE  FiltersInv'
  <2> DEFINE y == [x EXCEPT !.local = local, !.open = open, !.dateError = e]
  <2>1. /\ Function(y, TabFields) /\ y.local \in FilterSets /\ y.presets \subseteq FilterSets
        /\ y.initialized /\ Address(y.url) /\ Address(y.target)
    BY <1>1, <1>13 DEF TabInv, TabFields, Function
  <2> HIDE DEF y, FiltersInv
  <2> QED BY <1>13, <2>1, TabWrites DEF y
<1>14. x.open => x.initialized
  BY <1>1 DEF TabInv
<1>15. CASE Apply(t)
  <2>1. CASE DatesOrdered(x.local)
    <3>1. ui' = SetFilters(t, x.local, [x EXCEPT !.local = x.local, !.open = FALSE, !.dateError = FALSE])
      <4>1. [x EXCEPT !.dateError = FALSE, !.open = FALSE] = [x EXCEPT !.local = x.local, !.open = FALSE, !.dateError = FALSE]
        BY <1>1 DEF TabInv, TabFields, Function
      <4> QED BY <1>15, <2>1, <4>1 DEF Apply, Click
    <3>2. x.initialized /\ x.local \in FilterSets
      BY <1>1, <1>14, <1>15 DEF Apply, TabInv
    <3> QED BY <1>13, <3>1, <3>2
  <2>2. CASE ~DatesOrdered(x.local)
    <3> DEFINE y == [x EXCEPT !.dateError = TRUE]
    <3>1. ui' = OnTab(t, y)
      BY <1>15, <2>2 DEF Apply, Click
    <3>2. TabInv(y) /\ y.initialized = x.initialized /\ y.filters = x.filters
      BY <1>1 DEF TabInv, TabFields, Function
    <3> HIDE DEF y
    <3> QED BY <1>5, <3>1, <3>2
  <2> QED BY <2>1, <2>2
<1>16. CASE Clear(t)
  <2>1. ui' = SetFilters(t, NoFilters, [x EXCEPT !.local = NoFilters, !.open = FALSE, !.dateError = FALSE])
    <3>1. [x EXCEPT !.dateError = FALSE, !.local = NoFilters, !.open = FALSE]
            = [x EXCEPT !.local = NoFilters, !.open = FALSE, !.dateError = FALSE]
      BY <1>1 DEF TabInv, TabFields, Function
    <3> QED BY <1>16, <3>1 DEF Clear, Click
  <2> QED BY <1>13, <1>14, <1>16, <2>1, EmptyAddress DEF Clear
<1>17. CASE SavePreset(t) \/ DeletePreset(t)
  <2>1. PICK ps : ps \subseteq FilterSets /\ ui' = SavePresets(t, ps)
    <3>1. x.presets \subseteq FilterSets /\ x.local \in FilterSets
      BY <1>1 DEF TabInv
    <3>2. CASE SavePreset(t)
      BY <3>1, <3>2 DEF SavePreset, Click
    <3>3. CASE DeletePreset(t)
      BY <3>1, <3>3 DEF DeletePreset, Click
    <3> QED BY <1>17, <3>2, <3>3
  <2> DEFINE y == [x EXCEPT !.presets = ps]
  <2>2. ui' = [ui EXCEPT !.tabs[t] = y, !.presets = ps]
    BY <1>2, <2>1 DEF SavePresets, OnTab, Function
  <2>3. TabInv(y) /\ y.initialized = x.initialized /\ y.filters = x.filters
    BY <1>1, <2>1 DEF TabInv, TabFields, Function
  <2>4. y.initialized /\ ui.writer \in {t, NoTab} => ParamsToFilters(ui.stored) = y.filters
    BY <1>1, <2>3
  <2> HIDE DEF y, x, TabInv, FiltersInv
  <2> QED BY <2>1, <2>2, <2>3, <2>4, TabChanges
<1>18. CASE LoadPreset(t)
  <2>1. PICK f \in x.presets : ui' = SetFilters(t, f, [x EXCEPT !.local = f, !.open = FALSE])
    BY <1>18 DEF LoadPreset, Click
  <2>2. [x EXCEPT !.local = f, !.open = FALSE] = [x EXCEPT !.local = f, !.open = FALSE, !.dateError = x.dateError]
    BY <1>1 DEF TabInv, TabFields, Function
  <2>3. f \in FilterSets /\ x.initialized
    BY <1>1, <1>14, <1>18 DEF TabInv, LoadPreset
  <2>4. ui' = SetFilters(t, f, [x EXCEPT !.local = f, !.open = FALSE, !.dateError = x.dateError])
    BY ONLY <2>1, <2>2
  <2> HIDE DEF x, FiltersInv
  <2> QED BY <1>13, <2>3, <2>4
<1>19. CASE RemovePill(t)
  <2>1. PICK f \in FilterSets : ui' = SetFilters(t, f, x)
    <3>1. x.filters \in FilterSets
      BY <1>1 DEF TabInv
    <3>2. [x.filters EXCEPT !.from = 0, !.to = 0] \in FilterSets /\ [x.filters EXCEPT !.stations = {}] \in FilterSets
      BY <3>1 DEF FilterSets
    <3> QED BY <1>19, <3>2 DEF RemovePill, Click
  <2>2. x = [x EXCEPT !.local = x.local, !.open = x.open, !.dateError = x.dateError]
    BY <1>1 DEF TabInv, TabFields, Function
  <2>3. x.initialized /\ x.local \in FilterSets
    BY <1>1, <1>19 DEF RemovePill, TabInv
  <2> QED BY <1>13, <2>1, <2>2, <2>3
<1> QED BY <1>6, <1>7, <1>8, <1>9, <1>10, <1>11, <1>12, <1>15, <1>16, <1>17, <1>18, <1>19

LEMMA FiltersFollow == FiltersInv => FiltersAgree
<1> SUFFICES ASSUME FiltersInv PROVE FiltersAgree
  OBVIOUS
<1>1. UrlFollows
  BY DEF FiltersInv, TabInv, UrlFollows, Function
<1>2. ReloadKeepsFilters
  BY DEF FiltersInv, ReloadKeepsFilters, Restored, Function
<1> QED BY <1>1, <1>2 DEF FiltersAgree
-----------------------------------------------------------------------------
(* The map *)

\* A value lies between the least and the largest.
LEMMA AboveInSpread ==
  ASSUME NEW S, IsFiniteSet(S), NEW f \in [S -> Nat], NEW c \in S
  PROVE  /\ Above(f, c) \in Nat /\ Spread(f) \in Nat /\ Above(f, c) <= Spread(f)
         /\ \A d \in S : f[c] <= f[d] => Above(f, c) <= Above(f, d)
<1>1. Range(f) = {f[d] : d \in S} /\ f[c] \in Range(f) /\ Range(f) \in SUBSET Nat
  BY DEF Range
<1>2. IsFiniteSet(Range(f))
  <2>1. f \in Surjection(S, Range(f))
    BY <1>1 DEF Surjection
  <2> QED BY <2>1, FS_Surjection
<1>3. /\ Min(Range(f)) \in Range(f) /\ \A x \in Range(f) : Min(Range(f)) <= x
      /\ Max(Range(f)) \in Range(f) /\ \A x \in Range(f) : x <= Max(Range(f))
  BY <1>1, <1>2, NatMinMax
<1> DEFINE low == Min(Range(f))
           high == Max(Range(f))
<1>4. low \in Nat /\ high \in Nat /\ low <= f[c] /\ f[c] <= high /\ f[c] \in Nat /\ \A d \in S : f[d] \in Nat
  BY <1>1, <1>3
<1> HIDE DEF low, high
<1> QED BY <1>4 DEF Above, Spread, low, high

MapFields ==
  {"uf", "data", "loading", "error", "cache", "asked", "kept", "seen", "usingMock", "collapsed", "n"}

\* Whatever the page waits for is about the state that is selected.
MapInv ==
  /\ ui.data # NoUF => ui.data = ui.uf /\ ui.data \in UFs
  /\ \A q \in ui.asked : Function(q, {"uf", "n", "live"}) /\ q.uf \in UFs /\ (q.live => q.uf = ui.uf)
  /\ ui.cache \subseteq UFs
  /\ Function(ui, MapFields)
  /\ Function(ui.kept, Sources) /\ Function(ui.seen, Sources)
  /\ ui.kept.chargers \in {"none", "real", "mock"} /\ ui.seen.chargers \in {"none", "real", "mock"}

LEMMA MapStart == MapInit => MapInv
<1> SUFFICES ASSUME MapInit PROVE MapInv
  OBVIOUS
<1> DEFINE none == [k \in Sources |-> "none"]
<1>1. Function(none, Sources) /\ none.chargers = "none"
  BY DEF Function, Sources
<1>2. ui = [uf |-> NoUF, data |-> NoUF, loading |-> FALSE, error |-> FALSE, cache |-> {}, asked |-> {},
            kept |-> none, seen |-> none, usingMock |-> FALSE, collapsed |-> FALSE, n |-> 0]
  BY DEF MapInit, PageInit
<1> HIDE DEF none
<1> QED BY <1>1, <1>2 DEF MapInv, MapFields, Function

\* The former questions are no longer waited for.
LEMMA Dropped ==
  ASSUME MapInv, NEW dropped, dropped = {[q EXCEPT !.live = FALSE] : q \in ui.asked}
  PROVE  \A q \in dropped : Function(q, {"uf", "n", "live"}) /\ q.uf \in UFs /\ ~q.live
  BY DEF MapInv, MapFields, Function

LEMMA MapStep == MapInv /\ MapNext => MapInv'
<1> SUFFICES ASSUME MapInv, MapNext PROVE MapInv'
  OBVIOUS
<1> DEFINE dropped == {[q EXCEPT !.live = FALSE] : q \in ui.asked}
<1>0. \A q \in dropped : Function(q, {"uf", "n", "live"}) /\ q.uf \in UFs /\ ~q.live
  BY Dropped
<1>1. CASE Remount
  <2>1. ui' = Mounted(ui.kept, ui)
    BY <1>1 DEF Remount, Click
  <2>2. /\ Function(ui', MapFields) /\ ui'.uf = NoUF /\ ui'.data = NoUF /\ ui'.asked = dropped
        /\ ui'.cache = ui.cache /\ ui'.kept = ui.kept
        /\ ui'.seen = [k \in Sources |-> IF k \in {"eletropostos", "frota"} THEN "none" ELSE ui.kept[k]]
    BY <2>1 DEF Mounted, MapInv, MapFields, Function
  <2> HIDE DEF dropped
  <2> QED BY <1>0, <2>2 DEF MapInv, MapFields, Function, Sources
<1>2. CASE \E uf \in UFs \cup {NoUF} : SelectUF(uf)
  <2>1. PICK uf \in UFs \cup {NoUF} : SelectUF(uf)
    BY <1>2
  <2> DEFINE new == [uf |-> uf, n |-> ui.n, live |-> TRUE]
  <2>2. /\ Function(ui', MapFields) /\ ui'.uf = uf
        /\ ui'.cache = ui.cache /\ ui'.kept = ui.kept /\ ui'.seen = ui.seen
        /\ ui'.data \in {NoUF, uf}
        /\ ui'.asked = dropped \/ (uf # NoUF /\ ui'.asked = dropped \cup {new})
    <3> DEFINE cleared == [ui EXCEPT !.uf = uf, !.asked = dropped, !.error = FALSE]
    <3>1. /\ Function(cleared, MapFields) /\ cleared.uf = uf /\ cleared.asked = dropped
          /\ cleared.cache = ui.cache /\ cleared.kept = ui.kept /\ cleared.seen = ui.seen
      BY DEF MapInv, MapFields, Function
    <3>2. ui' = IF uf = NoUF THEN [cleared EXCEPT !.data = NoUF]
                ELSE IF uf \in ui.cache THEN [cleared EXCEPT !.data = uf]
                ELSE [cleared EXCEPT !.data = NoUF, !.loading = TRUE, !.n = @ + 1, !.asked = dropped \cup {new}]
      BY <2>1 DEF SelectUF, Click
    <3> HIDE DEF cleared, dropped, new
    <3>3. CASE uf = NoUF
      BY <3>1, <3>2, <3>3 DEF MapFields, Function
    <3>4. CASE uf # NoUF /\ uf \in ui.cache
      BY <3>1, <3>2, <3>4 DEF MapFields, Function
    <3>5. CASE uf # NoUF /\ uf \notin ui.cache
      <4> DEFINE k == [cleared EXCEPT !.data = NoUF, !.loading = TRUE, !.n = @ + 1, !.asked = dropped \cup {new}]
      <4>1. /\ Function(k, MapFields) /\ k.uf = cleared.uf /\ k.cache = cleared.cache /\ k.kept = cleared.kept
            /\ k.seen = cleared.seen /\ k.data = NoUF /\ k.asked = dropped \cup {new}
        BY <3>1 DEF MapFields, Function
      <4>2. ui' = k
        BY <3>2, <3>5
      <4> HIDE DEF k
      <4> QED BY <3>1, <3>5, <4>1, <4>2 DEF MapFields, Function
    <3> QED BY <3>3, <3>4, <3>5
  <2>3. Function(new, {"uf", "n", "live"}) /\ new.uf = uf
    BY DEF MapFields, Function
  <2> HIDE DEF dropped, new
  <2>4. \A q \in ui'.asked : q \in dropped \/ (q = new /\ uf # NoUF)
    BY <2>2
  <2> QED BY <1>0, <2>2, <2>3, <2>4 DEF MapInv, MapFields, Function
<1>3. CASE \E q \in ui.asked : UFArrives(q) \/ UFFails(q)
  <2>1. PICK q \in ui.asked : UFArrives(q) \/ UFFails(q)
    BY <1>3
  <2>2. /\ Function(ui', MapFields) /\ ui'.uf = ui.uf /\ ui'.asked \subseteq ui.asked
        /\ ui'.cache \subseteq ui.cache \cup {q.uf} /\ ui'.kept = ui.kept /\ ui'.seen = ui.seen
        /\ ui'.data = ui.data \/ (q.live /\ ui'.data = q.uf)
    <3>1. CASE UFArrives(q)
      <4> DEFINE kept == [ui EXCEPT !.asked = @ \ {q}, !.cache = @ \cup {q.uf}]
      <4>1. ui' = IF q.live THEN [kept EXCEPT !.data = q.uf, !.loading = FALSE] ELSE kept
        BY <3>1 DEF UFArrives, Render
      <4>2. ui' = [ui EXCEPT !.asked = @ \ {q}, !.cache = @ \cup {q.uf},
                             !.data = IF q.live THEN q.uf ELSE @, !.loading = IF q.live THEN FALSE ELSE @]
        BY <4>1 DEF MapInv, MapFields, Function
      <4> QED BY <4>2 DEF MapInv, MapFields, Function
    <3>2. CASE UFFails(q)
      <4> DEFINE gone == [ui EXCEPT !.asked = @ \ {q}]
      <4>1. ui' = IF q.live THEN [gone EXCEPT !.error = TRUE, !.loading = FALSE] ELSE gone
        BY <3>2 DEF UFFails, Render
      <4> QED BY <4>1 DEF MapInv, MapFields, Function
    <3> QED BY <2>1, <3>1, <3>2
  <2>3. q.uf \in UFs /\ (q.live => q.uf = ui.uf)
    BY DEF MapInv
  <2> QED BY <2>2, <2>3 DEF MapInv, MapFields, Function
<1>4. CASE ChargersArrive \/ \E k \in Sources : NationalArrives(k) \/ MunicipalFileArrives(k)
  <2>1. /\ Function(ui', MapFields) /\ ui'.uf = ui.uf /\ ui'.data = ui.data /\ ui'.asked = ui.asked
        /\ ui'.cache = ui.cache
    <3>1. \/ \E x : ui' = [ui EXCEPT !.kept.chargers = x, !.seen.chargers = x, !.usingMock = x = "mock"]
          \/ \E k, x : ui' = [ui EXCEPT !.kept[k] = x, !.seen[k] = x]
      BY <1>4 DEF ChargersArrive, NationalArrives, MunicipalFileArrives, Render
    <3>2. CASE \E x : ui' = [ui EXCEPT !.kept.chargers = x, !.seen.chargers = x, !.usingMock = x = "mock"]
      BY <3>2 DEF MapInv, MapFields, Function
    <3>3. CASE \E k, x : ui' = [ui EXCEPT !.kept[k] = x, !.seen[k] = x]
      BY <3>3 DEF MapInv, MapFields, Function
    <3> QED BY <3>1, <3>2, <3>3
  <2>2. /\ Function(ui'.kept, Sources) /\ Function(ui'.seen, Sources)
        /\ ui'.kept.chargers \in {"none", "real", "mock"} /\ ui'.seen.chargers \in {"none", "real", "mock"}
    <3>1. CASE ChargersArrive
      <4>1. PICK x \in {"real", "mock"} :
              ui' = [ui EXCEPT !.kept.chargers = x, !.seen.chargers = x, !.usingMock = x = "mock"]
        BY <3>1 DEF ChargersArrive, Render
      <4>2. ui'.kept = [ui.kept EXCEPT !.chargers = x] /\ ui'.seen = [ui.seen EXCEPT !.chargers = x]
        BY <4>1 DEF MapInv, MapFields, Function
      <4> QED BY <4>2 DEF MapInv, MapFields, Function, Sources
    <3>2. CASE \E k \in Sources : NationalArrives(k) \/ MunicipalFileArrives(k)
      <4>1. PICK k \in {"ibge", "abve", "eletropostos", "frota"} :
              \E x : ui' = [ui EXCEPT !.kept[k] = x, !.seen[k] = x]
        BY <3>2 DEF NationalArrives, MunicipalFileArrives, Render
      <4>2. PICK x : ui' = [ui EXCEPT !.kept[k] = x, !.seen[k] = x]
        BY <4>1
      <4>3. ui'.kept = [ui.kept EXCEPT ![k] = x] /\ ui'.seen = [ui.seen EXCEPT ![k] = x]
        BY <4>2 DEF MapInv, MapFields, Function
      <4> QED BY <4>3 DEF MapInv, MapFields, Function, Sources
    <3> QED BY <1>4, <3>1, <3>2
  <2> QED BY <2>1, <2>2 DEF MapInv, MapFields, Function
<1>5. CASE CollapseSidebar
  BY <1>5 DEF CollapseSidebar, Click, MapInv, MapFields, Function
<1> QED BY <1>1, <1>2, <1>3, <1>4, <1>5 DEF MapNext

\* A smaller number of points leaves no smaller a share of the gap.
LEMMA ShareFalls ==
  ASSUME NEW p \in Nat, NEW q \in Nat, p <= q
  PROVE  GapScale \div (q + 1) \in Nat /\ GapScale \div (q + 1) <= GapScale \div (p + 1)
<1> DEFINE a == GapScale \div (p + 1)
           b == GapScale \div (q + 1)
<1>1. a \in Nat /\ b \in Nat /\ GapScale < (p + 1) * a + (p + 1) /\ (q + 1) * b <= GapScale
  BY DEF GapScale
<1> HIDE DEF a, b
<1>2. CASE b > a
  <2>1. (p + 1) * (a + 1) <= (q + 1) * (a + 1)
    BY <1>1, ProductGrows
  <2>2. (a + 1) * (q + 1) <= b * (q + 1)
    BY <1>1, <1>2, ProductGrows
  <2>3. (p + 1) * (a + 1) = (p + 1) * a + (p + 1) /\ (q + 1) * (a + 1) = (a + 1) * (q + 1) /\ b * (q + 1) = (q + 1) * b
    BY <1>1
  <2>4. GapScale \in Nat /\ (p + 1) * a \in Nat /\ (q + 1) * b \in Nat /\ (a + 1) * (q + 1) \in Nat
    BY <1>1 DEF GapScale
  <2> QED BY <1>1, <2>1, <2>2, <2>3, <2>4
<1> QED BY <1>1, <1>2 DEF a, b

\* The fleets and gaps of a state are numbers; a larger fleet with fewer points
\* has no smaller a gap.
LEMMA GapsRank ==
  ASSUME MapInv, NEW uf \in UFs
  PROVE  /\ IsFiniteSet(Cities[uf])
         /\ Fleets(uf) \in [Cities[uf] -> Nat] /\ Gaps(uf) \in [Cities[uf] -> Nat]
         /\ \A c, d \in Cities[uf] :
              FrotaEst(uf, c) >= FrotaEst(uf, d) /\ Points(c) <= Points(d) =>
                Fleets(uf)[d] <= Fleets(uf)[c] /\ Gaps(uf)[d] <= Gaps(uf)[c]
<1>1. /\ IsFiniteSet(Cities[uf]) /\ UfFleet[uf] \in Nat
      /\ \A c \in Cities[uf] : Pop[c] \in Nat /\ OcmCount.real[c] \in Nat /\ OcmCount.mock[c] \in Nat
  BY MapAssumption DEF UFs
<1>2. PopTotal(uf) \in Nat
  <2> DEFINE f == [c \in Cities[uf] |-> Pop[c]]
  <2>1. f \in [Cities[uf] -> Nat]
    BY <1>1
  <2> HIDE DEF f
  <2>2. SumFunction(f) \in Nat
    BY <1>1, <2>1, SumNat
  <2> QED BY <2>2 DEF PopTotal, f
<1>3. ASSUME NEW c \in Cities[uf] PROVE FrotaEst(uf, c) \in Nat
  <2>1. c \in DOMAIN Frota => Frota[c] \in Nat
    BY MapAssumption
  <2> DEFINE e == IF ui.seen.abve = "real" THEN UfFleet[uf] ELSE 0
  <2>2. e \in Nat /\ Pop[c] \in Nat
    BY <1>1
  <2>3. e * Pop[c] \in Nat
    <3> HIDE DEF e
    <3> QED BY <2>2
  <2>4. c \in DOMAIN Frota => Frota[c] * PopTotal(uf) \in Nat
    BY <1>2, <2>1
  <2> QED BY <2>3, <2>4 DEF FrotaEst
<1>4. ASSUME NEW c \in Cities[uf] PROVE Points(c) \in Nat
  <2>1. c \in DOMAIN Eletropostos => Eletropostos[c] \in Nat
    BY MapAssumption
  <2>2. ui.seen.chargers # "none" => OcmCount[ui.seen.chargers][c] \in Nat
    BY <1>1 DEF MapInv
  <2> QED BY <2>1, <2>2 DEF Points
<1> DEFINE Share(c) == GapScale \div (Points(c) + 1)
<1>5. ASSUME NEW c \in Cities[uf] PROVE Share(c) \in Nat
  <2>1. Points(c) \in Nat /\ Points(c) <= Points(c)
    BY <1>4
  <2> QED BY <2>1, ShareFalls
<1>6. ASSUME NEW c \in Cities[uf] PROVE Gap(uf, c) \in Nat /\ Gap(uf, c) = FrotaEst(uf, c) * Share(c)
  <2>1. Gap(uf, c) = FrotaEst(uf, c) * Share(c)
    BY DEF Gap
  <2> HIDE DEF Share
  <2>2. FrotaEst(uf, c) * Share(c) \in Nat
    BY <1>3, <1>5
  <2> QED BY <2>1, <2>2
<1>7. Fleets(uf) \in [Cities[uf] -> Nat] /\ Gaps(uf) \in [Cities[uf] -> Nat]
  BY <1>3, <1>6 DEF Fleets, Gaps
<1>8. ASSUME NEW c \in Cities[uf], NEW d \in Cities[uf], FrotaEst(uf, c) >= FrotaEst(uf, d), Points(c) <= Points(d)
      PROVE  Fleets(uf)[d] <= Fleets(uf)[c] /\ Gaps(uf)[d] <= Gaps(uf)[c]
  <2>1. Share(d) <= Share(c)
    BY <1>4, <1>8, ShareFalls
  <2> HIDE DEF Share
  <2> DEFINE F == FrotaEst(uf, d)
             G == FrotaEst(uf, c)
             t == Share(d)
             u == Share(c)
  <2>2. F \in Nat /\ G \in Nat /\ t \in Nat /\ u \in Nat /\ F <= G /\ t <= u
    BY <1>3, <1>5, <1>8, <2>1
  <2>3. Gap(uf, d) = F * t /\ Gap(uf, c) = G * u
    BY <1>6
  <2> HIDE DEF F, G, t, u
  <2>4. F * t <= G * t /\ t * G <= u * G /\ t * G = G * t /\ u * G = G * u
    BY <2>2, ProductGrows
  <2>5. F * t <= G * u
    <3>1. F * t \in Int /\ G * t \in Int /\ G * u \in Int
      BY <2>2
    <3> QED BY <2>4, <3>1
  <2> QED BY <1>8, <2>2, <2>3, <2>5 DEF Fleets, Gaps, F, G
<1> QED BY <1>1, <1>7, <1>8

LEMMA MapAgrees == MapInv => CitiesOfState /\ ScoresRank
<1> SUFFICES ASSUME MapInv PROVE CitiesOfState /\ ScoresRank
  OBVIOUS
<1>1. CitiesOfState
  BY DEF MapInv, CitiesOfState
<1>2. ScoresRank
  <2> SUFFICES ASSUME ui.data # NoUF, NEW c \in Cities[ui.data], NEW d \in Cities[ui.data]
               PROVE  /\ Score(ui.data, c) \in 0..ScoreOne(ui.data)
                      /\ FrotaEst(ui.data, c) >= FrotaEst(ui.data, d) /\ Points(c) <= Points(d) =>
                           Score(ui.data, c) >= Score(ui.data, d)
    BY DEF ScoresRank, Scored
  <2> DEFINE uf == ui.data
             f == Fleets(uf)
             g == Gaps(uf)
             fc == Above(f, c)
             gc == Above(g, c)
             fd == Above(f, d)
             gd == Above(g, d)
             sf == OrOne(Spread(f))
             sg == OrOne(Spread(g))
  <2>1. uf \in UFs
    BY DEF MapInv
  <2>2. IsFiniteSet(Cities[uf]) /\ f \in [Cities[uf] -> Nat] /\ g \in [Cities[uf] -> Nat]
    BY <2>1, GapsRank
  <2>3. FrotaEst(uf, c) >= FrotaEst(uf, d) /\ Points(c) <= Points(d) => f[d] <= f[c] /\ g[d] <= g[c]
    BY <2>1, GapsRank
  <2>4. fc \in Nat /\ fd \in Nat /\ Spread(f) \in Nat /\ fc <= Spread(f) /\ (f[d] <= f[c] => fd <= fc)
    <3> HIDE DEF f, g
    <3> QED BY <2>2, AboveInSpread
  <2>5. gc \in Nat /\ gd \in Nat /\ Spread(g) \in Nat /\ gc <= Spread(g) /\ (g[d] <= g[c] => gd <= gc)
    <3> HIDE DEF f, g
    <3> QED BY <2>2, AboveInSpread
  <2>6. sf \in Nat /\ sg \in Nat /\ fc <= sf /\ gc <= sg
    BY <2>4, <2>5 DEF OrOne
  <2>7. /\ Score(uf, c) = fc * sg + 2 * gc * sf /\ Score(uf, d) = fd * sg + 2 * gd * sf
        /\ ScoreOne(uf) = 3 * sf * sg
    BY DEF Score, ScoreOne
  <2> HIDE DEF f, g, fc, gc, fd, gd, sf, sg
  <2>8. fc * sg <= sf * sg /\ gc * sf <= sg * sf /\ sg * sf = sf * sg
    BY <2>4, <2>5, <2>6, ProductGrows
  <2>9. fd <= fc /\ gd <= gc => fd * sg <= fc * sg /\ gd * sf <= gc * sf
    BY <2>4, <2>5, <2>6, ProductGrows
  <2>10. /\ 2 * gc * sf = 2 * (gc * sf) /\ 2 * gd * sf = 2 * (gd * sf) /\ 3 * sf * sg = 3 * (sf * sg)
         /\ fc * sg \in Nat /\ gc * sf \in Nat /\ fd * sg \in Nat /\ gd * sf \in Nat /\ sf * sg \in Nat
    BY <2>4, <2>5, <2>6
  <2> DEFINE a == fc * sg
             b == gc * sf
             a2 == fd * sg
             b2 == gd * sf
             one == sf * sg
  <2>11. /\ Score(uf, c) = a + 2 * b /\ Score(uf, d) = a2 + 2 * b2 /\ ScoreOne(uf) = 3 * one
         /\ a <= one /\ b <= one /\ a \in Nat /\ b \in Nat /\ a2 \in Nat /\ b2 \in Nat /\ one \in Nat
    BY <2>7, <2>8, <2>10
  <2>12. FrotaEst(uf, c) >= FrotaEst(uf, d) /\ Points(c) <= Points(d) => a2 <= a /\ b2 <= b
    BY <2>3, <2>4, <2>5, <2>9
  <2> HIDE DEF a, b, a2, b2, one
  <2> QED BY <2>11, <2>12
<1> QED BY <1>1, <1>2
-----------------------------------------------------------------------------
(* The investments per charger *)

\* The badge says that the CAPEX has come back.
PaidBack(r) == StatusBadge(r) = "Payback atingido"

LEMMA BadgeTells == ASSUME NEW r PROVE PaidBack(r) => Cumulative(r) >= 0
BY Zenon DEF PaidBack, StatusBadge

\* The figures of a record are numbers, and its badge and its bar agree.
LEMMA CardTells ==
  ASSUME NEW r \in Investments
  PROVE  /\ Net(r) \in Int /\ Cumulative(r) \in Int /\ r.capex \in Nat
         /\ r.capex > 0 =>
              /\ PaidBack(r) => ProgressPct(r) = 1000
              /\ ProgressPct(r) = 1000 => 2000 * Net(r) >= 1999 * r.capex
<1>1. /\ r.capex \in Nat /\ r.months \in Nat /\ r.opex \in 0..100 /\ r.tax \in 0..100
      /\ r.station \in BOOLEAN /\ r.revenue \in Nat /\ r.recent \in Nat /\ r.estimate \in Nat
  BY CapexAssumption
<1>2. Revenue(r) \in Nat
  <2>1. r.estimate * r.months \in Nat
    BY <1>1
  <2> DEFINE e == r.estimate * r.months
  <2>2. e \div 10 \in Nat
    <3> HIDE DEF e
    <3> QED BY <2>1 DEF e
  <2>3. Revenue(r) \in {r.revenue, e \div 10, 0}
    <3>1. Revenue(r) = CASE Source(r) = "sessions" -> r.revenue
                         [] Source(r) = "estimate" -> e \div 10
                         [] OTHER -> 0
      BY DEF Revenue
    <3> HIDE DEF e
    <3> QED BY ONLY <3>1
  <2> HIDE DEF e
  <2> QED BY <1>1, <2>2, <2>3
<1> DEFINE margin == 100 - r.opex - r.tax
           gain == Revenue(r) * margin
<1>3. margin \in Int
  <2>1. r.opex \in 0..100 /\ r.tax \in 0..100
    BY ONLY <1>1
  <2>2. \A a, b \in 0..100 : 100 - a - b \in Int
    OBVIOUS
  <2> QED BY ONLY <2>1, <2>2, Zenon
<1>4. gain \in Int
  <2> HIDE DEF margin
  <2> QED BY <1>2, <1>3
<1>5. Net(r) = gain \div 100
  BY DEF Net
<1> HIDE DEF gain, margin
<1>6. Net(r) \in Int
  BY <1>4, <1>5
<1> DEFINE n == Net(r)
           c == r.capex
<1>7. n \in Int /\ c \in Nat /\ Cumulative(r) = n - c
  BY <1>1, <1>6 DEF Cumulative
<1> SUFFICES ASSUME c > 0
             PROVE  /\ PaidBack(r) => ProgressPct(r) = 1000
                    /\ ProgressPct(r) = 1000 => 2000 * n >= 1999 * c
  BY <1>7
<1> DEFINE part == (2 * 1000 * n + c) \div (2 * c)
<1>8. part \in Int /\ (part >= 1000 <=> 2000 * n >= 1999 * c)
  <2> HIDE DEF n, c
  <2> DEFINE a == 2 * 1000 * n + c
             d == 2 * c
  <2>1. a \in Int /\ d \in Nat \ {0} /\ a = 2000 * n + c /\ d * 1000 = 2000 * c
    BY <1>7
  <2> HIDE DEF a, d
  <2>2. a \div d \in Int /\ (a \div d >= 1000 <=> a >= d * 1000)
    BY <2>1, DivBetween
  <2>3. a >= d * 1000 <=> 2000 * n >= 1999 * c
    BY <1>7, <2>1
  <2> QED BY <2>2, <2>3 DEF a, d
<1>9. ProgressPct(r) = IF Rate(r) > 0 /\ n - c >= 0 THEN 1000
                       ELSE IF c > 0 /\ (Rate(r) > 0 \/ n > 0) THEN (IF part < 1000 THEN part ELSE 1000)
                       ELSE 0
  <2>1. ProgressPct(r) = IF Rate(r) > 0 /\ Cumulative(r) >= 0 THEN 1000
                         ELSE IF c > 0 /\ (Rate(r) > 0 \/ n > 0) THEN (IF part < 1000 THEN part ELSE 1000)
                         ELSE 0
    BY DEF ProgressPct
  <2>2. Cumulative(r) = n - c
    BY <1>7
  <2> QED BY ONLY <2>1, <2>2
<1>10. PaidBack(r) => n - c >= 0
  BY <1>7, BadgeTells
<1> HIDE DEF part, n, c
<1> QED BY <1>7, <1>8, <1>9, <1>10

\* Records whose fields hold what a record may hold.
Records(rows) == IsFiniteSet(DOMAIN rows) /\ Function(rows, DOMAIN rows) /\ \A i \in DOMAIN rows : rows[i] \in Investments

\* Every record that is held, shown, read, edited or on its way is one.
CapexRecords ==
  /\ Function(server, {"capex"}) /\ Function(shown, {"capex"}) /\ Function(reading, {"capex"})
  /\ Records(server.capex) /\ Records(shown.capex) /\ Records(reading.capex)
  /\ ui.form.values \in Investments
  /\ \A q \in Reqs : q.op = "save" => q.values \in Investments

LEMMA CapexStart == ASSUME NEW first \in SUBSET CapexRows, CapexInit(first) PROVE CapexRecords
<1> DEFINE one == CHOOSE r \in Investments : TRUE
           rows == [i \in first |-> one]
<1>1. one \in Investments
  BY CapexAssumption
<1>2. IsFiniteSet(first)
  BY CapexAssumption, FS_Subset
<1>3. Records(rows)
  BY <1>1, <1>2 DEF Records, Function
<1>4. /\ server = [capex |-> rows] /\ shown = [capex |-> rows] /\ reading = [capex |-> rows]
      /\ writes = <<>> /\ ui.form = [values |-> one, named |-> FALSE, of |-> NoRecord]
  BY DEF CapexInit, PageInit, EmptyForm
<1>5. Reqs = {}
  BY <1>4, NoRequests
<1> HIDE DEF one, rows
<1> QED BY <1>1, <1>3, <1>4, <1>5 DEF CapexRecords, Function

LEMMA CapexServed ==
  ASSUME CapexRecords, NEW q \in Reqs, CapexAllowed(q)
  PROVE  Function(CapexEffect(q), {"capex"}) /\ Records(CapexEffect(q).capex)
<1> DEFINE rows == server.capex
<1>0. Records(rows) /\ Function(server, {"capex"})
  BY DEF CapexRecords
<1>1. CASE q.op = "save" /\ (q.new \/ q.row \in DOMAIN rows)
  <2> DEFINE new == [i \in DOMAIN rows \cup {q.row} |-> IF i = q.row THEN q.values ELSE rows[i]]
  <2>1. CapexEffect(q) = [server EXCEPT !.capex = new]
    BY <1>1 DEF CapexEffect
  <2>2. Records(new)
    <3>1. IsFiniteSet(DOMAIN rows \cup {q.row})
      BY <1>0, FS_AddElement DEF Records
    <3> QED BY <1>0, <1>1, <3>1 DEF Records, CapexRecords, Function
  <2> HIDE DEF new, rows
  <2> QED BY <1>0, <2>1, <2>2 DEF Function
<1>2. CASE q.op = "delete"
  <2> DEFINE new == [i \in DOMAIN rows \ {q.row} |-> rows[i]]
  <2>1. CapexEffect(q) = [server EXCEPT !.capex = new]
    BY <1>2 DEF CapexEffect
  <2>2. Records(new)
    <3>1. IsFiniteSet(DOMAIN rows \ {q.row})
      BY <1>0, FS_RemoveElement DEF Records
    <3> QED BY <1>0, <3>1 DEF Records, Function
  <2> HIDE DEF new, rows
  <2> QED BY <1>0, <2>1, <2>2 DEF Function
<1>3. CASE ~(q.op = "save" /\ (q.new \/ q.row \in DOMAIN rows)) /\ q.op # "delete"
  <2>1. CapexEffect(q) = server
    BY <1>3 DEF CapexEffect
  <2> QED BY <1>0, <2>1
<1> QED BY <1>1, <1>2, <1>3

LEMMA CapexStep == CapexBusy /\ CapexForms /\ CapexRecords /\ CapexNext => CapexRecords'
<1> SUFFICES ASSUME CapexBusy, CapexForms, CapexRecords, CapexNext PROVE CapexRecords'
  OBVIOUS
<1>0. /\ Shaped /\ DOMAIN ui = {"showForm", "editId", "form", "saving", "deleting"}
      /\ DOMAIN ui.form = {"values", "named", "of"}
  BY DEF CapexBusy, CapexForms
<1>1. ASSUME UNCHANGED <<server, shown, reading>>, ui'.form.values \in Investments,
             \A q \in Reqs' : q \in Reqs \/ q.op # "save" \/ q.values \in Investments
      PROVE  CapexRecords'
  BY <1>1 DEF CapexRecords
<1>2. CASE OpenAdd \/ EditForm \/ CloseForm \/ \E i \in CapexRows : OpenCapex(i)
  <2>1. UNCHANGED <<server, shown, reading, writes>>
    BY <1>2 DEF OpenAdd, EditForm, CloseForm, OpenCapex, Click
  <2>2. ui'.form.values \in Investments
    <3>1. CASE OpenAdd
      <4>1. EmptyForm.values \in Investments
        BY CapexAssumption DEF EmptyForm
      <4>2. ui'.form = EmptyForm
        BY <1>0, <3>1 DEF OpenAdd, Click
      <4> QED BY <4>1, <4>2
    <3>2. CASE EditForm
      <4>1. PICK r \in Investments : ui' = [ui EXCEPT !.form = [@ EXCEPT !.values = r, !.named = TRUE]]
        BY <3>2 DEF EditForm, Click
      <4>2. ui'.form = [ui.form EXCEPT !.values = r, !.named = TRUE]
        BY <1>0, <4>1
      <4> QED BY <1>0, <4>2
    <3>3. CASE CloseForm
      BY <1>0, <3>3 DEF CloseForm, Click, CapexRecords
    <3>4. CASE \E i \in CapexRows : OpenCapex(i)
      <4>1. PICK i \in CapexRows : OpenCapex(i)
        BY <3>4
      <4>2. i \in DOMAIN shown.capex /\ ui'.form.values = shown.capex[i]
        BY <1>0, <4>1 DEF OpenCapex, Click
      <4> QED BY <4>2 DEF CapexRecords, Records
    <3> QED BY <1>2, <3>1, <3>2, <3>3, <3>4
  <2> QED BY <1>0, <1>1, <2>1, <2>2, Waits DEF Idle
<1>3. CASE HandleSave
  <2>1. PICK row : Post([op |-> "save", row |-> row, new |-> ui.editId = NoRecord, values |-> ui.form.values], FALSE, [ui EXCEPT !.saving = TRUE])
    BY <1>3 DEF HandleSave, Send
  <2> DEFINE r == [op |-> "save", row |-> row, new |-> ui.editId = NoRecord, values |-> ui.form.values]
  <2>2. Post(r, FALSE, [ui EXCEPT !.saving = TRUE]) /\ r.values \in Investments
    BY <2>1 DEF CapexRecords
  <2> HIDE DEF r
  <2>3. Asks(r) /\ ui' = [ui EXCEPT !.saving = TRUE]
    BY <1>0, <2>2, Sends
  <2>4. UNCHANGED <<server, shown, reading>>
    BY <2>2 DEF Post
  <2>5. ui'.form = ui.form
    BY <1>0, <2>3
  <2> QED BY <1>1, <2>2, <2>3, <2>4, <2>5 DEF Asks, CapexRecords
<1>4. ASSUME NEW i, HandleDelete(i) PROVE CapexRecords'
  <2> DEFINE r == [op |-> "delete", row |-> i]
  <2>2. Post(r, FALSE, [ui EXCEPT !.deleting = i]) /\ r.op = "delete"
    BY <1>4 DEF HandleDelete, Send
  <2> HIDE DEF r
  <2>3. Asks(r) /\ ui' = [ui EXCEPT !.deleting = i]
    BY <1>0, <2>2, Sends
  <2>4. UNCHANGED <<server, shown, reading>>
    BY <2>2 DEF Post
  <2>5. ui'.form = ui.form
    BY <1>0, <2>3
  <2> QED BY <1>1, <2>2, <2>3, <2>4, <2>5 DEF Asks, CapexRecords
<1>5. CASE ServeAllowed(CapexAllowed, CapexEffect)
  <2>1. PICK i \in DOMAIN writes, ok \in BOOLEAN :
           /\ writes[i].at = "sent" /\ (ok => CapexAllowed(writes[i].req))
           /\ writes' = [writes EXCEPT ![i].at = "served", ![i].ok = ok]
           /\ server' = IF ok THEN CapexEffect(writes[i].req) ELSE server
    BY <1>5 DEF ServeAllowed
  <2>2. Idle
    BY <1>0, <2>1, AnswerBack
  <2> DEFINE q == writes[i].req
  <2>3. q \in Reqs
    BY DEF Reqs
  <2>4. Function(server', {"capex"}) /\ Records(server'.capex)
    <3>1. CASE ok
      <4>1. CapexAllowed(q) /\ server' = CapexEffect(q)
        BY <2>1, <3>1
      <4> HIDE DEF q
      <4> QED BY <2>3, <4>1, CapexServed
    <3>2. CASE ~ok
      BY <2>1, <3>2 DEF CapexRecords
    <3> QED BY <3>1, <3>2
  <2>5. UNCHANGED <<shown, reading, ui>>
    BY <1>5 DEF ServeAllowed
  <2> QED BY <2>2, <2>4, <2>5 DEF CapexRecords, Idle
<1>6. CASE FetchRead("capex")
  <2>1. UNCHANGED <<server, shown, writes, ui>> /\ reading' = [reading EXCEPT !.capex = server.capex]
    BY <1>6 DEF FetchRead
  <2>2. Reqs' = Reqs
    BY <1>0, <2>1, Waits DEF Idle
  <2> QED BY <2>1, <2>2 DEF CapexRecords, Function
<1>7. CASE FetchShown("capex", NoEffect)
  <2>1. UNCHANGED <<server, reading, writes, ui>> /\ shown' = [shown EXCEPT !.capex = reading.capex]
    BY <1>7 DEF FetchShown, NoEffect
  <2>2. Reqs' = Reqs
    BY <1>0, <2>1, Waits DEF Idle
  <2> QED BY <2>1, <2>2 DEF CapexRecords, Function
<1>8. CASE Answered(CapexFields, CapexStale)
  <2>1. PICK q, ok : Ends(q) /\ ui' = CapexFields(q, ok)
    BY <1>0, <1>8, Handled DEF Answered
  <2>2. UNCHANGED <<server, shown, reading>>
    BY <1>8 DEF Answered
  <2>3. ui'.form = ui.form
    BY <1>0, <2>1 DEF CapexFields
  <2> QED BY <1>1, <2>1, <2>2, <2>3 DEF Ends, CapexRecords
<1> QED BY <1>2, <1>3, <1>4, <1>5, <1>6, <1>7, <1>8 DEF CapexNext

LEMMA CapexAgrees == CapexRecords => CardsAgree
<1> SUFFICES ASSUME CapexRecords PROVE CardsAgree
  OBVIOUS
<1> DEFINE rows == shown.capex
           R == DOMAIN rows
<1>1. IsFiniteSet(R) /\ \A i \in R : rows[i] \in Investments
  BY DEF CapexRecords, Records
<1>2. \A i \in R : rows[i].capex > 0 =>
        /\ PaidBack(rows[i]) => ProgressPct(rows[i]) = 1000
        /\ ProgressPct(rows[i]) = 1000 => 2000 * Net(rows[i]) >= 1999 * rows[i].capex
  BY <1>1, CardTells
<1>3. TotalCapex > 0 => (Recovered = 1000 <=> TotalOf(Cumulative) >= 0)
  <2> DEFINE f == [i \in R |-> Cumulative(rows[i])]
             g == [i \in R |-> Net(rows[i])]
             h == [i \in R |-> rows[i].capex]
  <2>1. f \in [R -> Int] /\ g \in [R -> Int] /\ h \in [R -> Int] /\ \A i \in R : f[i] = g[i] - h[i]
    BY <1>1, CardTells DEF Cumulative
  <2>2. TotalOf(Cumulative) = SumFunction(f) /\ TotalOf(Net) = SumFunction(g) /\ TotalCapex = SumFunction(h)
    BY DEF TotalOf, TotalCapex
  <2> HIDE DEF f, g, h, R
  <2>3. /\ SumFunction(f) \in Int /\ SumFunction(g) \in Int /\ SumFunction(h) \in Int
        /\ SumFunction(f) = SumFunction(g) - SumFunction(h)
    BY <1>1, <2>1, SumDifference
  <2> DEFINE N == TotalOf(Net)
             T == TotalCapex
             part == (1000 * N) \div T
  <2>4. N \in Int /\ T \in Int /\ TotalOf(Cumulative) = N - T
    BY <2>2, <2>3
  <2>5. Recovered = IF T = 0 THEN 0 ELSE IF part < 1000 THEN part ELSE 1000
    BY DEF Recovered
  <2> HIDE DEF N, T
  <2> SUFFICES ASSUME T > 0 PROVE Recovered = 1000 <=> N - T >= 0
    BY <2>4 DEF T
  <2>6. part \in Int /\ (part >= 1000 <=> 1000 * N >= T * 1000)
    <3>1. 1000 * N \in Int /\ T \in Nat \ {0}
      BY <2>4
    <3> QED BY <3>1, DivBetween
  <2> HIDE DEF part
  <2> QED BY <2>4, <2>5, <2>6
<1> QED BY <1>2, <1>3, Zenon DEF CardsAgree, PaidBack

-----------------------------------------------------------------------------
(* The leads *)

\* A finite set of numbers has an element with any smaller number of elements below.
LEMMA Ranked ==
  ASSUME NEW S \in SUBSET Nat, IsFiniteSet(S), NEW k \in Nat, k < Cardinality(S)
  PROVE  \E h \in S : Cardinality({x \in S : x < h}) = k
<1> DEFINE Good == {u \in SUBSET S : \A n \in Nat : n < Cardinality(u) =>
                      \E h \in u : Cardinality({x \in u : x < h}) = n}
<1>1. \A u \in SUBSET S : IsFiniteSet(u) /\ Cardinality(u) \in Nat
  BY FS_Subset, FS_CardinalityType
<1>2. {} \in Good
  BY FS_EmptySet
<1>3. ASSUME NEW u \in SUBSET S, u # {}, \A x \in u : u \ {x} \in Good PROVE u \in Good
  <2> DEFINE top == Max(u)
             rest == u \ {top}
  <2>1. top \in u /\ \A x \in u : x <= top
    <3>1. u \in SUBSET Nat /\ IsFiniteSet(u)
      BY <1>1
    <3> QED BY <1>3, <3>1, NatMinMax
  <2> HIDE DEF top
  <2>2. rest \in Good /\ Cardinality(rest) = Cardinality(u) - 1
    BY <1>1, <1>3, <2>1, FS_RemoveElement
  <2>3. ASSUME NEW n \in Nat, n < Cardinality(u) PROVE \E h \in u : Cardinality({x \in u : x < h}) = n
    <3>1. CASE n = Cardinality(u) - 1
      <4>1. {x \in u : x < top} = rest
        <5>1. \A x \in u : x \in Nat /\ (x < top <=> x # top)
          BY <2>1
        <5> QED BY <5>1
      <4> QED BY <2>1, <2>2, <3>1, <4>1
    <3>2. CASE n < Cardinality(u) - 1
      <4>1. PICK h \in rest : Cardinality({x \in rest : x < h}) = n
        BY <2>2, <3>2
      <4>2. {x \in rest : x < h} = {x \in u : x < h}
        <5>1. h \in Nat /\ top \in Nat /\ h <= top
          BY <2>1, <4>1
        <5> QED BY <5>1
      <4> QED BY <4>1, <4>2
    <3> QED BY <1>1, <2>3, <3>1, <3>2
  <2> QED BY <2>3
<1> HIDE DEF Good
<1>4. S \in Good
  BY <1>2, <1>3, SetInduction
<1> QED BY <1>4 DEF Good

\* What each day counts adds up to what the days count together.
LEMMA DaysAddUp ==
  ASSUME NEW D, IsFiniteSet(D), NEW A, IsFiniteSet(A),
         NEW f, f = [d \in D |-> Cardinality({h \in A : UtcDay(h) = d})]
  PROVE  SumFunction(f) = Cardinality({h \in A : UtcDay(h) \in D})
<1>1. PICK F : IsSum(F, D, f) /\ SumFunction(f) = F[D]
  BY SumIs
<1> DEFINE On(u) == {h \in A : UtcDay(h) \in u}
           Good == {u \in SUBSET D : F[u] = Cardinality(On(u))}
<1>2. \A u : IsFiniteSet(On(u)) /\ Cardinality(On(u)) \in Nat
  BY FS_Subset, FS_CardinalityType
<1>3. {} \in Good
  <2>1. On({}) = {}
    OBVIOUS
  <2>2. F[{}] = 0
    BY <1>1, SumAt
  <2>3. Cardinality(On({})) = 0
    BY <2>1, FS_EmptySet
  <2> HIDE DEF On
  <2> QED BY <2>2, <2>3
<1>4. ASSUME NEW u \in SUBSET D, u # {}, \A x \in u : u \ {x} \in Good PROVE u \in Good
  <2>1. PICK x \in u : F[u] = f[x] + F[u \ {x}]
    <3> DEFINE x == CHOOSE x \in u : TRUE
    <3>1. F[u] = f[x] + F[u \ {x}]
      BY <1>1, <1>4, SumAt
    <3>2. x \in u
      BY <1>4
    <3> HIDE DEF x
    <3> QED BY ONLY <3>1, <3>2
  <2>2. F[u \ {x}] = Cardinality(On(u \ {x}))
    BY <1>4
  <2>3. f[x] = Cardinality(On({x}))
    <3>1. On({x}) = {h \in A : UtcDay(h) = x}
      OBVIOUS
    <3> QED BY <3>1
  <2>4. On(u) = On({x}) \cup On(u \ {x}) /\ On({x}) \cap On(u \ {x}) = {}
    OBVIOUS
  <2> HIDE DEF On
  <2>5. Cardinality(On(u)) = Cardinality(On({x})) + Cardinality(On(u \ {x}))
    <3>1. Cardinality(On({x}) \cup On(u \ {x})) =
            Cardinality(On({x})) + Cardinality(On(u \ {x})) - Cardinality(On({x}) \cap On(u \ {x}))
      BY <1>2, FS_Union
    <3>2. Cardinality(On({x}) \cap On(u \ {x})) = 0
      BY <2>4, FS_EmptySet
    <3> DEFINE a == Cardinality(On({x}))
               b == Cardinality(On(u \ {x}))
    <3>3. a \in Nat /\ b \in Nat
      BY <1>2
    <3>4. Cardinality(On(u)) = a + b - 0
      BY ONLY <2>4, <3>1, <3>2
    <3> HIDE DEF a, b
    <3>5. a + b - 0 = a + b
      BY <3>3
    <3> QED BY <3>4, <3>5 DEF a, b
  <2> QED BY <2>1, <2>2, <2>3, <2>5
<1> HIDE DEF Good, On
<1>5. D \in Good
  BY <1>3, <1>4, SetInduction
<1> QED BY <1>1, <1>5 DEF Good, On

LeadTables == {"leads", "emails", "config"}

\* The period and the dates the user chose.
Dated(u) == u.period \in Periods /\ u.customFrom \in Int \cup {NoOne} /\ u.customTo \in Int \cup {NoOne}

\* Whatever is saved, the leads stay, and the page that is open has rows.
LeadsInv ==
  /\ Function(server, LeadTables) /\ Function(shown, LeadTables) /\ Function(reading, LeadTables)
  /\ server.leads \in LeadSets /\ shown.leads = server.leads /\ reading.leads = server.leads
  /\ Dated(ui)
  /\ ui.leadsPage \in Nat
  /\ ui.leadsPage > 0 => ui.leadsPage * LEADS_PER_PAGE < Cardinality(Filtered(ui))

LEMMA LeadsStart == ASSUME NEW leads \in LeadSets, LeadsInit(leads) PROVE LeadsInv
<1> DEFINE blank == ""
           states == [e \in EmailIds |-> {}]
           config == [price |-> "old", opex |-> "old"]
<1>1. ui = [filter |-> blank, search |-> blank, leadsPage |-> 0, period |-> "month",
            customFrom |-> NoOne, customTo |-> NoOne, addingEmail |-> FALSE, expanded |-> NoOne, editingStates |-> states,
            savingEmail |-> NoOne, editingConfig |-> FALSE, draft |-> config, savingConfig |-> FALSE]
  BY Zenon DEF LeadsInit, PageInit
<1>2. LET tables == [leads |-> leads, emails |-> states, config |-> config]
      IN  server = tables /\ shown = tables /\ reading = tables
  BY Zenon DEF LeadsInit, PageInit
<1> HIDE DEF blank, states, config
<1> QED BY <1>1, <1>2 DEF LeadsInv, LeadTables, Function, Dated, Periods

LEMMA FilteredFinite ==
  ASSUME LeadsInv
  PROVE  Filtered(ui) \in SUBSET Nat /\ IsFiniteSet(Filtered(ui)) /\ Cardinality(Filtered(ui)) \in Nat
<1>1. shown.leads \in SUBSET Nat /\ IsFiniteSet(shown.leads)
  BY LeadsAssumption DEF LeadsInv
<1>2. Filtered(ui) \in SUBSET shown.leads
  BY DEF Filtered, Matching
<1> QED BY <1>1, <1>2, FS_Subset, FS_CardinalityType

LEMMA LeadsEffectKeepsLeads ==
  ASSUME Function(server, LeadTables), NEW q
  PROVE  Function(LeadsEffect(q), LeadTables) /\ LeadsEffect(q).leads = server.leads
<1>1. CASE q.op = "states" /\ q.email \in DOMAIN server.emails
  BY <1>1 DEF LeadsEffect, LeadTables, Function
<1>2. CASE q.op = "addEmail"
  <2> DEFINE x == [e \in DOMAIN server.emails \cup {q.email} |-> IF e = q.email THEN {} ELSE server.emails[e]]
  <2>1. LeadsEffect(q) = [server EXCEPT !.emails = x]
    BY <1>2 DEF LeadsEffect
  <2> HIDE DEF x
  <2> QED BY <2>1 DEF LeadTables, Function
<1>3. CASE q.op = "removeEmail"
  <2> DEFINE x == [e \in DOMAIN server.emails \ {q.email} |-> server.emails[e]]
  <2>1. LeadsEffect(q) = [server EXCEPT !.emails = x]
    BY <1>3 DEF LeadsEffect
  <2> HIDE DEF x
  <2> QED BY <2>1 DEF LeadTables, Function
<1>4. CASE q.op = "config"
  BY <1>4 DEF LeadsEffect, LeadTables, Function
<1>5. CASE /\ ~(q.op = "states" /\ q.email \in DOMAIN server.emails)
           /\ q.op \notin {"addEmail", "removeEmail", "config"}
  <2>1. LeadsEffect(q) = server
    BY <1>5 DEF LeadsEffect
  <2> QED BY <2>1
<1> QED BY <1>1, <1>2, <1>3, <1>4, <1>5

\* u agrees with the page in what the list and the trend depend on.
SamePeriod(u) == u.period = ui.period /\ u.customFrom = ui.customFrom /\ u.customTo = ui.customTo
SameList(u) == u.filter = ui.filter /\ u.search = ui.search /\ u.leadsPage = ui.leadsPage /\ SamePeriod(u)

LEMMA LeadsStep == LeadsBusy /\ LeadsInv /\ LeadsNext => LeadsInv'
<1> SUFFICES ASSUME LeadsBusy, LeadsInv, LeadsNext PROVE LeadsInv'
  OBVIOUS
<1>0. DOMAIN ui = {"filter", "search", "leadsPage", "period", "customFrom", "customTo", "addingEmail",
                   "expanded", "editingStates", "savingEmail", "editingConfig", "draft", "savingConfig"}
  BY DEF LeadsBusy
<1> DEFINE Tabled == /\ Function(server', LeadTables) /\ Function(shown', LeadTables) /\ Function(reading', LeadTables)
                     /\ server'.leads = server.leads /\ shown'.leads = shown.leads /\ reading'.leads = reading.leads
           L == LEADS_PER_PAGE
           n == Cardinality(Filtered(ui))
           p == ui.leadsPage
<1>1. ASSUME UNCHANGED <<server, shown, reading>> PROVE Tabled
  BY <1>1 DEF LeadsInv
<1>2. ASSUME Tabled, Dated(ui'), ui'.leadsPage \in Nat,
             ui'.leadsPage > 0 => ui'.leadsPage * L < Cardinality(Filtered(ui)')
      PROVE  LeadsInv'
  BY <1>2 DEF LeadsInv
<1>3. ASSUME Tabled, SameList(ui') PROVE LeadsInv'
  <2>1. Filtered(ui)' = Filtered(ui)
    BY <1>3 DEF Filtered, SameList
  <2> QED BY <1>2, <1>3, <2>1 DEF LeadsInv, SameList, SamePeriod, Dated
<1>4. L \in Nat \ {0} /\ n \in Nat /\ p \in Nat
  BY FilteredFinite, LeadsAssumption DEF LeadsInv
<1> HIDE DEF Tabled, n, p, L
<1>5. CASE SetFilter \/ SetSearch
  <2>1. UNCHANGED <<server, shown, reading>>
    BY <1>5 DEF SetFilter, SetSearch, Click
  <2>2. PICK f, u : ui' = ResetPage(u) /\ (\/ u = [ui EXCEPT !.filter = f] /\ f # ui.filter
                                           \/ u = [ui EXCEPT !.search = f] /\ f # ui.search)
    BY <1>5 DEF SetFilter, SetSearch, Click
  <2>3. u.filter # ui.filter \/ u.search # ui.search
    BY <1>0, <2>2
  <2>4. ui' = [u EXCEPT !.leadsPage = 0]
    BY <2>2, <2>3 DEF ResetPage
  <2>5. DOMAIN u = DOMAIN ui /\ SamePeriod(u)
    BY <1>0, <2>2 DEF SamePeriod
  <2>6. ui'.leadsPage = 0 /\ SamePeriod(ui')
    BY <1>0, <2>4, <2>5 DEF SamePeriod
  <2>7. Tabled
    BY <1>1, <2>1
  <2> QED BY <1>2, <2>6, <2>7 DEF LeadsInv, SamePeriod, Dated
<1>6. CASE PreviousPage
  <2>1. UNCHANGED <<server, shown, reading>> /\ ui' = [ui EXCEPT !.leadsPage = p - 1] /\ p > 0
    BY <1>6 DEF PreviousPage, Click, p
  <2>2. ui'.leadsPage = p - 1 /\ SamePeriod(ui') /\ ui'.filter = ui.filter /\ ui'.search = ui.search
    BY <1>0, <2>1 DEF SamePeriod
  <2>3. Filtered(ui)' = Filtered(ui)
    BY <2>1, <2>2 DEF Filtered
  <2>4. (p - 1) * L < n
    <3>1. p * L < n
      BY <2>1 DEF LeadsInv, p, L, n
    <3>2. (p - 1) * L <= p * L
      BY <1>4, ProductGrows
    <3>3. (p - 1) * L \in Int /\ p * L \in Int
      BY <1>4
    <3> QED BY <1>4, <3>1, <3>2, <3>3
  <2> QED BY <1>1, <1>2, <1>4, <2>1, <2>2, <2>3, <2>4 DEF LeadsInv, n, SamePeriod, Dated
<1>7. CASE NextPage
  <2>1. UNCHANGED <<server, shown, reading>> /\ ui' = [ui EXCEPT !.leadsPage = p + 1]
    BY <1>7 DEF NextPage, Click, p
  <2>2. ui'.leadsPage = p + 1 /\ SamePeriod(ui') /\ ui'.filter = ui.filter /\ ui'.search = ui.search
    BY <1>0, <2>1 DEF SamePeriod
  <2>3. Filtered(ui)' = Filtered(ui)
    BY <2>1, <2>2 DEF Filtered
  <2>4. (p + 1) * L < n
    <3>1. p < (n + L - 1) \div L - 1
      BY <1>7 DEF NextPage, TotalLeadsPages, p, n, L
    <3>2. n + L - 1 \in Int /\ p + 2 \in Int
      BY <1>4
    <3>3. (n + L - 1) \div L \in Int /\ ((n + L - 1) \div L >= p + 2 <=> n + L - 1 >= L * (p + 2))
      BY <1>4, <3>2, DivBetween
    <3>4. n + L - 1 >= L * (p + 2)
      BY <1>4, <3>1, <3>3
    <3>5. L * (p + 2) = (p + 1) * L + L /\ (p + 1) * L \in Int
      BY <1>4
    <3> QED BY <1>4, <3>4, <3>5
  <2> QED BY <1>1, <1>2, <1>4, <2>1, <2>2, <2>3, <2>4 DEF LeadsInv, n, SamePeriod, Dated
<1>8. CASE SetPeriod \/ SetDates
  <2>0. Today \in Int
    BY LeadsAssumption DEF Today
  <2>1. PICK u : /\ Click(u)
                  /\ \/ \E x \in Periods : u = [ui EXCEPT !.period = x]
                     \/ \E x \in Int \cup {NoOne} : u \in {[ui EXCEPT !.customFrom = x], [ui EXCEPT !.customTo = x]}
    <3>1. CASE SetPeriod
      BY <3>1 DEF SetPeriod
    <3>2. CASE SetDates
      <4>1. PICK day \in (0..(Today + 1)) \cup {NoOne} :
              Click([ui EXCEPT !.customFrom = day]) \/ Click([ui EXCEPT !.customTo = day])
        BY <3>2, Zenon DEF SetDates
      <4>2. day \in Int \cup {NoOne}
        BY <2>0, <4>1
      <4> QED BY <4>1, <4>2
    <3> QED BY <1>8, <3>1, <3>2
  <2>2. UNCHANGED <<server, shown, reading>> /\ Dated(ui') /\ ui'.leadsPage = ui.leadsPage
        /\ ui'.filter = ui.filter /\ ui'.search = ui.search
    BY <1>0, <2>1 DEF Click, Dated, LeadsInv
  <2>3. Filtered(ui)' = Filtered(ui)
    BY <2>2 DEF Filtered
  <2> QED BY <1>1, <1>2, <2>2, <2>3 DEF LeadsInv, L
<1>9. CASE CloseEmail \/ StartEditingConfig \/ EditConfig \/ CancelConfig
  <2>1. UNCHANGED <<server, shown, reading>> /\ SameList(ui')
    BY <1>0, <1>9 DEF CloseEmail, StartEditingConfig, EditConfig, CancelConfig, Click, SameList, SamePeriod
  <2> QED BY <1>1, <1>3, <2>1
<1>10. CASE \E e \in EmailIds : StartEditingEmail(e) \/ ToggleEmailState(e)
  <2>1. UNCHANGED <<server, shown, reading>> /\ SameList(ui')
    BY <1>0, <1>10 DEF StartEditingEmail, ToggleEmailState, Click, SameList, SamePeriod
  <2> QED BY <1>1, <1>3, <2>1
<1>11. CASE HandleAddEmail \/ HandleSaveConfig \/ (\E e \in EmailIds : HandleRemoveEmail(e) \/ HandleSaveEmailStates(e))
  <2>1. UNCHANGED <<server, shown, reading>> /\ SameList(ui')
    <3>1. CASE HandleAddEmail
      <4>1. PICK e : Post([op |-> "addEmail", email |-> e], FALSE, [ui EXCEPT !.addingEmail = TRUE])
        BY <3>1 DEF HandleAddEmail, Send
      <4> QED BY <1>0, <4>1 DEF Post, SameList, SamePeriod
    <3>2. CASE HandleSaveConfig
      BY <1>0, <3>2 DEF HandleSaveConfig, Send, Post, SameList, SamePeriod
    <3>3. CASE \E e \in EmailIds : HandleRemoveEmail(e)
      BY <1>0, <3>3 DEF HandleRemoveEmail, Send, Post, SameList, SamePeriod
    <3>4. CASE \E e \in EmailIds : HandleSaveEmailStates(e)
      BY <1>0, <3>4 DEF HandleSaveEmailStates, Send, Post, SameList, SamePeriod
    <3> QED BY <1>11, <3>1, <3>2, <3>3, <3>4
  <2> QED BY <1>1, <1>3, <2>1
<1>12. CASE Serve(LeadsEffect)
  <2>1. UNCHANGED <<shown, reading, ui>> /\ (server' = server \/ \E q : server' = LeadsEffect(q))
    BY <1>12 DEF Serve, ServeAllowed
  <2>2. Tabled
    BY <2>1, LeadsEffectKeepsLeads DEF LeadsInv, Tabled
  <2> QED BY <1>3, <2>1, <2>2 DEF SameList, SamePeriod
<1>13. CASE Reload(LeadsStale)
  BY <1>1, <1>3, <1>13 DEF Reload, SameList, SamePeriod
<1>14. ASSUME NEW t \in Tables, FetchRead(t) \/ FetchShown(t, NoEffect) PROVE LeadsInv'
  <2>1. t \in LeadTables
    BY DEF Tables, LeadsInv, Function
  <2>2. /\ ui' = ui /\ server' = server
        /\ shown' \in {shown, [shown EXCEPT ![t] = reading[t]]}
        /\ reading' \in {reading, [reading EXCEPT ![t] = server[t]]}
    BY <1>14 DEF FetchRead, FetchShown, NoEffect
  <2>3. Tabled
    BY <2>1, <2>2 DEF LeadsInv, LeadTables, Function, Tabled
  <2> QED BY <1>3, <2>2, <2>3 DEF SameList, SamePeriod
<1>15. CASE Answered(LeadsFields, LeadsStale)
  <2>1. PICK q, ok : ui' = LeadsFields(q, ok)
    BY <1>15 DEF Answered
  <2>2. SameList(ui')
    <3>1. CASE q.op = "states"
      BY <1>0, <2>1, <3>1 DEF LeadsFields, SameList, SamePeriod
    <3>2. CASE q.op = "addEmail"
      BY <1>0, <2>1, <3>2 DEF LeadsFields, SameList, SamePeriod
    <3>3. CASE q.op = "config"
      BY <1>0, <2>1, <3>3 DEF LeadsFields, SameList, SamePeriod
    <3>4. CASE q.op \notin {"states", "addEmail", "config"}
      BY <2>1, <3>4 DEF LeadsFields, SameList, SamePeriod
    <3> QED BY <3>1, <3>2, <3>3, <3>4
  <2> QED BY <1>1, <1>3, <1>15, <2>2 DEF Answered
<1> QED BY <1>5, <1>6, <1>7, <1>8, <1>9, <1>10, <1>11, <1>12, <1>13, <1>14, <1>15 DEF LeadsNext, Background

LEMMA PagesHaveRows == LeadsInv => PageHasRows
<1> SUFFICES ASSUME LeadsInv, Filtered(ui) # {} PROVE PageRows # {}
  BY DEF PageHasRows
<1> DEFINE S == Filtered(ui)
           L == LEADS_PER_PAGE
           p == ui.leadsPage
<1>1. S \in SUBSET Nat /\ IsFiniteSet(S) /\ Cardinality(S) \in Nat /\ L \in Nat \ {0} /\ p \in Nat
  BY FilteredFinite, LeadsAssumption DEF LeadsInv
<1>2. p * L \in Nat /\ p * L < Cardinality(S)
  <2>1. CASE p = 0
    <3>1. Cardinality(S) # 0
      BY <1>1, FS_EmptySet
    <3> QED BY <1>1, <2>1, <3>1
  <2>2. CASE p > 0
    BY <1>1, <2>2 DEF LeadsInv
  <2> QED BY <1>1, <2>1, <2>2
<1> HIDE DEF S, L, p
<1>3. PICK h \in S : Cardinality({x \in S : x < h}) = p * L
  BY <1>1, <1>2, Ranked
<1>4. (p * L) \div L = p
  <2> DEFINE a == p * L
  <2>1. a \in Int /\ a \div L >= p /\ ~(a \div L >= p + 1) /\ a \div L \in Int
    <3>1. a \in Int /\ a = L * p /\ L * (p + 1) = a + L
      BY <1>1
    <3> HIDE DEF a
    <3>2. /\ a \div L \in Int /\ (a \div L >= p <=> a >= L * p)
      BY <1>1, <3>1, DivBetween
    <3>3. a \div L >= p + 1 <=> a >= L * (p + 1)
      BY <1>1, <3>1, DivBetween
    <3> QED BY <1>1, <3>1, <3>2, <3>3
  <2> HIDE DEF a
  <2> QED BY <1>1, <2>1 DEF a
<1>5. h \in PageRows
  BY <1>3, <1>4 DEF PageRows, S, L, p
<1> QED BY <1>5

\* The days of the trend end with the last day, and the window holds them; when
\* the dates are in the wrong order there is none.
LEMMA WindowDays ==
  ASSUME LeadsInv
  PROVE  \E w \in Int :
           /\ LastDay \in Int /\ TrendDays = (LastDay - w)..LastDay
           /\ \A h \in shown.leads : UtcDay(h) \in TrendDays =>
                UtcDay(WindowStart) <= UtcDay(h) /\ UtcDay(h) <= UtcDay(WindowEnd)
           /\ \A h \in InWindow : UtcDay(h) <= LastDay => UtcDay(h) \in TrendDays
<1> DEFINE day == LastDay
           w == LastDay - FirstDay
<1>2. UtcOffset \in 0..12 /\ Clock \in Nat
  BY LeadsAssumption
<1>3. day \in Int /\ FirstDay \in Int
  <2>1. Today \in Int
    BY <1>2 DEF Today
  <2> QED BY <2>1 DEF LeadsInv, Dated, FirstDay, LastDay, Custom
<1>1. w \in Int /\ FirstDay = day - w
  BY <1>3
<1>4. WindowStart = (day - w) * 24 + UtcOffset /\ WindowEnd = (day + 1) * 24 + UtcOffset - 1
  <2>1. WindowStart = Midnight(day - w) /\ WindowEnd = Midnight(day + 1) - 1
    BY <1>1 DEF WindowStart, WindowEnd
  <2> HIDE DEF w, day
  <2> QED BY <1>2, <1>3, <2>1 DEF Midnight
<1> HIDE DEF w, day
<1>5. UtcDay(WindowStart) = day - w /\ UtcDay(WindowEnd) \in {day, day + 1}
  BY <1>1, <1>2, <1>3, <1>4 DEF UtcDay
<1>6. (WindowEnd - WindowStart) \div 24 = w
  BY <1>1, <1>2, <1>3, <1>4
<1>7. TrendDays = (day - w)..day
  <2>1. TrendDays = {day - w + k : k \in 0..w}
    BY <1>5, <1>6 DEF TrendDays
  <2>2. \A d \in (day - w)..day : d - (day - w) \in 0..w /\ d = day - w + (d - (day - w))
    BY <1>1, <1>3
  <2>3. \A k \in 0..w : day - w + k \in (day - w)..day
    BY <1>1, <1>3
  <2> QED BY <2>1, <2>2, <2>3
<1>8. \A h \in shown.leads : UtcDay(h) \in Int
  <2>1. \A h \in shown.leads : h \in Nat
    BY LeadsAssumption DEF LeadsInv
  <2> QED BY <2>1 DEF UtcDay
<1>9. \A h \in shown.leads : UtcDay(h) \in TrendDays => UtcDay(WindowStart) <= UtcDay(h) /\ UtcDay(h) <= UtcDay(WindowEnd)
  BY <1>1, <1>3, <1>5, <1>7, <1>8
<1>10. \A h \in InWindow : UtcDay(h) <= day => UtcDay(h) \in TrendDays
  BY <1>1, <1>3, <1>5, <1>7, <1>8 DEF InWindow
<1> QED BY <1>1, <1>3, <1>7, <1>9, <1>10 DEF day

LEMMA TrendsAddUp == LeadsInv => TrendAddsUp
<1> SUFFICES ASSUME LeadsInv PROVE TrendAddsUp
  OBVIOUS
<1>1. PICK w \in Int :
        /\ LastDay \in Int /\ TrendDays = (LastDay - w)..LastDay
        /\ \A h \in shown.leads : UtcDay(h) \in TrendDays =>
             UtcDay(WindowStart) <= UtcDay(h) /\ UtcDay(h) <= UtcDay(WindowEnd)
        /\ \A h \in InWindow : UtcDay(h) <= LastDay => UtcDay(h) \in TrendDays
  BY WindowDays
<1>2. IsFiniteSet(TrendDays)
  BY <1>1, FS_Interval
<1>3. IsFiniteSet(InWindow)
  <2>1. IsFiniteSet(shown.leads)
    BY LeadsAssumption DEF LeadsInv
  <2>2. InWindow \in SUBSET shown.leads
    BY DEF InWindow
  <2> QED BY <2>1, <2>2, FS_Subset
<1>4. SumFunction(Trend) = Cardinality({h \in InWindow : UtcDay(h) \in TrendDays})
  BY <1>2, <1>3, DaysAddUp DEF Trend
<1>5. {h \in InWindow : UtcDay(h) \in TrendDays} = {h \in InWindow : UtcDay(h) <= LastDay}
  <2>1. \A d \in TrendDays : d <= LastDay
    BY <1>1
  <2> QED BY <1>1, <2>1
<1> QED BY <1>4, <1>5 DEF TrendAddsUp

-----------------------------------------------------------------------------
(* The public page *)

\* The incomes of the months exist: each is the one before with its growth.
IsIncome(f, net, growth, n) ==
  f = [m \in 1..n |-> IF m = 1 THEN net ELSE (f[m - 1] * (100 + growth)) \div 100]

LEMMA IncomesExist ==
  ASSUME NEW net, NEW growth, NEW n \in Nat
  PROVE  \E f : IsIncome(f, net, growth, n)
<1> DEFINE Next1(x) == (x * (100 + growth)) \div 100
           S == {i \in Nat : \E f : f = [m \in 1..i |-> IF m = 1 THEN net ELSE Next1(f[m - 1])]}
<1> HIDE DEF Next1
<1>1. 0 \in S
  <2> DEFINE f == [m \in 1..0 |-> net]
  <2>1. f = [m \in 1..0 |-> IF m = 1 THEN net ELSE Next1(f[m - 1])]
    OBVIOUS
  <2> QED BY <2>1
<1>2. ASSUME NEW i \in Nat, i \in S PROVE i + 1 \in S
  <2>1. PICK f : f = [m \in 1..i |-> IF m = 1 THEN net ELSE Next1(f[m - 1])]
    BY <1>2
  <2> DEFINE g == [m \in 1..(i + 1) |-> IF m = 1 THEN net ELSE Next1(f[m - 1])]
  <2>2. \A m \in 1..i : g[m] = f[m]
    BY <2>1
  <2>3. g = [m \in 1..(i + 1) |-> IF m = 1 THEN net ELSE Next1(g[m - 1])]
    <3>1. \A m \in 1..(i + 1) : m # 1 => m - 1 \in 1..i
      OBVIOUS
    <3> QED BY <2>2, <3>1
  <2> HIDE DEF g
  <2> QED BY <2>3
<1> HIDE DEF S
<1>3. Nat \subseteq S
  BY <1>1, <1>2, NatSets
<1> QED BY <1>3 DEF S, Next1, IsIncome

\* The balances exist: each is the one before with the income of the month.
IsBalance(f, first, gains, n) == f = [m \in 0..n |-> IF m = 0 THEN first ELSE f[m - 1] + gains[m]]

LEMMA BalancesExist ==
  ASSUME NEW first, NEW gains, NEW n \in Nat
  PROVE  \E f : IsBalance(f, first, gains, n)
<1> DEFINE S == {i \in Nat : \E f : f = [m \in 0..i |-> IF m = 0 THEN first ELSE f[m - 1] + gains[m]]}
<1>1. 0 \in S
  <2> DEFINE f == [m \in 0..0 |-> first]
  <2>1. f = [m \in 0..0 |-> IF m = 0 THEN first ELSE f[m - 1] + gains[m]]
    OBVIOUS
  <2> QED BY <2>1
<1>2. ASSUME NEW i \in Nat, i \in S PROVE i + 1 \in S
  <2>1. PICK f : f = [m \in 0..i |-> IF m = 0 THEN first ELSE f[m - 1] + gains[m]]
    BY <1>2
  <2> DEFINE g == [m \in 0..(i + 1) |-> IF m = 0 THEN first ELSE f[m - 1] + gains[m]]
  <2>2. \A m \in 0..i : g[m] = f[m]
    BY <2>1
  <2>3. g = [m \in 0..(i + 1) |-> IF m = 0 THEN first ELSE g[m - 1] + gains[m]]
    <3>1. \A m \in 0..(i + 1) : m # 0 => m - 1 \in 0..i
      OBVIOUS
    <3> QED BY <2>2, <3>1
  <2> HIDE DEF g
  <2> QED BY <2>3
<1> HIDE DEF S
<1>3. Nat \subseteq S
  BY <1>1, <1>2, NatSets
<1> QED BY <1>3 DEF S, IsBalance

\* With a growth that is not negative no month earns less than the first.
LEMMA IncomeGrows ==
  ASSUME NEW c \in SimConfigs
  PROVE  \A m \in 1..ChartMonths : Income(c)[m] \in Nat /\ Income(c)[m] >= c.net
<1> DEFINE I == CHOOSE f : IsIncome(f, c.net, c.growth, ChartMonths)
<1>1. Income(c) = I
  BY DEF Income, IsIncome
<1>2. I = [m \in 1..ChartMonths |-> IF m = 1 THEN c.net ELSE (I[m - 1] * (100 + c.growth)) \div 100]
  <2>1. ChartMonths \in Nat
    BY DEF ChartMonths
  <2>2. \E f : IsIncome(f, c.net, c.growth, ChartMonths)
    BY <2>1, IncomesExist, Zenon
  <2>3. IsIncome(I, c.net, c.growth, ChartMonths)
    BY <2>2, Zenon
  <2> QED BY <2>3 DEF IsIncome
<1> HIDE DEF I
<1>3. c.net \in Nat /\ c.growth \in 0..50 /\ ChartMonths = 24
  BY LandingAssumption DEF ChartMonths
<1> DEFINE S == {k \in Nat : k \in 1..ChartMonths => I[k] \in Nat /\ I[k] >= c.net}
<1>4. 0 \in S
  OBVIOUS
<1>5. ASSUME NEW k \in Nat, k \in S PROVE k + 1 \in S
  <2> SUFFICES ASSUME k + 1 \in 1..ChartMonths PROVE I[k + 1] \in Nat /\ I[k + 1] >= c.net
    OBVIOUS
  <2>1. CASE k = 0
    BY <1>2, <1>3, <2>1
  <2>2. CASE k > 0
    <3> DEFINE x == I[k]
               y == x * (100 + c.growth)
    <3>1. x \in Nat /\ x >= c.net
      BY <1>3, <1>5, <2>2
    <3>2. I[k + 1] = y \div 100
      BY <1>2, <1>3, <2>2
    <3> HIDE DEF x
    <3>3. y \in Int /\ y >= 100 * x
      <4>1. 100 * x <= (100 + c.growth) * x /\ (100 + c.growth) * x = y
        <5>1. 100 \in Int /\ 100 + c.growth \in Int /\ 100 <= 100 + c.growth
          BY <1>3
        <5> QED BY <1>3, <3>1, <5>1, ProductGrows
      <4>2. y \in Int
        BY <1>3, <3>1
      <4> QED BY <4>1, <4>2
    <3> HIDE DEF y
    <3>4. y \div 100 \in Int /\ y \div 100 >= x
      BY <3>1, <3>3, DivBetween
    <3> QED BY <1>3, <3>1, <3>2, <3>4
  <2> QED BY <2>1, <2>2
<1> HIDE DEF S
<1>6. Nat \subseteq S
  BY <1>4, <1>5, NatSets
<1>7. \A m \in 1..ChartMonths : m \in Nat
  BY <1>3
<1> QED BY <1>1, <1>6, <1>7 DEF S

\* The balance of a month has earned at least the first income in each.
LEMMA ChartRises ==
  ASSUME NEW c \in SimConfigs
  PROVE  \A m \in 0..ChartMonths : Cumulative24(c)[m] \in Int /\ Cumulative24(c)[m] >= m * c.net - c.price
<1> DEFINE G == Income(c)
           C == CHOOSE f : IsBalance(f, -c.price, G, ChartMonths)
<1>1. Cumulative24(c) = C
  BY DEF Cumulative24, IsBalance
<1>0. \A m \in 1..ChartMonths : G[m] \in Nat /\ G[m] >= c.net
  BY IncomeGrows
<1> HIDE DEF G
<1>2. C = [m \in 0..ChartMonths |-> IF m = 0 THEN -c.price ELSE C[m - 1] + G[m]]
  <2>1. ChartMonths \in Nat
    BY DEF ChartMonths
  <2>2. \E f : IsBalance(f, -c.price, G, ChartMonths)
    BY <2>1, BalancesExist, Zenon
  <2>3. IsBalance(C, -c.price, G, ChartMonths)
    BY <2>2, Zenon
  <2> QED BY <2>3 DEF IsBalance
<1> HIDE DEF C
<1>3. c.net \in Nat /\ c.price \in Nat /\ ChartMonths = 24
  BY LandingAssumption DEF ChartMonths
<1> DEFINE S == {k \in Nat : k \in 0..ChartMonths => C[k] \in Int /\ C[k] >= k * c.net - c.price}
<1>4. 0 \in S
  BY <1>2, <1>3
<1>5. ASSUME NEW k \in Nat, k \in S PROVE k + 1 \in S
  <2> SUFFICES ASSUME k + 1 \in 0..ChartMonths PROVE C[k + 1] \in Int /\ C[k + 1] >= (k + 1) * c.net - c.price
    OBVIOUS
  <2>1. C[k] \in Int /\ C[k] >= k * c.net - c.price
    BY <1>3, <1>5
  <2>2. C[k + 1] = C[k] + G[k + 1] /\ G[k + 1] \in Nat /\ G[k + 1] >= c.net
    BY <1>0, <1>2, <1>3
  <2> DEFINE a == k * c.net
             b == (k + 1) * c.net
  <2>3. b = a + c.net /\ a \in Int
    BY <1>3
  <2>4. C[k] \in Int /\ C[k] >= a - c.price
    BY <2>1
  <2> HIDE DEF a, b
  <2>5. C[k + 1] \in Int /\ C[k + 1] >= b - c.price
    BY <1>3, <2>2, <2>3, <2>4
  <2> QED BY <2>5 DEF b
<1> HIDE DEF S
<1>6. Nat \subseteq S
  BY <1>4, <1>5, NatSets
<1>7. \A m \in 0..ChartMonths : m \in Nat
  BY <1>3
<1> QED BY <1>1, <1>6, <1>7 DEF S

\* The card and the chart of every configuration match.
LEMMA CardsMatch == SimConfigs \subseteq MatchingCards
<1> SUFFICES ASSUME NEW c \in SimConfigs PROVE c \in MatchingCards
  OBVIOUS
<1> DEFINE chart == Cumulative24(c)
           net == c.net
           price == c.price
           month == PaybackMonths(c) \div 10
           back == {m \in 1..ChartMonths : chart[m] >= 0}
<1>0. net \in Nat /\ price \in Nat /\ ChartMonths = 24
  BY LandingAssumption DEF ChartMonths
<1>1. \A m \in 0..24 : chart[m] \in Int /\ chart[m] >= m * net - price
  BY <1>0, ChartRises
<1>2. SUFFICES /\ back # {} => PaybackPoint(c) /\ chart[month] >= 0 /\ \A m \in 1..(month - 1) : chart[m] < 0
               /\ back = {} /\ PaybackPoint(c) => month = 24 /\ 20 * chart[month] >= -net
  BY <1>0 DEF MatchingCards
<1>3. ChartPayback(c) = IF back = {} THEN 0 ELSE CHOOSE m \in back : \A k \in back : m <= k
  BY DEF ChartPayback
<1> DEFINE p == PaybackMonths(c)
<1>4. p = (IF ChartPayback(c) # 0 THEN 10 * ChartPayback(c) ELSE SimplePayback(c))
  BY DEF PaybackMonths
<1>5. PaybackPoint(c) <=> p \in 1..240
  BY <1>0 DEF PaybackPoint
<1>6. back \in SUBSET (1..24) /\ \A m \in 1..24 : m \in back <=> chart[m] >= 0
  BY <1>0
<1> HIDE DEF chart, net, price, back, p
<1>7. CASE back # {}
  <2>1. back \in SUBSET Nat /\ IsFiniteSet(back)
    <3>1. 1 \in Int /\ 24 \in Int
      OBVIOUS
    <3>2. IsFiniteSet(1..24)
      BY ONLY <3>1, FS_Interval
    <3>3. IsFiniteSet(back)
      BY <1>6, <3>2, FS_Subset
    <3> QED BY <1>6, <3>3
  <2>2. \E m \in back : \A k \in back : m <= k
    BY <1>7, <2>1, NatMinMax
  <2> DEFINE m == CHOOSE m \in back : \A k \in back : m <= k
  <2>3. m \in back /\ \A k \in back : m <= k
    BY <2>2
  <2>4. ChartPayback(c) = m
    BY <1>3, <1>7
  <2> HIDE DEF m
  <2>5. m \in 1..24
    BY <1>6, <2>3
  <2>6. p = 10 * m /\ month = m
    BY <1>4, <2>4, <2>5 DEF p
  <2> HIDE DEF month
  <2>7. PaybackPoint(c)
    BY <1>5, <2>5, <2>6
  <2>8. chart[month] >= 0
    BY <1>6, <2>3, <2>5, <2>6
  <2>9. ASSUME NEW k \in 1..(month - 1) PROVE chart[k] < 0
    <3>1. k \in 1..24 /\ k \notin back
      BY <2>3, <2>5, <2>6
    <3> QED BY <1>1, <1>6, <3>1
  <2> QED BY <1>7, <2>7, <2>8, <2>9
<1>8. CASE back = {}
  <2>1. p = SimplePayback(c)
    BY <1>3, <1>4, <1>8
  <2>2. \A m \in 1..24 : chart[m] < 0
    BY <1>1, <1>6, <1>8
  <2> SUFFICES ASSUME p \in 1..240 PROVE month = 24 /\ 20 * chart[month] >= -net
    BY <1>5, <1>8
  <2>3. p = IF net > 0 THEN (20 * price + net) \div (2 * net) ELSE 0
    BY <2>1 DEF SimplePayback, net, price
  <2>4. net > 0
    BY <1>0, <2>3
  <2> DEFINE a == 20 * price + net
             d == 2 * net
  <2>5. a \in Int /\ d \in Nat \ {0} /\ a = 20 * price + net /\ d = 2 * net
    BY <1>0, <2>4
  <2>6. p = a \div d
    BY <2>3, <2>4
  <2> HIDE DEF a, d
  <2>7. /\ p >= 240 <=> a >= d * 240
        /\ p >= 241 <=> a >= d * 241
    <3>1. 240 \in Int /\ 241 \in Int
      OBVIOUS
    <3> QED BY ONLY <2>5, <2>6, <3>1, DivBetween
  <2>8. chart[24] \in Int /\ chart[24] >= 24 * net - price /\ chart[24] < 0
    BY <1>1, <2>2
  <2>9. p = 240
    <3>1. a >= d * 240
      BY <1>0, <2>5, <2>8
    <3> QED BY <2>7, <3>1
  <2>10. a < d * 241
    BY <1>0, <2>5, <2>7, <2>9
  <2>11. 20 * chart[24] >= -net
    BY <1>0, <2>5, <2>8, <2>10
  <2>12. month = 24
    BY <2>9 DEF p
  <2> QED BY <2>11, <2>12
<1> QED BY <1>7, <1>8

\* The second step is shown for an order, and the configuration stays.
LandingInv ==
  /\ DOMAIN server = {"leads", "config"} /\ server.config \in SimConfigs
  /\ OrderIsChosen

LEMMA LandingStart ==
  ASSUME NEW reached \in BOOLEAN, NEW config \in SimConfigs, LandingInit(reached, config) PROVE LandingInv
<1> DEFINE uf == IF reached THEN CHOOSE u \in BrStates : TRUE ELSE NoState
           n == IF reached THEN 1 ELSE 0
<1>1. /\ server = [leads |-> <<>>, config |-> config]
      /\ ui = [step |-> IF reached THEN 2 ELSE 1, sector |-> reached, points |-> n,
               contact |-> IF reached THEN "whole" ELSE "half", stateUF |-> uf, cities |-> uf, city |-> uf,
               citiesLoading |-> FALSE, submitting |-> FALSE, result |-> NoLead, leadId |-> NoLead,
               specialistMsg |-> FALSE, specialistSending |-> FALSE, specialistSent |-> FALSE]
  BY DEF LandingInit, PageInit
<1> HIDE DEF uf, n
<1>2. ui.step = (IF reached THEN 2 ELSE 1) /\ ui.sector = reached /\ ui.points = n
  BY <1>1
<1>3. reached => n = 1
  BY DEF n
<1> QED BY <1>1, <1>2, <1>3 DEF LandingInv, OrderIsChosen, Step1Valid

LEMMA LandingEffectKeeps ==
  ASSUME DOMAIN server = {"leads", "config"}, NEW q
  PROVE  DOMAIN LandingEffect(q) = DOMAIN server /\ LandingEffect(q).config = server.config
<1>1. CASE q.op = "simulate"
  <2> DEFINE x == [l \in DOMAIN server.leads \cup {q.lead} |->
            IF l = q.lead THEN [told |-> FALSE, uf |-> q.uf, city |-> q.city] ELSE server.leads[l]]
  <2>1. LandingEffect(q) = [server EXCEPT !.leads = x]
    BY <1>1 DEF LandingEffect
  <2> HIDE DEF x
  <2> QED BY <2>1
<1>2. CASE q.op = "specialist"
  <2>1. LandingEffect(q) = [server EXCEPT !.leads[q.lead].told = TRUE]
    BY <1>2 DEF LandingEffect
  <2> QED BY <2>1
<1>3. CASE q.op \notin {"simulate", "specialist"}
  BY <1>3 DEF LandingEffect
<1> QED BY <1>1, <1>2, <1>3

LEMMA LandingStep == LandingBusy /\ LandingInv /\ LandingNext => LandingInv'
<1> SUFFICES ASSUME LandingBusy, LandingInv, LandingNext PROVE LandingInv'
  OBVIOUS
<1> DEFINE Order(u) == <<u.step, u.sector, u.points>>
<1>0. DOMAIN ui = {"step", "sector", "points", "contact", "stateUF", "cities", "city", "citiesLoading", "submitting", "result", "leadId", "specialistMsg", "specialistSending", "specialistSent"}
  BY DEF LandingBusy
<1>1. ASSUME UNCHANGED server, Order(ui') = Order(ui) \/ ui'.step = 1 \/ (ui'.sector /\ ui'.points > 0) PROVE LandingInv'
  BY <1>1 DEF LandingInv, OrderIsChosen, Step1Valid
<1>2. CASE SelectSector \/ CountCharger
  <2>1. ui.step = 1 /\ UNCHANGED server /\ \E x : ui' \in {[ui EXCEPT !.sector = x], [ui EXCEPT !.points = x]}
    BY <1>2 DEF SelectSector, CountCharger, Click
  <2>2. ui'.step = 1
    BY <1>0, <2>1
  <2> QED BY <1>1, <2>1, <2>2
<1>3. CASE HandleNext
  <2>1. UNCHANGED server /\ ui'.sector = ui.sector /\ ui'.points = ui.points /\ ui.sector /\ ui.points > 0
    BY <1>0, <1>3 DEF HandleNext, Step1Valid, Click
  <2> QED BY <1>1, <2>1
<1>4. CASE BackToStep1 \/ HandleNewSimulation
  <2>1. UNCHANGED server /\ ui'.step = 1
    BY <1>0, <1>4 DEF BackToStep1, HandleNewSimulation, NewSimulation, Click
  <2> QED BY <1>1, <2>1
<1>5. CASE TypeContact \/ PickCity \/ TypeCity \/ TypeSpecialistMessage
  <2>1. UNCHANGED server /\ Order(ui') = Order(ui)
    BY <1>0, <1>5 DEF TypeContact, PickCity, TypeCity, TypeSpecialistMessage, Click
  <2> QED BY <1>1, <2>1
<1>6. CASE SelectState
  <2>1. UNCHANGED server /\ (\/ \E uf : ui' = [ui EXCEPT !.stateUF = uf, !.city = NoState, !.citiesLoading = TRUE]
                             \/ ui' = [ui EXCEPT !.stateUF = NoState, !.city = NoState, !.cities = NoState])
    BY <1>6, Zenon DEF SelectState, Send, Post, Click
  <2>2. Order(ui') = Order(ui)
    BY <1>0, <2>1
  <2> QED BY <1>1, <2>1, <2>2
<1>7. CASE HandleSimulate \/ HandleSendSpecialistMessage
  <2>1. UNCHANGED server /\ ui' \in {[ui EXCEPT !.submitting = TRUE], [ui EXCEPT !.specialistSending = TRUE]}
    BY <1>7 DEF HandleSimulate, HandleSendSpecialistMessage, Send, Post
  <2>2. Order(ui') = Order(ui)
    BY <1>0, <2>1
  <2> QED BY <1>1, <2>1, <2>2
<1>8. CASE ServeAllowed(LandingAllowed, LandingEffect)
  <2>1. ui' = ui /\ (server' = server \/ \E q : server' = LandingEffect(q))
    BY <1>8 DEF ServeAllowed
  <2>2. DOMAIN server' = DOMAIN server /\ server'.config = server.config
    BY <2>1, LandingEffectKeeps DEF LandingInv
  <2> QED BY <2>1, <2>2 DEF LandingInv, OrderIsChosen, Step1Valid
<1>9. CASE Answered(LandingFields, LandingStale)
  <2>1. PICK q, ok : Ends(q) /\ ui' = LandingFields(q, ok)
    BY <1>9, Handled DEF Answered, LandingBusy
  <2>2. UNCHANGED server
    BY <1>9 DEF Answered
  <2>3. q.op \in {"cities", "simulate", "specialist"}
    BY <2>1 DEF Ends, LandingBusy
  <2>4. Order(ui') = Order(ui)
    <3>1. CASE q.op = "cities"
      BY <1>0, <2>1, <3>1 DEF LandingFields
    <3>2. CASE q.op = "simulate" /\ ok
      BY <1>0, <2>1, <3>2 DEF LandingFields
    <3>3. CASE q.op = "simulate" /\ ~ok
      BY <1>0, <2>1, <3>3 DEF LandingFields
    <3>4. CASE q.op = "specialist"
      BY <1>0, <2>1, <3>4 DEF LandingFields
    <3> QED BY <2>3, <3>1, <3>2, <3>3, <3>4
  <2> QED BY <1>1, <2>2, <2>4
<1> QED BY <1>2, <1>3, <1>4, <1>5, <1>6, <1>7, <1>8, <1>9 DEF LandingNext

-----------------------------------------------------------------------------
(* All views *)

\* What holds of the page that is open.
ViewsInv ==
  /\ page = "filters" => FiltersInv
  /\ page = "map" => MapInv
  /\ page = "capex" => CapexRecords
  /\ page = "leads" => LeadsInv
  /\ page = "landing" => LandingInv

LEMMA ViewsStart == Init => ViewsInv
<1> SUFFICES ASSUME Init PROVE ViewsInv
  OBVIOUS
<1>1. page = "filters" => FiltersInv
  <2> SUFFICES ASSUME page = "filters" PROVE FiltersInv
    OBVIOUS
  <2>1. PICK stored : FiltersInit(stored)
    BY DEF Init
  <2> QED BY <2>1, FiltersStart
<1>2. page = "map" => MapInv
  BY MapStart DEF Init
<1>3. page = "capex" => CapexRecords
  <2> SUFFICES ASSUME page = "capex" PROVE CapexRecords
    OBVIOUS
  <2>1. PICK first \in SUBSET CapexRows : CapexInit(first)
    BY DEF Init
  <2> QED BY <2>1, CapexStart
<1>4. page = "leads" => LeadsInv
  <2> SUFFICES ASSUME page = "leads" PROVE LeadsInv
    OBVIOUS
  <2>1. PICK leads \in LeadSets : LeadsInit(leads)
    BY DEF Init
  <2> QED BY <2>1, LeadsStart
<1>5. page = "landing" => LandingInv
  <2> SUFFICES ASSUME page = "landing" PROVE LandingInv
    OBVIOUS
  <2>1. PICK reached \in BOOLEAN, c \in SimConfigs : LandingInit(reached, c)
    BY DEF Init
  <2> QED BY <2>1, LandingStart
<1> QED BY <1>1, <1>2, <1>3, <1>4, <1>5 DEF ViewsInv

LEMMA ViewsStep == ViewsInv /\ FormsInv /\ BusyInv /\ [Next]_<<pageVars, simpleVars, page>> => ViewsInv'
<1>1. ASSUME ViewsInv, FormsInv, BusyInv, Next PROVE ViewsInv'
  <2>1. page' = page
    BY <1>1 DEF Next
  <2>2. page = "filters" => FiltersInv'
    <3> SUFFICES ASSUME page = "filters" PROVE FiltersInv'
      OBVIOUS
    <3>1. FiltersNext
      BY <1>1 DEF Next, PageNext
    <3> QED BY <1>1, <3>1, FiltersStep DEF ViewsInv
  <2>3. page = "map" => MapInv'
    <3> SUFFICES ASSUME page = "map" PROVE MapInv'
      OBVIOUS
    <3>1. MapNext
      BY <1>1 DEF Next, PageNext
    <3> QED BY <1>1, <3>1, MapStep DEF ViewsInv
  <2>4. page = "capex" => CapexRecords'
    <3> SUFFICES ASSUME page = "capex" PROVE CapexRecords'
      OBVIOUS
    <3>1. CapexNext
      BY <1>1 DEF Next, PageNext
    <3> QED BY <1>1, <3>1, CapexStep DEF ViewsInv, FormsInv, BusyInv
  <2>5. page = "leads" => LeadsInv'
    <3> SUFFICES ASSUME page = "leads" PROVE LeadsInv'
      OBVIOUS
    <3>1. LeadsNext
      BY <1>1 DEF Next, PageNext
    <3> QED BY <1>1, <3>1, LeadsStep DEF ViewsInv, BusyInv
  <2>6. page = "landing" => LandingInv'
    <3> SUFFICES ASSUME page = "landing" PROVE LandingInv'
      OBVIOUS
    <3>1. LandingNext
      BY <1>1 DEF Next, PageNext
    <3> QED BY <1>1, <3>1, LandingStep DEF ViewsInv, BusyInv
  <2> QED BY <2>1, <2>2, <2>3, <2>4, <2>5, <2>6 DEF ViewsInv
<1>2. ASSUME ViewsInv, BusyInv, UNCHANGED <<pageVars, simpleVars, page>> PROVE ViewsInv'
  <2>1. ui' = ui /\ server' = server /\ shown' = shown /\ reading' = reading /\ writes' = writes /\ page' = page
    BY <1>2 DEF pageVars
  <2>2. page = "filters" => FiltersInv'
    BY <1>2, <2>1 DEF ViewsInv, FiltersInv, Tab
  <2>3. page = "map" => MapInv'
    BY <1>2, <2>1 DEF ViewsInv, MapInv
  <2>4. page = "capex" => CapexRecords'
    BY <1>2, <2>1 DEF ViewsInv, CapexRecords, Reqs
  <2>5. page = "leads" => LeadsInv'
    BY <1>2, <2>1 DEF ViewsInv, LeadsInv, Filtered
  <2>6. page = "landing" => LandingInv'
    BY <1>2, <2>1 DEF ViewsInv, LandingInv, OrderIsChosen, Step1Valid
  <2> QED BY <2>1, <2>2, <2>3, <2>4, <2>5, <2>6 DEF ViewsInv
<1> QED BY <1>1, <1>2

LEMMA ViewsHold == Spec => []ViewsInv
<1>1. Init => BusyInv
  BY BusyStarts
<1>2. BusyInv /\ FormsInv /\ [Next]_<<pageVars, simpleVars, page>> => BusyInv'
  BY BusySteps
<1> QED BY <1>1, <1>2, ViewsStart, ViewsStep, FormsHold, PTL DEF Spec

\* What a page shows in two places agrees: the leads fill the page that is open and
\* the days of their trend add up, the address and the pills follow the filters, the
\* cities and their scores are those of the state, badge, bar and fleet tell one
\* story of the CAPEX, and the card of the public page names the month in which its
\* chart crosses zero, for any data, prices, growth and order of the answers.
THEOREM ViewsStay == Spec => []ViewsAgree
<1>1. ViewsInv => ViewsAgree
  <2> SUFFICES ASSUME ViewsInv PROVE ViewsAgree
    OBVIOUS
  <2>1. page = "leads" => PageHasRows /\ TrendAddsUp
    BY PagesHaveRows, TrendsAddUp DEF ViewsInv
  <2>2. page = "filters" => FiltersAgree
    BY FiltersFollow DEF ViewsInv
  <2>3. page = "map" => CitiesOfState /\ ScoresRank
    BY MapAgrees DEF ViewsInv
  <2>4. page = "capex" => CardsAgree
    BY CapexAgrees DEF ViewsInv
  <2>5. page = "landing" => OrderIsChosen /\ CardMatchesChart
    BY CardsMatch DEF ViewsInv, LandingInv, CardMatchesChart
  <2> QED BY <2>1, <2>2, <2>3, <2>4, <2>5 DEF ViewsAgree
<1> QED BY <1>1, ViewsHold, PTL

=============================================================================
