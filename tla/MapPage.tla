------------------------------ MODULE MapPage ------------------------------
(***************************************************************************)
(* components/map: the opportunity score of the municipalities of a state. *)
(* The polygons and populations of a state come from IBGE when the state   *)
(* is selected, the fleets and charging points from the files of ABVE, and *)
(* Open Charge Map fills in for the cities ABVE does not have.  What has   *)
(* come is kept outside the components, which mount anew at every visit.   *)
(* The layers that would need Overpass are switched off and have no switch.*)
(***************************************************************************)
EXTENDS DashboardPage, TLC

CONSTANTS
  Cities,       \* by state (UF): its municipalities
  Pop,          \* population, by municipality
  UfFleet,      \* plug-in fleet of a state
  Frota,        \* ABVE: plug-in fleet of the municipalities it has
  Eletropostos, \* ABVE: charging points of the municipalities it has
  OcmCount,     \* Open Charge Map: points by municipality, real or of the demonstration
  NoUF

ASSUME MapAssumption ==
  /\ \A uf \in DOMAIN Cities :
       /\ UfFleet[uf] \in Nat /\ IsFiniteSet(Cities[uf])
       /\ \A c \in Cities[uf] : Pop[c] \in Nat /\ OcmCount.real[c] \in Nat /\ OcmCount.mock[c] \in Nat
  /\ \A c \in DOMAIN Frota : Frota[c] \in Nat
  /\ \A c \in DOMAIN Eletropostos : Eletropostos[c] \in Nat

UFs == DOMAIN Cities
Sources == {"ibge", "abve", "eletropostos", "frota", "chargers"}

\* kept: what the modules keep, by source ("none" before it came, "empty" for a
\* file that failed to come); cache: the states that have come.
\* What an instance of the page has: seen, by source; asked: questions for a
\* state, and whether their effect still waits for them.
Mounted(kept, was) ==
  [was EXCEPT !.uf = NoUF, !.data = NoUF, !.loading = FALSE, !.error = FALSE,
     !.seen = [k \in Sources |-> IF k \in {"eletropostos", "frota"} THEN "none" ELSE kept[k]],
     !.usingMock = FALSE, !.asked = {[q EXCEPT !.live = FALSE] : q \in was.asked}]

MapInit ==
  PageInit([none |-> 0],
    [uf |-> NoUF, data |-> NoUF, loading |-> FALSE, error |-> FALSE, cache |-> {}, asked |-> {},
     kept |-> [k \in Sources |-> "none"], seen |-> [k \in Sources |-> "none"],
     usingMock |-> FALSE, collapsed |-> FALSE, n |-> 0])

\* The page is left and visited again.
Remount == Click(Mounted(ui.kept, ui))

----------------------------------------------------------------------------
(* Sources of the whole country *)

\* useIBGEData and useABVEData need both of their files; when one fails neither
\* is kept, and the next visit asks again.
NationalArrives(k) ==
  /\ k \in {"ibge", "abve"} /\ ui.seen[k] = "none"
  /\ Render([ui EXCEPT !.kept[k] = "real", !.seen[k] = "real"])

\* A promise of the module reads each municipal file once, and resolves to an
\* empty table when that fails.
MunicipalFileArrives(k) ==
  /\ k \in {"eletropostos", "frota"} /\ ui.seen[k] = "none"
  /\ \E x \in IF ui.kept[k] = "none" THEN {"real", "empty"} ELSE {ui.kept[k]} :
       Render([ui EXCEPT !.kept[k] = x, !.seen[k] = x])

\* Without a key, or when Open Charge Map fails, the demonstration is kept in
\* its place.
ChargersArrive ==
  /\ ui.seen.chargers = "none"
  /\ \E x \in {"real", "mock"} :
       Render([ui EXCEPT !.kept.chargers = x, !.seen.chargers = x, !.usingMock = x = "mock"])

----------------------------------------------------------------------------
(* The state that is selected *)

\* The effect of [uf]: the former question is no longer waited for, nothing of
\* the former state stays, and a state that has come is shown at once.
SelectUF(uf) ==
  LET dropped == {[q EXCEPT !.live = FALSE] : q \in ui.asked}
      cleared == [ui EXCEPT !.uf = uf, !.asked = dropped, !.error = FALSE] IN
  /\ uf # ui.uf
  /\ Click(IF uf = NoUF THEN [cleared EXCEPT !.data = NoUF]
           ELSE IF uf \in ui.cache THEN [cleared EXCEPT !.data = uf]
           ELSE [cleared EXCEPT !.data = NoUF, !.loading = TRUE, !.n = @ + 1,
                   !.asked = dropped \cup {[uf |-> uf, n |-> ui.n, live |-> TRUE]}])

UFArrives(q) ==
  /\ q \in ui.asked
  /\ LET kept == [ui EXCEPT !.asked = @ \ {q}, !.cache = @ \cup {q.uf}] IN
     Render(IF q.live THEN [kept EXCEPT !.data = q.uf, !.loading = FALSE] ELSE kept)

\* A refusal, or the 25 s timeout.
UFFails(q) ==
  /\ q \in ui.asked
  /\ LET gone == [ui EXCEPT !.asked = @ \ {q}] IN
     Render(IF q.live THEN [gone EXCEPT !.error = TRUE, !.loading = FALSE] ELSE gone)

CollapseSidebar == Click([ui EXCEPT !.collapsed = ~@])

MapNext ==
  \/ \E uf \in UFs \cup {NoUF} : SelectUF(uf)
  \/ \E q \in ui.asked : UFArrives(q) \/ UFFails(q)
  \/ \E k \in Sources : NationalArrives(k) \/ MunicipalFileArrives(k)
  \/ ChargersArrive \/ CollapseSidebar \/ Remount

----------------------------------------------------------------------------
(* The score *)

PopTotal(uf) == SumFunction([c \in Cities[uf] |-> Pop[c]])

\* Times PopTotal: the fleet ABVE has, else a share of the fleet of the state.
FrotaEst(uf, c) ==
  IF ui.seen.frota = "real" /\ c \in DOMAIN Frota THEN Frota[c] * PopTotal(uf)
  ELSE (IF ui.seen.abve = "real" THEN UfFleet[uf] ELSE 0) * Pop[c]

Points(c) ==
  IF ui.seen.eletropostos = "real" /\ c \in DOMAIN Eletropostos THEN Eletropostos[c]
  ELSE IF ui.seen.chargers = "none" THEN 0 ELSE OcmCount[ui.seen.chargers][c]

GapScale == 12   \* a multiple of every number of points plus one

Gap(uf, c) == FrotaEst(uf, c) * (GapScale \div (Points(c) + 1))

\* minMaxNormalize(v, min, max), whose result is 0 when all are equal, as a
\* numerator over Spread.
Above(F, c) == F[c] - Min(Range(F))
Spread(F) == Max(Range(F)) - Min(Range(F))
OrOne(x) == IF x = 0 THEN 1 ELSE x

Fleets(uf) == [c \in Cities[uf] |-> FrotaEst(uf, c)]
Gaps(uf) == [c \in Cities[uf] |-> Gap(uf, c)]

\* The score of a municipality over ScoreOne: one part the market, two the gap.
Score(uf, c) ==
  Above(Fleets(uf), c) * OrOne(Spread(Gaps(uf))) + 2 * Above(Gaps(uf), c) * OrOne(Spread(Fleets(uf)))
ScoreOne(uf) == 3 * OrOne(Spread(Fleets(uf))) * OrOne(Spread(Gaps(uf)))

\* What the map, the ranking and the export show: the municipalities of the
\* state whose data there is, scored as those of the state that is selected.
Scored == IF ui.data = NoUF THEN {} ELSE Cities[ui.data]

----------------------------------------------------------------------------
(* Properties *)

\* Whatever answers late, the municipalities that are scored, ranked and
\* exported are those of the state that is selected.
CitiesOfState == ui.data # NoUF => ui.data = ui.uf

\* Whatever has come and in whatever order: a city with no smaller a fleet and
\* no more charging points than another does not score below it, and a score
\* is between none and all.
ScoresRank ==
  ui.data # NoUF =>
    \A c, d \in Scored :
      /\ Score(ui.data, c) \in 0..ScoreOne(ui.data)
      /\ FrotaEst(ui.data, c) >= FrotaEst(ui.data, d) /\ Points(c) <= Points(d) =>
           Score(ui.data, c) >= Score(ui.data, d)

\* "Carregando municípios de" (InstallationMap.tsx:226): it stands for a question
\* about the state that is selected.
LoadingIsOfState == ui.loading => \E q \in ui.asked : q.live /\ q.uf = ui.uf

\* "demonstração" (InstallationMap.tsx:209) labels the demonstration.
MockIsLabelled == ui.seen.chargers = "mock" => ui.usingMock
=============================================================================
