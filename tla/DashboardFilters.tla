-------------------------- MODULE DashboardFilters --------------------------
(***************************************************************************)
(* The filters of the dashboard: FilterContext holds them, FilterURLSync   *)
(* carries them between the context, the address and localStorage, and     *)
(* FilterBar edits a copy of them and keeps presets.  Tabs of one browser  *)
(* share localStorage.  Connectors and files are filtered as stations are. *)
(***************************************************************************)
EXTENDS DashboardPage, TLC

CONSTANTS
  Tabs,
  NoTab   \* no tab has stored filters

ASSUME TabsAssumption == NoTab \notin Tabs

Dates == 1..2
Stations == {"a"}
NoFilters == [from |-> 0, to |-> 0, stations |-> {}]   \* 0: undefined

\* filtersToSearch and paramsToFilters: the parameters of the address; JSON in
\* localStorage keeps the same ones.
FiltersToSearch(f) ==
  {<<k, f[k]>> : k \in {j \in {"from", "to"} : f[j] # 0}} \cup {<<"stations", s>> : s \in f.stations}
ParamsToFilters(params) ==
  [from |-> IF \E d \in Dates : <<"from", d>> \in params THEN CHOOSE d \in Dates : <<"from", d>> \in params ELSE 0,
   to   |-> IF \E d \in Dates : <<"to", d>> \in params THEN CHOOSE d \in Dates : <<"to", d>> \in params ELSE 0,
   stations |-> {s \in Stations : <<"stations", s>> \in params}]

\* A tab right after the page has rendered: the effects have not run, and the
\* bar copied the filters there were.
Fresh(url, presets) ==
  [filters |-> NoFilters, url |-> url, local |-> NoFilters, presets |-> presets,
   open |-> FALSE, dateError |-> FALSE, initialized |-> FALSE, due |-> FALSE,
   replacing |-> FALSE, target |-> {}, skipped |-> FALSE]

Links == {{}, {<<"stations", "a">>}, {<<"from", 2>>, <<"to", 1>>}}

FiltersInit(stored) ==
  PageInit([none |-> 0],
    [tabs |-> [t \in Tabs |-> Fresh({}, {})], stored |-> stored, writer |-> NoTab, presets |-> {}])

Tab(t) == ui.tabs[t]
OnTab(t, tab) == [ui EXCEPT !.tabs[t] = tab]

\* setFilters stores, or removes what is stored; the effect on the address is
\* due after the next render.
SetFilters(t, f, tab) ==
  [ui EXCEPT !.tabs[t] = [tab EXCEPT !.filters = f, !.due = TRUE],
             !.stored = FiltersToSearch(f), !.writer = t]

----------------------------------------------------------------------------
(* FilterURLSync *)

\* What a tab takes over when it mounts: the address, or what is stored.
Restored(url) == ParamsToFilters(IF url # {} THEN url ELSE ui.stored)

\* router.replace is a transition: the address changes later, and a newer one
\* takes the place of one that is on its way (external).
Replace(tab, params) == [tab EXCEPT !.replacing = TRUE, !.target = params, !.skipped = FALSE]
AddressChanges(t) ==
  Tab(t).replacing /\ Render(OnTab(t, [Tab(t) EXCEPT !.replacing = FALSE, !.url = Tab(t).target]))

\* Both effects of the first render: the filters are taken over, and the second
\* effect still sees none and has the parameters taken off the address.
MountEffects(t) ==
  /\ ~Tab(t).initialized
  /\ LET found == Restored(Tab(t).url)
         mounted == [Tab(t) EXCEPT !.initialized = TRUE]
         tab == IF Tab(t).url = {} THEN mounted ELSE Replace(mounted, {}) IN
     Render(IF found = NoFilters THEN OnTab(t, tab) ELSE SetFilters(t, found, tab))

\* The second effect, after the filters or the path changed: nothing to do when
\* the address is right at this moment (skipped: another is on its way).
SyncUrl(t) ==
  /\ Tab(t).due /\ Tab(t).initialized
  /\ LET tab == [Tab(t) EXCEPT !.due = FALSE]
         search == FiltersToSearch(tab.filters) IN
     Render(OnTab(t, IF search = tab.url THEN [tab EXCEPT !.skipped = tab.replacing]
                     ELSE Replace(tab, search)))

ReloadTab(t) == Click(OnTab(t, Fresh(Tab(t).url, ui.presets)))
OpenLink(t) == \E url \in Links : Click(OnTab(t, Fresh(url, ui.presets)))

\* Slip: the effect does not depend on the path.
NavigateKeepsEffect(t) ==
  Tab(t).initialized /\
  Click(OnTab(t, [Tab(t) EXCEPT !.url = {}, !.local = Tab(t).filters, !.open = FALSE,
                    !.dateError = FALSE, !.presets = ui.presets, !.replacing = FALSE]))

\* Another page: its address has no parameters and its bar mounts again.
Navigate(t) ==
  Tab(t).initialized /\
  Click(OnTab(t, [Tab(t) EXCEPT !.url = {}, !.local = Tab(t).filters, !.open = FALSE,
                    !.dateError = FALSE, !.presets = ui.presets, !.replacing = FALSE, !.due = TRUE]))

----------------------------------------------------------------------------
(* FilterBar *)

TogglePopover(t) == Tab(t).initialized /\ Click(OnTab(t, [Tab(t) EXCEPT !.open = ~@]))

EditLocal(t) ==
  /\ Tab(t).open
  /\ \/ \E k \in {"from", "to"}, d \in Dates \cup {0} :
          Click(OnTab(t, [Tab(t) EXCEPT !.local[k] = d, !.dateError = FALSE]))
     \/ \E s \in Stations : Click(OnTab(t, [Tab(t) EXCEPT !.local.stations = SymDiff(@, {s})]))

DatesOrdered(f) == f.from # 0 /\ f.to # 0 => f.from <= f.to

Apply(t) ==
  /\ Tab(t).open
  /\ Click(IF DatesOrdered(Tab(t).local)
           THEN SetFilters(t, Tab(t).local, [Tab(t) EXCEPT !.dateError = FALSE, !.open = FALSE])
           ELSE OnTab(t, [Tab(t) EXCEPT !.dateError = TRUE]))

Clear(t) ==
  /\ Tab(t).open
  /\ Click(SetFilters(t, NoFilters, [Tab(t) EXCEPT !.dateError = FALSE, !.local = NoFilters, !.open = FALSE]))

\* A preset is the edited copy, and is applied unchecked; the list that is
\* stored is the one this tab read when its bar mounted.
SavePresets(t, presets) == [OnTab(t, [Tab(t) EXCEPT !.presets = presets]) EXCEPT !.presets = presets]
SavePreset(t) == Tab(t).open /\ Click(SavePresets(t, Tab(t).presets \cup {Tab(t).local}))
DeletePreset(t) == Tab(t).open /\ \E p \in Tab(t).presets : Click(SavePresets(t, Tab(t).presets \ {p}))
LoadPreset(t) ==
  Tab(t).open /\ \E p \in Tab(t).presets :
    Click(SetFilters(t, p, [Tab(t) EXCEPT !.local = p, !.open = FALSE]))

\* The pills under the bar leave the edited copy alone.
RemovePill(t) ==
  /\ Tab(t).initialized
  /\ \/ /\ Tab(t).filters.from # 0
        /\ Click(SetFilters(t, [Tab(t).filters EXCEPT !.from = 0, !.to = 0], Tab(t)))
     \/ /\ Tab(t).filters.stations # {}
        /\ Click(SetFilters(t, [Tab(t).filters EXCEPT !.stations = {}], Tab(t)))

FiltersNext ==
  \E t \in Tabs :
    \/ MountEffects(t) \/ AddressChanges(t) \/ SyncUrl(t) \/ ReloadTab(t) \/ OpenLink(t) \/ Navigate(t)
    \/ TogglePopover(t) \/ EditLocal(t) \/ Apply(t) \/ Clear(t)
    \/ SavePreset(t) \/ DeletePreset(t) \/ LoadPreset(t) \/ RemovePill(t)

----------------------------------------------------------------------------
(* Properties *)

\* At rest the address of a tab carries its filters, whatever page it is on: a
\* copied link shows what the sender sees.  It does not when the effect relied
\* on an address that was about to change.
UrlFollows ==
  \A t \in Tabs : Tab(t).initialized /\ ~Tab(t).due /\ ~Tab(t).replacing /\ ~Tab(t).skipped =>
    Tab(t).url = FiltersToSearch(Tab(t).filters)

\* A tab whose address has lost its parameters, for a moment or for good, still
\* gets its filters back when it is reloaded, unless another tab stored since.
ReloadKeepsFilters ==
  \A t \in Tabs : Tab(t).initialized /\ Tab(t).url = {} /\ ui.writer \in {t, NoTab} =>
    Restored(Tab(t).url) = Tab(t).filters

FiltersAgree == UrlFollows /\ ReloadKeepsFilters
=============================================================================
