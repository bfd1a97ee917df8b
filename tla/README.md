# FinanceDash: verification project

TLA+ models, TLC runs and TLAPS proofs for the dashboard of an operator of
electric-vehicle chargers (this repository). The backend is a FastAPI
application (`apps/api`) with PostgreSQL, Redis and Celery; the frontend is a
Next.js application (`apps/web`) that talks to it through axios and SWR. The
modules are translated from the source; each definition's lines are in the `map`
of `PROJECT.json`.

## 1. Inventory

Everything concurrent in the backend comes from four facts:

* uvicorn runs **two worker processes** (`apps/api/docker-entrypoint.sh:11`), each
  with an event loop: handlers interleave at every `await`, and across processes
  at every statement;
* a request uses **one database transaction**, opened by `get_db`
  (`core/database.py:27-36`) and committed *after the handler returns*, unless the
  handler commits earlier; PostgreSQL runs READ COMMITTED and no query takes a
  row lock, so every "read, decide, write" is a race unless a constraint of the
  schema decides it;
* **Redis, e-mail, storage and Stripe are not part of the transaction**: whatever
  was done to them before the commit stays done when the commit fails;
* **jobs** are FastAPI `BackgroundTasks` (in the memory of the worker, lost with
  it) or Celery tasks (`task_acks_late`, redelivered).

| Component | State | Operations | Interacts with |
|---|---|---|---|
| File pipeline (`routers/files.py`) | `data_files`, `charging_sessions`, stored bytes | upload, load example, reprocess, delete, background job | storage, analytics cache, plan limit |
| Analytics cache (`core/analytics_cache.py`, `routers/analytics.py:36-135`) | version key and DataFrames in Redis | read version, look up, query, store, bump, expire | file pipeline, Redis |
| Sessions (`routers/auth.py`, `core/security.py`) | users' password and active flag, refresh, reset and verification keys in Redis | login, refresh, logout, forgot/reset, verify | Redis, e-mail, the web client |
| Web API client (`web/lib/api.ts`, `AuthContext.tsx`) | access token in memory, refresh cookie | request, 401 interceptor, refresh, login, logout | sessions |
| Membership (`routers/organizations.py`, `auth.py:136-257`, `custom_roles.py`, `admin.py`) | users, roles, invitations, invite codes | invite, register, change role, remove, activate | plan limits, e-mail |
| Permissions (`services/permissions.py`) | custom roles, built-in defaults | resolve, assign, remove | membership |
| Plan access and billing (`core/deps.py`, `routers/billing.py`, `admin.py`) | `organizations.plan/status/trial`, `subscriptions` | Stripe webhooks, admin changes, access gate | Stripe |
| Plan configuration (`core/plan_config.py`) | a JSON file shared by the workers | load, merge, update | membership, admin |
| Alerts (`workers/tasks_alerts.py`, `routers/alerts.py`) | rules with `last_triggered_at` | daily task, manual evaluation, CRUD | Celery, e-mail |
| Leads and public simulator (`routers/public.py`, `routers/leads.py`, `services/simulator.py`) | leads, the active simulator configuration, notification addresses | submit, specialist message, config update | e-mail, landing page, leads page |
| Cost configurations (`routers/organizations.py:425-512`) | one default per organisation | create, update, activate, delete | settings page |
| Saved analyses (`routers/payback.py`, `capex.py`, `user_notes.py`, `feedback.py`) | scenarios with share tokens, CAPEX, notes, feedback | CRUD, share | their pages |
| Analytics computations (`services/analytics.py`, `file_processor.py`) | none (pandas) | aggregations, parsing | file pipeline |
| Investment simulator (`web/lib/investimentoCalc.ts`) | none | `computeProject` and its scenario, sensitivity and insight variants | investment page |
| Pages of the dashboard (`web/app/(dashboard)/dashboard/*`) | `useState` fields, SWR lists, requests on their way | clicks, handlers, effects, revalidation | the API, each other through the SWR cache, the address and `localStorage` |
| Filters, access, map (`FilterContext`, `FilterURLSync`, `FilterBar`; `permissions.ts`, `nav.ts`, `usePlanFeatures`; `useMunicipioScore` and the sources) | context, address, storage; plan flags in cache and storage; module-level caches | see section 2 | every page |
| Public and sign-in pages (`web/app/page.tsx`, `web/app/(auth)/*`, `solucao`) | form fields, a debounced lookup, a simulation | the steps of each form | `public.py`, `auth.py`, IBGE |
| Read-only pages, charts, e-mail templates, migrations | - | presentation and schema | - |

A page of the frontend is concurrent too. A handler runs up to its `await`; what
it captured is old when it goes on; SWR revalidates lists behind it; requests are
answered in any order; effects run after the render that caused them.

### What is hard, per component, and what makes it correct

* **File pipeline.** The plan limit is a count made before the insert; the bytes
  are written before the row; the row is committed before the job exists; two
  jobs of one file may run at once; a deletion unlinks the bytes, bumps the cache
  and only then commits. Correct: rows and "done" appear together, exactly once
  per accepted job; deletion is final; a listed file has bytes; every accepted
  file settles; the limit holds up to the race.
* **Analytics cache.** A load that read its version before a change stores its
  answer after it. Correct: nobody finds an old table under a new version.
* **Sessions and client.** A refresh token is read, checked, deleted and replaced
  in four steps; tokens have no unique id and second granularity; several 401s
  refresh at once; Redis may evict keys. Correct: a rotated or logged-out token
  buys nothing, and a live session is not lost.
* **Membership.** Invitations are checked and consumed without a lock; the last
  owner is guarded by a count in one handler and not in the others. Correct: one
  account per invitation, always an active owner, members within the plan.
* **Billing.** Webhooks are unordered, repeated and identified by organisation
  only. Correct: access follows the subscription's real state.
* **Plan configuration.** A file rewritten by two processes. Correct: an accepted
  update is not lost.
* **Alerts.** The e-mail leaves before the commit that remembers it; a manual
  evaluation writes the same field. Correct: at most one e-mail per rule and
  period, and none swallowed.
* **Pages.** Correct: at rest a page shows what the server holds; a button that a
  handler disabled is enabled again after a failure too; a form that names a row
  has that row's values, whichever answer comes late; two places that show one
  thing agree.
* **Filters, access, map.** Effects of one commit, storage shared by tabs and by
  users, answers of an earlier selection. Correct: address, context and pills
  agree; sidebar, gates and redirects judge by the signed-in user's flags; the
  cities on the map are those of the selected state.
* **Simulator.** One computation written several times, payback found by a first
  crossing, instalments counted from month 0. Correct: the copies agree, the
  CAPEX is paid once, the verdicts of one result do not contradict each other.

## 2. Modules

| Module | Models | Composes / implements |
|---|---|---|
| `FileCatalog` | what the files router promises an observer of the committed database | abstract |
| `FilePipeline` | `routers/files.py`: handlers, storage, background job | implements `FileCatalog` (`CatalogSpec`) |
| `AnalyticsCache` | `core/analytics_cache.py`, `analytics._load_df` | extends `FilePipeline`: its writers are the cache's writers |
| `RefreshTokens` | `auth.py` login, refresh, logout; `core/security.py` | - |
| `ApiClient` | `lib/api.ts`, `AuthContext.tsx` | extends `RefreshTokens`: every server step is a step of the browser model |
| `Members` | `organizations.py` members and invitations, `auth.register` with an invitation, `admin.py` blocking | - |
| `Billing` | `billing.py` webhooks, `admin.py` plan and trial edits, the gate of `deps.py` | - |
| `ProjectSim` | `computeProject` of `investimentoCalc.ts`, one step per month | - |
| `ProjectViews` | scenarios, sensitivity, DRE, expansion, cards, print | extends `ProjectSim`: the copies against the loop |
| `DashboardPage` | what pages share: SWR lists, axios handlers, `useState` (external) | extended by every page module |
| `TeamPage`, `SettingsPage`, `AdminPage`, `LeadsPage`, `CapexPage`, `FilesPage`, `AccountPages`, `InvestmentPage` | one dashboard page each (`AccountPages`: billing, profile, feedback, driver notes) with the server's effect of its requests | `DashboardPage` |
| `SimplePanel` | the simplified analysis | state of its own beside `InvestmentPage` |
| `DashboardFilters`, `PageAccess`, `MapPage` | filters; permissions, plan flags, sidebar, gates, redirect; the map's score | `DashboardPage` |
| `AuthPages`, `LandingPage` | sign-in pages; public simulator and enterprise form | `DashboardPage` |
| `MCPages` | picks the page that is open and bounds the clicks | all pages |
| `MC*` | symmetry sets and instances for TLC | each extends one of the above |
| `*_proofs` | theorems | each extends one of the above and `TLAPS` (`PageViews_proofs` extends `Pages_proofs`) |

Conventions used everywhere:

* a request is an element of `Reqs`; it is idle, or it is at the point after some
  `await` (`pc`, or the field `do` of its record) with what it has read so far.
  One action runs from one await that matters to the next; the last one is the
  commit. `Interrupt` / `Fail` is the exception or dead worker in between: the
  transaction is rolled back and everything outside it stays;
* at the commit the ORM writes the columns whose value differs from what was
  read. Where that matters it is explicit (`Written` in `Billing`) or a guard
  ("a role the member has already is no write" in `Members`);
* definitions introduced by "Slip:" are plausible mistakes of the definition that
  follows them. No specification uses them; the mutants of `PROJECT.json` put one
  in the place of the original to show that the property notices.

### FilePipeline and FileCatalog

`status[f]` is `data_files.status` (or `none`/`deleted` without a row),
`copies[f]` how many times the file's rows are in `charging_sessions`, `blob` the
storage, `version` the organisation's cache version. `UploadCount` →
`UploadSave` → `UploadCommit` → job; `ReprocessLoad` → `ReprocessCommit` → job;
`DeleteUnlink` → `DeleteBump` → `DeleteCommit`; the job is `JobStart`, `JobRead`
or `JobRaise`, `JobCommit`, `JobBump`, or `JobFail`. A request carries its job
because FastAPI runs it after the response in the same worker. The foreign key
with `ON DELETE CASCADE` decides what happens when a job and a deletion of its
file meet: the rows of a deleted file cannot be committed.

`FileCatalog` knows only `none → waiting ⇄ ready → gone` and the number of
ingestions; the refinement mapping is `EntryOf(status)` and `copies`.

### AnalyticsCache

A load reads the version (`GetVersion`), looks up (`Hit`/`Miss`), queries
(`Query`) and stores under the version it read first (`Store`). A frame is
abstracted to how often each file's rows are in it. `Expire` is the TTL of 120 s
or an eviction, `EvictVersion` the eviction of the version key that
`allkeys-lru` permits. Filters are left out: each combination has its own keys
and behaves the same.

### RefreshTokens and ApiClient

The refresh token is a JWT whose only variable claim is the expiry in whole
seconds, so a token *is* its second: `Tokens == 1..MaxTime`. `RefreshGet`,
`RefreshUser`, `RefreshDelete`, `Mint`, `Store` are the awaits of the refresh
handler; login joins at `Mint`. `granted`, `issued`, `ended` and `faults` are
history. `ApiClient` adds the browser: the cookie, the page, the access token
and what each call is doing. A navigation abandons the calls of the page;
whether the browser still honours their `Set-Cookie` is a choice (`Forget`).

### Members

`role[u]`, `active[u]`, `invite[i]`, `offer[i]`; an address stands for its user.
Every handler is a check and a commit. The unique constraint on the address and
the failing `UPDATE` of a deleted invitation are what makes a registration roll
back in `JoinCommit`. `analyst` and `viewer` differ in nothing decided here and
are one value; custom roles and the master flag are left out.

### Billing

`plan` is `organizations.plan`, `row` the subscription row, `Access` the gate
`require_active_plan` for an organisation that is not the mother. Stripe is
external: it issues numbered events, keeps each until acknowledged, and may
deliver any of them at any time, again after a missed answer (`Acknowledge`).
The webhook reads the row, then the organisation, then commits; the
administrator the other way round. `"unpaid"` stands for every status
`status_map` does not list (the map takes it for active) and `"trialing"` is a
trial that Stripe manages, which the gate lets in (`Opens`). `latest` is the
subscription of the event issued last: with several subscriptions over one row it
is the one that decides. A subscription may
start with any status but canceled, since the webhook may miss its first events. The branch that creates a missing row is left out:
`register` is the only code that creates organisations, and it creates the row
in the same transaction.

### ProjectSim and ProjectViews

`AddMonth` is one turn of the loop of `computeProject`: cash flow of the month
(`Revenue`, `OpexBase`, `Shared`, `Tax`, `Fcf`), the instalment, both cumulative
balances, both paybacks (`First`). `EditInputs` is the form: another project
starts. `ProjectViews` has the other computations of the file and of the page as
functions of a project, each translated from its own lines, because the question
is whether they agree. Money is integer, and the projects of the instance make
every division exact (checked by `ExactAssumption`); discount factors are integers of
one scale (the proofs only need that they do not grow); the insights are modelled
by their conditions. NPV is `cumD` at the horizon; IRR, the fixed-income line and
the real-data estimate are left out.

### DashboardPage and the pages

`server` holds the tables the page asks for, `shown` what SWR has, `ui` the
`useState` fields, `writes` the handlers between their `await` and their answer.
`Click` changes fields, `Send` runs a handler to its request, `Serve` is the
server committing or refusing (`...Effect`, `...Allowed` of each module are
translated from the router), `Answered` is the rest of the handler
(`...Fields` what it sets, `...Stale` which keys it passes to `mutate`),
`FetchRead`/`FetchShown` a revalidation in two steps, so that its answer may be
old. A page module then has one action per handler or control of the page. What
the user typed is kept only as far as something depends on it: a form is "the values of row r".

* `SettingsPage`, `CapexPage`, `AdminPage`: forms that stay open, are closed and
  reopened for another row while the save is on its way.
* `TeamPage`: a table is what its endpoint answers (`Joined`): a removed member
  stays listed as inactive, an invitation carries the name of its role, a role the
  number of its active members; when a role goes, the keys that name it become null.
* `AdminPage`: of `/admin/stats` the number of organisations, which only a
  deletion changes and asks for again.
* `LeadsPage`: time is hours; UTC days against local midnights (`UtcOffset`); the
  period is one of three or typed, its two dates in any order.
* `FilesPage`: polling, and the figures of other pages that a file which turns
  done must invalidate.
* `DashboardFilters`: effects are explicit (`MountEffects`, `SyncUrl`) and
  `AddressChanges` is the router.
* `PageAccess`: `NAV`, `ROUTE_PERMISSIONS` and `GATES` are the tables of the
  code; the flags are kept where the code keeps them (SWR cache, `localStorage`).
* `MapPage`: each source arrives or fails by itself; scores are compared by
  cross-multiplication instead of division.
* `AuthPages`: the lookup of the code is a list of questions answered in any
  order; a registration locks the organisation's name for an invitation.
* `SimplePanel`: effects run before anything else (`SuggestionDue`).
* `LandingPage`: step 1 and step 2, the cities of IBGE, the simulation and its
  chart, the specialist message.

## 3. Runs

All bounds are constants of the cfg; nothing else is restricted.
`CHECK_DEADLOCK FALSE` appears where the bounded history runs out (file ids and
jobs, seconds and posts, the clicks of a page), which is the only way those
systems stop; `Members`, `Billing` and the simulator are checked for deadlock.

| Run | Specification and bounds | What it shows |
|---|---|---|
| `file_pipeline` | 3 files, 2 requests, limit 1, 2 jobs per file, 1 failure; symmetry | the invariants below, and that each step is a step of `FileCatalog` |
| `file_crash` (violation) | 1 file, 1 request, 1 failure, fair job | `ProcessingSettles` fails: a dead worker leaves a file pending or processing for ever |
| `cache` | 1 file, 2 writers, 1 load, 2 jobs, 1 failure, fair | commit-then-bump hides no ingestion; stale entries go; files settle until something is lost |
| `sessions` | 2 requests, 3 seconds, 5 posts, 1 failure | rotation is bounded and never ends the last session |
| `client` | 2 calls, 2 seconds, 3 posts, 1 failure, fair | the cookie stays usable; every call settles |
| `client_burst` (violation) | the same without failure | `NoSpuriousLogin` fails: two 401s, two refreshes, one of them with a rotated token |
| `members` | 3 people, 1 invitation, 2 requests, limit 3 | invitations are bounded, a cancelled one is dead, only races or the platform's administrator take the last manager |
| `members_owner` (violation) | 3 people, 2 invitations, **1** request | `RemovalSparesLastOwner` fails without any race |
| `billing` | 2 subscriptions, 1 price, 2 events, edits to free and starter, 2 requests | no race conjures access; in-order delivery leaves the gate as the last event says; the copies of the plan part by a lost update only |
| `billing_pending` (violation) | 2 subscriptions, 3 events, **1** request | `PendingPaymentBlocked` fails without any race |
| `simulator` | 24 months; about sixty projects over payment plans, CAPEX and OPEX modes, demand, tax and depreciation | the figures of a result agree with each other, with the forms and with every copy of the computation |
| `pages` | one page at a time; 2 requests in flight; 3 to 7 clicks per page (`Patience`), no bound on reads, answers and refusals | pages settle, buttons come back, forms show their row, views agree, access follows the user, the panel follows its inputs |

Why the bounds are enough: every race in this code is between two actors over
one row or key, so two requests meet in every order; `QuotaOvershootBounded`
needs a file more than limit plus racing requests allow, hence three;
`SessionSurvivesRotation` and `RotationBounded` need a token that is issued,
rotated by two and issued again, hence three seconds and five posts; `Billing`
needs an event that overtakes another, hence two. The failure bound of one
places one failure at every point of every behaviour. On a page, two requests in
flight are every overtaking of two, and the clicks are as many as the longest
hazard of the page needs: open a form, save, close, open another, and the answer.
`Patience` is 0 for the simplified panel because `SimplePanel` counts nothing; its
state space is finite. Rows, roles, states, orders and plans come in twos, the
least for which an answer can be of the wrong one; cities in threes, for a
ranking. The simulator needs 24 months for what happens after month 12 and at the
end of a financing of 24. What does not depend on the bounds is proved (section
5).

### Properties worth a word

* `QuotaOvershootBounded`, `RotationBounded`, `InvitationBounded`: the code does
  check-then-act without a lock. The strict limits (the plan limit, "um token, um
  sucessor", "um convite, uma conta") do not hold; these say how far off the code
  can be, and that being off needs concurrency.
* `BytesKept`: without failures, a listed file has its bytes unless a deletion of
  it is about to commit. It says nothing of a deletion whose commit fails, which
  does leave a row without bytes (`files.py:492`).
* `CookieStaysUsable` excludes two answers that carry the same string: tokens of
  one second are equal, and the delete of one removes the other.
* `LastManagerLeavesByRace`, `TornOnlyByRace`: action properties that name the
  only way a good state is left, a commit made on behalf of something that
  changed after it was read.
* `AccessWasBought` holds for every order, repetition and overlap of webhooks;
  `SettledAccess` states what in-order delivery adds, and where it stops: with two
  subscriptions of one organisation the last event decides, whichever it is about.
  `ActiveIsAdmitted` and `CanceledIsBlocked` are what a reader of `deps.py` would
  expect beyond that, with two subscriptions and without order, and do not hold
  (section 6).

* `ListsSettle` speaks of a page at rest (no request on its way, no list
  asked for). It catches a handler that forgets a list, and a late answer that
  replaces a newer one. Two pages do not ask for everything they change, and the
  property leaves out what they show of it: the administrator's page the users of a
  deleted organisation, until the next focus; the team's page the name of the role
  beside an invitation and the number of members beside a role, until the page is
  opened again (`revalidateOnFocus` is off). Section 6 has the traces of the second.
  On the files page it is about files seen done: their rows are in the figures.
* `FormsShowTheirRow` is about late answers of a save: it may close a form but
  not leave it open with another row's values under this row's name; for the
  advanced panel the kWh and the tax regime follow what they are computed from
  unless an import or a load wrote them (the exception is the code's; see
  section 6).
* `ViewsAgree` relates two places on the screen that are computed apart. The card
  of the public simulator names the month in which the chart crosses zero, or the
  last one of a chart that ends short by no more than the card's rounding.
* `PaybackOrdered`, `PaybackLasts`, `PaysOnce` and `InsightsAgree` are about a
  `Coherent` project: with separate instalments and a total CAPEX below the
  charger's price the code pays a negative instalment, and nothing in the form
  prevents it.
* `PaybackLasts` needs a `Maturing` project: occupancy that does not fall,
  percentages that leave of the tariff what the energy costs, no tax shield that
  ends within the horizon. Otherwise the badge may show a month that was a spike.
* `PaysOnce` bounds what was paid for a `Coherent` project without interest; that
  all of it is paid with the last instalment is said of undivided payments.
* `OfferIsCharged` needs a charger that costs no more than the total: the offer is
  clamped at zero and the loop's instalment is not.
* `CostsDelay` needs percentages that leave a share of the revenue.
* `DREReconciles` holds within the life of the equipment; after it the yearly
  statement goes on depreciating while the months do not.
* `ProjectionAgrees` of the simplified panel compares its card, chart, table and
  scenario formula, which the code writes twice (`calcSimple`, `netForOcc`). That
  more occupancy never earns less needs split and tax that together are at most
  the revenue: a user who types more loses more with every kWh.

### What the constants must satisfy

`ExactAssumption` and `VariantsAssumption` (simulator), `ExactTermsAssumption`
(panel): the divisions of a project leave no remainder, because the program
computes with floats and rounds only what it prints, while the models compute
with integers; a comparison of two formulas is meaningful only where neither
rounds. They are conditions on the figures of the instance, which TLC evaluates,
and they hold of any project stated in a small enough unit. `DiscountAssumption`:
the discount rate is not negative. `UsersAssumption`: every user has a role of
the code. The other assumptions give types.

## 4. Fairness

Fair: the steps of a background job once it was accepted (the event loop runs
it), the steps of a load and the expiry of keys (Redis honours `EX`), and the
steps by which the server finishes a request and the browser runs its callbacks.
Not fair: users, administrators, Stripe, the clock, failures. `ProcessingSettles`
is refuted under the same fairness under which `SettlesUntilLoss` holds: what
goes wrong is the lost job, not a job that is never scheduled.

## 5. Proofs

All for arbitrary finite sets of actors and arbitrary bounds, from the `ASSUME`s
named `...Assumption` that the modules state and TLC evaluates.

* **FilePipeline_proofs.** `PipelineInv` = `TypeOK` ∧ `RequestsMatchFiles` ∧
  `NoRowsWithoutFile` ∧ `DoneMeansIngested` is inductive. `DoneMeansIngested`
  alone is not: a step of an upload must know that no file stands behind the id
  yet, and a reprocess that the file it loaded cannot have lost its rows without
  being deleted. `OneIngestionPerJob` counts the requests that still owe an
  ingestion; `QuotaOvershootBounded` needs `QuotaInv`, which also counts the
  uploads that have passed the check. `ImplementsCatalog` maps each action to a
  `FileCatalog` action or a stutter. `ListedFilesHaveBytes` needs `BytesInv`: the
  bytes an upload has stored are still there when its row is inserted, because no
  deletion can find a file before it has a row.
* **AnalyticsCache_proofs.** `CacheInv` adds that no cached or in-flight frame
  belongs to a version that does not exist yet, that no frame has rows of a file
  that was never listed, and that the current version's frame and every load
  that could still store under it are fresh up to a job that is about to
  announce itself. `CacheTypes` is its type conjunct.
* **RefreshTokens_proofs.** `RotationBounded` is not inductive: the step that
  finds a token must know that a key in Redis still has room for a full round of
  readers (`Room2`), which the delete then gives away. `ClientKeepsServer` shows
  that every step of `ApiClient` is a server step or leaves the server alone, so
  the same invariants hold of the composition. `CookieUsable` rests on
  `CookieInv`, about tokens stored exactly once: while the answer that carries one
  is on its way (`OnItsWay`) no other answer carries it and nobody has presented
  it, so nobody can have deleted its key; from then on only a refresh that
  presented it deletes it, and that refresh is the one that replaces the cookie.
* **Members_proofs.** `MembersInv` = types ∧ `RequestShape`; the three properties
  follow per action.
* **Billing_proofs.** `BillingInv` = types ∧ `RequestsHold` ∧ `EventsBacked` ∧
  `StatusBacked`. The point of `StatusBacked` is the column-wise write: an upsert
  whose status equals the one it read writes nothing, so the proof needs that a
  status read as not trialing can never have become trialing since, as long as
  Stripe has reported no subscription in good standing.
  `OrderSettlesAccess` needs `OrderInv`: with deliveries in order one request is
  at work, what it read is still so and its event is the oldest (`HoldsOldest`);
  either the newest event, which is about `latest`, is still owed or nothing is and
  plan and status are what it said (`LastWord`); the other subscriptions play no
  part. A repeated delivery is always of that oldest event.

* **ProjectSim_proofs.** Type correctness over all projects (each stage of a month
  is an integer, an instalment included: a power of a positive number is
  positive). `PaybackOrder` by summation by parts: while the balance has
  never reached zero, the discounted balance is at most the balance at the
  month's factor, because factors do not grow and the first payment is not
  negative (`Coherent`). The same invariant gives `InsightAgreement`: a positive
  net present value means that the balance has reached zero. `PaymentsPayOnce`
  needs closed forms: `PaysInv` says that what was paid and what was depreciated
  are given by the number of the month. `PaybackPersists` rests on `LastsInv`:
  once in the black, the last month was not a loss, and a maturing project's next
  month is not worse (`SalesGrow`, `MarginGrows`, `FlowGrows`), the change from
  ramp to operation after month 12 included.
  The other computations of the page (`ProjectViews`) are recursive
  functions over months; facts about them are proved by well-ordering, with the
  set of months where the fact holds in place of the operator an induction theorem
  would take. `StatementReconciles` adds up a year: a sum of scaled parts is the
  scaled sum (`SumScales`). `OffersAreCharged` compares the offer with month 0 and
  month 1. `CostsNeverHasten`: a project with higher costs or a lower tariff has at
  each month a balance that is not higher. `CopiesNeverDisagree` needs `LoopInv`:
  the loop has, after t months, what each copy of the loop has at t (balance, first
  month in the black, first year).
* **Pages_proofs.** The state machine with all pages, for any number of requests in
  flight, rows and clicks.
  - `SuggestionStays` from `PanelInv` (the CAPEX in force is the suggestion last
    made unless somebody decided otherwise); `ProjectionsAgree` adds facts on
    rounding quotients and the monotonicity of the profit in the occupancy.
  - `AccessConsistent` from `AccessInv`: the flags in force are those of the user
    signed in, wherever the code keeps them.
  - `FormsStay` from `FormsInv`: for each page with forms, what an answer on its
    way may still do to a form. On the sign-in pages (`AuthForms`) at most one
    request is owed, it is the one the page shows as pending, and every answer to
    a lookup is honest about the code it was asked for.
  - `ListsStay` from `SettleInv`: every list is the server's, or is being asked
    for in a way that will show it, or is owed by a handler that was granted and
    has not gone on (`Owing`); of the team's lists, what `Tells` compares. The files page has its own (`FilesInv`): uploads are
    new files, every read is accounted for, and the figures of a file once seen done
    are kept.
  - `BusyFlagsStay` from `BusyInv`: on each of the pages a flag that is up has its
    request among those whose handler has not gone on; a page at rest owes none.
* **PageViews_proofs.** `ViewsStay` from `ViewsInv`, one conjunct per page, beside
  `FormsInv` and `BusyInv`, which say what a late answer may still do. A sum over a
  finite set is unfolded by induction on the set (`SumIs`, `SumDifference`).
  - Filters: writing filters to an address and reading it back returns them
    (`RoundTrip`); a tab whose effects have run has them in its address or on the
    way there (`TabInv`); what is stored is of the tab that wrote last (`FiltersInv`).
  - Map: what is still asked for and not cancelled is about the state selected
    (`MapInv`); a fleet that is no smaller over no more points has no smaller a gap
    (`GapsRank`), although both are rounded, and so no smaller a score.
  - CAPEX: `CardTells` for one record; for the total, the sum of the positions is
    the sum of the net results less that of the investments. What is shown, edited or
    on its way is a record (`CapexRecords`).
  - Leads: the page that is open has rows (`LeadsInv`), because a new filter
    returns to the first one; each lead of the window falls on one
    day of the trend (`WindowDays`, `DaysAddUp`).
  - Public simulator: no month earns less than the first, so a chart is above the
    line that the card divides by (`ChartRises`); a chart that has not crossed zero
    by month 24 has a card beyond it, or one rounded down to it (`CardsMatch`).

Attempts that failed and what they changed: a `CASE` with overlapping guards
does not mean "the first that holds" in TLA+, so the answers whose guards
overlapped are now disjoint; `ProjectionAgrees` was
false for a split and a tax of more than the revenue, which no term of the instance had;
`OfferIsCharged` and `PaysOnce` needed the conditions above, which hold of the projects of the
instance by accident; and `CardMatchesChart` asked for a chart that has crossed
zero whenever the card names a month of it, which is false when that month was
rounded (section 6): the statement now says by how much, and the instance has such
a configuration. `CapexAssumption`, `LeadsAssumption` and `MapAssumption` say
what the proofs use of the rows: finite sets, whole figures that are not negative.

Only model-checked: liveness (`SettlesUntilLoss`, `StaleEntriesGoAway`, `CallsSettle`),
which needs fairness and `ENABLED`, out of this prover's reach; and the violations.
Every other property that a passing run checks, invariants and action properties, is
proved.

## 6. Divergences met while modelling

Four are runs (section 3) with their quotes under `findings`.

The following are definitions of the modules that TLC refutes, each stating what a
comment or a label of the program says. To see the trace, put the name in place
of the properties of the configuration named (as `PROPERTY` where it is marked *step*, else as `INVARIANT`).

| Definition | Configuration | What happens |
|---|---|---|
| `CacheSeesDeletions` | `AnalyticsCache.cfg` | `analytics_cache.py:4-6` says a bump invalidates; `delete_file` bumps before its commit, so a load in between keeps the deleted rows until the TTL |
| `LogoutRemovesCookie` (*step*) | `ApiClient_burst.cfg` | `auth.py:370` says logout removes the session; a refresh in flight stores a new key and sets the cookie again |
| `KwhStaysInSync` | `Pages.cfg` | `investimento/page.tsx:1329` "sempre sincronizado": loading, importing or filling writes another value and no effect follows |
| `EditorOfItsRole` | `Pages.cfg` | `RoleEditor` keeps the fields of the role it was mounted for when another role is opened under the heading of that one (`team/page.tsx:536`); saving writes them to it |
| `ActiveIsAdmitted` | `Billing_pending.cfg` | `deps.py:64` "Plano pago com assinatura ativa → permitido": nothing keeps an organisation from paying twice, and the deletion of one subscription is applied to the only row without comparing `stripe_subscription_id` (`billing.py:262-270`): delivered once and in order, the end of the old one closes the dashboards while the new one is active |
| `CanceledIsBlocked` | `Billing_pending.cfg` | `deps.py:66` "Plano pago mas assinatura cancelada → 402": the webhook compares no times (`billing.py:189-192`), so an update delivered after the deletion writes "active" again and nothing corrects it |
| `InvitationOfItsRole` | `Pages.cfg` | an invitation shows its role (`team/page.tsx:725`); `saveRole` and `deleteRole` (`:378-408`) do not ask for `/org/invitations`, so the old name stays |
| `RoleCountIsOfMembers` | `Pages.cfg` | "{role.member_count} membros" (`team/page.tsx:588`): assigning a role or removing a member asks for the members only |
| `LoadingNamesState` | `Pages.cfg` | `loading` is not reset when the state is deselected, or comes from the cache, while another is on its way: the overlay stays for good and names no state or the wrong one (`InstallationMap.tsx:226`) |
| `DemonstrationIsLabelled` | `Pages.cfg` | `usingMock` belongs to the mount that saw the failure; the next visit shows made-up chargers without the label (`InstallationMap.tsx:209`) |
| `RegistrationJoinsItsOrganisation` | `Pages.cfg` | the button says "Ingressar em" the organisation of the last answered lookup and the form sends the code as it is now (`register/page.tsx:239`) |
| `NotesAreOfTheirUser` | `Pages.cfg` | text typed for one driver stays in the drawer and is saved for the next (`UserDetailDrawer.tsx:34`) |
| `ToastFollowsPayment` | `Pages.cfg` | "Assinatura ativada com sucesso!" is shown for the address, before or without the webhook (`billing/page.tsx:60`) |
| `DemoIsShown` | `Pages.cfg` | "dashboard re-fetches with new data": the request returns before the job is done (`DashboardOnboarding.tsx:62`) |
| `LeadsCityInItsState` | `Pages.cfg` | a late list offers cities of the former state (`app/page.tsx:280`) |
| `SpecialistMessageWasSent` | `Pages.cfg` | a late answer marks the message of the next simulation as sent (`app/page.tsx:318`) |
| `CashIsCapex` | `ProjectSim.cfg` | "À vista" with one instalment and interest charges interest: the instalment of month 0 is `pmt(capex, r, 1)` |
| `RegimeIsShown` | `Pages.cfg` | while no regime is chosen the panel shows "SN - sobre a receita" (`investimento/page.tsx:895`) and taxes the profit |
| `EditKeepsActive` (*step*) | `Pages.cfg` | the form does not send `is_default` and `update_cost_config` writes every field of its body, the default `False` too (`organizations.py:475`, `schemas/organization.py:36`): editing the active cost configuration leaves none active |

Others follow from reading alone, kept here so that nobody models the document
instead:

* `files.py:379` promises the plan limit; count-then-insert lets racing uploads
  pass it (bounded by `QuotaOvershootBounded`);
* `files.py:500` says reprocess is for files in error; it accepts done files and
  their rows are inserted again (`OneIngestionPerJob` counts accepted jobs, not
  one per file);
* `auth.py:323` says the previous token is invalidated at once; two refreshes
  that read before either deletes both get a successor (`RotationBounded`);
* upload answers 403 where its documentation lists 402, and its limits are a
  table of their own that the administrator's plan configuration does not change;
* the team page reads `custom_role_id` of a member (`team/page.tsx:440`), which
  `MemberResponse` (`schemas/organization.py:12-21`) does not have: badge and select
  never show a custom role, and `removeCustomRole` is never reached; the model has
  no such action. The schema also declares `id: str` over a UUID column; the model
  takes the list as answered;
* `admin/page.tsx:259-301` asks for `/admin/stats` after a deletion only: blocking
  an organisation or a user leaves the active counts as they were;
* the DRE page subtracts taxes from a result that `analytics.py:529-542` has
  already reduced by them (`dre/page.tsx:54-69`), while the manual calls EBITDA
  the net profit;
* the payback card of the public simulator falls back to a payback without growth
  beyond 24 months, while the chart and the ROI beside it grow; and without growth
  its month is rounded (24.04 months are shown as 24, whose bar is still
  negative) where `app/page.tsx:1116` says "so card matches chart".
  `CardMatchesChart` allows for this; the instance has the configuration of
  24.04 months.

## 7. Not modelled, and why

* The evaluation of alerts (Celery task, manual evaluation, the bell) and the
  plan configuration file: candidates for the next modules; their hazards are
  listed. So are the one-time links of verification and reset.
* The tab of saved simulations, the audit list, DRE, time series, stations,
  report and manual pages: they show one answer of the API and keep no state that
  a handler could get wrong.
* The Overpass hook and the layers of the map: Leaflet and a public service.
* `services/analytics.py`, `services/payback.py`, `file_processor.py`: pandas
  and floating point; IRR and the fixed-income line of `investimentoCalc.ts`
  likewise.
* Organisation invite codes and the master flag in `Members`.
* On the pages, a write that commits and whose answer is lost: a request is granted
  or refused, and the handler knows which. A lost answer takes the handler's error
  path with the row changed, so the lists it would ask for stay old until they are
  asked for again; `ListsSettle` is about answered requests. On the server such
  failures are modelled (`Interrupt` in `FilePipeline` and `RefreshTokens`, `Fail` in
  `Members`, the missed acknowledgement in `Billing`).
* The request for `/auth/me` that follows a login or a reload has an outcome,
  success or failure, but no steps of its own (`ApiClient`).
* The refusal of an invitation for somebody who is a member (`organizations.py:201`):
  an address is not kept in `Members` and a registration does not compare it.
* E-mail templates, audit log, charts, migrations.
