------------------------------ MODULE FilesPage ------------------------------
(***************************************************************************)
(* dashboard/files/page.tsx and the onboarding card of dashboard/page.tsx: *)
(* files become figures.  The files page polls its list and invalidates    *)
(* the figures when a file is done; the figures are mounted on the         *)
(* dashboard only.  What the background job does is FilePipeline.          *)
(***************************************************************************)
EXTENDS DashboardPage

CONSTANTS FileIds

Done(files) == {f \in DOMAIN files : files[f] = "done"}

\* The dashboard has just been opened.  fresh: useSWR asked for the figures less
\* than dedupingInterval ago and does not ask again.  mount tells the instances
\* of a page apart.  seen: the files that were shown as done (of no use to the code).
FilesInit(first) ==
  PageInit([files |-> first, figures |-> Done(first)],
    [at |-> "dashboard", mount |-> 0, fresh |-> TRUE, prevDone |-> {}, seen |-> {}, uploading |-> FALSE,
     loadingExample |-> FALSE, loadingDemo |-> FALSE, demo |-> "no", demoOf |-> {},
     dismissed |-> FALSE])

FilesEffect(q) ==
  CASE q.op \in {"upload", "example", "demo"} /\ q.file \notin DOMAIN server.files ->
         [server EXCEPT !.files = [f \in DOMAIN @ \cup {q.file} |-> IF f = q.file THEN "pending" ELSE @[f]]]
    [] q.op = "reprocess" -> [server EXCEPT !.files[q.file] = "pending"]
    [] q.op = "delete" ->
         [server EXCEPT !.files = [f \in DOMAIN @ \ {q.file} |-> @[f]], !.figures = @ \ {q.file}]
    [] OTHER -> server

FilesAllowed(q) ==
  CASE q.op = "delete" -> q.file \in DOMAIN server.files
    [] q.op = "reprocess" -> q.file \in DOMAIN server.files /\ server.files[q.file] # "processing"
    [] OTHER -> TRUE

\* The background job of a file.
Ingest(f) ==
  /\ f \in DOMAIN server.files /\ server.files[f] \in {"pending", "processing"}
  /\ server' =
       IF server.files[f] = "pending" THEN [server EXCEPT !.files[f] = "processing"]
       ELSE [server EXCEPT !.files[f] = "done", !.figures = @ \cup {f}]
  /\ UNCHANGED <<shown, fetching, reading, writes, ui, clicks>>
IngestFails(f) ==
  /\ f \in DOMAIN server.files /\ server.files[f] = "processing"
  /\ server' = [server EXCEPT !.files[f] = "error"]
  /\ UNCHANGED <<shown, fetching, reading, writes, ui, clicks>>

----------------------------------------------------------------------------
(* The figures and the list *)

\* mutate of all keys that begin with /analytics: mounted ones are asked for
\* again; of the others the record of their last request goes, and with it an
\* answer that is on its way.
Invalidated(asked) ==
  [asked EXCEPT !.figures = IF ui.at = "dashboard" THEN "asked" ELSE "no"]

HasNewDone(before, now) == now \ before # {}

\* The effect of [files].
SeeDone(fields, now) ==
  [fields EXCEPT !.prevDone = now, !.seen = @ \cup now, !.fresh = @ /\ ~HasNewDone(fields.prevDone, now)]

FilesArrive ==
  LET now == Done(reading.files)
      asked == [fetching EXCEPT !.files = "no"] IN
  /\ fetching.files = "read"
  /\ shown' = [shown EXCEPT !.files = reading.files]
  /\ IF ui.at = "files"
     THEN /\ ui' = SeeDone(ui, now)
          /\ fetching' = IF HasNewDone(ui.prevDone, now) THEN Invalidated(asked) ELSE asked
     ELSE ui' = ui /\ fetching' = asked
  /\ UNCHANGED <<server, reading, writes, clicks>>

\* refreshInterval of 3 s; a poll that finds nothing new changes nothing.
Poll ==
  /\ ui.at = "files" /\ fetching.files = "no" /\ shown.files # server.files
  /\ Ask({"files"}) /\ UNCHANGED <<server, shown, reading, writes, ui, clicks>>

\* The record of a request goes 2 s after its answer.
DedupeEnds == ui.fresh /\ fetching.figures = "no" /\ Render([ui EXCEPT !.fresh = FALSE])

\* A link of the sidebar: the page mounts anew, with what useSWR has.  Its
\* question on focus is left out: the figures are only asked for more often.
Visit(at) ==
  LET first == [ui EXCEPT !.at = at, !.mount = @ + 1, !.prevDone = {}, !.uploading = FALSE,
                          !.loadingExample = FALSE, !.loadingDemo = FALSE]
      now == Done(shown.files) IN
  /\ clicks > 0 /\ clicks' = clicks - 1 /\ at # ui.at
  /\ IF at = "files"
     THEN /\ ui' = SeeDone(first, now)
          /\ fetching' = IF now # {} THEN [fetching EXCEPT !.figures = "no"] ELSE fetching
     ELSE /\ ui' = [first EXCEPT !.fresh = TRUE]
          /\ Ask({"files"} \cup (IF ui.fresh THEN {} ELSE {"figures"}))
  /\ UNCHANGED <<server, shown, reading, writes>>

----------------------------------------------------------------------------
(* The files page *)

New == FileIds \ (DOMAIN server.files \cup ui.seen \cup {writes[i].req.file : i \in DOMAIN writes})
Request(op, f) == [op |-> op, file |-> f, mount |-> ui.mount]

OnDrop ==
  /\ ui.at = "files" /\ ~ui.uploading
  /\ \E f \in New : Send(Request("upload", f), [ui EXCEPT !.uploading = TRUE])
LoadExample ==
  /\ ui.at = "files" /\ ~ui.loadingExample
  /\ \E f \in New : Send(Request("example", f), [ui EXCEPT !.loadingExample = TRUE])
DeleteFile(f) == ui.at = "files" /\ f \in DOMAIN shown.files /\ Send(Request("delete", f), ui)
\* The button is there for a file that failed or waits.
Reprocess(f) ==
  /\ ui.at = "files" /\ f \in DOMAIN shown.files /\ shown.files[f] \in {"error", "pending"}
  /\ Send(Request("reprocess", f), ui)

----------------------------------------------------------------------------
(* The onboarding card, for as long as there are no figures *)

Onboarding == ui.at = "dashboard" /\ shown.figures = {} /\ ~ui.dismissed

\* localStorage keeps it.
Dismiss == Onboarding /\ Click([ui EXCEPT !.dismissed = TRUE])

\* The button is there until a file is done.
LoadDemo ==
  /\ Onboarding /\ ~ui.loadingDemo /\ Done(shown.files) = {}
  /\ \E f \in New : SendAwaiting(Request("demo", f), [ui EXCEPT !.loadingDemo = TRUE])

\* await mutate of the figures, after that of the list; then the button is free.
DemoRefreshes ==
  /\ ui.demo = "refresh"
  /\ ui' = [ui EXCEPT !.demo = "wait", !.fresh = ui.at = "dashboard"]
  /\ fetching' = Invalidated(fetching)
  /\ UNCHANGED <<server, shown, reading, writes, clicks>>
DemoLoaded ==
  /\ ui.demo = "wait" /\ fetching.figures = "no"
  /\ Render([ui EXCEPT !.demo = "no", !.demoOf = {}, !.loadingDemo = @ /\ ui.mount \notin ui.demoOf])

\* setState of an instance that is gone does nothing.
FilesFields(q, ok) ==
  LET here == q.mount = ui.mount IN
  CASE q.op = "upload" -> [ui EXCEPT !.uploading = @ /\ ~here]
    [] q.op = "example" -> [ui EXCEPT !.loadingExample = @ /\ ~here]
    [] q.op = "demo" /\ ok -> [ui EXCEPT !.demo = "refresh", !.demoOf = @ \cup {q.mount}]
    [] q.op = "demo" /\ ~ok -> [ui EXCEPT !.loadingDemo = @ /\ ~here]
    [] OTHER -> ui

FilesStale(q, ok) == IF ok THEN {"files"} ELSE {}

FilesNext ==
  \/ \E f \in FileIds : Ingest(f) \/ IngestFails(f) \/ DeleteFile(f) \/ Reprocess(f)
  \/ FilesArrive \/ Poll \/ DedupeEnds \/ \E at \in {"files", "dashboard"} : Visit(at)
  \/ OnDrop \/ LoadExample \/ Dismiss \/ LoadDemo \/ DemoRefreshes \/ DemoLoaded
  \/ ServeAllowed(FilesAllowed, FilesEffect) \/ Reload(FilesStale) \/ Answered(FilesFields, FilesStale)
  \/ \E t \in Tables : FetchRead(t)
  \/ FetchShown("figures", NoEffect)

----------------------------------------------------------------------------
(* Properties *)

\* Whoever saw a file done on the files page finds it in the figures of the
\* dashboard, unless it was deleted since.
FiguresFollowFiles ==
  ui.at = "dashboard" /\ fetching.figures = "no" =>
    (ui.seen \cap server.figures) \subseteq shown.figures

FilesBusyReturns ==
  /\ ui.uploading => Pending(LAMBDA q : q.op = "upload")
  /\ ui.loadingExample => Pending(LAMBDA q : q.op = "example")
  /\ ui.loadingDemo => ui.demo # "no" \/ Pending(LAMBDA q : q.op = "demo")

\* "Invalidate all analytics caches so dashboard re-fetches with new data"
\* (DashboardOnboarding.tsx:62).
DemoShowsItsData ==
  ui.at = "dashboard" /\ Quiet /\ ui.demo = "no" /\ ~ui.loadingDemo => server.figures \subseteq shown.figures
=============================================================================
