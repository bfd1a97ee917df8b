---------------------------- MODULE FileCatalog ----------------------------
(***************************************************************************)
(* What the files router promises about one organisation's catalogue of    *)
(* uploads, as an observer of the committed database sees it: a file       *)
(* appears once, ingestions of it are all-or-nothing, and deleting it is   *)
(* final and takes every session row with it.  FilePipeline, with its      *)
(* handlers and background jobs, is shown to implement this.               *)
(***************************************************************************)
EXTENDS Naturals

CONSTANT Files          \* ids a file can get (uuid4, never reused)

VARIABLES
  entry,                \* entry[f]: "none", "waiting", "ready" or "gone"
  ingested              \* ingested[f]: committed ingestions of f's rows

cvars == <<entry, ingested>>

Listed(f) == entry[f] \in {"waiting", "ready"}

Init ==
  /\ entry = [f \in Files |-> "none"]
  /\ ingested = [f \in Files |-> 0]

Add(f) ==
  /\ entry[f] = "none"
  /\ entry' = [entry EXCEPT ![f] = "waiting"]
  /\ UNCHANGED ingested

\* The rows and the status that announces them change together.
Ingest(f) ==
  /\ Listed(f)
  /\ entry' = [entry EXCEPT ![f] = "ready"]
  /\ ingested' = [ingested EXCEPT ![f] = @ + 1]

\* A re-run or a failure withdraws the announcement, never the rows.
Reopen(f) ==
  /\ entry[f] = "ready"
  /\ entry' = [entry EXCEPT ![f] = "waiting"]
  /\ UNCHANGED ingested

Remove(f) ==
  /\ Listed(f)
  /\ entry' = [entry EXCEPT ![f] = "gone"]
  /\ ingested' = [ingested EXCEPT ![f] = 0]

Next == \E f \in Files : Add(f) \/ Ingest(f) \/ Reopen(f) \/ Remove(f)

Spec == Init /\ [][Next]_cvars
=============================================================================
