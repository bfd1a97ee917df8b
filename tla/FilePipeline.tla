---------------------------- MODULE FilePipeline ----------------------------
(***************************************************************************)
(* Upload, background processing, reprocessing and deletion of the Excel   *)
(* files of one organisation (routers/files.py).  A request is a coroutine *)
(* of a uvicorn worker: it runs the handler and then, after the response,  *)
(* the BackgroundTasks job it was given, so one actor carries both.  Each  *)
(* action runs from one await that another actor can observe to the next;  *)
(* the database is PostgreSQL under READ COMMITTED, so what an actor wrote *)
(* is seen by the others only at its commit.                               *)
(***************************************************************************)
EXTENDS Naturals, FiniteSets

CONSTANTS
  Files,       \* ids an uploaded file can get
  Reqs,        \* requests that can be in flight at the same time
  NoFile,      \* target of an idle request
  Limit,       \* PLAN_FILE_LIMITS[org.plan]
  MaxJobs,     \* bound: background jobs ever accepted for one file
  MaxFaults    \* bound: exceptions, worker deaths and Redis errors

ASSUME FilePipelineAssumption ==
  /\ IsFiniteSet(Files)
  /\ IsFiniteSet(Reqs)
  /\ NoFile \notin Files
  /\ Limit \in Nat \ {0}
  /\ MaxJobs \in Nat \ {0}
  /\ MaxFaults \in Nat

VARIABLES
  status,      \* status[f]: data_files.status, or "none" / "deleted"
  copies,      \* copies[f]: how many times f's session rows are in the table
  blob,        \* files whose bytes are in the storage backend
  version,     \* analytics cache version of the organisation (Redis)
  pc,          \* pc[r]: where request r is
  target,      \* target[r]: the file it works on
  seen,        \* seen[r]: the status reprocess_file loaded
  accepted,    \* accepted[f]: jobs handed to BackgroundTasks for f (history)
  faults       \* failures so far (bounded by MaxFaults)

vars == <<status, copies, blob, version, pc, target, seen, accepted, faults>>

FileStatus == {"pending", "processing", "done", "error"}

\* pc values: upload_file is counted, saved; delete_file is unlinked, bumped;
\* reprocess_file is loaded; the job is queued, marked, read, failed, announce.
JobSteps  == {"queued", "marked", "read", "failed", "announce"}
Steps     == {"idle", "counted", "saved", "unlinked", "bumped", "loaded"} \cup JobSteps

Live == {f \in Files : status[f] \in FileStatus}

Init ==
  /\ status = [f \in Files |-> "none"]
  /\ copies = [f \in Files |-> 0]
  /\ blob = {}
  /\ version = 0
  /\ pc = [r \in Reqs |-> "idle"]
  /\ target = [r \in Reqs |-> NoFile]
  /\ seen = [r \in Reqs |-> "none"]
  /\ accepted = [f \in Files |-> 0]
  /\ faults = 0

At(r, step) == pc[r] = step
Goto(r, step) ==
  /\ pc' = [pc EXCEPT ![r] = step]
  /\ UNCHANGED <<target, seen>>
Finish(r) ==
  /\ pc' = [pc EXCEPT ![r] = "idle"]
  /\ target' = [target EXCEPT ![r] = NoFile]
  /\ seen' = [seen EXCEPT ![r] = "none"]
Accept(r, f) ==
  /\ Goto(r, "queued")
  /\ accepted' = [accepted EXCEPT ![f] = @ + 1]

\* bump_analytics_cache: INCR in Redis; an exception is suppressed.
Bump ==
  \/ version' = version + 1 /\ UNCHANGED faults
  \/ faults < MaxFaults /\ faults' = faults + 1 /\ UNCHANGED version

----------------------------------------------------------------------------
(* upload_file and load_example *)

\* Slip: the limit compared with > instead of >=.
UploadCountOffByOne(r, f) ==
  /\ At(r, "idle")
  /\ Cardinality(Live) <= Limit
  /\ status[f] = "none" /\ f \notin blob
  /\ \A q \in Reqs : target[q] # f
  /\ pc' = [pc EXCEPT ![r] = "counted"]
  /\ target' = [target EXCEPT ![r] = f]
  /\ UNCHANGED <<status, copies, blob, version, seen, accepted, faults>>

\* The plan limit is compared with a count of the committed rows; the uuid
\* the file will get is fresh.
UploadCount(r, f) ==
  /\ At(r, "idle")
  /\ Cardinality(Live) < Limit
  /\ status[f] = "none" /\ f \notin blob
  /\ \A q \in Reqs : target[q] # f
  /\ pc' = [pc EXCEPT ![r] = "counted"]
  /\ target' = [target EXCEPT ![r] = f]
  /\ UNCHANGED <<status, copies, blob, version, seen, accepted, faults>>

\* The bytes go to storage before the row exists.
UploadSave(r) ==
  /\ At(r, "counted")
  /\ blob' = blob \cup {target[r]}
  /\ Goto(r, "saved")
  /\ UNCHANGED <<status, copies, version, accepted, faults>>

\* The row is committed as pending, the audit entry at the end of the
\* handler, and the job starts after the response.
UploadCommit(r) ==
  LET f == target[r] IN
  /\ At(r, "saved")
  /\ status' = [status EXCEPT ![f] = "pending"]
  /\ Accept(r, f)
  /\ UNCHANGED <<copies, blob, version, faults>>

----------------------------------------------------------------------------
(* reprocess_file *)

ReprocessLoad(r, f) ==
  /\ At(r, "idle")
  /\ f \in Live /\ status[f] # "processing"
  /\ accepted[f] + Cardinality({q \in Reqs : At(q, "loaded") /\ target[q] = f}) < MaxJobs
  /\ pc' = [pc EXCEPT ![r] = "loaded"]
  /\ target' = [target EXCEPT ![r] = f]
  /\ seen' = [seen EXCEPT ![r] = status[f]]
  /\ UNCHANGED <<status, copies, blob, version, accepted, faults>>

\* The ORM writes only what differs from what it loaded: nothing for a file
\* seen pending.  An UPDATE that matches no row is a StaleDataError (500).
ReprocessCommit(r) ==
  LET f == target[r] IN
  /\ At(r, "loaded")
  /\ IF seen[r] = "pending"
       THEN Accept(r, f) /\ UNCHANGED status
       ELSE IF f \in Live
         THEN Accept(r, f) /\ status' = [status EXCEPT ![f] = "pending"]
         ELSE Finish(r) /\ UNCHANGED <<status, accepted>>
  /\ UNCHANGED <<copies, blob, version, faults>>

----------------------------------------------------------------------------
(* delete_file *)

\* The bytes go first, and a storage error is suppressed.
DeleteUnlink(r, f) ==
  /\ At(r, "idle")
  /\ f \in Live
  /\ blob' \in {blob, blob \ {f}}
  /\ pc' = [pc EXCEPT ![r] = "unlinked"]
  /\ target' = [target EXCEPT ![r] = f]
  /\ UNCHANGED <<status, copies, version, seen, accepted, faults>>

DeleteBump(r) ==
  /\ At(r, "unlinked")
  /\ Bump
  /\ Goto(r, "bumped")
  /\ UNCHANGED <<status, copies, blob, accepted>>

\* get_db commits once the handler has returned; the session rows go with
\* the file (ON DELETE CASCADE).  A second deletion matches no row.
DeleteCommit(r) ==
  LET f == target[r] IN
  /\ At(r, "bumped")
  /\ status' = [status EXCEPT ![f] = "deleted"]
  /\ copies' = [copies EXCEPT ![f] = 0]
  /\ Finish(r)
  /\ UNCHANGED <<blob, version, accepted, faults>>

----------------------------------------------------------------------------
(* _process_file_background *)

\* get and the first commit: a write of "processing" over "processing" is no
\* write, so taking the two together loses no outcome.
JobStart(r) ==
  LET f == target[r] IN
  /\ At(r, "queued")
  /\ IF f \in Live
       THEN status' = [status EXCEPT ![f] = "processing"] /\ Goto(r, "marked")
       ELSE Finish(r) /\ UNCHANGED status
  /\ UNCHANGED <<copies, blob, version, accepted, faults>>

\* Slip: the status is committed as done before the rows are inserted.
JobReadAnnouncesEarly(r) ==
  /\ At(r, "marked")
  /\ target[r] \in blob /\ target[r] \in Live
  /\ status' = [status EXCEPT ![target[r]] = "done"]
  /\ Goto(r, "read")
  /\ UNCHANGED <<copies, blob, version, accepted, faults>>

JobRead(r) ==
  /\ At(r, "marked")
  /\ target[r] \in blob
  /\ Goto(r, "read")
  /\ UNCHANGED <<status, copies, blob, version, accepted, faults>>

\* Missing bytes, a storage error, a spreadsheet the parser refuses.
JobRaise(r) ==
  /\ At(r, "marked")
  /\ Goto(r, "failed")
  /\ UNCHANGED <<status, copies, blob, version, accepted, faults>>

\* Slip: rows without a foreign key and a status written without a check.
JobCommitUnchecked(r) ==
  LET f == target[r] IN
  /\ At(r, "read")
  /\ copies' = [copies EXCEPT ![f] = @ + 1]
  /\ status' = [status EXCEPT ![f] = "done"]
  /\ Goto(r, "announce")
  /\ UNCHANGED <<blob, version, accepted, faults>>

\* All chunks and the status in one transaction.  If the file was deleted
\* meanwhile the foreign key, or the UPDATE that matches no row, raises.
JobCommit(r) ==
  LET f == target[r] IN
  /\ At(r, "read")
  /\ IF f \in Live
       THEN /\ copies' = [copies EXCEPT ![f] = @ + 1]
            /\ status' = [status EXCEPT ![f] = "done"]
            /\ Goto(r, "announce")
       ELSE Goto(r, "failed") /\ UNCHANGED <<status, copies>>
  /\ UNCHANGED <<blob, version, accepted, faults>>

\* Slip: the bump inside the retried block, so that the job starts over.
JobBumpRetries(r) ==
  /\ At(r, "announce")
  /\ Bump
  /\ IF faults' = faults THEN Finish(r) ELSE Goto(r, "queued")
  /\ UNCHANGED <<status, copies, blob, accepted>>

JobBump(r) ==
  /\ At(r, "announce")
  /\ Bump
  /\ Finish(r)
  /\ UNCHANGED <<status, copies, blob, accepted>>

\* Slips: the failure branch that only rolls back; that stores a status of its
\* own; that also cleans the storage up.
JobFailSilent(r) ==
  /\ At(r, "failed")
  /\ Finish(r)
  /\ UNCHANGED <<status, copies, blob, version, accepted, faults>>
JobFailOtherStatus(r) ==
  LET f == target[r] IN
  /\ At(r, "failed")
  /\ status' = IF f \in Live THEN [status EXCEPT ![f] = "failed"] ELSE status
  /\ Finish(r)
  /\ UNCHANGED <<copies, blob, version, accepted, faults>>
JobFailCleansUp(r) ==
  LET f == target[r] IN
  /\ At(r, "failed")
  /\ status' = IF f \in Live THEN [status EXCEPT ![f] = "error"] ELSE status
  /\ blob' = blob \ {f}
  /\ Finish(r)
  /\ UNCHANGED <<copies, version, accepted, faults>>

\* except branch: rollback, then error if the row is still there.
JobFail(r) ==
  LET f == target[r] IN
  /\ At(r, "failed")
  /\ status' = IF f \in Live THEN [status EXCEPT ![f] = "error"] ELSE status
  /\ Finish(r)
  /\ UNCHANGED <<copies, blob, version, accepted, faults>>

----------------------------------------------------------------------------
\* An exception that leaves the handler or the job, or the death of the
\* worker that runs it: the open transaction is rolled back and a job that
\* was only in memory is gone (main.py restarts nothing).
Interrupt(r) ==
  /\ ~At(r, "idle")
  /\ faults < MaxFaults
  /\ faults' = faults + 1
  /\ Finish(r)
  /\ UNCHANGED <<status, copies, blob, version, accepted>>

Job(r) == JobStart(r) \/ JobRead(r) \/ JobRaise(r) \/ JobCommit(r) \/ JobBump(r) \/ JobFail(r)

Handler(r) ==
  \/ UploadSave(r) \/ UploadCommit(r) \/ ReprocessCommit(r)
  \/ DeleteBump(r) \/ DeleteCommit(r)
  \/ \E f \in Files : UploadCount(r, f) \/ ReprocessLoad(r, f) \/ DeleteUnlink(r, f)

Next == \E r \in Reqs : Handler(r) \/ Job(r) \/ Interrupt(r)

Spec == Init /\ [][Next]_vars

\* The event loop runs every job it was given; users need not call anything.
FairSpec == Spec /\ \A r \in Reqs : WF_vars(Job(r))

----------------------------------------------------------------------------
(* Properties *)

TypeOK ==
  /\ status \in [Files -> FileStatus \cup {"none", "deleted"}]
  /\ copies \in [Files -> Nat]
  /\ blob \in SUBSET Files
  /\ version \in Nat
  /\ pc \in [Reqs -> Steps]
  /\ target \in [Reqs -> Files \cup {NoFile}]
  /\ seen \in [Reqs -> FileStatus \cup {"none"}]
  /\ accepted \in [Files -> Nat]
  /\ faults \in 0..MaxFaults
  /\ \A r \in Reqs : pc[r] # "idle" => target[r] \in Files

\* Whatever the handlers and jobs interleave, the committed catalogue moves as
\* FileCatalog says: rows and "done" appear together, and a deleted file and
\* its rows never come back, even when a job was ingesting it.
EntryOf(s) ==
  IF s = "done" THEN "ready"
  ELSE IF s \in FileStatus THEN "waiting"
  ELSE IF s = "deleted" THEN "gone" ELSE "none"
Catalog == INSTANCE FileCatalog WITH
  entry <- [f \in Files |-> EntryOf(status[f])], ingested <- copies
CatalogSpec == Catalog!Spec

\* A file announced as done has been ingested at least once, also when
\* several jobs of it overlap or one of them was killed.
DoneMeansIngested == \A f \in Files : status[f] = "done" => copies[f] > 0

\* Requests that still owe an ingestion of f.
Owing(f) == {r \in Reqs : pc[r] \in {"queued", "marked", "read"} /\ target[r] = f}

\* Every job ingests its file at most once: what is in the table and what is
\* still to come never exceed the jobs that were accepted.
OneIngestionPerJob == \A f \in Files : copies[f] + Cardinality(Owing(f)) <= accepted[f]

\* Count-then-insert lets concurrent uploads pass the plan limit together, but
\* never by more than the number of requests that race.
QuotaOvershootBounded == Cardinality(Live) < Limit + Cardinality(Reqs)

\* Without failures, a listed file has its bytes unless a deletion that has
\* already unlinked them is on its way to commit.
BytesKept ==
  faults = 0 =>
    \A f \in Live \ blob : \E r \in Reqs : pc[r] \in {"unlinked", "bumped"} /\ target[r] = f

\* The strengthening the proofs need: who may point at a file in which state,
\* and that only listed files have rows.
RequestsMatchFiles ==
  /\ \A r \in Reqs : pc[r] = "idle" => target[r] = NoFile
  /\ \A r \in Reqs : pc[r] \in {"counted", "saved"} =>
       /\ status[target[r]] = "none"
       /\ \A q \in Reqs \ {r} : target[q] # target[r]
  /\ \A r \in Reqs : pc[r] \notin {"idle", "counted", "saved"} => status[target[r]] # "none"
NoRowsWithoutFile == \A f \in Files \ Live : copies[f] = 0
PipelineInv == TypeOK /\ RequestsMatchFiles /\ NoRowsWithoutFile /\ DoneMeansIngested

\* files.py:378: the status evolves from pending to processing to done (or error).
ProcessingSettles ==
  \A f \in Files :
    status[f] \in {"pending", "processing"} ~> status[f] \in {"done", "error", "deleted"}

\* What the code does keep of that: until something is lost, every accepted
\* file settles, whichever jobs and deletions of it overlap.
SettlesUntilLoss ==
  \A f \in Files :
    status[f] \in {"pending", "processing"} ~>
      status[f] \in {"done", "error", "deleted"} \/ faults > 0
=============================================================================
