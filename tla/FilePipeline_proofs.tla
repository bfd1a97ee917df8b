------------------------ MODULE FilePipeline_proofs ------------------------
(***************************************************************************)
(* Proofs about FilePipeline for every set of files and requests, every    *)
(* plan limit and every number of failures.                                *)
(***************************************************************************)
EXTENDS FilePipeline, FiniteSetTheorems, TLAPS

----------------------------------------------------------------------------
(* Types *)

LEMMA TypeInit == Init => TypeOK
  BY FilePipelineAssumption DEF Init, TypeOK, FileStatus, Steps, JobSteps

LEMMA TypeHandler ==
  ASSUME TypeOK, NEW r \in Reqs, Handler(r)
  PROVE  TypeOK'
<1> USE FilePipelineAssumption DEF TypeOK, FileStatus, Steps, JobSteps, Live, At, Goto, Finish, Accept
<1>1. CASE UploadSave(r)  BY <1>1 DEF UploadSave
<1>2. CASE UploadCommit(r)  BY <1>2 DEF UploadCommit
<1>3. CASE ReprocessCommit(r)  BY <1>3 DEF ReprocessCommit
<1>4. CASE DeleteBump(r)  BY <1>4 DEF DeleteBump, Bump
<1>5. CASE DeleteCommit(r)  BY <1>5 DEF DeleteCommit
<1>6. ASSUME NEW f \in Files, UploadCount(r, f)
      PROVE  TypeOK'
  BY <1>6 DEF UploadCount
<1>7. ASSUME NEW f \in Files, ReprocessLoad(r, f)
      PROVE  TypeOK'
  BY <1>7 DEF ReprocessLoad
<1>8. ASSUME NEW f \in Files, DeleteUnlink(r, f)
      PROVE  TypeOK'
  BY <1>8 DEF DeleteUnlink
<1> QED  BY <1>1, <1>2, <1>3, <1>4, <1>5, <1>6, <1>7, <1>8 DEF Handler

LEMMA TypeJob ==
  ASSUME TypeOK, NEW r \in Reqs, Job(r)
  PROVE  TypeOK'
<1> USE FilePipelineAssumption DEF TypeOK, FileStatus, Steps, JobSteps, Live, At, Goto, Finish
<1>1. CASE JobStart(r)  BY <1>1 DEF JobStart
<1>2. CASE JobRead(r)  BY <1>2 DEF JobRead
<1>3. CASE JobRaise(r)  BY <1>3 DEF JobRaise
<1>4. CASE JobCommit(r)  BY <1>4 DEF JobCommit
<1>5. CASE JobBump(r)  BY <1>5 DEF JobBump, Bump
<1>6. CASE JobFail(r)  BY <1>6 DEF JobFail
<1> QED  BY <1>1, <1>2, <1>3, <1>4, <1>5, <1>6 DEF Job

LEMMA TypeNext == TypeOK /\ [Next]_vars => TypeOK'
<1> SUFFICES ASSUME TypeOK, [Next]_vars PROVE TypeOK'
  OBVIOUS
<1>1. ASSUME NEW r \in Reqs, Interrupt(r)
      PROVE  TypeOK'
  BY <1>1, FilePipelineAssumption DEF TypeOK, Interrupt, Finish, Steps, JobSteps
<1>2. CASE UNCHANGED vars
  BY <1>2 DEF TypeOK, vars
<1> QED  BY <1>1, <1>2, TypeHandler, TypeJob DEF Next

\* No handler, job or failure leaves the declared shape of the tables, the
\* storage, the cache version or the requests.
THEOREM TypeCorrect == Spec => []TypeOK
<1>1. QED  BY TypeInit, TypeNext, PTL DEF Spec

----------------------------------------------------------------------------
(* The inductive invariant *)

LEMMA InvInit == Init => PipelineInv
  BY TypeInit, FilePipelineAssumption
     DEF Init, PipelineInv, RequestsMatchFiles, NoRowsWithoutFile, DoneMeansIngested

LEMMA InvHandler ==
  ASSUME PipelineInv, NEW r \in Reqs, Handler(r)
  PROVE  (RequestsMatchFiles /\ NoRowsWithoutFile /\ DoneMeansIngested)'
<1> USE FilePipelineAssumption DEF PipelineInv, TypeOK, FileStatus, Steps, JobSteps, Live, At, Goto,
        Finish, Accept, RequestsMatchFiles, NoRowsWithoutFile, DoneMeansIngested
<1>1. CASE UploadSave(r)  BY <1>1 DEF UploadSave
<1>2. CASE UploadCommit(r)  BY <1>2 DEF UploadCommit
<1>3. CASE ReprocessCommit(r)  BY <1>3 DEF ReprocessCommit
<1>4. CASE DeleteBump(r)  BY <1>4 DEF DeleteBump, Bump
<1>5. CASE DeleteCommit(r)  BY <1>5 DEF DeleteCommit
<1>6. ASSUME NEW f \in Files, UploadCount(r, f)
      PROVE  (RequestsMatchFiles /\ NoRowsWithoutFile /\ DoneMeansIngested)'
  BY <1>6 DEF UploadCount
<1>7. ASSUME NEW f \in Files, ReprocessLoad(r, f)
      PROVE  (RequestsMatchFiles /\ NoRowsWithoutFile /\ DoneMeansIngested)'
  BY <1>7 DEF ReprocessLoad
<1>8. ASSUME NEW f \in Files, DeleteUnlink(r, f)
      PROVE  (RequestsMatchFiles /\ NoRowsWithoutFile /\ DoneMeansIngested)'
  BY <1>8 DEF DeleteUnlink
<1> QED  BY <1>1, <1>2, <1>3, <1>4, <1>5, <1>6, <1>7, <1>8 DEF Handler

LEMMA InvJob ==
  ASSUME PipelineInv, NEW r \in Reqs, Job(r)
  PROVE  (RequestsMatchFiles /\ NoRowsWithoutFile /\ DoneMeansIngested)'
<1> USE FilePipelineAssumption DEF PipelineInv, TypeOK, FileStatus, Steps, JobSteps, Live, At, Goto,
        Finish, RequestsMatchFiles, NoRowsWithoutFile, DoneMeansIngested
<1>1. CASE JobStart(r)  BY <1>1 DEF JobStart
<1>2. CASE JobRead(r)  BY <1>2 DEF JobRead
<1>3. CASE JobRaise(r)  BY <1>3 DEF JobRaise
<1>4. CASE JobCommit(r)  BY <1>4 DEF JobCommit
<1>5. CASE JobBump(r)  BY <1>5 DEF JobBump, Bump
<1>6. CASE JobFail(r)  BY <1>6 DEF JobFail
<1> QED  BY <1>1, <1>2, <1>3, <1>4, <1>5, <1>6 DEF Job

LEMMA InvNext == PipelineInv /\ [Next]_vars => PipelineInv'
<1> DEFINE Rest == RequestsMatchFiles /\ NoRowsWithoutFile /\ DoneMeansIngested
<1> SUFFICES ASSUME PipelineInv, [Next]_vars PROVE PipelineInv'
  OBVIOUS
<1>1. TypeOK'
  BY TypeNext DEF PipelineInv
<1>2. ASSUME NEW r \in Reqs, Interrupt(r)
      PROVE  Rest'
  BY <1>2, FilePipelineAssumption DEF Interrupt, At, Finish, PipelineInv, TypeOK, Steps, JobSteps,
     Live, RequestsMatchFiles, NoRowsWithoutFile, DoneMeansIngested
<1>3. ASSUME UNCHANGED vars
      PROVE  Rest'
  BY <1>3 DEF vars, PipelineInv, Live, RequestsMatchFiles, NoRowsWithoutFile, DoneMeansIngested
<1>4. ASSUME NEW r \in Reqs, Handler(r)
      PROVE  Rest'
  BY <1>4, InvHandler
<1>5. ASSUME NEW r \in Reqs, Job(r)
      PROVE  Rest'
  BY <1>5, InvJob
<1>6. Rest'
  <2> HIDE DEF Rest
  <2> QED  BY <1>2, <1>3, <1>4, <1>5 DEF Next
<1> QED  BY <1>1, <1>6 DEF PipelineInv

\* Overlapping, failing or killed jobs never leave a file announced as done
\* whose rows are not in the table.
THEOREM DoneIsIngested == Spec => []DoneMeansIngested
<1>1. PipelineInv => DoneMeansIngested
  BY DEF PipelineInv
<1>2. QED  BY <1>1, InvInit, InvNext, PTL DEF Spec

LEMMA InvAlways == Spec => []PipelineInv
<1>1. QED  BY InvInit, InvNext, PTL DEF Spec

----------------------------------------------------------------------------
(* FilePipeline implements FileCatalog *)

LEMMA EntryOfStatus ==
  /\ EntryOf("none") = "none"
  /\ EntryOf("deleted") = "gone"
  /\ EntryOf("done") = "ready"
  /\ EntryOf("pending") = "waiting"
  /\ EntryOf("processing") = "waiting"
  /\ EntryOf("error") = "waiting"
  BY DEF EntryOf, FileStatus

LEMMA CatalogInit == Init => Catalog!Init
  BY EntryOfStatus DEF Init, Catalog!Init

\* A step that gives one file f the status s and leaves the rows alone.
LEMMA CatalogStatusStep ==
  ASSUME TypeOK, NEW f \in Files, NEW s \in {"pending", "processing", "error"},
         status[f] # "deleted",
         status' = [status EXCEPT ![f] = s], copies' = copies
  PROVE  Catalog!Add(f) \/ Catalog!Reopen(f) \/ UNCHANGED Catalog!cvars
<1> DEFINE old == [g \in Files |-> EntryOf(status[g])]
<1> DEFINE new == [g \in Files |-> EntryOf(status'[g])]
<1>1. new = [old EXCEPT ![f] = "waiting"]
  BY EntryOfStatus DEF TypeOK
<1>2. status[f] \in {"none", "pending", "processing", "done", "error"}
  BY DEF TypeOK, FileStatus
<1>3. CASE status[f] = "none"
  <2>1. old[f] = "none"
    BY <1>3, EntryOfStatus
  <2> QED  BY <1>1, <2>1 DEF Catalog!Add
<1>4. CASE status[f] = "done"
  <2>1. old[f] = "ready"
    BY <1>4, EntryOfStatus
  <2> QED  BY <1>1, <2>1 DEF Catalog!Reopen
<1>5. CASE status[f] \in {"pending", "processing", "error"}
  <2>1. old[f] = "waiting"
    BY <1>5, EntryOfStatus
  <2>2. new = old
    BY <1>1, <2>1
  <2> QED  BY <2>2 DEF Catalog!cvars
<1> QED  BY <1>2, <1>3, <1>4, <1>5

\* A step that changes neither a status nor the rows stutters.
LEMMA CatalogStutter ==
  ASSUME UNCHANGED <<status, copies>>
  PROVE  UNCHANGED Catalog!cvars
  BY DEF Catalog!cvars

LEMMA CatalogHandler ==
  ASSUME PipelineInv, NEW r \in Reqs, Handler(r)
  PROVE  [Catalog!Next]_(Catalog!cvars)
<1> DEFINE f == target[r]
<1> USE DEF PipelineInv, TypeOK, FileStatus, Live, At
<1>1. CASE UploadCommit(r)
  <2>1. f \in Files /\ status[f] = "none" /\ status' = [status EXCEPT ![f] = "pending"] /\ copies' = copies
    BY <1>1 DEF UploadCommit, RequestsMatchFiles
  <2> HIDE DEF f
  <2> QED  BY <2>1, CatalogStatusStep DEF Catalog!Next
<1>2. CASE ReprocessCommit(r)
  <2>1. CASE status' = status
    BY <1>2, <2>1, CatalogStutter DEF ReprocessCommit
  <2>2. CASE status' # status
    <3>1. f \in Files /\ status[f] # "deleted" /\ status' = [status EXCEPT ![f] = "pending"] /\ copies' = copies
      BY <1>2, <2>2 DEF ReprocessCommit
    <3> HIDE DEF f
    <3> QED  BY <3>1, CatalogStatusStep DEF Catalog!Next
  <2> QED  BY <2>1, <2>2
<1>3. CASE DeleteCommit(r)
  <2>1. /\ f \in Files /\ status[f] # "none"
        /\ status' = [status EXCEPT ![f] = "deleted"] /\ copies' = [copies EXCEPT ![f] = 0]
    BY <1>3 DEF DeleteCommit, RequestsMatchFiles
  <2>2. copies \in [Files -> Nat] /\ (status[f] = "deleted" => copies[f] = 0)
    BY <2>1 DEF NoRowsWithoutFile
  <2>3. status \in [Files -> FileStatus \cup {"none", "deleted"}]
    OBVIOUS
  <2> HIDE DEF f
  <2> DEFINE old == [g \in Files |-> EntryOf(status[g])]
  <2> DEFINE new == [g \in Files |-> EntryOf(status'[g])]
  <2>4. new = [old EXCEPT ![f] = "gone"]
    BY <2>1, <2>3, EntryOfStatus
  <2>5. CASE status[f] = "deleted"
    <3>1. old[f] = "gone"
      BY <2>1, <2>5, EntryOfStatus
    <3>2. new = old /\ copies' = copies
      BY <2>1, <2>2, <2>4, <2>5, <3>1
    <3> QED  BY <3>2 DEF Catalog!cvars
  <2>6. CASE status[f] # "deleted"
    <3>1. old[f] \in {"waiting", "ready"}
      BY <2>1, <2>3, <2>6, EntryOfStatus
    <3>2. Catalog!Remove(f)
      BY <2>1, <2>4, <3>1 DEF Catalog!Remove, Catalog!Listed
    <3> QED  BY <2>1, <3>2 DEF Catalog!Next
  <2> QED  BY <2>5, <2>6
<1>4. CASE UploadSave(r) \/ DeleteBump(r) \/ (\E g \in Files : UploadCount(r, g) \/ ReprocessLoad(r, g) \/ DeleteUnlink(r, g))
  BY <1>4, CatalogStutter DEF UploadSave, DeleteBump, UploadCount, ReprocessLoad, DeleteUnlink
<1> QED  BY <1>1, <1>2, <1>3, <1>4 DEF Handler

LEMMA CatalogJob ==
  ASSUME PipelineInv, NEW r \in Reqs, Job(r)
  PROVE  [Catalog!Next]_(Catalog!cvars)
<1> DEFINE f == target[r]
<1> USE DEF PipelineInv, TypeOK, FileStatus, Live, At
<1>1. ASSUME NEW s \in {"processing", "error"}, JobStart(r) \/ JobFail(r),
             f \in Live, status' = [status EXCEPT ![f] = s]
      PROVE  [Catalog!Next]_(Catalog!cvars)
  <2>1. f \in Files /\ status[f] # "deleted" /\ copies' = copies
    BY <1>1 DEF JobStart, JobFail
  <2> HIDE DEF f
  <2> QED  BY <1>1, <2>1, CatalogStatusStep DEF Catalog!Next
<1>2. CASE JobStart(r)
  BY <1>1, <1>2, CatalogStutter DEF JobStart
<1>3. CASE JobFail(r)
  BY <1>1, <1>3, CatalogStutter DEF JobFail
<1>4. CASE JobCommit(r)
  <2>1. CASE f \notin Live
    BY <1>4, <2>1, CatalogStutter DEF JobCommit
  <2>2. CASE f \in Live
    <3>1. /\ f \in Files /\ status[f] \in FileStatus
          /\ status' = [status EXCEPT ![f] = "done"] /\ copies' = [copies EXCEPT ![f] = @ + 1]
      BY <1>4, <2>2 DEF JobCommit
    <3>2. status \in [Files -> FileStatus \cup {"none", "deleted"}]
      OBVIOUS
    <3> HIDE DEF f
    <3> DEFINE old == [g \in Files |-> EntryOf(status[g])]
    <3> DEFINE new == [g \in Files |-> EntryOf(status'[g])]
    <3>3. new = [old EXCEPT ![f] = "ready"]
      BY <3>1, <3>2, EntryOfStatus
    <3>4. old[f] \in {"waiting", "ready"}
      BY <3>1, EntryOfStatus
    <3>5. Catalog!Ingest(f)
      BY <3>1, <3>3, <3>4 DEF Catalog!Ingest, Catalog!Listed
    <3> QED  BY <3>1, <3>5 DEF Catalog!Next
  <2> QED  BY <2>1, <2>2
<1>5. CASE JobRead(r) \/ JobRaise(r) \/ JobBump(r)
  BY <1>5, CatalogStutter DEF JobRead, JobRaise, JobBump
<1> QED  BY <1>2, <1>3, <1>4, <1>5 DEF Job

LEMMA CatalogNext == PipelineInv /\ [Next]_vars => [Catalog!Next]_(Catalog!cvars)
<1> SUFFICES ASSUME PipelineInv, [Next]_vars PROVE [Catalog!Next]_(Catalog!cvars)
  OBVIOUS
<1>1. ASSUME NEW r \in Reqs, Interrupt(r)
      PROVE  UNCHANGED Catalog!cvars
  BY <1>1, CatalogStutter DEF Interrupt
<1>2. CASE UNCHANGED vars
  BY <1>2, CatalogStutter DEF vars
<1>3. ASSUME NEW r \in Reqs, Handler(r) \/ Job(r)
      PROVE  [Catalog!Next]_(Catalog!cvars)
  BY <1>3, CatalogHandler, CatalogJob
<1> QED  BY <1>1, <1>2, <1>3 DEF Next

\* The pipeline implements the catalogue: in the committed database rows and
\* "done" appear together, and a deleted file and its rows stay deleted, also
\* when a job that was ingesting the file commits after the deletion.
THEOREM ImplementsCatalog == Spec => CatalogSpec
<1>1. QED  BY CatalogInit, CatalogNext, InvAlways, PTL DEF Spec, CatalogSpec, Catalog!Spec

----------------------------------------------------------------------------
(* Counting *)

\* How the size of a set of requests changes with one request.
LEMMA CountRequests ==
  ASSUME NEW S \in SUBSET Reqs, NEW T \in SUBSET Reqs, NEW r \in Reqs
  PROVE  /\ Cardinality(S) \in Nat /\ Cardinality(T) \in Nat
         /\ T \subseteq S => Cardinality(T) <= Cardinality(S)
         /\ T \subseteq S \cup {r} => Cardinality(T) <= Cardinality(S) + 1
         /\ r \in S /\ T \subseteq S \ {r} => Cardinality(T) + 1 <= Cardinality(S)
<1>1. IsFiniteSet(S) /\ IsFiniteSet(T)
  BY FilePipelineAssumption, FS_Subset
<1>2. IsFiniteSet(S \cup {r}) /\ Cardinality(S \cup {r}) <= Cardinality(S) + 1
  <2>1. Cardinality(S) \in Nat
    BY <1>1, FS_CardinalityType
  <2>2. /\ IsFiniteSet(S \cup {r})
        /\ Cardinality(S \cup {r}) = IF r \in S THEN Cardinality(S) ELSE Cardinality(S) + 1
    BY <1>1, FS_AddElement
  <2> QED  BY <2>1, <2>2
<1>3. IsFiniteSet(S \ {r}) /\ (r \in S => Cardinality(S \ {r}) = Cardinality(S) - 1)
  BY <1>1, FS_RemoveElement
<1>4. Cardinality(S) \in Nat /\ Cardinality(T) \in Nat /\ Cardinality(S \cup {r}) \in Nat
      /\ Cardinality(S \ {r}) \in Nat
  BY <1>1, <1>2, <1>3, FS_CardinalityType
<1>5. T \subseteq S => Cardinality(T) <= Cardinality(S)
  BY <1>1, FS_Subset
<1>6. T \subseteq S \cup {r} => Cardinality(T) <= Cardinality(S \cup {r})
  BY <1>2, FS_Subset
<1>7. T \subseteq S \ {r} => Cardinality(T) <= Cardinality(S \ {r})
  BY <1>3, FS_Subset
<1> QED  BY <1>2, <1>3, <1>4, <1>5, <1>6, <1>7

\* A step that hands out no job and adds no rows keeps the account.
LEMMA AccountQuiet ==
  ASSUME TypeOK, OneIngestionPerJob, accepted' = accepted,
         \A f \in Files : copies'[f] \in Nat /\ copies'[f] <= copies[f],
         \A f \in Files : Owing(f)' \subseteq Owing(f)
  PROVE  OneIngestionPerJob'
<1> SUFFICES ASSUME NEW f \in Files
             PROVE  copies'[f] + Cardinality(Owing(f)') <= accepted'[f]
  BY DEF OneIngestionPerJob
<1>1. Owing(f) \in SUBSET Reqs /\ Owing(f)' \in SUBSET Reqs
  BY DEF Owing
<1>2. /\ Cardinality(Owing(f)) \in Nat /\ Cardinality(Owing(f)') \in Nat
      /\ Cardinality(Owing(f)') <= Cardinality(Owing(f))
  <2>1. CASE Reqs = {}
    <3>1. Owing(f) = {} /\ Owing(f)' = {}
      BY <1>1, <2>1
    <3> QED  BY <3>1, FS_EmptySet
  <2>2. CASE Reqs # {}
    BY <1>1, <2>2, CountRequests
  <2> QED  BY <2>1, <2>2
<1>3. /\ copies[f] + Cardinality(Owing(f)) <= accepted[f]
      /\ copies[f] \in Nat /\ copies'[f] \in Nat /\ copies'[f] <= copies[f]
      /\ accepted[f] \in Nat /\ accepted'[f] = accepted[f]
  BY DEF OneIngestionPerJob, TypeOK
<1> QED  BY <1>2, <1>3

\* Handing out a job pays for the ingestion it owes.
LEMMA AccountAccept ==
  ASSUME TypeOK, OneIngestionPerJob, NEW r \in Reqs, NEW f \in Files, target[r] = f,
         Accept(r, f), UNCHANGED copies
  PROVE  OneIngestionPerJob'
<1> SUFFICES ASSUME NEW g \in Files
             PROVE  copies'[g] + Cardinality(Owing(g)') <= accepted'[g]
  BY DEF OneIngestionPerJob
<1>1. /\ Owing(g) \in SUBSET Reqs /\ Owing(g)' \in SUBSET Reqs
      /\ Owing(g)' \subseteq IF g = f THEN Owing(g) \cup {r} ELSE Owing(g)
  BY DEF Owing, Accept, Goto, TypeOK
<1>2. /\ Cardinality(Owing(g)) \in Nat /\ Cardinality(Owing(g)') \in Nat
      /\ Cardinality(Owing(g)') <= IF g = f THEN Cardinality(Owing(g)) + 1 ELSE Cardinality(Owing(g))
  BY <1>1, CountRequests
<1>3. /\ copies[g] + Cardinality(Owing(g)) <= accepted[g]
      /\ copies[g] \in Nat /\ copies'[g] = copies[g] /\ accepted[g] \in Nat
      /\ accepted'[g] = IF g = f THEN accepted[g] + 1 ELSE accepted[g]
  BY DEF OneIngestionPerJob, TypeOK, Accept
<1> QED  BY <1>2, <1>3

\* An ingestion settles what its own job owed.
LEMMA AccountIngest ==
  ASSUME TypeOK, OneIngestionPerJob, NEW r \in Reqs, JobCommit(r), target[r] \in Live
  PROVE  OneIngestionPerJob'
<1> SUFFICES ASSUME NEW g \in Files
             PROVE  copies'[g] + Cardinality(Owing(g)') <= accepted'[g]
  BY DEF OneIngestionPerJob
<1>1. /\ Owing(g) \in SUBSET Reqs /\ Owing(g)' \in SUBSET Reqs
      /\ Owing(g)' \subseteq Owing(g) /\ (g = target[r] => r \in Owing(g) /\ Owing(g)' \subseteq Owing(g) \ {r})
  BY DEF Owing, JobCommit, Goto, TypeOK, At
<1>2. /\ Cardinality(Owing(g)) \in Nat /\ Cardinality(Owing(g)') \in Nat
      /\ Cardinality(Owing(g)') <= Cardinality(Owing(g))
      /\ (g = target[r] => Cardinality(Owing(g)') + 1 <= Cardinality(Owing(g)))
  BY <1>1, CountRequests
<1>3. /\ copies[g] + Cardinality(Owing(g)) <= accepted[g]
      /\ copies[g] \in Nat /\ accepted[g] \in Nat /\ accepted'[g] = accepted[g]
      /\ copies'[g] = IF g = target[r] THEN copies[g] + 1 ELSE copies[g]
  BY DEF OneIngestionPerJob, TypeOK, JobCommit
<1> QED  BY <1>2, <1>3

LEMMA AccountNext == TypeOK /\ OneIngestionPerJob /\ [Next]_vars => OneIngestionPerJob'
<1> SUFFICES ASSUME TypeOK, OneIngestionPerJob, [Next]_vars PROVE OneIngestionPerJob'
  OBVIOUS
<1>1. ASSUME NEW r \in Reqs, UploadCommit(r) \/ ReprocessCommit(r)
      PROVE  OneIngestionPerJob'
  <2>1. CASE Accept(r, target[r])
    <3>1. target[r] \in Files /\ UNCHANGED copies
      BY <1>1 DEF UploadCommit, ReprocessCommit, TypeOK, At
    <3> QED  BY <2>1, <3>1, AccountAccept
  <2>2. CASE Finish(r) /\ UNCHANGED <<status, accepted>> /\ UNCHANGED copies
    <3>1. \A f \in Files : Owing(f)' \subseteq Owing(f)
      BY <2>2 DEF Owing, Finish, TypeOK
    <3> QED  BY <2>2, <3>1, AccountQuiet DEF TypeOK
  <2> QED  BY <1>1, <2>1, <2>2 DEF UploadCommit, ReprocessCommit
<1>2. ASSUME NEW r \in Reqs,
             UploadSave(r) \/ DeleteBump(r) \/ DeleteCommit(r) \/ Interrupt(r)
             \/ JobStart(r) \/ JobRead(r) \/ JobRaise(r) \/ JobBump(r) \/ JobFail(r)
      PROVE  OneIngestionPerJob'
  <2>1. accepted' = accepted
    BY <1>2 DEF UploadSave, DeleteBump, DeleteCommit, Interrupt, JobStart, JobRead, JobRaise, JobBump, JobFail
  <2>2. \A f \in Files : copies'[f] \in Nat /\ copies'[f] <= copies[f]
    BY <1>2 DEF TypeOK, UploadSave, DeleteBump, DeleteCommit, Interrupt, JobStart, JobRead, JobRaise, JobBump, JobFail
  <2>3. \A f \in Files : Owing(f)' \subseteq Owing(f)
    BY <1>2 DEF Owing, TypeOK, At, Goto, Finish, UploadSave, DeleteBump, DeleteCommit, Interrupt,
       JobStart, JobRead, JobRaise, JobBump, JobFail
  <2> QED  BY <2>1, <2>2, <2>3, AccountQuiet
<1>3. ASSUME NEW r \in Reqs, NEW f \in Files,
             UploadCount(r, f) \/ ReprocessLoad(r, f) \/ DeleteUnlink(r, f)
      PROVE  OneIngestionPerJob'
  <2>1. accepted' = accepted /\ copies' = copies
    BY <1>3 DEF UploadCount, ReprocessLoad, DeleteUnlink
  <2>2. \A g \in Files : Owing(g)' \subseteq Owing(g)
    BY <1>3 DEF Owing, TypeOK, At, UploadCount, ReprocessLoad, DeleteUnlink
  <2> QED  BY <2>1, <2>2, AccountQuiet DEF TypeOK
<1>4. ASSUME NEW r \in Reqs, JobCommit(r)
      PROVE  OneIngestionPerJob'
  <2>1. CASE target[r] \in Live
    BY <1>4, <2>1, AccountIngest
  <2>2. CASE target[r] \notin Live
    <3>1. accepted' = accepted /\ copies' = copies
      BY <1>4, <2>2 DEF JobCommit
    <3>2. \A f \in Files : Owing(f)' \subseteq Owing(f)
      BY <1>4, <2>2 DEF Owing, TypeOK, At, Goto, JobCommit
    <3> QED  BY <3>1, <3>2, AccountQuiet DEF TypeOK
  <2> QED  BY <2>1, <2>2
<1>5. CASE UNCHANGED vars
  <2>1. accepted' = accepted /\ copies' = copies /\ \A f \in Files : Owing(f)' \subseteq Owing(f)
    BY <1>5 DEF vars, Owing
  <2> QED  BY <2>1, AccountQuiet DEF TypeOK
<1> QED  BY <1>1, <1>2, <1>3, <1>4, <1>5 DEF Next, Handler, Job

\* However uploads and reprocessings of a file overlap, fail or are killed, its
\* rows are never inserted more often than jobs for it were accepted.
THEOREM IngestionsAreAccounted == Spec => []OneIngestionPerJob
<1>1. Init => OneIngestionPerJob
  <2> SUFFICES ASSUME Init, NEW f \in Files
               PROVE  copies[f] + Cardinality(Owing(f)) <= accepted[f]
    BY DEF OneIngestionPerJob
  <2>1. Owing(f) = {}
    BY DEF Init, Owing
  <2> QED  BY <2>1, FS_EmptySet DEF Init
<1>2. QED  BY <1>1, AccountNext, TypeCorrect, PTL DEF Spec

----------------------------------------------------------------------------
(* The plan limit *)

\* Uploads that passed the check and have not committed their row.
Uploading == {r \in Reqs : pc[r] \in {"counted", "saved"}}

\* What can still be committed counts against the limit as well.
QuotaInv == Cardinality(Live) + Cardinality(Uploading) < Limit + Cardinality(Reqs)

LEMMA QuotaFinite ==
  /\ IsFiniteSet(Live) /\ Cardinality(Live) \in Nat
  /\ IsFiniteSet(Uploading) /\ Cardinality(Uploading) \in Nat
  /\ Cardinality(Uploading) <= Cardinality(Reqs) /\ Cardinality(Reqs) \in Nat
<1>1. Live \in SUBSET Files /\ Uploading \in SUBSET Reqs
  BY DEF Live, Uploading
<1>2. IsFiniteSet(Files) /\ IsFiniteSet(Reqs)
  BY FilePipelineAssumption
<1>3. IsFiniteSet(Live) /\ IsFiniteSet(Uploading) /\ Cardinality(Uploading) <= Cardinality(Reqs)
  BY <1>1, <1>2, FS_Subset
<1> QED  BY <1>2, <1>3, FS_CardinalityType

LEMMA QuotaFiniteNext ==
  /\ IsFiniteSet(Live') /\ Cardinality(Live') \in Nat
  /\ IsFiniteSet(Uploading') /\ Cardinality(Uploading') \in Nat
  /\ Cardinality(Uploading') <= Cardinality(Reqs)
<1>1. Live' \in SUBSET Files /\ Uploading' \in SUBSET Reqs
  BY DEF Live, Uploading
<1>2. IsFiniteSet(Files) /\ IsFiniteSet(Reqs)
  BY FilePipelineAssumption
<1>3. IsFiniteSet(Live') /\ IsFiniteSet(Uploading') /\ Cardinality(Uploading') <= Cardinality(Reqs)
  BY <1>1, <1>2, FS_Subset
<1> QED  BY <1>3, FS_CardinalityType

LEMMA QuotaQuiet ==
  ASSUME QuotaInv, Live' \subseteq Live, Uploading' \subseteq Uploading
  PROVE  QuotaInv'
<1>1. Cardinality(Live') <= Cardinality(Live) /\ Cardinality(Uploading') <= Cardinality(Uploading)
  BY QuotaFinite, FS_Subset
<1> QED  BY <1>1, QuotaFinite, QuotaFiniteNext, FilePipelineAssumption DEF QuotaInv

LEMMA QuotaNext == PipelineInv /\ QuotaInv /\ [Next]_vars => QuotaInv'
<1> SUFFICES ASSUME PipelineInv, QuotaInv, [Next]_vars PROVE QuotaInv'
  OBVIOUS
<1>1. ASSUME NEW r \in Reqs, NEW f \in Files, UploadCount(r, f)
      PROVE  QuotaInv'
  <2>1. Live' = Live /\ Cardinality(Live) < Limit
    BY <1>1 DEF UploadCount, Live
  <2> QED  BY <2>1, QuotaFinite, QuotaFiniteNext, FilePipelineAssumption DEF QuotaInv
<1>2. ASSUME NEW r \in Reqs, UploadCommit(r)
      PROVE  QuotaInv'
  <2>1. Live' \subseteq Live \cup {target[r]}
    BY <1>2 DEF UploadCommit, Live, PipelineInv, TypeOK
  <2>2. r \in Uploading /\ Uploading' \subseteq Uploading \ {r}
    BY <1>2 DEF UploadCommit, Accept, Goto, At, Uploading, PipelineInv, TypeOK
  <2>3. Cardinality(Uploading') + 1 <= Cardinality(Uploading)
    <3>1. Uploading \in SUBSET Reqs /\ Uploading' \in SUBSET Reqs
      BY DEF Uploading
    <3> QED  BY <2>2, <3>1, CountRequests
  <2>4. /\ IsFiniteSet(Live \cup {target[r]})
        /\ Cardinality(Live \cup {target[r]}) = IF target[r] \in Live THEN Cardinality(Live) ELSE Cardinality(Live) + 1
    BY QuotaFinite, FS_AddElement
  <2>5. Cardinality(Live') <= Cardinality(Live \cup {target[r]})
    BY <2>1, <2>4, FS_Subset
  <2> QED  BY <2>3, <2>4, <2>5, QuotaFinite, QuotaFiniteNext, FilePipelineAssumption DEF QuotaInv
<1>3. ASSUME NEW r \in Reqs,
             UploadSave(r) \/ ReprocessCommit(r) \/ DeleteBump(r) \/ DeleteCommit(r) \/ Interrupt(r)
      PROVE  QuotaInv'
  <2>1. Live' \subseteq Live
    BY <1>3 DEF Live, PipelineInv, TypeOK, UploadSave, ReprocessCommit, DeleteBump, DeleteCommit, Interrupt, FileStatus
  <2>2. Uploading' \subseteq Uploading
    BY <1>3 DEF Uploading, PipelineInv, TypeOK, At, Goto, Finish, Accept,
       UploadSave, ReprocessCommit, DeleteBump, DeleteCommit, Interrupt
  <2> QED  BY <2>1, <2>2, QuotaQuiet
<1>4. ASSUME NEW r \in Reqs, Job(r)
      PROVE  QuotaInv'
  <2>1. Live' \subseteq Live
    BY <1>4 DEF Live, PipelineInv, TypeOK, Job, JobStart, JobRead, JobRaise, JobCommit, JobBump, JobFail, FileStatus
  <2>2. Uploading' \subseteq Uploading
    BY <1>4 DEF Uploading, PipelineInv, TypeOK, At, Goto, Finish,
       Job, JobStart, JobRead, JobRaise, JobCommit, JobBump, JobFail
  <2> QED  BY <2>1, <2>2, QuotaQuiet
<1>5. ASSUME NEW r \in Reqs, NEW f \in Files, ReprocessLoad(r, f) \/ DeleteUnlink(r, f)
      PROVE  QuotaInv'
  <2>1. Live' \subseteq Live /\ Uploading' \subseteq Uploading
    BY <1>5 DEF Live, Uploading, PipelineInv, TypeOK, At, ReprocessLoad, DeleteUnlink
  <2> QED  BY <2>1, QuotaQuiet
<1>6. CASE UNCHANGED vars
  <2>1. Live' \subseteq Live /\ Uploading' \subseteq Uploading
    BY <1>6 DEF vars, Live, Uploading
  <2> QED  BY <2>1, QuotaQuiet
<1> QED  BY <1>1, <1>2, <1>3, <1>4, <1>5, <1>6 DEF Next, Handler

\* Uploads that race past the count overshoot the plan limit by less than the
\* number of requests the server runs at the same time.
THEOREM QuotaOvershoot == Spec => []QuotaOvershootBounded
<1>1. Init => QuotaInv
  <2> SUFFICES ASSUME Init PROVE QuotaInv
    OBVIOUS
  <2>1. Live = {} /\ Uploading = {}
    BY DEF Init, Live, Uploading, FileStatus
  <2> QED  BY <2>1, FS_EmptySet, QuotaFinite, FilePipelineAssumption DEF QuotaInv
<1>2. QuotaInv => QuotaOvershootBounded
  BY QuotaFinite, FilePipelineAssumption DEF QuotaInv, QuotaOvershootBounded
<1>3. QED  BY <1>1, <1>2, QuotaNext, InvAlways, PTL DEF Spec

----------------------------------------------------------------------------
(* The bytes of a listed file *)

Unlinking(f) == \E r \in Reqs : pc[r] \in {"unlinked", "bumped"} /\ target[r] = f

\* An upload whose bytes are stored keeps them until its row is there: no
\* deletion can find the file before.
BytesInv ==
  faults = 0 =>
    /\ \A f \in Live : f \in blob \/ Unlinking(f)
    /\ \A r \in Reqs : pc[r] = "saved" => target[r] \in blob

\* A step that stores nothing and removes nothing, adds no row without bytes and
\* takes no deletion off its file.
LEMMA BytesHandler ==
  ASSUME PipelineInv, BytesInv, faults = 0, faults' = 0, NEW r \in Reqs, Handler(r)
  PROVE  BytesInv'
<1> USE FilePipelineAssumption DEF PipelineInv, TypeOK, FileStatus, Steps, JobSteps, Live, At, Goto, Finish,
        Accept, RequestsMatchFiles, Unlinking, BytesInv
<1>1. CASE UploadSave(r)  BY <1>1 DEF UploadSave
<1>2. CASE UploadCommit(r)  BY <1>2 DEF UploadCommit
<1>3. CASE ReprocessCommit(r)  BY <1>3 DEF ReprocessCommit
<1>4. CASE DeleteBump(r)  BY <1>4 DEF DeleteBump, Bump
<1>5. CASE DeleteCommit(r)  BY <1>5 DEF DeleteCommit
<1>6. ASSUME NEW f \in Files, UploadCount(r, f)
      PROVE  BytesInv'
  BY <1>6 DEF UploadCount
<1>7. ASSUME NEW f \in Files, ReprocessLoad(r, f)
      PROVE  BytesInv'
  BY <1>7 DEF ReprocessLoad
<1>8. ASSUME NEW f \in Files, DeleteUnlink(r, f)
      PROVE  BytesInv'
  BY <1>8 DEF DeleteUnlink
<1> QED  BY <1>1, <1>2, <1>3, <1>4, <1>5, <1>6, <1>7, <1>8 DEF Handler

LEMMA BytesJob ==
  ASSUME PipelineInv, BytesInv, faults = 0, faults' = 0, NEW r \in Reqs, Job(r)
  PROVE  BytesInv'
<1> USE FilePipelineAssumption DEF PipelineInv, TypeOK, FileStatus, Steps, JobSteps, Live, At, Goto, Finish,
        Unlinking, BytesInv
<1>1. CASE JobStart(r)  BY <1>1 DEF JobStart
<1>2. CASE JobRead(r)  BY <1>2 DEF JobRead
<1>3. CASE JobRaise(r)  BY <1>3 DEF JobRaise
<1>4. CASE JobCommit(r)  BY <1>4 DEF JobCommit
<1>5. CASE JobBump(r)  BY <1>5 DEF JobBump, Bump
<1>6. CASE JobFail(r)  BY <1>6 DEF JobFail
<1> QED  BY <1>1, <1>2, <1>3, <1>4, <1>5, <1>6 DEF Job

LEMMA BytesNext == PipelineInv /\ BytesInv /\ [Next]_vars => BytesInv'
<1> SUFFICES ASSUME PipelineInv, BytesInv, [Next]_vars, faults' = 0 PROVE BytesInv'
  BY DEF BytesInv
<1>1. CASE UNCHANGED vars
  BY <1>1 DEF vars, BytesInv, Live, Unlinking
<1>2. CASE Next
  <2>1. faults \in Nat
    BY FilePipelineAssumption DEF PipelineInv, TypeOK
  <2>2. ASSUME NEW r \in Reqs, Handler(r)  PROVE BytesInv'
    <3>1. faults' = faults \/ faults' = faults + 1
      BY <2>2 DEF Handler, UploadCount, UploadSave, UploadCommit, ReprocessLoad, ReprocessCommit,
         DeleteUnlink, DeleteBump, DeleteCommit, Bump
    <3>2. faults = 0
      BY <2>1, <3>1
    <3> QED  BY <2>2, <3>2, BytesHandler
  <2>3. ASSUME NEW r \in Reqs, Job(r)  PROVE BytesInv'
    <3>1. faults' = faults \/ faults' = faults + 1
      BY <2>3 DEF Job, JobStart, JobRead, JobRaise, JobCommit, JobBump, JobFail, Bump
    <3>2. faults = 0
      BY <2>1, <3>1
    <3> QED  BY <2>3, <3>2, BytesJob
  <2>4. ASSUME NEW r \in Reqs, Interrupt(r)  PROVE BytesInv'
    BY <2>1, <2>4 DEF Interrupt
  <2> QED  BY <1>2, <2>2, <2>3, <2>4 DEF Next
<1> QED  BY <1>1, <1>2

\* As long as nothing failed, a listed file is without bytes only while a
\* deletion that has unlinked them is about to commit (files.py:183-215, 474-494).
THEOREM ListedFilesHaveBytes == Spec => []BytesKept
<1>1. Init => BytesInv
  BY DEF Init, BytesInv, Live, FileStatus
<1>2. BytesInv => BytesKept
  BY DEF BytesInv, BytesKept, Unlinking
<1>3. QED  BY <1>1, <1>2, BytesNext, InvAlways, PTL DEF Spec
=============================================================================
