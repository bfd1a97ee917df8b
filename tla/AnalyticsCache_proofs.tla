----------------------- MODULE AnalyticsCache_proofs -----------------------
(***************************************************************************)
(* Commit-then-bump is a sound order: as long as nothing failed, an entry  *)
(* under the current version holds exactly the rows of every file that     *)
(* still exists, for every number of files, requests and dashboard loads.  *)
(***************************************************************************)
EXTENDS AnalyticsCache, FilePipeline_proofs

\* A DataFrame agrees with the table on the files that still exist, up to an
\* ingestion that is about to be announced; a file not yet listed is in none.
Fresh(df) == \A f \in Live : df[f] = copies[f] \/ Announcing(f)
Unlisted(df) == \A f \in Files : status[f] = "none" => df[f] = 0

\* Versions only grow while nothing fails, so that whoever holds an older one
\* stores its DataFrame where nobody will look.
CacheInv ==
  faults = 0 =>
    /\ \A v \in DOMAIN cache : v <= version /\ Unlisted(cache[v])
    /\ version \in DOMAIN cache => Fresh(cache[version])
    /\ \A d \in Loads :
         /\ readVersion[d] <= version /\ Unlisted(frame[d])
         /\ step[d] = "queried" /\ readVersion[d] = version => Fresh(frame[d])

FullInv == PipelineInv /\ ACTypeOK /\ CacheInv

----------------------------------------------------------------------------
(* Types *)

LEMMA ACTypeInit == ACInit => ACTypeOK
  BY DEF ACInit, ACTypeOK, Frames, NoRows

LEMMA ACTypeLoad ==
  ASSUME TypeOK, ACTypeOK, NEW d \in Loads, Load(d)
  PROVE  ACTypeOK'
<1> USE DEF ACTypeOK, TypeOK, Frames, NoRows
<1>1. CASE GetVersion(d)  BY <1>1 DEF GetVersion
<1>2. CASE Hit(d)  BY <1>2 DEF Hit, EndLoad
<1>3. CASE Miss(d)  BY <1>3 DEF Miss
<1>4. CASE Query(d)  BY <1>4 DEF Query
<1>5. CASE Store(d)
  <2>1. /\ step' \in [Loads -> {"idle", "versioned", "missed", "queried"}]
        /\ readVersion' \in [Loads -> Nat] /\ frame' \in [Loads -> Frames]
    BY <1>5 DEF Store, EndLoad
  <2>2. DOMAIN cache' \in SUBSET Nat /\ \A v \in DOMAIN cache' : cache'[v] \in Frames
    BY <1>5 DEF Store, Put
  <2> QED  BY <2>1, <2>2
<1> QED  BY <1>1, <1>2, <1>3, <1>4, <1>5 DEF Load

LEMMA ACTypeNext == TypeOK /\ ACTypeOK /\ [ACNext]_allVars => ACTypeOK'
<1> SUFFICES ASSUME TypeOK, ACTypeOK, [ACNext]_allVars PROVE ACTypeOK'
  OBVIOUS
<1>1. CASE UNCHANGED cacheVars
  BY <1>1 DEF cacheVars, ACTypeOK
<1>2. ASSUME NEW v \in DOMAIN cache, Expire(v)
      PROVE  ACTypeOK'
  BY <1>2 DEF Expire, ACTypeOK
<1>3. CASE EvictVersion
  BY <1>1, <1>3 DEF EvictVersion
<1> QED  BY <1>1, <1>2, <1>3, ACTypeLoad DEF ACNext, allVars, cacheVars

----------------------------------------------------------------------------
(* What a writer's step does to one file *)

LEMMA NoneStaysBehind ==
  ASSUME PipelineInv, Next, NEW f \in Files, status'[f] = "none"
  PROVE  status[f] = "none"
<1> USE DEF PipelineInv, TypeOK
<1>1. ASSUME NEW r \in Reqs, Handler(r)  PROVE status[f] = "none"
  BY <1>1 DEF Handler, UploadCount, UploadSave, UploadCommit, ReprocessLoad, ReprocessCommit,
     DeleteUnlink, DeleteBump, DeleteCommit
<1>2. ASSUME NEW r \in Reqs, Job(r)  PROVE status[f] = "none"
  BY <1>2 DEF Job, JobStart, JobRead, JobRaise, JobCommit, JobBump, JobFail
<1>3. ASSUME NEW r \in Reqs, Interrupt(r)  PROVE status[f] = "none"
  BY <1>3 DEF Interrupt
<1> QED  BY <1>1, <1>2, <1>3 DEF Next

LEMMA VersionNext ==
  ASSUME PipelineInv, Next
  PROVE  /\ version' \in {version, version + 1}
         /\ faults' \in Nat /\ faults \in Nat /\ faults' >= faults
<1> USE FilePipelineAssumption DEF PipelineInv, TypeOK
<1>1. ASSUME NEW r \in Reqs, Handler(r)
      PROVE  version' \in {version, version + 1} /\ (faults' = faults \/ faults' = faults + 1)
  BY <1>1 DEF Handler, UploadCount, UploadSave, UploadCommit, ReprocessLoad, ReprocessCommit,
     DeleteUnlink, DeleteBump, DeleteCommit, Bump
<1>2. ASSUME NEW r \in Reqs, Job(r)
      PROVE  version' \in {version, version + 1} /\ (faults' = faults \/ faults' = faults + 1)
  BY <1>2 DEF Job, JobStart, JobRead, JobRaise, JobCommit, JobBump, JobFail, Bump
<1>3. ASSUME NEW r \in Reqs, Interrupt(r)
      PROVE  version' \in {version, version + 1} /\ (faults' = faults \/ faults' = faults + 1)
  BY <1>3 DEF Interrupt
<1>4. version' \in {version, version + 1} /\ (faults' = faults \/ faults' = faults + 1)
  BY <1>1, <1>2, <1>3 DEF Next
<1> QED  BY <1>4

\* While nothing fails and the version stays, the rows of a listed file change
\* only if their announcement is now pending, and a pending one stays pending.
LEMMA WriterStep ==
  ASSUME PipelineInv, Next, faults = 0, faults' = 0, version' = version,
         NEW f \in Files, f \in Live'
  PROVE  /\ f \in Live \/ (status[f] = "none" /\ copies'[f] = 0)
         /\ Announcing(f) => Announcing(f)'
         /\ copies'[f] = copies[f] \/ Announcing(f)'
<1> DEFINE Goal == /\ f \in Live \/ (status[f] = "none" /\ copies'[f] = 0)
                   /\ Announcing(f) => Announcing(f)'
                   /\ copies'[f] = copies[f] \/ Announcing(f)'
<1> USE FilePipelineAssumption DEF PipelineInv, TypeOK, At, Goto, Finish, Accept, Live, FileStatus, Announcing
<1>1. ASSUME NEW r \in Reqs, UploadCommit(r) \/ UploadSave(r)
      PROVE  Goal
  BY <1>1 DEF UploadCommit, UploadSave, RequestsMatchFiles, NoRowsWithoutFile
<1>2. ASSUME NEW r \in Reqs, ReprocessCommit(r)
      PROVE  Goal
  BY <1>2 DEF ReprocessCommit
<1>3. ASSUME NEW r \in Reqs, DeleteBump(r)
      PROVE  Goal
  BY <1>3 DEF DeleteBump, Bump
<1>4. ASSUME NEW r \in Reqs, DeleteCommit(r)
      PROVE  Goal
  BY <1>4 DEF DeleteCommit
<1>5. ASSUME NEW r \in Reqs, NEW g \in Files, UploadCount(r, g) \/ ReprocessLoad(r, g) \/ DeleteUnlink(r, g)
      PROVE  Goal
  BY <1>5 DEF UploadCount, ReprocessLoad, DeleteUnlink
<1>6. ASSUME NEW r \in Reqs, JobStart(r) \/ JobRead(r) \/ JobRaise(r) \/ JobFail(r)
      PROVE  Goal
  BY <1>6 DEF JobStart, JobRead, JobRaise, JobFail
<1>7. ASSUME NEW r \in Reqs, JobCommit(r)
      PROVE  Goal
  BY <1>7 DEF JobCommit
<1>8. ASSUME NEW r \in Reqs, JobBump(r)
      PROVE  Goal
  BY <1>8 DEF JobBump, Bump
<1>9. ASSUME NEW r \in Reqs, Interrupt(r)
      PROVE  Goal
  BY <1>9 DEF Interrupt
<1> HIDE DEF Goal
<1>10. Goal
  BY <1>1, <1>2, <1>3, <1>4, <1>5, <1>6, <1>7, <1>8, <1>9 DEF Next, Handler, Job
<1> QED  BY <1>10 DEF Goal

\* A DataFrame that agrees with the table still does after such a step.
LEMMA FreshStep ==
  ASSUME PipelineInv, Next, faults = 0, faults' = 0, version' = version,
         NEW df \in Frames, Fresh(df), Unlisted(df)
  PROVE  Fresh(df)'
<1> SUFFICES ASSUME NEW f \in Files, f \in Live'
             PROVE  df[f] = copies'[f] \/ Announcing(f)'
  BY DEF Fresh, Live
<1>1. CASE f \in Live
  BY <1>1, WriterStep DEF Fresh
<1>2. CASE f \notin Live
  BY <1>2, WriterStep DEF Unlisted
<1> QED  BY <1>1, <1>2

----------------------------------------------------------------------------
(* The cache invariant *)

LEMMA CacheInvInit == ACInit => FullInv
<1> SUFFICES ASSUME ACInit PROVE FullInv
  OBVIOUS
<1>1. PipelineInv /\ ACTypeOK
  BY InvInit, ACTypeInit DEF ACInit
<1>2. DOMAIN cache = {} /\ version = 0
  BY DEF ACInit, Init
<1>3. \A d \in Loads : readVersion[d] = 0 /\ step[d] = "idle" /\ Unlisted(frame[d])
  BY DEF ACInit, NoRows, Unlisted
<1> QED  BY <1>1, <1>2, <1>3 DEF FullInv, CacheInv

\* A step of a writer.
LEMMA CacheInvWriter ==
  ASSUME FullInv, Next, UNCHANGED cacheVars
  PROVE  CacheInv'
<1> SUFFICES ASSUME faults' = 0 PROVE CacheInv'
  BY DEF CacheInv
<1> USE DEF FullInv
<1>1. version \in Nat /\ version' \in {version, version + 1} /\ faults = 0
  BY VersionNext DEF PipelineInv, TypeOK
<1>2. /\ \A v \in DOMAIN cache : v \in Nat /\ v <= version /\ cache[v] \in Frames /\ Unlisted(cache[v])
      /\ \A d \in Loads : readVersion[d] \in Nat /\ readVersion[d] <= version
                          /\ frame[d] \in Frames /\ Unlisted(frame[d])
  BY <1>1 DEF CacheInv, ACTypeOK
<1>3. cache' = cache /\ step' = step /\ readVersion' = readVersion /\ frame' = frame
  BY DEF cacheVars
<1>4. ASSUME NEW df, Unlisted(df)
      PROVE  \A f \in Files : status'[f] = "none" => df[f] = 0
  BY <1>4, NoneStaysBehind DEF Unlisted
<1>5. /\ \A v \in DOMAIN cache : Unlisted(cache[v])'
      /\ \A d \in Loads : Unlisted(frame[d])'
  BY <1>2, <1>3, <1>4 DEF Unlisted
<1>6. CASE version' = version + 1
  <2>1. version' \notin DOMAIN cache /\ \A d \in Loads : readVersion[d] # version'
    BY <1>1, <1>2, <1>6
  <2> QED  BY <1>1, <1>2, <1>3, <1>5, <1>6, <2>1 DEF CacheInv
<1>7. CASE version' = version
  <2>1. ASSUME NEW df \in Frames, Fresh(df), Unlisted(df)
        PROVE  \A f \in Live' : df[f] = copies'[f] \/ Announcing(f)'
    BY <1>1, <1>7, <2>1, FreshStep DEF Fresh
  <2>2. version \in DOMAIN cache => Fresh(cache[version])'
    BY <1>1, <1>2, <1>3, <1>7, <2>1 DEF CacheInv, Fresh
  <2>3. \A d \in Loads : step[d] = "queried" /\ readVersion[d] = version => Fresh(frame[d])'
    BY <1>1, <1>2, <1>3, <2>1 DEF CacheInv, Fresh
  <2> QED  BY <1>1, <1>2, <1>3, <1>5, <1>7, <2>2, <2>3 DEF CacheInv
<1> QED  BY <1>1, <1>6, <1>7

\* A step of a dashboard load, an expiry or an eviction.
LEMMA CacheInvLoad ==
  ASSUME FullInv, NEW d \in Loads, Load(d)
  PROVE  CacheInv'
<1> SUFFICES ASSUME faults' = 0 PROVE CacheInv'
  BY DEF CacheInv
<1> USE DEF FullInv
<1>1. /\ UNCHANGED <<status, copies, version, pc, target>>
      /\ faults = 0
  BY FilePipelineAssumption
     DEF Load, GetVersion, Hit, Miss, Query, Store, vars, PipelineInv, TypeOK
<1>2. /\ \A df : Unlisted(df) <=> Unlisted(df)'
      /\ \A df : Fresh(df) <=> Fresh(df)'
  BY <1>1 DEF Unlisted, Fresh, Announcing, Live
<1>3. /\ version \in Nat /\ version' = version
      /\ \A v \in DOMAIN cache : v <= version /\ Unlisted(cache[v])
      /\ version \in DOMAIN cache => Fresh(cache[version])
      /\ \A e \in Loads : /\ readVersion[e] \in Nat /\ readVersion[e] <= version /\ Unlisted(frame[e])
                          /\ step[e] = "queried" /\ readVersion[e] = version => Fresh(frame[e])
  BY <1>1 DEF CacheInv, PipelineInv, TypeOK, ACTypeOK
<1>4. Unlisted(NoRows) /\ Unlisted(copies) /\ Fresh(copies)
  BY DEF Unlisted, NoRows, Fresh, PipelineInv, NoRowsWithoutFile, Live, FileStatus
<1>5. SUFFICES
      /\ \A v \in DOMAIN cache' : v <= version /\ Unlisted(cache'[v])
      /\ version \in DOMAIN cache' => Fresh(cache'[version])
      /\ \A e \in Loads : /\ readVersion'[e] <= version /\ Unlisted(frame'[e])
                          /\ step'[e] = "queried" /\ readVersion'[e] = version => Fresh(frame'[e])
  BY <1>1, <1>2, <1>3 DEF CacheInv, Fresh, Unlisted, Announcing, Live
<1>6. CASE GetVersion(d)
  BY <1>1, <1>3, <1>6 DEF GetVersion, ACTypeOK
<1>7. CASE Hit(d)
  BY <1>3, <1>4, <1>7 DEF Hit, EndLoad, ACTypeOK
<1>8. CASE Miss(d)
  BY <1>3, <1>8 DEF Miss, ACTypeOK
<1>9. CASE Query(d)
  BY <1>3, <1>4, <1>9 DEF Query, ACTypeOK
<1>10. CASE Store(d)
  <2>1. /\ DOMAIN cache' = DOMAIN cache \cup {readVersion[d]}
        /\ \A v \in DOMAIN cache' : cache'[v] = IF v = readVersion[d] THEN frame[d] ELSE cache[v]
        /\ step[d] = "queried"
    BY <1>1, <1>10, FilePipelineAssumption DEF Store, Put, PipelineInv, TypeOK
  <2>2. /\ \A v \in DOMAIN cache' : v <= version /\ Unlisted(cache'[v])
        /\ version \in DOMAIN cache' => Fresh(cache'[version])
    <3>1. ASSUME NEW v \in DOMAIN cache'
          PROVE  v <= version /\ Unlisted(cache'[v])
      <4>1. CASE v = readVersion[d]
        BY <1>3, <2>1, <4>1
      <4>2. CASE v # readVersion[d]
        <5>1. v \in DOMAIN cache /\ cache'[v] = cache[v]
          BY <2>1, <4>2
        <5> QED  BY <1>3, <5>1
      <4> QED  BY <4>1, <4>2
    <3>2. ASSUME version \in DOMAIN cache'
          PROVE  Fresh(cache'[version])
      <4>1. CASE version = readVersion[d]
        BY <1>3, <2>1, <4>1, <3>2
      <4>2. CASE version # readVersion[d]
        <5>1. version \in DOMAIN cache /\ cache'[version] = cache[version]
          BY <2>1, <3>2, <4>2
        <5> QED  BY <1>3, <5>1
      <4> QED  BY <4>1, <4>2
    <3> QED  BY <3>1, <3>2
  <2>3. \A e \in Loads : /\ readVersion'[e] <= version /\ Unlisted(frame'[e])
                         /\ step'[e] = "queried" /\ readVersion'[e] = version => Fresh(frame'[e])
    BY <1>3, <1>4, <1>10 DEF Store, EndLoad, ACTypeOK
  <2> QED  BY <2>2, <2>3
<1> QED  BY <1>6, <1>7, <1>8, <1>9, <1>10 DEF Load

LEMMA CacheInvExpire ==
  ASSUME FullInv, NEW v \in DOMAIN cache, Expire(v)
  PROVE  CacheInv'
  BY DEF Expire, FullInv, CacheInv, vars, Fresh, Unlisted, Announcing, Live

LEMMA FullInvNext == FullInv /\ [ACNext]_allVars => FullInv'
<1> SUFFICES ASSUME FullInv, [ACNext]_allVars PROVE FullInv'
  OBVIOUS
<1>1. PipelineInv'
  <2> DEFINE Failure == /\ UNCHANGED <<status, copies, blob, pc, target, seen, accepted>>
                        /\ version' \in Nat /\ faults' \in 0..MaxFaults
  <2>1. [Next]_vars \/ Failure
    <3>1. TypeOK
      BY DEF FullInv, PipelineInv
    <3>2. ASSUME NEW d \in Loads, Hit(d) \/ Query(d)  PROVE UNCHANGED vars
      BY <3>2 DEF Hit, Query
    <3>3. ASSUME NEW d \in Loads, GetVersion(d) \/ Miss(d)  PROVE Failure
      BY <3>1, <3>3, FilePipelineAssumption DEF GetVersion, Miss, TypeOK
    <3>4. ASSUME NEW d \in Loads, Store(d)  PROVE Failure
      BY <3>1, <3>4, FilePipelineAssumption DEF Store, TypeOK
    <3>5. ASSUME NEW v \in DOMAIN cache, Expire(v)  PROVE UNCHANGED vars
      BY <3>5 DEF Expire
    <3>6. ASSUME EvictVersion  PROVE Failure
      BY <3>1, <3>6, FilePipelineAssumption DEF EvictVersion, TypeOK
    <3>7. ASSUME UNCHANGED allVars  PROVE UNCHANGED vars
      BY <3>7 DEF allVars, vars
    <3> HIDE DEF Failure
    <3> QED  BY <3>2, <3>3, <3>4, <3>5, <3>6, <3>7 DEF ACNext, Load
  <2>2. CASE [Next]_vars
    BY <2>2, InvNext DEF FullInv
  <2>3. CASE Failure
    BY <2>3 DEF FullInv, PipelineInv, TypeOK, RequestsMatchFiles, NoRowsWithoutFile,
       DoneMeansIngested, Live
  <2> QED  BY <2>1, <2>2, <2>3
<1>2. ACTypeOK'
  BY ACTypeNext DEF FullInv, PipelineInv
<1>3. CacheInv'
  <2>1. CASE Next /\ UNCHANGED cacheVars
    BY <2>1, CacheInvWriter
  <2>2. ASSUME NEW d \in Loads, Load(d)
        PROVE  CacheInv'
    BY <2>2, CacheInvLoad
  <2>3. ASSUME NEW v \in DOMAIN cache, Expire(v)
        PROVE  CacheInv'
    BY <2>3, CacheInvExpire
  <2>4. CASE EvictVersion
    BY <2>4, FilePipelineAssumption DEF EvictVersion, CacheInv, FullInv, PipelineInv, TypeOK
  <2>5. CASE UNCHANGED allVars
    BY <2>5 DEF allVars, FullInv, CacheInv, Fresh, Unlisted, Announcing, Live
  <2> QED  BY <2>1, <2>2, <2>3, <2>4, <2>5 DEF ACNext
<1> QED  BY <1>1, <1>2, <1>3 DEF FullInv

\* Until something fails, a dashboard that finds an entry under the current
\* version sees for every existing file the rows of the table, unless the
\* ingestion that changed them is just about to bump the version.
THEOREM IngestionsAreSeen == ACSpec => []CacheSeesIngestions
<1>1. FullInv => CacheSeesIngestions
  BY DEF FullInv, CacheInv, CacheSeesIngestions, Fresh
<1>2. QED  BY <1>1, CacheInvInit, FullInvNext, PTL DEF ACSpec

\* Entries, versions and frames keep their shape, whatever is stored, expires
\* or starts over (core/analytics_cache.py).
THEOREM CacheTypes == ACSpec => []ACTypeOK
<1>1. FullInv => ACTypeOK
  BY DEF FullInv
<1>2. QED  BY <1>1, CacheInvInit, FullInvNext, PTL DEF ACSpec
=============================================================================
