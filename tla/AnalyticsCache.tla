--------------------------- MODULE AnalyticsCache ---------------------------
(***************************************************************************)
(* The version-keyed DataFrame cache of the dashboards (core/              *)
(* analytics_cache.py and analytics._load_df) beside the writers of        *)
(* FilePipeline.  A load reads the organisation's version, looks the       *)
(* DataFrame up under it, and on a miss queries the table and stores the   *)
(* answer under the version it read first.  What a DataFrame holds is, for *)
(* each file, how many times its session rows are in it.                   *)
(***************************************************************************)
EXTENDS FilePipeline

CONSTANT Loads           \* dashboard loads that can be in flight together

ASSUME AnalyticsCacheAssumption == IsFiniteSet(Loads)

VARIABLES
  cache,                 \* DataFrames in Redis, by version (partial function)
  step,                  \* step[d]: "idle", "versioned", "missed" or "queried"
  readVersion,           \* readVersion[d]: the version load d read
  frame                  \* frame[d]: what load d got from the database

cacheVars == <<cache, step, readVersion, frame>>
allVars == <<status, copies, blob, version, pc, target, seen, accepted, faults,
             cache, step, readVersion, frame>>

Frames == [Files -> Nat]
NoRows == [f \in Files |-> 0]

ACInit ==
  /\ Init
  /\ cache = [v \in {} |-> NoRows]
  /\ step = [d \in Loads |-> "idle"]
  /\ readVersion = [d \in Loads |-> 0]
  /\ frame = [d \in Loads |-> NoRows]

EndLoad(d) ==
  /\ step' = [step EXCEPT ![d] = "idle"]
  /\ readVersion' = [readVersion EXCEPT ![d] = 0]
  /\ frame' = [frame EXCEPT ![d] = NoRows]

\* get_version: a Redis error, or no key, reads as version 0.
GetVersion(d) ==
  /\ step[d] = "idle"
  /\ step' = [step EXCEPT ![d] = "versioned"]
  /\ \/ readVersion' = [readVersion EXCEPT ![d] = version] /\ UNCHANGED faults
     \/ /\ faults < MaxFaults /\ faults' = faults + 1
        /\ readVersion' = [readVersion EXCEPT ![d] = 0]
  /\ UNCHANGED <<status, copies, blob, version, pc, target, seen, accepted, cache, frame>>

Hit(d) ==
  /\ step[d] = "versioned"
  /\ readVersion[d] \in DOMAIN cache
  /\ EndLoad(d)
  /\ UNCHANGED <<vars, cache>>

\* A miss; an error of the lookup is suppressed and also queries the table.
Miss(d) ==
  /\ step[d] = "versioned"
  /\ \/ readVersion[d] \notin DOMAIN cache /\ UNCHANGED faults
     \/ faults < MaxFaults /\ faults' = faults + 1
  /\ step' = [step EXCEPT ![d] = "missed"]
  /\ UNCHANGED <<status, copies, blob, version, pc, target, seen, accepted,
                 cache, readVersion, frame>>

\* Slip: a file without rows is missing from what the query returns.
QueryListedOnly(d) ==
  /\ step[d] = "missed"
  /\ frame' = [frame EXCEPT ![d] = [f \in Live |-> copies[f]]]
  /\ step' = [step EXCEPT ![d] = "queried"]
  /\ UNCHANGED <<vars, cache, readVersion>>

\* _load_df_uncached reads the committed rows.
Query(d) ==
  /\ step[d] = "missed"
  /\ frame' = [frame EXCEPT ![d] = copies]
  /\ step' = [step EXCEPT ![d] = "queried"]
  /\ UNCHANGED <<vars, cache, readVersion>>

Put(v, df) == [w \in DOMAIN cache \cup {v} |-> IF w = v THEN df ELSE cache[w]]

\* Slip: the key is built from the version at the time of the SET.
StoreUnderLatest(d) ==
  /\ step[d] = "queried"
  /\ cache' = Put(version, frame[d])
  /\ EndLoad(d)
  /\ UNCHANGED vars

\* SET with the TTL; an error is suppressed.
Store(d) ==
  /\ step[d] = "queried"
  /\ \/ cache' = Put(readVersion[d], frame[d]) /\ UNCHANGED faults
     \/ faults < MaxFaults /\ faults' = faults + 1 /\ UNCHANGED cache
  /\ EndLoad(d)
  /\ UNCHANGED <<status, copies, blob, version, pc, target, seen, accepted>>

\* Slip: a SET without the ex argument.
ExpireNever(v) == FALSE /\ UNCHANGED allVars

\* DF_CACHE_TTL, or an eviction by Redis (allkeys-lru).
Expire(v) ==
  /\ v \in DOMAIN cache
  /\ cache' = [w \in DOMAIN cache \ {v} |-> cache[w]]
  /\ UNCHANGED <<vars, step, readVersion, frame>>

\* Redis runs with --maxmemory-policy allkeys-lru: it may evict the version key
\* too, and the counter starts over.
EvictVersion ==
  /\ version > 0
  /\ faults < MaxFaults /\ faults' = faults + 1
  /\ version' = 0
  /\ UNCHANGED <<status, copies, blob, pc, target, seen, accepted, cacheVars>>

Load(d) == GetVersion(d) \/ Hit(d) \/ Miss(d) \/ Query(d) \/ Store(d)

ACNext ==
  \/ Next /\ UNCHANGED cacheVars
  \/ \E d \in Loads : Load(d)
  \/ \E v \in DOMAIN cache : Expire(v)
  \/ EvictVersion

ACSpec == ACInit /\ [][ACNext]_allVars

\* Redis does expire its keys; workers and event loop make progress.
ACFairSpec ==
  /\ ACSpec
  /\ \A r \in Reqs : WF_allVars(Job(r) /\ UNCHANGED cacheVars)
  /\ WF_allVars(\E v \in DOMAIN cache : Expire(v))
  /\ \A d \in Loads : WF_allVars(Miss(d) \/ Hit(d) \/ Query(d) \/ Store(d))

----------------------------------------------------------------------------
(* Properties *)

ACTypeOK ==
  /\ DOMAIN cache \in SUBSET Nat
  /\ \A v \in DOMAIN cache : cache[v] \in Frames
  /\ step \in [Loads -> {"idle", "versioned", "missed", "queried"}]
  /\ readVersion \in [Loads -> Nat]
  /\ frame \in [Loads -> Frames]

Announcing(f) == \E r \in Reqs : pc[r] = "announce" /\ target[r] = f

\* A dashboard that looks up the current version finds, for every file that
\* still exists, exactly the rows of the table, unless the ingestion that
\* changed them is about to announce itself.  (No failure so far.)
CacheSeesIngestions ==
  faults = 0 /\ version \in DOMAIN cache =>
    \A f \in Live : cache[version][f] = copies[f] \/ Announcing(f)

\* analytics_cache.py:4: incrementing the version invalidates all the cache of
\* the organisation.  So when no writer is under way the current entry is the
\* table.
QuietWriters == \A r \in Reqs : pc[r] \notin {"announce", "unlinked", "bumped"}
CacheSeesDeletions ==
  faults = 0 /\ QuietWriters /\ version \in DOMAIN cache => cache[version] = copies

\* Whatever went wrong (a bump lost, a deletion that overtook its commit, a
\* version that started over), an entry the table has moved away from does not
\* stay the current one for ever.
StaleEntriesGoAway ==
  version \in DOMAIN cache /\ cache[version] # copies ~>
    version \notin DOMAIN cache \/ cache[version] = copies
=============================================================================
