------------------------------ MODULE SearchCache ------------------------------
(***************************************************************************)
(* The ranking and facet caches in Redis (core/cache.py, and the calls made *)
(* on it by services/search_service.py, services/facet_service.py and       *)
(* ingest/pipeline.py).  A key holds the data version read at the start of  *)
(* the request, so that an ingest invalidates every key by incrementing it. *)
(* The database is known by its generation: the ingests committed so far.   *)
(* Keys of different questions never meet; the module follows one question. *)
(***************************************************************************)
EXTENDS Naturals

CONSTANTS
    Searchers,       \* requests asking the question, each any number of times
    MaxVersion,      \* bound: how far the data version may be incremented
    MaxGeneration,   \* bound: how many ingests may commit
    Faults,          \* what Redis may do: fail a call ("error"), lose its keys ("forget")
    NoEntry          \* no value under a key

ASSUME BoundsAssumption  == MaxVersion \in Nat /\ MaxGeneration \in Nat
ASSUME FaultsAssumption  == Faults \subseteq {"error", "forget"}
ASSUME NoEntryAssumption == NoEntry \notin Nat

VARIABLES
    generation,   \* ingests committed to PostgreSQL
    version,      \* search:data_version in Redis, 0 when the key is missing
    cache,        \* cache[v]: generation the ranking stored under version v was read from
    ingest,       \* how far the running ingest is
    search,       \* what each search knows
    intact        \* history: Redis has not lost its keys

cacheVars == <<generation, version, cache, ingest, search, intact>>

Versions == 0 .. MaxVersion

\* A search: the version in its key, whether that stands for a failed read, the
\* generation when it computed the key, and the generation it ranked.
Search == [at: {"idle", "lookup", "rank", "store"},
           key: Versions, blind: BOOLEAN, since: Nat, payload: Nat]

Idle == [at |-> "idle", key |-> 0, blind |-> FALSE, since |-> 0, payload |-> 0]

RedisErrors == "error" \in Faults

CacheInit ==
    /\ generation = 0
    /\ version = 0
    /\ cache = [v \in Versions |-> NoEntry]
    /\ ingest = "idle"
    /\ search = [s \in Searchers |-> Idle]
    /\ intact = TRUE

-------------------------------------------------------------------------------
(* A search, or a facet count: _cache_key, get_json, the queries, set_json.   *)

Answered(s) == search' = [search EXCEPT ![s] = Idle]

UnreadVersion == 0

\* _cache_key with get_data_version, which answers 0 when the call fails.
ComputeKey(s) ==
    /\ search[s].at = "idle"
    /\ \E failed \in IF RedisErrors THEN BOOLEAN ELSE {FALSE} :
          search' = [search EXCEPT ![s] = [at      |-> "lookup",
                                           key     |-> IF failed THEN UnreadVersion ELSE version,
                                           blind   |-> failed,
                                           since   |-> generation,
                                           payload |-> 0]]
    /\ UNCHANGED <<generation, version, cache, ingest, intact>>

\* get_json finds the entry: the search is answered from it.
AnswerFromCache(s) ==
    /\ search[s].at = "lookup"
    /\ cache[search[s].key] # NoEntry
    /\ Answered(s)
    /\ UNCHANGED <<generation, version, cache, ingest, intact>>

\* get_json finds nothing, or fails and behaves like a miss.
Miss(s) ==
    /\ search[s].at = "lookup"
    /\ RedisErrors \/ cache[search[s].key] = NoEntry
    /\ search' = [search EXCEPT ![s].at = "rank"]
    /\ UNCHANGED <<generation, version, cache, ingest, intact>>

\* The queries.  Each is a READ COMMITTED statement of its own; the payload is as old
\* as the first of them.
MakeRanking(s) ==
    /\ search[s].at = "rank"
    /\ search' = [search EXCEPT ![s].at = "store", ![s].payload = generation]
    /\ UNCHANGED <<generation, version, cache, ingest, intact>>

\* Mutant: the version is read again for the write.
KeyToStore_Reread(s) == version

\* The entry goes under the key computed before the queries ran.
KeyToStore(s) == search[s].key

\* set_json, whose failure is only logged; the search is answered either way.
Store(s) ==
    /\ search[s].at = "store"
    /\ \/ cache' = [cache EXCEPT ![KeyToStore(s)] = search[s].payload]
       \/ RedisErrors /\ UNCHANGED cache
    /\ Answered(s)
    /\ UNCHANGED <<generation, version, ingest, intact>>

-------------------------------------------------------------------------------
(* python -m ingest: one transaction, the version bumped before its commit.   *)
(* A second ingest waits for the row locks of the first, so one runs at once. *)

\* The upserts, statistics and estimates of IngestPipeline.run, not yet visible.
Upsert ==
    /\ ingest = "idle"
    /\ version < MaxVersion
    /\ generation < MaxGeneration
    /\ ingest' = "upserted"
    /\ UNCHANGED <<generation, version, cache, search, intact>>

\* Mutant: the version is left alone.
NewVersion_Unchanged == version

NewVersion == version + 1

\* bump_data_version, which raises when Redis fails: see FailIngest.
BumpDataVersion ==
    /\ ingest = "upserted"
    /\ version' = NewVersion
    /\ ingest' = "bumped"
    /\ UNCHANGED <<generation, cache, search, intact>>

CommitIngest ==
    /\ ingest = "bumped"
    /\ generation' = generation + 1
    /\ ingest' = "idle"
    /\ UNCHANGED <<version, cache, search, intact>>

\* A rejected file, an error of either server, a killed process: rolled back, but a
\* version already bumped stays bumped.
FailIngest ==
    /\ ingest # "idle"
    /\ ingest' = "idle"
    /\ UNCHANGED <<generation, version, cache, search, intact>>

-------------------------------------------------------------------------------
\* Mutant: SET without EX.
MayExpire_Never(v) == FALSE

MayExpire(v) == cache[v] # NoEntry

\* search_cache_ttl_seconds have passed since SET, or Redis evicted the entry.
ExpireEntry(v) ==
    /\ MayExpire(v)
    /\ cache' = [cache EXCEPT ![v] = NoEntry]
    /\ UNCHANGED <<generation, version, ingest, search, intact>>

\* Redis restarts without persistence, or evicts the counter (allkeys-lru).
Forget ==
    /\ "forget" \in Faults
    /\ version' = 0
    /\ cache' \in {cache, [v \in Versions |-> NoEntry]}
    /\ intact' = FALSE
    /\ UNCHANGED <<generation, ingest, search>>

ServeSearch(s) == ComputeKey(s) \/ AnswerFromCache(s) \/ Miss(s) \/ MakeRanking(s) \/ Store(s)

Ingest == Upsert \/ BumpDataVersion \/ CommitIngest \/ FailIngest

CacheNext ==
    \/ \E s \in Searchers : ServeSearch(s)
    \/ Ingest
    \/ \E v \in Versions : ExpireEntry(v)
    \/ Forget

CacheSpec == CacheInit /\ [][CacheNext]_cacheVars

\* Searches are served, and every entry has a time to live.
Fairness ==
    /\ \A s \in Searchers : WF_cacheVars(ServeSearch(s))
    /\ \A v \in Versions : WF_cacheVars(ExpireEntry(v))

FairCacheSpec == CacheSpec /\ Fairness

-------------------------------------------------------------------------------
(* Properties.                                                               *)

TypeOK ==
    /\ generation \in Nat
    /\ version \in Versions
    /\ cache \in [Versions -> Nat \cup {NoEntry}]
    /\ ingest \in {"idle", "upserted", "bumped"}
    /\ search \in [Searchers -> Search]
    /\ intact \in BOOLEAN

\* Until Redis loses its keys, what search:data_version points at is never more than one
\* ingest behind the database, whichever searches and ingests overlap and whichever
\* ingests and calls fail.
CurrentEntryAtMostOneBehind ==
    intact /\ cache[version] # NoEntry => cache[version] + 1 >= generation

\* Until Redis loses its keys, a search that could read the version and is answered from
\* the cache misses at most the one ingest that was committing when the entry was made:
\* the answer is at most one behind what was committed when the search began.
AnswerAtMostOneBehind ==
    [][\A s \in Searchers :
          intact /\ AnswerFromCache(s) /\ ~search[s].blind =>
              cache[search[s].key] + 1 >= search[s].since]_cacheVars

\* Stale entries die out: once ingests stop, whatever Redis lost or failed to do, the
\* cache ends up holding nothing but rankings of the latest data.
EventuallyFresh ==
    <>[](\A v \in Versions : cache[v] \in {NoEntry, generation})

\* cache.py:47, and the last step of the design's ingest: incrementing the version
\* invalidates every key, so no later search is answered from older data.
NoStaleAnswer ==
    [][\A s \in Searchers :
          AnswerFromCache(s) => cache[search[s].key] >= search[s].since]_cacheVars

===============================================================================
