----------------------------- MODULE LeafSearch -----------------------------
(***************************************************************************)
(* One call of `leaf_search` (quickwit-search/src/leaf.rs): one executor   *)
(* `leaf_search_single_split` per split, all running concurrently, sharing *)
(* the process-wide memory counter (`quickwit_memory_usage`) and the       *)
(* global split footer cache, then a join, a partition into responses and *)
(* errors, and a merge.                                                   *)
(*                                                                         *)
(* Steps are cut at every access to shared state and at every await: the   *)
(* tokio runtime is multi-threaded, so executors interleave at that grain. *)
(* Data is abstracted to identities: a posting list or a fast-field column *)
(* is a model value, a footer is the presence of its split in the cache.   *)
(***************************************************************************)
EXTENDS Naturals, FiniteSets, FiniteSetsExt

CONSTANTS
    Splits,          \* the split ids of the request (distinct)
    Postings,        \* the (segment, term) posting lists the query needs
    Columns,         \* the (fast field, segment) columns the collector needs
    Cushion,         \* LEAF_REQUEST_MEMORY_CUSHION, in abstract bytes
    Threshold,       \* memory_threshold_to_start_leaf_request()
    DataBytes,       \* tracked bytes of one fetched posting list or column
    FooterCapacity   \* split_footer_cache_capacity(), counted in footers

ASSUME /\ Splits # {}
       /\ Postings \cap Columns = {}
       /\ Cushion \in Nat \ {0}
       /\ Threshold \in Nat
       /\ DataBytes \in Nat \ {0}
       /\ FooterCapacity \in Nat \ {0}

VARIABLES
    pc,          \* pc[s]: where the executor of split s is
    cushion,     \* cushion[s]: s holds its memory cushion guard
    resident,    \* resident[s]: warmed items in s's per-open CachingDirectory
    memUsed,     \* the committed-bytes counter of quickwit_memory_usage()
    footerCache, \* splits whose footer is in global_split_footer_cache()
    cancelled,   \* the caller dropped the leaf_search future
    response     \* what leaf_search returns

vars == <<pc, cushion, resident, memUsed, footerCache, cancelled, response>>

Items == Postings \cup Columns

\* Executor phases.  "dropped": the future was dropped by a cancellation.
Running == {"reserve", "open", "fetch_footer", "warm_terms", "warm_fields", "cpu"}
Done    == {"ok", "failed", "dropped"}

SplitFailure == [split_id : Splits, retryable : BOOLEAN]
Response ==
    [status : {"pending", "ok", "error", "cancelled"},
     hits : SUBSET Splits, failed_splits : SUBSET SplitFailure]

-----------------------------------------------------------------------------
(* Memory admission: `use_memory_with_limit(cushion, threshold)`.  The     *)
(* controller is not under src/; its rule is taken from the comment at     *)
(* lines 219-222: "only start running a leaf request IFF the memory usage  *)
(* is below a given value" -- the usage before this request's cushion,     *)
(* compared strictly.  The cushion is committed atomically with the test   *)
(* (lines 229-230 take the guard only once the future resolves).          *)
Admissible(used) == used < Threshold

\* Bytes the executor of s holds and gives back when its future is dropped:
\* the cushion guard and the warmed data held by index and searcher.
Held(s) == (IF cushion[s] THEN Cushion ELSE 0) + DataBytes * Cardinality(resident[s])

\* Every exit of leaf_search_single_split through `?` (lines 239, 247, 252,
\* 254, 259-264) drops the cushion guard and the index, releasing Held(s).
\* Fault variant: an error path that releases the data but leaks the cushion.
FailTaskKeepCushion(s) ==
    /\ pc' = [pc EXCEPT ![s] = "failed"]
    /\ resident' = [resident EXCEPT ![s] = {}]
    /\ memUsed' = memUsed - DataBytes * Cardinality(resident[s])
    /\ UNCHANGED cushion
FailTask(s) ==
    /\ pc' = [pc EXCEPT ![s] = "failed"]
    /\ cushion' = [cushion EXCEPT ![s] = FALSE]
    /\ resident' = [resident EXCEPT ![s] = {}]
    /\ memUsed' = memUsed - Held(s)

\* Fault variant: a put that never evicts.
PutFooterNoEvict(s) == footerCache' = footerCache \cup {s}
\* MemorySizedCache::put: LRU eviction by size, abstracted to evicting any
\* other entry when full (spec 4.1; the cache is not under src/).
PutFooter(s) ==
    IF Cardinality(footerCache) < FooterCapacity
    THEN footerCache' = footerCache \cup {s}
    ELSE \E victim \in footerCache : footerCache' = (footerCache \ {victim}) \cup {s}

-----------------------------------------------------------------------------
Init ==
    /\ pc = [s \in Splits |-> "reserve"]
    /\ cushion = [s \in Splits |-> FALSE]
    /\ resident = [s \in Splits |-> {}]
    /\ memUsed = 0
    \* the cache is process-wide: earlier requests may have filled it
    /\ footerCache \in {c \in SUBSET Splits : Cardinality(c) <= FooterCapacity}
    /\ cancelled = FALSE
    /\ response = [status |-> "pending", hits |-> {}, failed_splits |-> {}]

\* Fault variant: the guard is handed out but the counter is not raised.
UseMemoryWithLimitNoCommit(s) ==
    /\ pc[s] = "reserve"
    /\ Admissible(memUsed)
    /\ cushion' = [cushion EXCEPT ![s] = TRUE]
    /\ pc' = [pc EXCEPT ![s] = "open"]
    /\ UNCHANGED <<memUsed, resident, footerCache, cancelled, response>>
\* Lines 231-236: wait at the gate, then commit the cushion.
UseMemoryWithLimit(s) ==
    /\ pc[s] = "reserve"
    /\ Admissible(memUsed)
    /\ memUsed' = memUsed + Cushion
    /\ cushion' = [cushion EXCEPT ![s] = TRUE]
    /\ pc' = [pc EXCEPT ![s] = "open"]
    /\ UNCHANGED <<resident, footerCache, cancelled, response>>

\* The synchronous part of open_index after the footer (lines 100-109), the
\* collector, query and reader (241-253) and the preparation of the term
\* warmup (171-187, `inverted_index(field)?`): each may fail.
OpenRest(s) ==
    \/ FailTask(s)
    \/ /\ pc' = [pc EXCEPT ![s] = "warm_terms"]
       /\ UNCHANGED <<cushion, resident, memUsed>>

\* Lines 58-63: footer cache lookup; a hit continues synchronously, a miss
\* starts the storage read of the footer range (64-71).
GetSplitFooter(s) ==
    /\ pc[s] = "open"
    /\ \/ /\ s \in footerCache
          /\ OpenRest(s)
       \/ /\ s \notin footerCache
          /\ pc' = [pc EXCEPT ![s] = "fetch_footer"]
          /\ UNCHANGED <<cushion, resident, memUsed>>
    /\ UNCHANGED <<footerCache, cancelled, response>>

\* Lines 65-85: the storage read returns; on error `?` leaves without
\* caching, on success the footer is put in the cache and opening goes on.
FooterFetched(s) ==
    /\ pc[s] = "fetch_footer"
    /\ \/ /\ FailTask(s)
          /\ UNCHANGED footerCache
       \/ /\ PutFooter(s)
          /\ OpenRest(s)
    /\ UNCHANGED <<cancelled, response>>

\* One prefetch future of a try_join_all (lines 163, 184) completes; a
\* failure fails the join, dropping the other futures, and the executor.
WarmItem(s, phase, items) ==
    /\ pc[s] = phase
    /\ \E i \in items \ resident[s] :
          \/ /\ resident' = [resident EXCEPT ![s] = @ \cup {i}]
             /\ memUsed' = memUsed + DataBytes
             /\ UNCHANGED <<pc, cushion>>
          \/ FailTask(s)
    /\ UNCHANGED <<footerCache, cancelled, response>>

WarmPosting(s) == WarmItem(s, "warm_terms", Postings)
WarmFastField(s) == WarmItem(s, "warm_fields", Columns)

\* Line 188 then 130-162: the term join completed; warm_up_fastfields checks
\* every fast field name against the schema (absent, or not fast: bail) and
\* prepares `fast_field_data(field, 0)?` before any column is fetched.
WarmUpTermsDone(s) ==
    /\ pc[s] = "warm_terms"
    /\ Postings \subseteq resident[s]
    /\ \/ FailTask(s)
       \/ /\ pc' = [pc EXCEPT ![s] = "warm_fields"]
          /\ UNCHANGED <<cushion, resident, memUsed>>
    /\ UNCHANGED <<footerCache, cancelled, response>>

\* Lines 166, 254-256: the column join completed, warmup returns, the
\* cushion is dropped and the search goes to the blocking pool.
\* Fault variant: the column prefetches are not awaited before the search.
WarmupDoneEarly(s) ==
    /\ pc[s] = "warm_fields"
    /\ pc' = [pc EXCEPT ![s] = "cpu"]
    /\ cushion' = [cushion EXCEPT ![s] = FALSE]
    /\ memUsed' = memUsed - Cushion
    /\ UNCHANGED <<resident, footerCache, cancelled, response>>
WarmupDone(s) ==
    /\ pc[s] = "warm_fields"
    /\ Columns \subseteq resident[s]
    /\ pc' = [pc EXCEPT ![s] = "cpu"]
    /\ cushion' = [cushion EXCEPT ![s] = FALSE]
    /\ memUsed' = memUsed - Cushion
    /\ UNCHANGED <<resident, footerCache, cancelled, response>>

\* Lines 256-265: the blocking search ends (result, search error or panic
\* turned into InternalError) and the searcher with its data is dropped.
\* A blocking task cannot be aborted: after a cancellation it still runs to
\* its end, and its result is discarded.
\* Fault variant: the searcher outlives its search and keeps its data.
SearchDoneKeepResident(s) ==
    /\ pc[s] = "cpu"
    /\ \E outcome \in {"ok", "failed"} :
          pc' = [pc EXCEPT ![s] = IF cancelled THEN "dropped" ELSE outcome]
    /\ UNCHANGED <<cushion, resident, memUsed, footerCache, cancelled, response>>
SearchDone(s) ==
    /\ pc[s] = "cpu"
    /\ \E outcome \in {"ok", "failed"} :
          pc' = [pc EXCEPT ![s] = IF cancelled THEN "dropped" ELSE outcome]
    /\ resident' = [resident EXCEPT ![s] = {}]
    /\ memUsed' = memUsed - DataBytes * Cardinality(resident[s])
    /\ UNCHANGED <<cushion, footerCache, cancelled, response>>

\* Lines 296-320: once join_all has every outcome, partition them, merge
\* the responses on the blocking pool (an error there fails the call and
\* the errors are lost), else append one retryable failure per error.
MergedResponse ==
    [status |-> "ok",
     hits |-> {s \in Splits : pc[s] = "ok"},
     failed_splits |-> {[split_id |-> s, retryable |-> TRUE] :
                           s \in {t \in Splits : pc[t] = "failed"}}]
\* Fault variant: merging without waiting for every split (no join_all).
LeafSearchMergeBeforeAllDone ==
    /\ response.status = "pending"
    /\ ~cancelled
    /\ \E s \in Splits : pc[s] \in Done
    /\ response' = MergedResponse
    /\ UNCHANGED <<pc, cushion, resident, memUsed, footerCache, cancelled>>
LeafSearchMerge ==
    /\ response.status = "pending"
    /\ ~cancelled
    /\ \A s \in Splits : pc[s] \in Done
    /\ \/ response' = MergedResponse
       \/ response' = [response EXCEPT !.status = "error"]
    /\ UNCHANGED <<pc, cushion, resident, memUsed, footerCache, cancelled>>

\* The caller drops the leaf_search future (a timeout or a cancelled
\* request upstream): every executor in an async phase is dropped with what
\* it holds; those on the blocking pool keep running.
CallerDropsRequest ==
    LET dropped == {s \in Splits : pc[s] \in Running \ {"cpu"}}
    IN /\ response.status = "pending"
       /\ cancelled' = TRUE
       /\ response' = [response EXCEPT !.status = "cancelled"]
       /\ pc' = [s \in Splits |-> IF s \in dropped THEN "dropped" ELSE pc[s]]
       /\ cushion' = [s \in Splits |-> IF s \in dropped THEN FALSE ELSE cushion[s]]
       /\ resident' = [s \in Splits |-> IF s \in dropped THEN {} ELSE resident[s]]
       /\ memUsed' = memUsed - MapThenSumSet(Held, dropped)
       /\ UNCHANGED footerCache

SplitStep(s) ==
    \/ UseMemoryWithLimit(s)
    \/ GetSplitFooter(s)
    \/ FooterFetched(s)
    \/ WarmPosting(s)
    \/ WarmUpTermsDone(s)
    \/ WarmFastField(s)
    \/ WarmupDone(s)
    \/ SearchDone(s)

Next ==
    \/ \E s \in Splits : SplitStep(s)
    \/ LeafSearchMerge
    \/ CallerDropsRequest

\* Tokio polls every woken task and the blocking pool runs every submitted
\* closure, so each executor and the merge are weakly fair; the caller is
\* not obliged to cancel.
Fairness ==
    /\ \A s \in Splits : WF_vars(SplitStep(s))
    /\ WF_vars(LeafSearchMerge)

Spec == Init /\ [][Next]_vars /\ Fairness

-----------------------------------------------------------------------------
TypeOK ==
    /\ pc \in [Splits -> Running \cup Done]
    /\ cushion \in [Splits -> BOOLEAN]
    /\ resident \in [Splits -> SUBSET Items]
    /\ memUsed \in Nat
    /\ footerCache \subseteq Splits
    /\ Cardinality(footerCache) <= FooterCapacity
    /\ cancelled \in BOOLEAN
    /\ response \in Response

\* The shared counter equals what the executors hold, and a finished or
\* dropped executor holds nothing: no exit path of leaf_search_single_split
\* (error `?`, panic, success, cancellation) leaks or double-releases its
\* cushion or its warmed data.
MemoryAccounted ==
    /\ memUsed = MapThenSumSet(Held, Splits)
    /\ \A s \in Splits : pc[s] \in Done => Held(s) = 0

\* The gate of use_memory_with_limit admits an executor only while the
\* usage is below the threshold, and usage counts every cushion held, so
\* the cushions held exceed the threshold by less than one cushion --
\* however admissions interleave with other executors' warmup allocations,
\* releases and cancellations.  A gate that hands out the guard without
\* committing it, or that also admits at the threshold, breaks this.
ReservationsWithinOneCushion ==
    Cushion * Cardinality({s \in Splits : cushion[s]}) < Threshold + Cushion

\* Tantivy cannot fetch during the scan: an executor reaches the blocking
\* search only once every posting list and every fast-field column of its
\* query is resident in its per-open cache.
WarmBeforeSearch ==
    \A s \in Splits : pc[s] = "cpu" => Items \subseteq resident[s]

\* A successful leaf_search accounts for every split exactly once: either it
\* contributed hits, or it is listed once in failed_splits as retryable.
ResponseAccountsEverySplit ==
    response.status = "ok" =>
        LET failedIds == {f.split_id : f \in response.failed_splits}
        IN /\ response.hits \cup failedIds = Splits
           /\ response.hits \cap failedIds = {}
           /\ \A f \in response.failed_splits : f.retryable

\* The admission gate never blocks for ever: every request is eventually
\* answered (merged, failed in the merge, or cancelled by the caller).
RequestAnswered == <>(response.status # "pending")

\* leaf_search implements its abstract contract: the outcome of a split is
\* "pending" while its executor runs and its final phase afterwards; the
\* response is the same.  This checks, under the executors' fairness, that
\* every split's execution ends and that the call answers only once all
\* splits have an outcome.
Abs == INSTANCE LeafSearchAbstract
    WITH outcome <- [s \in Splits |-> IF pc[s] \in Running THEN "pending" ELSE pc[s]]

RefinesAbstract == Abs!Spec

\* Every committed byte is eventually given back, including the data of
\* searches left running on the blocking pool by a cancellation.
MemoryEventuallyReleased == <>[](memUsed = 0)
=============================================================================
