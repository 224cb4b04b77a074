# TLA+ models of the Quickwit leaf search engine

This directory holds TLA+ specifications of the leaf-execution tier of Quickwit
(`src/quickwit-search/src/leaf.rs`) and of the indexing source actor loop
(`src/quickwit-indexing/src/source/mod.rs`), the TLC configurations that check
them, and `PROJECT.json`, which maps every definition to the source lines it
models and lists the runs, the hazards and the findings.

## 1. Inventory

### Components

| Component | Source | State it keeps | Operations |
|---|---|---|---|
| FooterCache | `leaf.rs:47-86` (`global_split_footer_cache`, `get_split_footer_from_cache_or_fetch`) | process-wide `MemorySizedCache<String>`: split id -> footer bytes, bounded in bytes | `get` (line 59), storage `get_slice` of the footer range (65-78, an await), `put` (80-83) |
| LayeredIndexOpener | `leaf.rs:88-111` (`open_index`) | none beyond the request: builds a fresh bundle storage, long-term cache wrapper, unbounded per-open `CachingDirectory`, `HotDirectory` | footer lookup (await), then synchronous composition that can fail at 100-104, 108, 109 |
| MemoryAdmissionController | `leaf.rs:231-236, 255` (`quickwit_memory_usage().use_memory_with_limit`) — the controller itself is not under `src/` | one process-wide counter of committed bytes | `reserve(cushion, threshold)` (suspends), release on drop of the guard |
| WarmupEngine | `leaf.rs:113-190` (`warmup`, `warm_up_terms`, `warm_up_fastfields`) | per split execution: which posting lists / fast-field columns are resident in the per-open cache | term pass (prepare can fail at 180, one future per (segment, term), `try_join_all`), then fast-field pass (schema check 141-157, prepare 162, one future per (field, segment), `try_join_all`) |
| LeafSplitExecutor | `leaf.rs:192-266` (`leaf_search_single_split`) | per split: phase, memory cushion guard, index/searcher | reserve -> open -> collector/query/reader (241-253) -> warmup -> drop cushion (255) -> `spawn_blocking` search (256-264, panic -> `InternalError`) |
| FanOutMerger | `leaf.rs:268-321` (`leaf_search`) | per request: the per-split outcomes, the merged response | `join_all` over all splits, `partition_map` into responses/errors, merge on the blocking pool (306-311, an error here fails the call), append `failed_splits` with `retryable_error: true` |
| SourceActor | `source/mod.rs:51-164` | the wrapped `Source`, its batch mailbox, the self-sent `Loop` message | `initialize` (calls `source.initialize` then `process_message` directly), `process_message` (emit batches, send `Loop` to self), `finalize` |
| Source registry / connectivity | `source/mod.rs:166-202` | a lazily built `SourceLoader` | `quickwit_supported_sources`, `check_source_connectivity` (file exists? kafka compiled in?) |

### How they interact

`leaf_search` spawns one `leaf_search_single_split` future per split and
awaits all of them with `join_all`; the futures run concurrently on the tokio
runtime and share three pieces of state: the memory counter of the admission
controller, the global footer cache and the long-term sub-file cache. Each
executor waits at the admission gate, then looks up the footer cache (a hit
continues synchronously; a miss awaits a storage read and then `put`s), opens
the index synchronously, warms up postings and fast fields (awaits), drops its
memory cushion, and hands the search to the blocking thread pool. Per-split
errors become `(split_id, error)` pairs; the merge runs once all splits have an
outcome, on the blocking pool, and only a merge error fails the whole call.

The source actor is independent of the search path: it is a loop driven by
`Loop` messages it sends itself.

### What is hard

* **Interleaving at shared state.** Many executors race on the memory counter
  and on the footer cache: a lookup (line 59) and the `put` after the storage
  read (line 80) are separated by an await, so two requests can both miss.
* **Release on every exit path.** The cushion (231) is held across five `?`
  early returns (239, 247, 252, 254) and must be released on each of them and
  on cancellation; resident warmup data is tracked memory held until the
  searcher is dropped.
* **Admission bound and progress.** The gate admits only while the usage is
  below the threshold (comment at 219-222), so the cushions held may exceed
  it by less than one cushion, and it must never stop all progress.
* **Warm before compute.** Tantivy cannot fetch during the scan: everything the
  query and collector touch must be resident before the CPU phase (254-256).
* **Partial failure.** Any subset of splits can fail at any step (footer fetch,
  open, query build, reader, a single prefetch, the search, a panic); the
  response must account for each split exactly once, and a merge error
  discards the list of failed splits.
* **Cancellation.** If the caller drops `leaf_search`, executors in their async
  phases are dropped, but a search already on the blocking pool cannot be
  aborted and keeps its searcher (and its resident data) until it finishes.

### Properties that make each component correct

* Admission controller: committed memory equals what live executors hold
  (no leak on any path); the cushions of executors in their I/O phase exceed
  the threshold by less than one cushion; every waiting executor is
  eventually admitted.
* Executor / warmup: an executor is in its CPU phase only with every posting
  list and fast-field column of its query resident.
* Fan-out / merge: an `Ok` response lists every split exactly once, as a hit
  contributor or a retryable failure; the request eventually answers; after
  the request ends (even cancelled) all committed memory is eventually released.
* Footer cache: a byte count within the capacity, also when two openers that
  both missed put the same footer; once a footer has been put, no later open refetches it while
  every footer fits (spec §8); only openers that missed before the first put
  may fetch it again (spec §4.1).
* Source actor: exactly one `Loop` message pending while the actor loops, at
  most one after it exits; `finalize` at most once, after the loop has exited.

## 2. Plan

Modules, in the order they are built (most important behaviour first):

1. `LeafSearch.tla` — the request: per-split executors (admission, footer
   cache lookup/fetch, open, term warmup, fast-field warmup, CPU phase), the
   admission counter, the footer cache, cancellation by the caller, and the
   merge. `MCLeafSearch.tla` + `MCLeafSearch.cfg` (4 splits, 2 postings, 1
   column, cushion 2, threshold 4). **Built.**
2. `LeafSearchAbstract.tla` — what `leaf_search` promises: every split gets an
   outcome (result or retryable failure), then one response; refinement
   `LeafSearch => LeafSearchAbstract!Spec` via a mapping of `pc` to outcomes.
   **Built.**
3. `FooterCache.tla` — several concurrent requests opening overlapping splits
   against the bounded footer cache (spec-modelled LRU eviction), checking the
   duplicate-fetch window and the capacity bound. **Built.**
4. `SourceActor.tla` — the actor loop of `source/mod.rs` with initialize /
   emit / self-message / finalize, exit statuses, and a kill. **Built.**
5. A composition of two concurrent `leaf_search` requests sharing the admission
   counter and the footer cache (instance of `LeafSearch` per request):
   `TwoRequests.tla`. **Built.**

Runs (current and planned): `leaf_pass` (all safety and liveness of
`LeafSearch`), `leaf_refines_abstract`, `source_actor_pass`, `footer_cache_fit`,
`footer_cache_pressure`, `two_requests_pass` (all built).

## 3. Modules and runs

### `LeafSearch.tla` — one `leaf_search` call

State (one entry per split `s` of the request):

| Variable | Code |
|---|---|
| `pc[s]` | where `leaf_search_single_split` for `s` is: `reserve` (awaiting `use_memory_with_limit`), `open` (cushion held, footer lookup next), `fetch_footer` (awaiting `get_slice`), `warm_terms`, `warm_fields` (inside the two `try_join_all`), `cpu` (on the blocking pool), `ok` / `failed` (future resolved), `dropped` (future dropped by a cancellation) |
| `cushion[s]` | the `memory_cushion` guard is alive (231 to 255 or the early return) |
| `resident[s]` | posting lists / columns fetched into the per-open `CachingDirectory`, held by index and searcher until they are dropped |
| `memUsed` | the counter of `quickwit_memory_usage()` (cushions and, per the comment at 229-230, tracked allocations) |
| `footerCache` | the splits whose footer is in `global_split_footer_cache()` |
| `cancelled`, `response` | the caller dropped the call; what `leaf_search` returned |

Actions (each one step of one executor, cut at awaits and at accesses to
shared state, since the tokio runtime is multi-threaded):
`UseMemoryWithLimit` (231-236), `GetSplitFooter` (58-63, hit continues with
`OpenRest`: 100-109, 240-253 and the term-warmup preparation, each of which may
fail), `FooterFetched` (64-85: error, or put then `OpenRest`), `WarmPosting` /
`WarmFastField` (one prefetch future completes or fails the join),
`WarmUpTermsDone` (188, then the schema checks and `fast_field_data` of
141-162), `WarmupDone` (166, 254-256: cushion dropped, search spawned),
`SearchDone` (256-265: result, search error or panic; searcher dropped),
`LeafSearchMerge` (296-320: all outcomes in; merge succeeds and appends one
retryable failure per error, or fails and loses them), `CallerDropsRequest`
(the caller drops the future: executors in async phases are dropped with what
they hold; those on the blocking pool run to their end). `FailTask` is the
common exit through `?`: it releases the cushion and the warmed data.

Abstractions: hits are the set of splits that contributed (the merge
collector's ranking is not under `src/`); a posting list or a column is a model
value, `DataBytes` tracked bytes each; footers all have the same size, so the
byte-bounded LRU footer cache is a cache of `FooterCapacity` footers that
evicts some entry when full. The controller is not under `src/`, so its
admission rule (`Admissible`) is the one the comment at `leaf.rs:219-222`
states: "only start running a leaf request IFF the memory usage is below a
given value", i.e. the usage before the caller's cushion, compared strictly
(`used < Threshold`), with the cushion committed atomically with the test.
Spec §4.3 words it differently (the estimate with the own cushion, at or
below the threshold) and §8 claims a threshold of 0 still lets one
reservation through; neither agrees with the comment, which is the text in
this repository. Under the comment's rule a threshold of 0 admits nobody, so
the runs use a positive threshold.

### `LeafSearchAbstract.tla` — the contract of `leaf_search`

Each split gets one outcome (`ok`, `failed`, or `dropped` after a
cancellation); the call answers only when no split is pending, with the ok
splits merged and every failed split listed as retryable, or with a merge
error. `LeafSearch` refines it under the mapping
`outcome[s] = IF pc[s] is a running phase THEN "pending" ELSE pc[s]`
(`Abs` / `RefinesAbstract` in `LeafSearch.tla`); the abstract weak fairness on
`Finish(s)` makes the refinement check that every executor terminates.

### `FooterCache.tla` — concurrent footer lookups against the global cache

Several openers (`Openers`, the split executors of any number of requests)
each open up to `MaxOpens` splits. `lru` is the cache's entries, least recently
used first, `numBytes` its own byte count, `pc[o]` is `idle` or `fetching`
(awaiting `get_slice`), `target[o]` the split being fetched, `putOnce` a
history of the splits put at least once. `LookupFooter` (58-63) is the `get`:
a hit refreshes the entry and returns; a miss goes on to the storage read.
`FetchFailed` (64-78) is the `?` on a failed read; `FooterFetched` (64-85)
puts and returns. `CachePut` is `MemorySizedCache::put` as spec §3/§4.1
describe it: a footer larger than the capacity is not stored; the previous
entry of the split is popped, LRU entries are evicted (`EvictLru`) until the
footer fits, and it is appended. Footer sizes are per split (`FooterSize`),
so eviction is by bytes, not by count. The cache itself is in
`quickwit_storage`, so `ExceedsCapacity` and `EvictLru` are spec-modelled.

`FooterCacheAbstract.tla` is the cache as `LeafSearch` and `TwoRequests`
count it: a set of at most `FooterCapacity` footers whose put, when full,
replaces some entry (the same `PutFooter`). It keeps the openers of
`FooterCache` and hides the LRU order and the byte count. `FooterCache`
refines it under `cache <- ToSet(lru)` when every footer has the same size
(`RefinesSetCache`), which is what makes counting footers instead of bytes a
sound abstraction in the request models.

### `TwoRequests.tla` — two `leaf_search` calls in one process

Two instances `A` and `B` of `LeafSearch` over the same splits, each with its
own `pc`, `cushion`, `resident`, `cancelled` and `response`, sharing `memUsed`
and `footerCache`. A step is a step of one call with the other call's own
variables unchanged; both calls' fairness is assumed (same runtime and
blocking pool). It asks what one request cannot: whether the gate's bound and
the counter hold across calls, and whether a call's executors still end when
the other call holds memory, including the data of blocking searches a
cancelled call leaves running. `BothRefineAbstract` checks that each call,
taken alone, still implements `LeafSearchAbstract` while the other competes.

### `SourceActor.tla` — the source actor loop

`phase` (`init`, `loop` between messages, `exited`, `finalized`), `pending`
(the `Loop` messages in the mailbox), `iterations`, `exitStatus`, `finalized`
(calls of `source.finalize`). `Initialize` (140-144) runs `source.initialize`
and one iteration inline; `ProcessMessage` (146-154) takes one `Loop` and
runs an iteration; `Iterate(p)` is `emit_batches` then `send_self_message`,
either of which may return an exit status; `Kill` is the runtime's kill
switch between messages; `Finalize` (156-163). `MaxIterations` bounds the
`Loop`s the runtime handles: past it `ProcessMessage` is disabled and a
source still looping can only be killed, so no exit is forced by the bound.

### Runs

| Run | Module / cfg | Checks | Shows |
|---|---|---|---|
| `leaf_pass` | `MCLeafSearch` / `MCLeafSearch.cfg` | `TypeOK`, `MemoryAccounted`, `ReservationsWithinOneCushion`, `WarmBeforeSearch`, `ResponseAccountsEverySplit`, `RequestAnswered`, `MemoryEventuallyReleased` | with failures possible at every step and a caller that may cancel at any time, the memory counter is exactly what live executors hold, the admitted cushions exceed the threshold by less than one cushion, no search starts before its data is resident, an `Ok` response lists every split once, and the call always answers and eventually gives all memory back (13,562 states) |
| `leaf_refines_abstract` | `MCLeafSearch` / `MCLeafSearchRefinement.cfg` | `RefinesAbstract` | the executors and merge implement the contract of `LeafSearchAbstract`, fairness included |
| `source_actor_pass` | `SourceActor` / `MCSourceActor.cfg` | `TypeOK`, `OneLoopInFlight` | whatever call returns an exit status and whenever the actor is killed, exactly one `Loop` is in flight while the actor loops and at most one is left after it exits (119 states) |
| `footer_cache_fit` | `MCFooterCache` / `MCFooterCacheFit.cfg` | `NoRefetchWithinCapacity` | with three openers and footers that exactly fill the cache, no open reads a footer from storage after it was put; concurrent misses before the first put may still fetch twice (5,667 states) |
| `footer_cache_pressure` | `MCFooterCache` / `MCFooterCachePressure.cfg` | `TypeOK` | under LRU eviction, duplicate puts after concurrent misses, and a footer larger than the cache, the cache's byte count stays within its capacity (3,675 states) |
| `footer_cache_refines_set_cache` | `MCFooterCache` / `MCFooterCacheUniform.cfg` | `RefinesSetCache` | with one-byte footers and room for two of three, the LRU implements the footer-count cache: no eviction while there is room, never more than one footer evicted by a put (6,033 states) |
| `two_requests_refine_abstract` | `MCTwoRequests` / `MCTwoRequestsRefinement.cfg` | `BothRefineAbstract` | each of two concurrent calls implements the `leaf_search` contract, fairness included, while the other holds memory and evicts its footers (337,713 states, about 2 minutes) |
| `two_requests_pass` | `MCTwoRequests` / `MCTwoRequests.cfg` | `SharedMemoryAccounted`, `EveryExecutorEnds` | two calls on the same three splits keep the shared counter exact and both calls' cushions together less than one cushion over the threshold, and every executor of both calls ends, also when one call is cancelled with searches left on the blocking pool (337,713 states) |

Every property of a passing run has a mutant in `PROJECT.json`: a fault
variant of a mapped definition (a leaked cushion on an error path, a gate that
hands out a guard without raising the counter, unawaited column prefetches, a
merge without `join_all`, a searcher that outlives its search, a put that
never evicts, an initialize that also queues a `Loop`, a finalize that can
repeat, a cache capacity test off by one at the limit, a put that stores a
footer larger than the cache) under which TLC finds the property violated.
A gate that also admits at the threshold (`<=` for "below") violates
`ReservationsWithinOneCushion` as well.

### Bounds and why they are enough

`MCLeafSearch.cfg`: 4 splits, 2 posting lists, 1 column, `Cushion = 2`,
`Threshold = 4`, `DataBytes = 1`, `FooterCapacity = 1`. An executor is
admitted while the usage is below 4, so a second one is admitted beside the
first (also after the first has warmed data), a third must wait, and the
bound `2 cushions < 4 + 2` is tight: one more admission, from a gate that
does not commit or that admits at the threshold, breaks it. Tracked warmup
data can keep the gate closed while cushions are held; the footer cache
starts empty or holding one footer, so hits, misses and evictions all
happen; two posting lists give an executor a partly completed join to fail
in; four splits let leaked cushions starve the remaining waiters.
`MCFooterCacheFit.cfg`: 3 openers, 2 opens each, footers of 1, 1 and 2 bytes
and a capacity of 4: the footers fill the cache exactly, so the put of the
last one lands on the boundary, and three openers can miss the same split
together. `MCFooterCachePressure.cfg`: the same plus a 4-byte footer with a
capacity of 3, so eviction of one or two entries, overwrites and the
too-large path all happen.
`MCTwoRequests.cfg`: 3 splits per call (the same ones), 1 posting list, 1
column, `Cushion = 2`, `Threshold = 4`, `FooterCapacity = 1`: two of the six
executors can hold a cushion (the bound is tight, as above), so executors of each call wait on the other's;
warmed data of an admitted or cancelled call can keep the gate closed.
`MCSourceActor.cfg`: up to 10 `Loop`s handled and the four exit statuses a call can
return; the actor is sequential, so its state space is small by nature.

### Fairness

Tokio polls every woken task and the blocking pool runs every submitted
closure, so each executor (`SplitStep(s)`) and the merge are weakly fair;
a waiting executor needs no strong fairness because every admitted executor
eventually ends and gives its memory back, after which the gate stays open
for it. The caller is never obliged to cancel, and the runtime is never
obliged to kill an actor. In `FooterCache`, every awaited storage read
completes (the read returns or fails); nobody is obliged to open a split.

### Findings

* Noted, not a run: the admission rule. Spec §4.3 admits a reservation when
  the estimate including its own cushion is at or below the threshold, and
  §8 says a threshold of 0 lets exactly one reservation through at a time.
  The comment at `leaf.rs:219-222` admits while the usage is below the
  threshold, which at 0 admits nobody. The controller is not in this
  repository; the model follows the comment (see `Admissible`).
* Noted, not a run: spec §4.4 says the term and column prefetch passes run
  concurrently; `warmup` (`leaf.rs:127-132`) awaits the term pass before
  starting the column pass, so a term-prefetch failure means no column is ever
  fetched and a schema error on a fast field is only reported once all posting
  lists are in. The model follows the code.

### Not modelled (yet) and why

* The long-term sub-file cache and `MemorySizedCache` internals
  (`quickwit_storage`, not under `src/`); the bundle/hotcache formats.
* Ranking and aggregation inside the merge collector (not under `src/`).
* `quickwit_supported_sources` and `check_source_connectivity`
  (`source/mod.rs:166-202`): a static table filled once through a `OnceCell`
  and a stateless match on the source kind that checks a file path or a Kafka
  connection. Nothing changes state after initialisation and nothing runs
  concurrently, so a model would only restate the branch table, and it would
  not even give TLC a state space to explore (a few dozen inputs). The
  `OnceCell` gives one initialisation to concurrent first callers. The only
  relation between the two functions worth stating is that a config passing
  the check has a factory in the table. Every source kind named in this file
  (file, Kafka with the `kafka` feature, vec, void) satisfies it by
  inspection. The table of `SourceParams` variants is in `quickwit_config`,
  which is not in this repository. The unit test at `source/mod.rs:209-241`
  covers the branches.
* `Source::name`, `observable_state` and the `Actor` impl
  (`source/mod.rs:93-101, 128-136`) are pure getters.
* `LeafSearch` and `TwoRequests` keep the one-footer-per-unit abstraction of
  the footer cache; its byte-level behaviour is checked separately in
  `FooterCache`.

### Possible extensions

* Kill of a source actor while `initialize` or `emit_batches` is awaiting:
  when the `quickwit_actors` runtime observes its kill switch is not in this
  repository, so `Kill` is only taken between messages.
