---------------------------- MODULE FooterCache ----------------------------
(***************************************************************************)
(* The process-wide split footer cache of quickwit-search/src/leaf.rs      *)
(* (global_split_footer_cache) and the footer lookup of every index open   *)
(* (get_split_footer_from_cache_or_fetch), with several openers running   *)
(* concurrently on overlapping splits.  An open looks the split up, and on *)
(* a miss awaits a storage read of the footer range and then puts the      *)
(* bytes: the lookup and the put are two steps with an await between them, *)
(* so two openers of one split can both miss, both fetch and both put.     *)
(*                                                                         *)
(* The cache is a MemorySizedCache (quickwit-storage, not part of this     *)
(* repository's inspected sources): its get/put are modelled from the      *)
(* spec's contract -- an LRU bounded in bytes, one entry per split, a put  *)
(* of a present key overwrites the slot, an item larger than the whole    *)
(* capacity is not stored.  Footer bytes are deterministic per split, so   *)
(* an entry is just the split id; FooterSize gives its length.            *)
(***************************************************************************)
EXTENDS Naturals, Sequences, SequencesExt

CONSTANTS
    Openers,     \* concurrent index opens (split executors of any request)
    Splits,      \* split ids
    FooterSize,  \* split id -> footer byte length (split_footer_end - start)
    Capacity,    \* split_footer_cache_capacity(), in bytes
    MaxOpens,    \* each opener opens at most this many splits
    NoSplit      \* an opener not awaiting a fetch

ASSUME /\ FooterSize \in [Splits -> Nat \ {0}]
       /\ Capacity \in Nat
       /\ MaxOpens \in Nat \ {0}
       /\ NoSplit \notin Splits

VARIABLES
    lru,       \* cache entries, least recently used first
    numBytes,  \* the cache's own count of resident bytes
    pc,        \* opener -> "idle" | "fetching" (awaiting index_storage.get_slice)
    target,    \* opener -> the split whose footer it is fetching
    opens,     \* opener -> opens finished so far (bound MaxOpens)
    putOnce    \* history: splits whose footer has been put at least once

vars == <<lru, numBytes, pc, target, opens, putOnce>>

-----------------------------------------------------------------------------
(* MemorySizedCache, modelled from the spec (§3 FooterCacheEntry, §4.1).   *)

\* Fault variant: "exceeds" already when the bytes reach the capacity.
ExceedsCapacityAtLimit(n) == n >= Capacity
\* The capacity test of the cache: n bytes do not fit.
ExceedsCapacity(n) == n > Capacity

\* Pop least recently used entries until `need` more bytes fit; the pair
\* of the remaining entries and their byte count.
RECURSIVE EvictLru(_, _, _)
EvictLru(q, bytes, need) ==
    IF q # <<>> /\ ExceedsCapacity(bytes + need)
    THEN EvictLru(Tail(q), bytes - FooterSize[Head(q)], need)
    ELSE <<q, bytes>>

\* get: a hit makes the entry the most recently used one.
CacheGet(s) == lru' = Append(Remove(lru, s), s)

\* Fault variant: the item-size check is dropped, so a footer larger than
\* the capacity empties the cache and is stored anyway.
PutIgnoreTooLarge(s) ==
    LET kept == Remove(lru, s)
        keptBytes == numBytes - (IF s \in ToSet(lru) THEN FooterSize[s] ELSE 0)
        room == EvictLru(kept, keptBytes, FooterSize[s])
    IN  /\ lru' = Append(room[1], s)
        /\ numBytes' = room[2] + FooterSize[s]
\* put: a footer larger than the whole cache is not stored; otherwise the
\* previous entry of the split is popped, LRU entries are evicted until the
\* footer fits, and it becomes the most recently used entry.
CachePut(s) ==
    IF ExceedsCapacity(FooterSize[s])
    THEN UNCHANGED <<lru, numBytes>>
    ELSE LET kept == Remove(lru, s)
             keptBytes == numBytes - (IF s \in ToSet(lru) THEN FooterSize[s] ELSE 0)
             room == EvictLru(kept, keptBytes, FooterSize[s])
         IN  /\ lru' = Append(room[1], s)
             /\ numBytes' = room[2] + FooterSize[s]

-----------------------------------------------------------------------------
(* The openers (leaf.rs lines 54-86).                                      *)

\* The cache starts empty (OnceCell::get_or_init, lines 47-52).
Init ==
    /\ lru = <<>>
    /\ numBytes = 0
    /\ pc = [o \in Openers |-> "idle"]
    /\ target = [o \in Openers |-> NoSplit]
    /\ opens = [o \in Openers |-> 0]
    /\ putOnce = {}

\* Lines 58-63: look the split up; a hit returns the cached footer, a miss
\* goes on to the storage read.  The cache lock is held for the get only.
LookupFooter(o, s) ==
    /\ pc[o] = "idle"
    /\ opens[o] < MaxOpens
    /\ \/ /\ s \in ToSet(lru)
          /\ CacheGet(s)
          /\ opens' = [opens EXCEPT ![o] = @ + 1]
          /\ UNCHANGED <<numBytes, pc, target>>
       \/ /\ s \notin ToSet(lru)
          /\ pc' = [pc EXCEPT ![o] = "fetching"]
          /\ target' = [target EXCEPT ![o] = s]
          /\ UNCHANGED <<lru, numBytes, opens>>
    /\ UNCHANGED putOnce

\* Lines 64-78: the storage read fails and `?` returns the error; nothing
\* is put.
FetchFailed(o) ==
    /\ pc[o] = "fetching"
    /\ pc' = [pc EXCEPT ![o] = "idle"]
    /\ target' = [target EXCEPT ![o] = NoSplit]
    /\ opens' = [opens EXCEPT ![o] = @ + 1]
    /\ UNCHANGED <<lru, numBytes, putOnce>>

\* Lines 64-85: the storage read returns and the footer is put into the
\* global cache before it is returned.
FooterFetched(o) ==
    /\ pc[o] = "fetching"
    /\ CachePut(target[o])
    /\ putOnce' = putOnce \cup {target[o]}
    /\ pc' = [pc EXCEPT ![o] = "idle"]
    /\ target' = [target EXCEPT ![o] = NoSplit]
    /\ opens' = [opens EXCEPT ![o] = @ + 1]

\* Every open_index (lines 91-99) of any split by any opener.
Next ==
    \/ \E o \in Openers, s \in Splits : LookupFooter(o, s)
    \/ \E o \in Openers : FetchFailed(o) \/ FooterFetched(o)

\* Every awaited storage read completes, one way or the other.
Spec == Init /\ [][Next]_vars /\ \A o \in Openers : WF_vars(FooterFetched(o) \/ FetchFailed(o))

-----------------------------------------------------------------------------
TypeOK ==
    /\ lru \in Seq(Splits)
    /\ numBytes \in 0..Capacity
    /\ pc \in [Openers -> {"idle", "fetching"}]
    /\ target \in [Openers -> Splits \cup {NoSplit}]
    /\ opens \in [Openers -> 0..MaxOpens]
    /\ putOnce \subseteq Splits

\* All footers fit in the cache together.
FitsInCapacity ==
    FoldSet(LAMBDA s, acc : FooterSize[s] + acc, 0, Splits) <= Capacity

\* §8: once the footer of a split has been fetched and put, a later open
\* of that split does not read the footer range from storage again, as
\* long as the cache can hold every footer.  Openers that missed before
\* the first put completed may still fetch it (§4.1).
NoRefetchWithinCapacity ==
    [][FitsInCapacity =>
         \A o \in Openers :
             pc[o] = "idle" /\ pc'[o] = "fetching" => target'[o] \notin putOnce]_vars

\* With footers of one size, the byte-bounded LRU behaves as the cache the
\* request models use: a set of at most Capacity footers whose put, when
\* full, replaces one entry -- an eviction never happens while there is
\* room and never removes more than one footer.  The LRU order and the byte
\* count are hidden; the openers are mapped to themselves.
AbsCache == INSTANCE FooterCacheAbstract
    WITH cache <- ToSet(lru), FooterCapacity <- Capacity

RefinesSetCache == AbsCache!Spec
=============================================================================
