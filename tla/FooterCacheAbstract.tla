------------------------ MODULE FooterCacheAbstract -------------------------
(***************************************************************************)
(* The footer cache as LeafSearch and TwoRequests see it: a set of at most *)
(* FooterCapacity split ids, where a put into a full cache replaces some  *)
(* entry.  The openers are those of FooterCache (leaf.rs lines 54-86); only *)
(* the cache is abstracted.  FooterCache refines this module when every   *)
(* footer has the same size, which is what justifies counting the cache   *)
(* in footers in the request models.                                      *)
(***************************************************************************)
EXTENDS Naturals, FiniteSets

CONSTANTS Openers, Splits, FooterCapacity, MaxOpens, NoSplit

VARIABLES cache, pc, target, opens

avars == <<cache, pc, target, opens>>

\* The put of LeafSearch (MemorySizedCache::put, spec 4.1).
PutFooter(s) ==
    IF Cardinality(cache) < FooterCapacity
    THEN cache' = cache \cup {s}
    ELSE \E victim \in cache : cache' = (cache \ {victim}) \cup {s}

\* LeafSearch lets the process-wide cache hold anything within capacity.
Init ==
    /\ cache \in {c \in SUBSET Splits : Cardinality(c) <= FooterCapacity}
    /\ pc = [o \in Openers |-> "idle"]
    /\ target = [o \in Openers |-> NoSplit]
    /\ opens = [o \in Openers |-> 0]

\* Lines 58-63: a hit returns, a miss goes on to the storage read.
Lookup(o, s) ==
    /\ pc[o] = "idle"
    /\ opens[o] < MaxOpens
    /\ \/ /\ s \in cache
          /\ opens' = [opens EXCEPT ![o] = @ + 1]
          /\ UNCHANGED <<pc, target>>
       \/ /\ s \notin cache
          /\ pc' = [pc EXCEPT ![o] = "fetching"]
          /\ target' = [target EXCEPT ![o] = s]
          /\ UNCHANGED opens
    /\ UNCHANGED cache

\* Lines 64-85: the read fails, or returns and is put.
Complete(o) ==
    /\ pc[o] = "fetching"
    /\ \/ UNCHANGED cache
       \/ PutFooter(target[o])
    /\ pc' = [pc EXCEPT ![o] = "idle"]
    /\ target' = [target EXCEPT ![o] = NoSplit]
    /\ opens' = [opens EXCEPT ![o] = @ + 1]

Next ==
    \/ \E o \in Openers, s \in Splits : Lookup(o, s)
    \/ \E o \in Openers : Complete(o)

Spec == Init /\ [][Next]_avars /\ \A o \in Openers : WF_avars(Complete(o))
=============================================================================
