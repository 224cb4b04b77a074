---------------------------- MODULE TwoRequests -----------------------------
(***************************************************************************)
(* Two concurrent calls of `leaf_search` on the same splits in one search  *)
(* process.  Each call has its own executors, cancellation and response    *)
(* (an instance of LeafSearch); they share what leaf.rs keeps process-wide: *)
(* the memory counter behind use_memory_with_limit and the global split    *)
(* footer cache.  A step of one call leaves the other call's own state     *)
(* alone.  This is where one request's executors, and the searches a      *)
(* cancelled request leaves on the blocking pool, hold back the admission  *)
(* of the other request's splits.                                          *)
(***************************************************************************)
EXTENDS Naturals, FiniteSets, FiniteSetsExt

CONSTANTS Splits, Postings, Columns, Cushion, Threshold, DataBytes, FooterCapacity

VARIABLES
    pcA, cushionA, residentA, cancelledA, responseA,  \* request A's own state
    pcB, cushionB, residentB, cancelledB, responseB,  \* request B's own state
    memUsed,      \* quickwit_memory_usage(), shared
    footerCache   \* global_split_footer_cache(), shared

varsA == <<pcA, cushionA, residentA, cancelledA, responseA>>
varsB == <<pcB, cushionB, residentB, cancelledB, responseB>>
vars == <<varsA, varsB, memUsed, footerCache>>

A == INSTANCE LeafSearch
        WITH pc <- pcA, cushion <- cushionA, resident <- residentA,
             cancelled <- cancelledA, response <- responseA
B == INSTANCE LeafSearch
        WITH pc <- pcB, cushion <- cushionB, resident <- residentB,
             cancelled <- cancelledB, response <- responseB

Init == A!Init /\ B!Init

Next ==
    \/ A!Next /\ UNCHANGED varsB
    \/ B!Next /\ UNCHANGED varsA

\* Both calls run on the same tokio runtime and blocking pool.
Spec == Init /\ [][Next]_vars /\ A!Fairness /\ B!Fairness

-----------------------------------------------------------------------------
\* The process-wide counter is what the executors of both calls hold, and
\* the gate, reading that one counter, keeps the cushions of both calls
\* together less than one cushion over the threshold: admission, release
\* on every exit path and cancellation of one call never corrupt the
\* accounting or the bound seen by the other.
SharedMemoryAccounted ==
    /\ memUsed = MapThenSumSet(A!Held, Splits) + MapThenSumSet(B!Held, Splits)
    /\ Cushion * (Cardinality({s \in Splits : cushionA[s]})
                  + Cardinality({s \in Splits : cushionB[s]})) < Threshold + Cushion

\* Every executor of either call ends, even when the other call holds
\* memory the gate needs: a cancelled call's blocking searches finish and
\* release their data, so the other call's waiting splits get admitted.
EveryExecutorEnds ==
    <>(\A s \in Splits : pcA[s] \in A!Done /\ pcB[s] \in B!Done)

\* Each call still implements the contract of leaf_search (LeafSearchAbstract)
\* while the other call competes for the gate and evicts its footers: every
\* split of each call gets one outcome and each call answers only once all
\* its splits have one.
BothRefineAbstract == A!RefinesAbstract /\ B!RefinesAbstract
=============================================================================
