------------------------- MODULE LeafSearchAbstract -------------------------
(***************************************************************************)
(* What `leaf_search` promises its caller (spec sections 4.6 and 7),       *)
(* without executors, memory or caches: every split gets exactly one      *)
(* outcome, a result or a failure; once all have one the call answers      *)
(* with the results merged and every failure listed as retryable, or fails *)
(* as a whole in the merge.  A caller may drop the call at any time; the   *)
(* splits still pending are then dropped, some of them later.              *)
(***************************************************************************)
EXTENDS FiniteSets

CONSTANTS Splits

VARIABLES outcome, response

avars == <<outcome, response>>

Pending == {s \in Splits : outcome[s] = "pending"}

Init ==
    /\ outcome = [s \in Splits |-> "pending"]
    /\ response = [status |-> "pending", hits |-> {}, failed_splits |-> {}]

\* A split's execution ends; after a cancellation its result is discarded.
Finish(s) ==
    /\ outcome[s] = "pending"
    /\ \/ /\ response.status = "pending"
          /\ \E o \in {"ok", "failed"} : outcome' = [outcome EXCEPT ![s] = o]
       \/ /\ response.status = "cancelled"
          /\ outcome' = [outcome EXCEPT ![s] = "dropped"]
    /\ UNCHANGED response

\* All splits have an outcome: merge, or fail in the merge.
Respond ==
    /\ response.status = "pending"
    /\ Pending = {}
    /\ \/ response' = [status |-> "ok",
                       hits |-> {s \in Splits : outcome[s] = "ok"},
                       failed_splits |-> {[split_id |-> s, retryable |-> TRUE] :
                                             s \in {t \in Splits : outcome[t] = "failed"}}]
       \/ response' = [response EXCEPT !.status = "error"]
    /\ UNCHANGED outcome

\* The caller drops the call; some pending splits are dropped at once.
Cancel ==
    /\ response.status = "pending"
    /\ response' = [response EXCEPT !.status = "cancelled"]
    /\ \E dropNow \in SUBSET Pending :
          outcome' = [s \in Splits |-> IF s \in dropNow THEN "dropped" ELSE outcome[s]]

Next == (\E s \in Splits : Finish(s)) \/ Respond \/ Cancel

Spec == Init /\ [][Next]_avars
             /\ \A s \in Splits : WF_avars(Finish(s))
             /\ WF_avars(Respond)
=============================================================================
