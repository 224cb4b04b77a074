---------------------------- MODULE MCTwoRequests ---------------------------
(* Instantiation of TwoRequests for TLC: two calls on the same three     *)
(* splits, a query with one posting list and one fast-field column.      *)
EXTENDS TwoRequests

CONSTANTS s1, s2, s3, p1, c1

MCSplits == {s1, s2, s3}
MCPostings == {p1}
MCColumns == {c1}
=============================================================================
