---------------------------- MODULE MCLeafSearch ----------------------------
(* Instantiation of LeafSearch for TLC: four splits, a query with two      *)
(* posting lists and a collector needing one fast-field column.            *)
EXTENDS LeafSearch

CONSTANTS s1, s2, s3, s4, p1, p2, c1

MCSplits == {s1, s2, s3, s4}
MCPostings == {p1, p2}
MCColumns == {c1}
=============================================================================
