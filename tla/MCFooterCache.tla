---------------------------- MODULE MCFooterCache ---------------------------
(* Instantiation of FooterCache for TLC: three concurrent openers and     *)
(* three or four splits with footers of one, one, two and four bytes.     *)
EXTENDS FooterCache, TLC

CONSTANTS o1, o2, o3, a, b, c, d

MCOpeners == {o1, o2, o3}
\* Three footers filling the cache exactly (with Capacity = 4).
MCSplitsFit == {a, b, c}
MCFooterSizeFit == (a :> 1) @@ (b :> 1) @@ (c :> 2)
\* The same three and one footer larger than the whole cache (Capacity = 3).
MCSplitsPressure == {a, b, c, d}
MCFooterSizePressure == (a :> 1) @@ (b :> 1) @@ (c :> 2) @@ (d :> 4)
\* Footers of one byte each (with Capacity = 2): the footer-count cache.
MCFooterSizeUniform == [s \in MCSplitsFit |-> 1]

MCSymmetry == Permutations(MCOpeners)
=============================================================================
