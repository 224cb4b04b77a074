\* Footers of equal size and room for two of three: the LRU refines the
\* footer-count cache of LeafSearch.
CONSTANTS
    o1 = o1  o2 = o2  o3 = o3
    a = a  b = b  c = c  d = d
    NoSplit = NoSplit
    Openers <- MCOpeners
    Splits <- MCSplitsFit
    FooterSize <- MCFooterSizeUniform
    Capacity = 2
    MaxOpens = 2
SPECIFICATION Spec
PROPERTY RefinesSetCache
\* Every opener stops after MaxOpens opens.
CHECK_DEADLOCK FALSE
