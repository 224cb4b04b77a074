\* The footers do not fit together and one does not fit at all: LRU
\* eviction, overwrites after concurrent misses and the too-large path.
CONSTANTS
    o1 = o1  o2 = o2  o3 = o3
    a = a  b = b  c = c  d = d
    NoSplit = NoSplit
    Openers <- MCOpeners
    Splits <- MCSplitsPressure
    FooterSize <- MCFooterSizePressure
    Capacity = 3
    MaxOpens = 2
SPECIFICATION Spec
SYMMETRY MCSymmetry
INVARIANT TypeOK
\* Every opener stops after MaxOpens opens.
CHECK_DEADLOCK FALSE
