\* Every footer fits: no eviction may ever cause a refetch.
CONSTANTS
    o1 = o1  o2 = o2  o3 = o3
    a = a  b = b  c = c  d = d
    NoSplit = NoSplit
    Openers <- MCOpeners
    Splits <- MCSplitsFit
    FooterSize <- MCFooterSizeFit
    Capacity = 4
    MaxOpens = 2
SPECIFICATION Spec
PROPERTY NoRefetchWithinCapacity
\* Every opener stops after MaxOpens opens.
CHECK_DEADLOCK FALSE
