\* The leaf_search request of MCLeafSearch.cfg, checked against its
\* abstract specification.
CONSTANTS
    s1 = s1
    s2 = s2
    s3 = s3
    s4 = s4
    p1 = p1
    p2 = p2
    c1 = c1
    Splits <- MCSplits
    Postings <- MCPostings
    Columns <- MCColumns
    Cushion = 2
    Threshold = 4
    DataBytes = 1
    FooterCapacity = 1

SPECIFICATION Spec

PROPERTY RefinesAbstract

\* A request ends: once merged or cancelled and drained, nothing is enabled.
CHECK_DEADLOCK FALSE
