\* The constants of MCTwoRequests.cfg; each call refines LeafSearchAbstract.
CONSTANTS
    s1 = s1
    s2 = s2
    s3 = s3
    p1 = p1
    c1 = c1
    Splits <- MCSplits
    Postings <- MCPostings
    Columns <- MCColumns
    Cushion = 2
    Threshold = 4
    DataBytes = 1
    FooterCapacity = 1

SPECIFICATION Spec

PROPERTY BothRefineAbstract

\* Both calls end: once merged or cancelled and drained, nothing is enabled.
CHECK_DEADLOCK FALSE
