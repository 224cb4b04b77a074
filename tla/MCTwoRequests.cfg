\* Cushion 2 and threshold 4: two of the six executors may hold a cushion
\* at once; the others wait, also on the other call's warmed data.  The
\* footer cache holds one footer, so the calls evict each other's footers.
CONSTANTS
    s1 = s1
    s2 = s2
    s3 = s3
    p1 = p1
    c1 = c1
    Splits <- MCSplits
    Postings <- MCPostings
    Columns <- MCColumns
    Cushion = 2
    Threshold = 4
    DataBytes = 1
    FooterCapacity = 1

SPECIFICATION Spec

INVARIANT SharedMemoryAccounted

PROPERTY EveryExecutorEnds

\* Both calls end: once merged or cancelled and drained, nothing is enabled.
CHECK_DEADLOCK FALSE
