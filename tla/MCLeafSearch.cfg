\* Cushion 2 and threshold 4: an executor is admitted while the usage is
\* below 4, so two may hold a cushion at once (a second one also after the
\* first has warmed a posting list) and the others wait; the footer cache holds one footer, so a fetch evicts.
CONSTANTS
    s1 = s1
    s2 = s2
    s3 = s3
    s4 = s4
    p1 = p1
    p2 = p2
    c1 = c1
    Splits <- MCSplits
    Postings <- MCPostings
    Columns <- MCColumns
    Cushion = 2
    Threshold = 4
    DataBytes = 1
    FooterCapacity = 1

SPECIFICATION Spec

INVARIANT TypeOK
INVARIANT MemoryAccounted
INVARIANT ReservationsWithinOneCushion
INVARIANT WarmBeforeSearch
INVARIANT ResponseAccountsEverySplit

PROPERTY RequestAnswered
PROPERTY MemoryEventuallyReleased

\* A request ends: once merged or cancelled and drained, nothing is enabled.
CHECK_DEADLOCK FALSE
