CONSTANTS
    None = None
    Null = Null
    Words <- MCWords
    Span <- MCSpan
    Requests <- MCRequests
SPECIFICATION Spec
CHECK_DEADLOCK FALSE
INVARIANTS
    TypeOK
    AllKeywordsArrive
    ContributorsArePrefixes
    LastCounts
