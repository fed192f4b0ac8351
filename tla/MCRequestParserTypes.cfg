CONSTANTS
    None = None
    Null = Null
    Words <- MCWords
    Span <- MCSpan
    Requests <- WholeRequests
SPECIFICATION Spec
CHECK_DEADLOCK FALSE
INVARIANTS
    StringForIntegerRejected
