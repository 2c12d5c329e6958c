SPECIFICATION MCSpec
CONSTANTS
    Elements <- MCElements
    MaxElements = 5
    None = None
INVARIANTS
    CompiledIsFaithful
    RefusalHasReason
    TextPreserved
    NumberedAsWritten
\* compilation ends
CHECK_DEADLOCK FALSE
