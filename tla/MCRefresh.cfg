SPECIFICATION Spec
CONSTANTS
    REFTICKS = 5
    RefStart = 3
INVARIANT RefreshOpensRow
