CONSTANTS
    a = a
    b = b
    c1 = c1
    None = None
    Calls = {a, b, c1}
    Dims <- MeterDims
    Limits <- MeterLimits
    Usages <- MeterUsages
SPECIFICATION Spec
SYMMETRY Symmetry
INVARIANT EntitlementsFit
INVARIANT BooksBalance
INVARIANT CompletedIsAccounted
CHECK_DEADLOCK FALSE
