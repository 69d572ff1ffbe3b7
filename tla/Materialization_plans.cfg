CONSTANTS
    None = None
    Unknown = Unknown
    c1 = c1
    Policies <- MCPolicies
    Ratios = {0, 1, 2}
    Threshold = 0
    Numbers <- MCNumbers
    MaxDigits = 100
    MaxExponent = 1000
    Sizes = {65536, 65537}
    MaxContext = 65536
    Capabilities = {c1}
    MaxChildren = 2
SPECIFICATION MaterializationSpec
INVARIANT OnlyLengthRefuses
 
INVARIANT WorkRestsOnAll
