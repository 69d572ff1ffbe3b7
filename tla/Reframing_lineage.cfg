CONSTANTS
    n1 = n1
    n2 = n2
    c1 = c1
    r1 = r1
    r2 = r2
    r3 = r3
    k1 = k1
    s1 = s1
    p1 = p1
    p2 = p2
    p3 = p3
    q1 = q1
    q2 = q2
    f1 = f1
    f2 = f2
    None = None
    Timeout = Timeout
    Nodes = {n1, n2}
    Problems = {p1, p2, p3}
    TaskPool = 5
    Caps = {c1}
    Requests = {r1, r2, r3}
    Keys = {k1}
    SubmissionIds = {s1}
    Constraints = {q1, q2}
    LeaseSeconds = 1
    MaxDepth = 1
    MaxInflight = 1
    MaxProposals = 1
    MaxTasksPerProblem = 2
    MaxOfferings = 1
    Fees = {0}
    MaxTime = 1
    MaxOrders = 1
    ReframeKeys = {f1, f2}
    Specs <- MCSpecs
    Plans <- MCPlans
    Bodies <- MCBodies
    Successors <- MCSuccessors
SPECIFICATION ReframeSpec
SYMMETRY Symmetry
INVARIANT LineageStands
PROPERTY ImplementsOrders
