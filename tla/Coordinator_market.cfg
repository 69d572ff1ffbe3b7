CONSTANTS
    n1 = n1
    n2 = n2
    c1 = c1
    r1 = r1
    r2 = r2
    k1 = k1
    s1 = s1
    p1 = p1
    p2 = p2
    q1 = q1
    q2 = q2
    None = None
    Timeout = Timeout
    Nodes = {n1, n2}
    Problems = {p1, p2}
    TaskPool = 3
    Caps = {c1}
    Requests = {r1}
    Keys = {k1}
    SubmissionIds = {s1}
    Constraints = {q1, q2}
    LeaseSeconds = 1
    MaxDepth = 2
    MaxInflight = 1
    MaxProposals = 1
    MaxTasksPerProblem = 2
    MaxOfferings = 1
    Fees = {3400}
    MaxTime = 2
    Specs <- MarketSpecs
    Plans <- MarketPlans
    Bodies <- MarketBodies
SPECIFICATION FairSpec
PROPERTY PaidByLiveLease
PROPERTY EveryProblemSettles
