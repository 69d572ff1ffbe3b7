CONSTANTS
    n1 = n1
    n2 = n2
    c1 = c1
    r1 = r1
    r2 = r2
    k1 = k1
    s1 = s1
    p1 = p1
    p2 = p2
    q1 = q1
    q2 = q2
    None = None
    Timeout = Timeout
    Nodes = {n1, n2}
    Problems = {p1}
    TaskPool = 3
    Caps = {c1}
    Requests = {r1, r2}
    Keys = {k1}
    SubmissionIds = {s1}
    Constraints = {q1, q2}
    LeaseSeconds = 2
    MaxDepth = 2
    MaxInflight = 1
    MaxProposals = 2
    MaxTasksPerProblem = 3
    MaxOfferings = 1
    Fees = {0, 3400}
    MaxTime = 4
    Specs <- LifecycleSpecs
    Plans <- LifecyclePlans
    Bodies <- LifecycleBodies
SPECIFICATION Spec
SYMMETRY Symmetry
INVARIANT TypeOK
INVARIANT AttemptLedger
INVARIANT OneSubmissionPerNode
INVARIANT TreeConsistent
INVARIANT FundsConserved
INVARIANT QuotesHonoured
INVARIANT EscrowCoversCommitments
INVARIANT TerminalIsSettled
INVARIANT LeasesAreHonest
PROPERTY TerminalIsFinal
PROPERTY ImplementsLeaseLife
