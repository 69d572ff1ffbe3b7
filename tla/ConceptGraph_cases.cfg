CONSTANTS
    root = root
    genus = genus
    subject = subject
    x = x
    y = y
    p = p
    x2 = x2
    x3 = x3
    z = z
    team = team
    Refs <- MCRefs
    Kind <- MCKind
    Name <- MCName
    Supersedes <- MCSupersedes
    Root = root
    Edges <- MCEdges
    Genesis <- MCGenesis
    Patches <- MCPatches
    Routes <- MCRoutes
    MaxCases = 2
    MaxChanges = 3
SPECIFICATION Spec
INVARIANT Rooted
INVARIANT ConceptsKept
INVARIANT AppliedOnce
INVARIANT PlansCanRun
PROPERTY UnreviewedStays
CHECK_DEADLOCK FALSE
