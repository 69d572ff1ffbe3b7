CONSTANTS
    i1 = i1
    i2 = i2
    n1 = n1
    n2 = n2
    n3 = n3
    r1 = r1
    r2 = r2
    b1 = b1
    b2 = b2
    NoRow = NoRow
    Invites = {i1, i2}
    Nodes = {n1, n2, n3}
    Registrations = {r1, r2}
    Bodies = {b1, b2}
    Lifetimes = {1, 2}
    MaxTime = 3
SPECIFICATION AdmissionSpec
SYMMETRY Symmetry
INVARIANT OneIdentityPerInvite
INVARIANT TablesAgree
INVARIANT RecoverableUntilExpiry
CHECK_DEADLOCK FALSE
