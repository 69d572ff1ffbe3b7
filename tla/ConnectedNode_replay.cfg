CONSTANTS
    w1 = w1
    w2 = w2
    r1 = r1
    r2 = r2
    s1 = s1
    s2 = s2
    ok = ok
    bad = bad
    None = None
    Workers = {w1, w2}
    Requests = {r1, r2}
    SubmissionIds = {s1, s2}
    Results = {ok, bad}
SPECIFICATION Spec
SYMMETRY Symmetry
INVARIANT OneExecutorPerLease
