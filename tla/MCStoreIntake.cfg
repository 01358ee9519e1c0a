CONSTANTS
    Submissions = {s1, s2}
    LastSubmission = s2
    Reviewers = {r1, r2}
    Workers = {w1, w2}
    MaxAttempts = 2
    MaxStops = 1
    Clients = {c1}
    Members = {m1, m2}
    FirstMember = m1
    d1 = d1
    d2 = d2
    Digests = {d1, d2}
    Collectors = {g1, g2}
    FirstCollector = g1
    MaxSends = 2
    MaxLate = 1
SPECIFICATION MCSpec
INVARIANTS  ReviewSound
PROPERTIES TriggersAgree  ScanSettles
\* A run of cp0ctl ends, and nothing is left to do.
CHECK_DEADLOCK FALSE
