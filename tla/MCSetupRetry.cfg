SPECIFICATION Spec
CONSTANTS
    o1 = o1  r1 = r1  p1 = p1
    Owners = {o1}
    Regions = {r1}
    Passwords = {p1}
    None = None
INVARIANT CommitRetryable
