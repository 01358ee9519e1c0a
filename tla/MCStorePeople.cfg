SPECIFICATION MCSpec
CONSTANTS
    a1 = a1  a2 = a2  i1 = i1  i2 = i2  i3 = i3
    x1 = x1  x2 = x2  x3 = x3  x4 = x4  y1 = y1  y2 = y2  y3 = y3  z1 = z1  z2 = z2
    None = None
    MaxExchanging = 2
    MaxLinks = 2
    MaxTeam = 2
    MaxAttempts = 2
    MaxUntriaged = 1
SYMMETRY Symmetry
INVARIANTS PortalSound  WorkforceSound ModerationSound
\* The names of sessions, transactions and keys are used up in the end.
CHECK_DEADLOCK FALSE
