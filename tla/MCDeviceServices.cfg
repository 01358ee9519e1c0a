SPECIFICATION MCSpec
CONSTANTS
    x1 = x1  x2 = x2  x3 = x3  y1 = y1  y2 = y2  z1 = z1  z2 = z2
    m1 = m1  m2 = m2  play = play  skip = skip  p1 = p1  d1 = d1
    Apps = {y1, y2}
    Versions = {x1, x2, x3}
    Contents = {z1, z2}
    OtherVersion = x3
    OtherContent = z2
    FirstAccount = 1
    LastAccount = 1
    MaxRollback = 2
    NoVersion = NoVersion
    MediaApps = {m1, m2}
    Actions = {play, skip}
    MaxActions = 2
    None = None
    MaxLaunches = 3
    IntentApps = {x1, x2, x3}
    MaxIntents = 3
    MaxMessages = 4
    PromptApps = {y1, y2}
    Permissions = {p1}
    Documents = {d1}
    Owners = {y1, y2}
    Regions = {z1, z2}
    Passwords = {m1, m2}
    Hosts = {x1, x2, x3}
    DeveloperKeys = {y1, y2}
    MaxPaired = 2
    WindowTicks = 1
    Unpaired = Unpaired
SYMMETRY Symmetry
INVARIANTS
    PackagesSound TakenByItsRuntime IntentsDelivered DecisionsSound SetupSound PairingSound
PROPERTIES DocumentGoesToItsApp
\* Once its launches are used up the media session has nothing left to do.
CHECK_DEADLOCK FALSE
