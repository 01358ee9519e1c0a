SPECIFICATION Spec
INVARIANT ShellStaysConnected
CONSTANTS
    Apps = {"a", "b"}
    Standard = {"a"}
    TokenSpace = 6
    MaxEvents = 4
CHECK_DEADLOCK FALSE
