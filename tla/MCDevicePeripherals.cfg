SPECIFICATION PeripheralsSpec
CONSTANTS
    None = None  Torn = Torn
    f1 = f1  f2 = f2  f3 = f3
    lib = lib  own = own  k1 = k1  k2 = k2
    t1 = t1  t2 = t2
INVARIANTS
    BootSound  StorageSound  HardwareSound RecoverySound 
    BrokersSound  DispatchSound 
\* Where the bounds on requests, faults and changes are used up nothing is left to do.
CHECK_DEADLOCK FALSE
