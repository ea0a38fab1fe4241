CONSTANTS
    i1 = i1
    t1 = t1
    t2 = t2
    Instances = {i1}
    Threads = {t1, t2}
    InstanceOf <- MCInstanceOf
    MaxRecords = 4
    MaxEvents = 5
    MaxStarts = 3
    Faults = TRUE
    NONE = NONE
CHECK_DEADLOCK FALSE
SYMMETRY Symmetry
SPECIFICATION Spec
INVARIANTS ChainedUnlessFaulted VerifiedIsComplete TamperEvident LogInv
