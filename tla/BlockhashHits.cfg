SPECIFICATION Spec
CONSTANTS
    Callers = {c1, c2}
    FreshFor = 2
    Default = Default
    MaxTime = 4
SYMMETRY CallerSymmetry
CHECK_DEADLOCK FALSE
INVARIANTS
    HitsAreFresh
