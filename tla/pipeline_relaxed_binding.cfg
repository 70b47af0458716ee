SPECIFICATION Spec
CONSTANTS
    q1 = q1
    q2 = q2
    MaxCreds = 2
    Queries = {q1, q2}
SYMMETRY QuerySymmetry
CHECK_DEADLOCK FALSE
INVARIANT
    RelaxedBindingAccepted
