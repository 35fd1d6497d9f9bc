\* Two presses of the approve button for one action.
SPECIFICATION Spec
CONSTANTS
    Actions = {a1}
    Sessions = {s1}
    Threads = {t1, t2}
    MaxApprovals = 2
    TORN = TORN
SYMMETRY FileSymmetry
INVARIANT SingleUse
