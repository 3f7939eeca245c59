SPECIFICATION Spec
CONSTANTS
    Jobs = {j1}
    Works = {w1}
    Refreshes = {f1, f2}
    Readers = {r1}
    Capacity = 1
INVARIANTS UpdatesAreKept
CHECK_DEADLOCK FALSE
