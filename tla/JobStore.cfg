SPECIFICATION Spec
CONSTANTS
    Jobs = {j1, j2}
    Works = {w1, w2}
    Refreshes = {f1}
    Readers = {r1}
    Capacity = 1
INVARIANTS AdmissionSeesEveryActiveJob WorkIsKept AnswersAreCurrent
CHECK_DEADLOCK FALSE
