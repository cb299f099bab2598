SPECIFICATION Spec
CONSTANTS
    Proc = {p1, p2}
    Req = {r1}
    PlanId = {i1}
    Msg = {m1}
    Value = {v1}
    NumSources = 1
    MaxVersion = 2
    MaxRows = 1
INVARIANTS CacheFresh ServedFresh
CHECK_DEADLOCK FALSE
