\* Two calls at a time, on a session with one change of plan.
SPECIFICATION Spec
CONSTANTS
    Plans = {p1, p2}
    Texts = {t1, t2}
    Callers = {c1, c2}
    MaxCalls = 4
    NoText = NoText
    Nobody = Nobody
INVARIANTS
    AloneSessionKeepsAll
    CheckIsAboutLastFetch
    DecisionsHavePlan
