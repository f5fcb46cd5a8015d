\* A decision dies, or waits out the lock, between its two writes.
SPECIFICATION Spec
CONSTANTS
    Callers = {c1}
    MaxRecords = 1
    Nobody = Nobody
INVARIANTS
    AcceptedRequiresRefresh
