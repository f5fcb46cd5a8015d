\* Two calls of any kind overlap on one file, or come one at a time; either may die
\* anywhere.
SPECIFICATION Spec
CONSTANTS
    Callers = {c1, c2}
    MaxRecords = 2
    Nobody = Nobody
INVARIANTS
    TypeOK
    AcceptedHasEvidence
    ManifestNamesStoredRecord
PROPERTIES
    StageKeepsGate
    AloneOldRecordIsShut
    AloneDecisionsStick
