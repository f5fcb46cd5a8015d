\* Two records of one file: staged, superseded, decided, refreshed, staged again.
SPECIFICATION Spec
CONSTANTS
    Files = {f1}
    MaxRecords = 2
    Contents <- MCContents
    DecisionTexts <- MCDecisionTexts
    EmptyText = ""
    Absent = Absent
    NewFileHash = NewFileHash
VIEW MCView
INVARIANTS
    TypeOK
    ActiveIsNewest
    AcceptedWasReviewed
    AcceptShutsGate
PROPERTIES
    AcceptedWasSaved
    GateOpensOnCapture
    KeepsReviewGate
