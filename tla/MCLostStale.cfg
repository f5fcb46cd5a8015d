\* An accept, then a reject of the next candidate.
SPECIFICATION Spec
CONSTANTS
    Files = {f1}
    MaxRecords = 2
    Contents <- MCContentsEol
    DecisionTexts <- MCPlainDecisions
    EmptyText = ""
    Absent = Absent
    NewFileHash = NewFileHash
PROPERTIES
    DecisionKeepsStale
