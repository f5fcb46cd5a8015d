\* A rename over two files, staged up to three times; staging, plan
\* changes and the operator go on during the builds of one caller.
SPECIFICATION Spec
CONSTANTS
    declaration = declaration
    caller = caller
    oldName = oldName
    newName = newName
    c1 = c1
    Files <- MCFiles
    Texts <- MCTexts
    GoodTrees <- MCGoodTrees
    Callers <- MCCallers
    MaxRecords = 3
SYMMETRY MCSymmetry
INVARIANTS
    TypeOK
PROPERTIES
    BatchStaysOpen
    LastAcceptWasBuilt
