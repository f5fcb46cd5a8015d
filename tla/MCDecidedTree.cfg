\* The candidate rejected last is part of the terminal build, not of watched source.
SPECIFICATION Spec
CONSTANTS
    declaration = declaration
    caller = caller
    oldName = oldName
    newName = newName
    c1 = c1
    Files <- MCFiles
    Texts <- MCTexts
    GoodTrees <- MCGoodTrees
    Callers <- MCCallers
    MaxRecords = 2
SYMMETRY MCSymmetry
PROPERTIES
    DecidedTreeBuilds
