\* Two calls overlap; plans, loads and the CLI are as the code lets them be.
SPECIFICATION Spec
CONSTANTS
    a = a
    x = x
    b = b
    Lib = Lib
    App = App
    s1 = s1
    s2 = s2
    c1 = c1
    c2 = c2
    Files <- MCTwoFiles
    Sessions = {s1}
    Owner <- MCOwner
    Planned <- MCPlannedAcross
    Declared <- MCDeclaredInPart
    Loads <- MCLoadsInPart
    CliVerbose = {FALSE, TRUE}
    CliDecides = {s1}
    Callers <- MCCallers
    Projects <- MCProjects
    NoProject = NoProject
    ScopedFiles <- MCTwoFiles
    Uses <- MCUses
    MaxVersion = 1
    Cli = Cli
    NoRows = NoRows
    Dropped = Dropped
SYMMETRY MCSymmetry
INVARIANTS
    IndexIsWhole
    StaleIsAwaited
PROPERTIES
    StaleUntilIndexed
    InboundLinksKept
    RowsSurvive
