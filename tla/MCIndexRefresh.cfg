\* One call at a time: staging, decisions, refreshes that fail or die, rebuilds.
SPECIFICATION Spec
CONSTANTS
    a = a
    x = x
    b = b
    Lib = Lib
    App = App
    s1 = s1
    s2 = s2
    c1 = c1
    c2 = c2
    Files <- MCFiles
    Sessions <- MCSessions
    Owner <- MCOwner
    Planned <- MCPlannedAcross
    Declared <- MCDeclared
    Loads <- MCLoads
    CliVerbose = {FALSE}
    CliDecides = {Cli}
    Callers = {c1}
    Projects <- MCProjects
    NoProject = NoProject
    ScopedFiles <- MCFiles
    Uses <- MCUses
    MaxVersion = 1
    Cli = Cli
    NoRows = NoRows
    Dropped = Dropped
INVARIANTS
    TypeOK
    WholeWhenFresh
PROPERTIES
    StaleUntilIndexed
