\* A TUI with its long-lived copy beside commands: adding, editing, removing.
SPECIFICATION Spec

CONSTANTS
    cli = cli
    tui = tui
    n1 = n1
    n2 = n2
    Procs <- Both
    Tui = {tui}
    Name <- Names
    None = None
    MaxId = 3
    MaxChanges = 5

SYMMETRY AnyName
INVARIANTS TypeOK HostNamesDistinct RefFindsItself DanglingAnnounced
PROPERTY LoginKept
