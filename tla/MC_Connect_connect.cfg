\* A command and a TUI connect, over one config, one directory of secret files
\* and one usage table.  They live once.
SPECIFICATION FairSpec

CONSTANTS
    cli = cli
    tui = tui
    h = h
    g = g
    k = k
    o = o
    Procs <- Both
    Tui = {tui}
    Host = {h, g}
    Cred = {k, o}
    Address = Address
    Own = Own
    None = None
    Refused = Refused
    Configs <- Stored
    Attempts <- Asked
    Edited <- Changed
    MaxEdits = 1
    MaxAsks = 1
    Mortal = {tui}

INVARIANTS TypeOK NothingLeft KeyThere UsageOnDisk
PROPERTIES AnswersResolved Reclaimed

CHECK_DEADLOCK FALSE
