\* A command or a TUI, one at a time, every form and mode, killed or unable to save.
SPECIFICATION InTurn

CONSTANTS
    cli = cli
    tui = tui
    Procs = {cli, tui}
    Tui = {tui}
    Creds = {"c1"}
    Hosts = {"h1"}
    Vals = {"a", "b"}
    Nil = Nil
    Typed <- Mixed
    Modes = {"plaintext", "vault", "keyring"}
    InitModes = {"undecided", "vault", "keyring"}
    Faults = {"save", "crash"}
    MaxKeys = 1
    MaxEdits = 2

PROPERTY EditDelivers
