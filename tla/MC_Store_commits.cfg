\* One command at a time, everything may fail, the keyring is never left.
SPECIFICATION Spec

CONSTANTS
    p = p
    Procs = {p}
    Tui = {}
    Creds = {"c1"}
    Hosts = {"h1", "h2"}
    Vals = {"a", "b"}
    Nil = Nil
    Typed <- Mixed
    Modes = {"keyring"}
    InitModes = {"undecided", "plaintext", "vault"}
    Faults = {"keyring", "seal", "save", "crash"}
    MaxKeys = 1
    MaxEdits = 1

INVARIANT TypeOK
PROPERTIES Implements SwitchKeeps
