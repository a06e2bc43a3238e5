\* The keyring is left for the vault, and an encryption fails.
SPECIFICATION Spec

CONSTANTS
    p = p
    Procs = {p}
    Tui = {}
    Creds = {"c1"}
    Hosts = {"h1"}
    Vals = {"a"}
    Nil = Nil
    Typed <- Logins
    Modes = {"vault"}
    InitModes = {"keyring"}
    Faults = {"seal"}
    MaxKeys = 1
    MaxEdits = 0

INVARIANT MarkersBacked
