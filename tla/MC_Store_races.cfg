\* A TUI with its long-lived copy beside commands, through every mode and rekeys.
SPECIFICATION Spec

CONSTANTS
    cli = cli
    tui = tui
    Procs = {cli, tui}
    Tui = {tui}
    Creds = {"c1"}
    Hosts = {"h1"}
    Vals = {"a"}
    Nil = Nil
    Typed <- Keyed
    Modes = {"plaintext", "vault", "keyring"}
    InitModes = {"vault"}
    Faults = {"save"}
    MaxKeys = 2
    MaxEdits = 1

INVARIANTS CiphertextOpens SealedAtRest CopiesSound
