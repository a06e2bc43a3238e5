\* A command given --credential in plaintext mode.
SPECIFICATION Spec

CONSTANTS
    cli = cli
    tui = tui
    h = h
    g = g
    k = k
    o = o
    Procs = {cli}
    Tui = {}
    Host = {h, g}
    Cred = {k, o}
    Address = Address
    Own = Own
    None = None
    Refused = Refused
    Configs <- Plain
    Attempts <- AskedOver
    Edited = {}
    MaxEdits = 0
    MaxAsks = 1
    Mortal = {}

INVARIANT OverrideHonoured

CHECK_DEADLOCK FALSE
