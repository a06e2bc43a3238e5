------------------------------ MODULE MC_Connect -------------------------------
(* Small instances of ConnectFlow for TLC. *)
EXTENDS ConnectFlow

CONSTANTS cli, tui, h, g, k, o

Both == {cli, tui}

Saved(mode, login, secrets, keys, certs) ==
    [mode |-> mode, hosts |-> {h, g}, login |-> [x \in {h, g} |-> IF x = h THEN login ELSE Own],
     secrets |-> secrets, keys |-> keys, certs |-> certs]

\* A host whose login is a credential with a password, its own with a password,
\* or its own with key and certificate; another credential has a key once.
Stored ==
    {Saved("plaintext", k, {k, o}, {}, {}), Saved("vault", Own, {h}, {k}, {}),
     Saved("keyring", Own, {k}, {h}, {h})}

\* Another process makes the keyring the store of a config, and the login a
\* reference without password.
Changed == {Saved("keyring", k, {}, {}, {})}

To(host, over, scp) == [host |-> host, over |-> over, scp |-> scp]

\* A TUI connects to that host; a command connects to one without secrets, or
\* copies to an address under --credential.
Asked ==
    [p \in Both |-> IF p = tui THEN {To(h, None, FALSE)}
                    ELSE {To(g, None, FALSE), To(Address, k, TRUE)}]

\* A host with a password of its own, connected to under another credential.
Plain == {Saved("plaintext", Own, {h, o}, {}, {})}
AskedOver == [p \in {cli} |-> {To(h, o, FALSE), To(Address, o, FALSE)}]
===============================================================================
