------------------------------- MODULE MC_Store -------------------------------
(* Small instances of SecretStore for TLC. *)
EXTENDS SecretStore

Texts(pw, priv, cert) == [s \in Slot |-> IF s = "pw" THEN pw
                                         ELSE IF s = "priv" THEN priv ELSE cert]
Bodiless(k) == [kind |-> k, texts |-> NoTexts]
Password(v) == [kind |-> "none", texts |-> Texts(v, Nil, Nil)]
Inline(v, c) == [kind |-> "inline", texts |-> Texts(Nil, v, c)]

\* one of each kind of login, the inline key with its certificate
Logins == {Bodiless("path"), Password("a"), Inline("a", "a")}
\* passwords and keys of two texts, one key with a certificate, one without
Mixed == {Bodiless("path"), Password("a"), Password("b"),
          Inline("a", "a"), Inline("b", Nil)}
\* only one login
Keyed == {Inline("a", Nil)}

\* One process at a time, a command or a TUI: the next starts when the one
\* before it is over.
OneAtATime == \A p, q \in Procs : pc[p] # "idle" /\ pc[q] # "idle" => p = q
InTurn == Init /\ [][Next /\ OneAtATime']_vars
===============================================================================
