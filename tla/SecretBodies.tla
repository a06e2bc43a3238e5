----------------------------- MODULE SecretBodies -----------------------------
(***************************************************************************)
(* The secrets of one owner (a credential, or a host with its own login)   *)
(* and the pure transforms over them: sealing freshly typed text under the *)
(* storage mode, moving stored secrets to another mode, decrypting them.   *)
(*                                                                         *)
(* An owner has three slots: a password, an inline private key and its     *)
(* certificate.  A slot's text is in the body (plain, or encrypted under a *)
(* vault key) or, when the body carries the marker, in the owner's row of  *)
(* the OS keyring.  Texts are opaque; a vault key is the number of the     *)
(* `enable` that derived it, 0 being no key.                               *)
(***************************************************************************)
EXTENDS Naturals

CONSTANTS Vals,     \* the texts a slot can hold
          Nil       \* no text

Slot == {"pw", "priv", "cert"}
KeySlot == {"priv", "cert"}
Mode == {"undecided", "plaintext", "vault", "keyring"}
Kind == {"absent", "none", "path", "inline"}     \* the owner's key source

NoSecret == [form |-> "none", val |-> Nil, under |-> 0]
Plain(v) == [form |-> "plain", val |-> v, under |-> 0]
Enc(v, k) == [form |-> "enc", val |-> v, under |-> k]

Secret == [form : {"none", "plain", "enc"}, val : Vals \cup {Nil}, under : Nat]
Row == [Slot -> Vals \cup {Nil}]
Body == [kind : Kind, sec : [Slot -> Secret],
         marked : BOOLEAN, keyMarked : BOOLEAN]

NoTexts == [s \in Slot |-> Nil]
Bare(kind) == [kind |-> kind, sec |-> [s \in Slot |-> NoSecret],
               marked |-> FALSE, keyMarked |-> FALSE]
Absent == Bare("absent")

\* A body as a form or a flag builds it: every text still in the clear.
TypedBody(kind, texts) ==
    [Bare(kind) EXCEPT !.sec = [s \in Slot |-> IF texts[s] = Nil THEN NoSecret
                                               ELSE Plain(texts[s])]]

Form(b, s) == b.sec[s].form
\* Mutant of HasPlain: only passwords count as secrets to seal.
PlainPassword(b) == Form(b, "pw") = "plain"

HasPlain(b) == \E s \in Slot : Form(b, s) = "plain"

\* The slots whose text the body says is in the keyring.
InRing(b, s) == IF s = "pw" THEN b.marked ELSE b.kind = "inline" /\ b.keyMarked

\* One kind of secret at most; a marked inline key holds no text, an unmarked
\* one does.
Valid(b) ==
    /\ b.marked => Form(b, "pw") = "none"
    /\ b.marked \/ Form(b, "pw") # "none" => b.kind \notin {"path", "inline"}
    /\ b.kind = "inline" =>
          IF b.keyMarked THEN \A s \in KeySlot : Form(b, s) = "none"
                         ELSE Form(b, "priv") # "none"

\* What a connection gets out of a body: the text of every slot it can read.
Reads(b, row, vaultKey) ==
    [s \in Slot |->
        IF InRing(b, s) THEN row[s]
        ELSE IF Form(b, s) = "enc" /\ b.sec[s].under # vaultKey THEN Nil
        ELSE b.sec[s].val]

\* How a text is held in the body under a mode.
Finalize(v, mode, key) ==
    IF v = Nil \/ mode = "keyring" THEN NoSecret
    ELSE IF mode = "vault" THEN Enc(v, key) ELSE Plain(v)

(* seal_body: only plaintext is re-hosted; an already sealed body passes. *)
SealedBody(b, mode, key) ==
    [b EXCEPT !.sec = [s \in Slot |-> IF Form(b, s) = "plain"
                                      THEN Finalize(b.sec[s].val, mode, key)
                                      ELSE b.sec[s]],
              !.marked = /\ mode = "keyring"
                         /\ b.kind \notin {"path", "inline"}
                         /\ Form(b, "pw") = "plain" \/ (b.marked /\ Form(b, "pw") = "none"),
              !.keyMarked = b.kind = "inline" /\ (b.keyMarked \/ mode = "keyring")]

SealedRow(b, row, mode) ==
    [s \in Slot |-> IF mode = "keyring" /\ Form(b, s) = "plain"
                    THEN b.sec[s].val ELSE row[s]]

(* migrate_body: the slots it re-hosts, and the text it finds in them.  An    *)
(* inline key slot without in-body text is looked up in the keyring, whether  *)
(* or not the body carries the marker.                                        *)
Carries(b, s) == IF s = "pw" THEN b.marked \/ Form(b, "pw") # "none"
                 ELSE b.kind = "inline"

Text(b, row, s) ==
    IF (IF s = "pw" THEN b.marked ELSE Form(b, s) = "none") THEN row[s]
    ELSE b.sec[s].val

MovedBody(b, row, mode, key) ==
    [b EXCEPT !.sec = [s \in Slot |-> IF Carries(b, s)
                                      THEN Finalize(Text(b, row, s), mode, key)
                                      ELSE b.sec[s]],
              !.marked = Carries(b, "pw") /\ mode = "keyring",
              !.keyMarked = b.kind = "inline" /\ mode = "keyring"]

\* Mutant of MovedRow: an inline key is marked but never written.
MovedPassword(b, row, mode) ==
    IF mode = "keyring" /\ Carries(b, "pw") THEN [row EXCEPT !["pw"] = Text(b, row, "pw")]
    ELSE row

MovedRow(b, row, mode) ==
    [s \in Slot |-> IF ~Carries(b, s) THEN row[s]
                    ELSE IF mode = "keyring" THEN Text(b, row, s)
                    ELSE IF s = "pw" /\ ~b.marked THEN row[s] ELSE Nil]

\* The texts that `key` does not open, and a marker without its entry, stop it.
Locked(b, s, key) == Form(b, s) = "enc" /\ b.sec[s].under # key
Stuck(b, row, key) == \/ b.marked /\ row["pw"] = Nil
                      \/ \E s \in Slot : Carries(b, s) /\ Locked(b, s, key)

(* decrypt_body: ciphertext back to plaintext, everything else as it is. *)
DecryptedBody(b) ==
    [b EXCEPT !.sec = [s \in Slot |-> IF Form(b, s) = "enc"
                                      THEN Plain(b.sec[s].val) ELSE b.sec[s]]]

(* rm and cp: the keyring entries the body's markers name. *)
ForgottenRow(b, row) == [s \in Slot |-> IF InRing(b, s) THEN Nil ELSE row[s]]
CopiedRow(b, from, row) == [s \in Slot |-> IF InRing(b, s) /\ from[s] # Nil
                                           THEN from[s] ELSE row[s]]
===============================================================================
