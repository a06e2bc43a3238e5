----------------------------- MODULE SecretStore ------------------------------
(***************************************************************************)
(* Stored secrets at rest: config.toml, the OS keyring, the master-key     *)
(* cache, and the sshrack processes that change them.                      *)
(*                                                                         *)
(* Every process works on its own copy of the config: a CLI command loads  *)
(* it, does one thing, saves and exits; the TUI keeps its copy, reloading  *)
(* it after each save.  A mode switch rewrites that copy body by body,     *)
(* writing and deleting keyring entries on the way, and saves at the end.  *)
(* Nothing locks the file.                                                 *)
(***************************************************************************)
EXTENDS SecretBodies, FiniteSets

CONSTANTS Creds, Hosts,   \* the owners (ids) there may be
          Procs, Tui,     \* the processes, and those that are TUIs
          Typed,          \* what a user may enter: [kind, texts] records
          Modes,          \* the modes a user may switch to
          InitModes,      \* the modes the store may be in at first
          Faults,         \* what may fail: "keyring", "seal", "save", "crash"
          MaxKeys,        \* bound: vault keys derived
          MaxEdits        \* bound: edits staged

Owners == Creds \cup Hosts

ASSUME StoreAssumption ==
    /\ Nil \notin Vals
    /\ Creds \cap Hosts = {}
    /\ Tui \subseteq Procs
    /\ Typed \subseteq [kind : {"none", "path", "inline"}, texts : Row]
    /\ \A t \in Typed : /\ Valid(TypedBody(t.kind, t.texts))
                        /\ t.kind # "inline" => \A s \in KeySlot : t.texts[s] = Nil
    /\ Modes \subseteq {"plaintext", "vault", "keyring"}
    /\ InitModes \subseteq Mode
    /\ MaxKeys \in Nat
    /\ MaxEdits \in Nat

VARIABLES disk,    \* config.toml
          ring,    \* the OS keyring: a row of entries per owner
          cache,   \* the key in the master-key cache file, 0 for none
          keys,    \* the last vault key derived
          minted,  \* the owner ids ever given out
          mem,     \* per process: its copy of the config
          pc,      \* per process: idle | ready | migrating | saving | failing
          job,     \* per process: the operation under way
          edits    \* edits staged so far

vars == <<disk, ring, cache, keys, minted, mem, pc, job, edits>>

Config == [mode : Mode, vaultKey : Nat, body : [Owners -> Body]]
Asks == UNION {[S -> Row] : S \in SUBSET Owners}

NoConfig == [mode |-> "undecided", vaultKey |-> 0, body |-> [o \in Owners |-> Absent]]
NoAsks == [o \in {} |-> NoTexts]
NoJob == [op |-> "none", target |-> "undecided", src |-> 0, new |-> 0, todo |-> {},
          next |-> NoConfig, asks |-> NoAsks]

Job == [op : {"none", "switch", "edit"}, target : Mode, src : Nat, new : Nat,
        todo : SUBSET Owners, next : Config, asks : Asks]

Present(c) == {o \in Owners : c.body[o].kind # "absent"}
Held(c, o) == Reads(c.body[o], ring[o], c.vaultKey)

\* The valid bodies a user of the mode may start with, markers backed.
Init ==
    \E m \in InitModes, typed \in [Owners -> Typed \cup {[kind |-> "absent", texts |-> NoTexts]}] :
        LET bodies == [o \in Owners |-> TypedBody(typed[o].kind, typed[o].texts)]
            key == IF m = "vault" THEN 1 ELSE 0
        IN  /\ disk = [mode |-> m, vaultKey |-> key,
                       body |-> [o \in Owners |-> SealedBody(bodies[o], m, key)]]
            /\ ring = [o \in Owners |-> SealedRow(bodies[o], NoTexts, m)]
            /\ keys = key
            /\ minted = Present(disk)
            /\ cache = 0
            /\ mem = [p \in Procs |-> NoConfig]
            /\ pc = [p \in Procs |-> "idle"]
            /\ job = [p \in Procs |-> NoJob]
            /\ edits = 0

-------------------------------------------------------------------------------
(* Starting, leaving, and the master key.                                     *)

Start(p) ==
    /\ pc[p] = "idle"
    /\ pc' = [pc EXCEPT ![p] = "ready"]
    /\ mem' = [mem EXCEPT ![p] = disk]
    /\ UNCHANGED <<disk, ring, cache, keys, minted, job, edits>>

\* Mutant of Done: the next command starts with the last one's job.
DoneKeepsJob(p, m) ==
    /\ pc' = [pc EXCEPT ![p] = IF p \in Tui THEN "ready" ELSE "idle"]
    /\ mem' = [mem EXCEPT ![p] = IF p \in Tui THEN m ELSE NoConfig]
    /\ UNCHANGED job

\* The command is over; a TUI goes on with m in memory.
Done(p, m) ==
    /\ pc' = [pc EXCEPT ![p] = IF p \in Tui THEN "ready" ELSE "idle"]
    /\ mem' = [mem EXCEPT ![p] = IF p \in Tui THEN m ELSE NoConfig]
    /\ job' = [job EXCEPT ![p] = NoJob]

\* The process is gone: it had nothing to do, or it was killed half way.
Exit(p) ==
    /\ \/ pc[p] = "ready"
       \/ "crash" \in Faults /\ pc[p] \in {"migrating", "saving", "failing"}
    /\ pc' = [pc EXCEPT ![p] = "idle"]
    /\ mem' = [mem EXCEPT ![p] = NoConfig]
    /\ job' = [job EXCEPT ![p] = NoJob]
    /\ UNCHANGED <<disk, ring, cache, keys, minted, edits>>

\* Mutant of CachedKeyIsValid: whatever is cached is used.
TrustsCache(c, k) == k # 0

\* A cached key is used only if it opens the config's verifier.
CachedKeyIsValid(c, k) == k # 0 /\ k = c.vaultKey

(* unlock: the key it comes up with, and the cache afterwards; the cache write *)
(* is best-effort.  A wrong or refused passphrase is a command that gives up.  *)
Unlock(c, cached) ==
    IF CachedKeyIsValid(c, cached) THEN {[key |-> cached, cache |-> cached]}
    ELSE {[key |-> c.vaultKey, cache |-> k] : k \in {c.vaultKey, cached}}

\* store unlock, and every connection or reveal in vault mode.
UnlockVault(p) ==
    /\ pc[p] = "ready"
    /\ mem[p].mode = "vault"
    /\ \E u \in Unlock(mem[p], cache) : cache' = u.cache
    /\ Done(p, mem[p])
    /\ UNCHANGED <<disk, ring, keys, minted, edits>>

\* store lock, a switch or rekey refused after it dropped the cache, the TTL.
DropCache ==
    /\ cache # 0
    /\ cache' = 0
    /\ UNCHANGED <<disk, ring, keys, minted, mem, pc, job, edits>>

-------------------------------------------------------------------------------
(* Switching the mode, and rekeying.                                          *)

\* Mutant of Begin: the hosts' own logins are not migrated.
BeginCredentials(p, m, t, src, new) ==
    /\ mem' = [mem EXCEPT ![p] = m]
    /\ pc' = [pc EXCEPT ![p] = "migrating"]
    /\ job' = [job EXCEPT ![p] = [NoJob EXCEPT !.op = "switch", !.target = t,
                        !.src = src, !.new = new, !.todo = Present(m) \cap Creds]]

Begin(p, m, t, src, new) ==
    /\ mem' = [mem EXCEPT ![p] = m]
    /\ pc' = [pc EXCEPT ![p] = "migrating"]
    /\ job' = [job EXCEPT ![p] = [NoJob EXCEPT !.op = "switch", !.target = t,
                                  !.src = src, !.new = new, !.todo = Present(m)]]

\* store use <mode>.  Leaving the vault needs its key: the CLI drops the cache
\* before it unlocks, which writes it again; the TUI drops it afterwards.
Switch(p, t) ==
    /\ pc[p] = "ready"
    /\ mem[p].mode # t
    /\ IF t = "vault"
       THEN /\ keys < MaxKeys
            /\ keys' = keys + 1
            /\ cache' = 0
            /\ Begin(p, mem[p], t, 0, keys + 1)
       ELSE /\ keys' = keys
            /\ IF mem[p].mode = "vault"
               THEN \E u \in Unlock(mem[p], IF p \in Tui THEN cache ELSE 0) :
                        /\ cache' = IF p \in Tui THEN 0 ELSE u.cache
                        /\ Begin(p, mem[p], t, u.key, 0)
               ELSE cache' = 0 /\ Begin(p, mem[p], t, 0, 0)
    /\ UNCHANGED <<disk, ring, minted, edits>>

\* store rekey: decrypt everything under the old key, then enable afresh.
Rekey(p) ==
    /\ pc[p] = "ready" /\ p \notin Tui
    /\ mem[p].mode = "vault"
    /\ keys < MaxKeys
    /\ keys' = keys + 1
    /\ \E u \in Unlock(mem[p], 0) :
          /\ \A o \in Owners, s \in Slot : ~Locked(mem[p].body[o], s, u.key)
          /\ cache' = u.cache
          /\ Begin(p, [mode |-> "undecided", vaultKey |-> 0,
                       body |-> [o \in Owners |-> DecryptedBody(mem[p].body[o])]],
                   "vault", 0, keys + 1)
    /\ UNCHANGED <<disk, ring, minted, edits>>

\* Credentials migrate before hosts.
IsNext(p, o) == o \in job[p].todo /\ (o \in Hosts => job[p].todo \cap Creds = {})

\* A best-effort delete may leave the entry behind.
Kept(old, new) ==
    {[s \in Slot |-> IF s \in K THEN old[s] ELSE new[s]] :
        K \in IF "keyring" \in Faults THEN SUBSET {s \in Slot : new[s] = Nil} ELSE {{}}}

Migrate(p, o) ==
    LET b == mem[p].body[o]
        j == job[p]
    IN  /\ pc[p] = "migrating"
        /\ IsNext(p, o)
        /\ ~Stuck(b, ring[o], j.src)
        /\ mem' = [mem EXCEPT ![p].body[o] = MovedBody(b, ring[o], j.target, j.new)]
        /\ \E row \in Kept(ring[o], MovedRow(b, ring[o], j.target)) :
              ring' = [ring EXCEPT ![o] = row]
        /\ job' = [job EXCEPT ![p].todo = @ \ {o}]
        /\ UNCHANGED <<disk, cache, keys, minted, pc, edits>>

\* What a body and its row are left as when its migration fails: at reading a
\* text (ciphertext, missing entry, keyring) or at writing it (keyring, encrypt).
\* An inline key's texts are taken out of the body before they are moved.
Failures(b, row, j) ==
    LET Taken(S) == [b EXCEPT !.sec = [s \in Slot |-> IF s \in S THEN NoSecret ELSE b.sec[s]]]
        FromRing(s) == IF s = "pw" THEN b.marked ELSE Form(b, s) = "none"
        NoRead(s) == /\ Carries(b, s)
                     /\ \/ FromRing(s) /\ "keyring" \in Faults
                        \/ s = "pw" /\ b.marked /\ row["pw"] = Nil
                        \/ Locked(b, s, j.src)
        NoWrite(s) == /\ Carries(b, s) /\ Text(b, row, s) # Nil
                      /\ \/ j.target = "keyring" /\ "keyring" \in Faults
                         \/ j.target = "vault" /\ "seal" \in Faults
        Left(why, body, r) == IF why THEN {[body |-> body, row |-> r]} ELSE {}
        Half == Finalize(Text(b, row, "priv"), j.target, j.new)
    IN  Left(NoRead("pw") \/ NoWrite("pw"), b, row)
        \cup Left(NoRead("priv"), Taken({"priv"}), row)
        \cup Left(NoRead("cert") \/ NoWrite("priv"), Taken(KeySlot), row)
        \cup Left(NoWrite("cert"),
                  [Taken(KeySlot) EXCEPT !.sec["priv"] = Half],
                  IF j.target = "keyring"
                  THEN [row EXCEPT !["priv"] = Text(b, row, "priv")] ELSE row)

\* The switch stops; what was migrated stays so in a TUI's copy.
MigrateFails(p, o) ==
    /\ pc[p] = "migrating"
    /\ IsNext(p, o)
    /\ \E f \in Failures(mem[p].body[o], ring[o], job[p]) :
          /\ ring' = [ring EXCEPT ![o] = f.row]
          /\ Done(p, [mem[p] EXCEPT !.body[o] = f.body])
    /\ UNCHANGED <<disk, cache, keys, minted, edits>>

\* Every body moved: cfg.store flips, and the config is ready to be saved.
Flip(p) ==
    /\ pc[p] = "migrating"
    /\ job[p].todo = {}
    /\ mem' = [mem EXCEPT ![p].mode = job[p].target, ![p].vaultKey = job[p].new]
    /\ pc' = [pc EXCEPT ![p] = "saving"]
    /\ UNCHANGED <<disk, ring, cache, keys, minted, job, edits>>

\* A switch saves the copy it rewrote, an edit a new config.
ToSave(p) == IF job[p].op = "edit" THEN job[p].next ELSE mem[p]

Save(p) ==
    /\ pc[p] = "saving"
    /\ disk' = ToSave(p)
    /\ Done(p, ToSave(p))
    /\ UNCHANGED <<ring, cache, keys, minted, edits>>

\* The write fails and the old file stays; an edit's new config is dropped.
SaveFails(p) ==
    /\ "save" \in Faults
    /\ pc[p] = "saving"
    /\ Done(p, mem[p])
    /\ UNCHANGED <<disk, ring, cache, keys, minted, edits>>

-------------------------------------------------------------------------------
(* Adding, editing, removing and copying owners.                              *)

\* The next config is built: the bodies in `new` replace or join the others.
\* `asks` is what the user wants the owners concerned to hold.
Stage(p, new, asks, step) ==
    /\ pc[p] = "ready"
    /\ edits < MaxEdits
    /\ edits' = edits + 1
    /\ minted' = minted \cup DOMAIN new
    /\ job' = [job EXCEPT ![p] = [NoJob EXCEPT !.op = "edit", !.asks = asks,
                 !.next = [mem[p] EXCEPT !.body = [o \in Owners |-> IF o \in DOMAIN new
                                                  THEN new[o] ELSE mem[p].body[o]]]]]
    /\ pc' = [pc EXCEPT ![p] = step]
    /\ UNCHANGED <<disk, keys, mem>>

At(o, x) == [q \in {o} |-> x]

\* The key seal_body needs, and the cache after getting it.
SealKey(p, b) == IF HasPlain(b) /\ mem[p].mode = "vault" THEN Unlock(mem[p], cache)
                 ELSE {[key |-> 0, cache |-> cache]}

\* Without a decided mode the TUI refuses to store a secret.
MaySeal(p, b) == HasPlain(b) => p \notin Tui \/ mem[p].mode # "undecided"

\* Body b, as built, is sealed if it holds plaintext and takes o's place.
Put(p, o, b, want) ==
    /\ MaySeal(p, b)
    /\ o \in minted => o \in Present(mem[p])
    /\ \E u \in SealKey(p, b) :
          /\ cache' = u.cache
          /\ Stage(p, At(o, IF HasPlain(b) THEN SealedBody(b, mem[p].mode, u.key) ELSE b),
                   At(o, want), "saving")
    /\ ring' = [ring EXCEPT ![o] = SealedRow(b, ring[o], mem[p].mode)]

\* Keyring mode: the private key was written, the certificate could not be.
PutFails(p, o, t) ==
    /\ "keyring" \in Faults
    /\ mem[p].mode = "keyring"
    /\ \A s \in KeySlot : t.texts[s] # Nil
    /\ o \in minted => o \in Present(mem[p])
    /\ Stage(p, At(o, mem[p].body[o]), At(o, t.texts), "failing")
    /\ ring' = [ring EXCEPT ![o]["priv"] = t.texts["priv"]]
    /\ UNCHANGED cache

GiveUp(p) ==
    /\ pc[p] = "failing"
    /\ Done(p, mem[p])
    /\ UNCHANGED <<disk, ring, cache, keys, minted, edits>>

\* cred/host add and edit with an inline key, a new owner without a secret.
\* A password cannot come from a flag.
CliPut(p, o, t) ==
    /\ p \notin Tui
    /\ t.texts["pw"] = Nil
    /\ t.kind # "inline" => o \notin minted
    /\ Put(p, o, TypedBody(t.kind, t.texts), t.texts)

Only(texts, S) == [s \in Slot |-> IF s \in S THEN texts[s] ELSE Nil]

\* Flag patches, of which only a valid body is saved: an identity path or none
\* (a credential drops its password then, a host does not), a login by
\* reference or by default, a password dropped.
Patches(p, o) ==
    LET b == mem[p].body[o]
        Keyed(kind) == [b EXCEPT !.kind = kind,
                          !.sec = [s \in Slot |-> IF s = "pw" THEN b.sec[s] ELSE NoSecret],
                          !.keyMarked = FALSE]
        NoPassword == [b EXCEPT !.sec["pw"] = NoSecret, !.marked = FALSE]
        bodies == IF o \in Creds THEN {Bare("path"), Bare("none")}
                  ELSE {Keyed("path"), Keyed("none"), NoPassword, Bare("path"), Bare("none")}
        kept(c) == {s \in Slot : c.sec[s] # NoSecret \/ InRing(c, s)}
    IN  {[body |-> c, want |-> Only(Held(mem[p], o), kept(c))] :
            c \in {c \in bodies : Valid(c)}}

CliPatch(p, o) ==
    /\ p \notin Tui
    /\ o \in Present(mem[p])
    /\ \E x \in Patches(p, o) : Stage(p, At(o, x.body), At(o, x.want), "saving")
    /\ UNCHANGED <<ring, cache>>

\* Mutant of Blanks: a host's marker is forgotten too.
BlanksForget(p, o) ==
    {[body |-> [Bare("none") EXCEPT !.sec["pw"] = mem[p].body[o].sec["pw"]],
      want |-> Only(Held(mem[p], o), {"pw"})]}

\* The wizard with its secret field left blank keeps what there was: a host
\* its password and marker, a credential its password, either its inline key.
Blanks(p, o) ==
    LET b == mem[p].body[o]
        password == [Bare("none") EXCEPT !.sec["pw"] = b.sec["pw"],
                                         !.marked = b.marked /\ o \in Hosts]
        inline == [b EXCEPT !.sec["pw"] = NoSecret, !.marked = FALSE]
    IN  {[body |-> password, want |-> Only(Held(mem[p], o), {"pw"})]}
        \cup IF b.kind = "inline"
             THEN {[body |-> inline, want |-> Only(Held(mem[p], o), KeySlot)]} ELSE {}

Forms(p, o) == {[body |-> TypedBody(t.kind, t.texts), want |-> t.texts] : t \in Typed}
               \cup IF o \in Present(mem[p]) THEN Blanks(p, o) ELSE {}

TuiSave(p, o) ==
    /\ p \in Tui
    /\ \E x \in Forms(p, o) : Put(p, o, x.body, x.want)

\* rm, and the panels' delete: the entries go before the config is saved.
Remove(p, o) ==
    /\ o \in Present(mem[p])
    /\ Stage(p, At(o, Absent), At(o, NoTexts), "saving")
    /\ \E row \in Kept(ring[o], ForgottenRow(mem[p].body[o], ring[o])) :
          ring' = [ring EXCEPT ![o] = row]
    /\ UNCHANGED cache

\* host cp: the copy goes ahead even when its entries could not be copied.
Copy(p, src, dst) ==
    /\ p \notin Tui
    /\ src \in Present(mem[p])
    /\ dst \notin minted
    /\ Stage(p, At(dst, mem[p].body[src]), At(dst, Held(mem[p], src)), "saving")
    /\ LET copied == CopiedRow(mem[p].body[src], ring[src], ring[dst])
       IN  \E n \in IF "keyring" \in Faults THEN {{}, {"priv"}, Slot} ELSE {Slot} :
              ring' = [ring EXCEPT ![dst] = [s \in Slot |-> IF s \in n THEN copied[s]
                                                            ELSE ring[dst][s]]]
    /\ UNCHANGED cache

\* host add --force: a new id takes the place of the old, whose entries go.
Overwrite(p, old, o, t) ==
    LET b == TypedBody(t.kind, t.texts)
    IN  /\ p \notin Tui
        /\ t.texts["pw"] = Nil
        /\ old \in Present(mem[p])
        /\ o \notin minted
        /\ \E u \in SealKey(p, b) :
              /\ cache' = u.cache
              /\ Stage(p, [q \in {old, o} |-> IF q = old THEN Absent
                                             ELSE SealedBody(b, mem[p].mode, u.key)],
                       [q \in {old, o} |-> IF q = old THEN NoTexts ELSE t.texts], "saving")
        /\ \E row \in Kept(ring[old], ForgottenRow(mem[p].body[old], ring[old])) :
              ring' = [ring EXCEPT ![old] = row, ![o] = SealedRow(b, ring[o], mem[p].mode)]

\* Edits that leave the secrets alone (user, address, name, cache TTL) write
\* the whole config all the same.
Touch(p) ==
    /\ Stage(p, [o \in {} |-> Absent], NoAsks, "saving")
    /\ UNCHANGED <<ring, cache>>

-------------------------------------------------------------------------------
EditStep(p) ==
    \/ \E o \in Owners : CliPatch(p, o) \/ TuiSave(p, o) \/ Remove(p, o)
    \/ \E o \in Owners, t \in Typed : CliPut(p, o, t) \/ PutFails(p, o, t)
    \/ \E src, dst \in Hosts : Copy(p, src, dst)
    \/ \E old, o \in Hosts, t \in Typed : Overwrite(p, old, o, t)
    \/ Touch(p)

SwitchStep(p) ==
    \/ \E t \in Modes : Switch(p, t)
    \/ Rekey(p)
    \/ \E o \in Owners : Migrate(p, o) \/ MigrateFails(p, o)
    \/ Flip(p)

Next ==
    \/ DropCache
    \/ \E p \in Procs :
          \/ Start(p) \/ Exit(p) \/ UnlockVault(p)
          \/ SwitchStep(p) \/ EditStep(p)
          \/ Save(p) \/ SaveFails(p) \/ GiveUp(p)

Spec == Init /\ [][Next]_vars
-------------------------------------------------------------------------------
(* Properties.                                                                *)

\* Every variable holds what it should, and a process at rest has no job.
TypeOK ==
    /\ disk \in Config
    /\ ring \in [Owners -> Row]
    /\ cache \in Nat
    /\ keys \in Nat
    /\ minted \subseteq Owners
    /\ mem \in [Procs -> Config]
    /\ pc \in [Procs -> {"idle", "ready", "migrating", "saving", "failing"}]
    /\ job \in [Procs -> Job]
    /\ edits \in Nat
    /\ \A p \in Procs : pc[p] \in {"idle", "ready"} => job[p] = NoJob

\* Whatever commands race, fail or die half way, every secret encrypted in
\* config.toml opens with the key whose verifier the same file holds: no
\* passphrase change, stale cached key or half-done switch leaves ciphertext
\* that nobody can read any more.
Opens(c) == \A o \in Owners, s \in Slot :
                Form(c.body[o], s) = "enc" =>
                    c.mode = "vault" /\ c.body[o].sec[s].under = c.vaultKey
CiphertextOpens == Opens(disk)

\* A slot that holds text is one a switch migrates, and an owner that is not
\* there has none to migrate.
Tidy(b) == \A s \in Slot : /\ Form(b, s) # "none" => Carries(b, s)
                           /\ Carries(b, s) => b.kind # "absent"

Sound(c) == Opens(c) /\ \A o \in Owners : Tidy(c.body[o])

HalfMoved(c, j) ==
    /\ j.op = "switch"
    /\ \A o \in Owners :
          /\ Tidy(c.body[o])
          /\ \A s \in Slot : Form(c.body[o], s) = "enc" =>
                o \in j.todo \/ (j.target = "vault" /\ c.body[o].sec[s].under = j.new)

\* Why it opens: no copy a process holds could lose a secret by being saved.
\* What it loaded or staged opens; what a switch has migrated so far is under the
\* new key, and what it has not is still on its list.  (A TUI whose switch fails
\* half way breaks it: CopyIntact.)
CopiesSound ==
    /\ Sound(disk)
    /\ \A p \in Procs : /\ pc[p] = "ready" => Sound(mem[p])
                        /\ pc[p] = "saving" => Sound(ToSave(p))
                        /\ pc[p] = "migrating" => HalfMoved(mem[p], job[p])

\* In vault and keyring mode config.toml holds no secret in the clear, by
\* whatever way it was entered, copied or moved ("never silently store
\* plaintext in vault mode").
SealedAtRest == disk.mode \in {"vault", "keyring"} =>
                    \A o \in Owners, s \in Slot : Form(disk.body[o], s) # "plain"

\* What a saved edit asked for is what the next connection reads: a form or a
\* flag replaces the secret it names, drops what it says to drop, and leaves
\* the rest as it was, whatever the mode.  But a key that comes without a
\* certificate under a keyring marker takes over the entry an earlier key left,
\* and a credential saved with its password field blank loses a keyring
\* password (BlankKeepsPassword).
TakenOver(b, s, want) == s = "cert" /\ want = Nil /\ InRing(b, s)
LeftBlank(p, o, s, b) == /\ s = "pw" /\ p \in Tui /\ o \in Creds
                         /\ mem[p].body[o].marked /\ b = Bare("none")

EditDelivers ==
    [][\A p \in Procs : Save(p) /\ job[p].op = "edit" =>
          \A o \in DOMAIN job[p].asks, s \in Slot :
              \/ Reads(disk'.body[o], ring'[o], disk'.vaultKey)[s] = job[p].asks[o][s]
              \/ TakenOver(disk'.body[o], s, job[p].asks[o][s])
              \/ LeftBlank(p, o, s, disk'.body[o])]_vars

\* A mode switch re-hosts each secret and changes none: what a body reads after
\* its migration, under the new mode's key, is what it read before.  But a key
\* without a certificate is given the one in the owner's entry, if an earlier
\* key left any (SwitchChangesNothing).
Bereft(b, s) == s = "cert" /\ b.kind = "inline" /\ ~b.keyMarked /\ Form(b, s) = "none"

SwitchKeeps ==
    [][\A p \in Procs, o \in Owners : Migrate(p, o) =>
          \A s \in Slot :
              Reads(mem'[p].body[o], ring'[o], job[p].new)[s] =
              IF Bereft(mem[p].body[o], s) THEN ring[o][s]
              ELSE Reads(mem[p].body[o], ring[o], job[p].src)[s]]_vars

\* Seen from a connection, the store is a map from owners to texts.  A command
\* asks when it stages an edit; with one process there is one edit at a time.
\* The certificates that lie around are those of the keyring and of the copies.
Map == INSTANCE SecretMap WITH
          Slots <- Slot, Texts <- Vals \cup {Nil},
          None <- Nil, Cert <- "cert",
          held <- [o \in Owners |-> Held(disk, o)],
          left <- [o \in Owners |->
                     ({ring[o]["cert"]} \cup {mem[p].body[o].sec["cert"].val : p \in Procs})
                     \ {Nil}],
          asks <- IF \E p \in Procs : job[p].asks # NoAsks
                  THEN job[CHOOSE p \in Procs : job[p].asks # NoAsks].asks ELSE NoAsks
Implements == Map!MSpec

(* What the documents claim and TLC refutes.                                  *)

\* A switch that failed has lost nothing: once the command is over, every marker
\* in config.toml has its entry ("a re-seal failure cannot lose a password").
MarkersBacked ==
    (\A p \in Procs : pc[p] = "idle") =>
        \A o \in Owners :
            /\ disk.body[o].marked => ring[o]["pw"] # Nil
            /\ InRing(disk.body[o], "priv") => ring[o]["priv"] # Nil

\* An edit keeps or sets a password it is asked to: "a user editing only the
\* user/name does not silently drop the password" (persist.rs:322).  (Refuted by
\* a credential saved with a blank field in keyring mode.)
BlankKeepsPassword ==
    [][\A p \in Procs : Save(p) /\ job[p].op = "edit" =>
          \A o \in DOMAIN job[p].asks :
              job[p].asks[o]["pw"] # Nil =>
                  Reads(disk'.body[o], ring'[o], disk'.vaultKey)["pw"] # Nil]_vars

\* A migration changes no text: an inline key's is "extracted from the in-body
\* Secret (or the OS keyring slots when this is a keyring-marker body)"
\* (transform.rs:411).  (Refuted by a key without certificate that replaces one
\* with, and a switch.)
SwitchChangesNothing ==
    [][\A p \in Procs, o \in Owners : Migrate(p, o) =>
          Reads(mem'[p].body[o], ring'[o], job[p].new) =
          Reads(mem[p].body[o], ring[o], job[p].src)]_vars

\* Between commands a lone TUI's copy of the config is the file: a failed
\* migration "leaves the config untouched".  (Refuted by a TUI whose switch fails.)
CopyIntact == Cardinality(Procs) = 1 => \A p \in Tui : pc[p] = "ready" => mem[p] = disk

\* Between commands every password in the keyring belongs to a body that names
\* it: "on edit the old entry is cleaned up".  (Refuted by any edit of a TUI in
\* keyring mode.)
NoOrphans == (\A p \in Procs : pc[p] \in {"idle", "ready"}) =>
                \A o \in Owners : ring[o]["pw"] # Nil => disk.body[o].marked
===============================================================================
