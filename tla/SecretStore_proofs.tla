-------------------------- MODULE SecretStore_proofs --------------------------
(***************************************************************************)
(* Theorems about SecretStore, for any owners, processes, texts, faults    *)
(* and bounds: its variables are well typed, and what is in config.toml    *)
(* opens with the key config.toml describes and is sealed as its mode      *)
(* says.  The latter two need no TUI to go on after a switch that failed;  *)
(* of commands nothing is assumed.                                         *)
(***************************************************************************)
EXTENDS SecretStore, TLAPS

Text0 == Vals \cup {Nil}
-------------------------------------------------------------------------------
(* Secrets, bodies and rows.                                                  *)

\* The three forms a slot can be in are secrets.
LEMMA SecretsTyped ==
    ASSUME NEW v \in Text0, NEW k \in Nat
    PROVE  NoSecret \in Secret /\ Plain(v) \in Secret /\ Enc(v, k) \in Secret
BY DEF NoSecret, Plain, Enc, Secret, Text0

\* Ciphertext appears in vault mode only, under the key that was given; plaintext
\* in no mode that seals.
LEMMA FinalizeTyped ==
    ASSUME NEW v \in Text0, NEW mode \in Mode, NEW key \in Nat
    PROVE  /\ Finalize(v, mode, key) \in Secret
           /\ Finalize(v, mode, key).form = "enc" =>
                 mode = "vault" /\ Finalize(v, mode, key).under = key
           /\ mode \in {"vault", "keyring"} => Finalize(v, mode, key).form # "plain"
BY SecretsTyped DEF Finalize, NoSecret, Plain, Enc

\* A body without a secret: a body, empty and unmarked.
LEMMA BareTyped ==
    ASSUME NEW kind \in Kind
    PROVE  /\ Bare(kind) \in Body
           /\ \A s \in Slot : Form(Bare(kind), s) = "none"
           /\ Bare(kind).kind = kind /\ ~Bare(kind).marked
BY DEF Bare, Body, NoSecret, Secret, Form

\* An empty row is a row.
LEMMA NoTextsTyped == NoTexts \in Row
BY DEF NoTexts, Row

\* What a form or a flag builds is a body of the kind given, in the clear.
LEMMA TypedBodyTyped ==
    ASSUME NEW kind \in Kind, NEW texts \in Row
    PROVE  /\ TypedBody(kind, texts) \in Body
           /\ \A s \in Slot : Form(TypedBody(kind, texts), s) # "enc"
           /\ \A s \in Slot : texts[s] = Nil => Form(TypedBody(kind, texts), s) = "none"
           /\ TypedBody(kind, texts).kind = kind /\ ~TypedBody(kind, texts).marked
<1> DEFINE secs == [s \in Slot |-> IF texts[s] = Nil THEN NoSecret ELSE Plain(texts[s])]
<1>1. secs \in [Slot -> Secret]
  <2>1. \A s \in Slot : texts[s] \in Text0
    BY DEF Row, Text0
  <2> QED BY <2>1, SecretsTyped
<1>2. \A s \in Slot : secs[s].form # "enc" /\ (texts[s] = Nil => secs[s].form = "none")
  BY DEF NoSecret, Plain
<1>3. TypedBody(kind, texts) = [Bare(kind) EXCEPT !.sec = secs]
  BY DEF TypedBody
<1> HIDE DEF secs
<1> QED BY <1>1, <1>2, <1>3, BareTyped DEF Body, Form

\* What a migration finds in a slot is a text or none.
LEMMA TextTyped ==
    ASSUME NEW b \in Body, NEW row \in Row, NEW s \in Slot
    PROVE  Text(b, row, s) \in Text0
BY DEF Text, Text0, Body, Row, Secret

\* Sealing leaves every slot ciphertext under the given key, or what it was; a
\* mode that seals leaves nothing in the clear.
LEMMA SealedBodyTyped ==
    ASSUME NEW b \in Body, NEW mode \in Mode, NEW key \in Nat
    PROVE  /\ SealedBody(b, mode, key) \in Body
           /\ SealedBody(b, mode, key).kind = b.kind
           /\ \A s \in Slot : Form(SealedBody(b, mode, key), s) = "enc" =>
                 \/ mode = "vault" /\ SealedBody(b, mode, key).sec[s].under = key
                 \/ SealedBody(b, mode, key).sec[s] = b.sec[s]
           /\ mode \in {"vault", "keyring"} =>
                 \A s \in Slot : Form(SealedBody(b, mode, key), s) # "plain"
           /\ \A s \in Slot : Form(b, s) = "none" => Form(SealedBody(b, mode, key), s) = "none"
           /\ SealedBody(b, mode, key).marked => b.marked \/ Form(b, "pw") # "none"
<1> DEFINE secs == [s \in Slot |-> IF Form(b, s) = "plain"
                                   THEN Finalize(b.sec[s].val, mode, key) ELSE b.sec[s]]
           mark == /\ mode = "keyring"
                   /\ b.kind \notin {"path", "inline"}
                   /\ Form(b, "pw") = "plain" \/ (b.marked /\ Form(b, "pw") = "none")
           keyMark == b.kind = "inline" /\ (b.keyMarked \/ mode = "keyring")
<1>1. /\ secs \in [Slot -> Secret]
      /\ \A s \in Slot : secs[s].form = "enc" =>
            \/ mode = "vault" /\ secs[s].under = key
            \/ secs[s] = b.sec[s]
      /\ mode \in {"vault", "keyring"} => \A s \in Slot : secs[s].form # "plain"
  <2>1. \A s \in Slot : b.sec[s] \in Secret /\ b.sec[s].val \in Text0
    BY DEF Body, Secret, Text0
  <2> QED BY <2>1, FinalizeTyped DEF Form
<1>2. \A s \in Slot : Form(b, s) = "none" => secs[s].form = "none"
  BY DEF Form
<1>3. mark \in BOOLEAN /\ keyMark \in BOOLEAN /\ (mark => b.marked \/ Form(b, "pw") # "none")
  BY DEF Body
<1>4. SealedBody(b, mode, key) = [b EXCEPT !.sec = secs, !.marked = mark, !.keyMarked = keyMark]
  BY DEF SealedBody
<1> HIDE DEF secs, mark, keyMark
<1> QED BY <1>1, <1>2, <1>3, <1>4 DEF Body, Form

\* A migrated body keeps its kind, and in a slot that migrates any ciphertext is
\* under the target's key and nothing is in the clear if the target seals.
LEMMA MovedBodyTyped ==
    ASSUME NEW b \in Body, NEW row \in Row, NEW mode \in Mode, NEW key \in Nat
    PROVE  /\ MovedBody(b, row, mode, key) \in Body
           /\ MovedBody(b, row, mode, key).kind = b.kind
           /\ MovedBody(b, row, mode, key).marked => Carries(b, "pw")
           /\ \A s \in Slot :
                 IF Carries(b, s)
                 THEN /\ Form(MovedBody(b, row, mode, key), s) = "enc" =>
                            mode = "vault" /\ MovedBody(b, row, mode, key).sec[s].under = key
                      /\ mode \in {"vault", "keyring"} =>
                            Form(MovedBody(b, row, mode, key), s) # "plain"
                 ELSE MovedBody(b, row, mode, key).sec[s] = b.sec[s]
<1> DEFINE secs == [s \in Slot |-> IF Carries(b, s)
                                   THEN Finalize(Text(b, row, s), mode, key) ELSE b.sec[s]]
           mark == Carries(b, "pw") /\ mode = "keyring"
           keyMark == b.kind = "inline" /\ mode = "keyring"
<1>1. /\ secs \in [Slot -> Secret]
      /\ \A s \in Slot : IF Carries(b, s)
                         THEN /\ secs[s].form = "enc" => mode = "vault" /\ secs[s].under = key
                              /\ mode \in {"vault", "keyring"} => secs[s].form # "plain"
                         ELSE secs[s] = b.sec[s]
  <2>1. \A s \in Slot : b.sec[s] \in Secret
    BY DEF Body
  <2> QED BY <2>1, FinalizeTyped, TextTyped
<1>2. mark \in BOOLEAN /\ keyMark \in BOOLEAN /\ (mark => Carries(b, "pw"))
  BY DEF Carries, Body
<1>3. MovedBody(b, row, mode, key) = [b EXCEPT !.sec = secs, !.marked = mark, !.keyMarked = keyMark]
  BY DEF MovedBody
<1> HIDE DEF secs, mark, keyMark
<1> QED BY <1>1, <1>2, <1>3 DEF Body, Form

\* Decrypting leaves no ciphertext, and fills no slot.
LEMMA DecryptedBodyTyped ==
    ASSUME NEW b \in Body
    PROVE  /\ DecryptedBody(b) \in Body
           /\ DecryptedBody(b).kind = b.kind /\ DecryptedBody(b).marked = b.marked
           /\ \A s \in Slot : Form(DecryptedBody(b), s) # "enc"
           /\ \A s \in Slot : Form(b, s) = "none" => Form(DecryptedBody(b), s) = "none"
<1> DEFINE secs == [s \in Slot |-> IF Form(b, s) = "enc" THEN Plain(b.sec[s].val) ELSE b.sec[s]]
<1>1. /\ secs \in [Slot -> Secret]
      /\ \A s \in Slot : secs[s].form # "enc"
      /\ \A s \in Slot : Form(b, s) = "none" => secs[s].form = "none"
  <2>1. \A s \in Slot : b.sec[s] \in Secret /\ b.sec[s].val \in Text0
    BY DEF Body, Secret, Text0
  <2> QED BY <2>1, SecretsTyped DEF Form, Plain
<1>2. DecryptedBody(b) = [b EXCEPT !.sec = secs]
  BY DEF DecryptedBody
<1> HIDE DEF secs
<1> QED BY <1>1, <1>2 DEF Body, Form

\* What sealing, moving, forgetting and copying leave in the keyring are rows.
LEMMA RowsTyped ==
    ASSUME NEW b \in Body, NEW row \in Row, NEW from \in Row, NEW mode \in Mode
    PROVE  /\ SealedRow(b, row, mode) \in Row
           /\ MovedRow(b, row, mode) \in Row
           /\ ForgottenRow(b, row) \in Row
           /\ CopiedRow(b, from, row) \in Row
<1>1. \A s \in Slot : row[s] \in Text0 /\ from[s] \in Text0 /\ b.sec[s].val \in Text0
  BY DEF Row, Body, Secret, Text0
<1>2. \A s \in Slot : Text(b, row, s) \in Text0
  BY TextTyped
<1> QED BY <1>1, <1>2 DEF SealedRow, MovedRow, ForgottenRow, CopiedRow, Row, Text0

\* So is what a best-effort delete leaves.
LEMMA KeptTyped ==
    ASSUME NEW old \in Row, NEW new \in Row, NEW row \in Kept(old, new)
    PROVE  row \in Row
BY DEF Kept, Row

\* A connection reads a row of texts.
LEMMA ReadsTyped ==
    ASSUME NEW b \in Body, NEW row \in Row, NEW k
    PROVE  Reads(b, row, k) \in Row
<1>1. \A s \in Slot : row[s] \in Text0 /\ b.sec[s].val \in Text0 /\ Nil \in Text0
  BY DEF Row, Body, Secret, Text0
<1> QED BY <1>1 DEF Reads, Row, Text0

\* Part of a row is a row.
LEMMA OnlyTyped ==
    ASSUME NEW texts \in Row, NEW S
    PROVE  Only(texts, S) \in Row
BY DEF Only, Row

-------------------------------------------------------------------------------
(* Configs, jobs, and the state of a process.                                 *)

\* An owner that is not there holds nothing.
LEMMA AbsentTyped == Absent \in Body /\ \A s \in Slot : Form(Absent, s) = "none"
BY BareTyped DEF Absent, Kind

\* A process without a copy has the empty config.
LEMMA NoConfigTyped == NoConfig \in Config
BY AbsentTyped DEF NoConfig, Config, Mode

\* What a command asks for is a row for each owner of a set.
LEMMA AsksTyped ==
    /\ \A S \in SUBSET Owners : \A f \in [S -> Row] : f \in Asks
    /\ NoAsks \in Asks
<1>1. \A S \in SUBSET Owners : \A f \in [S -> Row] : f \in Asks
  BY DEF Asks
<1>2. NoAsks \in [{} -> Row]
  BY DEF NoAsks
<1> QED BY <1>1, <1>2

\* No operation is a job too.
LEMMA NoJobTyped == NoJob \in Job
BY NoConfigTyped, AsksTyped DEF NoJob, Job, Mode

\* The places of a process that has loaded or not.
PcValue == {"idle", "ready", "migrating", "saving", "failing"}

\* The part of TypeOK about the processes.
ProcsOK ==
    /\ mem \in [Procs -> Config]
    /\ pc \in [Procs -> PcValue]
    /\ job \in [Procs -> Job]
    /\ \A p \in Procs : pc[p] \in {"idle", "ready"} => job[p] = NoJob

\* The part of TypeOK about what processes share.
StoreOK ==
    /\ disk \in Config
    /\ ring \in [Owners -> Row]
    /\ cache \in Nat
    /\ keys \in Nat
    /\ minted \subseteq Owners
    /\ edits \in Nat

\* TypeOK by the shared variables and the processes.
LEMMA TypeParts == TypeOK <=> StoreOK /\ ProcsOK
BY DEF TypeOK, StoreOK, ProcsOK, PcValue

\* Ending a command leaves the processes well typed.
LEMMA DoneTyped ==
    ASSUME ProcsOK, NEW p \in Procs, NEW m \in Config, Done(p, m)
    PROVE  ProcsOK'
BY NoConfigTyped, NoJobTyped DEF ProcsOK, Done, PcValue

\* Unlocking yields the config's own key, from the cache or derived.
LEMMA UnlockTyped ==
    ASSUME NEW c \in Config, NEW k \in Nat, NEW u \in Unlock(c, k)
    PROVE  u.key = c.vaultKey /\ u.key \in Nat /\ u.cache \in Nat
BY DEF Unlock, CachedKeyIsValid, Config

\* Starting a switch leaves the processes well typed.
LEMMA BeginTyped ==
    ASSUME ProcsOK, NEW p \in Procs, NEW m \in Config, NEW t \in Mode,
           NEW src \in Nat, NEW new \in Nat, Begin(p, m, t, src, new)
    PROVE  ProcsOK'
<1> DEFINE j == [NoJob EXCEPT !.op = "switch", !.target = t,
                              !.src = src, !.new = new, !.todo = Present(m)]
<1>1. j \in Job
  BY NoJobTyped DEF Job, Present
<1>2. job' = [job EXCEPT ![p] = j] /\ mem' = [mem EXCEPT ![p] = m]
      /\ pc' = [pc EXCEPT ![p] = "migrating"]
  BY DEF Begin
<1> HIDE DEF j
<1> QED BY <1>1, <1>2 DEF ProcsOK, PcValue

\* The job an edit stages: its next config, and what it asks for.
EditJob(p, new, asks) ==
    [NoJob EXCEPT !.op = "edit", !.asks = asks,
        !.next = [mem[p] EXCEPT !.body = [o \in Owners |-> IF o \in DOMAIN new
                                         THEN new[o] ELSE mem[p].body[o]]]]

\* Staging an edit leaves everything but the keyring and the cache well typed.
LEMMA StageTyped ==
    ASSUME StoreOK, ProcsOK, NEW p \in Procs, NEW S \in SUBSET Owners,
           NEW new \in [S -> Body], NEW asks \in Asks,
           NEW step \in {"saving", "failing"}, Stage(p, new, asks, step)
    PROVE  /\ ProcsOK'
           /\ disk' \in Config /\ keys' \in Nat /\ minted' \subseteq Owners /\ edits' \in Nat
<1> DEFINE bodies == [o \in Owners |-> IF o \in DOMAIN new THEN new[o] ELSE mem[p].body[o]]
<1>0. mem[p] \in Config /\ DOMAIN new = S
  BY DEF ProcsOK
<1>1. bodies \in [Owners -> Body]
  BY <1>0 DEF Config
<1>2. EditJob(p, new, asks) = [NoJob EXCEPT !.op = "edit", !.asks = asks,
                                            !.next = [mem[p] EXCEPT !.body = bodies]]
  BY DEF EditJob
<1> HIDE DEF bodies
<1>3. [mem[p] EXCEPT !.body = bodies] \in Config
  BY <1>0, <1>1 DEF Config
<1>4. EditJob(p, new, asks) \in Job
  BY <1>2, <1>3, NoJobTyped DEF Job
<1>5. /\ job' = [job EXCEPT ![p] = EditJob(p, new, asks)]
      /\ pc' = [pc EXCEPT ![p] = step]
      /\ mem' = mem
  BY DEF Stage, EditJob
<1>6. ProcsOK'
  BY <1>4, <1>5 DEF ProcsOK, PcValue
<1>7. disk' = disk /\ keys' = keys /\ minted' = minted \cup S /\ edits' = edits + 1
  BY <1>0 DEF Stage
<1> QED BY <1>6, <1>7 DEF StoreOK

\* One body, or one row, for one owner.
LEMMA AtTyped ==
    ASSUME NEW o \in Owners
    PROVE  /\ \A b \in Body : At(o, b) \in [{o} -> Body] /\ At(o, b)[o] = b
           /\ \A r \in Row : At(o, r) \in Asks
           /\ {o} \in SUBSET Owners
<1>1. \A r \in Row : At(o, r) \in [{o} -> Row]
  BY DEF At
<1> QED BY <1>1, AsksTyped DEF At

\* The key a seal works with is the config's, when it needs one.
LEMMA SealKeyTyped ==
    ASSUME StoreOK, ProcsOK, NEW p \in Procs, NEW b, NEW u \in SealKey(p, b)
    PROVE  /\ u.key \in Nat /\ u.cache \in Nat
           /\ HasPlain(b) /\ mem[p].mode = "vault" => u.key = mem[p].vaultKey
<1>1. mem[p] \in Config /\ cache \in Nat
  BY DEF StoreOK, ProcsOK
<1>2. CASE HasPlain(b) /\ mem[p].mode = "vault"
  <2>1. u \in Unlock(mem[p], cache)
    BY <1>2 DEF SealKey
  <2> QED BY <1>1, <2>1, UnlockTyped
<1>3. CASE ~(HasPlain(b) /\ mem[p].mode = "vault")
  BY <1>1, <1>3 DEF SealKey
<1> QED BY <1>2, <1>3
-------------------------------------------------------------------------------
(* What the actions put together.                                             *)

\* What an owner holds is a row.
LEMMA HeldTyped ==
    ASSUME NEW c \in Config, ring \in [Owners -> Row], NEW o \in Owners
    PROVE  Held(c, o) \in Row
BY ReadsTyped DEF Held, Config

\* A body with some of its slots replaced.
LEMMA SlotsReplaced ==
    ASSUME NEW b \in Body, NEW secs \in [Slot -> Secret]
    PROVE  /\ [b EXCEPT !.sec = secs] \in Body
           /\ [b EXCEPT !.sec = secs].sec = secs
           /\ [b EXCEPT !.sec = secs].kind = b.kind
BY DEF Body

\* What a failed migration leaves behind is still a body and a row.
LEMMA FailuresTyped ==
    ASSUME NEW b \in Body, NEW row \in Row, NEW j \in Job, NEW f \in Failures(b, row, j)
    PROVE  f.body \in Body /\ f.row \in Row
<1> DEFINE Taken(S) == [b EXCEPT !.sec = [s \in Slot |-> IF s \in S THEN NoSecret ELSE b.sec[s]]]
           Half == Finalize(Text(b, row, "priv"), j.target, j.new)
           Halved == [Taken(KeySlot) EXCEPT !.sec["priv"] = Half]
           Written == [row EXCEPT !["priv"] = Text(b, row, "priv")]
<1>1. \A S : Taken(S) \in Body
  <2> TAKE S
  <2>1. [s \in Slot |-> IF s \in S THEN NoSecret ELSE b.sec[s]] \in [Slot -> Secret]
    <3>1. \A s \in Slot : b.sec[s] \in Secret
      BY DEF Body
    <3>2. NoSecret \in Secret
      BY DEF NoSecret, Secret
    <3> QED BY <3>1, <3>2
  <2> QED BY <2>1, SlotsReplaced
<1>2. "priv" \in Slot /\ Text(b, row, "priv") \in Text0
  <2>1. "priv" \in Slot
    BY DEF Slot
  <2> QED BY <2>1, TextTyped
<1>3. Half \in Secret
  BY <1>2, FinalizeTyped DEF Job
<1>4. Halved \in Body
  <2>1. Taken(KeySlot) \in Body
    BY <1>1
  <2> HIDE DEF Taken, Half
  <2> QED BY <1>3, <2>1 DEF Body
<1>5. Written \in Row
  BY <1>2 DEF Row, Text0
<1>6. /\ f.body \in {b, Taken({"priv"}), Taken(KeySlot), Halved}
      /\ f.row \in {row, Written}
  BY DEF Failures
<1> HIDE DEF Taken, Halved, Written
<1> QED BY <1>1, <1>4, <1>5, <1>6

\* The bodies a flag patch builds: a slot keeps what it had or is emptied.
LEMMA PatchesTyped ==
    ASSUME StoreOK, ProcsOK, NEW p \in Procs, NEW o \in Owners, NEW x \in Patches(p, o)
    PROVE  /\ x.body \in Body /\ x.want \in Row
           /\ \A s \in Slot : x.body.sec[s] \in {NoSecret, mem[p].body[o].sec[s]}
           /\ Tidy(mem[p].body[o]) => Tidy(x.body)
<1> DEFINE b == mem[p].body[o]
           Pw == [s \in Slot |-> IF s = "pw" THEN b.sec[s] ELSE NoSecret]
           Keyed(kind) == [b EXCEPT !.kind = kind, !.sec = Pw, !.keyMarked = FALSE]
           NoPassword == [b EXCEPT !.sec["pw"] = NoSecret, !.marked = FALSE]
           Bodies == IF o \in Creds THEN {Bare("path"), Bare("none")}
                     ELSE {Keyed("path"), Keyed("none"), NoPassword, Bare("path"), Bare("none")}
           kept(c) == {s \in Slot : c.sec[s] # NoSecret \/ InRing(c, s)}
<1>1. PICK c \in Bodies : x.body = c /\ \E S : x.want = Only(Held(mem[p], o), S)
  <2>1. Patches(p, o) = {[body |-> c, want |-> Only(Held(mem[p], o), kept(c))] :
                           c \in {c \in Bodies : Valid(c)}}
    BY Zenon DEF Patches
  <2> HIDE DEF kept, Bodies
  <2>2. PICK c \in Bodies : x = [body |-> c, want |-> Only(Held(mem[p], o), kept(c))]
    BY <2>1
  <2>3. x.body = c /\ x.want = Only(Held(mem[p], o), kept(c))
    BY <2>2
  <2> QED BY <2>3
<1>2. b \in Body /\ mem[p] \in Config
  BY DEF ProcsOK, Config
<1>3. x.want \in Row
  BY <1>1, <1>2, HeldTyped, OnlyTyped DEF StoreOK
<1>4. NoSecret \in Secret /\ NoSecret.form = "none"
  BY DEF NoSecret, Secret
<1>5. \A k \in {"path", "none"} :
         /\ Bare(k) \in Body
         /\ \A s \in Slot : Bare(k).sec[s] = NoSecret
         /\ Tidy(Bare(k))
  BY BareTyped DEF Bare, Tidy, Kind, Form
<1>6. ASSUME NEW k \in {"path", "none"}
      PROVE  /\ Keyed(k) \in Body
             /\ \A s \in Slot : Keyed(k).sec[s] \in {NoSecret, b.sec[s]}
             /\ Tidy(Keyed(k))
  <2>1. Pw \in [Slot -> Secret] /\ (\A s \in Slot : Pw[s] \in {NoSecret, b.sec[s]})
        /\ (\A s \in KeySlot : Pw[s] = NoSecret)
    BY <1>2, <1>4 DEF Body, KeySlot, Slot
  <2> HIDE DEF Pw, b
  <2>2. /\ Keyed(k) \in Body
        /\ Keyed(k).sec = Pw
        /\ Keyed(k).kind = k
    BY <1>2, <2>1 DEF Body, Kind
  <2> HIDE DEF Keyed
  <2> QED BY <1>4, <2>1, <2>2 DEF Tidy, Carries, Form, Slot, KeySlot
<1>7. /\ NoPassword \in Body
      /\ \A s \in Slot : NoPassword.sec[s] \in {NoSecret, b.sec[s]}
      /\ Tidy(b) => Tidy(NoPassword)
  <2> DEFINE secs == [b.sec EXCEPT !["pw"] = NoSecret]
  <2>1. /\ secs \in [Slot -> Secret]
        /\ \A s \in Slot : secs[s] = IF s = "pw" THEN NoSecret ELSE b.sec[s]
    BY <1>2, <1>4 DEF Body, Slot
  <2>2. /\ NoPassword \in Body
        /\ NoPassword.sec = secs
        /\ NoPassword.kind = b.kind /\ ~NoPassword.marked
    <3> HIDE DEF b
    <3> QED BY <1>2, <1>4 DEF Body, Slot
  <2> HIDE DEF secs, NoPassword, b
  <2> QED BY <1>4, <2>1, <2>2 DEF Tidy, Carries, Form, Slot
<1> HIDE DEF Keyed, NoPassword
<1>8. /\ c \in Body
      /\ \A s \in Slot : c.sec[s] \in {NoSecret, b.sec[s]}
      /\ Tidy(b) => Tidy(c)
  BY <1>5, <1>6, <1>7
<1> QED BY <1>1, <1>3, <1>8

\* What a form builds: what was typed, or, with the secret left blank, a body with
\* some slots of the one it replaces.
LEMMA FormsTyped ==
    ASSUME StoreOK, ProcsOK, NEW p \in Procs, NEW o \in Owners, NEW x \in Forms(p, o)
    PROVE  /\ x.body \in Body /\ x.want \in Row
           /\ \/ \E t \in Typed : x.body = TypedBody(t.kind, t.texts)
              \/ /\ \A s \in Slot : x.body.sec[s] \in {NoSecret, mem[p].body[o].sec[s]}
                 /\ Tidy(mem[p].body[o]) => Tidy(x.body)
<1> DEFINE b == mem[p].body[o]
           password == [Bare("none") EXCEPT !.sec["pw"] = b.sec["pw"],
                                            !.marked = b.marked /\ o \in Hosts]
           inline == [b EXCEPT !.sec["pw"] = NoSecret, !.marked = FALSE]
<1>1. b \in Body /\ mem[p] \in Config
  BY DEF ProcsOK, Config
<1>2. \A S : Only(Held(mem[p], o), S) \in Row
  BY <1>1, HeldTyped, OnlyTyped DEF StoreOK
<1>0. NoSecret \in Secret /\ NoSecret.form = "none"
  BY DEF NoSecret, Secret
<1>3. /\ password \in Body
      /\ \A s \in Slot : password.sec[s] \in {NoSecret, b.sec[s]}
      /\ Tidy(password)
  <2>1. /\ Bare("none") \in Body /\ Bare("none").kind = "none"
        /\ \A s \in Slot : Bare("none").sec[s] = NoSecret
        /\ b.sec["pw"] \in Secret /\ b.marked \in BOOLEAN
    BY <1>1, BareTyped DEF Body, Slot, Kind, Bare
  <2> HIDE DEF b
  <2>2. /\ password \in Body /\ password.kind = "none"
        /\ \A s \in Slot : password.sec[s] = IF s = "pw" THEN b.sec[s] ELSE NoSecret
    BY <2>1 DEF Body, Slot
  <2> HIDE DEF password
  <2>3. Tidy(password)
    BY <1>0, <2>2 DEF Tidy, Carries, Form, Slot
  <2> QED BY <2>2, <2>3
<1>4. /\ inline \in Body
      /\ \A s \in Slot : inline.sec[s] \in {NoSecret, b.sec[s]}
      /\ Tidy(b) => Tidy(inline)
  <2> HIDE DEF b
  <2>1. /\ inline \in Body /\ inline.kind = b.kind /\ ~inline.marked
        /\ \A s \in Slot : inline.sec[s] = IF s = "pw" THEN NoSecret ELSE b.sec[s]
    BY <1>0, <1>1 DEF Body, Slot
  <2> HIDE DEF inline
  <2> QED BY <1>0, <2>1 DEF Tidy, Carries, Form, Slot
<1>5. \A t \in Typed : t.kind \in Kind /\ t.texts \in Row
  BY StoreAssumption DEF Kind
<1>6. \A t \in Typed : TypedBody(t.kind, t.texts) \in Body
  BY <1>5, TypedBodyTyped
<1>7. \/ \E t \in Typed : x = [body |-> TypedBody(t.kind, t.texts), want |-> t.texts]
      \/ x.body \in {password, inline} /\ \E S : x.want = Only(Held(mem[p], o), S)
  <2>1. \/ x \in {[body |-> TypedBody(t.kind, t.texts), want |-> t.texts] : t \in Typed}
        \/ x \in Blanks(p, o)
    BY DEF Forms
  <2>2. CASE x \in Blanks(p, o)
    <3>1. \/ x = [body |-> password, want |-> Only(Held(mem[p], o), {"pw"})]
          \/ x = [body |-> inline, want |-> Only(Held(mem[p], o), KeySlot)]
      BY <2>2 DEF Blanks
    <3> HIDE DEF password, inline
    <3> QED BY <3>1
  <2> QED BY <2>1, <2>2
<1> HIDE DEF password, inline
<1> QED BY <1>2, <1>3, <1>4, <1>5, <1>6, <1>7
-------------------------------------------------------------------------------
(* Type correctness.                                                          *)

\* The initial states are well typed.
LEMMA InitTyped == Init => TypeOK
<1> SUFFICES ASSUME Init PROVE TypeOK
  OBVIOUS
<1> USE DEF StoreOK, ProcsOK
<1>1. PICK m \in InitModes,
           typed \in [Owners -> Typed \cup {[kind |-> "absent", texts |-> NoTexts]}] :
        LET bodies == [o \in Owners |-> TypedBody(typed[o].kind, typed[o].texts)]
            key == IF m = "vault" THEN 1 ELSE 0
        IN  /\ disk = [mode |-> m, vaultKey |-> key,
                       body |-> [o \in Owners |-> SealedBody(bodies[o], m, key)]]
            /\ ring = [o \in Owners |-> SealedRow(bodies[o], NoTexts, m)]
            /\ keys = key
            /\ minted = Present(disk)
            /\ cache = 0
            /\ mem = [p \in Procs |-> NoConfig]
            /\ pc = [p \in Procs |-> "idle"]
            /\ job = [p \in Procs |-> NoJob]
            /\ edits = 0
  BY DEF Init
<1> DEFINE bodies == [o \in Owners |-> TypedBody(typed[o].kind, typed[o].texts)]
           key == IF m = "vault" THEN 1 ELSE 0
<1>2. m \in Mode /\ key \in Nat
  BY StoreAssumption
<1>3. \A o \in Owners : typed[o].kind \in Kind /\ typed[o].texts \in Row
  <2>1. \A t \in Typed : t.kind \in Kind /\ t.texts \in Row
    BY StoreAssumption DEF Kind
  <2>2. "absent" \in Kind
    BY DEF Kind
  <2> QED BY <2>1, <2>2, NoTextsTyped
<1>4. \A o \in Owners : bodies[o] \in Body
  BY <1>3, TypedBodyTyped
<1> HIDE DEF bodies, key
<1>5. \A o \in Owners : SealedBody(bodies[o], m, key) \in Body
  BY <1>2, <1>4, SealedBodyTyped
<1>6. \A o \in Owners : SealedRow(bodies[o], NoTexts, m) \in Row
  BY <1>2, <1>4, NoTextsTyped, RowsTyped
<1>7. /\ disk = [mode |-> m, vaultKey |-> key,
                 body |-> [o \in Owners |-> SealedBody(bodies[o], m, key)]]
      /\ ring = [o \in Owners |-> SealedRow(bodies[o], NoTexts, m)]
      /\ keys = key /\ cache = 0 /\ edits = 0
      /\ minted = Present(disk)
  BY <1>1 DEF bodies, key
<1>8. disk \in Config
  BY <1>2, <1>5, <1>7 DEF Config
<1>9. StoreOK
  BY <1>2, <1>6, <1>7, <1>8 DEF Present
<1>10. ProcsOK
  BY <1>1, NoConfigTyped, NoJobTyped DEF PcValue
<1> QED BY <1>9, <1>10, TypeParts

\* The commands that only start, stop, unlock or drop the cache.
LEMMA ProcessTyped ==
    ASSUME StoreOK, ProcsOK, NEW p \in Procs,
           Start(p) \/ Exit(p) \/ UnlockVault(p) \/ Save(p) \/ SaveFails(p) \/ GiveUp(p)
    PROVE  StoreOK' /\ ProcsOK'
<1>0. mem[p] \in Config
  BY DEF ProcsOK
<1>1. CASE Start(p)
  <2>1. StoreOK'
    BY <1>1 DEF Start, StoreOK
  <2>2. ProcsOK'
    <3>1. disk \in Config /\ mem' = [mem EXCEPT ![p] = disk]
          /\ pc' = [pc EXCEPT ![p] = "ready"] /\ pc[p] = "idle" /\ job' = job
      BY <1>1 DEF Start, StoreOK
    <3> QED BY <3>1 DEF ProcsOK, PcValue
  <2> QED BY <2>1, <2>2
<1>2. CASE Exit(p)
  <2>1. StoreOK'
    BY <1>2 DEF Exit, StoreOK
  <2>2. ProcsOK'
    BY <1>2, NoConfigTyped, NoJobTyped DEF Exit, ProcsOK, PcValue
  <2> QED BY <2>1, <2>2
<1>3. CASE UnlockVault(p)
  <2>1. cache' \in Nat
    BY <1>0, <1>3, UnlockTyped DEF UnlockVault, StoreOK
  <2>2. StoreOK'
    BY <1>3, <2>1 DEF UnlockVault, StoreOK
  <2>3. ProcsOK'
    BY <1>0, <1>3, DoneTyped DEF UnlockVault
  <2> QED BY <2>2, <2>3
<1>4. CASE Save(p)
  <2>1. ToSave(p) \in Config
    BY <1>0 DEF ToSave, ProcsOK, Job
  <2>2. StoreOK'
    BY <1>4, <2>1 DEF Save, StoreOK
  <2>3. ProcsOK'
    BY <1>4, <2>1, DoneTyped DEF Save
  <2> QED BY <2>2, <2>3
<1>5. CASE SaveFails(p) \/ GiveUp(p)
  <2>1. StoreOK'
    BY <1>5 DEF SaveFails, GiveUp, StoreOK
  <2>2. ProcsOK'
    BY <1>0, <1>5, DoneTyped DEF SaveFails, GiveUp
  <2> QED BY <2>1, <2>2
<1> QED BY <1>1, <1>2, <1>3, <1>4, <1>5

\* The config a rekey starts from is a config.
LEMMA RekeyedTyped ==
    ASSUME NEW c \in Config
    PROVE  [mode |-> "undecided", vaultKey |-> 0,
            body |-> [o \in Owners |-> DecryptedBody(c.body[o])]] \in Config
<1>1. \A o \in Owners : DecryptedBody(c.body[o]) \in Body
  BY DecryptedBodyTyped DEF Config
<1> QED BY <1>1 DEF Config, Mode

\* The steps of a switch or rekey keep the types.
LEMMA SwitchTyped ==
    ASSUME StoreOK, ProcsOK, NEW p \in Procs, SwitchStep(p)
    PROVE  StoreOK' /\ ProcsOK'
<1>0. mem[p] \in Config /\ job[p] \in Job /\ cache \in Nat /\ keys \in Nat
  BY DEF ProcsOK, StoreOK
<1>1. ASSUME NEW t \in Modes, Switch(p, t)
      PROVE  StoreOK' /\ ProcsOK'
  <2>0. t \in Mode
    BY StoreAssumption DEF Mode
  <2>1. CASE t = "vault"
    <3>1. /\ keys' = keys + 1 /\ cache' = 0
          /\ Begin(p, mem[p], t, 0, keys + 1)
          /\ disk' = disk /\ ring' = ring /\ minted' = minted /\ edits' = edits
      BY <1>1, <2>1 DEF Switch
    <3>2. keys + 1 \in Nat
      BY <1>0
    <3>3. ProcsOK'
      BY <1>0, <2>0, <3>1, <3>2, BeginTyped
    <3> QED BY <3>1, <3>2, <3>3 DEF StoreOK
  <2>2. CASE t # "vault" /\ mem[p].mode = "vault"
    <3>1. PICK u \in Unlock(mem[p], IF p \in Tui THEN cache ELSE 0) :
             /\ cache' = IF p \in Tui THEN 0 ELSE u.cache
             /\ Begin(p, mem[p], t, u.key, 0)
      BY <1>1, <2>2 DEF Switch
    <3>2. u.key \in Nat /\ u.cache \in Nat
      BY <1>0, UnlockTyped
    <3>3. ProcsOK'
      BY <1>0, <2>0, <3>1, <3>2, BeginTyped
    <3>4. keys' = keys /\ disk' = disk /\ ring' = ring /\ minted' = minted /\ edits' = edits
      BY <1>1, <2>2 DEF Switch
    <3> QED BY <3>1, <3>2, <3>3, <3>4 DEF StoreOK
  <2>3. CASE t # "vault" /\ mem[p].mode # "vault"
    <3>1. /\ keys' = keys /\ cache' = 0
          /\ Begin(p, mem[p], t, 0, 0)
          /\ disk' = disk /\ ring' = ring /\ minted' = minted /\ edits' = edits
      BY <1>1, <2>3 DEF Switch
    <3>2. ProcsOK'
      BY <1>0, <2>0, <3>1, BeginTyped
    <3> QED BY <3>1, <3>2 DEF StoreOK
  <2> QED BY <2>1, <2>2, <2>3
<1>2. CASE Rekey(p)
  <2> DEFINE c == [mode |-> "undecided", vaultKey |-> 0,
                   body |-> [o \in Owners |-> DecryptedBody(mem[p].body[o])]]
  <2>1. c \in Config
    BY <1>0, RekeyedTyped
  <2>2. PICK u \in Unlock(mem[p], 0) : cache' = u.cache /\ Begin(p, c, "vault", 0, keys + 1)
    BY <1>2 DEF Rekey
  <2>3. u.cache \in Nat
    BY <1>0, UnlockTyped
  <2>4. "vault" \in Mode /\ keys + 1 \in Nat
    BY <1>0 DEF Mode
  <2> HIDE DEF c
  <2>5. ProcsOK'
    BY <2>1, <2>2, <2>4, BeginTyped
  <2>6. /\ keys' = keys + 1
        /\ disk' = disk /\ ring' = ring /\ minted' = minted /\ edits' = edits
    BY <1>2 DEF Rekey
  <2> QED BY <2>2, <2>3, <2>4, <2>5, <2>6 DEF StoreOK
<1>3. ASSUME NEW o \in Owners, Migrate(p, o)
      PROVE  StoreOK' /\ ProcsOK'
  <2> DEFINE b == mem[p].body[o]
             moved == MovedBody(b, ring[o], job[p].target, job[p].new)
  <2>0. b \in Body /\ ring[o] \in Row /\ job[p].target \in Mode /\ job[p].new \in Nat
    BY <1>0 DEF Config, Job, StoreOK
  <2>1. moved \in Body
    BY <2>0, MovedBodyTyped
  <2>2. PICK row \in Kept(ring[o], MovedRow(b, ring[o], job[p].target)) :
          ring' = [ring EXCEPT ![o] = row]
    BY <1>3 DEF Migrate
  <2>3. row \in Row
    BY <2>0, RowsTyped, KeptTyped
  <2>4. /\ mem' = [mem EXCEPT ![p].body[o] = moved]
        /\ job' = [job EXCEPT ![p].todo = @ \ {o}]
        /\ pc' = pc /\ pc[p] = "migrating"
        /\ disk' = disk /\ cache' = cache /\ keys' = keys /\ minted' = minted /\ edits' = edits
    BY <1>3 DEF Migrate
  <2> HIDE DEF moved, b
  <2>5. StoreOK'
    BY <2>2, <2>3, <2>4 DEF StoreOK
  <2>6. mem' \in [Procs -> Config]
    BY <2>1, <2>4 DEF ProcsOK, Config
  <2>7. job' \in [Procs -> Job]
    BY <2>4 DEF ProcsOK, Job
  <2> QED BY <2>4, <2>5, <2>6, <2>7 DEF ProcsOK
<1>4. ASSUME NEW o \in Owners, MigrateFails(p, o)
      PROVE  StoreOK' /\ ProcsOK'
  <2>0. mem[p].body[o] \in Body /\ ring[o] \in Row
    BY <1>0 DEF Config, StoreOK
  <2>1. PICK f \in Failures(mem[p].body[o], ring[o], job[p]) :
          /\ ring' = [ring EXCEPT ![o] = f.row]
          /\ Done(p, [mem[p] EXCEPT !.body[o] = f.body])
    BY <1>4 DEF MigrateFails
  <2>2. f.body \in Body /\ f.row \in Row
    BY <1>0, <2>0, FailuresTyped
  <2>3. [mem[p] EXCEPT !.body[o] = f.body] \in Config
    BY <1>0, <2>2 DEF Config
  <2>4. ProcsOK'
    BY <2>1, <2>3, DoneTyped
  <2>5. disk' = disk /\ cache' = cache /\ keys' = keys /\ minted' = minted /\ edits' = edits
    BY <1>4 DEF MigrateFails
  <2> QED BY <2>1, <2>2, <2>4, <2>5 DEF StoreOK
<1>5. CASE Flip(p)
  <2>1. StoreOK'
    BY <1>5 DEF Flip, StoreOK
  <2>2. mem' = [mem EXCEPT ![p].mode = job[p].target, ![p].vaultKey = job[p].new]
        /\ pc' = [pc EXCEPT ![p] = "saving"] /\ job' = job
    BY <1>5 DEF Flip
  <2>3. job[p].target \in Mode /\ job[p].new \in Nat
    BY <1>0 DEF Job
  <2>4. mem' \in [Procs -> Config]
    BY <2>2, <2>3 DEF ProcsOK, Config
  <2>5. ProcsOK'
    BY <2>2, <2>4 DEF ProcsOK, PcValue
  <2> QED BY <2>1, <2>5
<1> QED BY <1>1, <1>2, <1>3, <1>4, <1>5 DEF SwitchStep

\* Put stages one body for one owner, whatever body it is given.
LEMMA PutTyped ==
    ASSUME StoreOK, ProcsOK, NEW p \in Procs, NEW o \in Owners,
           NEW b \in Body, NEW want \in Row, Put(p, o, b, want)
    PROVE  StoreOK' /\ ProcsOK'
<1>0. mem[p].mode \in Mode /\ ring[o] \in Row
  BY DEF ProcsOK, StoreOK, Config
<1>1. PICK u \in SealKey(p, b) :
        /\ cache' = u.cache
        /\ Stage(p, At(o, IF HasPlain(b) THEN SealedBody(b, mem[p].mode, u.key) ELSE b),
                 At(o, want), "saving")
  BY DEF Put
<1>2. u.key \in Nat /\ u.cache \in Nat
  BY SealKeyTyped
<1> DEFINE new == IF HasPlain(b) THEN SealedBody(b, mem[p].mode, u.key) ELSE b
<1>3. new \in Body
  BY <1>0, <1>2, SealedBodyTyped
<1> HIDE DEF new
<1>4. At(o, new) \in [{o} -> Body] /\ At(o, want) \in Asks /\ {o} \in SUBSET Owners
  BY <1>3, AtTyped
<1>5. Stage(p, At(o, new), At(o, want), "saving")
  BY <1>1 DEF new
<1>6. /\ ProcsOK'
      /\ disk' \in Config /\ keys' \in Nat /\ minted' \subseteq Owners /\ edits' \in Nat
  BY <1>4, <1>5, StageTyped
<1>7. ring' = [ring EXCEPT ![o] = SealedRow(b, ring[o], mem[p].mode)]
  BY DEF Put
<1>8. ring' \in [Owners -> Row]
  BY <1>0, <1>7, RowsTyped DEF StoreOK
<1> QED BY <1>1, <1>2, <1>6, <1>8 DEF StoreOK

\* What the user typed.
LEMMA TypedTyped ==
    ASSUME NEW t \in Typed
    PROVE  t.kind \in Kind /\ t.texts \in Row /\ TypedBody(t.kind, t.texts) \in Body
<1>1. t.kind \in Kind /\ t.texts \in Row
  BY StoreAssumption DEF Kind
<1> QED BY <1>1, TypedBodyTyped

\* A removal asks for nothing to be held.
LEMMA NoTextsAsked == \A o \in Owners : At(o, NoTexts) \in Asks
BY NoTextsTyped, AtTyped

\* The steps of the edits keep the types.
LEMMA EditTyped ==
    ASSUME StoreOK, ProcsOK, NEW p \in Procs, EditStep(p)
    PROVE  StoreOK' /\ ProcsOK'
<1>0. /\ mem[p] \in Config
      /\ \A o \in Owners : mem[p].body[o] \in Body /\ ring[o] \in Row
  BY DEF ProcsOK, StoreOK, Config
<1>1. ASSUME NEW o \in Owners, CliPatch(p, o)
      PROVE  StoreOK' /\ ProcsOK'
  <2>1. PICK x \in Patches(p, o) : Stage(p, At(o, x.body), At(o, x.want), "saving")
    BY <1>1 DEF CliPatch
  <2>2. x.body \in Body /\ x.want \in Row
    BY PatchesTyped
  <2>3. At(o, x.body) \in [{o} -> Body] /\ At(o, x.want) \in Asks /\ {o} \in SUBSET Owners
    BY <2>2, AtTyped
  <2>4. /\ ProcsOK'
        /\ disk' \in Config /\ keys' \in Nat /\ minted' \subseteq Owners /\ edits' \in Nat
    BY <2>1, <2>3, StageTyped
  <2>5. ring' = ring /\ cache' = cache
    BY <1>1 DEF CliPatch
  <2> QED BY <2>4, <2>5 DEF StoreOK
<1>2. ASSUME NEW o \in Owners, TuiSave(p, o)
      PROVE  StoreOK' /\ ProcsOK'
  BY <1>2, FormsTyped, PutTyped DEF TuiSave
<1>3. ASSUME NEW o \in Owners, Remove(p, o)
      PROVE  StoreOK' /\ ProcsOK'
  <2>1. /\ Stage(p, At(o, Absent), At(o, NoTexts), "saving")
        /\ cache' = cache
    BY <1>3 DEF Remove
  <2>2. PICK row \in Kept(ring[o], ForgottenRow(mem[p].body[o], ring[o])) :
          ring' = [ring EXCEPT ![o] = row]
    BY <1>3 DEF Remove
  <2>3. row \in Row
    <3>1. ForgottenRow(mem[p].body[o], ring[o]) \in Row
      BY <1>0, RowsTyped DEF Mode
    <3> QED BY <1>0, <3>1, KeptTyped
  <2>4. At(o, Absent) \in [{o} -> Body] /\ {o} \in SUBSET Owners /\ At(o, NoTexts) \in Asks
    BY AbsentTyped, AtTyped, NoTextsAsked
  <2>5. /\ ProcsOK'
        /\ disk' \in Config /\ keys' \in Nat /\ minted' \subseteq Owners /\ edits' \in Nat
    BY <2>1, <2>4, StageTyped
  <2> QED BY <2>1, <2>2, <2>3, <2>5 DEF StoreOK
<1>4. ASSUME NEW o \in Owners, NEW t \in Typed, CliPut(p, o, t)
      PROVE  StoreOK' /\ ProcsOK'
  BY <1>4, TypedTyped, PutTyped DEF CliPut
<1>5. ASSUME NEW o \in Owners, NEW t \in Typed, PutFails(p, o, t)
      PROVE  StoreOK' /\ ProcsOK'
  <2>1. /\ Stage(p, At(o, mem[p].body[o]), At(o, t.texts), "failing")
        /\ ring' = [ring EXCEPT ![o]["priv"] = t.texts["priv"]]
        /\ cache' = cache
    BY <1>5 DEF PutFails
  <2>2. /\ At(o, mem[p].body[o]) \in [{o} -> Body] /\ {o} \in SUBSET Owners
        /\ At(o, t.texts) \in Asks
    BY <1>0, TypedTyped, AtTyped
  <2>3. /\ ProcsOK'
        /\ disk' \in Config /\ keys' \in Nat /\ minted' \subseteq Owners /\ edits' \in Nat
    BY <2>1, <2>2, StageTyped
  <2>4. t.texts["priv"] \in Vals \cup {Nil}
    BY TypedTyped DEF Row, Slot
  <2>5. ring' \in [Owners -> Row]
    BY <2>1, <2>4 DEF StoreOK, Row
  <2> QED BY <2>1, <2>3, <2>5 DEF StoreOK
<1>6. ASSUME NEW src \in Hosts, NEW dst \in Hosts, Copy(p, src, dst)
      PROVE  StoreOK' /\ ProcsOK'
  <2>0. src \in Owners /\ dst \in Owners
    BY DEF Owners
  <2>1. /\ Stage(p, At(dst, mem[p].body[src]), At(dst, Held(mem[p], src)), "saving")
        /\ cache' = cache
    BY <1>6 DEF Copy
  <2>2. Held(mem[p], src) \in Row
    BY <1>0, <2>0, HeldTyped DEF StoreOK
  <2>3. /\ At(dst, mem[p].body[src]) \in [{dst} -> Body] /\ {dst} \in SUBSET Owners
        /\ At(dst, Held(mem[p], src)) \in Asks
    BY <1>0, <2>0, <2>2, AtTyped
  <2>4. /\ ProcsOK'
        /\ disk' \in Config /\ keys' \in Nat /\ minted' \subseteq Owners /\ edits' \in Nat
    BY <2>0, <2>1, <2>3, StageTyped
  <2> DEFINE copied == CopiedRow(mem[p].body[src], ring[src], ring[dst])
  <2>5. PICK n : ring' = [ring EXCEPT ![dst] = [s \in Slot |-> IF s \in n THEN copied[s]
                                                              ELSE ring[dst][s]]]
    BY <1>6 DEF Copy
  <2>6. copied \in Row
    BY <1>0, <2>0, RowsTyped DEF Mode
  <2> HIDE DEF copied
  <2>7. [s \in Slot |-> IF s \in n THEN copied[s] ELSE ring[dst][s]] \in Row
    BY <1>0, <2>0, <2>6 DEF Row
  <2>8. ring' \in [Owners -> Row]
    BY <2>5, <2>7 DEF StoreOK
  <2> QED BY <2>1, <2>4, <2>8 DEF StoreOK
<1>7. ASSUME NEW old \in Hosts, NEW o \in Hosts, NEW t \in Typed, Overwrite(p, old, o, t)
      PROVE  StoreOK' /\ ProcsOK'
  <2> DEFINE b == TypedBody(t.kind, t.texts)
  <2>0. old \in Owners /\ o \in Owners /\ b \in Body /\ mem[p].mode \in Mode
    BY <1>0, TypedTyped DEF Owners, Config
  <2>1. PICK u \in SealKey(p, b) :
          /\ cache' = u.cache
          /\ Stage(p, [q \in {old, o} |-> IF q = old THEN Absent
                                         ELSE SealedBody(b, mem[p].mode, u.key)],
                   [q \in {old, o} |-> IF q = old THEN NoTexts ELSE t.texts], "saving")
    BY <1>7 DEF Overwrite
  <2>2. PICK row \in Kept(ring[old], ForgottenRow(mem[p].body[old], ring[old])) :
          ring' = [ring EXCEPT ![old] = row, ![o] = SealedRow(b, ring[o], mem[p].mode)]
    BY <1>7 DEF Overwrite
  <2> HIDE DEF b
  <2>3. u.key \in Nat /\ u.cache \in Nat
    BY SealKeyTyped
  <2>4. SealedBody(b, mem[p].mode, u.key) \in Body
    BY <2>0, <2>3, SealedBodyTyped
  <2> DEFINE new == [q \in {old, o} |-> IF q = old THEN Absent
                                        ELSE SealedBody(b, mem[p].mode, u.key)]
             asks == [q \in {old, o} |-> IF q = old THEN NoTexts ELSE t.texts]
  <2>5. new \in [{old, o} -> Body] /\ asks \in [{old, o} -> Row] /\ {old, o} \in SUBSET Owners
    BY <2>0, <2>4, AbsentTyped, NoTextsTyped, TypedTyped
  <2> HIDE DEF new, asks
  <2>6. /\ ProcsOK'
        /\ disk' \in Config /\ keys' \in Nat /\ minted' \subseteq Owners /\ edits' \in Nat
    <3>1. Stage(p, new, asks, "saving")
      BY <2>1 DEF new, asks
    <3>2. asks \in Asks
      BY <2>5, AsksTyped
    <3> QED BY <2>5, <3>1, <3>2, StageTyped
  <2>7. row \in Row
    <3>1. ForgottenRow(mem[p].body[old], ring[old]) \in Row
      BY <1>0, <2>0, RowsTyped
    <3> QED BY <1>0, <2>0, <3>1, KeptTyped
  <2>8. SealedRow(b, ring[o], mem[p].mode) \in Row
    BY <1>0, <2>0, RowsTyped
  <2>9. ring' \in [Owners -> Row]
    BY <2>2, <2>7, <2>8 DEF StoreOK
  <2> QED BY <2>1, <2>3, <2>6, <2>9 DEF StoreOK
<1>8. CASE Touch(p)
  <2>1. Stage(p, [o \in {} |-> Absent], NoAsks, "saving") /\ ring' = ring /\ cache' = cache
    BY <1>8 DEF Touch
  <2>2. [o \in {} |-> Absent] \in [{} -> Body]
    OBVIOUS
  <2>3. /\ ProcsOK'
        /\ disk' \in Config /\ keys' \in Nat /\ minted' \subseteq Owners /\ edits' \in Nat
    BY <2>1, <2>2, AsksTyped, StageTyped
  <2> QED BY <2>1, <2>3 DEF StoreOK
<1> QED BY <1>1, <1>2, <1>3, <1>4, <1>5, <1>6, <1>7, <1>8 DEF EditStep

\* Every step keeps the types.
LEMMA TypedStep == TypeOK /\ [Next]_vars => TypeOK'
<1> SUFFICES ASSUME StoreOK, ProcsOK, [Next]_vars PROVE StoreOK' /\ ProcsOK'
  BY TypeParts DEF TypeOK, StoreOK, ProcsOK, PcValue
<1>1. CASE DropCache
  <2>1. StoreOK'
    BY <1>1 DEF DropCache, StoreOK
  <2>2. ProcsOK'
    BY <1>1 DEF DropCache, ProcsOK
  <2> QED BY <2>1, <2>2
<1>2. CASE UNCHANGED vars
  <2>1. StoreOK'
    BY <1>2 DEF vars, StoreOK
  <2>2. ProcsOK'
    BY <1>2 DEF vars, ProcsOK
  <2> QED BY <2>1, <2>2
<1>3. ASSUME NEW p \in Procs, SwitchStep(p) \/ EditStep(p)
      PROVE  StoreOK' /\ ProcsOK'
  BY <1>3, SwitchTyped, EditTyped
<1>4. ASSUME NEW p \in Procs,
             Start(p) \/ Exit(p) \/ UnlockVault(p) \/ Save(p) \/ SaveFails(p) \/ GiveUp(p)
      PROVE  StoreOK' /\ ProcsOK'
  BY <1>4, ProcessTyped
<1> QED BY <1>1, <1>2, <1>3, <1>4 DEF Next

\* Every reachable state is well typed, and a process at rest has no operation
\* under way: whichever processes run, TUIs or commands, and whatever fails.
THEOREM StoreTyped == Spec => []TypeOK
BY InitTyped, TypedStep, PTL DEF Spec
-------------------------------------------------------------------------------
(* What is saved opens, and is sealed.                                        *)

\* A body fit for a config with this mode and key: it opens, it holds no
\* plaintext if the mode seals, and what text it has is where a switch looks.
BodyFits(b, mode, key) ==
    /\ \A s \in Slot : Form(b, s) = "enc" => mode = "vault" /\ b.sec[s].under = key
    /\ mode \in {"vault", "keyring"} => \A s \in Slot : Form(b, s) # "plain"
    /\ Tidy(b)

\* A config fits if all its bodies do.
Fits(c) == \A o \in Owners : BodyFits(c.body[o], c.mode, c.vaultKey)

\* A copy that is being migrated: what is done fits the target.
HalfFits(c, j) ==
    /\ j.op = "switch"
    /\ \A o \in Owners : /\ Tidy(c.body[o])
                         /\ o \in j.todo \/ BodyFits(c.body[o], j.target, j.new)

\* The invariant of a process: whatever it may save, now or later, fits.
CopyFits(p) ==
    /\ pc[p] \in {"ready", "saving", "failing"} => Fits(mem[p])
    /\ pc[p] = "saving" => Fits(ToSave(p))
    /\ pc[p] = "migrating" => HalfFits(mem[p], job[p])

\* The inductive invariant: the file fits, and all that may be saved over it.
CopiesFit == Fits(disk) /\ \A p \in Procs : CopyFits(p)

\* It implies what the runs check of the copies and of the file.
LEMMA FitsSuffices == CopiesFit => CopiesSound /\ CiphertextOpens /\ SealedAtRest
<1> SUFFICES ASSUME CopiesFit PROVE CopiesSound /\ CiphertextOpens /\ SealedAtRest
  OBVIOUS
<1>1. ASSUME NEW c, Fits(c)
      PROVE  Sound(c)
  BY <1>1 DEF Fits, BodyFits, Sound, Opens
<1>2. ASSUME NEW c, NEW j, HalfFits(c, j)
      PROVE  HalfMoved(c, j)
  BY <1>2 DEF HalfFits, BodyFits, HalfMoved
<1>3. CopiesSound
  BY <1>1, <1>2 DEF CopiesFit, CopyFits, CopiesSound
<1>4. CiphertextOpens
  BY <1>3 DEF CopiesSound, Sound, CiphertextOpens
<1>5. SealedAtRest
  BY DEF CopiesFit, Fits, BodyFits, SealedAtRest
<1> QED BY <1>3, <1>4, <1>5

\* A body without texts fits any config.
LEMMA EmptyFits ==
    ASSUME NEW b, \A s \in Slot : Form(b, s) = "none", Tidy(b), NEW mode, NEW key
    PROVE  BodyFits(b, mode, key)
BY DEF BodyFits

\* So does an owner that is not there.
LEMMA AbsentFits ==
    ASSUME NEW mode, NEW key
    PROVE  BodyFits(Absent, mode, key)
<1>1. \A s \in Slot : ~Carries(Absent, s)
  BY AbsentTyped DEF Carries, Absent, Bare
<1> QED BY <1>1, AbsentTyped, EmptyFits DEF Tidy

\* Tidy in terms of the fields it looks at.
LEMMA TidyFields ==
    ASSUME NEW b \in Body
    PROVE  Tidy(b) <=> /\ b.marked \/ Form(b, "pw") # "none" => b.kind # "absent"
                       /\ \A s \in Slot : s # "pw" /\ Form(b, s) # "none" => b.kind = "inline"
BY DEF Tidy, Carries, Slot

\* So a transform that keeps a body's kind and fills no empty slot keeps it tidy.
LEMMA TidyKept ==
    ASSUME NEW b \in Body, NEW c \in Body, Tidy(b), c.kind = b.kind,
           \A s \in Slot : Form(b, s) = "none" => Form(c, s) = "none",
           c.marked => b.marked \/ Form(b, "pw") # "none"
    PROVE  Tidy(c)
BY TidyFields DEF Slot

\* What a user types is in the slots its kind has.
LEMMA TypedTidy ==
    ASSUME NEW t \in Typed
    PROVE  Tidy(TypedBody(t.kind, t.texts))
<1>1. t.kind \in Kind /\ t.kind # "absent" /\ t.texts \in Row
      /\ (t.kind # "inline" => \A s \in KeySlot : t.texts[s] = Nil)
  BY StoreAssumption DEF Kind
<1>2. \A s \in Slot : s # "pw" => s \in KeySlot
  BY DEF Slot, KeySlot
<1> QED BY <1>1, <1>2, TypedBodyTyped, TidyFields

\* Sealing a tidy body gives one that fits, if the key it was given is the
\* config's and so is that of the ciphertext it had.
LEMMA SealedFits ==
    ASSUME NEW b \in Body, Tidy(b), NEW mode \in Mode, NEW key \in Nat,
           \A s \in Slot : Form(b, s) = "enc" => mode = "vault" /\ b.sec[s].under = key
    PROVE  BodyFits(SealedBody(b, mode, key), mode, key)
<1> DEFINE c == SealedBody(b, mode, key)
<1>1. Tidy(c)
  BY SealedBodyTyped, TidyKept
<1>2. \A s \in Slot : Form(c, s) = "enc" => mode = "vault" /\ c.sec[s].under = key
  BY SealedBodyTyped DEF Form
<1>3. mode \in {"vault", "keyring"} => \A s \in Slot : Form(c, s) # "plain"
  BY SealedBodyTyped
<1> QED BY <1>1, <1>2, <1>3 DEF BodyFits

\* Whatever a tidy body held, a migrated one fits the target.
LEMMA MovedFits ==
    ASSUME NEW b \in Body, Tidy(b), NEW row \in Row, NEW mode \in Mode, NEW key \in Nat
    PROVE  BodyFits(MovedBody(b, row, mode, key), mode, key)
<1> DEFINE c == MovedBody(b, row, mode, key)
<1>1. /\ c \in Body /\ c.kind = b.kind
      /\ \A s \in Slot :
            IF Carries(b, s)
            THEN /\ Form(c, s) = "enc" => mode = "vault" /\ c.sec[s].under = key
                 /\ mode \in {"vault", "keyring"} => Form(c, s) # "plain"
            ELSE c.sec[s] = b.sec[s]
  BY MovedBodyTyped
<1>2. \A s \in Slot : ~Carries(b, s) => Form(b, s) = "none"
  BY DEF Tidy
<1>3. /\ \A s \in Slot : Form(c, s) = "enc" => mode = "vault" /\ c.sec[s].under = key
      /\ mode \in {"vault", "keyring"} => \A s \in Slot : Form(c, s) # "plain"
  BY <1>1, <1>2 DEF Form
<1>4. Tidy(c)
  <2>1. /\ Carries(b, "pw") => b.kind # "absent"
        /\ \A s \in Slot : s # "pw" /\ Carries(b, s) => b.kind = "inline"
        /\ "pw" \in Slot
    BY DEF Tidy, Carries, Slot
  <2>2. c.marked => Carries(b, "pw")
    BY MovedBodyTyped
  <2>3. \A s \in Slot : Form(c, s) # "none" => Carries(b, s)
    BY <1>1, <1>2 DEF Form
  <2> HIDE DEF c
  <2> QED BY <1>1, <2>1, <2>2, <2>3, TidyFields
<1> QED BY <1>3, <1>4 DEF BodyFits

\* A process that does not move keeps its copy as it was.
LEMMA OthersFit ==
    ASSUME CopiesFit, NEW p \in Procs, Fits(disk'), CopyFits(p)',
           \A q \in Procs \ {p} : pc'[q] = pc[q] /\ mem'[q] = mem[q] /\ job'[q] = job[q]
    PROVE  CopiesFit'
<1>1. ASSUME NEW q \in Procs, q # p
      PROVE  CopyFits(q)'
  BY <1>1 DEF CopiesFit, CopyFits, ToSave
<1>2. \A q \in Procs : CopyFits(q)'
  BY <1>1
<1> QED BY <1>2 DEF CopiesFit

\* A command that is over holds nothing to be saved; a TUI what it goes on with.
LEMMA DoneFits ==
    ASSUME ProcsOK, CopiesFit, Fits(disk'),
           NEW p \in Procs, NEW m, Done(p, m), p \in Tui => Fits(m)
    PROVE  CopiesFit'
<1>1. /\ pc' = [pc EXCEPT ![p] = IF p \in Tui THEN "ready" ELSE "idle"]
      /\ mem' = [mem EXCEPT ![p] = IF p \in Tui THEN m ELSE NoConfig]
      /\ job' = [job EXCEPT ![p] = NoJob]
  BY DEF Done
<1>2. /\ pc'[p] = IF p \in Tui THEN "ready" ELSE "idle"
      /\ mem'[p] = IF p \in Tui THEN m ELSE NoConfig
      /\ \A q \in Procs \ {p} : pc'[q] = pc[q] /\ mem'[q] = mem[q] /\ job'[q] = job[q]
  BY <1>1 DEF ProcsOK
<1>3. CopyFits(p)'
  BY <1>2 DEF CopyFits
<1> QED BY <1>2, <1>3, OthersFit

\* When a switch starts nothing has moved, and no one is left off its list.
LEMMA BeginFits ==
    ASSUME ProcsOK, CopiesFit, disk' = disk, NEW p \in Procs, NEW m \in Config,
           NEW t, NEW src, NEW new,
           \A o \in Owners : Tidy(m.body[o]), Begin(p, m, t, src, new)
    PROVE  CopiesFit'
<1> DEFINE j == [NoJob EXCEPT !.op = "switch", !.target = t,
                              !.src = src, !.new = new, !.todo = Present(m)]
<1>1. job' = [job EXCEPT ![p] = j] /\ mem' = [mem EXCEPT ![p] = m]
      /\ pc' = [pc EXCEPT ![p] = "migrating"]
  BY DEF Begin
<1>2. j.op = "switch" /\ j.todo = Present(m)
  BY DEF NoJob
<1> HIDE DEF j
<1>3. /\ pc'[p] = "migrating" /\ mem'[p] = m /\ job'[p] = j
      /\ \A q \in Procs \ {p} : pc'[q] = pc[q] /\ mem'[q] = mem[q] /\ job'[q] = job[q]
  BY <1>1 DEF ProcsOK
<1>4. \A o \in Owners : o \in Present(m) \/ BodyFits(m.body[o], j.target, j.new)
  <2> SUFFICES ASSUME NEW o \in Owners, o \notin Present(m)
               PROVE  BodyFits(m.body[o], j.target, j.new)
    OBVIOUS
  <2>1. \A s \in Slot : Form(m.body[o], s) = "none"
    BY DEF Tidy, Present
  <2> QED BY <2>1, EmptyFits
<1>5. HalfFits(m, j)
  BY <1>2, <1>4 DEF HalfFits
<1>6. CopyFits(p)'
  BY <1>3, <1>5 DEF CopyFits
<1>7. Fits(disk')
  BY DEF CopiesFit
<1> QED BY <1>3, <1>6, <1>7, OthersFit

\* An edit of bodies that fit stages a config that fits.
LEMMA StageFits ==
    ASSUME ProcsOK, CopiesFit, NEW p \in Procs, NEW S \in SUBSET Owners,
           NEW new \in [S -> Body], NEW asks, NEW step \in {"saving", "failing"},
           Stage(p, new, asks, step),
           \A o \in S : BodyFits(new[o], mem[p].mode, mem[p].vaultKey)
    PROVE  CopiesFit'
<1> DEFINE bodies == [o \in Owners |-> IF o \in DOMAIN new THEN new[o] ELSE mem[p].body[o]]
           next == [mem[p] EXCEPT !.body = bodies]
           j == [NoJob EXCEPT !.op = "edit", !.asks = asks, !.next = next]
<1>0. mem[p] \in Config /\ DOMAIN new = S /\ pc[p] = "ready" /\ Fits(mem[p])
  BY DEF ProcsOK, Stage, CopiesFit, CopyFits
<1>1. /\ job' = [job EXCEPT ![p] = j] /\ pc' = [pc EXCEPT ![p] = step]
      /\ mem' = mem /\ disk' = disk
  BY DEF Stage
<1>2. \A o \in Owners : BodyFits(bodies[o], mem[p].mode, mem[p].vaultKey)
  BY <1>0 DEF Fits
<1> HIDE DEF bodies
<1>3. next.body = bodies /\ next.mode = mem[p].mode /\ next.vaultKey = mem[p].vaultKey
  BY <1>0 DEF Config
<1>4. Fits(next)
  BY <1>2, <1>3 DEF Fits
<1> HIDE DEF next
<1>5. j.op = "edit" /\ j.next = next
  BY DEF NoJob
<1> HIDE DEF j
<1>6. /\ pc'[p] = step /\ job'[p] = j
      /\ \A q \in Procs \ {p} : pc'[q] = pc[q] /\ mem'[q] = mem[q] /\ job'[q] = job[q]
  BY <1>1 DEF ProcsOK
<1>7. ToSave(p)' = next
  BY <1>5, <1>6 DEF ToSave
<1>8. CopyFits(p)'
  BY <1>0, <1>1, <1>4, <1>6, <1>7 DEF CopyFits
<1>9. Fits(disk')
  BY <1>1 DEF CopiesFit
<1> QED BY <1>6, <1>8, <1>9, OthersFit

\* A store as the processes find it fits.
LEMMA InitFits == Init => CopiesFit
<1> SUFFICES ASSUME Init PROVE CopiesFit
  OBVIOUS
<1>1. PICK m \in InitModes,
           typed \in [Owners -> Typed \cup {[kind |-> "absent", texts |-> NoTexts]}] :
        LET bodies == [o \in Owners |-> TypedBody(typed[o].kind, typed[o].texts)]
            key == IF m = "vault" THEN 1 ELSE 0
        IN  /\ disk = [mode |-> m, vaultKey |-> key,
                       body |-> [o \in Owners |-> SealedBody(bodies[o], m, key)]]
            /\ pc = [p \in Procs |-> "idle"]
  BY DEF Init
<1> DEFINE bodies == [o \in Owners |-> TypedBody(typed[o].kind, typed[o].texts)]
           key == IF m = "vault" THEN 1 ELSE 0
<1>2. m \in Mode /\ key \in Nat
  BY StoreAssumption
<1>3. ASSUME NEW o \in Owners
      PROVE  /\ bodies[o] \in Body /\ Tidy(bodies[o])
             /\ \A s \in Slot : Form(bodies[o], s) # "enc"
  <2>1. CASE typed[o] \in Typed
    BY <2>1, TypedTyped, TypedTidy, TypedBodyTyped
  <2>2. CASE typed[o] = [kind |-> "absent", texts |-> NoTexts]
    <3> DEFINE b == TypedBody("absent", NoTexts)
    <3>1. bodies[o] = b
      BY <2>2
    <3>2. /\ b \in Body /\ b.kind = "absent" /\ ~b.marked
          /\ \A s \in Slot : Form(b, s) = "none"
      BY NoTextsTyped, TypedBodyTyped DEF Kind, NoTexts
    <3> HIDE DEF b, bodies
    <3>3. Tidy(b)
      BY <3>2, TidyFields DEF Slot
    <3> QED BY <3>1, <3>2, <3>3
  <2> QED BY <2>1, <2>2
<1> HIDE DEF bodies, key
<1>4. \A o \in Owners : BodyFits(SealedBody(bodies[o], m, key), m, key)
  BY <1>2, <1>3, SealedFits
<1>5. /\ disk = [mode |-> m, vaultKey |-> key,
                 body |-> [o \in Owners |-> SealedBody(bodies[o], m, key)]]
      /\ \A p \in Procs : pc[p] = "idle"
  BY <1>1 DEF bodies, key
<1>6. Fits(disk)
  BY <1>4, <1>5 DEF Fits
<1> QED BY <1>5, <1>6 DEF CopiesFit, CopyFits

\* Starting, ending, unlocking and saving keep the copies fit.
LEMMA ProcessFits ==
    ASSUME StoreOK, ProcsOK, CopiesFit, NEW p \in Procs,
           Start(p) \/ Exit(p) \/ UnlockVault(p) \/ Save(p) \/ SaveFails(p) \/ GiveUp(p)
    PROVE  CopiesFit'
<1>0. Fits(disk) /\ CopyFits(p)
  BY DEF CopiesFit
<1>1. CASE Start(p)
  <2>1. /\ pc' = [pc EXCEPT ![p] = "ready"] /\ mem' = [mem EXCEPT ![p] = disk]
        /\ disk' = disk /\ job' = job
    BY <1>1 DEF Start
  <2>2. /\ pc'[p] = "ready" /\ mem'[p] = disk
        /\ \A q \in Procs \ {p} : pc'[q] = pc[q] /\ mem'[q] = mem[q] /\ job'[q] = job[q]
    BY <2>1 DEF ProcsOK
  <2>3. Fits(disk') /\ CopyFits(p)'
    BY <1>0, <2>1, <2>2 DEF CopyFits
  <2> QED BY <2>2, <2>3, OthersFit
<1>2. CASE Exit(p)
  <2>1. /\ pc' = [pc EXCEPT ![p] = "idle"] /\ mem' = [mem EXCEPT ![p] = NoConfig]
        /\ job' = [job EXCEPT ![p] = NoJob] /\ disk' = disk
    BY <1>2 DEF Exit
  <2>2. /\ pc'[p] = "idle"
        /\ \A q \in Procs \ {p} : pc'[q] = pc[q] /\ mem'[q] = mem[q] /\ job'[q] = job[q]
    BY <2>1 DEF ProcsOK
  <2>3. Fits(disk') /\ CopyFits(p)'
    BY <1>0, <2>1, <2>2 DEF CopyFits
  <2> QED BY <2>2, <2>3, OthersFit
<1>3. CASE UnlockVault(p)
  <2>1. Done(p, mem[p]) /\ disk' = disk /\ Fits(mem[p])
    BY <1>0, <1>3 DEF UnlockVault, CopyFits
  <2> QED BY <1>0, <2>1, DoneFits
<1>4. CASE Save(p)
  <2>1. Done(p, ToSave(p)) /\ disk' = ToSave(p) /\ pc[p] = "saving"
    BY <1>4 DEF Save
  <2>2. Fits(ToSave(p))
    BY <1>0, <2>1 DEF CopyFits
  <2> QED BY <2>1, <2>2, DoneFits
<1>5. CASE SaveFails(p) \/ GiveUp(p)
  <2>1. Done(p, mem[p]) /\ disk' = disk /\ Fits(mem[p])
    BY <1>0, <1>5 DEF SaveFails, GiveUp, CopyFits
  <2> QED BY <1>0, <2>1, DoneFits
<1> QED BY <1>1, <1>2, <1>3, <1>4, <1>5

\* No switch of a TUI fails half way.
SwitchesSucceed == \A p \in Tui, o \in Owners : ~MigrateFails(p, o)

\* The steps of a switch or rekey keep the copies fit.
LEMMA SwitchFits ==
    ASSUME StoreOK, ProcsOK, CopiesFit, NEW p \in Procs, SwitchStep(p), SwitchesSucceed
    PROVE  CopiesFit'
<1>0. /\ mem[p] \in Config /\ job[p] \in Job
      /\ \A o \in Owners : mem[p].body[o] \in Body /\ ring[o] \in Row
      /\ Fits(disk) /\ CopyFits(p)
  BY DEF CopiesFit, ProcsOK, StoreOK, Config
<1>1. ASSUME NEW t \in Modes, Switch(p, t)
      PROVE  CopiesFit'
  <2>1. \A o \in Owners : Tidy(mem[p].body[o])
    BY <1>0, <1>1 DEF Switch, CopyFits, Fits, BodyFits
  <2>2. disk' = disk /\ \E src, new : Begin(p, mem[p], t, src, new)
    BY <1>1 DEF Switch
  <2> QED BY <1>0, <2>1, <2>2, BeginFits
<1>2. CASE Rekey(p)
  <2> DEFINE bodies == [o \in Owners |-> DecryptedBody(mem[p].body[o])]
             c == [mode |-> "undecided", vaultKey |-> 0, body |-> bodies]
  <2>1. Fits(mem[p])
    BY <1>0, <1>2 DEF Rekey, CopyFits
  <2>2. \A o \in Owners : Tidy(bodies[o])
    <3> TAKE o \in Owners
    <3>1. /\ mem[p].body[o] \in Body /\ Tidy(mem[p].body[o])
      BY <1>0, <2>1 DEF Fits, BodyFits
    <3>2. Tidy(DecryptedBody(mem[p].body[o]))
      BY <3>1, DecryptedBodyTyped, TidyKept
    <3> QED BY <3>2
  <2>3. c \in Config
    BY <1>0, RekeyedTyped
  <2>4. disk' = disk /\ Begin(p, c, "vault", 0, keys + 1)
    BY <1>2 DEF Rekey
  <2> HIDE DEF bodies
  <2>5. \A o \in Owners : Tidy(c.body[o])
    BY <2>2
  <2> HIDE DEF c
  <2> QED BY <2>3, <2>4, <2>5, BeginFits
<1>3. ASSUME NEW o \in Owners, Migrate(p, o)
      PROVE  CopiesFit'
  <2> DEFINE j == job[p]
             moved == MovedBody(mem[p].body[o], ring[o], j.target, j.new)
             k == [job[p] EXCEPT !.todo = @ \ {o}]
  <2>1. /\ pc[p] = "migrating" /\ pc' = pc /\ disk' = disk
        /\ mem' = [mem EXCEPT ![p].body[o] = moved]
        /\ job' = [job EXCEPT ![p] = k]
    BY <1>3 DEF Migrate
  <2>2. HalfFits(mem[p], j)
    BY <1>0, <2>1 DEF CopyFits
  <2>3. j.target \in Mode /\ j.new \in Nat
    BY <1>0 DEF Job
  <2>4. BodyFits(moved, j.target, j.new)
    BY <1>0, <2>2, <2>3, MovedFits DEF HalfFits
  <2>5. /\ k.op = j.op /\ k.target = j.target /\ k.new = j.new /\ k.todo = j.todo \ {o}
    BY <1>0 DEF Job
  <2> HIDE DEF moved, k
  <2>6. \A q \in Owners : mem'[p].body[q] = IF q = o THEN moved ELSE mem[p].body[q]
    BY <1>0, <2>1 DEF ProcsOK, Config
  <2>7. /\ job'[p] = k
        /\ \A q \in Procs \ {p} : pc'[q] = pc[q] /\ mem'[q] = mem[q] /\ job'[q] = job[q]
    BY <2>1 DEF ProcsOK
  <2>8. HalfFits(mem'[p], k)
    <3> SUFFICES ASSUME NEW q \in Owners
                 PROVE  /\ Tidy(mem'[p].body[q])
                        /\ q \in k.todo \/ BodyFits(mem'[p].body[q], k.target, k.new)
      BY <2>2, <2>5 DEF HalfFits
    <3>1. CASE q = o
      BY <2>4, <2>5, <2>6, <3>1 DEF BodyFits
    <3>2. CASE q # o
      BY <2>2, <2>5, <2>6, <3>2 DEF HalfFits
    <3> QED BY <3>1, <3>2
  <2>9. CopyFits(p)' /\ Fits(disk')
    BY <1>0, <2>1, <2>7, <2>8 DEF CopyFits
  <2> QED BY <2>7, <2>9, OthersFit
<1>4. ASSUME NEW o \in Owners, MigrateFails(p, o)
      PROVE  CopiesFit'
  <2>1. p \notin Tui
    BY <1>4 DEF SwitchesSucceed
  <2> QED BY <1>0, <1>4, <2>1, DoneFits DEF MigrateFails
<1>5. CASE Flip(p)
  <2>1. /\ pc[p] = "migrating" /\ job[p].todo = {}
        /\ mem' = [mem EXCEPT ![p].mode = job[p].target, ![p].vaultKey = job[p].new]
        /\ pc' = [pc EXCEPT ![p] = "saving"] /\ job' = job /\ disk' = disk
    BY <1>5 DEF Flip
  <2>2. HalfFits(mem[p], job[p])
    BY <1>0, <2>1 DEF CopyFits
  <2>3. /\ pc'[p] = "saving" /\ job'[p] = job[p]
        /\ \A q \in Procs \ {p} : pc'[q] = pc[q] /\ mem'[q] = mem[q] /\ job'[q] = job[q]
    BY <2>1 DEF ProcsOK
  <2>4. /\ mem'[p].body = mem[p].body /\ mem'[p].mode = job[p].target
        /\ mem'[p].vaultKey = job[p].new
    <3>1. mem'[p] = [mem[p] EXCEPT !.mode = job[p].target, !.vaultKey = job[p].new]
      BY <2>1 DEF ProcsOK
    <3> QED BY <1>0, <3>1 DEF Config
  <2>5. Fits(mem'[p])
    BY <2>1, <2>2, <2>4 DEF HalfFits, Fits
  <2>6. ToSave(p)' = mem'[p]
    BY <2>2, <2>3 DEF ToSave, HalfFits
  <2>7. CopyFits(p)' /\ Fits(disk')
    BY <1>0, <2>1, <2>3, <2>5, <2>6 DEF CopyFits
  <2> QED BY <2>3, <2>7, OthersFit
<1> QED BY <1>1, <1>2, <1>3, <1>4, <1>5 DEF SwitchStep

\* A body that fits but for its plaintext fits once Put has sealed it.
LEMMA PutFits ==
    ASSUME StoreOK, ProcsOK, CopiesFit, NEW p \in Procs, NEW o \in Owners,
           NEW b \in Body, Tidy(b), NEW want, Put(p, o, b, want),
           \A s \in Slot : Form(b, s) = "enc" =>
              mem[p].mode = "vault" /\ b.sec[s].under = mem[p].vaultKey
    PROVE  CopiesFit'
<1>1. PICK u \in SealKey(p, b) :
        Stage(p, At(o, IF HasPlain(b) THEN SealedBody(b, mem[p].mode, u.key) ELSE b),
              At(o, want), "saving")
  BY DEF Put
<1>2. /\ u.key \in Nat /\ mem[p].mode \in Mode
      /\ HasPlain(b) /\ mem[p].mode = "vault" => u.key = mem[p].vaultKey
  BY SealKeyTyped DEF ProcsOK, Config
<1> DEFINE new == IF HasPlain(b) THEN SealedBody(b, mem[p].mode, u.key) ELSE b
<1>3. new \in Body /\ BodyFits(new, mem[p].mode, mem[p].vaultKey)
  <2>1. CASE HasPlain(b)
    <3>1. \A s \in Slot : Form(b, s) = "enc" =>
             mem[p].mode = "vault" /\ b.sec[s].under = u.key
      BY <1>2, <2>1
    <3>2. BodyFits(SealedBody(b, mem[p].mode, u.key), mem[p].mode, u.key)
      BY <1>2, <3>1, SealedFits
    <3> QED BY <1>2, <2>1, <3>2, SealedBodyTyped DEF BodyFits
  <2>2. CASE ~HasPlain(b)
    BY <2>2 DEF BodyFits, HasPlain
  <2> QED BY <2>1, <2>2
<1> HIDE DEF new
<1>4. At(o, new) \in [{o} -> Body] /\ At(o, new)[o] = new /\ {o} \in SUBSET Owners
  BY <1>3, AtTyped
<1>5. Stage(p, At(o, new), At(o, want), "saving")
  BY <1>1 DEF new
<1> QED BY <1>3, <1>4, <1>5, StageFits

\* The edits keep the copies fit.
LEMMA EditFits ==
    ASSUME StoreOK, ProcsOK, CopiesFit, NEW p \in Procs, EditStep(p)
    PROVE  CopiesFit'
<1>0. /\ mem[p] \in Config
      /\ \A o \in Owners : mem[p].body[o] \in Body
      /\ pc[p] = "ready" => \A o \in Owners :
            BodyFits(mem[p].body[o], mem[p].mode, mem[p].vaultKey)
  BY DEF ProcsOK, Config, CopiesFit, CopyFits, Fits
<1>1. ASSUME NEW o \in Owners, CliPatch(p, o)
      PROVE  CopiesFit'
  <2>1. PICK x \in Patches(p, o) : Stage(p, At(o, x.body), At(o, x.want), "saving")
    BY <1>1 DEF CliPatch
  <2>2. BodyFits(mem[p].body[o], mem[p].mode, mem[p].vaultKey)
    BY <1>0, <2>1 DEF Stage
  <2>3. /\ x.body \in Body
        /\ \A s \in Slot : x.body.sec[s] \in {NoSecret, mem[p].body[o].sec[s]}
        /\ Tidy(x.body)
    BY <2>2, PatchesTyped DEF BodyFits
  <2>4. BodyFits(x.body, mem[p].mode, mem[p].vaultKey)
    BY <2>2, <2>3 DEF BodyFits, Form, NoSecret
  <2>5. At(o, x.body) \in [{o} -> Body] /\ At(o, x.body)[o] = x.body /\ {o} \in SUBSET Owners
    BY <2>3, AtTyped
  <2> QED BY <2>1, <2>4, <2>5, StageFits
<1>2. ASSUME NEW o \in Owners, TuiSave(p, o)
      PROVE  CopiesFit'
  <2>1. PICK x \in Forms(p, o) : Put(p, o, x.body, x.want)
    BY <1>2 DEF TuiSave
  <2>2. BodyFits(mem[p].body[o], mem[p].mode, mem[p].vaultKey)
    BY <1>0, <2>1 DEF Put, Stage
  <2>3. /\ x.body \in Body
        /\ \/ \E t \in Typed : x.body = TypedBody(t.kind, t.texts)
           \/ /\ \A s \in Slot : x.body.sec[s] \in {NoSecret, mem[p].body[o].sec[s]}
              /\ Tidy(x.body)
    BY <2>2, FormsTyped DEF BodyFits
  <2>4. Tidy(x.body)
    BY <2>3, TypedTidy
  <2>5. \A s \in Slot : Form(x.body, s) = "enc" =>
           mem[p].mode = "vault" /\ x.body.sec[s].under = mem[p].vaultKey
    <3>1. CASE \E t \in Typed : x.body = TypedBody(t.kind, t.texts)
      BY <3>1, TypedTyped, TypedBodyTyped
    <3>2. CASE \A s \in Slot : x.body.sec[s] \in {NoSecret, mem[p].body[o].sec[s]}
      BY <2>2, <3>2 DEF BodyFits, Form, NoSecret
    <3> QED BY <2>3, <3>1, <3>2
  <2> QED BY <2>1, <2>3, <2>4, <2>5, PutFits
<1>3. ASSUME NEW o \in Owners, Remove(p, o)
      PROVE  CopiesFit'
  <2>1. Stage(p, At(o, Absent), At(o, NoTexts), "saving")
    BY <1>3 DEF Remove
  <2>2. At(o, Absent) \in [{o} -> Body] /\ At(o, Absent)[o] = Absent /\ {o} \in SUBSET Owners
    BY AbsentTyped, AtTyped
  <2> QED BY <2>1, <2>2, AbsentFits, StageFits
<1>4. ASSUME NEW o \in Owners, NEW t \in Typed, CliPut(p, o, t)
      PROVE  CopiesFit'
  <2> DEFINE b == TypedBody(t.kind, t.texts)
  <2>1. b \in Body /\ Tidy(b) /\ \A s \in Slot : Form(b, s) # "enc"
    BY TypedTyped, TypedTidy, TypedBodyTyped
  <2>2. Put(p, o, b, t.texts)
    BY <1>4 DEF CliPut
  <2> HIDE DEF b
  <2> QED BY <2>1, <2>2, PutFits
<1>5. ASSUME NEW o \in Owners, NEW t \in Typed, PutFails(p, o, t)
      PROVE  CopiesFit'
  <2>1. Stage(p, At(o, mem[p].body[o]), At(o, t.texts), "failing")
    BY <1>5 DEF PutFails
  <2>2. /\ At(o, mem[p].body[o]) \in [{o} -> Body] /\ {o} \in SUBSET Owners
        /\ At(o, mem[p].body[o])[o] = mem[p].body[o]
    BY <1>0, AtTyped
  <2>3. BodyFits(mem[p].body[o], mem[p].mode, mem[p].vaultKey)
    BY <1>0, <2>1 DEF Stage
  <2> QED BY <2>1, <2>2, <2>3, StageFits
<1>6. ASSUME NEW src \in Hosts, NEW dst \in Hosts, Copy(p, src, dst)
      PROVE  CopiesFit'
  <2>1. /\ src \in Owners /\ dst \in Owners
        /\ Stage(p, At(dst, mem[p].body[src]), At(dst, Held(mem[p], src)), "saving")
    BY <1>6 DEF Copy, Owners
  <2>2. BodyFits(mem[p].body[src], mem[p].mode, mem[p].vaultKey)
    BY <1>0, <2>1 DEF Stage
  <2>3. /\ At(dst, mem[p].body[src]) \in [{dst} -> Body]
        /\ At(dst, mem[p].body[src])[dst] = mem[p].body[src] /\ {dst} \in SUBSET Owners
    BY <1>0, <2>1, AtTyped
  <2> QED BY <2>1, <2>2, <2>3, StageFits
<1>7. ASSUME NEW old \in Hosts, NEW o \in Hosts, NEW t \in Typed, Overwrite(p, old, o, t)
      PROVE  CopiesFit'
  <2> DEFINE b == TypedBody(t.kind, t.texts)
  <2>1. PICK u \in SealKey(p, b) :
          Stage(p, [q \in {old, o} |-> IF q = old THEN Absent
                                       ELSE SealedBody(b, mem[p].mode, u.key)],
                [q \in {old, o} |-> IF q = old THEN NoTexts ELSE t.texts], "saving")
    BY <1>7 DEF Overwrite
  <2>2. b \in Body /\ Tidy(b) /\ \A s \in Slot : Form(b, s) # "enc"
    BY TypedTyped, TypedTidy, TypedBodyTyped
  <2> HIDE DEF b
  <2>3. /\ u.key \in Nat /\ mem[p].mode \in Mode
        /\ HasPlain(b) /\ mem[p].mode = "vault" => u.key = mem[p].vaultKey
    BY <1>0, SealKeyTyped DEF Config
  <2> DEFINE c == SealedBody(b, mem[p].mode, u.key)
             new == [q \in {old, o} |-> IF q = old THEN Absent ELSE c]
  <2>4. c \in Body /\ BodyFits(c, mem[p].mode, mem[p].vaultKey)
    <3>1. c \in Body /\ BodyFits(c, mem[p].mode, u.key)
      BY <2>2, <2>3, SealedFits, SealedBodyTyped
    <3>2. CASE HasPlain(b)
      BY <2>3, <3>1, <3>2 DEF BodyFits
    <3>3. CASE ~HasPlain(b)
      <4>1. \A s \in Slot : Form(b, s) = "none"
        BY <2>2, <3>3 DEF HasPlain, Form, Body, Secret
      <4>2. \A s \in Slot : Form(c, s) = "none"
        BY <2>2, <2>3, <4>1, SealedBodyTyped
      <4> QED BY <3>1, <4>2, EmptyFits DEF BodyFits
    <3> QED BY <3>2, <3>3
  <2> HIDE DEF c
  <2>5. /\ new \in [{old, o} -> Body] /\ {old, o} \in SUBSET Owners
        /\ \A q \in {old, o} : new[q] \in {Absent, c}
    BY <2>4, AbsentTyped DEF Owners
  <2>6. \A q \in {old, o} : BodyFits(new[q], mem[p].mode, mem[p].vaultKey)
    BY <2>4, <2>5, AbsentFits
  <2>7. \E asks : Stage(p, new, asks, "saving")
    BY <2>1 DEF c
  <2> HIDE DEF new
  <2> QED BY <2>5, <2>6, <2>7, StageFits
<1>8. CASE Touch(p)
  <2>1. Stage(p, [o \in {} |-> Absent], NoAsks, "saving")
    BY <1>8 DEF Touch
  <2>2. [o \in {} |-> Absent] \in [{} -> Body]
    OBVIOUS
  <2> QED BY <2>1, <2>2, StageFits
<1> QED BY <1>1, <1>2, <1>3, <1>4, <1>5, <1>6, <1>7, <1>8 DEF EditStep

\* Every step but a TUI's failed switch keeps the copies fit.
LEMMA FitStep ==
    TypeOK /\ CopiesFit /\ [Next]_vars /\ [SwitchesSucceed]_vars => CopiesFit'
<1> SUFFICES ASSUME StoreOK, ProcsOK, CopiesFit, [Next]_vars, [SwitchesSucceed]_vars
             PROVE  CopiesFit'
  BY TypeParts
<1>1. ASSUME DropCache \/ UNCHANGED vars
      PROVE  CopiesFit'
  <2>1. disk' = disk /\ pc' = pc /\ mem' = mem /\ job' = job
    BY <1>1 DEF DropCache, vars
  <2> QED BY <2>1 DEF CopiesFit, CopyFits, ToSave
<1>2. ASSUME NEW p \in Procs, SwitchStep(p), SwitchesSucceed
      PROVE  CopiesFit'
  BY <1>2, SwitchFits
<1>3. ASSUME NEW p \in Procs, EditStep(p)
      PROVE  CopiesFit'
  BY <1>3, EditFits
<1>4. ASSUME NEW p \in Procs,
             Start(p) \/ Exit(p) \/ UnlockVault(p) \/ Save(p) \/ SaveFails(p) \/ GiveUp(p)
      PROVE  CopiesFit'
  BY <1>4, ProcessFits
<1> QED BY <1>1, <1>2, <1>3, <1>4 DEF Next

\* TUIs and commands, in any number and order and whatever else fails or dies,
\* keep only copies of the config that are safe to save, as long as no TUI's
\* switch fails half way.
LEMMA StoreFits == Spec /\ [][SwitchesSucceed]_vars => []CopiesFit
<1>1. Init => TypeOK /\ CopiesFit
  BY InitTyped, InitFits
<1>2. (TypeOK /\ CopiesFit) /\ [Next]_vars /\ [SwitchesSucceed]_vars =>
         (TypeOK /\ CopiesFit)'
  BY TypedStep, FitStep
<1> QED BY <1>1, <1>2, PTL DEF Spec

\* So in config.toml every ciphertext opens with the key of the verifier beside it:
\* nothing they do loses a secret to a passphrase that no longer exists.
THEOREM StoreOpens == Spec /\ [][SwitchesSucceed]_vars => []CiphertextOpens
BY StoreFits, FitsSuffices, PTL

\* And in vault and keyring mode nothing in it is in the clear, by whichever way
\* it was typed, copied, kept by a form left blank, or moved.
THEOREM StoreSeals == Spec /\ [][SwitchesSucceed]_vars => []SealedAtRest
BY StoreFits, FitsSuffices, PTL

\* Commands alone need no such condition: the copy of a failed switch dies with
\* its process.
LEMMA CommandsFit == ASSUME Tui = {} PROVE Spec => []CopiesFit
<1>1. [Next]_vars => [SwitchesSucceed]_vars
  BY DEF SwitchesSucceed
<1> QED BY <1>1, StoreFits, PTL DEF Spec

\* Commands keep only copies of the config that are safe to save, for any number
\* of processes, owners and vault keys, whatever fails or dies and in any order.
THEOREM CommandsKeepSound == ASSUME Tui = {} PROVE Spec => []CopiesSound
BY CommandsFit, FitsSuffices, PTL

\* With commands alone every ciphertext in config.toml opens.
THEOREM CommandsOpen == ASSUME Tui = {} PROVE Spec => []CiphertextOpens
BY CommandsFit, FitsSuffices, PTL

\* With commands alone nothing in a sealed config.toml is in the clear.
THEOREM CommandsSeal == ASSUME Tui = {} PROVE Spec => []SealedAtRest
BY CommandsFit, FitsSuffices, PTL
===============================================================================
