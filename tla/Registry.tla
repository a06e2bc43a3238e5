------------------------------- MODULE Registry -------------------------------
(***************************************************************************)
(* The names and references of config.toml: hosts, credentials, and the    *)
(* logins by reference between them, under CLI commands and TUIs that each  *)
(* work on a copy of the file.                                             *)
(*                                                                         *)
(* A command loads the file, may wait for an answer, builds the next config *)
(* and saves it; a TUI builds the next config from the one it has in memory *)
(* and loads the file again after each save.  Nothing locks the file, and  *)
(* the later save wins.  The secrets these commands seal, move and forget  *)
(* are in SecretStore; here a login is a reference or the host's own.      *)
(***************************************************************************)
EXTENDS Naturals

CONSTANTS Name,        \* the names hosts and credentials may have
          Procs, Tui,  \* the processes, and those that are TUIs
          None,        \* a host with a login of its own
          MaxId,       \* bound: ids given out
          MaxChanges   \* bound: changes staged

ASSUME RegistryAssumption ==
         /\ Tui \subseteq Procs
         /\ MaxId \in Nat
         /\ MaxChanges \in Nat
         /\ None \notin Nat

\* Ids are numbered as they are given out.
Id == 1..MaxId
Host == [id : Id, name : Name, ref : Id \cup {None}]
Credential == [id : Id, name : Name]

\* Both tables keep insertion order.  A new entry's id is newer than every id
\* of the copy it is added to, so order is the order of ids and the tables are
\* sets.  (host add --force puts its new id in an old place, but no two hosts
\* of a table have a name in common, so there the order says nothing.)
Config == [hosts : SUBSET Host, credentials : SUBSET Credential]

VARIABLES
  file,    \* config.toml
  copy,    \* per process: the config in memory
  next,    \* per process: the config about to be saved
  pc,      \* per process: idle | ready | saving | saved
  lastId,  \* the last id given out
  changes, \* changes staged so far
  parted   \* history: credentials whose removal listed referrers, or by a TUI

vars == <<file, copy, next, pc, lastId, changes, parted>>

NoConfig == [hosts |-> {}, credentials |-> {}]

Init ==
    /\ file = NoConfig
    /\ copy = [p \in Procs |-> NoConfig]
    /\ next = [p \in Procs |-> NoConfig]
    /\ pc = [p \in Procs |-> "idle"]
    /\ lastId = 0
    /\ changes = 0
    /\ parted = {}
-------------------------------------------------------------------------------
(* Looking up.                                                                *)

Named(S, n) == {e \in S : e.name = n}

\* Mutant of First: a lookup by name finds the entry added last.
Last(S, n) == {e \in Named(S, n) : \A x \in Named(S, n) : x.id <= e.id}

\* find_*_by_name: the first entry of that name; the empty set for None.
First(S, n) == {e \in Named(S, n) : \A x \in Named(S, n) : e.id <= x.id}

WithId(S, i) == {e \in S : e.id = i}

\* Mutant of Free: renaming onto another entry's name is let through.
FreeIfNew(S, e, n) == TRUE

\* validate_rename: the new name is the entry's own, or nobody's.
Free(S, e, n) == n = e.name \/ Named(S, n) = {}

\* What --credential <name> and the form's chooser may come to.
Logins(c) == {None} \cup {e.id : e \in UNION {First(c.credentials, n) : n \in Name}}

\* Mutant of Shown: the form opens on the first credential of the table.
ShownFirst(c, h) ==
    IF h.ref = None THEN {None}
    ELSE LET table == c.credentials
         IN  {e.id : e \in {e \in table : \A x \in table : e.id <= x.id}}
             \cup {r \in {None} : table = {}}

\* The login a host's form opens on, and saves when nobody touches it.  The
\* form holds the table's names: a reference that dangles opens on the first,
\* or on a login of its own when the table is empty.
Shown(c, h) ==
    LET table == c.credentials
        named == UNION {First(table, e.name) : e \in WithId(table, h.ref)}
        first == {e \in table : \A x \in table : e.id <= x.id}
    IN  IF h.ref = None \/ table = {} THEN {None}
        ELSE {e.id : e \in IF named # {} THEN named ELSE first}

Referrers(c, i) == {h \in c.hosts : h.ref = i}
-------------------------------------------------------------------------------
(* A process: load, change, save.                                             *)

\* A command or a TUI starts.
Load(p) ==
    /\ pc[p] = "idle"
    /\ pc' = [pc EXCEPT ![p] = "ready"]
    /\ copy' = [copy EXCEPT ![p] = file]
    /\ UNCHANGED <<file, next, lastId, changes, parted>>

\* The command was refused or the prompt declined, or the TUI is quit.
Leave(p) ==
    /\ pc[p] = "ready"
    /\ pc' = [pc EXCEPT ![p] = "idle"]
    /\ copy' = [copy EXCEPT ![p] = NoConfig]
    /\ UNCHANGED <<file, next, lastId, changes, parted>>

Stage(p, c) ==
    /\ pc[p] = "ready"
    /\ pc' = [pc EXCEPT ![p] = "saving"]
    /\ changes < MaxChanges
    /\ changes' = changes + 1
    /\ next' = [next EXCEPT ![p] = c]
    /\ UNCHANGED <<file, copy>>

\* The whole config is written at once, whatever the file held meanwhile.
Save(p) ==
    /\ pc[p] = "saving"
    /\ file' = next[p]
    /\ next' = [next EXCEPT ![p] = NoConfig]
    /\ pc' = [pc EXCEPT ![p] = IF p \in Tui THEN "saved" ELSE "idle"]
    /\ copy' = [copy EXCEPT ![p] = IF p \in Tui THEN copy[p] ELSE NoConfig]
    /\ UNCHANGED <<lastId, changes, parted>>

\* Mutant of SaveFails: the config that could not be written is kept.
SaveFailsKeeps(p) ==
    /\ pc[p] = "saving"
    /\ pc' = [pc EXCEPT ![p] = IF p \in Tui THEN "ready" ELSE "idle"]
    /\ copy' = [copy EXCEPT ![p] = IF p \in Tui THEN copy[p] ELSE NoConfig]
    /\ UNCHANGED <<file, next, lastId, changes, parted>>

\* The write fails: a command ends, a TUI goes on with what it had.
SaveFails(p) ==
    /\ pc[p] = "saving"
    /\ next' = [next EXCEPT ![p] = NoConfig]
    /\ pc' = [pc EXCEPT ![p] = IF p \in Tui THEN "ready" ELSE "idle"]
    /\ copy' = [copy EXCEPT ![p] = IF p \in Tui THEN copy[p] ELSE NoConfig]
    /\ UNCHANGED <<file, lastId, changes, parted>>

\* After a save the TUI reads the file again: by now perhaps another's.
Reload(p) ==
    /\ pc[p] = "saved"
    /\ pc' = [pc EXCEPT ![p] = "ready"]
    /\ copy' = [copy EXCEPT ![p] = file]
    /\ UNCHANGED <<file, next, lastId, changes, parted>>

\* That read may fail: the TUI goes on with the config it changed.
ReloadFails(p) ==
    /\ pc[p] = "saved"
    /\ pc' = [pc EXCEPT ![p] = "ready"]
    /\ UNCHANGED <<file, copy, next, lastId, changes, parted>>
-------------------------------------------------------------------------------
(* Hosts.                                                                     *)

Hosts(p) == copy[p].hosts
Credentials(p) == copy[p].credentials

StageHosts(p, S) == Stage(p, [copy[p] EXCEPT !.hosts = S])
StageCredentials(p, S) == Stage(p, [copy[p] EXCEPT !.credentials = S])

NewId ==
    /\ lastId < MaxId
    /\ lastId' = lastId + 1

\* host add, and the form of a new host.  --force replaces the host of that
\* name, with a new id.
AddHost(p, n, ref, force) ==
    /\ force => p \notin Tui
    /\ force \/ Named(Hosts(p), n) = {}
    /\ NewId
    /\ StageHosts(p, (Hosts(p) \ First(Hosts(p), n))
                     \cup {[id |-> lastId + 1, name |-> n, ref |-> ref]})
    /\ UNCHANGED parted

Edited(S, e, f) == (S \ WithId(S, e.id)) \cup {f}

\* The edited host takes its old one's place; its id stays.
EditHost(p, h, n, ref) ==
    /\ Free(Hosts(p), h, n)
    /\ StageHosts(p, Edited(Hosts(p), h, [h EXCEPT !.name = n, !.ref = ref]))
    /\ UNCHANGED <<lastId, parted>>

\* host edit: without a flag for the login, the login stays.
CliEditHost(p, h, n, ref) ==
    /\ p \notin Tui
    /\ h \in First(Hosts(p), h.name)
    /\ ref \in Logins(copy[p]) \cup {h.ref}
    /\ EditHost(p, h, n, ref)

\* The form of an existing host, its login chosen by the user...
TuiEditHost(p, h, n, ref) ==
    /\ p \in Tui
    /\ ref \in Logins(copy[p])
    /\ EditHost(p, h, n, ref)

\* ...or left as the form showed it.
TuiRenameHost(p, h, n) ==
    /\ p \in Tui
    /\ \E ref \in Shown(copy[p], h) : EditHost(p, h, n, ref)

\* host rm, and the panel's delete, by name.
RemoveHost(p, n) ==
    /\ Named(Hosts(p), n) # {}
    /\ StageHosts(p, Hosts(p) \ Named(Hosts(p), n))
    /\ UNCHANGED <<lastId, parted>>

\* host cp: a host of its own that shares the login.
CopyHost(p, n, dst) ==
    /\ p \notin Tui
    /\ Named(Hosts(p), dst) = {}
    /\ NewId
    /\ \E h \in First(Hosts(p), n) :
          StageHosts(p, Hosts(p) \cup {[id |-> lastId + 1, name |-> dst, ref |-> h.ref]})
    /\ UNCHANGED parted
-------------------------------------------------------------------------------
(* Credentials.                                                               *)

\* cred add, and the form of a new credential.  --force adds one all the same.
AddCredential(p, n, force) ==
    /\ force => p \notin Tui
    /\ force \/ Named(Credentials(p), n) = {}
    /\ NewId
    /\ StageCredentials(p, Credentials(p) \cup {[id |-> lastId + 1, name |-> n]})
    /\ UNCHANGED parted

\* cred edit, and the form of an existing one.
EditCredential(p, n, new) ==
    /\ \E e \in First(Credentials(p), n) :
          /\ Free(Credentials(p), e, new)
          /\ StageCredentials(p, Edited(Credentials(p), e, [e EXCEPT !.name = new]))
    /\ UNCHANGED <<lastId, parted>>

\* cred rm lists the hosts that refer to the first of that name, and removes
\* all of them; the panel removes them without a list.  References stay.
RemoveCredential(p, n) ==
    LET gone == Named(Credentials(p), n)
    IN  /\ gone # {}
        /\ StageCredentials(p, Credentials(p) \ gone)
        /\ parted' = parted \cup
              {e.id : e \in IF p \in Tui THEN gone
                            ELSE {e \in First(Credentials(p), n) :
                                     Referrers(copy[p], e.id) # {}}}
        /\ UNCHANGED lastId
-------------------------------------------------------------------------------
HostStep(p) ==
    \/ \E n \in Name, ref \in Logins(copy[p]), force \in BOOLEAN : AddHost(p, n, ref, force)
    \/ \E h \in Hosts(p), n \in Name, ref \in Id \cup {None} :
          CliEditHost(p, h, n, ref) \/ TuiEditHost(p, h, n, ref)
    \/ \E h \in Hosts(p), n \in Name : TuiRenameHost(p, h, n)
    \/ \E n \in Name : RemoveHost(p, n)
    \/ \E n, dst \in Name : CopyHost(p, n, dst)

CredentialStep(p) ==
    \/ \E n \in Name, force \in BOOLEAN : AddCredential(p, n, force)
    \/ \E n, new \in Name : EditCredential(p, n, new)
    \/ \E n \in Name : RemoveCredential(p, n)

Next ==
    \E p \in Procs :
        \/ Load(p) \/ Leave(p) \/ Save(p) \/ SaveFails(p) \/ Reload(p) \/ ReloadFails(p)
        \/ HostStep(p)
        \/ CredentialStep(p)

Spec == Init /\ [][Next]_vars
-------------------------------------------------------------------------------
(* Properties.                                                                *)

\* Every variable holds what it should; a process at rest has no config.
TypeOK ==
    /\ file \in Config
    /\ copy \in [Procs -> Config]
    /\ next \in [Procs -> Config]
    /\ pc \in [Procs -> {"idle", "ready", "saving", "saved"}]
    /\ lastId \in 0..MaxId
    /\ changes \in 0..MaxChanges
    /\ parted \subseteq Id
    /\ \A p \in Procs : pc[p] # "saving" => next[p] = NoConfig

\* Whatever commands and TUIs race over the file, two of its hosts never have
\* the same name: connect, edit, rm and cp all find a host by name.
DistinctNames(S) == \A x, y \in S : x.name = y.name => x = y
HostNamesDistinct == DistinctNames(file.hosts)

\* The credential a host refers to is the one its name finds.  Forms and rm go
\* from the reference to the name and back, and cred add --force makes names
\* ambiguous; no host ever refers to one of the hidden entries.
RefsFirst(c) == \A h \in c.hosts, e \in c.credentials :
                    h.ref = e.id => e \in First(c.credentials, e.name)
RefFindsItself == RefsFirst(file)

\* A reference that dangles was shown to the user before it did: its credential
\* was removed by a command that listed the hosts it would leave without login,
\* or by a TUI, which lists none.
Announced(c, P) ==
    \A h \in c.hosts : h.ref # None /\ WithId(c.credentials, h.ref) = {} => h.ref \in P
DanglingAnnounced == Announced(file, parted)

\* A host edited in a form without a touch to its login keeps a login that is
\* there, although the form only knows its name.
LoginKept ==
    [][\A p \in Procs : \A h \in Hosts(p), n \in Name :
          /\ TuiRenameHost(p, h, n)
          /\ WithId(Credentials(p), h.ref) # {}
          => \A g \in next'[p].hosts : g.id = h.id => g.ref = h.ref]_vars
===============================================================================
