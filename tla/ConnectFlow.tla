------------------------------ MODULE ConnectFlow ------------------------------
(***************************************************************************)
(* Connecting with the system's ssh or scp: what a process resolves, the    *)
(* secret files it writes for ssh to read, and who removes them.           *)
(*                                                                         *)
(* A connection's key, certificate and password files are removed by their *)
(* owner when ssh has ended, by the helper that hands the password to ssh, *)
(* by a signal thread from a registry of live files, or by the sweep of    *)
(* old files at the start of any later process.  The main thread is a      *)
(* sequence of steps, so that a signal, a kill or a sweep may come between *)
(* any two; ssh and the askpass helper it forks act while it waits.        *)
(*                                                                         *)
(* A password is known by its owner, a host or a credential.  Processes    *)
(* live once; the registry that makes a config is in Registry.             *)
(***************************************************************************)
EXTENDS Naturals, FiniteSets

CONSTANTS Procs, Tui,  \* connecting processes, and those that are TUIs
          Host, Cred,  \* saved hosts, credentials
          Address,     \* a target that is not saved
          Own,         \* a host's login that is no reference
          None,
          Refused,     \* askpass fails
          Configs,     \* bound: the contents config.toml may start with
          Attempts,    \* bound: per process, the connections it may be asked for
          Edited,      \* bound: the contents it may change to
          MaxEdits,    \* bound: changes to it
          MaxAsks,     \* bound: passwords one ssh asks for
          Mortal       \* bound: processes that may be signalled or killed

Owner == Host \cup Cred
Mode == {"plaintext", "vault", "keyring"}
Config == [mode : Mode, hosts : SUBSET Host, login : [Host -> Cred \cup {Own}],
           secrets : SUBSET Owner, keys : SUBSET Owner, certs : SUBSET Owner]

\* A secret file is known by the process that writes it and its kind.
Kind == {"key", "cert", "pw"}
File == Procs \X Kind

\* A target, --credential, and whether scp is run.
Attempt == [host : Host \cup {Address}, over : Cred \cup {None}, scp : BOOLEAN]

ASSUME ConnectAssumption ==
         /\ Tui \subseteq Procs
         /\ Configs \subseteq Config /\ Edited \subseteq Config
         \* A login has a key or a password.
         /\ \A c \in Configs \cup Edited :
               c.certs \subseteq c.keys /\ c.keys \cap c.secrets = {}
         /\ Attempts \in [Procs -> SUBSET Attempt]
         \* The launcher of a TUI connects to saved hosts as they are.
         /\ \A p \in Tui : \A a \in Attempts[p] :
               a.host # Address /\ a.over = None /\ ~a.scp
         /\ MaxEdits \in Nat
         /\ MaxAsks \in Nat /\ Mortal \subseteq Procs
         /\ {Address, Own, None, Refused} \cap (Host \cup Cred) = {}
         /\ Cardinality({Address, Own, None, Refused}) = 4
         /\ \A kinds \in SUBSET Kind : kinds # None

\* The main thread.
Pc == {"off", "loaded", "key", "cert", "regKey", "regCert", "check", "use", "save",
       "launch", "regPw", "exec", "ssh", "unregPw", "rmPw",
       "dropKey", "dropCert", "rmKey", "rmCert", "done"}

\* What a connection resolved to: how the helper gets the password, the host it
\* is told of, the password's owner, and what else the flow depends on.
Plan == [via : {"none", "config", "keyring", "file"}, host : Host \cup {Address, None},
         secret : Owner \cup {None}, over : BOOLEAN, key : BOOLEAN, cert : BOOLEAN,
         records : BOOLEAN, launch : {"no", "begun", "failed"}]

NoPlan == [via |-> "none", host |-> None, secret |-> None, over |-> FALSE, key |-> FALSE,
           cert |-> FALSE, records |-> FALSE, launch |-> "no"]

VARIABLES
  config,  \* config.toml
  edits,   \* changes to it so far
  cfg,     \* per process: the config it loaded
  pc,      \* per process: where its main thread is
  plan,    \* per process: what it resolved
  status,  \* per process: alive | exited | signalled | killed
  caught,  \* per process: the kinds of registered files its attempt to connect
           \* had when a signal came
  taken,   \* per process: the files the signal thread took from the registry
  disk,    \* the secret files there are
  live,    \* the registries of all processes
  old,     \* files past the staleness threshold, the swept ones included
           \* until their process ends
  read,    \* per process: whether ssh found its key: no | yes | missing
  given,   \* per process: the last answer of its askpass helper
  asks,    \* per process: passwords asked for
  usage,   \* frecency.toml: the processes whose use it counts
  mine,    \* per process: the table it loaded
  unsaved  \* processes that failed to save their use

fileVars == <<disk, live, old>>
sshVars == <<read, given, asks>>
useVars == <<usage, mine, unsaved>>
signalVars == <<status, caught, taken>>
vars == <<config, edits, cfg, pc, plan, signalVars, fileVars, sshVars, useVars>>

Init ==
    /\ config \in Configs
    /\ edits = 0
    /\ cfg = [p \in Procs |-> None]
    /\ pc = [p \in Procs |-> "off"]
    /\ plan = [p \in Procs |-> NoPlan]
    /\ status = [p \in Procs |-> "alive"]
    /\ caught = [p \in Procs |-> None]
    /\ taken = [p \in Procs |-> {}]
    /\ disk = {} /\ live = {} /\ old = {}
    /\ read = [p \in Procs |-> "no"]
    /\ given = [p \in Procs |-> None]
    /\ asks = [p \in Procs |-> 0]
    /\ usage = {}
    /\ mine = [p \in Procs |-> {}]
    /\ unsaved = {}
-------------------------------------------------------------------------------
(* Resolving a target.                                                        *)

\* Who a saved host's secrets belong to: itself, or the credential it refers to.
LoginOf(c, h) == IF c.login[h] = Own THEN h ELSE c.login[h]

\* --credential takes the place of the target's own login.
ResolvedLogin(c, h, over) ==
    IF over # None THEN over ELSE IF h = Address THEN None ELSE LoginOf(c, h)

PasswordOf(c, owner) == IF owner \in c.secrets THEN owner ELSE None

\* Mutant of Via: only the mode of the store is looked at.
ViaMode(c, owner) ==
    CASE c.mode = "plaintext" -> "config" [] c.mode = "vault" -> "file"
      [] c.mode = "keyring" -> "keyring"

\* How the password will reach the helper.
Via(c, owner) ==
    IF owner = None THEN "none"
    ELSE CASE c.mode = "plaintext" -> "config"
           [] c.mode = "vault" -> "file"
           [] c.mode = "keyring" -> "keyring"

\* Mutant of ToldOf: the helper is told of the owner of the password.
ToldOfOwner(h, owner) == IF owner \in Host THEN owner ELSE Address

\* The helper of a plaintext password is told of the host.
ToldOf(h, owner) == h

\* What the helper answers.  It reads the config as it is by now, and finds the
\* password of the host it was told of; a file is gone once read; an entry may
\* still be in the keyring although no body is marked.
Answers(p) ==
    LET d == plan[p]
    IN  CASE d.via = "file" -> {IF <<p, "pw">> \in disk THEN d.secret ELSE Refused}
          [] d.via = "keyring" ->
                IF config.mode = "keyring" /\ d.secret \in config.secrets
                THEN {d.secret} ELSE {d.secret, Refused}
          [] d.via = "config" ->
                {IF /\ d.host \in config.hosts
                    /\ config.mode = "plaintext"
                    /\ LoginOf(config, d.host) \in config.secrets
                 THEN LoginOf(config, d.host) ELSE Refused}
          [] OTHER -> {}
-------------------------------------------------------------------------------
(* The main thread up to the launch.                                          *)

At(p, l) == pc[p] = l /\ status[p] = "alive"
Goto(p, l) == pc' = [pc EXCEPT ![p] = l]
\* Mutant of Swept: the age of a file is not looked at.
SweptAll(D) == D

\* Mutant of Stale: certificates are not recognised.
StaleKeys(f) == f \in old /\ f[2] # "cert"

\* Any process's secret file past the threshold is taken for a leftover.
Stale(f) == f \in old
Swept(D) == {f \in D : Stale(f)}

\* A process sweeps, then loads the config; a TUI loads the usage table too, or
\* goes on with an empty one.
Start(p) ==
    /\ At(p, "off")
    /\ Goto(p, "loaded")
    /\ disk' = disk \ Swept(disk)
    /\ cfg' = [cfg EXCEPT ![p] = config]
    /\ \E table \in IF p \in Tui THEN {usage, {}} ELSE {{}} : mine' = [mine EXCEPT ![p] = table]
    /\ UNCHANGED <<config, edits, plan, signalVars, live, old, sshVars, usage, unsaved>>

\* A target and its login are resolved.  scp records no use.
Resolve(p, a) ==
    LET login == ResolvedLogin(cfg[p], a.host, a.over)
        owner == PasswordOf(cfg[p], login)
    IN  /\ At(p, "loaded")
        /\ a.host \in cfg[p].hosts \cup {Address}
        /\ plan' = [plan EXCEPT ![p] =
              [via |-> Via(cfg[p], owner), host |-> ToldOf(a.host, owner), secret |-> owner,
               over |-> a.over # None,
               key |-> login \in cfg[p].keys, cert |-> login \in cfg[p].certs,
               records |-> a.host # Address /\ ~a.scp, launch |-> "no"]]
        /\ Goto(p, IF plan'[p].key THEN "key" ELSE "check")
        /\ caught' = [caught EXCEPT ![p] = IF @ = None THEN None ELSE {}]
        /\ UNCHANGED <<config, edits, cfg, status, taken, fileVars, sshVars, useVars>>

\* The command ends without a connection, or the TUI is quit.
GiveUp(p) ==
    /\ At(p, "loaded")
    /\ Goto(p, "done")
    /\ UNCHANGED <<config, edits, cfg, plan, signalVars, fileVars, sshVars, useVars>>

\* Where an attempt ends: the launcher goes on, unless it left for ssh.
Over(p) == IF p \in Tui /\ plan[p].launch = "no" THEN "loaded" ELSE "done"

\* The key file goes when its owner does.
Drop(p) == IF plan[p].key THEN "dropKey" ELSE Over(p)

\* A secret file is on disk as a whole.  It is a new one: its name holds the
\* time, so what was taken or grew old under that name was another.
Write(p, k) ==
    /\ disk' = disk \cup {<<p, k>>}
    /\ old' = old \ {<<p, k>>}
    /\ taken' = [taken EXCEPT ![p] = @ \ {<<p, k>>}]

Register(p, k) ==
    /\ live' = live \cup {<<p, k>>}
    /\ UNCHANGED <<disk, old>>

Unregister(p, k) ==
    /\ live' = live \ {<<p, k>>}
    /\ UNCHANGED <<disk, old>>

Remove(p, K) ==
    /\ disk' = disk \ {<<p, k>> : k \in K}
    /\ old' = old \ {<<p, k>> : k \in K}
    /\ UNCHANGED live

WriteKey(p) ==
    /\ At(p, "key")
    /\ Write(p, "key")
    /\ Goto(p, IF plan[p].cert THEN "cert" ELSE "regKey")
    /\ UNCHANGED <<config, edits, cfg, plan, status, caught, live, sshVars, useVars>>

\* The certificate follows; if it cannot be written, the key is taken back.
WriteCert(p) ==
    /\ At(p, "cert")
    /\ \/ Write(p, "cert") /\ Goto(p, "regKey")
       \/ Remove(p, {"key", "cert"}) /\ Goto(p, Over(p)) /\ UNCHANGED taken
    /\ UNCHANGED <<config, edits, cfg, plan, status, caught, live, sshVars, useVars>>

WriteKeyFails(p) ==
    /\ At(p, "key")
    /\ Goto(p, Over(p))
    /\ UNCHANGED <<config, edits, cfg, plan, signalVars, fileVars, sshVars, useVars>>

\* Both are registered once both are there.
RegisterKey(p) ==
    /\ \/ At(p, "regKey") /\ Register(p, "key")
             /\ Goto(p, IF plan[p].cert THEN "regCert" ELSE "check")
       \/ At(p, "regCert") /\ Register(p, "cert") /\ Goto(p, "check")
    /\ UNCHANGED <<config, edits, cfg, plan, signalVars, sshVars, useVars>>

\* The host key is known, accepted, or rejected; another operand of scp may not
\* resolve.  The user may take any time to answer.
CheckPasses(p) ==
    /\ At(p, "check")
    /\ Goto(p, IF ~plan[p].records THEN "launch" ELSE IF p \in Tui THEN "save" ELSE "use")
    /\ UNCHANGED <<config, edits, cfg, plan, signalVars, fileVars, sshVars, useVars>>

CheckFails(p) ==
    /\ At(p, "check")
    /\ Goto(p, Drop(p))
    /\ UNCHANGED <<config, edits, cfg, plan, signalVars, fileVars, sshVars, useVars>>

\* The usage table is loaded; one that cannot be read counts as empty.
LoadUse(p) ==
    /\ At(p, "use")
    /\ Goto(p, "save")
    /\ \E table \in {usage, {}} : mine' = [mine EXCEPT ![p] = table]
    /\ UNCHANGED <<config, edits, cfg, plan, signalVars, fileVars, sshVars, usage, unsaved>>

\* Mutant of SaveUse: the use is counted in memory only.
KeepUse(p) ==
    /\ At(p, "save")
    /\ Goto(p, "launch")
    /\ mine' = [mine EXCEPT ![p] = @ \cup {p}]
    /\ UNCHANGED <<config, edits, cfg, plan, signalVars, fileVars, sshVars, usage, unsaved>>

\* The use is counted and the table saved before ssh starts; a save that fails
\* is let pass.
SaveUse(p) ==
    /\ At(p, "save")
    /\ Goto(p, "launch")
    /\ mine' = [mine EXCEPT ![p] = @ \cup {p}]
    /\ \/ usage' = mine'[p] /\ UNCHANGED unsaved
       \/ unsaved' = unsaved \cup {p} /\ UNCHANGED usage
    /\ UNCHANGED <<config, edits, cfg, plan, signalVars, fileVars, sshVars>>
-------------------------------------------------------------------------------
(* The launch and what follows it.                                            *)

Launched(p, how) == plan' = [plan EXCEPT ![p].launch = how]

Launch(p) ==
    /\ At(p, "launch")
    /\ Launched(p, "begun")
    /\ \/ plan[p].via = "file" /\ Write(p, "pw") /\ Goto(p, "regPw")
       \/ plan[p].via # "file" /\ Goto(p, "exec") /\ UNCHANGED <<disk, old, taken>>
    /\ UNCHANGED <<config, edits, cfg, status, caught, live, sshVars, useVars>>

\* The binary does not find itself, or the password file cannot be written.
LaunchFails(p) ==
    /\ At(p, "launch")
    /\ Launched(p, "begun")
    /\ Goto(p, IF plan[p].key THEN "dropKey" ELSE "done")
    /\ UNCHANGED <<config, edits, cfg, signalVars, fileVars, sshVars, useVars>>

RegisterPw(p) ==
    /\ At(p, "regPw")
    /\ Register(p, "pw")
    /\ Goto(p, "exec")
    /\ UNCHANGED <<config, edits, cfg, plan, signalVars, sshVars, useVars>>

Exec(p) ==
    /\ At(p, "exec")
    /\ Goto(p, "ssh")
    /\ UNCHANGED <<config, edits, cfg, plan, signalVars, fileVars, sshVars, useVars>>

\* ssh cannot be started: the error returns past the removal of the password.
ExecFails(p) ==
    /\ At(p, "exec")
    /\ Launched(p, "failed")
    /\ Goto(p, Drop(p))
    /\ UNCHANGED <<config, edits, cfg, signalVars, fileVars, sshVars, useVars>>

\* Nothing of ssh survives it.
SshGone(p) ==
    /\ read' = [read EXCEPT ![p] = "no"]
    /\ given' = [given EXCEPT ![p] = None]
    /\ asks' = [asks EXCEPT ![p] = 0]

SshEnds(p) ==
    /\ At(p, "ssh")
    /\ Goto(p, IF plan[p].via = "file" THEN "unregPw" ELSE Drop(p))
    /\ SshGone(p)
    /\ UNCHANGED <<config, edits, cfg, plan, signalVars, fileVars, useVars>>

\* A file leaves the registry before it leaves the disk.
RemovePw(p) ==
    /\ \/ At(p, "unregPw") /\ Unregister(p, "pw") /\ Goto(p, "rmPw")
       \/ At(p, "rmPw") /\ Remove(p, {"pw"}) /\ Goto(p, Drop(p))
    /\ UNCHANGED <<config, edits, cfg, plan, signalVars, sshVars, useVars>>

\* Mutant of DropFiles: the certificate is not removed.
DropKeyOnly(p) ==
    /\ \/ At(p, "dropKey") /\ Unregister(p, "key")
             /\ Goto(p, IF plan[p].cert THEN "dropCert" ELSE "rmKey")
       \/ At(p, "dropCert") /\ Unregister(p, "cert") /\ Goto(p, "rmKey")
       \/ At(p, "rmKey") /\ Remove(p, {"key"}) /\ Goto(p, Over(p))
    /\ UNCHANGED <<config, edits, cfg, plan, signalVars, sshVars, useVars>>

DropFiles(p) ==
    /\ \/ At(p, "dropKey") /\ Unregister(p, "key")
             /\ Goto(p, IF plan[p].cert THEN "dropCert" ELSE "rmKey")
       \/ At(p, "dropCert") /\ Unregister(p, "cert") /\ Goto(p, "rmKey")
       \/ At(p, "rmKey") /\ Remove(p, {"key"})
             /\ Goto(p, IF plan[p].cert THEN "rmCert" ELSE Over(p))
       \/ At(p, "rmCert") /\ Remove(p, {"cert"}) /\ Goto(p, Over(p))
    /\ UNCHANGED <<config, edits, cfg, plan, signalVars, sshVars, useVars>>
-------------------------------------------------------------------------------
(* ssh and its askpass helper, while the main thread waits.                   *)

ReadKey(p) ==
    /\ At(p, "ssh")
    /\ plan[p].key /\ read[p] = "no"
    /\ read' = [read EXCEPT ![p] =
          IF {<<p, k>> : k \in {"key"} \cup IF plan[p].cert THEN {"cert"} ELSE {}}
                \subseteq disk THEN "yes" ELSE "missing"]
    /\ UNCHANGED <<config, edits, cfg, pc, plan, signalVars, fileVars, given, asks, useVars>>

\* A password file is deleted by the helper that reads it.
Ask(p) ==
    /\ At(p, "ssh")
    /\ asks[p] < MaxAsks
    /\ asks' = [asks EXCEPT ![p] = @ + 1]
    /\ \E answer \in Answers(p) : given' = [given EXCEPT ![p] = answer]
    /\ disk' = disk \ {f \in {<<p, "pw">>} : plan[p].via = "file"}
    /\ UNCHANGED <<config, edits, cfg, pc, plan, signalVars, live, old, read, useVars>>
-------------------------------------------------------------------------------
(* How a process ends, and what others do meanwhile.                          *)

FilesOf(S, p) == {f \in S : f[1] = p}

\* Whatever way it ends, its memory and its ssh end with it; what became of its
\* launch is remembered for the properties.
End(p, how) ==
    /\ status' = [status EXCEPT ![p] = how]
    /\ pc' = [pc EXCEPT ![p] = "off"]
    /\ cfg' = [cfg EXCEPT ![p] = None]
    /\ plan' = [plan EXCEPT ![p] = [NoPlan EXCEPT !.launch = plan[p].launch]]
    /\ taken' = [taken EXCEPT ![p] = {}]
    /\ live' = live \ FilesOf(live, p)
    /\ old' = old \ FilesOf(old \ disk, p)
    /\ SshGone(p)
    /\ UNCHANGED <<config, edits, caught, disk, useVars>>

Exit(p) ==
    /\ At(p, "done")
    /\ End(p, "exited")

Running(p) == status[p] = "alive" /\ pc[p] # "off"

\* Where all that a connection has written of a kind is in the registry.
KeyHeld == {"check", "use", "save", "launch", "regPw", "exec", "ssh", "unregPw", "rmPw",
            "dropKey"}
PwHeld == {"exec", "ssh", "unregPw"}
HeldKinds(l) == {k \in Kind : l \in IF k = "pw" THEN PwHeld ELSE KeyHeld}

\* SIGINT or SIGTERM: the signal thread empties the registry...
Catch(p) ==
    /\ p \in Mortal /\ Running(p) /\ caught[p] = None
    /\ caught' = [caught EXCEPT ![p] = HeldKinds(pc[p])]
    /\ taken' = [taken EXCEPT ![p] = FilesOf(live, p)]
    /\ live' = live \ FilesOf(live, p)
    /\ UNCHANGED <<config, edits, cfg, pc, plan, status, disk, old, sshVars, useVars>>

\* ...removes what was there one by one...
Wipe(p) ==
    /\ Running(p)
    /\ \E f \in taken[p] :
          /\ taken' = [taken EXCEPT ![p] = @ \ {f}]
          /\ disk' = disk \ {f}
    /\ UNCHANGED <<config, edits, cfg, pc, plan, status, caught, live, old, sshVars, useVars>>

\* ...and exits under the main thread.
SignalExit(p) ==
    /\ Running(p) /\ caught[p] # None /\ taken[p] = {}
    /\ End(p, "signalled")

\* SIGKILL, or a crash.
Kill(p) ==
    /\ p \in Mortal /\ Running(p)
    /\ End(p, "killed")

\* Another process edits hosts, or switches the store.  Bound: a process reads
\* the config when it starts, from any content, and its helper reads it again;
\* an edit in between is the same as one that comes while ssh runs.
Edit ==
    /\ edits < MaxEdits /\ \E p \in Procs : At(p, "ssh")
    /\ edits' = edits + 1
    /\ \E c \in Edited \ {config} : config' = c
    /\ UNCHANGED <<cfg, pc, plan, signalVars, fileVars, sshVars, useVars>>

\* A file passes the threshold.
Age(f) ==
    /\ f \in disk \ old
    /\ old' = old \cup {f}
    /\ UNCHANGED <<config, edits, cfg, pc, plan, signalVars, disk, live, sshVars, useVars>>

\* sshrack is started for anything else.
Sweep ==
    /\ Swept(disk) # {}
    /\ disk' = disk \ Swept(disk)
    /\ UNCHANGED <<config, edits, cfg, pc, plan, signalVars, live, old, sshVars, useVars>>
-------------------------------------------------------------------------------
Main(p) ==
    \/ Start(p) \/ GiveUp(p)
    \/ \E a \in Attempts[p] : Resolve(p, a)
    \/ WriteKey(p) \/ WriteKeyFails(p) \/ WriteCert(p) \/ RegisterKey(p)
    \/ CheckPasses(p) \/ CheckFails(p)
    \/ LoadUse(p) \/ SaveUse(p)
    \/ Launch(p) \/ LaunchFails(p) \/ RegisterPw(p) \/ Exec(p) \/ ExecFails(p)
    \/ SshEnds(p) \/ RemovePw(p) \/ DropFiles(p) \/ Exit(p)

Ssh(p) == ReadKey(p) \/ Ask(p)
Signal(p) == Catch(p) \/ Wipe(p) \/ SignalExit(p) \/ Kill(p)

Next ==
    \/ \E p \in Procs : Main(p) \/ Ssh(p) \/ Signal(p)
    \/ Edit \/ Sweep
    \/ \E f \in File : Age(f)

Spec == Init /\ [][Next]_vars

\* Time passes, and sshrack is started again: nothing else is assumed.
FairSpec == Spec /\ WF_vars(Sweep) /\ \A f \in File : WF_vars(Age(f))
-------------------------------------------------------------------------------
(* Properties.                                                                *)

TypeOK ==
    /\ config \in Configs \cup Edited
    /\ edits \in 0..MaxEdits
    /\ cfg \in [Procs -> Configs \cup Edited \cup {None}]
    /\ pc \in [Procs -> Pc]
    /\ plan \in [Procs -> Plan]
    /\ \A p \in Procs : plan[p].via = "none" <=> plan[p].secret = None
    /\ status \in [Procs -> {"alive", "exited", "signalled", "killed"}]
    /\ caught \in [Procs -> (SUBSET Kind) \cup {None}]
    /\ taken \in [Procs -> SUBSET File]
    /\ \A p \in Procs : taken[p] \subseteq {p} \X Kind
    /\ disk \subseteq File /\ live \subseteq File /\ old \subseteq File
    /\ read \in [Procs -> {"no", "yes", "missing"}]
    /\ given \in [Procs -> Owner \cup {None, Refused}]
    /\ asks \in [Procs -> 0..MaxAsks]
    /\ usage \subseteq Procs /\ unsaved \subseteq Procs
    /\ mine \in [Procs -> SUBSET Procs]

\* A process that exits leaves no secret on disk, except the password of an ssh
\* that could not be started.  One that is signalled while its files are
\* registered leaves none of these, however far the main thread runs on.
NothingLeft ==
    \A p \in Procs :
       /\ status[p] = "exited" =>
             FilesOf(disk, p) \subseteq IF plan[p].launch = "failed" THEN {<<p, "pw">>} ELSE {}
       /\ status[p] = "signalled" => {<<p, k>> : k \in caught[p]} \cap disk = {}

\* ssh finds the key it is pointed at, certificate included, unless the process
\* was caught by a signal or took so long over the host key that another's
\* sweep took the file for a leftover.
KeyThere ==
    \A p \in Procs :
       read[p] = "missing" => caught[p] # None \/ {<<p, "key">>, <<p, "cert">>} \cap old # {}

\* askpass answers with the password the connection resolved to, in every mode
\* and whoever the login belongs to: unless the config changed meanwhile, a
\* password file was read or swept before, or --credential was given.
AnswersResolved ==
    [][\A p \in Procs :
          /\ Ask(p) /\ config = cfg[p]
          /\ plan[p].via = "file" => <<p, "pw">> \in disk
          /\ ~plan[p].over
          => given'[p] = plan[p].secret]_vars

\* While ssh runs, its use is on disk, unless it could not be saved or a process
\* whose table lacks it saved since.
UsageOnDisk ==
    \A p \in Procs :
       pc[p] \in {"launch", "regPw", "exec", "ssh"} /\ plan[p].records
       => p \in usage \cup unsaved \/ \E q \in usage : p \notin mine[q]

\* What a dead process left is removed some time after.
Reclaimed ==
    \A p \in Procs : status[p] # "alive" ~> FilesOf(disk, p) = {}

(* What the documents claim and a run refutes.                                *)

\* With a config that does not change, the helper of a plaintext password
\* answers with the password that was resolved, --credential or not: it is
\* "reuse a credential for this connection only (overlays the resolved auth)".
OverrideHonoured ==
    \A p \in Procs :
       edits = 0 /\ plan[p].via = "config" => given[p] \in {None, plan[p].secret}
===============================================================================
