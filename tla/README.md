# sshrack: models and proofs

sshrack is an SSH connection manager: a core crate (hosts, credentials, secret
storage, `ssh`/`scp`/`sftp` invocations) and a front end with a command line and
a terminal UI.  This directory holds TLA+ models of it, the TLC runs that check
them on small instances, and theorems about them that the TLA+ proof system
checks for every value of the constants.

The models come from the source, not from its documentation; `PROJECT.json`
names, for every definition, the lines it stands for.

## 1. Inventory

| component | state it keeps | operations | talks to | what makes it hard |
|---|---|---|---|---|
| transfer ledger (`tui/transfer/ledger.rs`) | tasks in insertion order, ids, pause flag | enqueue, next_to_dispatch, finish, retry, remove, abort/clear, pause | screen, queue overlay, run loop | called from keys and from events; "the in-flight task" is implicit |
| SFTP worker (`connect/sftp/worker.rs`) | ssh master, control socket, password file, sftp child | host-key check, handshake, list, transfer, cancel, shutdown | run loop by two mpsc channels; ssh, sftp, ssh-keyscan processes | a thread of its own; children that hang or fail; cleanup on every way out |
| transfer screen (`screen.rs`, `pane.rs`, `browser_core.rs`, overlays) | connect state, two panes, modals, overwrite policy | keys, listings applied | ledger, run loop | a directory switch is optimistic and may be overtaken or undone |
| run loop (`run_loop.rs`, `app.rs`) | pending cancel/advance/list flags | drain events, dispatch, refresh, popups, close | everything above | order of the drain's steps against the worker |
| path-aware find (`pathfind.rs`, `search_dispatch.rs`) | search generation, cancel flag, results per pane | launch, cancel, apply event | search threads | stragglers of superseded searches |
| directory listing cache (`pathfind/cache.rs`) | listings with time stamps | get_or_fetch | search threads | TTL, eviction, staleness |
| secret store (`secret/`) | config bodies (plain, sealed, in keyring), OS keyring | seal, migrate, enable, decrypt_all | config file, keyring | three stores changed in turn, only the last step is atomic |
| vault key cache (`vault/cache.rs`) | derived key in a file with a TTL | read, write, clear | unlock | outlives a rekey |
| config file (`config/store.rs`, `fsutil.rs`, `tui/persist.rs`) | hosts, credentials, settings | load, clone-mutate-save | CLI and TUI processes | lost updates, crash during a write |
| host and credential resolution (`host.rs`, `credential.rs`) | none | resolve, references, delete | config | dangling references |
| connect and scp flow (`connect/`, `askpass.rs`, `tempfile_registry.rs`, `sweep.rs`) | temp secret files | materialize, spawn, clean up, sweep | signal handler | crash or signal between two steps |
| host key check (`hostkey.rs`) | known_hosts | is_known, scan, append | worker | user answer in between |
| frecency (`frecency/`) | visit counts | record, rank, load, save | connect flow | two processes |
| command line, panels, wizards, rendering | forms, cursors | keys | the above | sequential |

What makes each correct:

* **ledger, screen, loop and worker together**: one transfer at a time, in queue
  order; each dispatched job is reported once, under its own name; a cancel ends
  the task it was pressed on and no other; the queue does not strand work; files
  the user did not agree to overwrite stay as they were; closing always ends and
  leaves no process or secret behind; a pane shows entries of the directory in
  its title.
* **find**: what a pane shows comes from one search, launched for that pane, and
  answers its query; superseded searches are told to stop; a spinner stops.
* **secret store**: no interleaving, failure or crash loses a secret that was
  stored, or leaves one readable that was to be sealed.
* **config file, hosts and credentials**: hosts that share a file have distinct
  names; a host's credential is the one its name finds; a reference dangles only
  after the user was told.
* **connect flow**: every secret file is removed by exit, signal handler or sweep,
  and none that ssh still needs; askpass answers with the password that was
  resolved.
* **frecency**: a use is counted before ssh starts, and is not lost but by design.

## 2. Plan

What was planned, in the order in which it was done:

1. `SftpChannel`, `TransferLedger`, `SftpWorker`, composed in `SftpSession`; the
   abstract `TransferQueue` and the refinement; every safety property and the
   refinement proved.
2. `SecretBodies`, `SecretStore`, the abstract `SecretMap` and the refinement; every
   property and the refinement proved.
3. `FindSession`: search generations, debounce, cancellation, walker threads and
   the lock of the listing cache; every safety property proved.
4. `Registry`: names and references in the config file under several processes;
   every property proved.  A module of its own for the config file was not
   needed: the save that may fail, and the one that undoes another's, are steps
   of `SecretStore` and `Registry`.
5. `ConnectFlow`: resolution, secret files, their registry, signals, the sweep,
   askpass and the usage table; every safety property proved.

What is left is liveness, which only TLC checks.

## 3. Modules

| module | models | how |
|---|---|---|
| `SftpChannel` | the two channels, `WorkerCmd`, `WorkerEvent` (`proto.rs`) | two sequences of records |
| `TransferLedger` | `ledger.rs` | a function from ids to states; one action per method |
| `SftpWorker` | `worker.rs`, `pure.rs` | `wpc` is the thread's place: host-key check, handshake, probe, idle, and the two halves of the transfer loop; the sftp child is an actor of its own |
| `SftpSession` | `run_loop.rs`, `app.rs`, `screen.rs`, overlays, `browser_core.rs`, `open.rs` | extends the ledger and the worker; `ui` is the loop's place; one action per key and per drained event |
| `TransferQueue` | nothing in the code: what the queue promises | abstract specification |
| `MC_Session` | — | job sets for TLC |
| `SftpSession_proofs`, `SftpCarry_proofs`, `SftpPromises_proofs` | — | theorems: types and one at a time; the channels; files, panes, stalls and the refinement |
| `SecretBodies` | `schema.rs`, the transforms of `vault/transform.rs`, `seal_body`, forgetting and copying entries | pure operators over one owner's body and its row of keyring entries |
| `SecretStore` | `cli/cmd/{store,cred,host}.rs`, `tui/persist.rs`, `vault/mod.rs`, `vault/cache.rs`, `config/store.rs` | file, keyring, key cache, and per process its copy, its place and its job; one action per command step |
| `SecretMap` | nothing in the code: owners hold texts, edits change them | abstract specification |
| `MC_Store` | — | what users enter, for TLC |
| `SecretStore_proofs`, `SecretMap_proofs` | — | theorems: types, and what is saved opens and is sealed; what connections read, and the refinement |
| `FindSession` | `search_dispatch.rs`, the find part of `screen.rs` and `run_loop.rs`, `transfer/search.rs`, `pathfind.rs`, `pathfind/cache.rs` | per pane its query and what it shows, the pending request, the channel of the one search in flight; one walker per search; one action per key, drained event and thread step |
| `FindSession_proofs` | — | theorems |
| `MC_Find` | — | queries for TLC |
| `Registry` | `cli/cmd/{host,cred}.rs`, `host.rs`, `credential.rs`, the panels and forms of the TUI that save, `persist.rs` | the file, and per process its copy and the config it is about to save; one action per change of one entry |
| `MC_Registry` | — | names for TLC |
| `Registry_proofs` | — | theorems |
| `ConnectFlow` | `cli/cmd/{connect,scp}.rs`, `tui/connect.rs`, `connect/{mod,ssh,scp}.rs`, `askpass.rs`, `tempfile_registry.rs`, `signal_cleanup.rs`, `sweep.rs`, `frecency/` | `pc` is the main thread's place in the flow; the secret files, their registry and the config are shared; the signal thread, ssh and its helper, other processes and time are actions of their own |
| `MC_Connect` | — | configs and attempts for TLC |
| `ConnectFlow_proofs` | — | theorems |

Abstractions, and why they lose nothing the properties look at:

* *Ids for the Vec.* Ids only grow and the Vec is never reordered, so Vec order is
  id order.
* *Message tags.* Transfer, Cancel, Progress and Done messages carry a task id `t`
  which the program's do not.  Nothing but properties (and `progress`, a history
  of whose sample is shown) reads it.
* *Files.* A destination is absent, old (there before the session), partial or
  new, one per name and direction.
* *Progress.* A sample's numbers are abstracted, so a sample that follows an
  undrained one of the same task adds nothing; this keeps the channel finite.
* *Keys that only move cursors, edit queries, mark entries or act on the local
  pane* are `Tick`.  Enqueueing is one action for any batch of marked entries.
* *Popups* run inside the loop, so `AdvanceAsk` and `AdvanceAbort` are steps of it.
* *The ssh master dying by itself* shows as failing children and listings, which
  are possible at any time anyway.
* *One session.* `open_transfer` builds everything anew and `close_transfer`
  drops it all, so nothing but the files is carried from one screen to the next.

The secret store:

* *Secrets* are opaque texts; `Enc(v, k)` is a ciphertext only key `k` opens.  A
  key is the number of the `enable` that derived it, since every `enable` draws a
  fresh salt; a config in vault mode carries its key's number, standing for salt
  and verifier.  A wrong passphrase is a command that gives up.
* *Owners* are ids.  An owner is a credential or a host; a host that refers to a
  credential has no secrets of its own and is one of kind "none".  Ids are never
  given out twice (`minted`), names and references are left out.
* *A process* loads (`Start`), then a switch moves one body per `Migrate` step and
  saves, an edit seals and stages a new config in one step and saves in another.
  The steps in between are where other processes run, and where `crash` strikes.
  A CLI command that is over forgets its copy; a TUI goes on with it.  The
  reload after a TUI's save is one step with it.
* *Failures* are a constant set: `keyring` (a read, write or delete fails; deletes
  are best effort), `seal` (encryption fails), `save` (the write fails and the old
  file stays), `crash`.  `Failures` lists what each way to fail leaves of a body
  and its entries.
* *The cache's TTL* is `DropCache`, which may come at any time.

Find:

* *Queries* are of three sorts, by what `search_request` does with them: empty,
  filtering the directory shown, launching a search.  `Edit` says which are one
  key apart; matching and ranking are left out, so any entry may match.
* *A search* is known by its generation.  A launch installs its channel and its
  cancel flag together, so one variable `rx` stands for both.
* *Entering a directory* of a pane in `Remote` leaves it in `switching` until the
  worker answers.  The listing may fail after any number of further keys
  (`SwitchFails`), which clears the query and nothing else of the search.
* *A walker* lists one directory per level of its query through the cache, which
  answers at once or holds its lock for a fetch; expiry and eviction only decide
  between the two.
* `dropped` and `displaced` are histories, read by properties alone.

The registry:

* *Ids* are numbers in the order they are given out, so that insertion order is
  their order and both tables are sets.
* *A process* loads, prepares one change, and saves it; the wait for an answer is
  between the steps.  A TUI goes on with the copy it had.
* *Secrets* are left to `SecretStore`.  A login is a reference or the host's own.

The connect flow:

* *A secret file* is known by its process and kind (key, certificate, password).
  Names hold the time, so what is written anew is another file: `Write` takes it
  off the lists of the old one.
* *Age* is a set of files past the threshold of the sweep, which time may add to.
* *A signal* reaches a thread that takes all registered files, removes them one by
  one and exits, while the main thread runs on.
* *The password* is known by its owner; askpass answers with an owner, or fails.
* *Resolving*, the check of the host key and the launch are steps that may fail;
  operands of scp, argv and the order of config entries are data.
* *An ssh that outlives a killed sshrack* is not followed.

## 4. Runs

The session's runs use `MC_Session`.  Bounds: `MaxTasks` ids per session, `MaxBatch` entries per
enqueue, `MaxCancels` / `MaxLists` the number of unread commands under which the
user still presses cancel / enters a directory.

| run | instance | shows |
|---|---|---|
| `queue` | 2 tasks, batches of 2, one name both ways, an existing local file | `TypeOK`, `SingleInFlight`, `JobCarriedOnce`, `CancelHitsItsTask`, `ProgressIsOwn`, `StallOnlyAfterFailure`, `OkMeansWhole`, `NoClobberWithoutConsent`, and `Implements`: the session refines `TransferQueue` |
| `ends` | 1 task, a file or a tree, password file and inline key | `ClosingEnds`, `CancelEnds`, `ConnectSettles` although the child may run for ever; `TransferEnds` if children end; `FilesSpanSession`: nothing of the session survives it, and the key file outlives the master |
| `browse` | 3 directories, 2 outstanding listings, no transfer | `StaleListingNotShown`, `PaneSettles` |
| `skip` | 2 tasks | `UploadsNeverSkipped` is violated: see section 6 |

Two tasks suffice for every confusion between a task and its predecessor or
successor, since only one is ever in flight; retries let the same two tasks
pass through the queue any number of times.  Two outstanding listings give the
overlap of a navigation with the one before it, three directories a target
different from both.  One unread cancel is enough for `queue`: a second is read
when the task of the first is over, as one that came late is.  One name in both directions makes a download meet its own
earlier partial and a file that was there before.

The `store_` runs use `MC_Store`; `MaxKeys` bounds the vault keys derived and
`MaxEdits` the edits staged.

| run | instance | shows |
|---|---|---|
| `store_races` | a TUI beside a command, one credential and one host with inline keys, from vault mode through every mode, saves that fail, 2 keys, 1 edit | `CopiesSound`: no copy of the config is unsafe to save, on which `CiphertextOpens` rests: what is on disk opens with the key the same file describes; `SealedAtRest`: nothing in the clear in vault and keyring mode |
| `store_commits` | one command at a time, every failure, three owners, passwords and keys with and without certificates of two texts; the keyring is entered and never left | `TypeOK`; `Implements`: the store refines `SecretMap`; `SwitchKeeps`: a migration changes no text |
| `store_edits` | a command or a TUI at a time (`InTurn`), every form, blank password fields included, two edits, every mode, crashes and failed saves | `EditDelivers`: the next connection reads what the edit asked for |
| `store_leave` | one process | `MarkersBacked` is violated: see section 6 |

Two cases in which the code loses or invents a text do occur in these instances.
`SwitchKeeps` and `EditDelivers` except exactly these: `TakenOver`, under a keyring marker a
key that was entered without a certificate reads the one an earlier key left;
`Bereft`, a switch gives an unmarked key without a certificate what is in its
owner's entry, and `SwitchKeeps` says that it is this text, not just any;
`LeftBlank`, a credential whose password was in the keyring and that the TUI saves
with a blank field has none.  Section 6 names the comments they contradict.

One credential and one host give a migration a first and a second body, which is
where failing half way differs from failing or succeeding; `store_commits` adds a
second host for copies and overwrites.  (That a copy delivers is `CommandsDeliver`,
section 5: `store_edits` has one host.)  Two keys are a rekey
and a key before it; one edit beside any number of switches meets every mode and
every point of another process's switch.  What the runs leave
out is left out because it is false: in `store_commits`, leaving the keyring with a
failure (`store_leave`); in `store_races`, a TUI whose switch fails half way
(section 6), which `store_edits` has and `CopiesSound` does not survive.
No run looks at lost updates: two commands that overlap keep the
config of the one that saves last, and nothing in the code is meant to prevent it.

| run | instance | shows |
|---|---|---|
| `find` | two panes, one of them remote, two searches, queries that filter, list one directory and drill into another | `TypeOK`; `ResultsOfOneSearch`, `SpinsForAReason`, `SettledAnswersQuery`, `OneSearchRuns`; `SpinnerStops` under fairness |
| `names` | a TUI beside commands, 2 names, 3 ids, 5 changes, names interchangeable | `TypeOK`; `HostNamesDistinct`, `RefFindsItself`, `DanglingAnnounced`, `LoginKept` |
| `connect` | a TUI and a command that also runs scp, every mode of the store, logins with a password, a key, a key and certificate, own and by reference | `TypeOK`; `NothingLeft`, `KeyThere`, `AnswersResolved`, `UsageOnDisk`; `Reclaimed` under fairness |
| `override` | one command | `OverrideHonoured` is violated: see section 6 |

Two searches are one and the one that supersedes it, in the same pane or the
other.  Three ids are a host, the credential it refers to and another of its
name; five changes build that and remove it again by another process.  In
`connect` the TUI may be signalled or killed at any step while the command sweeps,
loads the table or connects.  A process reads the config when it starts, from any
of the initial contents, and its helper reads it again, so one edit that comes
while an ssh runs (`Edited`, `MaxEdits`) is every edit that can matter; a second
question of ssh (`MaxAsks`) only repeats the first with the password file gone.

Deadlock is checked but in the two runs of `ConnectFlow`, whose processes live once.

### Fairness

`FairSpec` assumes of the code: the run loop ticks every 50 ms with or without a
key (WF of `Loop`); the worker thread is scheduled and its own timeouts expire (WF
of `Worker`); and a drain does end (SF of `DrainEnds`): the worker samples once per
200 ms poll while the loop pops the channel without pause.  Keys, and what the
sftp child does, are never fair.  `TransferEnds` alone has a premise,
`ChildrenEnd`: a child left alone ends.  Of the ssh master nothing is assumed: what
is fair of the worker (`Unprompted`) is that it goes on polling a master that
neither comes up nor exits, and the deadline has a fairness of its own, because
the clock runs; a master that hangs is thus a behaviour, and `ConnectSettles`
fails of it if the deadline ends nothing (its mutant).  Listings, the `ssh -O
check` inside a poll, the key scan and the home probe are single steps, that is,
they are taken to return.

In `FindSession`, the debounce window passes, the loop drains and launches, and a
search thread that can move does: a directory listing returns or fails.  Keys are
never fair, and `SpinnerStops` says what holds once they pause.  In `ConnectFlow`
nothing is assumed of any process: `Reclaimed` needs only that files grow old
(WF of `Age`) and that sshrack is started again (WF of `Sweep`).

## 5. Proofs

`SftpSession_proofs` holds, for any jobs, names, directories and bounds that meet
the `ASSUME`s of the modules:

* `TypeCorrect`: `Spec => []TypeOK`.  `TypeOK` alone is not inductive: `Finish`
  emits `Done(task, ..)`, which is a well-typed event only if a transfer is
  running while the worker is in its transfer loop.  `TypeInv` adds `BusyHasTask`.
* `OneAtATime`: `Spec => []SingleInFlight`.  `SingleInFlight` is not inductive
  either: a dispatch breaks it if the loop wants to advance while a task is in
  flight.  `FlightInv` adds `DispatchSafe`: whenever the loop is about to advance,
  nothing is in flight.  Every action that raises `pendingAdvance` or
  `doneAdvance` keeps it: a key raises the first only on a ledger with nothing in
  flight, `Done` raises the second after taking the only task out of flight, and
  a dispatch lowers both.

Each proof has one step per action; typing is split into channels, ledger, worker
and screen, because each action disturbs only some of them.

`SftpCarry_proofs` is about the two channels.  A task in flight is known to both
threads and neither sees the other's state, so who carries it is a matter of what
is under way:

* `CarriedOnce`, `CancelsHit` and `ProgressOwned` (`JobCarriedOnce`,
  `CancelHitsItsTask`, `ProgressIsOwn`) follow from `SessionInv`.  None of them is
  inductive: that a Done ends the right task, say, depends on no other task having
  started since it was sent.  `SessionInv` adds what the queues may hold.
  `CmdsInv`: at most one Transfer, of the task in flight, only while nothing runs
  and no Done waits; behind it, or while one runs, only cancels of that very task.
  `EvtsInv`: progress only of the task in flight; at most one Done, with nothing of
  a task behind it.  `PressedInv`: a cancel is sent in the turn it was pressed in.
  `ServedInv`: nothing is queued before the worker serves, so its handshake cannot
  swallow a Transfer.  `CarriedInv`: nothing in flight is forgotten.  The forty
  actions are reduced by `StepForms` to eleven forms (`Chat`, `Relist`, `Hear`,
  `Depart`, `Work`, `Begin`, ...), and each part of the invariant has one step per
  form.

`SftpPromises_proofs` builds on it:

* `OldFilesSpared`: `Spec => NoClobberWithoutConsent`, by `ConsentInv`: a job passes
  from the ledger to a command to the worker with its policy, and one that says
  `Overwrite` was found not to exist when it was dispatched; files that were there
  before the session only ever get fewer (`OldShrinks`), so that stays true.
* `OkIsWhole`: `Spec => []OkMeansWhole`, by `WholeInv`: a child that has ended well
  has written its file, `ReapOk` looks at nothing else, and while its Done waits no
  child runs that could touch the file again.
* `FilesSpan`, by `LeftInv`; `StaleListingsDropped`, by the steps alone;
  `StallsOnlyAfterFailure`, by `StallInv`: a queue that waits is about to be advanced
  in this very turn of the loop, or its last transfer failed.

It also holds the refinement, `SessionImplementsQueue`: `Spec =>
Implements`.  A task in flight has the status its Done says, if one waits.
`StatusIs` turns that CHOOSE into a fact about the one Done that `SessionInv`
allows; each form then maps to a step of `TransferQueue`: Begin, Work, Hear and
DrainDone change no status, Refuse and End settle, Depart starts, Relist submits,
resubmits, withdraws or abandons.

`SecretStore_proofs` holds for any owners, processes, texts, faults and bounds that
meet `StoreAssumption`:

* `StoreTyped`: `Spec => []TypeOK`, with any set of TUIs.  Lemmas first: what each
  transform of `SecretBodies` returns is a body, what it leaves in the keyring a row.
* `StoreOpens` and `StoreSeals`: `Spec /\ [][SwitchesSucceed]_vars =>` `[]CiphertextOpens`
  and `[]SealedAtRest`.  Both are about the file only, but what is saved is a
  process's copy, and a switch rewrites its copy one body at a time, so in between
  the copy fits neither the old key nor the new.  The inductive invariant is
  `CopiesFit`: the file fits its mode and key, and so does every copy just loaded,
  about to be saved or left by a failed edit; in one being migrated, what is done
  fits the target and the rest is still on the list; and every text is in a slot
  that a migration moves (`Tidy`), so that an empty list means that all has been
  done when `Flip` changes the mode.  A body fits (`BodyFits`) if its ciphertext is
  under the key and the mode, if sealing, leaves no plaintext.
  `SwitchesSucceed` says that no TUI takes a step in which its switch fails: it
  would go on with the half migrated copy, and its next edit may save it
  (section 6).
* `CommandsKeepSound`, `CommandsOpen` and `CommandsSeal`: if `Tui = {}`, `[]CopiesSound`,
  `[]CiphertextOpens` and `[]SealedAtRest` with no condition on what fails or dies,
  since the copy of a failed switch dies with its process.

Each is induction on steps with one case per action, one lemma per group of
actions (`Process`, `Switch`, `Edit`), and the frame (the copies of the other
processes) in one lemma.

`SecretMap_proofs` is about what a connection reads, when commands come one at a
time (`OneCommand`: one process, started any number of times):

* `CommandsDeliver`: if the keyring does not fail, `Spec => EditDelivers`.
* `SwitchesKeep`: `Spec => SwitchKeeps`, whatever fails.
* `StoreImplementsMap`: `Spec /\ [][KeyringKept]_vars => Implements`: every step of the
  store is a step of `SecretMap` or leaves its map as it is, whatever fails and
  wherever a command dies.

What a body reads as depends on the key at hand, and half way through a switch no
key opens all.  `Yields` is what a body and its row hold to whoever has the key;
a body that fits reads as it yields (`FitReads`, `CopiesFit`), so the proofs follow
what is yielded and never mention keys.  The invariant they share is `OneInv`:
`RingOK`: an owner not given out yet has no entries; `ConfigOK` of the file: markers
are those of the mode, a marked slot holds no text of its own, and no unmarked key
lacks a text that an entry of its owner would supply (`NoStray`, proved and not
assumed; of certificates it would be false); `CommandOK` of the command: what is on its list
differs from the file in its encryption at most, what is done is as the target
wants it, and an edit yields what was asked or, for an owner it does not concern,
what the file has.  `OwnerEdited` is the one form that every edit takes for each
owner (`EditsKeep`).  The refinement adds `MapInv`: as long as the keyring is not
left, each body of the file and of the copy yields the same while a switch is under
way, so that a crash, a failure and the save that ends it all show the map unchanged;
the keyring is written before the save, but only in slots the file does not
read (`MigrationKeeps`, `FailureKeeps`).

Certificates are the exception throughout, and no theorem assumes it away: keys
with and without them mix freely.  `SecretMap` has a variable for it, `left`, the
certificates that lie around of each owner: those in the keyring and in a copy of
the config.  A step of the map may turn a certificate that is missing, or that
was not asked for, into one of these, and nothing else.  `Around` says which they
are, `MapToward` and `MapMoves` that a step of the store moves each slot as the
map allows, and `NothingNew` that no certificate comes to lie around but one the
map held or was asked for.

Each hypothesis stands for something the code does, and section 6 names what
happens without it.  `OneCommand`, for all three: two commands that overlap undo
each other's saves.  No `keyring` fault, for `CommandsDeliver` alone: deleting an
entry is best effort, so a slot that was cleared may still be read; the refinement,
which allows a slot to keep what it held, does not need it.  `KeyringKept`, for
the refinement alone: leaving keyring mode deletes entries before anything is
saved.  The instance of `store_commits` meets `OneCommand`
and `KeyringKept`.

`Registry_proofs` holds for any names, processes and TUIs:

* `TypesHold`, `HostNamesStayDistinct`, `ReferencesFindThemselves` and
  `DanglingIsAnnounced` follow from `Invariant`: `Spec => []IInv`.  Nothing locks
  the file, so nothing is known of how copies relate; but files are never merged,
  each is one process's copy after one change.  `IInv` says `Good` of the file, of
  every copy and of every config about to be saved, and one lemma per change shows
  that it makes a good config of a good one.  `Good` adds to the properties that
  ids are keys and older than the next one given out: a dangling reference would
  otherwise come to life when its id is given out again.
* `LoginsAreKept`: `Spec => LoginKept`, from the same invariant: the form finds the
  credential by name, and `RefsFirst` says it finds the right one.

`ConnectFlow_proofs` holds for any processes, configs, attempts and bounds that
meet `ConnectAssumption`, whatever fails, is signalled, killed or swept:

* `ConnectTyped`: `Spec => []TypeOK`, with `Loaded`: who runs has a config.
* `ConnectLeavesNothing`: `Spec => []NothingLeft`.  `NothingLeft` is about dead
  processes and says nothing of what the living must do.  `Fine` does: `Placed`
  ties each file on disk to the stretch of the main thread between its writing and
  its removal, so that none is left at `done`; `Planned` ties that stretch to the
  plan, so that it is not left early; `Guarded` says that in the stretch named by
  `HeldKinds` a file is in the registry until a signal, and in the hands of the
  signal thread after, so that its exit finds none.
* `ConnectAnswers`: `Spec => AnswersResolved`, by `Meant`: until the process ends,
  its plan follows from the config it loaded, so that asking the same config again
  gives the same password.
* `ConnectKeyThere`: `Spec => []KeyThere`, by `Present`: from its writing to the end
  of ssh a key is on disk or has been swept, unless a signal came.
* `ConnectCounts`: `Spec => []UsageOnDisk`, by `Counted`: no table, on disk or in
  memory, has a use that is not counted yet; so whoever overwrites the file
  without a use is in it himself, a witness with a table that lacks it.

`OthersSame` is the frame of all four: what one process does changes nothing of
another, but may sweep its files.

`FindSession_proofs` holds for any panes, queries, searches and matches that meet
`FindAssumption`:

* `FindTyped`, `FindOneSearchRuns`, `FindResultsOfOneSearch`, `FindSpinsForAReason`
  and `FindSettledAnswersQuery` follow from one invariant, `FindInv`.  The
  properties are about panes and threads; what links them is the channel.
  `LaunchInv`: the channel is that of the last launch and of its pane, and every
  other running thread has a set flag.  `ChannelInv`: it carries events of that
  search only, and once its thread has ended the last of them is `Done`; so a pane
  is owed something until it has heard `Done`, and drained events cannot be stale.
  `RowsInv` dates the rows, so that a new generation is none of them, and
  `AnswerInv` says of a pane nothing is pending for that its rows answer its
  query, unless a failed listing has cleared it, or will, depending on whether the
  channel is its own.  `StepForms`
  reduces the actions to forms, and each part of the invariant has
  one step per form.

Every invariant, action property and refinement that a passing run checks is also
a theorem.  Only model-checked are the seven liveness properties:
`ClosingEnds`, `CancelEnds`, `ConnectSettles`, `TransferEnds`, `PaneSettles`,
`SpinnerStops` and `Reclaimed`.  Liveness under fairness is out of the prover's
reach.

## 6. Where comments and code part

Each is a run that TLC finds violated and an entry of `findings`:

* `skip`: the overwrite answer outlives its batch and governs uploads too, which
  are then reported Ok without having been transferred.
* `store_leave`: leaving keyring mode deletes entries one by one before anything is
  saved, so a failure at a later secret loses the earlier ones.
* `override`: in plaintext mode askpass is told of the host alone and looks its
  login up in the config, so `--credential` is answered with the host's own
  password, and for an address with none.

TLC refutes these as well, in instances no run is spent on:

* `QueueNeverStalls`: a failed transfer does not start the next one.
* a failed switch leaves the TUI's copy of the config half migrated, and the next
  save writes it out (`CiphertextOpens` with `seal` among the faults).
* `BlankKeepsPassword`: in keyring mode, editing a credential with the password field
  left blank drops its password, since the text is copied and the marker is not
  (`persist.rs:342`), although `persist.rs:322` says it is not dropped.
* `SwitchChangesNothing`: a switch gives a key without certificate the certificate
  entry of the key it replaced, since `extract_inline_text` looks in the keyring
  whether or not the body is marked (`transform.rs:512`), although
  `transform.rs:411` says it is for marked bodies.
* `FindModeHasQuery`: a remote listing that fails late clears the query of a pane
  that is in find mode by now (`browser_core.rs:251`), and nothing re-parses it; the
  pane goes on showing results, and a running search adding to them, with no query
  to be seen, although `pane.rs:77` says that find mode is for a query of several
  segments.
* `PaneCoherent`: two quick navigations and a failed listing leave the title on a
  directory whose entries were never loaded.
* `ConfirmNamesInflight`: the close confirmation names a task that may be over.
* `NoOrphans`: an edit in keyring mode leaves the replaced password's entry behind,
  although a comment says it is cleaned up.

And by reading, while modelling:

* a remote navigation during a transfer sends a List the worker drops, and a
  cancel that comes too late is dropped rather than applied to the next job;
* find: the `Done` of the previous search, drained within the debounce window,
  lets Tab complete from its results, against the comment of
  `completion_for_focused`; `search_side` stays set after `Done` although the field's
  comment says it is None when nothing is in flight, so that Esc in the focused
  pane may clear the other; and asking in one pane within the debounce window of
  the other leaves the other spinning, with nothing in flight for it (`dropped`);
* registry: deleting a credential in the TUI lists no referrers although
  `credential.rs:229` leaves that to the caller; a host form whose reference
  dangles opens on the first credential, so that saving any other field rebinds
  it; `cred add --force` appends a second credential of the same name, and the old
  one is still found first;
* connect: Ctrl-C in the host-key popup is shown as a failed connection, since
  the check of `interrupted` comes after the early return; a file written and not
  yet registered, or unregistered and not yet removed, survives a signal until a
  sweep (what `HeldKinds` excepts); a failure to start ssh leaves the password file
  (what `NothingLeft` excepts); and the sweep of another process takes the key of a
  connection whose host-key question is open for longer than the threshold (what
  `KeyThere` excepts), although `sweep.rs` says live files are never deleted.

## 7. Not modelled

* *The TUI's panels, wizards and popups* but for what they save: moving through a
  form, validating a field and drawing are sequential, and a third of the source.
  The local pane, listed synchronously, and cursors and marks belong here too.
* *Argument parsing, tables and output formatting*, and shared helpers for them.
* *Text*: ranking of matches, frecency scores, ssh config, known_hosts and sftp
  output parsing, progress rates, TOML and base64, key derivation.  They are data
  here; what depends on them is a choice of the model.
* *The file system below a save*: the temporary file and its rename are inside the
  step that saves, which happens or fails.
* *The listing cache's clock and eviction order*: whether an entry is there is a
  choice.
* *The thread that reads an sftp child's stderr*, and the join on it: a listing or a
  handshake is a step that returns.
* *A removal of a secret file that fails*: the connect flow ignores the result of its
  `remove_file` calls (`connect/mod.rs:307` to 309 and 391) and drops the file from the
  registry all the same; in `ConnectFlow` these removals succeed, so that
  `NothingLeft` is about who removes a file and when, not about a file system that
  refuses.  (The worker's removal of a partial, which may meet a directory, does
  fail in `SftpWorker`; hence nothing is claimed of the partial of a cancelled
  transfer.)
* *Where a find query that is not absolute starts*: which directories it lists is
  data, so the directory a pane is in is not a variable of `FindSession`.
* *An ssh child after SIGKILL of sshrack.*

Time is abstract: that a cancel lands within 200 ms, or that closing may wait 5 s
for ssh-keyscan, is outside the models.  The lines that are not mapped are mostly
these parts and the tests in the same files.
