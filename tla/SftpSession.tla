----------------------------- MODULE SftpSession -----------------------------
(***************************************************************************)
(* One SFTP session of the TUI: the run loop, the transfer screen and its  *)
(* ledger on one thread, the SFTP worker on another, and the two channels  *)
(* between them.                                                           *)
(*                                                                         *)
(* The TUI thread (tui/run_loop.rs) repeats: handle at most one key, then  *)
(* drain_transfer_events -- apply every buffered worker event, send a      *)
(* pending cancel, dispatch the next job, refresh a pane.  `ui' is its     *)
(* place in that loop; the worker's steps interleave with each of them.    *)
(***************************************************************************)
EXTENDS TransferLedger, SftpWorker

CONSTANTS MaxCancels,  \* bound: Cancel is pressed, and a directory entered,
          MaxLists,    \*   only below this many unread commands
          MaxBatch,    \* bound: entries marked for one enqueue
          Existing     \* local files that exist before the session

ASSUME SessionAssumption ==
         /\ MaxCancels \in Nat
         /\ MaxLists \in Nat
         /\ MaxBatch \in Nat \ {0}
         /\ Existing \subseteq Names

VARIABLES
  ui,             \* "key", "drain", "advance", "refresh", "joining", "closed"
  connect,        \* ConnectState of the screen
  hostKey,        \* the host-key overlay is up
  modal,          \* "none", "queue" (^Q overlay) or "confirm" (CloseConfirm)
  confirmFor,     \* the task the CloseConfirm names, 0 when closed
  policy,         \* overwrite_policy; "None" is Option::None
  pendingCancel,  \* App::pending_cancel: 0 is false, t is true, pressed on t
  pendingAdvance, \* App::pending_advance
  doneAdvance,    \* maybe_done_advance of the running drain
  refresh,        \* pending_refresh of the running drain: "None" or a Direction
  lastDone,       \* history: the outcome drained last, "None" at first
  keyFile,        \* App::transfer_key_artifact holds an inline-key temp file
  cwd,            \* the remote pane: directory shown in its title,
  entries,        \*   directory its entries were listed from,
  origin,         \*   switch_origin of a directory switch in progress,
  loading         \*   and its in-flight indicator

flagVars == <<pendingCancel, pendingAdvance>>
drainVars == <<doneAdvance, refresh>>
modalVars == <<modal, confirmFor>>
paneVars == <<cwd, entries, origin, loading>>
screenVars == <<connect, hostKey, policy, lastDone>>
uiVars == <<ui, flagVars, drainVars, modalVars, paneVars, keyFile, screenVars>>
vars == <<chanVars, ledgerVars, workerVars, uiVars>>

Connect == {"Connecting", "Connected", "ConnectFailed"}

ScreenTypeOK ==
    /\ ui \in {"key", "drain", "advance", "refresh", "joining", "closed"}
    /\ connect \in Connect
    /\ hostKey \in BOOLEAN
    /\ modal \in {"none", "queue", "confirm"}
    /\ confirmFor \in TaskId \cup {0}
    /\ policy \in OverwritePolicy \cup {"None"}
    /\ pendingCancel \in TaskId \cup {0}
    /\ pendingAdvance \in BOOLEAN
    /\ doneAdvance \in BOOLEAN
    /\ refresh \in Direction \cup {"None"}
    /\ lastDone \in Outcome \cup {"None"}
    /\ keyFile \in BOOLEAN
    /\ cwd \in Dirs
    /\ entries \in Dirs \cup {NoDir}
    /\ origin \in Dirs \cup {NoDir}
    /\ loading \in BOOLEAN

TypeOK ==
    /\ ChannelTypeOK
    /\ LedgerTypeOK
    /\ WorkerTypeOK
    /\ ScreenTypeOK

\* open_transfer: fresh screen, ledger, channels and worker thread.  Nothing
\* but the files outlives a closed screen, so one session is all there is.
Init ==
    /\ LedgerInit
    /\ WorkerStarts
    /\ cmds = <<>>
    /\ evts = <<>>
    /\ ui = "key"
    /\ connect = "Connecting"
    /\ hostKey = FALSE
    /\ modal = "none"
    /\ confirmFor = 0
    /\ policy = "None"
    /\ doneAdvance = FALSE
    /\ refresh = "None"
    /\ lastDone = "None"
    /\ keyFile = ("inline key" \in Auth)
    /\ cwd = Root
    /\ entries = NoDir
    /\ origin = NoDir
    /\ loading = TRUE
    /\ pendingCancel = 0
    /\ pendingAdvance = FALSE
    /\ file = [side \in Direction |->
                [n \in Names |-> IF side = "Download" /\ n \in Existing
                                 THEN "old" ELSE "absent"]]

\* SftpWorker::send; a send to a thread that has returned is ignored.
Send(c) == cmds' = IF wpc = "exited" THEN cmds ELSE Append(cmds, c)

(***************************************************************************)
(* Keys.  TransferScreen::on_key gates them in this order: host-key        *)
(* overlay, connect state, queue overlay, close confirmation, panes.       *)
(* After any key the loop drains.                                          *)
(***************************************************************************)
KeyPressed == ui = "key" /\ ui' = "drain"

OnPanes == connect = "Connected" /\ modal = "none" /\ ~hostKey
OnQueue == connect = "Connected" /\ modal = "queue" /\ ~hostKey
OnConfirm == connect = "Connected" /\ modal = "confirm" /\ ~hostKey

\* Mutant of RouteEnqueue: dispatch whatever is in flight.
RouteEnqueueAlways == pendingAdvance' = TRUE

\* route_transfer, ScreenOutcome::Enqueue: ask for a dispatch only when
\* nothing is in flight.  Evaluated on the ledger the key left behind.
RouteEnqueue == pendingAdvance' = (pendingAdvance \/ InState("InFlight")' = {})

\* No key within EVENT_POLL, or one that changes nothing modelled here.
Tick ==
    /\ KeyPressed
    /\ UNCHANGED <<chanVars, ledgerVars, workerVars, flagVars, drainVars,
                   modalVars, paneVars, keyFile, screenVars>>

KeyHostKey(accept) ==
    /\ KeyPressed
    /\ hostKey
    /\ Send(HostKeyConfirm(accept))
    /\ hostKey' = FALSE
    /\ UNCHANGED <<evts, ledgerVars, workerVars, flagVars, drainVars, modalVars,
                   paneVars, keyFile, connect, policy, lastDone>>

\* enqueue_from_focused: the marked entries (or the selected one) of one pane,
\* so one direction; the remote pane needs a listing to select from.
KeyEnqueue(js) ==
    /\ KeyPressed
    /\ OnPanes
    /\ \A i \in DOMAIN js : js[i].dir = js[1].dir
    /\ js[1].dir = "Download" => entries # NoDir
    /\ EnqueueJobs(js)
    /\ RouteEnqueue
    /\ UNCHANGED <<chanVars, workerVars, pendingCancel, drainVars, modalVars,
                   paneVars, keyFile, screenVars>>

\* StepInto / StepUp / RequestList on the remote pane, and step 1 of the drain
\* that follows: begin_switch, move there, ask the worker for the listing.
KeyNavigate(d) ==
    /\ KeyPressed
    /\ OnPanes
    /\ Len(cmds) < MaxLists
    /\ origin' = cwd
    /\ cwd' = d
    /\ loading' = TRUE
    /\ Send(List(d))
    /\ UNCHANGED <<evts, ledgerVars, workerVars, flagVars, drainVars, modalVars,
                   entries, keyFile, screenVars>>

KeyOpenQueue ==
    /\ KeyPressed
    /\ OnPanes
    /\ modal' = "queue"
    /\ UNCHANGED <<chanVars, ledgerVars, workerVars, flagVars, drainVars,
                   confirmFor, paneVars, keyFile, screenVars>>

KeyCloseQueue ==
    /\ KeyPressed
    /\ OnQueue
    /\ modal' = "none"
    /\ UNCHANGED <<chanVars, ledgerVars, workerVars, flagVars, drainVars,
                   confirmFor, paneVars, keyFile, screenVars>>

KeyRetry(t) ==
    /\ KeyPressed
    /\ OnQueue
    /\ RetryTask(t)
    /\ RouteEnqueue
    /\ UNCHANGED <<chanVars, workerVars, pendingCancel, drainVars, modalVars,
                   paneVars, keyFile, screenVars>>

KeyRemove(t) ==
    /\ KeyPressed
    /\ OnQueue
    /\ RemoveTask(t)
    /\ UNCHANGED <<chanVars, workerVars, flagVars, drainVars, modalVars,
                   paneVars, keyFile, screenVars>>

\* Delete or `c' on the in-flight row defers to the worker.
KeyCancel(t) ==
    /\ KeyPressed
    /\ OnQueue
    /\ state[t] = "InFlight"
    /\ Len(cmds) < MaxCancels
    /\ pendingCancel' = t
    /\ UNCHANGED <<chanVars, ledgerVars, workerVars, pendingAdvance, drainVars,
                   modalVars, paneVars, keyFile, screenVars>>

\* Resuming a queue with work waiting and nothing in flight restarts it.
KeyPause ==
    /\ KeyPressed
    /\ OnQueue
    /\ TogglePaused
    /\ pendingAdvance' = (pendingAdvance \/ (paused /\ ~QueueEmpty /\ ~HasInflight))
    /\ UNCHANGED <<chanVars, workerVars, pendingCancel, drainVars, modalVars,
                   paneVars, keyFile, screenVars>>

(***************************************************************************)
(* Closing.  close_transfer drops the screen, then the worker -- whose     *)
(* Drop sends Shutdown and joins the thread -- and then the key artifact.  *)
(***************************************************************************)
\* Mutant of CloseTransfer: the key artifact is dropped before the worker.
CloseDropsKeyFirst ==
    /\ ui = "key"
    /\ ui' = "joining"
    /\ Send(Shutdown)
    /\ keyFile' = FALSE
    /\ UNCHANGED <<evts, ledgerVars, workerVars, flagVars, drainVars, modalVars,
                   paneVars, screenVars>>

CloseTransfer ==
    /\ ui = "key"
    /\ ui' = "joining"
    /\ Send(Shutdown)
    /\ UNCHANGED <<evts, ledgerVars, workerVars, flagVars, drainVars, modalVars,
                   paneVars, keyFile, screenVars>>

\* The guard of request_close: a transfer in flight is confirmed first.
MustConfirm == HasInflight

KeyQuit ==
    \/ /\ OnPanes
       /\ ~MustConfirm
       /\ CloseTransfer
    \/ /\ KeyPressed
       /\ OnPanes
       /\ MustConfirm
       /\ modal' = "confirm"
       /\ confirmFor' = InflightId
       /\ UNCHANGED <<chanVars, ledgerVars, workerVars, flagVars, drainVars,
                      paneVars, keyFile, screenVars>>

KeyQuitConfirmed == OnConfirm /\ CloseTransfer

KeyQuitDeclined ==
    /\ KeyPressed
    /\ OnConfirm
    /\ modal' = "none"
    /\ confirmFor' = 0
    /\ UNCHANGED <<chanVars, ledgerVars, workerVars, flagVars, drainVars,
                   paneVars, keyFile, screenVars>>

KeyQuitUnconnected ==
    /\ connect # "Connected"
    /\ ~hostKey
    /\ CloseTransfer

Joined ==
    /\ ui = "joining"
    /\ wpc = "exited"
    /\ ui' = "closed"
    /\ keyFile' = FALSE
    /\ pendingCancel' = 0
    /\ pendingAdvance' = FALSE
    /\ UNCHANGED <<chanVars, ledgerVars, workerVars, drainVars, modalVars,
                   paneVars, screenVars>>

Key ==
    \/ \E accept \in BOOLEAN : KeyHostKey(accept)
    \/ \E n \in 1..MaxBatch : \E js \in [1..n -> Jobs] : KeyEnqueue(js)
    \/ \E d \in Dirs : KeyNavigate(d)
    \/ KeyOpenQueue
    \/ KeyCloseQueue
    \/ \E t \in TaskId : KeyRetry(t)
    \/ \E t \in TaskId : KeyRemove(t)
    \/ \E t \in TaskId : KeyCancel(t)
    \/ KeyPause
    \/ KeyQuit
    \/ KeyQuitConfirmed
    \/ KeyQuitDeclined
    \/ KeyQuitUnconnected

(***************************************************************************)
(* drain_transfer_events, step 3: apply one buffered worker event.         *)
(***************************************************************************)
Draining == ui = "drain" /\ evts # <<>> /\ evts' = Tail(evts)
Event == Head(evts)

\* apply_remote_listing: a good listing counts only if it is of the current
\* directory, a failed one undoes the switch in progress whatever it listed.
\* Mutant of IsCurrent: any good listing is adopted.
IsAny(d) == TRUE

IsCurrent(d) == d = cwd

\* Mutant of RevertSwitch: reverting without a switch in progress.
RevertAlways ==
    /\ cwd' = origin
    /\ origin' = NoDir
    /\ loading' = FALSE
    /\ UNCHANGED entries

RevertSwitch ==
    /\ cwd' = IF origin = NoDir THEN cwd ELSE origin
    /\ origin' = NoDir
    /\ loading' = FALSE
    /\ UNCHANGED entries

\* Mutant of FinishSwitch: the indicator is not cleared.
FinishStillLoading(d) ==
    /\ entries' = d
    /\ origin' = NoDir
    /\ UNCHANGED <<cwd, loading>>

FinishSwitch(d) ==
    /\ entries' = d
    /\ origin' = NoDir
    /\ loading' = FALSE
    /\ UNCHANGED cwd

DrainListing ==
    /\ Draining
    /\ Event.k = "Listing"
    /\ \/ /\ Event.ok /\ IsCurrent(Event.dir)
          /\ FinishSwitch(Event.dir)
       \/ /\ Event.ok /\ ~IsCurrent(Event.dir)
          /\ UNCHANGED paneVars
       \/ /\ ~Event.ok
          /\ RevertSwitch
    /\ UNCHANGED <<cmds, ui, ledgerVars, workerVars, flagVars, drainVars,
                   modalVars, keyFile, screenVars>>

DrainProgress ==
    /\ Draining
    /\ Event.k = "Progress"
    /\ SetInflightProgress(Event.t)
    /\ UNCHANGED <<cmds, ui, workerVars, flagVars, drainVars, modalVars,
                   paneVars, keyFile, screenVars>>

DrainConnected ==
    /\ Draining
    /\ Event.k = "Connected"
    /\ connect' = "Connected"
    /\ cwd' = Event.home
    /\ loading' = TRUE
    /\ Send(List(Event.home))
    /\ UNCHANGED <<ui, ledgerVars, workerVars, flagVars, drainVars, modalVars,
                   entries, origin, keyFile, hostKey, policy, lastDone>>

DrainConnectFailed ==
    /\ Draining
    /\ Event.k = "ConnectFailed"
    /\ connect' = "ConnectFailed"
    /\ UNCHANGED <<cmds, ui, ledgerVars, workerVars, flagVars, drainVars,
                   modalVars, paneVars, keyFile, hostKey, policy, lastDone>>

DrainHostKey ==
    /\ Draining
    /\ Event.k = "HostKeyNeedsConfirm"
    /\ hostKey' = TRUE
    /\ UNCHANGED <<cmds, ui, ledgerVars, workerVars, flagVars, drainVars,
                   modalVars, paneVars, keyFile, connect, policy, lastDone>>

\* Mutant of AdvancesQueue: a cancelled task stops the queue as well.
AdvancesOnOk(o) == o = "Ok"

\* Only these outcomes go on with the queue, and end a batch with a refresh.
AdvancesQueue(o) == o \in {"Ok", "Cancelled"}

DrainDone ==
    /\ Draining
    /\ Event.k = "Done"
    /\ FinishInflight(Event.outcome)
    /\ refresh' = IF AdvancesQueue(Event.outcome) /\ QueueEmpty
                  THEN LastDirection ELSE refresh
    /\ doneAdvance' = (doneAdvance \/ AdvancesQueue(Event.outcome))
    /\ lastDone' = Event.outcome
    /\ UNCHANGED <<cmds, ui, workerVars, flagVars, modalVars, paneVars, keyFile,
                   connect, hostKey, policy>>

\* Mutant of DrainEnds: the flag is read, not taken.
DrainEndsKeepsCancel ==
    /\ ui = "drain"
    /\ evts = <<>>
    /\ ui' = "advance"
    /\ IF pendingCancel = 0 THEN UNCHANGED cmds ELSE Send(Cancel(pendingCancel))
    /\ UNCHANGED <<evts, ledgerVars, workerVars, flagVars, drainVars,
                   modalVars, paneVars, keyFile, screenVars>>

\* Step 4: the channel is empty; send the pending cancel.
DrainEnds ==
    /\ ui = "drain"
    /\ evts = <<>>
    /\ ui' = "advance"
    /\ IF pendingCancel = 0 THEN UNCHANGED cmds ELSE Send(Cancel(pendingCancel))
    /\ pendingCancel' = 0
    /\ UNCHANGED <<evts, ledgerVars, workerVars, pendingAdvance, drainVars,
                   modalVars, paneVars, keyFile, screenVars>>

(***************************************************************************)
(* Step 5, dispatch_next_job: start the head task unless there is none or  *)
(* the queue is paused; the first download onto an existing file asks the  *)
(* user, whose answer becomes the batch policy.                            *)
(***************************************************************************)
ShouldAdvance == pendingAdvance \/ doneAdvance

DestExists(j) == j.dir = "Download" /\ file["Download"][j.name] # "absent"
\* Mutant of MustAsk: an existing destination goes unnoticed.
NeverAsk(j) == FALSE

MustAsk(j) == DestExists(j) /\ policy = "None"
SettledPolicy == IF policy = "None" THEN "Overwrite" ELSE policy

Dispatch(t, p) ==
    /\ StartTask(t)
    /\ Send(Transfer(t, job[t], p))

AdvanceDone ==
    /\ ui' = "refresh"
    /\ pendingAdvance' = FALSE
    /\ doneAdvance' = FALSE
    /\ UNCHANGED <<evts, workerVars, pendingCancel, refresh, modalVars,
                   paneVars, keyFile, connect, hostKey, lastDone>>

AdvanceIdle ==
    /\ ui = "advance"
    /\ ShouldAdvance => Dispatchable = {}
    /\ AdvanceDone
    /\ UNCHANGED <<cmds, ledgerVars, policy>>

AdvanceSend(t) ==
    /\ ui = "advance"
    /\ ShouldAdvance /\ Dispatchable # {} /\ t = First(Dispatchable)
    /\ ~MustAsk(job[t])
    /\ Dispatch(t, SettledPolicy)
    /\ AdvanceDone
    /\ UNCHANGED policy

\* Yes is OverwriteAll; No, or a popup that fails, is SkipAll.
AdvanceAsk(t, answer) ==
    /\ ui = "advance"
    /\ ShouldAdvance /\ Dispatchable # {} /\ t = First(Dispatchable)
    /\ MustAsk(job[t])
    /\ policy' = answer
    /\ Dispatch(t, answer)
    /\ AdvanceDone

\* Esc in the popup drops the job in hand and the rest of the queue.
AdvanceAbort(t) ==
    /\ ui = "advance"
    /\ ShouldAdvance /\ Dispatchable # {} /\ t = First(Dispatchable)
    /\ MustAsk(job[t])
    /\ DropBatch(t)
    /\ AdvanceDone
    /\ UNCHANGED <<cmds, policy>>

\* Step 7: an upload batch re-lists the remote pane in place.  (A download
\* batch re-lists the local pane, synchronously.)
Refresh ==
    /\ ui = "refresh"
    /\ ui' = "key"
    /\ refresh' = "None"
    /\ IF refresh = "Upload"
       THEN loading' = TRUE /\ Send(List(cwd))
       ELSE UNCHANGED <<loading, cmds>>
    /\ UNCHANGED <<evts, ledgerVars, workerVars, flagVars, doneAdvance,
                   modalVars, cwd, entries, origin, keyFile, screenVars>>

Drain ==
    \/ DrainListing
    \/ DrainProgress
    \/ DrainConnected
    \/ DrainConnectFailed
    \/ DrainHostKey
    \/ DrainDone
    \/ DrainEnds
    \/ AdvanceIdle
    \/ \E t \in TaskId : AdvanceSend(t)
    \/ \E t \in TaskId, answer \in {"OverwriteAll", "SkipAll"} : AdvanceAsk(t, answer)
    \/ \E t \in TaskId : AdvanceAbort(t)
    \/ Refresh

Loop == Tick \/ Drain \/ Joined

Worker == WorkerStep /\ UNCHANGED <<ledgerVars, uiVars>>
Program == ProgramStep /\ UNCHANGED <<ledgerVars, uiVars>>

\* The screen is closed for good.
Closed == ui = "closed" /\ UNCHANGED vars

Next == Key \/ Loop \/ Worker \/ Program \/ Closed

Spec == Init /\ [][Next]_vars

(***************************************************************************)
(* Fairness.  The run loop ticks every 50 ms whether or not a key comes    *)
(* (and a popup is answered), the worker thread runs, its own timeouts     *)
(* fire.  The worker samples progress once per poll interval, far slower   *)
(* than the UI pops the channel, so a drain cannot find a new event for    *)
(* ever: the channel empty again and again, DrainEnds is taken (SF).       *)
(* Nothing makes the user press a key, and nothing makes the ssh master    *)
(* come up or go away: the handshake goes on polling, and its deadline     *)
(* passes.  An sftp child may never end: only TransferEnds is stated under *)
(* ChildrenEnd, that each one does.                                        *)
(***************************************************************************)
FairSpec ==
    /\ Spec
    /\ WF_vars(Loop) /\ SF_vars(DrainEnds)
    /\ WF_vars(Unprompted /\ UNCHANGED <<ledgerVars, uiVars>>)
    /\ WF_vars(HandshakeDeadline /\ UNCHANGED <<ledgerVars, uiVars>>)

ChildrenEnd == WF_vars(ChildEnds /\ UNCHANGED <<ledgerVars, uiVars>>)

(***************************************************************************)
(* Safety                                                                  *)
(***************************************************************************)
Open == ui \notin {"joining", "closed"}

\* "The single InFlight task (concurrency = 1)": however keys, retries,
\* resumes and Done events interleave, two tasks are never in flight.
SingleInFlight ==
    \A t, u \in TaskId : state[t] = "InFlight" /\ state[u] = "InFlight" => t = u

Carriers(t) ==
    Cardinality({i \in DOMAIN cmds : cmds[i].k = "Transfer" /\ cmds[i].t = t})
      + Cardinality({i \in DOMAIN evts : evts[i].k = "Done" /\ evts[i].t = t})
      + (IF task = t THEN 1 ELSE 0)

\* A task the ledger shows in flight is in exactly one place -- its Transfer
\* command waiting, its child running, or its Done event waiting -- and any
\* other task in none: no job is lost, run twice, or finished under the name
\* of another.
JobCarriedOnce ==
    Open => \A t \in TaskId : Carriers(t) = IF state[t] = "InFlight" THEN 1 ELSE 0

\* A Cancel the worker is about to act on was pressed on the very task it is
\* about to kill: a cancel that lost the race against Done hits nothing else.
CancelHitsItsTask ==
    Busy /\ cmds # <<>> /\ Head(cmds).k = "Cancel" => Head(cmds).t = task

\* A progress sample is shown on the task it measures, while it is in flight.
ProgressIsOwn ==
    \A t \in TaskId : progress[t] = 0 \/ (progress[t] = t /\ state[t] = "InFlight")

\* At rest, work waits in an unpaused queue with nothing in flight only after
\* a failure (which does not advance the queue): no other order of events
\* strands queued tasks.
Stalled ==
    /\ ui = "key" /\ connect = "Connected"
    /\ ~paused /\ ~QueueEmpty /\ ~HasInflight

StallOnlyAfterFailure == Stalled => lastDone = "Failed"

\* A transfer reported Ok has its whole file in place, and keeps it until the
\* report is drained: no cleanup, no other transfer and no lost exit status comes
\* between.  Only a user who chose to skip what exists is told Ok without one.
OkMeansWhole ==
    \A i \in DOMAIN evts :
        LET e == evts[i]
        IN  e.k = "Done" /\ e.outcome = "Ok" /\ policy # "SkipAll"
              => file[job[e.t].dir][job[e.t].name] = "new"

\* A local file that was there before the session is touched -- overwritten or
\* deleted by a cleanup -- only by a transfer the user let overwrite files.
NoClobberWithoutConsent ==
    [][\A n \in Names :
         file["Download"][n] = "old" /\ file'["Download"][n] # "old"
           => run.policy = "OverwriteAll"]_vars

\* A remote listing that arrives after the user moved on is not displayed:
\* the entries change only to those of the directory in the title.
StaleListingNotShown == [][entries' # entries => entries' = cwd']_vars

\* The inline-key file is there as long as the ssh master that `ssh -i' started
\* with it; once the screen has closed, neither it, nor the password file, nor a
\* process is left.
FilesSpanSession ==
    /\ master /\ "inline key" \in Auth => keyFile
    /\ ui = "closed" => ~master /\ ~pwFile /\ ~keyFile /\ child = "none"

(***************************************************************************)
(* The queue the user is promised.  A task whose Done event waits to be    *)
(* drained already has its outcome there.                                  *)
(***************************************************************************)
DoneOf(t) == {i \in DOMAIN evts : evts[i].k = "Done" /\ evts[i].t = t}

Status(t) ==
    IF state[t] # "InFlight" THEN state[t]
    ELSE IF DoneOf(t) = {} THEN "Running" ELSE evts[First(DoneOf(t))].outcome

Asked == {t \in TaskId :
            \/ pendingCancel = t
            \/ \E i \in DOMAIN cmds : cmds[i] = Cancel(t)}

Queue == INSTANCE TransferQueue
           WITH status <- [t \in TaskId |-> Status(t)], asked <- Asked

\* Keys, channels, worker and overwrite popup together are that queue: one
\* file at a time, in order, paused when paused, cancelled only when asked.
Implements == Queue!QSpec

(***************************************************************************)
(* Liveness                                                                *)
(***************************************************************************)

\* Closing the screen always ends: the join in SftpWorker::drop returns
\* whatever the worker was doing, even under a child that never ends.
ClosingEnds == (ui = "joining") ~> (ui = "closed")

\* A cancel ends its task, even when the child would run forever.
CancelEnds ==
    \A t \in TaskId :
        (pendingCancel = t) ~> (state[t] # "InFlight" \/ ui = "closed")

\* Connecting resolves, or waits for the user's answer about the host key: also
\* against a master that never comes up and never exits.
ConnectSettles ==
    (connect = "Connecting") ~> (connect # "Connecting" \/ hostKey \/ ui = "closed")

\* Every dispatched task gets its outcome, if sftp children end.
TransferEnds ==
    ChildrenEnd =>
        \A t \in TaskId :
            (state[t] = "InFlight") ~> (state[t] # "InFlight" \/ ui = "closed")

\* With no transfer about, the remote pane stops loading a directory the user
\* stays in: its listing, or the failure of one, always arrives.
PaneSettles ==
    \A d \in Dirs :
        (connect = "Connected" /\ loading /\ cwd = d)
          ~> (~loading \/ cwd # d \/ ui = "closed")

(***************************************************************************)
(* What the repository's comments say and the program does not do.         *)
(***************************************************************************)

\* run_loop.rs: "uploads always use OverwritePolicy::Overwrite for now".
UploadsNeverSkipped ==
    \A i \in DOMAIN cmds :
        cmds[i].k = "Transfer" /\ cmds[i].job.dir = "Upload" => cmds[i].policy # "SkipAll"

\* The rest is refuted as well, by instances with two tasks or, for PaneCoherent,
\* three directories; no run is spent on it.

\* app.rs, of jobs queued behind a transfer: "the loop's `Done` handler will
\* pick the queue up when the active transfer finishes".
QueueNeverStalls == ~Stalled

\* screen.rs: a failed listing reverts "so the pane never sits on an
\* unreachable path with the previous listing still visible".
PaneCoherent ==
    ui = "key" /\ connect = "Connected" /\ ~loading => entries \in {cwd, NoDir}

\* close_confirm.rs: "the body names the in-flight task so the user sees
\* exactly what they would discard".
ConfirmNamesInflight ==
    ui = "key" /\ modal = "confirm" => state[confirmFor] = "InFlight"
==============================================================================
