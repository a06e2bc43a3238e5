--------------------------- MODULE SftpCarry_proofs ---------------------------
(***************************************************************************)
(* More proofs about the SFTP session: what the two channels may hold.     *)
(*                                                                         *)
(* A task in flight is known to both threads and neither sees the other's  *)
(* state, so every property of who carries it is about messages under way. *)
(* SessionInv says which may be: at most one Transfer or Done, never both, *)
(* of the task in flight; progress only of it, and before its Done; and    *)
(* behind a Transfer, or while one runs, only cancels of that very task.   *)
(***************************************************************************)
EXTENDS SftpSession_proofs, FiniteSetTheorems

Serving == wpc \in {"idle", "poll", "wait"}

\* What waits for the worker.
CmdOK(i) ==
    /\ cmds[i].k = "Transfer" =>
         /\ state[cmds[i].t] = "InFlight" /\ cmds[i].job = job[cmds[i].t]
         /\ task = 0
         /\ \A j \in 1..Len(cmds) : cmds[j].k = "Transfer" => j = i
         /\ \A j \in 1..Len(evts) : evts[j].k # "Done"
    /\ cmds[i].k = "Cancel" =>
         /\ task # 0 => cmds[i].t = task
         /\ \A j \in 1..(i - 1) : cmds[j].k = "Transfer" => cmds[i].t = cmds[j].t
    /\ cmds[i].k = "Shutdown" => ~Open

CmdsInv == \A i \in 1..Len(cmds) : CmdOK(i)

\* What waits for the screen.
EvtOK(i) ==
    /\ evts[i].k = "Progress" => state[evts[i].t] = "InFlight"
    /\ evts[i].k = "Done" =>
         /\ state[evts[i].t] = "InFlight"
         /\ task = 0
         /\ \A j \in (i + 1)..Len(evts) : evts[j].k \notin {"Done", "Progress"}

EvtsInv == \A i \in 1..Len(evts) : EvtOK(i)

\* What the worker works on.
TaskInv ==
    /\ task # 0 => Busy /\ state[task] = "InFlight" /\ run.job = job[task]
    /\ child # "none" => Busy

Fresh == \A t \in TaskId : t >= nextId => state[t] = "Unborn"

\* A cancel is pressed and sent within one turn of the loop.
PressedInv ==
    pendingCancel # 0 =>
        ui = "drain" /\ \A t \in TaskId : state[t] = "InFlight" => t = pendingCancel

\* Tasks exist only once the worker serves, which it does to the end.
ServedInv ==
    Open /\ ~Serving =>
        /\ connect # "Connected"
        /\ \A t \in TaskId : state[t] = "Unborn"
        /\ \A i \in 1..Len(evts) : evts[i].k # "Connected"

\* Nothing in flight is forgotten.
CarriedInv ==
    Open => \A t \in TaskId : state[t] = "InFlight" =>
        \/ task = t
        \/ \E i \in 1..Len(cmds) : cmds[i].k = "Transfer" /\ cmds[i].t = t
        \/ \E i \in 1..Len(evts) : evts[i].k = "Done" /\ evts[i].t = t

SessionInv ==
    /\ FlightInv /\ CmdsInv /\ EvtsInv /\ TaskInv /\ Fresh /\ ProgressIsOwn
    /\ PressedInv /\ ServedInv /\ CarriedInv

-------------------------------------------------------------------------------
(* The forms a step takes, as far as SessionInv is concerned.  First the TUI. *)

Flying ==
    \A t \in TaskId : state[t] = "InFlight" => state'[t] = "InFlight" /\ job'[t] = job[t]

Talk == {"List", "HostKeyConfirm", "Shutdown"}

\* A command that is about no task is sent, or none.
Talks ==
    \/ cmds' = cmds
    \/ \E c \in WorkerCmd : /\ cmds' = Append(cmds, c)
                            /\ c.k \in Talk
                            /\ c.k = "Shutdown" => ~Open'

\* Keys and loop steps that leave the ledger's tasks alone.
Chat ==
    /\ UNCHANGED <<state, job, nextId, progress, evts, workerVars, connect>>
    /\ Talks
    /\ Open' => Open
    /\ pendingCancel' # 0 =>
         \/ /\ ui' = "drain" /\ state[pendingCancel'] = "InFlight"
            /\ pendingCancel = 0 /\ UNCHANGED <<cmds, paused>>
         \/ UNCHANGED <<ui, pendingCancel>>
    /\ paused' = paused \/ (paused' = ~paused /\ UNCHANGED <<cmds, pendingCancel>>)

\* Keys that change the list, and the popup's Cancel.
Relist ==
    /\ UNCHANGED <<cmds, evts, workerVars, connect>>
    /\ pendingCancel = 0 /\ pendingCancel' = 0
    /\ \/ \E n \in 1..MaxBatch : \E js \in [1..n -> Jobs] : EnqueueJobs(js)
       \/ \E t \in TaskId : RetryTask(t) \/ RemoveTask(t)
       \/ \E t \in TaskId : /\ DropBatch(t) /\ state[t] = "Queued"
                           /\ ~HasInflight /\ ~paused
    /\ Flying /\ NoneStarts
    /\ Fresh' /\ ProgressIsOwn'
    /\ connect = "Connected" \/ \E t \in TaskId : state[t] # "Unborn"
    /\ Open' => Open

\* The screen applies an event that ends no task.
Hear ==
    /\ evts # <<>> /\ evts' = Tail(evts) /\ Head(evts).k # "Done"
    /\ UNCHANGED <<state, job, nextId, paused, workerVars, ui, pendingCancel>>
    /\ Talks
    /\ progress' = progress \/ ProgressIsOwn'
    /\ connect' = "Connected" => connect = "Connected" \/ Head(evts).k = "Connected"

\* A task starts.
Depart(t, p) ==
    /\ StartTask(t)
    /\ cmds' = Append(cmds, Transfer(t, job[t], p))
    /\ UNCHANGED <<evts, workerVars, connect>>
    /\ pendingCancel = 0 /\ pendingCancel' = 0
    /\ Serving
    /\ ~HasInflight /\ ~paused
    /\ state[t] = "Queued" /\ \A u \in InState("Queued") : t <= u
    /\ p = "Overwrite" => policy = "Overwrite" \/ ~DestExists(job[t])
    /\ p = "SkipAll" => policy' = "SkipAll"
    /\ Open' => Open

(***************************************************************************)
(* Then the worker and its children.                                       *)
(***************************************************************************)
\* No transfer begins or ends.
Work ==
    /\ UNCHANGED <<task, run, ledgerVars, uiVars>>
    /\ \/ cmds' = cmds
       \/ cmds # <<>> /\ cmds' = Tail(cmds) /\ (Serving => Head(cmds).k # "Transfer")
       \/ cmds' = <<>> /\ (Serving => ~Open)
    /\ \/ evts' = evts
       \/ \E e \in WorkerEvent : /\ evts' = Append(evts, e)
                                 /\ e.k # "Done"
                                 /\ e.k = "Progress" => e.t = task /\ task # 0
                                 /\ e.k = "Connected" => Serving'
    /\ Busy' = Busy
    /\ child' # "none" => child # "none"
    /\ child' = "ok" =>
         \/ child = "ok" /\ file' = file
         \/ file' = [file EXCEPT ![run.job.dir][run.job.name] = "new"]
    /\ Serving => Serving' \/ ~Open

\* A transfer is skipped, or its child cannot be spawned.
Refuse(o) ==
    /\ UNCHANGED <<workerVars, ledgerVars, uiVars>>
    /\ wpc = "idle" /\ cmds # <<>> /\ Head(cmds).k = "Transfer"
    /\ cmds' = Tail(cmds)
    /\ o = "Ok" => Head(cmds).policy = "SkipAll"
    /\ evts' = Append(evts, Done(Head(cmds).t, o))

Begin ==
    /\ UNCHANGED <<ledgerVars, uiVars, evts>>
    /\ wpc = "idle" /\ cmds # <<>> /\ Head(cmds).k = "Transfer"
    /\ cmds' = Tail(cmds)
    /\ Busy'
    /\ task' = Head(cmds).t
    /\ run' = [job |-> Head(cmds).job, policy |-> Head(cmds).policy]
    /\ run'.policy # "SkipAll"
    /\ child' # "ok"

End(o) ==
    /\ UNCHANGED <<ledgerVars, uiVars>>
    /\ Busy /\ wpc' = "idle"
    /\ task' = 0
    /\ child' = "none"
    /\ evts' = Append(evts, Done(task, o))
    /\ IF o = "Cancelled"
       THEN cmds # <<>> /\ cmds' = Tail(cmds) /\ Head(cmds).k = "Cancel"
       ELSE cmds' = cmds
    /\ o = "Ok" => child = "ok" /\ file' = file

Stop ==
    /\ UNCHANGED <<ledgerVars, uiVars, evts>>
    /\ Busy /\ ~Open /\ wpc' = "exited"
    /\ task' = 0
    /\ child' = "none"
    /\ cmds' = <<>>

\* The events a screen may take, and what is in front.
LEMMA Fronts ==
    ASSUME ChannelTypeOK
    PROVE  /\ cmds # <<>> => Head(cmds) = cmds[1] /\ Head(cmds) \in WorkerCmd
                             /\ Len(cmds) \in Nat \ {0}
           /\ evts # <<>> => Head(evts) = evts[1] /\ Head(evts) \in WorkerEvent
                             /\ Len(evts) \in Nat \ {0}
BY DEF ChannelTypeOK

\* What the TUI sends is about no task, unless it is a Transfer or a Cancel.
LEMMA SendTalks ==
    ASSUME NEW c \in WorkerCmd, Send(c), c.k \in Talk, c.k = "Shutdown" => ~Open'
    PROVE  Talks
BY DEF Send, Talks

\* List, HostKeyConfirm and Shutdown name no task.
LEMMA TalkKinds ==
    /\ \A d : List(d).k \in Talk /\ List(d).k # "Shutdown"
    /\ \A b : HostKeyConfirm(b).k \in Talk /\ HostKeyConfirm(b).k # "Shutdown"
    /\ Shutdown.k \in Talk
BY DEF List, HostKeyConfirm, Shutdown, Talk

\* close_transfer sends Shutdown and touches no task.
LEMMA CloseChats ==
    ASSUME SessionInv, CloseTransfer
    PROVE  Chat
<1>1. pendingCancel = 0 /\ ~Open'
  BY DEF SessionInv, PressedInv, CloseTransfer, Open
<1>2. Talks
  BY <1>1, SendTalks, TalkKinds, CommandTypes DEF CloseTransfer
<1>3. Open
  BY DEF CloseTransfer, Open
<1> QED
  BY <1>1, <1>2, <1>3
  DEF CloseTransfer, Chat, ledgerVars, flagVars, screenVars

\* A key either leaves the tasks alone or changes the list.
LEMMA KeyForms ==
    ASSUME SessionInv, Key
    PROVE  Chat \/ Relist
<1> USE DEF ledgerVars, flagVars, screenVars, modalVars
<1>0. /\ LedgerTypeOK /\ ScreenTypeOK
  BY DEF SessionInv, FlightInv, TypeInv, TypeOK
<1>1. KeyPressed => pendingCancel = 0 /\ Open /\ Open'
  BY DEF SessionInv, PressedInv, KeyPressed, Open
<1>2. ASSUME NEW accept \in BOOLEAN, KeyHostKey(accept) PROVE Chat
  <2>1. Talks
    BY <1>2, SendTalks, TalkKinds, CommandTypes DEF KeyHostKey
  <2> QED
    BY <1>1, <1>2, <2>1 DEF KeyHostKey, Chat
<1>3. ASSUME NEW n \in 1..MaxBatch, NEW js \in [1..n -> Jobs], KeyEnqueue(js) PROVE Relist
  <2>1. EnqueueJobs(js) /\ n \in Nat /\ Len(js) = n
    BY <1>3, SessionAssumption DEF KeyEnqueue
  <2>2. \A t \in TaskId : state[t] # "Unborn" => state'[t] = state[t] /\ job'[t] = job[t]
    BY <1>0, <2>1 DEF EnqueueJobs, LedgerTypeOK, SessionInv, Fresh, TaskId
  <2>3. \A t \in TaskId : state'[t] = state[t] \/ state'[t] = "Queued"
    BY <2>1 DEF EnqueueJobs
  <2>4. Fresh'
    BY <1>0, <2>1, ChannelAssumption
    DEF EnqueueJobs, LedgerTypeOK, SessionInv, Fresh, TaskId
  <2>5. Flying /\ NoneStarts /\ ProgressIsOwn'
    BY <2>1, <2>2, <2>3
    DEF Flying, NoneStarts, InState, SessionInv, ProgressIsOwn, EnqueueJobs
  <2> QED
    BY <1>1, <1>3, <2>4, <2>5
    DEF KeyEnqueue, Relist, OnPanes, chanVars
<1>4. ASSUME NEW d \in Dirs, KeyNavigate(d) PROVE Chat
  <2>1. Talks
    BY <1>4, SendTalks, TalkKinds, CommandTypes DEF KeyNavigate
  <2> QED
    BY <1>1, <1>4, <2>1 DEF KeyNavigate, Chat
<1>5. CASE KeyOpenQueue \/ KeyCloseQueue \/ KeyPause \/ KeyQuitDeclined
  BY <1>1, <1>5
  DEF KeyOpenQueue, KeyCloseQueue, KeyPause, TogglePaused, KeyQuitDeclined, Chat, Talks,
      chanVars
<1>6. ASSUME NEW t \in TaskId, KeyRetry(t) PROVE Relist
  <2>1. RetryTask(t)
    BY <1>6 DEF KeyRetry
  <2>2. Flying /\ NoneStarts /\ Fresh' /\ ProgressIsOwn'
    BY <1>0, <2>1
    DEF RetryTask, LedgerTypeOK, Flying, NoneStarts, InState, SessionInv, Fresh,
        ProgressIsOwn
  <2> QED
    BY <1>1, <1>6, <2>2 DEF KeyRetry, Relist, OnQueue, chanVars
<1>7. ASSUME NEW t \in TaskId, KeyRemove(t) PROVE Relist
  <2>1. RemoveTask(t)
    BY <1>7 DEF KeyRemove
  <2>2. Flying /\ NoneStarts /\ Fresh' /\ ProgressIsOwn'
    BY <1>0, <2>1
    DEF RemoveTask, Outcome, LedgerTypeOK, Flying, NoneStarts, InState, SessionInv, Fresh,
        ProgressIsOwn
  <2> QED
    BY <1>1, <1>7, <2>2 DEF KeyRemove, Relist, OnQueue, chanVars
<1>8. ASSUME NEW t \in TaskId, KeyCancel(t) PROVE Chat
  BY <1>1, <1>8 DEF KeyCancel, KeyPressed, Chat, Talks, chanVars
<1>9. CASE KeyQuit
  <2>1. CASE CloseTransfer
    BY <2>1, CloseChats
  <2>2. CASE ~CloseTransfer
    BY <1>1, <1>9, <2>2 DEF KeyQuit, Chat, Talks, chanVars
  <2> QED
    BY <2>1, <2>2
<1>10. CASE KeyQuitConfirmed \/ KeyQuitUnconnected
  BY <1>10, CloseChats DEF KeyQuitConfirmed, KeyQuitUnconnected
<1> QED
  BY <1>2, <1>3, <1>4, <1>5, <1>6, <1>7, <1>8, <1>9, <1>10 DEF Key

\* At the end of a drain nothing in flight is on its way to being dispatched.
LEMMA AdvanceQuiet ==
    ASSUME SessionInv, ui = "advance" \/ ui = "refresh" \/ ui = "joining"
    PROVE  pendingCancel = 0
BY DEF SessionInv, PressedInv

\* A job that dispatch_next_job sends is the head of the queue, and starts alone.
LEMMA DepartForm ==
    ASSUME SessionInv, ui = "advance", ShouldAdvance, NEW t \in TaskId, Dispatchable # {},
           t = First(Dispatchable), NEW p, Dispatch(t, p), AdvanceDone,
           p = "Overwrite" => policy = "Overwrite" \/ ~DestExists(job[t]),
           p = "SkipAll" => policy' = "SkipAll"
    PROVE  Depart(t, p)
<1>1. ~paused /\ state[t] = "Queued" /\ \A u \in InState("Queued") : t <= u
  <2>1. /\ Dispatchable = InState("Queued") /\ InState("Queued") \in SUBSET TaskId
        /\ ~paused
    BY DEF Dispatchable, InState
  <2> QED
    BY <2>1, FirstMember DEF InState
<1>2. Serving
  BY <1>1 DEF SessionInv, ServedInv, Open
<1>3. ~HasInflight
  BY DEF SessionInv, FlightInv, DispatchSafe
<1>4. cmds' = Append(cmds, Transfer(t, job[t], p))
  BY <1>2 DEF Dispatch, Send, Serving
<1>5. /\ pendingCancel = 0 /\ pendingCancel' = 0 /\ Open /\ Open'
      /\ UNCHANGED <<evts, workerVars, connect>>
  BY AdvanceQuiet DEF AdvanceDone, Open
<1> QED
  BY <1>1, <1>2, <1>3, <1>4, <1>5 DEF Depart, Dispatch

\* What a turn of the loop does, event by event.
LEMMA LoopForms ==
    ASSUME SessionInv, Loop
    PROVE  \/ Chat \/ Relist \/ Hear \/ DrainDone \/ DrainEnds
           \/ \E t \in TaskId, p \in OverwritePolicy : Depart(t, p)
<1> USE DEF ledgerVars, flagVars, screenVars, modalVars, paneVars
<1>0. LedgerTypeOK /\ ScreenTypeOK /\ ChannelTypeOK
  BY DEF SessionInv, FlightInv, TypeInv, TypeOK
<1>1. CASE Tick \/ Joined \/ AdvanceIdle
  BY <1>1, AdvanceQuiet
  DEF Tick, Joined, KeyPressed, AdvanceIdle, AdvanceDone, Chat, Talks, chanVars, Open,
      SessionInv, PressedInv
<1>2. CASE Refresh
  <2>1. List(cwd) \in WorkerCmd
    BY <1>0, CommandTypes DEF ScreenTypeOK
  <2>2. Talks
    BY <1>2, <2>1, SendTalks, TalkKinds DEF Refresh, Talks
  <2> QED
    BY <1>2, <2>2, AdvanceQuiet DEF Refresh, Chat, Open
<1>3. CASE DrainListing \/ DrainConnectFailed \/ DrainHostKey
  BY <1>3
  DEF DrainListing, DrainConnectFailed, DrainHostKey, Draining, Event, Hear, Talks
<1>4. CASE DrainProgress
  <2>1. Head(evts) = evts[1] /\ Len(evts) \in Nat \ {0} /\ evts[1].t \in TaskId
    BY <1>0, <1>4, Fronts, EventFields DEF DrainProgress, Draining, Event
  <2>2. state[evts[1].t] = "InFlight"
    BY <1>4, <2>1 DEF SessionInv, EvtsInv, EvtOK, DrainProgress, Event
  <2>3. HasInflight /\ InflightId = evts[1].t
    <3>1. HasInflight
      BY <2>1, <2>2 DEF HasInflight, InState
    <3> QED
      BY <1>0, <2>1, <2>2, <3>1, InflightMember DEF SessionInv, FlightInv, SingleInFlight
  <2>4. progress' = [progress EXCEPT ![evts[1].t] = evts[1].t] /\ UNCHANGED state
    BY <1>4, <2>1, <2>3 DEF DrainProgress, Event, SetInflightProgress
  <2>5. ProgressIsOwn'
    BY <1>0, <2>1, <2>2, <2>4 DEF SessionInv, ProgressIsOwn, LedgerTypeOK
  <2> QED
    BY <1>4, <2>5
    DEF DrainProgress, SetInflightProgress, Draining, Event, Hear, Talks
<1>5. CASE DrainConnected
  <2>1. Head(evts) \in WorkerEvent
    BY <1>0, <1>5, Fronts DEF DrainConnected, Draining
  <2>2. List(Event.home) \in WorkerCmd
    BY <1>5, <2>1, EventFields, CommandTypes DEF DrainConnected, Event
  <2>3. Talks
    BY <1>5, <2>2, SendTalks, TalkKinds DEF DrainConnected
  <2> QED
    BY <1>5, <2>3 DEF DrainConnected, Draining, Event, Hear
<1>6. ASSUME NEW t \in TaskId, AdvanceSend(t)
      PROVE  \E p \in OverwritePolicy : Depart(t, p)
  <2>1. SettledPolicy \in OverwritePolicy
        /\ (SettledPolicy = "Overwrite" => policy = "Overwrite" \/ ~DestExists(job[t]))
    BY <1>0, <1>6 DEF ScreenTypeOK, SettledPolicy, OverwritePolicy, AdvanceSend, MustAsk
  <2>2. SettledPolicy = "SkipAll" => policy' = "SkipAll"
    BY <1>6 DEF SettledPolicy, AdvanceSend
  <2> QED
    BY <1>6, <2>1, <2>2, DepartForm DEF AdvanceSend
<1>7. ASSUME NEW t \in TaskId, NEW answer \in {"OverwriteAll", "SkipAll"},
             AdvanceAsk(t, answer)
      PROVE  \E p \in OverwritePolicy : Depart(t, p)
  BY <1>7, DepartForm DEF AdvanceAsk, OverwritePolicy
<1>8. ASSUME NEW t \in TaskId, AdvanceAbort(t) PROVE Relist
  <2>1. DropBatch(t) /\ ~HasInflight
    BY <1>8 DEF AdvanceAbort, SessionInv, FlightInv, DispatchSafe
  <2>2. state[t] = "Queued" /\ ~paused
    <3>1. /\ Dispatchable = InState("Queued") /\ InState("Queued") \in SUBSET TaskId
          /\ ~paused
      BY <1>8 DEF AdvanceAbort, Dispatchable, InState
    <3> QED
      BY <1>8, <3>1, FirstMember DEF AdvanceAbort, InState
  <2>3. Flying /\ NoneStarts /\ Fresh' /\ ProgressIsOwn'
    BY <1>0, <2>1, <2>2
    DEF DropBatch, LedgerTypeOK, Flying, NoneStarts, InState, HasInflight, SessionInv,
        Fresh, ProgressIsOwn
  <2>4. state[t] # "Unborn"
    BY <2>2
  <2>5. \E u \in TaskId : DropBatch(u) /\ state[u] = "Queued" /\ ~HasInflight /\ ~paused
    BY <2>1, <2>2
  <2> QED
    BY <1>8, <2>3, <2>4, <2>5, AdvanceQuiet DEF AdvanceAbort, AdvanceDone, Relist, Open
<1> QED
  BY <1>1, <1>2, <1>3, <1>4, <1>5, <1>6, <1>7, <1>8 DEF Loop, Drain

\* Connecting begins and ends no transfer.
LEMMA ConnectForm ==
    ASSUME SessionInv, ConnectStep, UNCHANGED <<ledgerVars, uiVars>>
    PROVE  Work
<1> USE DEF resources, Busy, Serving, Exit
<1>1. CASE HostKeyKnown \/ SpawnMaster
  BY <1>1 DEF HostKeyKnown, SpawnMaster, chanVars, Work
<1>2. CASE HostKeyUnknown
  BY <1>2, EventTypes DEF HostKeyUnknown, Emit, HostKeyNeedsConfirm, Work
<1>3. CASE HostKeyScanFails \/ SpawnMasterFails
  BY <1>3, EventTypes DEF HostKeyScanFails, SpawnMasterFails, Emit, ConnectFailed, Work
<1>4. CASE HostKeyAnswer
  <2>1. wpc = "hkwait" /\ cmds # <<>> /\ UNCHANGED <<task, run, child, file>>
    BY <1>4 DEF HostKeyAnswer
  <2>2. CASE Receive /\ wpc' = "spawn" /\ UNCHANGED evts
    BY <1>4, <2>1, <2>2 DEF Receive, Work
  <2>3. CASE Exit /\ Emit(ConnectFailed)
    BY <1>4, <2>1, <2>3, EventTypes DEF Emit, ConnectFailed, Work
  <2> QED
    BY <1>4, <2>2, <2>3 DEF HostKeyAnswer
<1>5. ASSUME NEW check_ok \in BOOLEAN, NEW master_exited \in BOOLEAN,
             HandshakePoll(check_ok, master_exited)
      PROVE  Work
  BY <1>5, EventTypes DEF HandshakePoll, Emit, ConnectFailed, Work
<1>6. ASSUME NEW home \in {Home, Root}, ProbeHome(home) PROVE Work
  <2>1. Connected(home) \in WorkerEvent
    BY EventTypes, WorkerAssumption
  <2> QED
    BY <1>6, <2>1 DEF ProbeHome, Emit, Connected, Work
<1> QED
  BY <1>1, <1>2, <1>3, <1>4, <1>5, <1>6 DEF ConnectStep

\* service_loop refuses or begins the transfer in front, or works on something else.
LEMMA ServeForm ==
    ASSUME SessionInv, ServeStep, UNCHANGED <<ledgerVars, uiVars>>
    PROVE  Work \/ Begin \/ \E o \in {"Ok", "Failed"} : Refuse(o)
<1> USE DEF resources, Busy, Serving, Exit, Receive, Emit
<1>0. ChannelTypeOK
  BY DEF SessionInv, FlightInv, TypeInv, TypeOK
<1>1. ASSUME NEW ok \in BOOLEAN, ServeList(ok) PROVE Work
  <2>1. Listing(Head(cmds).dir, ok) \in WorkerEvent
    BY <1>0, <1>1, Fronts, CommandFields, EventTypes DEF ServeList
  <2> QED
    BY <1>1, <2>1 DEF ServeList, Listing, workerVars, Work
<1>2. CASE ServeDrop
  BY <1>2 DEF ServeDrop, workerVars, Work
<1>3. CASE ServeShutdown
  <2>1. Head(cmds) = cmds[1] /\ 1 \in 1..Len(cmds) /\ cmds[1].k = "Shutdown"
    BY <1>0, <1>3, Fronts DEF ServeShutdown, Shutdown
  <2>2. ~Open
    BY <2>1 DEF SessionInv, CmdsInv, CmdOK
  <2> QED
    BY <1>3, <2>2 DEF ServeShutdown, Work
<1>4. CASE ServeTransfer
  <2>1. wpc = "idle" /\ cmds # <<>> /\ Head(cmds).k = "Transfer" /\ cmds' = Tail(cmds)
    BY <1>4 DEF ServeTransfer
  <2>2. CASE SkipTransfer(Head(cmds))
    BY <2>1, <2>2 DEF SkipTransfer, Refuse
  <2>3. CASE SpawnChildFails(Head(cmds))
    BY <2>1, <2>3 DEF SpawnChildFails, Refuse
  <2>4. CASE SpawnChild(Head(cmds))
    BY <2>1, <2>4 DEF SpawnChild, Begin
  <2> QED
    BY <1>4, <2>2, <2>3, <2>4 DEF ServeTransfer
<1> QED
  BY <1>1, <1>2, <1>3, <1>4 DEF ServeStep

\* run_transfer ends its transfer, stops with the session, or goes on.
LEMMA TransferForm ==
    ASSUME SessionInv, TransferStep, UNCHANGED <<ledgerVars, uiVars>>
    PROVE  Work \/ Stop \/ \E o \in Outcome : End(o)
<1> USE DEF resources, Busy, Serving, Exit, Receive, Emit
<1>0. /\ ChannelTypeOK
      /\ Busy => task \in TaskId /\ task # 0
  BY DEF SessionInv, FlightInv, TypeInv, TypeOK, WorkerTypeOK, BusyHasTask
<1>1. CASE ReapOk \/ ReapFailed \/ ReapError
  BY <1>1 DEF ReapOk, ReapFailed, ReapError, Finish, Outcome, End
<1>2. CASE SampleProgress
  <2>1. Progress(task) \in WorkerEvent
    BY <1>0, <1>2, EventTypes DEF SampleProgress
  <2> QED
    BY <1>0, <1>2, <2>1 DEF SampleProgress, Progress, Work
<1>3. CASE WaitTimesOut
  BY <1>3 DEF WaitTimesOut, chanVars, Work
<1>4. CASE CancelTransfer
  <2>1. Head(cmds).k = "Cancel"
    BY <1>4 DEF CancelTransfer, ClassifyInflight
  <2> QED
    BY <1>4, <2>1 DEF CancelTransfer, Finish, Outcome, End
<1>5. CASE ShutdownTransfer
  <2>1. Head(cmds) = cmds[1] /\ 1 \in 1..Len(cmds) /\ cmds[1].k = "Shutdown"
    BY <1>0, <1>5, Fronts DEF ShutdownTransfer, ClassifyInflight
  <2>2. ~Open
    BY <2>1 DEF SessionInv, CmdsInv, CmdOK
  <2> QED
    BY <1>5, <2>2 DEF ShutdownTransfer, Stop
<1>6. CASE IgnoreCommand
  <2>1. Head(cmds) = cmds[1] /\ 1 \in 1..Len(cmds)
    BY <1>0, <1>6, Fronts DEF IgnoreCommand
  <2>2. Head(cmds).k # "Transfer"
    BY <1>0, <1>6, <2>1 DEF SessionInv, CmdsInv, CmdOK, IgnoreCommand
  <2> QED
    BY <1>6, <2>2 DEF IgnoreCommand, Work
<1> QED
  BY <1>1, <1>2, <1>3, <1>4, <1>5, <1>6 DEF TransferStep

\* A child's write or exit is seen by neither thread yet.
LEMMA ProgramForm ==
    ASSUME SessionInv, ProgramStep, UNCHANGED <<ledgerVars, uiVars>>
    PROVE  Work
<1> USE DEF resources, Busy, Serving, chanVars
<1>1. CASE ChildWrites
  BY <1>1 DEF ChildWrites, Work
<1>2. ASSUME NEW result \in {"ok", "failed"}, ChildExits(result) PROVE Work
  BY <1>2 DEF ChildExits, Work
<1>3. CASE HandshakeDeadline
  BY <1>3 DEF HandshakeDeadline, Work
<1> QED
  BY <1>1, <1>2, <1>3 DEF ProgramStep, ChildEnds

\* Every step of the session has one of the forms.
LEMMA StepForms ==
    ASSUME SessionInv, [Next]_vars
    PROVE  \/ Chat \/ Relist \/ Hear \/ DrainDone \/ DrainEnds
           \/ \E t \in TaskId, p \in OverwritePolicy : Depart(t, p)
           \/ Work \/ Begin \/ Stop
           \/ \E o \in {"Ok", "Failed"} : Refuse(o)
           \/ \E o \in Outcome : End(o)
<1>1. CASE UNCHANGED vars
  BY <1>1
  DEF vars, chanVars, ledgerVars, uiVars, flagVars, screenVars, Chat, Talks, Open
<1>2. CASE Worker
  BY <1>2, ConnectForm, ServeForm, TransferForm DEF Worker, WorkerStep
<1>3. CASE Program
  BY <1>3, ProgramForm DEF Program
<1>4. CASE Key
  BY <1>4, KeyForms
<1>5. CASE Loop
  BY <1>5, LoopForms
<1> QED
  BY <1>1, <1>2, <1>3, <1>4, <1>5 DEF Next, Closed

-------------------------------------------------------------------------------
(* The commands under way.                                                    *)

\* What is left of a queue is what was in it, at most one place further back.
LEMMA ShrinkIndex ==
    ASSUME NEW S, NEW s \in Seq(S), NEW u, u = s \/ (s # <<>> /\ u = Tail(s)) \/ u = <<>>
    PROVE  \E d \in {0, 1} : \A i \in 1..Len(u) : i + d \in 1..Len(s) /\ u[i] = s[i + d]
<1>1. CASE u = s \/ u = <<>>
  BY <1>1
<1>2. CASE s # <<>> /\ u = Tail(s)
  <2>1. \A i \in 1..Len(u) : i + 1 \in 1..Len(s) /\ u[i] = s[i + 1]
    BY <1>2
  <2> QED
    BY <2>1
<1> QED
  BY <1>1, <1>2

\* A message sent comes after those that were there.
LEMMA AppendIndex ==
    ASSUME NEW S, NEW s \in Seq(S), NEW e \in S
    PROVE  /\ Len(s) \in Nat /\ Len(Append(s, e)) = Len(s) + 1
           /\ \A i \in 1..Len(s) : Append(s, e)[i] = s[i]
           /\ Append(s, e)[Len(s) + 1] = e
           /\ \A i \in 1..Len(Append(s, e)) : i \in 1..Len(s) \/ i = Len(s) + 1
OBVIOUS

NoNewDone ==
    \A j \in 1..Len(evts') :
        evts'[j].k = "Done" => \E k \in 1..Len(evts) : evts[k].k = "Done"

\* Commands may be received or lost as long as the tasks they name fly on.
LEMMA CmdsKept ==
    ASSUME SessionInv, NoNewDone, Flying, task' = task, Open' => Open,
           cmds' = cmds \/ (cmds # <<>> /\ cmds' = Tail(cmds)) \/ cmds' = <<>>
    PROVE  CmdsInv'
<1>1. cmds \in Seq(WorkerCmd)
  BY DEF SessionInv, FlightInv, TypeInv, TypeOK, ChannelTypeOK
<1>2. PICK d \in {0, 1} : \A i \in 1..Len(cmds') : i + d \in 1..Len(cmds) /\ cmds'[i] = cmds[i + d]
  BY <1>1, ShrinkIndex
<1>3. SUFFICES ASSUME NEW i \in 1..Len(cmds')
               PROVE  CmdOK(i)'
  BY DEF CmdsInv
<1>4. /\ i + d \in 1..Len(cmds) /\ cmds'[i] = cmds[i + d]
      /\ CmdOK(i + d) /\ cmds[i + d] \in WorkerCmd
  BY <1>1, <1>2 DEF SessionInv, CmdsInv
<1>5. CASE cmds'[i].k = "Transfer"
  <2>1. cmds[i + d].t \in TaskId
    BY <1>4, <1>5, CommandFields
  <2>2. state'[cmds'[i].t] = "InFlight" /\ cmds'[i].job = job'[cmds'[i].t] /\ task' = 0
    BY <1>4, <1>5, <2>1 DEF CmdOK, Flying
  <2>3. ASSUME NEW j \in 1..Len(cmds'), cmds'[j].k = "Transfer" PROVE j = i
    <3>1. j + d \in 1..Len(cmds) /\ cmds'[j] = cmds[j + d]
      BY <1>2
    <3>2. j + d = i + d
      BY <1>4, <1>5, <2>3, <3>1 DEF CmdOK
    <3> QED
      BY <3>2
  <2>4. \A j \in 1..Len(evts') : evts'[j].k # "Done"
    BY <1>4, <1>5 DEF CmdOK, NoNewDone
  <2> QED
    BY <1>5, <2>2, <2>3, <2>4 DEF CmdOK
<1>6. CASE cmds'[i].k = "Cancel"
  <2>1. task # 0 => cmds'[i].t = task
    BY <1>4, <1>6 DEF CmdOK
  <2>2. ASSUME NEW j \in 1..(i - 1), cmds'[j].k = "Transfer" PROVE cmds'[i].t = cmds'[j].t
    <3>1. j \in 1..Len(cmds') /\ j + d \in 1..(i + d - 1)
      BY <1>4
    <3>2. cmds'[j] = cmds[j + d]
      BY <1>2, <3>1
    <3> QED
      BY <1>4, <1>6, <2>2, <3>1, <3>2 DEF CmdOK
  <2> QED
    BY <1>6, <2>1, <2>2 DEF CmdOK
<1> QED
  BY <1>4, <1>5, <1>6 DEF CmdOK

\* A command about no task joins them.
LEMMA CmdsTold ==
    ASSUME SessionInv, NoNewDone, Flying, task' = task, Open' => Open, Talks
    PROVE  CmdsInv'
<1>1. CASE cmds' = cmds
  BY <1>1, CmdsKept
<1>2. ASSUME NEW c \in WorkerCmd, cmds' = Append(cmds, c), c.k \in Talk,
             c.k = "Shutdown" => ~Open'
      PROVE  CmdsInv'
  <2>0. cmds \in Seq(WorkerCmd)
    BY DEF SessionInv, FlightInv, TypeInv, TypeOK, ChannelTypeOK
  <2>1. /\ Len(cmds) \in Nat /\ Len(cmds') = Len(cmds) + 1
        /\ \A i \in 1..Len(cmds) : cmds'[i] = cmds[i] /\ cmds[i] \in WorkerCmd
        /\ cmds'[Len(cmds) + 1] = c
    BY <1>2, <2>0, AppendIndex
  <2>2. SUFFICES ASSUME NEW i \in 1..Len(cmds') PROVE CmdOK(i)'
    BY DEF CmdsInv
  <2>3. CASE i = Len(cmds) + 1
    BY <1>2, <2>1, <2>3 DEF CmdOK, Talk
  <2>4. CASE i \in 1..Len(cmds)
    <3>1. cmds'[i] = cmds[i] /\ cmds[i] \in WorkerCmd /\ CmdOK(i)
      BY <2>1, <2>4 DEF SessionInv, CmdsInv
    <3>2. CASE cmds[i].k = "Transfer"
      <4>1. cmds[i].t \in TaskId
        BY <3>1, <3>2, CommandFields
      <4>2. \A j \in 1..Len(cmds') : cmds'[j].k = "Transfer" => j = i
        BY <1>2, <2>1, <3>1, <3>2 DEF CmdOK, Talk
      <4>3. \A j \in 1..Len(evts') : evts'[j].k # "Done"
        BY <3>1, <3>2 DEF CmdOK, NoNewDone
      <4> QED
        BY <3>1, <3>2, <4>1, <4>2, <4>3 DEF CmdOK, Flying
    <3>3. CASE cmds[i].k = "Cancel"
      <4>1. \A j \in 1..(i - 1) : cmds'[j] = cmds[j]
        BY <2>1, <2>4
      <4> QED
        BY <3>1, <3>3, <4>1 DEF CmdOK
    <3> QED
      BY <3>1, <3>2, <3>3 DEF CmdOK
  <2> QED
    BY <2>1, <2>3, <2>4
<1> QED
  BY <1>1, <1>2 DEF Talks

\* Where nothing is in flight, nothing under way is about a task.
LEMMA NothingUnderWay ==
    ASSUME SessionInv, ~HasInflight
    PROVE  /\ \A i \in 1..Len(cmds) : cmds[i].k # "Transfer"
           /\ \A i \in 1..Len(evts) : evts[i].k \notin {"Done", "Progress"}
           /\ task = 0
<1>1. \A t \in TaskId : state[t] # "InFlight"
  BY DEF HasInflight, InState
<1>2. /\ \A i \in 1..Len(cmds) : cmds[i] \in WorkerCmd
      /\ \A i \in 1..Len(evts) : evts[i] \in WorkerEvent
      /\ task \in TaskId \cup {0}
  BY DEF SessionInv, FlightInv, TypeInv, TypeOK, ChannelTypeOK, WorkerTypeOK
<1>3. \A i \in 1..Len(cmds) : cmds[i].k # "Transfer"
  BY <1>1, <1>2, CommandFields DEF SessionInv, CmdsInv, CmdOK
<1>4. \A i \in 1..Len(evts) : evts[i].k \notin {"Done", "Progress"}
  BY <1>1, <1>2, EventFields DEF SessionInv, EvtsInv, EvtOK
<1> QED
  BY <1>1, <1>2, <1>3, <1>4 DEF SessionInv, TaskInv

\* A Transfer in front of the worker is the only one, and nothing runs.
LEMMA TransferAhead ==
    ASSUME SessionInv, cmds # <<>>, Head(cmds).k = "Transfer"
    PROVE  /\ Head(cmds) = cmds[1] /\ 1 \in 1..Len(cmds)
           /\ cmds[1].t \in TaskId /\ state[cmds[1].t] = "InFlight"
           /\ cmds[1].job = job[cmds[1].t]
           /\ task = 0
           /\ \A i \in 1..Len(cmds) : cmds[i].k = "Transfer" => i = 1
           /\ \A i \in 1..Len(cmds) : cmds[i].k = "Cancel" => cmds[i].t = cmds[1].t
           /\ \A i \in 1..Len(evts) : evts[i].k # "Done"
           /\ Len(Tail(cmds)) = Len(cmds) - 1
           /\ \A i \in 1..Len(Tail(cmds)) : /\ Tail(cmds)[i] = cmds[i + 1]
                                            /\ i + 1 \in 1..Len(cmds)
                                            /\ Tail(cmds)[i].k # "Transfer"
<1>1. ChannelTypeOK
  BY DEF SessionInv, FlightInv, TypeInv, TypeOK
<1>2. Head(cmds) = cmds[1] /\ 1 \in 1..Len(cmds) /\ cmds[1] \in WorkerCmd
      /\ cmds \in Seq(WorkerCmd) /\ Len(cmds) \in Nat
  BY <1>1, Fronts DEF ChannelTypeOK
<1>3. /\ cmds[1].t \in TaskId /\ state[cmds[1].t] = "InFlight"
      /\ cmds[1].job = job[cmds[1].t] /\ task = 0
      /\ \A i \in 1..Len(cmds) : cmds[i].k = "Transfer" => i = 1
      /\ \A i \in 1..Len(evts) : evts[i].k # "Done"
  BY <1>2, CommandFields DEF SessionInv, CmdsInv, CmdOK
<1>4. ASSUME NEW i \in 1..Len(cmds), cmds[i].k = "Cancel" PROVE cmds[i].t = cmds[1].t
  <2>1. 1 \in 1..(i - 1)
    BY <1>2, <1>4
  <2> QED
    BY <1>2, <1>4, <2>1 DEF SessionInv, CmdsInv, CmdOK
<1>5. /\ Len(Tail(cmds)) = Len(cmds) - 1
      /\ \A i \in 1..Len(Tail(cmds)) : Tail(cmds)[i] = cmds[i + 1] /\ i + 1 \in 1..Len(cmds)
                                       /\ i + 1 # 1
  BY <1>2
<1> QED
  BY <1>2, <1>3, <1>4, <1>5

\* A Done in front of the screen is the only one, nothing runs or is about to,
\* and behind it there is nothing about a task.
LEMMA DoneAhead ==
    ASSUME SessionInv, evts # <<>>, Head(evts).k = "Done"
    PROVE  /\ Head(evts) = evts[1] /\ 1 \in 1..Len(evts)
           /\ evts[1].t \in TaskId /\ evts[1].outcome \in Outcome
           /\ state[evts[1].t] = "InFlight"
           /\ HasInflight /\ InflightId = evts[1].t
           /\ task = 0
           /\ \A i \in 1..Len(cmds) : cmds[i].k # "Transfer"
           /\ \A i \in 1..Len(Tail(evts)) : /\ Tail(evts)[i] = evts[i + 1]
                                            /\ i + 1 \in 1..Len(evts)
                                            /\ Tail(evts)[i].k \notin {"Done", "Progress"}
<1>1. ChannelTypeOK /\ LedgerTypeOK
  BY DEF SessionInv, FlightInv, TypeInv, TypeOK
<1>2. Head(evts) = evts[1] /\ 1 \in 1..Len(evts) /\ evts[1] \in WorkerEvent
      /\ evts \in Seq(WorkerEvent) /\ Len(evts) \in Nat
  BY <1>1, Fronts DEF ChannelTypeOK
<1>3. /\ evts[1].t \in TaskId /\ evts[1].outcome \in Outcome
      /\ state[evts[1].t] = "InFlight" /\ task = 0
      /\ \A i \in 2..Len(evts) : evts[i].k \notin {"Done", "Progress"}
  BY <1>2, EventFields DEF SessionInv, EvtsInv, EvtOK
<1>4. HasInflight
  BY <1>3 DEF HasInflight, InState
<1>5. InflightId = evts[1].t
  BY <1>1, <1>3, <1>4, InflightMember DEF SessionInv, FlightInv, SingleInFlight
<1>6. \A i \in 1..Len(cmds) : cmds[i].k # "Transfer"
  BY <1>2 DEF SessionInv, CmdsInv, CmdOK
<1>7. \A i \in 1..Len(Tail(evts)) : Tail(evts)[i] = evts[i + 1] /\ i + 1 \in 2..Len(evts)
  BY <1>2
<1> QED
  BY <1>2, <1>3, <1>4, <1>5, <1>6, <1>7

\* Every form leaves the command channel in order.
LEMMA StepCmds == SessionInv /\ [Next]_vars => CmdsInv'
<1> SUFFICES ASSUME SessionInv, [Next]_vars PROVE CmdsInv'
  OBVIOUS
<1> USE DEF workerVars, ledgerVars, uiVars, Open
<1>0. ChannelTypeOK
  BY DEF SessionInv, FlightInv, TypeInv, TypeOK
<1>1. CASE Chat
  BY <1>1, CmdsTold DEF Chat, Flying, NoNewDone
<1>2. CASE Relist
  BY <1>2, CmdsKept DEF Relist, NoNewDone
<1>3. CASE Hear
  <2>1. NoNewDone
    BY <1>0, <1>3 DEF Hear, NoNewDone, ChannelTypeOK
  <2> QED
    BY <1>3, <2>1, CmdsTold DEF Hear, Flying
<1>4. CASE DrainDone
  <2>1. \A i \in 1..Len(cmds) : cmds[i].k # "Transfer" /\ task = 0
    BY <1>4, DoneAhead DEF DrainDone, Draining, Event
  <2>2. UNCHANGED <<cmds, ui, task>>
    BY <1>4 DEF DrainDone
  <2> QED
    BY <2>1, <2>2 DEF SessionInv, CmdsInv, CmdOK
<1>5. CASE DrainEnds
  <2>1. UNCHANGED <<evts, state, job, task>> /\ (Open' => Open) /\ Flying /\ NoNewDone
    BY <1>5 DEF DrainEnds, Flying, NoNewDone
  <2>2. CASE cmds' = cmds
    BY <2>1, <2>2, CmdsKept
  <2>3. CASE cmds' = Append(cmds, Cancel(pendingCancel)) /\ pendingCancel # 0
    <3>1. pendingCancel \in TaskId /\ cmds \in Seq(WorkerCmd)
      BY <1>0, <2>3
      DEF SessionInv, FlightInv, TypeInv, TypeOK, ScreenTypeOK, ChannelTypeOK
    <3>2. Cancel(pendingCancel) \in WorkerCmd
      BY <3>1, CommandTypes
    <3>3. /\ Len(cmds) \in Nat /\ Len(cmds') = Len(cmds) + 1
          /\ \A i \in 1..Len(cmds) : cmds'[i] = cmds[i] /\ cmds[i] \in WorkerCmd
          /\ cmds'[Len(cmds) + 1] = Cancel(pendingCancel)
      BY <2>3, <3>1, <3>2, AppendIndex
    <3>4. \A t \in TaskId : state[t] = "InFlight" => t = pendingCancel
      BY <2>3 DEF SessionInv, PressedInv
    <3>5. \A i \in 1..Len(cmds') : i \in 1..Len(cmds) \/ i = Len(cmds) + 1
      BY <3>3
    <3>6. SUFFICES ASSUME NEW i \in 1..Len(cmds') PROVE CmdOK(i)'
      BY DEF CmdsInv
    <3>7. CASE i \in 1..Len(cmds)
      <4>1. CmdOK(i) /\ cmds'[i] = cmds[i] /\ \A j \in 1..(i - 1) : cmds'[j] = cmds[j]
        BY <3>3, <3>7 DEF SessionInv, CmdsInv
      <4>2. \A j \in 1..Len(cmds') : cmds'[j].k = "Transfer" => j \in 1..Len(cmds) /\ cmds'[j] = cmds[j]
        BY <3>3, <3>5 DEF Cancel
      <4> QED
        BY <2>1, <4>1, <4>2 DEF CmdOK
    <3>8. CASE i = Len(cmds) + 1
      <4>1. task # 0 => task = pendingCancel
        BY <3>4
        DEF SessionInv, TaskInv, FlightInv, TypeInv, TypeOK, WorkerTypeOK
      <4>2. ASSUME NEW j \in 1..(i - 1), cmds'[j].k = "Transfer" PROVE cmds'[j].t = pendingCancel
        <5>1. j \in 1..Len(cmds) /\ cmds'[j] = cmds[j] /\ cmds[j] \in WorkerCmd
          BY <3>3, <3>8
        <5>2. cmds[j].t \in TaskId /\ state[cmds[j].t] = "InFlight"
          BY <4>2, <5>1, CommandFields DEF SessionInv, CmdsInv, CmdOK
        <5> QED
          BY <3>4, <5>1, <5>2
      <4> QED
        BY <2>1, <3>3, <3>8, <4>1, <4>2 DEF CmdOK, Cancel
    <3> QED
      BY <3>5, <3>7, <3>8
  <2> QED
    BY <1>5, <2>2, <2>3 DEF DrainEnds, Send
<1>6. ASSUME NEW t \in TaskId, NEW p \in OverwritePolicy, Depart(t, p) PROVE CmdsInv'
  <2>1. /\ \A i \in 1..Len(cmds) : cmds[i].k # "Transfer"
        /\ \A i \in 1..Len(evts) : evts[i].k # "Done"
        /\ task = 0
    BY <1>6, NothingUnderWay DEF Depart
  <2>2. state' = [state EXCEPT ![t] = "InFlight"] /\ UNCHANGED <<job, evts, task>>
        /\ LedgerTypeOK /\ (Open' => Open)
    BY <1>6 DEF Depart, StartTask, SessionInv, FlightInv, TypeInv, TypeOK
  <2>3. Transfer(t, job[t], p) \in WorkerCmd
    BY <2>2, CommandTypes DEF LedgerTypeOK
  <2>4. /\ Len(cmds) \in Nat /\ Len(cmds') = Len(cmds) + 1
        /\ \A i \in 1..Len(cmds) : cmds'[i] = cmds[i]
        /\ cmds'[Len(cmds) + 1] = Transfer(t, job[t], p)
    BY <1>0, <1>6, <2>3, AppendIndex DEF Depart, ChannelTypeOK
  <2>5. SUFFICES ASSUME NEW i \in 1..Len(cmds') PROVE CmdOK(i)'
    BY DEF CmdsInv
  <2>6. CASE i \in 1..Len(cmds)
    <3>1. /\ CmdOK(i) /\ cmds'[i] = cmds[i]
          /\ \A j \in 1..(i - 1) : j \in 1..Len(cmds) /\ cmds'[j] = cmds[j]
      BY <2>4, <2>6 DEF SessionInv, CmdsInv
    <3> QED
      BY <2>1, <2>2, <2>6, <3>1 DEF CmdOK
  <2>7. CASE i = Len(cmds) + 1
    <3>1. \A j \in 1..Len(cmds') : cmds'[j].k = "Transfer" => j = i
      BY <2>1, <2>4, <2>7
    <3>2. cmds'[i].k = "Transfer" /\ cmds'[i].t = t /\ cmds'[i].job = job[t]
      BY <2>4, <2>7 DEF Transfer
    <3>3. state'[t] = "InFlight"
      BY <2>2 DEF LedgerTypeOK
    <3> QED
      BY <2>1, <2>2, <3>1, <3>2, <3>3 DEF CmdOK
  <2> QED
    BY <2>4, <2>6, <2>7
<1>7. CASE Work
  <2>1. UNCHANGED <<state, job, ui>> /\ task' = task
    BY <1>7 DEF Work
  <2>2. NoNewDone
    <3>1. CASE evts' = evts
      BY <3>1 DEF NoNewDone
    <3>2. ASSUME NEW e \in WorkerEvent, evts' = Append(evts, e), e.k # "Done" PROVE NoNewDone
      <4>1. /\ \A i \in 1..Len(evts) : evts'[i] = evts[i]
            /\ evts'[Len(evts) + 1] = e
            /\ \A i \in 1..Len(evts') : i \in 1..Len(evts) \/ i = Len(evts) + 1
        BY <1>0, <3>2, AppendIndex DEF ChannelTypeOK
      <4> QED
        BY <3>2, <4>1 DEF NoNewDone
    <3> QED
      BY <1>7, <3>1, <3>2 DEF Work
  <2> QED
    BY <1>7, <2>1, <2>2, CmdsKept DEF Work, Flying
<1>8. CASE Begin
  <2>1. task' = cmds[1].t /\ UNCHANGED <<state, job, ui, evts>> /\ cmds' = Tail(cmds)
    BY <1>8, TransferAhead DEF Begin
  <2>2. ASSUME NEW i \in 1..Len(cmds') PROVE CmdOK(i)'
    <3>1. /\ cmds'[i] = cmds[i + 1] /\ i + 1 \in 1..Len(cmds)
          /\ \A j \in 1..Len(cmds') : cmds'[j].k # "Transfer"
          /\ cmds[i + 1].k = "Cancel" => cmds[i + 1].t = cmds[1].t
          /\ \A j \in 1..(i - 1) : j \in 1..Len(cmds')
      BY <1>8, <2>1, TransferAhead DEF Begin
    <3>2. CmdOK(i + 1)
      BY <3>1 DEF SessionInv, CmdsInv
    <3> QED
      BY <2>1, <3>1, <3>2 DEF CmdOK
  <2> QED
    BY <2>2 DEF CmdsInv
<1>9. ASSUME NEW o \in {"Ok", "Failed"}, Refuse(o) PROVE CmdsInv'
  <2>1. task' = 0 /\ UNCHANGED <<state, job, ui>> /\ cmds' = Tail(cmds)
    BY <1>9, TransferAhead DEF Refuse
  <2>2. ASSUME NEW i \in 1..Len(cmds') PROVE CmdOK(i)'
    <3>1. /\ cmds'[i] = cmds[i + 1] /\ i + 1 \in 1..Len(cmds)
          /\ \A j \in 1..Len(cmds') : cmds'[j].k # "Transfer"
          /\ \A j \in 1..(i - 1) : j \in 1..Len(cmds')
      BY <1>9, <2>1, TransferAhead DEF Refuse
    <3>2. CmdOK(i + 1)
      BY <3>1 DEF SessionInv, CmdsInv
    <3> QED
      BY <2>1, <3>1, <3>2 DEF CmdOK
  <2> QED
    BY <2>2 DEF CmdsInv
<1>10. ASSUME NEW o \in Outcome, End(o) PROVE CmdsInv'
  <2>1. /\ task' = 0 /\ UNCHANGED <<state, job, ui>> /\ task # 0
        /\ cmds' = cmds \/ (cmds # <<>> /\ cmds' = Tail(cmds))
    BY <1>10 DEF End, SessionInv, FlightInv, TypeInv, BusyHasTask
  <2>2. PICK d \in {0, 1} :
            \A i \in 1..Len(cmds') : i + d \in 1..Len(cmds) /\ cmds'[i] = cmds[i + d]
    BY <1>0, <2>1, ShrinkIndex DEF ChannelTypeOK
  <2>3. \A i \in 1..Len(cmds') : CmdOK(i + d) /\ cmds'[i].k # "Transfer"
    BY <2>1, <2>2 DEF SessionInv, CmdsInv, CmdOK
  <2>4. ASSUME NEW i \in 1..Len(cmds') PROVE CmdOK(i)'
    <3>1. \A j \in 1..(i - 1) : j \in 1..Len(cmds')
      OBVIOUS
    <3> QED
      BY <2>1, <2>2, <2>3, <3>1 DEF CmdOK
  <2> QED
    BY <2>4 DEF CmdsInv
<1>11. CASE Stop
  BY <1>11 DEF Stop, CmdsInv
<1> QED
  BY <1>1, <1>2, <1>3, <1>4, <1>5, <1>6, <1>7, <1>8, <1>9, <1>10, <1>11, StepForms

-------------------------------------------------------------------------------
(* The events under way.                                                      *)

\* Events may be drained from the front as long as their tasks fly on.
LEMMA EvtsKept ==
    ASSUME SessionInv, Flying, task' = task \/ task' = 0,
           evts' = evts \/ (evts # <<>> /\ evts' = Tail(evts))
    PROVE  EvtsInv'
<1>1. evts \in Seq(WorkerEvent)
  BY DEF SessionInv, FlightInv, TypeInv, TypeOK, ChannelTypeOK
<1>2. PICK d \in {0, 1} : \A i \in 1..Len(evts') : i + d \in 1..Len(evts) /\ evts'[i] = evts[i + d]
  BY <1>1, ShrinkIndex
<1>3. SUFFICES ASSUME NEW i \in 1..Len(evts') PROVE EvtOK(i)'
  BY DEF EvtsInv
<1>4. /\ i + d \in 1..Len(evts) /\ evts'[i] = evts[i + d]
      /\ EvtOK(i + d) /\ evts[i + d] \in WorkerEvent
  BY <1>1, <1>2 DEF SessionInv, EvtsInv
<1>5. evts'[i].k \in {"Progress", "Done"} => state'[evts'[i].t] = "InFlight"
  BY <1>4, EventFields DEF EvtOK, Flying
<1>6. ASSUME evts'[i].k = "Done", NEW j \in (i + 1)..Len(evts')
      PROVE  evts'[j].k \notin {"Done", "Progress"}
  <2>1. j \in 1..Len(evts') /\ Len(evts) \in Nat /\ Len(evts') \in Nat
    BY <1>1
  <2>2. j + d \in (i + d + 1)..Len(evts) /\ evts'[j] = evts[j + d]
    BY <1>2, <2>1
  <2> QED
    BY <1>4, <1>6, <2>2 DEF EvtOK
<1>7. evts'[i].k = "Done" => task' = 0
  BY <1>4 DEF EvtOK
<1> QED
  BY <1>5, <1>6, <1>7 DEF EvtOK

\* Every form leaves the event channel in order.
LEMMA StepEvts == SessionInv /\ [Next]_vars => EvtsInv'
<1> SUFFICES ASSUME SessionInv, [Next]_vars PROVE EvtsInv'
  OBVIOUS
<1> USE DEF workerVars, ledgerVars, uiVars
<1>0. evts \in Seq(WorkerEvent) /\ LedgerTypeOK
  BY DEF SessionInv, FlightInv, TypeInv, TypeOK, ChannelTypeOK
<1>1. CASE Chat \/ Relist \/ Hear \/ DrainEnds
  BY <1>1, EvtsKept DEF Chat, Relist, Hear, DrainEnds, Flying
<1>2. CASE DrainDone
  <2>1. evts' = Tail(evts) /\ \A i \in 1..Len(Tail(evts)) : Tail(evts)[i].k \notin {"Done", "Progress"}
    BY <1>2, DoneAhead DEF DrainDone, Draining, Event
  <2> QED
    BY <2>1 DEF EvtsInv, EvtOK
<1>3. ASSUME NEW t \in TaskId, NEW p \in OverwritePolicy, Depart(t, p) PROVE EvtsInv'
  <2>1. evts' = evts /\ \A i \in 1..Len(evts) : evts[i].k \notin {"Done", "Progress"}
    BY <1>3, NothingUnderWay DEF Depart
  <2> QED
    BY <2>1 DEF EvtsInv, EvtOK
<1>4. CASE Work
  <2>1. CASE evts' = evts
    BY <1>4, <2>1, EvtsKept DEF Work, Flying
  <2>2. ASSUME NEW e \in WorkerEvent, evts' = Append(evts, e), e.k # "Done",
               e.k = "Progress" => e.t = task /\ task # 0
        PROVE  EvtsInv'
    <3>1. /\ Len(evts) \in Nat /\ Len(evts') = Len(evts) + 1
          /\ \A i \in 1..Len(evts) : evts'[i] = evts[i]
          /\ evts'[Len(evts) + 1] = e
          /\ \A i \in 1..Len(evts') : i \in 1..Len(evts) \/ i = Len(evts) + 1
      BY <1>0, <2>2, AppendIndex
    <3>2. UNCHANGED <<state, task>>
      BY <1>4 DEF Work
    <3>3. SUFFICES ASSUME NEW i \in 1..Len(evts') PROVE EvtOK(i)'
      BY DEF EvtsInv
    <3>4. CASE i = Len(evts) + 1
      BY <2>2, <3>1, <3>2, <3>4 DEF EvtOK, SessionInv, TaskInv
    <3>5. CASE i \in 1..Len(evts)
      <4>1. evts'[i] = evts[i] /\ EvtOK(i)
        BY <3>1, <3>5 DEF SessionInv, EvtsInv
      <4>2. ASSUME evts[i].k = "Done", NEW j \in (i + 1)..Len(evts')
            PROVE  evts'[j].k \notin {"Done", "Progress"}
        <5>1. CASE j = Len(evts) + 1
          BY <2>2, <3>1, <4>1, <4>2, <5>1 DEF EvtOK
        <5>2. CASE j \in (i + 1)..Len(evts)
          BY <3>1, <3>5, <4>1, <4>2, <5>2 DEF EvtOK
        <5> QED
          BY <3>1, <3>5, <5>1, <5>2
      <4> QED
        BY <3>2, <4>1, <4>2 DEF EvtOK
    <3> QED
      BY <3>1, <3>4, <3>5
  <2> QED
    BY <1>4, <2>1, <2>2 DEF Work
<1>5. CASE Begin
  <2>1. UNCHANGED <<evts, state>> /\ \A i \in 1..Len(evts) : evts[i].k # "Done"
    BY <1>5, TransferAhead DEF Begin
  <2> QED
    BY <2>1 DEF SessionInv, EvtsInv, EvtOK
<1>6. ASSUME NEW u \in TaskId, NEW o \in Outcome, evts' = Append(evts, Done(u, o)),
             state[u] = "InFlight", task' = 0, UNCHANGED state,
             \A i \in 1..Len(evts) : evts[i].k # "Done"
      PROVE  EvtsInv'
  <2>1. Done(u, o) \in WorkerEvent
    BY EventTypes
  <2>2. /\ Len(evts) \in Nat /\ Len(evts') = Len(evts) + 1
        /\ \A i \in 1..Len(evts) : evts'[i] = evts[i]
        /\ evts'[Len(evts) + 1] = Done(u, o)
        /\ \A i \in 1..Len(evts') : i \in 1..Len(evts) \/ i = Len(evts) + 1
    BY <1>0, <1>6, <2>1, AppendIndex
  <2>3. SUFFICES ASSUME NEW i \in 1..Len(evts') PROVE EvtOK(i)'
    BY DEF EvtsInv
  <2>4. CASE i = Len(evts) + 1
    BY <1>6, <2>2, <2>4 DEF EvtOK, Done
  <2>5. CASE i \in 1..Len(evts)
    BY <1>6, <2>2, <2>5 DEF EvtOK, SessionInv, EvtsInv
  <2> QED
    BY <2>2, <2>4, <2>5
<1>7. ASSUME NEW o \in {"Ok", "Failed"}, Refuse(o) PROVE EvtsInv'
  <2>1. /\ cmds[1].t \in TaskId /\ state[cmds[1].t] = "InFlight" /\ task = 0
        /\ \A i \in 1..Len(evts) : evts[i].k # "Done"
        /\ evts' = Append(evts, Done(cmds[1].t, o))
    BY <1>7, TransferAhead DEF Refuse
  <2> QED
    BY <1>6, <1>7, <2>1 DEF Refuse, Outcome
<1>8. ASSUME NEW o \in Outcome, End(o) PROVE EvtsInv'
  <2>1. task \in TaskId /\ task # 0 /\ state[task] = "InFlight"
    BY <1>8
    DEF End, SessionInv, FlightInv, TypeInv, BusyHasTask, TypeOK, WorkerTypeOK, TaskInv
  <2>2. \A i \in 1..Len(evts) : evts[i].k # "Done"
    BY <2>1 DEF SessionInv, EvtsInv, EvtOK
  <2> QED
    BY <1>6, <1>8, <2>1, <2>2 DEF End
<1>9. CASE Stop
  BY <1>9, EvtsKept DEF Stop, Flying
<1> QED
  BY <1>1, <1>2, <1>3, <1>4, <1>5, <1>7, <1>8, <1>9, StepForms

-------------------------------------------------------------------------------
(* The worker's task, the ledger and the loop.                                *)

\* A Done drained leaves nothing in flight, and changes only the task it names.
LEMMA DoneDrained ==
    ASSUME SessionInv, DrainDone
    PROVE  /\ ~HasInflight'
           /\ \A t \in TaskId : state'[t] # "InFlight"
           /\ state' = [state EXCEPT ![evts[1].t] = evts[1].outcome]
           /\ progress' = [progress EXCEPT ![evts[1].t] = 0]
           /\ UNCHANGED <<job, nextId, cmds, ui, pendingCancel, connect, workerVars>>
           /\ ui = "drain" /\ evts' = Tail(evts) /\ evts # <<>>
<1>1. evts # <<>> /\ Head(evts).k = "Done" /\ evts' = Tail(evts) /\ ui = "drain"
  BY DEF DrainDone, Draining, Event
<1>2. /\ Head(evts) = evts[1] /\ evts[1].outcome \in Outcome
      /\ HasInflight /\ InflightId = evts[1].t
  BY <1>1, DoneAhead
<1>3. FinishInflight(evts[1].outcome)
  BY <1>2 DEF DrainDone, Event
<1>4. ~HasInflight'
  BY <1>2, <1>3, FinishLeavesNone DEF SessionInv, FlightInv, TypeInv, TypeOK
<1>5. /\ state' = [state EXCEPT ![evts[1].t] = evts[1].outcome]
      /\ progress' = [progress EXCEPT ![evts[1].t] = 0]
      /\ UNCHANGED <<job, nextId>>
  BY <1>2, <1>3 DEF FinishInflight
<1>6. UNCHANGED <<cmds, ui, pendingCancel, connect, workerVars>>
  BY DEF DrainDone, flagVars
<1> QED
  BY <1>1, <1>4, <1>5, <1>6 DEF HasInflight, InState

\* The worker only ever works on the task in flight.
LEMMA StepTask == SessionInv /\ [Next]_vars => TaskInv'
<1> SUFFICES ASSUME SessionInv, [Next]_vars PROVE TaskInv'
  OBVIOUS
<1> USE DEF workerVars, ledgerVars, Busy
<1>0. TaskInv /\ task \in TaskId \cup {0}
  BY DEF SessionInv, FlightInv, TypeInv, TypeOK, WorkerTypeOK
<1>1. CASE Chat \/ Relist \/ Hear \/ DrainEnds
  <2>1. Flying /\ UNCHANGED workerVars
    BY <1>1 DEF Chat, Relist, Hear, DrainEnds, Flying
  <2> QED
    BY <1>0, <2>1 DEF TaskInv, Flying
<1>2. CASE DrainDone
  <2>1. task = 0 /\ UNCHANGED workerVars
    BY <1>2, DoneAhead DEF DrainDone, Draining, Event
  <2> QED
    BY <1>0, <2>1 DEF TaskInv
<1>3. ASSUME NEW t \in TaskId, NEW p \in OverwritePolicy, Depart(t, p) PROVE TaskInv'
  <2>1. task = 0 /\ UNCHANGED workerVars
    BY <1>3, NothingUnderWay DEF Depart
  <2> QED
    BY <1>0, <2>1 DEF TaskInv
<1>4. CASE Work
  BY <1>0, <1>4 DEF Work, TaskInv
<1>5. CASE Begin
  <2>1. /\ task' = cmds[1].t /\ run'.job = cmds[1].job
        /\ state[cmds[1].t] = "InFlight" /\ cmds[1].job = job[cmds[1].t]
    BY <1>5, TransferAhead DEF Begin
  <2> QED
    BY <1>5, <2>1 DEF Begin, TaskInv
<1>6. CASE Stop \/ (\E o \in {"Ok", "Failed"} : Refuse(o)) \/ (\E o \in Outcome : End(o))
  BY <1>0, <1>6 DEF Stop, Refuse, End, TaskInv
<1> QED
  BY <1>1, <1>2, <1>3, <1>4, <1>5, <1>6, StepForms

\* Ids not handed out stay unborn; a finished task shows no sample.
LEMMA StepFresh == SessionInv /\ [Next]_vars => Fresh' /\ ProgressIsOwn'
<1> SUFFICES ASSUME SessionInv, [Next]_vars PROVE Fresh' /\ ProgressIsOwn'
  OBVIOUS
<1> USE DEF ledgerVars, Fresh, ProgressIsOwn
<1>0. LedgerTypeOK /\ Fresh /\ ProgressIsOwn
  BY DEF SessionInv, FlightInv, TypeInv, TypeOK
<1>1. CASE Chat \/ DrainEnds \/ Work \/ Begin \/ Stop \/ (\E o \in {"Ok", "Failed"} : Refuse(o))
           \/ \E o \in Outcome : End(o)
  <2>1. UNCHANGED <<state, nextId, progress>>
    BY <1>1 DEF Chat, DrainEnds, Work, Begin, Stop, Refuse, End
  <2> QED
    BY <1>0, <2>1
<1>2. CASE Relist
  BY <1>2 DEF Relist
<1>3. CASE Hear
  BY <1>0, <1>3 DEF Hear
<1>4. CASE DrainDone
  <2>1. evts[1].t \in TaskId /\ state[evts[1].t] = "InFlight"
    BY <1>4, DoneAhead DEF DrainDone, Draining, Event
  <2>2. \A u \in TaskId : state[u] = "InFlight" => u = evts[1].t
    BY <2>1 DEF SessionInv, FlightInv, SingleInFlight
  <2> QED
    BY <1>0, <1>4, <2>1, <2>2, DoneDrained DEF LedgerTypeOK
<1>5. ASSUME NEW t \in TaskId, NEW p \in OverwritePolicy, Depart(t, p)
      PROVE  Fresh' /\ ProgressIsOwn'
  BY <1>0, <1>5 DEF Depart, StartTask, LedgerTypeOK
<1> QED
  BY <1>1, <1>2, <1>3, <1>4, <1>5, StepForms

\* A cancel pressed is sent in the same turn, before anything else starts.
LEMMA StepPressed == SessionInv /\ [Next]_vars => PressedInv'
<1> SUFFICES ASSUME SessionInv, [Next]_vars PROVE PressedInv'
  OBVIOUS
<1> USE DEF uiVars, flagVars, ledgerVars
<1>0. /\ PressedInv /\ SingleInFlight /\ pendingCancel' \in TaskId \cup {0}
  BY FlightStep DEF SessionInv, FlightInv, TypeInv, TypeOK, ScreenTypeOK
<1>1. CASE Chat
  <2>1. UNCHANGED state
    BY <1>1 DEF Chat
  <2>2. CASE pendingCancel' # 0 /\ ui' = "drain" /\ state[pendingCancel'] = "InFlight"
    BY <1>0, <2>1, <2>2 DEF PressedInv, SingleInFlight
  <2> QED
    BY <1>0, <1>1, <2>1, <2>2 DEF Chat, PressedInv
<1>2. CASE Relist \/ DrainEnds \/ \E t \in TaskId, p \in OverwritePolicy : Depart(t, p)
  BY <1>2 DEF Relist, DrainEnds, Depart, PressedInv
<1>3. CASE Hear \/ Work \/ Begin \/ Stop \/ (\E o \in {"Ok", "Failed"} : Refuse(o))
           \/ \E o \in Outcome : End(o)
  <2>1. UNCHANGED <<state, ui, pendingCancel>>
    BY <1>3 DEF Hear, Work, Begin, Stop, Refuse, End
  <2> QED
    BY <1>0, <2>1 DEF PressedInv
<1>4. CASE DrainDone
  BY <1>0, <1>4, DoneDrained DEF PressedInv
<1> QED
  BY <1>1, <1>2, <1>3, <1>4, StepForms

\* Nothing is queued before the worker serves.
LEMMA StepServed == SessionInv /\ [Next]_vars => ServedInv'
<1> SUFFICES ASSUME SessionInv, [Next]_vars PROVE ServedInv'
  OBVIOUS
<1> USE DEF uiVars, screenVars, ledgerVars, workerVars, Serving, Open, ServedInv
<1>0. /\ ServedInv
      /\ evts \in Seq(WorkerEvent)
  BY DEF SessionInv, FlightInv, TypeInv, TypeOK, ChannelTypeOK
<1>1. CASE Chat
  BY <1>0, <1>1 DEF Chat
<1>2. CASE Relist
  <2>1. /\ connect = "Connected" \/ \E t \in TaskId : state[t] # "Unborn"
        /\ Open' => Open
        /\ UNCHANGED wpc
    BY <1>2 DEF Relist
  <2> QED
    BY <1>0, <2>1
<1>3. CASE Hear
  <2>1. evts' = Tail(evts) /\ evts # <<>> /\ UNCHANGED <<state, ui, wpc>>
    BY <1>3 DEF Hear
  <2>2. /\ Head(evts) = evts[1] /\ 1 \in 1..Len(evts)
        /\ \A i \in 1..Len(evts') : evts'[i] = evts[i + 1] /\ i + 1 \in 1..Len(evts)
    BY <1>0, <2>1
  <2>3. connect' = "Connected" => connect = "Connected" \/ evts[1].k = "Connected"
    BY <1>3, <2>2 DEF Hear
  <2> QED
    BY <1>0, <2>1, <2>2, <2>3
<1>4. CASE DrainDone
  <2>1. evts[1].t \in TaskId /\ state[evts[1].t] # "Unborn" /\ ui = "drain" /\ UNCHANGED wpc
    BY <1>4, DoneAhead, DoneDrained DEF DrainDone, Draining, Event
  <2> QED
    BY <1>0, <2>1
<1>5. CASE DrainEnds
  BY <1>0, <1>5 DEF DrainEnds
<1>6. CASE \E t \in TaskId, p \in OverwritePolicy : Depart(t, p)
  BY <1>6 DEF Depart
<1>7. CASE Work
  <2>1. /\ UNCHANGED <<state, ui, connect>>
        /\ Serving => Serving' \/ ~Open
    BY <1>7 DEF Work
  <2>2. CASE evts' = evts
    BY <1>0, <2>1, <2>2
  <2>3. ASSUME NEW e \in WorkerEvent, evts' = Append(evts, e), e.k = "Connected" => Serving'
        PROVE  ServedInv'
    <3>1. /\ \A i \in 1..Len(evts) : evts'[i] = evts[i]
          /\ evts'[Len(evts) + 1] = e
          /\ \A i \in 1..Len(evts') : i \in 1..Len(evts) \/ i = Len(evts) + 1
      BY <1>0, <2>3, AppendIndex
    <3> QED
      BY <1>0, <2>1, <2>3, <3>1
  <2> QED
    BY <1>7, <2>2, <2>3 DEF Work
<1>8. CASE Begin \/ (\E o \in {"Ok", "Failed"} : Refuse(o)) \/ \E o \in Outcome : End(o)
  BY <1>8 DEF Begin, Refuse, End, Busy
<1>9. CASE Stop
  BY <1>9 DEF Stop
<1> QED
  BY <1>1, <1>2, <1>3, <1>4, <1>5, <1>6, <1>7, <1>8, <1>9, StepForms

\* Some command, some event under way carries the task.
Sent(t) == \E i \in 1..Len(cmds) : cmds[i].k = "Transfer" /\ cmds[i].t = t
Told(t) == \E i \in 1..Len(evts) : evts[i].k = "Done" /\ evts[i].t = t

\* A message sent joins those under way, and one received was the first of them.
LEMMA CarriesKept ==
    ASSUME ChannelTypeOK, NEW t
    PROVE  /\ cmds' = cmds => (Sent(t) => Sent(t)')
           /\ \A c \in WorkerCmd : cmds' = Append(cmds, c) => (Sent(t) => Sent(t)')
           /\ cmds # <<>> /\ cmds' = Tail(cmds) =>
                (Sent(t) => Sent(t)' \/ (Head(cmds).k = "Transfer" /\ Head(cmds).t = t))
           /\ evts' = evts => (Told(t) => Told(t)')
           /\ \A e \in WorkerEvent : evts' = Append(evts, e) => (Told(t) => Told(t)')
           /\ evts # <<>> /\ evts' = Tail(evts) =>
                (Told(t) => Told(t)' \/ (Head(evts).k = "Done" /\ Head(evts).t = t))
<1> USE DEF Sent, Told
<1>0. cmds \in Seq(WorkerCmd) /\ evts \in Seq(WorkerEvent)
  BY DEF ChannelTypeOK
<1>1. ASSUME NEW c \in WorkerCmd, cmds' = Append(cmds, c), Sent(t) PROVE Sent(t)'
  BY <1>0, <1>1, AppendIndex
<1>2. ASSUME NEW e \in WorkerEvent, evts' = Append(evts, e), Told(t) PROVE Told(t)'
  BY <1>0, <1>2, AppendIndex
<1>3. ASSUME NEW S, NEW s \in Seq(S), s # <<>>, NEW i \in 1..Len(s)
      PROVE  (i = 1 /\ Head(s) = s[1]) \/ (i - 1 \in 1..Len(Tail(s)) /\ Tail(s)[i - 1] = s[i])
  BY <1>3
<1>4. ASSUME cmds # <<>>, cmds' = Tail(cmds), Sent(t)
      PROVE  Sent(t)' \/ (Head(cmds).k = "Transfer" /\ Head(cmds).t = t)
  <2>1. PICK i \in 1..Len(cmds) : cmds[i].k = "Transfer" /\ cmds[i].t = t
    BY <1>4
  <2>2. \/ i = 1 /\ Head(cmds) = cmds[1]
        \/ i - 1 \in 1..Len(cmds') /\ cmds'[i - 1] = cmds[i]
    BY <1>0, <1>3, <1>4
  <2> QED
    BY <2>1, <2>2
<1>5. ASSUME evts # <<>>, evts' = Tail(evts), Told(t)
      PROVE  Told(t)' \/ (Head(evts).k = "Done" /\ Head(evts).t = t)
  <2>1. PICK i \in 1..Len(evts) : evts[i].k = "Done" /\ evts[i].t = t
    BY <1>5
  <2>2. \/ i = 1 /\ Head(evts) = evts[1]
        \/ i - 1 \in 1..Len(evts') /\ evts'[i - 1] = evts[i]
    BY <1>0, <1>3, <1>5
  <2> QED
    BY <2>1, <2>2
<1> QED
  BY <1>1, <1>2, <1>4, <1>5

\* What hands a task on names it in the same step.
LEMMA StepCarried == SessionInv /\ [Next]_vars => CarriedInv'
<1> SUFFICES ASSUME SessionInv, [Next]_vars, Open',
                    NEW t \in TaskId, state'[t] = "InFlight"
             PROVE  task' = t \/ Sent(t)' \/ Told(t)'
  BY DEF CarriedInv, Sent, Told
<1> USE DEF workerVars, ledgerVars, uiVars
<1>0. /\ ChannelTypeOK /\ LedgerTypeOK /\ SingleInFlight
      /\ Open /\ state[t] = "InFlight" => task = t \/ Sent(t) \/ Told(t)
  BY DEF SessionInv, FlightInv, TypeInv, TypeOK, CarriedInv, Sent, Told
<1>1. CASE Chat \/ Relist \/ DrainEnds
  <2>1. state[t] = "InFlight" /\ UNCHANGED <<task, evts>> /\ Open
    BY <1>1 DEF Chat, Relist, DrainEnds, NoneStarts, InState, Open
  <2>2. cmds' = cmds \/ \E c \in WorkerCmd : cmds' = Append(cmds, c)
    <3>1. pendingCancel # 0 => Cancel(pendingCancel) \in WorkerCmd
      BY CommandTypes DEF SessionInv, FlightInv, TypeInv, TypeOK, ScreenTypeOK
    <3> QED
      BY <1>1, <3>1 DEF Chat, Relist, DrainEnds, Talks, Send
  <2> QED
    BY <1>0, <2>1, <2>2, CarriesKept
<1>2. CASE Hear
  <2>1. /\ state[t] = "InFlight" /\ task' = task /\ Open
        /\ evts # <<>> /\ evts' = Tail(evts) /\ Head(evts).k # "Done"
        /\ cmds' = cmds \/ \E c \in WorkerCmd : cmds' = Append(cmds, c)
    BY <1>2 DEF Hear, Open, Talks
  <2> QED
    BY <1>0, <2>1, CarriesKept
<1>3. CASE DrainDone
  BY <1>3, DoneDrained
<1>4. ASSUME NEW u \in TaskId, NEW p \in OverwritePolicy, Depart(u, p) PROVE Sent(t)'
  <2>1. u = t
    BY <1>0, <1>4 DEF Depart, StartTask, HasInflight, InState, LedgerTypeOK
  <2>2. Transfer(u, job[u], p) \in WorkerCmd
    BY <1>0, CommandTypes DEF LedgerTypeOK
  <2>3. cmds'[Len(cmds) + 1] = Transfer(u, job[u], p) /\ Len(cmds') = Len(cmds) + 1
        /\ Len(cmds) \in Nat
    BY <1>0, <1>4, <2>2, AppendIndex DEF Depart, ChannelTypeOK
  <2> QED
    BY <2>1, <2>3 DEF Sent, Transfer
<1>5. CASE Work
  <2>1. state[t] = "InFlight" /\ task' = task /\ Open
    BY <1>5 DEF Work, Open
  <2>2. Serving
    BY <2>1 DEF SessionInv, ServedInv
  <2>3. /\ cmds' = cmds \/ (cmds # <<>> /\ cmds' = Tail(cmds) /\ Head(cmds).k # "Transfer")
        /\ evts' = evts \/ \E e \in WorkerEvent : evts' = Append(evts, e)
    BY <1>5, <2>1, <2>2 DEF Work
  <2> QED
    BY <1>0, <2>1, <2>3, CarriesKept
<1>6. CASE Begin
  <2>1. /\ cmds[1].t \in TaskId /\ state[cmds[1].t] = "InFlight"
        /\ task' = cmds[1].t /\ UNCHANGED state
    BY <1>6, TransferAhead DEF Begin
  <2> QED
    BY <1>0, <2>1 DEF SingleInFlight
<1>7. ASSUME NEW u \in TaskId, NEW o \in Outcome, evts' = Append(evts, Done(u, o)),
             state[u] = "InFlight", UNCHANGED state
      PROVE  Told(t)'
  <2>1. u = t /\ Done(u, o) \in WorkerEvent
    BY <1>0, <1>7, EventTypes DEF SingleInFlight
  <2>2. evts'[Len(evts) + 1] = Done(u, o) /\ Len(evts') = Len(evts) + 1 /\ Len(evts) \in Nat
    BY <1>0, <1>7, <2>1, AppendIndex DEF ChannelTypeOK
  <2> QED
    BY <2>1, <2>2 DEF Told, Done
<1>8. ASSUME NEW o \in {"Ok", "Failed"}, Refuse(o) PROVE Told(t)'
  <2>1. /\ cmds[1].t \in TaskId /\ state[cmds[1].t] = "InFlight"
        /\ evts' = Append(evts, Done(cmds[1].t, o)) /\ UNCHANGED state
    BY <1>8, TransferAhead DEF Refuse
  <2> QED
    BY <1>7, <2>1 DEF Outcome
<1>9. ASSUME NEW o \in Outcome, End(o) PROVE Told(t)'
  <2>1. task \in TaskId /\ state[task] = "InFlight"
    BY <1>9
    DEF End, SessionInv, FlightInv, TypeInv, BusyHasTask, TypeOK, WorkerTypeOK, TaskInv
  <2> QED
    BY <1>7, <1>9, <2>1 DEF End
<1>10. CASE Stop
  BY <1>10 DEF Stop, Open
<1> QED
  BY <1>1, <1>2, <1>3, <1>4, <1>5, <1>6, <1>8, <1>9, <1>10, StepForms

-------------------------------------------------------------------------------
(* What follows of every reachable state.                                     *)

\* A fresh session has nothing under way.
LEMMA SessionInit == Init => SessionInv
<1> SUFFICES ASSUME Init PROVE SessionInv
  OBVIOUS
<1>1. /\ state = [t \in TaskId |-> "Unborn"] /\ progress = [t \in TaskId |-> 0]
      /\ cmds = <<>> /\ evts = <<>> /\ task = 0 /\ child = "none"
      /\ pendingCancel = 0 /\ connect = "Connecting"
  BY Zenon DEF Init, LedgerInit, WorkerStarts
<1>2. CmdsInv /\ EvtsInv
  BY <1>1 DEF CmdsInv, EvtsInv
<1>3. TaskInv /\ Fresh /\ ProgressIsOwn /\ PressedInv /\ ServedInv /\ CarriedInv
  BY <1>1 DEF TaskInv, Fresh, ProgressIsOwn, PressedInv, ServedInv, CarriedInv
<1> QED
  BY <1>2, <1>3, FlightInit DEF SessionInv

\* SessionInv is inductive.
LEMMA SessionStep == SessionInv /\ [Next]_vars => SessionInv'
<1> SUFFICES ASSUME SessionInv, [Next]_vars PROVE SessionInv'
  OBVIOUS
<1>1. FlightInv'
  BY FlightStep DEF SessionInv
<1> QED
  BY <1>1, StepCmds, StepEvts, StepTask, StepFresh, StepPressed, StepServed, StepCarried
  DEF SessionInv

\* Every behaviour of the program stays in it.
LEMMA SessionAlways == Spec => []SessionInv
BY SessionInit, SessionStep, PTL DEF Spec

\* set_inflight_progress shows a sample on the task it was taken of, whatever
\* retries, ends and starts came between the sampling and the drain.
THEOREM ProgressOwned == Spec => []ProgressIsOwn
BY SessionAlways, PTL DEF SessionInv

\* classify_inflight_cmd kills the transfer the user pressed Cancel on and no
\* other, however late the command arrives.
THEOREM CancelsHit == Spec => []CancelHitsItsTask
<1>1. SessionInv => CancelHitsItsTask
  <2> SUFFICES ASSUME SessionInv, Busy, cmds # <<>>, Head(cmds).k = "Cancel"
               PROVE  Head(cmds).t = task
    BY DEF CancelHitsItsTask
  <2>1. Head(cmds) = cmds[1] /\ 1 \in 1..Len(cmds) /\ task # 0
    BY Fronts
    DEF SessionInv, FlightInv, TypeInv, TypeOK, ChannelTypeOK, BusyHasTask
  <2> QED
    BY <2>1 DEF SessionInv, CmdsInv, CmdOK
<1> QED
  BY <1>1, SessionAlways, PTL

Sends(t) == {i \in DOMAIN cmds : cmds[i].k = "Transfer" /\ cmds[i].t = t}

\* Where it is decides how many Transfers and Dones carry it.
LEMMA CarriedWhere ==
    ASSUME SessionInv, NEW t \in TaskId
    PROVE  /\ task = t => Sends(t) = {} /\ DoneOf(t) = {}
           /\ Sent(t) => task # t /\ DoneOf(t) = {} /\ \E i : Sends(t) = {i}
           /\ Told(t) => task # t /\ Sends(t) = {} /\ \E i : DoneOf(t) = {i}
           /\ state[t] # "InFlight" => task # t /\ ~Sent(t) /\ ~Told(t)
           /\ ~Sent(t) => Sends(t) = {}
           /\ ~Told(t) => DoneOf(t) = {}
<1>1. /\ DOMAIN cmds = 1..Len(cmds) /\ DOMAIN evts = 1..Len(evts)
      /\ Len(cmds) \in Nat /\ Len(evts) \in Nat
      /\ t # 0
  BY ChannelAssumption DEF SessionInv, FlightInv, TypeInv, TypeOK, ChannelTypeOK, TaskId
<1>2. ASSUME NEW i \in 1..Len(cmds), cmds[i].k = "Transfer"
      PROVE  /\ state[cmds[i].t] = "InFlight" /\ task = 0
             /\ \A j \in 1..Len(cmds) : cmds[j].k = "Transfer" => j = i
             /\ \A j \in 1..Len(evts) : evts[j].k # "Done"
  BY <1>2 DEF SessionInv, CmdsInv, CmdOK
<1>3. ASSUME NEW i \in 1..Len(evts), evts[i].k = "Done"
      PROVE  state[evts[i].t] = "InFlight" /\ task = 0
  BY <1>3 DEF SessionInv, EvtsInv, EvtOK
<1>4. ASSUME NEW i \in 1..Len(evts), evts[i].k = "Done",
             NEW j \in 1..Len(evts), evts[j].k = "Done"
      PROVE  i = j
  <2>1. ~(j \in (i + 1)..Len(evts)) /\ ~(i \in (j + 1)..Len(evts))
    BY <1>4 DEF SessionInv, EvtsInv, EvtOK
  <2> QED
    BY <1>1, <2>1
<1>5. task # 0 => state[task] = "InFlight"
  BY DEF SessionInv, TaskInv
<1>6. task = t => Sends(t) = {} /\ DoneOf(t) = {}
  BY <1>1, <1>2, <1>3 DEF Sends, DoneOf
<1>7. ASSUME Sent(t) PROVE task # t /\ DoneOf(t) = {} /\ \E i : Sends(t) = {i}
  <2>1. PICK i \in 1..Len(cmds) : cmds[i].k = "Transfer" /\ cmds[i].t = t
    BY <1>7 DEF Sent
  <2>2. Sends(t) = {i}
    BY <1>1, <1>2, <2>1 DEF Sends
  <2> QED
    BY <1>1, <1>2, <2>1, <2>2 DEF DoneOf
<1>8. ASSUME Told(t) PROVE task # t /\ Sends(t) = {} /\ \E i : DoneOf(t) = {i}
  <2>1. PICK i \in 1..Len(evts) : evts[i].k = "Done" /\ evts[i].t = t
    BY <1>8 DEF Told
  <2>2. DoneOf(t) = {i}
    BY <1>1, <1>4, <2>1 DEF DoneOf
  <2>3. Sends(t) = {}
    BY <1>1, <1>2, <2>1 DEF Sends
  <2> QED
    BY <1>1, <1>3, <2>1, <2>2, <2>3
<1>9. state[t] # "InFlight" => task # t /\ ~Sent(t) /\ ~Told(t)
  BY <1>1, <1>2, <1>3, <1>5 DEF Sent, Told
<1>10. (~Sent(t) => Sends(t) = {}) /\ (~Told(t) => DoneOf(t) = {})
  BY <1>1 DEF Sent, Told, Sends, DoneOf
<1> QED
  BY <1>6, <1>7, <1>8, <1>9, <1>10

\* No job is lost between the threads, run twice, or finished under another's
\* name: while the screen is open a task is in flight exactly when one of its
\* Transfer, the worker and its Done has it.
THEOREM CarriedOnce == Spec => []JobCarriedOnce
<1>1. SessionInv => JobCarriedOnce
  <2> SUFFICES ASSUME SessionInv, Open, NEW t \in TaskId
               PROVE  Carriers(t) = IF state[t] = "InFlight" THEN 1 ELSE 0
    BY DEF JobCarriedOnce
  <2>1. Carriers(t) = Cardinality(Sends(t)) + Cardinality(DoneOf(t)) + (IF task = t THEN 1 ELSE 0)
    BY DEF Carriers, Sends, DoneOf
  <2>2. Cardinality({}) = 0 /\ \A i : Cardinality({i}) = 1
    BY FS_EmptySet, FS_Singleton
  <2>3. state[t] = "InFlight" => task = t \/ Sent(t) \/ Told(t)
    BY DEF SessionInv, CarriedInv, Sent, Told
  <2>4. CASE task = t
    BY <2>1, <2>2, <2>4, CarriedWhere
  <2>5. CASE Sent(t)
    <3>1. state[t] = "InFlight" /\ task # t /\ DoneOf(t) = {}
      BY <2>5, CarriedWhere
    <3>2. PICK i : Sends(t) = {i}
      BY <2>5, CarriedWhere
    <3>3. Cardinality(Sends(t)) = 1
      BY <3>2, FS_Singleton, Zenon
    <3>4. Cardinality(DoneOf(t)) = 0
      BY <3>1, FS_EmptySet, Zenon
    <3> QED
      BY <2>1, <3>1, <3>3, <3>4
  <2>6. CASE Told(t)
    <3>1. state[t] = "InFlight" /\ task # t /\ Sends(t) = {}
      BY <2>6, CarriedWhere
    <3>2. PICK i : DoneOf(t) = {i}
      BY <2>6, CarriedWhere
    <3>3. Cardinality(DoneOf(t)) = 1
      BY <3>2, FS_Singleton, Zenon
    <3>4. Cardinality(Sends(t)) = 0
      BY <3>1, FS_EmptySet, Zenon
    <3> QED
      BY <2>1, <3>1, <3>3, <3>4
  <2>7. CASE task # t /\ ~Sent(t) /\ ~Told(t)
    BY <2>1, <2>2, <2>3, <2>7, CarriedWhere
  <2> QED
    BY <2>4, <2>5, <2>6, <2>7
<1> QED
  BY <1>1, SessionAlways, PTL

===============================================================================
