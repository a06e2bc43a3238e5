-------------------------- MODULE SftpSession_proofs --------------------------
(***************************************************************************)
(* Proofs about the SFTP session, for every number of tasks, set of jobs,  *)
(* directories and names: type correctness, and one transfer at a time.    *)
(***************************************************************************)
EXTENDS SftpSession, WellFoundedInduction, TLAPS

(***************************************************************************)
(* Least and greatest elements: what First and LastDirection choose.       *)
(***************************************************************************)

\* A set of naturals that is not empty has a least element.
LEMMA LeastExists ==
    ASSUME NEW S \in SUBSET Nat, S # {}
    PROVE  \E x \in S : \A y \in S : x <= y
<1> DEFINE R == OpToRel(<, Nat)
<1>1. IsWellFoundedOn(R, Nat)
  BY NatLessThanWellFounded
<1>2. PICK x \in S : \A y \in S : ~(<<y, x>> \in R)
  <2> HIDE DEF R
  <2> QED BY <1>1, WFMin
<1>3. \A y \in S : <<y, x>> \in R <=> y < x
  BY DEF OpToRel
<1>4. \A y \in S : ~(y < x)
  BY <1>2, <1>3, Zenon
<1> HIDE DEF R
<1>5. S \subseteq Nat
  OBVIOUS
<1> QED
  BY <1>4, <1>5

\* A bounded one has a greatest element too.
LEMMA GreatestExists ==
    ASSUME NEW n \in Nat, NEW S \in SUBSET (0..n), S # {}
    PROVE  \E x \in S : \A y \in S : y <= x
<1> DEFINE D == {n - x : x \in S}
<1>1. D \in SUBSET Nat /\ D # {}
  <2>1. \A x \in S : n - x \in Nat
    OBVIOUS
  <2> QED
    BY <2>1
<1>2. PICK d \in D : \A e \in D : d <= e
  BY <1>1, LeastExists
<1>3. PICK x \in S : d = n - x
  BY <1>2
<1>4. \A y \in S : n - x <= n - y
  BY <1>2, <1>3
<1> QED
  BY <1>3, <1>4

\* First picks a member of the set of tasks it is given.
LEMMA FirstMember ==
    ASSUME NEW S \in SUBSET TaskId, S # {}
    PROVE  First(S) \in S /\ \A u \in S : First(S) <= u
<1>1. S \in SUBSET Nat
  BY ChannelAssumption DEF TaskId
<1>2. \E t \in S : \A u \in S : t <= u
  BY <1>1, LeastExists
<1> QED
  BY <1>2 DEF First

(***************************************************************************)
(* The vocabulary of the channels.                                         *)
(***************************************************************************)

\* Every command the TUI builds is a WorkerCmd (proto.rs).
LEMMA CommandTypes ==
    /\ \A d \in Dirs : List(d) \in WorkerCmd
    /\ \A t \in TaskId, j \in Jobs, p \in OverwritePolicy : Transfer(t, j, p) \in WorkerCmd
    /\ \A t \in TaskId : Cancel(t) \in WorkerCmd
    /\ \A b \in BOOLEAN : HostKeyConfirm(b) \in WorkerCmd
    /\ Shutdown \in WorkerCmd
BY DEF List, Transfer, Cancel, HostKeyConfirm, Shutdown, WorkerCmd

\* Every event the worker emits is a WorkerEvent (proto.rs).
LEMMA EventTypes ==
    /\ \A d \in Dirs, ok \in BOOLEAN : Listing(d, ok) \in WorkerEvent
    /\ \A t \in TaskId : Progress(t) \in WorkerEvent
    /\ \A t \in TaskId, o \in Outcome : Done(t, o) \in WorkerEvent
    /\ \A d \in Dirs : Connected(d) \in WorkerEvent
    /\ ConnectFailed \in WorkerEvent
    /\ HostKeyNeedsConfirm \in WorkerEvent
BY DEF Listing, Progress, Done, Connected, ConnectFailed, HostKeyNeedsConfirm,
       WorkerEvent

\* What a command's kind says of its fields.
LEMMA CommandFields ==
    ASSUME NEW c \in WorkerCmd
    PROVE  /\ c.k = "List" => c.dir \in Dirs
           /\ c.k = "Transfer" => /\ c.t \in TaskId
                                  /\ c.job \in Jobs
                                  /\ c.policy \in OverwritePolicy
           /\ c.k = "Cancel" => c.t \in TaskId
BY DEF WorkerCmd

\* What an event's kind says of its fields.
LEMMA EventFields ==
    ASSUME NEW e \in WorkerEvent
    PROVE  /\ e.k = "Listing" => e.dir \in Dirs /\ e.ok \in BOOLEAN
           /\ e.k = "Progress" => e.t \in TaskId
           /\ e.k = "Done" => e.t \in TaskId /\ e.outcome \in Outcome
           /\ e.k = "Connected" => e.home \in Dirs
BY DEF WorkerEvent

\* A job names a file in a direction.
LEMMA JobFields ==
    ASSUME NEW j \in Jobs
    PROVE  j.dir \in Direction /\ j.name \in Names
BY ChannelAssumption

LEMMA NoRunType == NoRun \in [job : Jobs, policy : OverwritePolicy]
BY ChannelAssumption DEF NoRun, OverwritePolicy

\* SftpWorker::send keeps the command channel well typed.
LEMMA SendType ==
    ASSUME cmds \in Seq(WorkerCmd), NEW c \in WorkerCmd, Send(c)
    PROVE  cmds' \in Seq(WorkerCmd)
BY DEF Send

\* So does the worker's receive, and what it receives is a command.
LEMMA ReceiveType ==
    ASSUME cmds \in Seq(WorkerCmd), Receive
    PROVE  cmds' \in Seq(WorkerCmd) /\ Head(cmds) \in WorkerCmd
BY DEF Receive

\* The worker's emit keeps the event channel well typed.
LEMMA EmitType ==
    ASSUME evts \in Seq(WorkerEvent), NEW e \in WorkerEvent, Emit(e)
    PROVE  evts' \in Seq(WorkerEvent)
BY DEF Emit

\* Leaving the thread empties the command channel and releases everything.
LEMMA ExitType ==
    ASSUME Exit
    PROVE  /\ cmds' \in Seq(WorkerCmd)
           /\ wpc' \in WorkerPc /\ master' \in BOOLEAN /\ pwFile' \in BOOLEAN
<1>1. <<>> \in Seq(WorkerCmd)
  OBVIOUS
<1> QED
  BY <1>1 DEF Exit, WorkerPc

(***************************************************************************)
(* The worker thread and the programs it runs.                             *)
(***************************************************************************)

\* run_transfer works for a task.
BusyHasTask == Busy => task # 0

LEMMA FileUpdate ==
    ASSUME NEW f \in [Direction -> [Names -> FileState]],
           NEW d \in Direction, NEW n \in Names, NEW s \in FileState
    PROVE  [f EXCEPT ![d][n] = s] \in [Direction -> [Names -> FileState]]
<1>1. [f[d] EXCEPT ![n] = s] \in [Names -> FileState]
  OBVIOUS
<1>2. [f EXCEPT ![d] = [f[d] EXCEPT ![n] = s]] \in [Direction -> [Names -> FileState]]
  BY <1>1
<1> QED
  BY <1>2

\* remove_partial_dst leaves a well-formed file table.
LEMMA CleanupType ==
    ASSUME file \in [Direction -> [Names -> FileState]], NEW j \in Jobs,
           NEW f \in AfterCleanup(j)
    PROVE  f \in [Direction -> [Names -> FileState]]
<1> DEFINE gone == [file EXCEPT ![j.dir][j.name] = "absent"]
<1>1. gone \in [Direction -> [Names -> FileState]]
  BY FileUpdate, JobFields DEF FileState
<1>2. f \in {gone, file}
  BY DEF AfterCleanup
<1> QED
  BY <1>1, <1>2

\* What run_transfer leaves behind when a transfer is over.
LEMMA FinishType ==
    ASSUME ChannelTypeOK, WorkerTypeOK, BusyHasTask, Busy,
           NEW o \in Outcome, Finish(o)
    PROVE  /\ evts' \in Seq(WorkerEvent)
           /\ wpc' \in WorkerPc /\ ~Busy'
           /\ task' \in TaskId \cup {0}
           /\ run' \in [job : Jobs, policy : OverwritePolicy]
           /\ child' \in {"none", "running", "ok", "failed"}
<1>1. task \in TaskId
  BY DEF WorkerTypeOK, BusyHasTask
<1>2. Done(task, o) \in WorkerEvent
  BY <1>1, EventTypes
<1>3. evts' \in Seq(WorkerEvent)
  BY <1>2, EmitType DEF Finish, ChannelTypeOK
<1> QED
  BY <1>3, NoRunType DEF Finish, WorkerPc, Busy


\* The connect phase: host key, master, handshake, probe.
LEMMA ConnectTypes ==
    ASSUME ChannelTypeOK, WorkerTypeOK, BusyHasTask, ConnectStep
    PROVE  ChannelTypeOK' /\ WorkerTypeOK' /\ BusyHasTask'
<1> USE DEF ChannelTypeOK, WorkerTypeOK, BusyHasTask, Busy, resources
<1>1. CASE HostKeyKnown
  BY <1>1 DEF HostKeyKnown, chanVars, WorkerPc
<1>2. CASE HostKeyUnknown
  BY <1>2, EmitType, EventTypes DEF HostKeyUnknown, WorkerPc
<1>3. CASE HostKeyScanFails
  BY <1>3, ExitType, EmitType, EventTypes DEF HostKeyScanFails, Exit
<1>4. CASE HostKeyAnswer
  <2>1. CASE Receive /\ wpc' = "spawn" /\ UNCHANGED <<evts, resources>>
    BY <1>4, <2>1, ReceiveType DEF HostKeyAnswer, WorkerPc
  <2>2. CASE Exit /\ Emit(ConnectFailed)
    BY <1>4, <2>2, ExitType, EmitType, EventTypes DEF HostKeyAnswer, Exit
  <2> QED
    BY <1>4, <2>1, <2>2 DEF HostKeyAnswer
<1>5. CASE SpawnMaster
  BY <1>5 DEF SpawnMaster, chanVars, WorkerPc
<1>6. CASE SpawnMasterFails
  BY <1>6, ExitType, EmitType, EventTypes DEF SpawnMasterFails, Exit
<1>7. ASSUME NEW check_ok \in BOOLEAN, NEW master_exited \in BOOLEAN,
             HandshakePoll(check_ok, master_exited)
      PROVE  ChannelTypeOK' /\ WorkerTypeOK' /\ BusyHasTask'
  <2>1. UNCHANGED <<task, run, child, deadline, file>> /\ wpc = "handshake"
    BY <1>7 DEF HandshakePoll
  <2>2. CASE /\ cmds' = IF cmds = <<>> THEN cmds ELSE Tail(cmds)
             /\ wpc' \in {"handshake", "probe"}
             /\ UNCHANGED <<evts, resources>>
    BY <2>1, <2>2 DEF WorkerPc
  <2>3. CASE Exit /\ UNCHANGED evts
    BY <2>1, <2>3, ExitType DEF Exit
  <2>4. CASE Exit /\ Emit(ConnectFailed)
    BY <2>1, <2>4, ExitType, EmitType, EventTypes DEF Exit
  <2> QED
    BY <1>7, <2>1, <2>2, <2>3, <2>4 DEF HandshakePoll
<1>8. ASSUME NEW home \in {Home, Root}, ProbeHome(home)
      PROVE  ChannelTypeOK' /\ WorkerTypeOK' /\ BusyHasTask'
  BY <1>8, WorkerAssumption, EmitType, EventTypes DEF ProbeHome, WorkerPc
<1> QED
  BY <1>1, <1>2, <1>3, <1>4, <1>5, <1>6, <1>7, <1>8 DEF ConnectStep

\* The idle service loop.
LEMMA ServeTypes ==
    ASSUME ChannelTypeOK, WorkerTypeOK, BusyHasTask, ServeStep
    PROVE  ChannelTypeOK' /\ WorkerTypeOK' /\ BusyHasTask'
<1> USE DEF ChannelTypeOK, WorkerTypeOK, BusyHasTask, Busy, resources
<1>1. ASSUME NEW ok \in BOOLEAN, ServeList(ok)
      PROVE  ChannelTypeOK' /\ WorkerTypeOK' /\ BusyHasTask'
  <2>1. cmds' \in Seq(WorkerCmd) /\ Head(cmds) \in WorkerCmd
    BY <1>1, ReceiveType DEF ServeList
  <2>2. Listing(Head(cmds).dir, ok) \in WorkerEvent
    BY <1>1, <2>1, CommandFields, EventTypes DEF ServeList
  <2> QED
    BY <1>1, <2>1, <2>2, EmitType DEF ServeList, workerVars
<1>2. CASE ServeTransfer
  <2> DEFINE c == Head(cmds)
  <2>1. cmds' \in Seq(WorkerCmd) /\ c \in WorkerCmd
    BY <1>2, ReceiveType DEF ServeTransfer
  <2>2. c.t \in TaskId /\ c.job \in Jobs /\ c.policy \in OverwritePolicy
    BY <1>2, <2>1, CommandFields DEF ServeTransfer
  <2> HIDE DEF c
  <2>3. CASE SkipTransfer(c)
    <3>1. Done(c.t, "Ok") \in WorkerEvent
      BY <2>2, EventTypes DEF Outcome
    <3> QED
      BY <2>1, <2>3, <3>1, EmitType DEF SkipTransfer, workerVars
  <2>4. CASE SpawnChildFails(c)
    <3>1. Done(c.t, "Failed") \in WorkerEvent
      BY <2>2, EventTypes DEF Outcome
    <3> QED
      BY <2>1, <2>4, <3>1, EmitType DEF SpawnChildFails, workerVars
  <2>5. CASE SpawnChild(c)
    <3>1. task' \in TaskId /\ task' # 0
      BY <2>2, <2>5, ChannelAssumption DEF SpawnChild, TaskId
    <3>2. run' \in [job : Jobs, policy : OverwritePolicy]
      BY <2>2, <2>5 DEF SpawnChild
    <3> QED
      BY <2>1, <2>5, <3>1, <3>2 DEF SpawnChild, WorkerPc
  <2> QED
    BY <1>2, <2>3, <2>4, <2>5 DEF ServeTransfer, c
<1>3. CASE ServeDrop
  BY <1>3, ReceiveType DEF ServeDrop, workerVars
<1>4. CASE ServeShutdown
  BY <1>4, ExitType DEF ServeShutdown, Exit
<1> QED
  BY <1>1, <1>2, <1>3, <1>4 DEF ServeStep

\* run_transfer.
LEMMA TransferTypes ==
    ASSUME ChannelTypeOK, WorkerTypeOK, BusyHasTask, TransferStep
    PROVE  ChannelTypeOK' /\ WorkerTypeOK' /\ BusyHasTask'
<1>0. /\ cmds \in Seq(WorkerCmd) /\ evts \in Seq(WorkerEvent)
      /\ run.job \in Jobs
      /\ \A f \in AfterCleanup(run.job) : f \in [Direction -> [Names -> FileState]]
  BY CleanupType DEF ChannelTypeOK, WorkerTypeOK
<1>1. CASE ReapOk
  BY <1>1, FinishType
  DEF ReapOk, ChannelTypeOK, WorkerTypeOK, BusyHasTask, Busy, resources, Outcome
<1>2. CASE ReapFailed
  BY <1>0, <1>2, FinishType
  DEF ReapFailed, ChannelTypeOK, WorkerTypeOK, BusyHasTask, Busy, resources, Outcome
<1>3. CASE ReapError
  BY <1>3, FinishType
  DEF ReapError, ChannelTypeOK, WorkerTypeOK, BusyHasTask, Busy, resources, Outcome
<1>4. CASE SampleProgress
  <2>1. Progress(task) \in WorkerEvent
    BY <1>4, EventTypes DEF SampleProgress, BusyHasTask, Busy, WorkerTypeOK
  <2>2. evts' \in Seq(WorkerEvent)
    BY <1>0, <1>4, <2>1, EmitType DEF SampleProgress
  <2> QED
    BY <1>4, <2>2
    DEF SampleProgress, ChannelTypeOK, WorkerTypeOK, BusyHasTask, Busy, resources, WorkerPc
<1>5. CASE WaitTimesOut
  BY <1>5
  DEF WaitTimesOut, ChannelTypeOK, WorkerTypeOK, BusyHasTask, Busy, resources,
      chanVars, WorkerPc
<1>6. CASE CancelTransfer
  BY <1>0, <1>6, FinishType, ReceiveType
  DEF CancelTransfer, ChannelTypeOK, WorkerTypeOK, BusyHasTask, Busy, resources, Outcome
<1>7. CASE ShutdownTransfer
  BY <1>0, <1>7, ExitType, NoRunType
  DEF ShutdownTransfer, ChannelTypeOK, WorkerTypeOK, BusyHasTask, Busy, Exit
<1>8. CASE IgnoreCommand
  BY <1>8, ReceiveType
  DEF IgnoreCommand, ChannelTypeOK, WorkerTypeOK, BusyHasTask, Busy, resources, WorkerPc
<1> QED
  BY <1>1, <1>2, <1>3, <1>4, <1>5, <1>6, <1>7, <1>8 DEF TransferStep

\* The sftp child, and the handshake deadline.
LEMMA ProgramTypes ==
    ASSUME ChannelTypeOK, WorkerTypeOK, BusyHasTask, ProgramStep
    PROVE  ChannelTypeOK' /\ WorkerTypeOK' /\ BusyHasTask'
<1> USE DEF ChannelTypeOK, WorkerTypeOK, BusyHasTask, Busy, resources, chanVars
<1>0. run.job.dir \in Direction /\ run.job.name \in Names
  BY JobFields
<1>1. CASE ChildWrites
  BY <1>0, <1>1, FileUpdate DEF ChildWrites, FileState
<1>2. ASSUME NEW result \in {"ok", "failed"}, ChildExits(result)
      PROVE  ChannelTypeOK' /\ WorkerTypeOK' /\ BusyHasTask'
  BY <1>0, <1>2, FileUpdate DEF ChildExits, FileState
<1>3. CASE HandshakeDeadline
  BY <1>3 DEF HandshakeDeadline
<1> QED
  BY <1>1, <1>2, <1>3 DEF ProgramStep, ChildEnds

(***************************************************************************)
(* The ledger's methods.                                                   *)
(***************************************************************************)
LEMMA LedgerSame ==
    ASSUME LedgerTypeOK, UNCHANGED ledgerVars
    PROVE  LedgerTypeOK'
BY DEF LedgerTypeOK, ledgerVars

\* enqueue() gives each job of the batch an id of its own.
LEMMA EnqueueType ==
    ASSUME LedgerTypeOK, NEW n \in 1..MaxBatch, NEW js \in [1..n -> Jobs],
           EnqueueJobs(js)
    PROVE  LedgerTypeOK'
<1> DEFINE new == nextId..(nextId + Len(js) - 1)
<1>1. Len(js) = n /\ n \in Nat
  BY SessionAssumption
<1>2. nextId' \in 1..(MaxTasks + 1)
  BY <1>1, ChannelAssumption DEF EnqueueJobs, LedgerTypeOK
<1>3. state' \in [TaskId -> TaskState]
  BY DEF EnqueueJobs, LedgerTypeOK, TaskState
<1>4. \A t \in TaskId : t \in new => js[t - nextId + 1] \in Jobs
  BY <1>1, ChannelAssumption DEF LedgerTypeOK, TaskId
<1>5. job' = [t \in TaskId |-> IF t \in new THEN js[t - nextId + 1] ELSE job[t]]
  BY DEF EnqueueJobs
<1> HIDE DEF new
<1>6. job' \in [TaskId -> Jobs]
  BY <1>4, <1>5 DEF LedgerTypeOK
<1> QED
  BY <1>2, <1>3, <1>6 DEF EnqueueJobs, LedgerTypeOK

LEMMA InflightMember ==
    ASSUME LedgerTypeOK, HasInflight
    PROVE  InflightId \in TaskId /\ state[InflightId] = "InFlight"
BY FirstMember DEF HasInflight, InflightId, InState

LEMMA LedgerMethodTypes ==
    ASSUME LedgerTypeOK
    PROVE  /\ \A t \in TaskId : StartTask(t) => LedgerTypeOK'
           /\ \A t \in TaskId : DropBatch(t) => LedgerTypeOK'
           /\ \A t \in TaskId : RetryTask(t) => LedgerTypeOK'
           /\ \A t \in TaskId : RemoveTask(t) => LedgerTypeOK'
           /\ \A t \in TaskId : SetInflightProgress(t) => LedgerTypeOK'
           /\ \A o \in Outcome : FinishInflight(o) => LedgerTypeOK'
           /\ TogglePaused => LedgerTypeOK'
<1> USE DEF LedgerTypeOK, TaskState
<1>1. ASSUME NEW t \in TaskId, StartTask(t) PROVE LedgerTypeOK'
  BY <1>1 DEF StartTask
<1>2. ASSUME NEW t \in TaskId, DropBatch(t) PROVE LedgerTypeOK'
  BY <1>2 DEF DropBatch
<1>3. ASSUME NEW t \in TaskId, RetryTask(t) PROVE LedgerTypeOK'
  BY <1>3 DEF RetryTask
<1>4. ASSUME NEW t \in TaskId, RemoveTask(t) PROVE LedgerTypeOK'
  BY <1>4 DEF RemoveTask
<1>5. ASSUME NEW t \in TaskId, SetInflightProgress(t) PROVE LedgerTypeOK'
  BY <1>5, InflightMember DEF SetInflightProgress
<1>6. ASSUME NEW o \in Outcome, FinishInflight(o) PROVE LedgerTypeOK'
  BY <1>6, InflightMember DEF FinishInflight
<1>7. CASE TogglePaused
  BY <1>7 DEF TogglePaused
<1> QED
  BY <1>1, <1>2, <1>3, <1>4, <1>5, <1>6, <1>7

\* last_direction() is the direction of some task, or none.
LEMMA LastDirectionType ==
    ASSUME LedgerTypeOK
    PROVE  LastDirection \in Direction \cup {"None"}
<1> DEFINE ended == {t \in TaskId : state[t] \in Outcome}
           last == CHOOSE t \in ended : \A u \in ended : u <= t
<1>1. ASSUME NEW t \in TaskId PROVE job[t].dir \in Direction
  BY JobFields DEF LedgerTypeOK
<1>2. CASE HasInflight
  BY <1>1, <1>2, InflightMember DEF LastDirection
<1>3. CASE ~HasInflight /\ ended # {}
  <2>1. ended \in SUBSET (0..MaxTasks)
    BY ChannelAssumption DEF TaskId
  <2>2. \E t \in ended : \A u \in ended : u <= t
    BY <1>3, <2>1, GreatestExists, ChannelAssumption
  <2>3. last \in TaskId
    BY <2>2
  <2>4. LastDirection = job[last].dir
    BY <1>3 DEF LastDirection
  <2> QED
    BY <1>1, <2>3, <2>4
<1>4. CASE ~HasInflight /\ ended = {}
  BY <1>4 DEF LastDirection
<1> QED
  BY <1>2, <1>3, <1>4

(***************************************************************************)
(* The TUI thread.                                                         *)
(***************************************************************************)
UITypeOK == ChannelTypeOK /\ LedgerTypeOK /\ ScreenTypeOK

\* Every key keeps the channels, the ledger and the screen well typed.
LEMMA KeyTypes ==
    ASSUME UITypeOK, Key
    PROVE  UITypeOK'
<1> USE DEF UITypeOK, ChannelTypeOK, ScreenTypeOK, chanVars, flagVars, drainVars,
            modalVars, paneVars, screenVars, KeyPressed
<1>1. ASSUME NEW accept \in BOOLEAN, KeyHostKey(accept) PROVE UITypeOK'
  <2>1. HostKeyConfirm(accept) \in WorkerCmd
    BY CommandTypes
  <2>2. cmds' \in Seq(WorkerCmd)
    BY <1>1, <2>1, SendType DEF KeyHostKey
  <2>3. /\ ui' = "drain" /\ hostKey' = FALSE
        /\ UNCHANGED <<evts, ledgerVars>>
        /\ UNCHANGED <<flagVars, drainVars>>
        /\ UNCHANGED <<modalVars, paneVars>>
        /\ UNCHANGED <<keyFile, connect, policy, lastDone>>
    BY <1>1, Zenon DEF KeyHostKey
  <2>4. ScreenTypeOK'
    <3>1. /\ pendingCancel' = pendingCancel /\ pendingAdvance' = pendingAdvance
          /\ doneAdvance' = doneAdvance /\ refresh' = refresh
      BY <2>3
    <3>2. /\ modal' = modal /\ confirmFor' = confirmFor
          /\ cwd' = cwd /\ entries' = entries /\ origin' = origin
          /\ loading' = loading
      BY <2>3
    <3>3. /\ keyFile' = keyFile /\ connect' = connect
          /\ policy' = policy /\ lastDone' = lastDone
      BY <2>3
    <3> QED
      BY <2>3, <3>1, <3>2, <3>3
  <2>5. LedgerTypeOK'
    BY <2>3, LedgerSame
  <2> QED
    BY <2>2, <2>3, <2>4, <2>5
<1>2. ASSUME NEW n \in 1..MaxBatch, NEW js \in [1..n -> Jobs], KeyEnqueue(js)
      PROVE  UITypeOK'
  BY <1>2, EnqueueType DEF KeyEnqueue, RouteEnqueue
<1>3. ASSUME NEW d \in Dirs, KeyNavigate(d) PROVE UITypeOK'
  BY <1>3, LedgerSame, SendType, CommandTypes DEF KeyNavigate
<1>4. CASE KeyOpenQueue
  BY <1>4, LedgerSame DEF KeyOpenQueue
<1>5. CASE KeyCloseQueue
  BY <1>5, LedgerSame DEF KeyCloseQueue
<1>6. ASSUME NEW t \in TaskId, KeyRetry(t) PROVE UITypeOK'
  BY <1>6, LedgerMethodTypes DEF KeyRetry, RouteEnqueue
<1>7. ASSUME NEW t \in TaskId, KeyRemove(t) PROVE UITypeOK'
  BY <1>7, LedgerMethodTypes DEF KeyRemove
<1>8. ASSUME NEW t \in TaskId, KeyCancel(t) PROVE UITypeOK'
  BY <1>8, LedgerSame DEF KeyCancel
<1>9. CASE KeyPause
  BY <1>9, LedgerMethodTypes DEF KeyPause
<1>10. CASE CloseTransfer
  BY <1>10, LedgerSame, SendType, CommandTypes DEF CloseTransfer
<1>11. CASE KeyQuit
  <2>1. CASE /\ KeyPressed
             /\ MustConfirm
             /\ modal' = "confirm"
             /\ confirmFor' = InflightId
             /\ UNCHANGED <<chanVars, ledgerVars, workerVars, flagVars, drainVars,
                            paneVars, keyFile, screenVars>>
    BY <2>1, LedgerSame, InflightMember DEF MustConfirm
  <2> QED
    BY <1>10, <1>11, <2>1 DEF KeyQuit
<1>12. CASE KeyQuitConfirmed
  BY <1>10, <1>12 DEF KeyQuitConfirmed
<1>13. CASE KeyQuitDeclined
  BY <1>13, LedgerSame DEF KeyQuitDeclined
<1>14. CASE KeyQuitUnconnected
  BY <1>10, <1>14 DEF KeyQuitUnconnected
<1> QED
  BY <1>1, <1>2, <1>3, <1>4, <1>5, <1>6, <1>7, <1>8, <1>9, <1>11, <1>12, <1>13,
     <1>14 DEF Key

\* The end of the advance step leaves the screen well typed, and the events as
\* they were.
LEMMA AdvanceDoneTypes ==
    ASSUME ScreenTypeOK, AdvanceDone, policy' \in OverwritePolicy \cup {"None"}
    PROVE  ScreenTypeOK' /\ evts' = evts
<1>1. /\ ui' = "refresh" /\ pendingAdvance' = FALSE /\ doneAdvance' = FALSE
      /\ evts' = evts /\ pendingCancel' = pendingCancel /\ refresh' = refresh
      /\ keyFile' = keyFile /\ connect' = connect /\ hostKey' = hostKey
      /\ lastDone' = lastDone
  BY DEF AdvanceDone
<1>2. modal' = modal /\ confirmFor' = confirmFor
  BY DEF AdvanceDone, modalVars
<1>3. cwd' = cwd /\ entries' = entries /\ origin' = origin /\ loading' = loading
  BY DEF AdvanceDone, paneVars
<1>4. /\ ui' \in {"key", "drain", "advance", "refresh", "joining", "closed"}
      /\ pendingAdvance' \in BOOLEAN /\ doneAdvance' \in BOOLEAN
  BY <1>1
<1>5. /\ pendingCancel' \in TaskId \cup {0} /\ refresh' \in Direction \cup {"None"}
      /\ keyFile' \in BOOLEAN /\ connect' \in Connect /\ hostKey' \in BOOLEAN
      /\ lastDone' \in Outcome \cup {"None"}
  BY <1>1, Zenon DEF ScreenTypeOK
<1>6. modal' \in {"none", "queue", "confirm"} /\ confirmFor' \in TaskId \cup {0}
  BY <1>2, Zenon DEF ScreenTypeOK
<1>7. /\ cwd' \in Dirs /\ entries' \in Dirs \cup {NoDir}
      /\ origin' \in Dirs \cup {NoDir} /\ loading' \in BOOLEAN
  BY <1>3, Zenon DEF ScreenTypeOK
<1> QED
  BY <1>1, <1>4, <1>5, <1>6, <1>7, Zenon DEF ScreenTypeOK

\* So does every step of the loop.
LEMMA LoopTypes ==
    ASSUME UITypeOK, Loop
    PROVE  UITypeOK'
<1> USE DEF UITypeOK, ChannelTypeOK, ScreenTypeOK, chanVars, flagVars, drainVars,
            modalVars, paneVars, screenVars
<1>1. CASE Tick
  BY <1>1, LedgerSame DEF Tick, KeyPressed
<1>2. ASSUME Draining
      PROVE  evts' \in Seq(WorkerEvent) /\ Event \in WorkerEvent
  BY <1>2 DEF Draining, Event
<1>3. CASE DrainListing
  <2>1. evts' \in Seq(WorkerEvent) /\ Event.dir \in Dirs
    BY <1>2, <1>3, EventFields DEF DrainListing
  <2>2. /\ UNCHANGED <<cmds, ui, flagVars, drainVars, modalVars, keyFile, screenVars>>
        /\ LedgerTypeOK'
    BY <1>3, LedgerSame DEF DrainListing
  <2>3. /\ cwd' \in Dirs /\ entries' \in Dirs \cup {NoDir}
        /\ origin' \in Dirs \cup {NoDir} /\ loading' \in BOOLEAN
    BY <1>3, <2>1 DEF DrainListing, FinishSwitch, RevertSwitch
  <2> QED
    BY <2>1, <2>2, <2>3
<1>4. CASE DrainProgress
  BY <1>2, <1>4, LedgerMethodTypes, EventFields DEF DrainProgress
<1>5. CASE DrainConnected
  BY <1>2, <1>5, LedgerSame, EventFields, SendType, CommandTypes
  DEF DrainConnected, Connect
<1>6. CASE DrainConnectFailed
  BY <1>2, <1>6, LedgerSame DEF DrainConnectFailed, Connect
<1>7. CASE DrainHostKey
  BY <1>2, <1>7, LedgerSame DEF DrainHostKey
<1>8. CASE DrainDone
  BY <1>2, <1>8, LedgerMethodTypes, EventFields, LastDirectionType
  DEF DrainDone, AdvancesQueue
<1>9. CASE DrainEnds
  BY <1>9, LedgerSame, SendType, CommandTypes DEF DrainEnds
<1>10. CASE AdvanceIdle
  <2>1. AdvanceDone /\ cmds' = cmds /\ policy' = policy
    BY <1>10 DEF AdvanceIdle
  <2>2. ScreenTypeOK' /\ evts' = evts
    <3> HIDE DEF AdvanceDone
    <3> QED BY <2>1, AdvanceDoneTypes
  <2>3. LedgerTypeOK'
    BY <1>10, LedgerSame DEF AdvanceIdle
  <2> QED
    BY <2>1, <2>2, <2>3
<1>11. ASSUME NEW t \in TaskId, NEW p \in OverwritePolicy, Dispatch(t, p)
       PROVE  LedgerTypeOK' /\ cmds' \in Seq(WorkerCmd)
  <2>1. Transfer(t, job[t], p) \in WorkerCmd
    BY CommandTypes DEF LedgerTypeOK
  <2> QED
    BY <1>11, <2>1, LedgerMethodTypes, SendType DEF Dispatch
<1>12. ASSUME NEW t \in TaskId, AdvanceSend(t) PROVE UITypeOK'
  <2>1. SettledPolicy \in OverwritePolicy
    BY DEF SettledPolicy, OverwritePolicy
  <2>2. Dispatch(t, SettledPolicy) /\ AdvanceDone /\ policy' = policy
    BY <1>12 DEF AdvanceSend
  <2>3. LedgerTypeOK' /\ cmds' \in Seq(WorkerCmd)
    BY <1>11, <2>1, <2>2
  <2>4. ScreenTypeOK' /\ evts' = evts
    BY <2>2, AdvanceDoneTypes
  <2> QED
    BY <2>3, <2>4
<1>13. ASSUME NEW t \in TaskId, NEW answer \in {"OverwriteAll", "SkipAll"},
              AdvanceAsk(t, answer)
       PROVE  UITypeOK'
  <2>1. Dispatch(t, answer) /\ AdvanceDone /\ policy' = answer
    BY <1>13 DEF AdvanceAsk
  <2>2. answer \in OverwritePolicy
    BY DEF OverwritePolicy
  <2>3. LedgerTypeOK' /\ cmds' \in Seq(WorkerCmd)
    BY <1>11, <2>1, <2>2
  <2>4. ScreenTypeOK' /\ evts' = evts
    BY <2>1, <2>2, AdvanceDoneTypes
  <2> QED
    BY <2>3, <2>4
<1>14. ASSUME NEW t \in TaskId, AdvanceAbort(t) PROVE UITypeOK'
  <2>1. DropBatch(t) /\ AdvanceDone /\ cmds' = cmds /\ policy' = policy
    BY <1>14 DEF AdvanceAbort
  <2>2. LedgerTypeOK'
    BY <2>1, LedgerMethodTypes
  <2>3. ScreenTypeOK' /\ evts' = evts
    BY <2>1, AdvanceDoneTypes
  <2> QED
    BY <2>1, <2>2, <2>3
<1>15. CASE Refresh
  <2>1. cmds' \in Seq(WorkerCmd) /\ loading' \in BOOLEAN
    BY <1>15, SendType, CommandTypes DEF Refresh
  <2>2. /\ ui' = "key" /\ refresh' = "None"
        /\ UNCHANGED <<evts, ledgerVars, flagVars, doneAdvance>>
        /\ UNCHANGED <<modalVars, cwd, entries, origin>>
        /\ UNCHANGED <<keyFile, screenVars>>
    BY <1>15 DEF Refresh
  <2>3. LedgerTypeOK'
    BY <2>2, LedgerSame
  <2> QED
    BY <2>1, <2>2, <2>3
<1>16. CASE Joined
  <2>1. /\ ui' = "closed" /\ keyFile' = FALSE
        /\ pendingCancel' = 0 /\ pendingAdvance' = FALSE
        /\ UNCHANGED <<chanVars, ledgerVars, drainVars>>
        /\ UNCHANGED <<modalVars, paneVars, screenVars>>
    BY <1>16 DEF Joined
  <2>2. LedgerTypeOK'
    BY <2>1, LedgerSame
  <2>3. /\ cmds' = cmds /\ evts' = evts
        /\ doneAdvance' = doneAdvance /\ refresh' = refresh
        /\ modal' = modal /\ confirmFor' = confirmFor
    BY <2>1
  <2>4. /\ cwd' = cwd /\ entries' = entries /\ origin' = origin /\ loading' = loading
        /\ connect' = connect /\ hostKey' = hostKey /\ policy' = policy
        /\ lastDone' = lastDone
    BY <2>1
  <2> QED
    BY <2>1, <2>2, <2>3, <2>4
<1> QED
  BY <1>1, <1>3, <1>4, <1>5, <1>6, <1>7, <1>8, <1>9, <1>10, <1>12, <1>13, <1>14,
     <1>15, <1>16 DEF Loop, Drain

(***************************************************************************)
(* Type correctness of the session, with the fact it rests on: a transfer  *)
(* the worker is busy with has a task.                                     *)
(***************************************************************************)
TypeInv == TypeOK /\ BusyHasTask

LEMMA TypeInit == Init => TypeInv
<1> SUFFICES ASSUME Init PROVE TypeInv
  OBVIOUS
<1>1. ChannelTypeOK
  <2>1. cmds = <<>> /\ evts = <<>>
    BY Zenon DEF Init
  <2> QED
    BY <2>1 DEF ChannelTypeOK
<1>2. LedgerTypeOK
  <2>1. LedgerInit
    BY Zenon DEF Init
  <2> DEFINE anyJob == CHOOSE j \in Jobs : TRUE
  <2>2. anyJob \in Jobs
    BY ChannelAssumption
  <2>3. /\ state = [t \in TaskId |-> "Unborn"] /\ job = [t \in TaskId |-> anyJob]
        /\ progress = [t \in TaskId |-> 0] /\ nextId = 1 /\ paused = FALSE
    BY <2>1 DEF LedgerInit
  <2> HIDE DEF anyJob
  <2>4. nextId \in 1..(MaxTasks + 1)
    BY <2>3, ChannelAssumption
  <2>5. state \in [TaskId -> TaskState] /\ progress \in [TaskId -> TaskId \cup {0}]
    BY <2>3 DEF TaskState
  <2>6. job \in [TaskId -> Jobs]
    BY <2>2, <2>3
  <2> QED
    BY <2>3, <2>4, <2>5, <2>6 DEF LedgerTypeOK
<1>3. WorkerTypeOK /\ BusyHasTask
  <2>1. WorkerStarts
    BY Zenon DEF Init
  <2>2. file = [side \in Direction |->
                 [n \in Names |-> IF side = "Download" /\ n \in Existing
                                  THEN "old" ELSE "absent"]]
    BY Zenon DEF Init
  <2>3. file \in [Direction -> [Names -> FileState]]
    BY <2>2 DEF FileState
  <2> QED
    BY <2>1, <2>3, NoRunType
    DEF WorkerStarts, WorkerTypeOK, WorkerPc, BusyHasTask, Busy
<1>4. ScreenTypeOK
  <2>1. keyFile \in BOOLEAN
    <3>1. keyFile = ("inline key" \in Auth)
      BY Zenon DEF Init
    <3>2. ("inline key" \in Auth) \in BOOLEAN
      OBVIOUS
    <3> QED
      BY <3>1, <3>2, Zenon
  <2>2. /\ ui = "key" /\ connect = "Connecting" /\ hostKey = FALSE
        /\ modal = "none" /\ confirmFor = 0 /\ policy = "None"
        /\ pendingCancel = 0 /\ pendingAdvance = FALSE /\ doneAdvance = FALSE
        /\ refresh = "None" /\ lastDone = "None"
        /\ cwd = Root /\ entries = NoDir /\ origin = NoDir /\ loading = TRUE
    BY Zenon DEF Init
  <2> QED
    BY <2>1, <2>2, WorkerAssumption DEF ScreenTypeOK, Connect
<1> QED
  BY <1>1, <1>2, <1>3, <1>4 DEF TypeInv, TypeOK

\* The TUI thread never touches what the worker thread owns.
LEMMA UIKeepsWorker == Key \/ Loop => UNCHANGED workerVars
BY DEF Key, KeyHostKey, KeyEnqueue, KeyNavigate, KeyOpenQueue, KeyCloseQueue,
       KeyRetry, KeyRemove, KeyCancel, KeyPause, KeyQuit, KeyQuitConfirmed,
       KeyQuitDeclined, KeyQuitUnconnected, CloseTransfer, Loop, Tick, Joined,
       Drain, DrainListing, DrainProgress, DrainConnected, DrainConnectFailed,
       DrainHostKey, DrainDone, DrainEnds, AdvanceIdle, AdvanceSend, AdvanceAsk,
       AdvanceAbort, AdvanceDone, Refresh

LEMMA TypeStep == TypeInv /\ [Next]_vars => TypeInv'
<1> SUFFICES ASSUME TypeInv, [Next]_vars PROVE TypeInv'
  OBVIOUS
<1> USE DEF TypeInv, TypeOK, UITypeOK
<1>1. CASE Key \/ Loop
  <2>1. WorkerTypeOK' /\ BusyHasTask'
    BY <1>1, UIKeepsWorker DEF workerVars, WorkerTypeOK, BusyHasTask, Busy
  <2> QED
    BY <1>1, <2>1, KeyTypes, LoopTypes
<1>2. CASE Worker \/ Program
  <2>1. ChannelTypeOK' /\ WorkerTypeOK' /\ BusyHasTask'
    BY <1>2, ConnectTypes, ServeTypes, TransferTypes, ProgramTypes
    DEF Worker, WorkerStep, Program
  <2>2. LedgerTypeOK' /\ UNCHANGED uiVars
    BY <1>2, LedgerSame DEF Worker, Program
  <2> QED
    BY <2>1, <2>2
    DEF ScreenTypeOK, uiVars, flagVars, drainVars, modalVars, paneVars, screenVars
<1>3. CASE UNCHANGED vars
  <2>1. LedgerTypeOK'
    BY <1>3, LedgerSame DEF vars
  <2> QED
    BY <1>3, <2>1
    DEF vars, chanVars, workerVars, resources, ChannelTypeOK, WorkerTypeOK,
        BusyHasTask, Busy, ScreenTypeOK, uiVars, flagVars, drainVars, modalVars,
        paneVars, screenVars
<1> QED
  BY <1>1, <1>2, <1>3 DEF Next, Closed

\* Every reachable state of the session is well typed.
THEOREM TypeCorrect == Spec => []TypeOK
<1>1. TypeInv => TypeOK
  BY DEF TypeInv
<1> QED
  BY <1>1, TypeInit, TypeStep, PTL DEF Spec

(***************************************************************************)
(* One transfer at a time.  SingleInFlight is not inductive: a dispatch    *)
(* does not look at the ledger, it trusts the flags that asked for it.     *)
(* The strengthening says they may be trusted: while a dispatch is asked   *)
(* for (pendingAdvance, or doneAdvance of the running drain) nothing is in *)
(* flight.                                                                 *)
(***************************************************************************)
DispatchSafe == ShouldAdvance => ~HasInflight

FlightInv == TypeInv /\ SingleInFlight /\ DispatchSafe

\* What a step that starts nothing does to the tasks in flight.
NoneStarts == InState("InFlight")' \subseteq InState("InFlight")

\* Fewer tasks in flight, and no new request unless nothing is in flight.
LEMMA NoneStartsSafe ==
    ASSUME FlightInv, NoneStarts, ShouldAdvance' => ShouldAdvance \/ ~HasInflight'
    PROVE  SingleInFlight' /\ DispatchSafe'
BY DEF FlightInv, NoneStarts, SingleInFlight, DispatchSafe, HasInflight, InState

LEMMA SameStarts == UNCHANGED state => NoneStarts
BY DEF NoneStarts, InState

LEMMA LedgerStarts ==
    ASSUME LedgerTypeOK
    PROVE  /\ \A t \in TaskId : DropBatch(t) => NoneStarts
           /\ \A t \in TaskId : RetryTask(t) => NoneStarts
           /\ \A t \in TaskId : RemoveTask(t) => NoneStarts
           /\ \A n \in 1..MaxBatch : \A js \in [1..n -> Jobs] : EnqueueJobs(js) => NoneStarts
           /\ \A o \in Outcome : FinishInflight(o) => NoneStarts
<1> USE DEF NoneStarts, InState, LedgerTypeOK
<1>1. ASSUME NEW t \in TaskId, DropBatch(t) PROVE NoneStarts
  BY <1>1 DEF DropBatch
<1>2. ASSUME NEW t \in TaskId, RetryTask(t) PROVE NoneStarts
  BY <1>2 DEF RetryTask
<1>3. ASSUME NEW t \in TaskId, RemoveTask(t) PROVE NoneStarts
  BY <1>3 DEF RemoveTask
<1>4. ASSUME NEW n \in 1..MaxBatch, NEW js \in [1..n -> Jobs], EnqueueJobs(js)
      PROVE  NoneStarts
  BY <1>4 DEF EnqueueJobs
<1>5. ASSUME NEW o \in Outcome, FinishInflight(o) PROVE NoneStarts
  BY <1>5 DEF FinishInflight, Outcome
<1> QED
  BY <1>1, <1>2, <1>3, <1>4, <1>5

\* finish_inflight() ends the one task in flight, so none is left.
LEMMA FinishLeavesNone ==
    ASSUME LedgerTypeOK, SingleInFlight, NEW o \in Outcome, FinishInflight(o)
    PROVE  ~HasInflight'
<1>1. CASE HasInflight
  <2>1. state' = [state EXCEPT ![InflightId] = o]
    BY <1>1 DEF FinishInflight
  <2>2. \A t \in TaskId : state[t] = "InFlight" => t = InflightId
    BY <1>1, InflightMember DEF SingleInFlight
  <2> QED
    BY <2>1, <2>2 DEF HasInflight, InState, LedgerTypeOK, Outcome
<1>2. CASE ~HasInflight
  BY <1>2 DEF FinishInflight, HasInflight, InState
<1> QED
  BY <1>1, <1>2

LEMMA DispatchSingle ==
    ASSUME LedgerTypeOK, ~HasInflight, NEW t \in TaskId, StartTask(t)
    PROVE  SingleInFlight'
BY DEF LedgerTypeOK, HasInflight, InState, StartTask, SingleInFlight

LEMMA KeySingle ==
    ASSUME FlightInv, Key
    PROVE  SingleInFlight' /\ DispatchSafe'
<1> USE DEF flagVars, drainVars, ShouldAdvance
<1>0. LedgerTypeOK
  BY DEF FlightInv, TypeInv, TypeOK
<1>1. ASSUME UNCHANGED state, UNCHANGED flagVars, UNCHANGED drainVars
      PROVE  SingleInFlight' /\ DispatchSafe'
  BY <1>1, NoneStartsSafe, SameStarts
<1>2. ASSUME NEW accept \in BOOLEAN, KeyHostKey(accept)
      PROVE  SingleInFlight' /\ DispatchSafe'
  BY <1>1, <1>2 DEF KeyHostKey, ledgerVars
<1>3. ASSUME NEW n \in 1..MaxBatch, NEW js \in [1..n -> Jobs], KeyEnqueue(js)
      PROVE  SingleInFlight' /\ DispatchSafe'
  <2>1. NoneStarts
    BY <1>0, <1>3, LedgerStarts DEF KeyEnqueue
  <2>2. ShouldAdvance' => ShouldAdvance \/ ~HasInflight'
    BY <1>3 DEF KeyEnqueue, RouteEnqueue, HasInflight
  <2> QED
    BY <2>1, <2>2, NoneStartsSafe
<1>4. ASSUME NEW d \in Dirs, KeyNavigate(d)
      PROVE  SingleInFlight' /\ DispatchSafe'
  BY <1>1, <1>4 DEF KeyNavigate, ledgerVars
<1>5. CASE KeyOpenQueue \/ KeyCloseQueue \/ KeyQuitDeclined
  BY <1>1, <1>5 DEF KeyOpenQueue, KeyCloseQueue, KeyQuitDeclined, ledgerVars
<1>6. ASSUME NEW t \in TaskId, KeyRetry(t)
      PROVE  SingleInFlight' /\ DispatchSafe'
  <2>1. NoneStarts
    BY <1>0, <1>6, LedgerStarts DEF KeyRetry
  <2>2. ShouldAdvance' => ShouldAdvance \/ ~HasInflight'
    BY <1>6 DEF KeyRetry, RouteEnqueue, HasInflight
  <2> QED
    BY <2>1, <2>2, NoneStartsSafe
<1>7. ASSUME NEW t \in TaskId, KeyRemove(t)
      PROVE  SingleInFlight' /\ DispatchSafe'
  <2>1. NoneStarts
    BY <1>0, <1>7, LedgerStarts DEF KeyRemove
  <2> QED
    BY <1>7, <2>1, NoneStartsSafe DEF KeyRemove
<1>8. ASSUME NEW t \in TaskId, KeyCancel(t)
      PROVE  SingleInFlight' /\ DispatchSafe'
  BY <1>8, NoneStartsSafe, SameStarts DEF KeyCancel, ledgerVars
<1>9. CASE KeyPause
  <2>1. UNCHANGED state
    BY <1>9 DEF KeyPause, TogglePaused
  <2>2. ShouldAdvance' => ShouldAdvance \/ ~HasInflight'
    BY <1>9, <2>1 DEF KeyPause, HasInflight, InState
  <2> QED
    BY <2>1, <2>2, NoneStartsSafe, SameStarts
<1>10. CASE KeyQuit \/ KeyQuitConfirmed \/ KeyQuitUnconnected
  BY <1>1, <1>10
  DEF KeyQuit, KeyQuitConfirmed, KeyQuitUnconnected, CloseTransfer, ledgerVars
<1> QED
  BY <1>2, <1>3, <1>4, <1>5, <1>6, <1>7, <1>8, <1>9, <1>10 DEF Key

LEMMA LoopSingle ==
    ASSUME FlightInv, Loop
    PROVE  SingleInFlight' /\ DispatchSafe'
<1> USE DEF flagVars, drainVars, ShouldAdvance
<1>0. LedgerTypeOK /\ ChannelTypeOK /\ SingleInFlight
  BY DEF FlightInv, TypeInv, TypeOK
<1>1. CASE Tick \/ DrainListing \/ DrainProgress \/ DrainConnected
             \/ DrainConnectFailed \/ DrainHostKey \/ Refresh
  <2>1. UNCHANGED state /\ UNCHANGED <<pendingAdvance, doneAdvance>>
    BY <1>1
    DEF Tick, DrainListing, DrainProgress, DrainConnected, DrainConnectFailed,
        DrainHostKey, Refresh, ledgerVars, SetInflightProgress
  <2> QED
    BY <2>1, NoneStartsSafe, SameStarts
<1>2. CASE DrainDone
  <2>1. Event.outcome \in Outcome
    BY <1>0, <1>2, EventFields DEF DrainDone, Draining, Event, ChannelTypeOK
  <2>2. NoneStarts /\ ~HasInflight'
    BY <1>0, <1>2, <2>1, LedgerStarts, FinishLeavesNone DEF DrainDone
  <2> QED
    BY <2>2, NoneStartsSafe
<1>3. CASE DrainEnds
  BY <1>3, NoneStartsSafe, SameStarts DEF DrainEnds, ledgerVars
<1>4. CASE AdvanceIdle
  BY <1>4, NoneStartsSafe, SameStarts DEF AdvanceIdle, AdvanceDone, ledgerVars
<1>5. ASSUME NEW t \in TaskId, StartTask(t), ShouldAdvance, ~ShouldAdvance'
      PROVE  SingleInFlight' /\ DispatchSafe'
  BY <1>0, <1>5, DispatchSingle DEF FlightInv, DispatchSafe
<1>6. ASSUME NEW t \in TaskId, AdvanceSend(t)
      PROVE  SingleInFlight' /\ DispatchSafe'
  BY <1>5, <1>6 DEF AdvanceSend, AdvanceDone, Dispatch
<1>7. ASSUME NEW t \in TaskId, NEW answer \in {"OverwriteAll", "SkipAll"},
             AdvanceAsk(t, answer)
      PROVE  SingleInFlight' /\ DispatchSafe'
  BY <1>5, <1>7 DEF AdvanceAsk, AdvanceDone, Dispatch
<1>8. ASSUME NEW t \in TaskId, AdvanceAbort(t)
      PROVE  SingleInFlight' /\ DispatchSafe'
  BY <1>0, <1>8, LedgerStarts, NoneStartsSafe DEF AdvanceAbort, AdvanceDone
<1>9. CASE Joined
  BY <1>9, NoneStartsSafe, SameStarts DEF Joined, ledgerVars
<1> QED
  BY <1>1, <1>2, <1>3, <1>4, <1>6, <1>7, <1>8, <1>9 DEF Loop, Drain

LEMMA FlightInit == Init => FlightInv
<1> SUFFICES ASSUME Init PROVE FlightInv
  OBVIOUS
<1>1. state = [t \in TaskId |-> "Unborn"]
  BY Zenon DEF Init, LedgerInit
<1>2. SingleInFlight /\ ~HasInflight
  BY <1>1 DEF SingleInFlight, HasInflight, InState
<1> QED
  BY <1>2, TypeInit DEF FlightInv, DispatchSafe

LEMMA FlightStep == FlightInv /\ [Next]_vars => FlightInv'
<1> SUFFICES ASSUME FlightInv, [Next]_vars PROVE FlightInv'
  OBVIOUS
<1>1. TypeInv'
  BY TypeStep DEF FlightInv
<1>2. CASE Key
  BY <1>1, <1>2, KeySingle DEF FlightInv
<1>3. CASE Loop
  BY <1>1, <1>3, LoopSingle DEF FlightInv
<1>4. CASE Worker \/ Program \/ UNCHANGED vars
  <2>1. UNCHANGED state /\ UNCHANGED <<pendingAdvance, doneAdvance>>
    BY <1>4 DEF Worker, Program, vars, ledgerVars, uiVars, flagVars, drainVars
  <2> QED
    BY <1>1, <2>1, NoneStartsSafe, SameStarts DEF FlightInv, ShouldAdvance
<1> QED
  BY <1>2, <1>3, <1>4 DEF Next, Closed

\* The ledger's "single InFlight task (concurrency = 1)", for every number of
\* tasks, whatever the keys, retries, resumes and late Done events.
THEOREM OneAtATime == Spec => []SingleInFlight
<1>1. FlightInv => SingleInFlight
  BY DEF FlightInv
<1> QED
  BY <1>1, FlightInit, FlightStep, PTL DEF Spec
==============================================================================
