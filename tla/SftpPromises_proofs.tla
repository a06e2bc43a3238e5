------------------------- MODULE SftpPromises_proofs -------------------------
(***************************************************************************)
(* What an SFTP session promises its user, for every number of tasks and   *)
(* set of jobs.                                                            *)
(*                                                                         *)
(* First what it does to files, screen and queue.  On top of SessionInv:   *)
(* who may overwrite what (ConsentInv), what a thread that has returned    *)
(* has released (LeftInv), and who will restart a queue that waits         *)
(* (StallInv).                                                             *)
(*                                                                         *)
(* Then the refinement: every step of the two threads is a step of         *)
(* TransferQueue or leaves that queue as it is.  The status of a task in   *)
(* flight is read off the events under way, of which SessionInv lets at    *)
(* most one be a Done; so a form of step that adds and takes no Done       *)
(* changes no status but what it does to `state'.                          *)
(***************************************************************************)
EXTENDS SftpCarry_proofs

\* Local files that were there before the session.
OldFiles == {n \in Names : file["Download"][n] = "old"}
\* The job writes none of these names.
Spares(j, names) == j.dir = "Download" => j.name \notin names

\* Whoever may write onto a file that was there has been allowed to.
ConsentInv ==
    /\ policy # "Overwrite"
    /\ \A i \in 1..Len(cmds) :
         cmds[i].k = "Transfer" /\ cmds[i].policy = "Overwrite" =>
           Spares(cmds[i].job, OldFiles)
    /\ Busy => /\ run.policy = "Overwrite" => Spares(run.job, OldFiles)
               /\ run.policy # "SkipAll"

\* A thread that has returned holds nothing, a closed screen neither.
LeftInv ==
    /\ wpc = "exited" => ~master /\ ~pwFile
    /\ ui = "closed" => wpc = "exited" /\ ~keyFile
    /\ ui # "closed" => keyFile = ("inline key" \in Auth)

\* An unpaused queue waits: there is work and nothing is in flight.
Waiting == ~paused /\ ~QueueEmpty /\ ~HasInflight

\* A queue that waits is about to be advanced, or was stopped by a failure.
StallInv ==
    Waiting => (ui \in {"drain", "advance"} /\ ShouldAdvance) \/ lastDone = "Failed"

-------------------------------------------------------------------------------
(* Files.                                                                     *)

\* remove_partial_dst removes the file it is given, or nothing.
LEMMA CleanupForm ==
    ASSUME NEW j \in Jobs, NEW f \in AfterCleanup(j)
    PROVE  f = file \/ f = [file EXCEPT ![j.dir][j.name] = "absent"]
BY DEF AfterCleanup

\* A step writes the destination of the running transfer, or nothing.
LEMMA FileForm ==
    ASSUME SessionInv, [Next]_vars
    PROVE  \/ file' = file
           \/ /\ Busy
              /\ \E s \in {"absent", "partial", "new"} :
                     file' = [file EXCEPT ![run.job.dir][run.job.name] = s]
<1>0. TaskInv /\ run.job \in Jobs
  BY DEF SessionInv, FlightInv, TypeInv, TypeOK, WorkerTypeOK
<1>1. CASE Key \/ Loop \/ UNCHANGED vars
  BY <1>1, UIKeepsWorker DEF vars, workerVars
<1>2. CASE ConnectStep \/ ServeStep
  BY <1>2
  DEF ConnectStep, HostKeyKnown, HostKeyUnknown, HostKeyScanFails, HostKeyAnswer,
      SpawnMaster, SpawnMasterFails, HandshakePoll, ProbeHome, ServeStep, ServeList,
      ServeTransfer, SkipTransfer, SpawnChildFails, SpawnChild, ServeDrop, ServeShutdown,
      workerVars
<1>3. CASE TransferStep
  <2>1. CASE ReapOk \/ ReapError \/ SampleProgress \/ WaitTimesOut \/ IgnoreCommand
    BY <2>1 DEF ReapOk, ReapError, SampleProgress, WaitTimesOut, IgnoreCommand
  <2>2. CASE ReapFailed \/ CancelTransfer \/ ShutdownTransfer
    BY <1>0, <2>2, CleanupForm DEF ReapFailed, CancelTransfer, ShutdownTransfer, Busy
  <2> QED
    BY <1>3, <2>1, <2>2 DEF TransferStep
<1>4. CASE ProgramStep
  <2>1. child = "running" => Busy
    BY <1>0 DEF TaskInv
  <2> QED
    BY <1>4, <2>1 DEF ProgramStep, ChildWrites, ChildEnds, ChildExits, HandshakeDeadline
<1> QED
  BY <1>1, <1>2, <1>3, <1>4 DEF Next, Worker, WorkerStep, Program, Closed

\* No file becomes one that was there before.
LEMMA OldShrinks ==
    ASSUME SessionInv, [Next]_vars
    PROVE  OldFiles' \subseteq OldFiles
<1>1. /\ file \in [Direction -> [Names -> FileState]]
      /\ run.job.dir \in Direction /\ run.job.name \in Names
  BY JobFields DEF SessionInv, FlightInv, TypeInv, TypeOK, WorkerTypeOK
<1>2. CASE file' = file
  BY <1>2 DEF OldFiles
<1>3. ASSUME NEW s \in {"absent", "partial", "new"},
             file' = [file EXCEPT ![run.job.dir][run.job.name] = s]
      PROVE  OldFiles' \subseteq OldFiles
  BY <1>1, <1>3 DEF OldFiles, Direction
<1> QED
  BY <1>2, <1>3, FileForm

\* A Transfer under way was under way before, or has just been dispatched.
LEMMA TransfersFrom ==
    ASSUME SessionInv, [Next]_vars, NEW i \in 1..Len(cmds'), cmds'[i].k = "Transfer"
    PROVE  \/ \E j \in 1..Len(cmds) : cmds'[i] = cmds[j]
           \/ \E t \in TaskId, p \in OverwritePolicy :
                  Depart(t, p) /\ cmds'[i] = Transfer(t, job[t], p)
<1>0. cmds \in Seq(WorkerCmd) /\ LedgerTypeOK
  BY DEF SessionInv, FlightInv, TypeInv, TypeOK, ChannelTypeOK
<1>1. CASE cmds' = cmds \/ (cmds # <<>> /\ cmds' = Tail(cmds)) \/ cmds' = <<>>
  BY <1>0, <1>1, ShrinkIndex
<1>2. ASSUME NEW c \in WorkerCmd, c.k # "Transfer", cmds' = Append(cmds, c)
      PROVE  \E j \in 1..Len(cmds) : cmds'[i] = cmds[j]
  BY <1>0, <1>2, AppendIndex
<1>3. CASE Talks
  BY <1>1, <1>2, <1>3 DEF Talks, Talk
<1>4. CASE Chat \/ Relist \/ Hear \/ DrainDone \/ Work \/ Begin \/ Stop
           \/ (\E o \in {"Ok", "Failed"} : Refuse(o)) \/ \E o \in Outcome : End(o)
  BY <1>1, <1>3, <1>4 DEF Chat, Relist, Hear, DrainDone, Work, Begin, Stop, Refuse, End
<1>5. CASE DrainEnds
  <2>1. pendingCancel # 0 => Cancel(pendingCancel) \in WorkerCmd
    BY CommandTypes DEF SessionInv, FlightInv, TypeInv, TypeOK, ScreenTypeOK
  <2>2. Cancel(pendingCancel).k # "Transfer"
    BY DEF Cancel
  <2> QED
    BY <1>1, <1>2, <1>5, <2>1, <2>2 DEF DrainEnds, Send
<1>6. ASSUME NEW t \in TaskId, NEW p \in OverwritePolicy, Depart(t, p)
      PROVE  (\E j \in 1..Len(cmds) : cmds'[i] = cmds[j]) \/ cmds'[i] = Transfer(t, job[t], p)
  <2>1. Transfer(t, job[t], p) \in WorkerCmd
    BY <1>0, CommandTypes DEF LedgerTypeOK
  <2>2. /\ cmds' = Append(cmds, Transfer(t, job[t], p))
        /\ i \in 1..Len(cmds) \/ i = Len(cmds) + 1
    BY <1>0, <1>6, <2>1, AppendIndex DEF Depart
  <2> QED
    BY <1>0, <2>1, <2>2, AppendIndex
<1> QED
  BY <1>4, <1>5, <1>6, StepForms

\* Only the overwrite popup changes the policy, once, and never to "ask nobody".
LEMMA PolicyForm ==
    ASSUME [Next]_vars
    PROVE  \/ policy' = policy
           \/ policy = "None" /\ policy' \in {"OverwriteAll", "SkipAll"}
<1> USE DEF screenVars, uiVars
<1>1. CASE Worker \/ Program \/ UNCHANGED vars
  BY <1>1 DEF Worker, Program, vars
<1>2. CASE Key
  <2>1. CASE KeyQuit
    BY <2>1 DEF KeyQuit, CloseTransfer
  <2> QED
    BY <1>2, <2>1
    DEF Key, KeyHostKey, KeyEnqueue, KeyNavigate, KeyOpenQueue, KeyCloseQueue, KeyRetry,
        KeyRemove, KeyCancel, KeyPause, KeyQuitConfirmed, KeyQuitDeclined,
        KeyQuitUnconnected, CloseTransfer
<1>3. CASE Loop
  BY <1>3
  DEF Loop, Tick, Joined, Drain, DrainListing, DrainProgress, DrainConnected,
      DrainConnectFailed, DrainHostKey, DrainDone, DrainEnds, AdvanceIdle, AdvanceSend,
      AdvanceAsk, MustAsk, AdvanceAbort, Refresh
<1> QED
  BY <1>1, <1>2, <1>3 DEF Next, Closed

\* dispatch_next_job and run_transfer pass the consent on with the job.
LEMMA ConsentStep == SessionInv /\ ConsentInv /\ [Next]_vars => ConsentInv'
<1> SUFFICES ASSUME SessionInv, ConsentInv, [Next]_vars PROVE ConsentInv'
  OBVIOUS
<1>1. policy' # "Overwrite"
  BY PolicyForm DEF ConsentInv
<1>2. ASSUME NEW i \in 1..Len(cmds'), cmds'[i].k = "Transfer", cmds'[i].policy = "Overwrite"
      PROVE  Spares(cmds'[i].job, OldFiles')
  <2>1. ASSUME NEW j \in 1..Len(cmds), cmds'[i] = cmds[j]
        PROVE  Spares(cmds'[i].job, OldFiles')
    <3>1. Spares(cmds[j].job, OldFiles)
      BY <1>2, <2>1 DEF ConsentInv
    <3> QED
      BY <2>1, <3>1, OldShrinks DEF Spares
  <2>2. ASSUME NEW t \in TaskId, NEW p \in OverwritePolicy, Depart(t, p),
               cmds'[i] = Transfer(t, job[t], p)
        PROVE  Spares(cmds'[i].job, OldFiles')
    <3>1. p = "Overwrite" /\ cmds'[i].job = job[t]
      BY <1>2, <2>2 DEF Transfer
    <3>2. ~DestExists(job[t])
      BY <2>2, <3>1 DEF Depart, ConsentInv
    <3>3. Spares(job[t], OldFiles)
      BY <3>2 DEF Spares, OldFiles, DestExists
    <3> QED
      BY <3>1, <3>3, OldShrinks DEF Spares
  <2> QED
    BY <1>2, <2>1, <2>2, TransfersFrom
<1>3. ASSUME Busy'
      PROVE  /\ run'.policy = "Overwrite" => Spares(run'.job, OldFiles')
             /\ run'.policy # "SkipAll"
  <2>1. CASE Begin
    <3>1. cmds # <<>> /\ Head(cmds).k = "Transfer"
      BY <2>1 DEF Begin
    <3>2. /\ run' = [job |-> cmds[1].job, policy |-> cmds[1].policy] /\ 1 \in 1..Len(cmds)
          /\ cmds[1].k = "Transfer" /\ run'.policy # "SkipAll"
      BY <2>1, <3>1, TransferAhead DEF Begin
    <3>3. cmds[1].policy = "Overwrite" => Spares(cmds[1].job, OldFiles)
      BY <3>2 DEF ConsentInv
    <3> QED
      BY <3>2, <3>3, OldShrinks DEF Spares
  <2>2. CASE Busy /\ UNCHANGED run
    <3>1. (run.policy = "Overwrite" => Spares(run.job, OldFiles)) /\ run.policy # "SkipAll"
      BY <2>2 DEF ConsentInv
    <3> QED
      BY <2>2, <3>1, OldShrinks DEF Spares
  <2>3. Begin \/ (Busy /\ UNCHANGED run)
    <3>1. CASE \E o \in Outcome : End(o)
      BY <1>3, <3>1 DEF End, Busy
    <3>2. CASE \/ Chat \/ Relist \/ Hear \/ DrainDone \/ DrainEnds
               \/ \E t \in TaskId, p \in OverwritePolicy : Depart(t, p)
               \/ Work \/ Stop \/ \E o \in {"Ok", "Failed"} : Refuse(o)
      BY <1>3, <3>2
      DEF Chat, Relist, Hear, DrainDone, DrainEnds, Depart, Work, Stop, Refuse, Busy,
          workerVars
    <3> QED
      BY <3>1, <3>2, StepForms
  <2> QED
    BY <2>1, <2>2, <2>3
<1> QED
  BY <1>1, <1>2, <1>3 DEF ConsentInv

\* A fresh session has dispatched nothing.
LEMMA ConsentInit == Init => ConsentInv
<1> SUFFICES ASSUME Init PROVE ConsentInv
  OBVIOUS
<1>1. policy = "None" /\ cmds = <<>> /\ wpc = "hostkey"
  BY Zenon DEF Init, WorkerStarts
<1> QED
  BY <1>1 DEF ConsentInv, Busy

\* A local file that was there before the session is overwritten, or deleted by a
\* cleanup, only by a transfer the user let overwrite files: the overwrite popup,
\* dispatch_next_job's policy and run_transfer's cleanup agree on that.
THEOREM OldFilesSpared == Spec => NoClobberWithoutConsent
<1> DEFINE Clobber ==
             \A n \in Names :
               file["Download"][n] = "old" /\ file'["Download"][n] # "old"
                 => run.policy = "OverwriteAll"
<1>1. SessionInv /\ ConsentInv /\ [Next]_vars => Clobber
  <2> SUFFICES ASSUME SessionInv, ConsentInv, [Next]_vars, NEW n \in Names,
                      file["Download"][n] = "old", file'["Download"][n] # "old"
               PROVE  run.policy = "OverwriteAll"
    OBVIOUS
  <2>1. /\ file \in [Direction -> [Names -> FileState]]
        /\ run.job.dir \in Direction /\ run.job.name \in Names
        /\ run.policy \in OverwritePolicy
    BY JobFields DEF SessionInv, FlightInv, TypeInv, TypeOK, WorkerTypeOK
  <2>2. PICK s \in {"absent", "partial", "new"} :
            file' = [file EXCEPT ![run.job.dir][run.job.name] = s]
    BY FileForm
  <2>3. Busy
    BY FileForm
  <2>4. run.job.dir = "Download" /\ run.job.name = n
    BY <2>1, <2>2 DEF Direction
  <2>5. ~Spares(run.job, OldFiles)
    BY <2>4 DEF Spares, OldFiles
  <2> QED
    BY <2>1, <2>3, <2>5 DEF ConsentInv, OverwritePolicy
<1>2. SessionInv /\ ConsentInv /\ [Next]_vars => [Clobber]_vars
  BY <1>1
<1> QED
  BY <1>2, SessionAlways, ConsentInit, ConsentStep, PTL DEF Spec, NoClobberWithoutConsent

\* A skip under way was chosen; a child that ended well has written its file.
WholeInv ==
    /\ \A i \in 1..Len(cmds) :
         cmds[i].k = "Transfer" /\ cmds[i].policy = "SkipAll" => policy = "SkipAll"
    /\ child = "ok" => file[run.job.dir][run.job.name] = "new"
    /\ OkMeansWhole

\* The commands and the child, step by step.
LEMMA WholeCarried ==
    SessionInv /\ WholeInv /\ [Next]_vars =>
        /\ \A i \in 1..Len(cmds') :
             cmds'[i].k = "Transfer" /\ cmds'[i].policy = "SkipAll" => policy' = "SkipAll"
        /\ child' = "ok" => file'[run'.job.dir][run'.job.name] = "new"
<1> SUFFICES ASSUME SessionInv, WholeInv, [Next]_vars
             PROVE  /\ \A i \in 1..Len(cmds') :
                         cmds'[i].k = "Transfer" /\ cmds'[i].policy = "SkipAll"
                           => policy' = "SkipAll"
                    /\ child' = "ok" => file'[run'.job.dir][run'.job.name] = "new"
  OBVIOUS
<1>1. ASSUME NEW i \in 1..Len(cmds'), cmds'[i].k = "Transfer", cmds'[i].policy = "SkipAll"
      PROVE  policy' = "SkipAll"
  <2>1. ASSUME NEW j \in 1..Len(cmds), cmds'[i] = cmds[j] PROVE policy' = "SkipAll"
    BY <1>1, <2>1, PolicyForm DEF WholeInv
  <2>2. ASSUME NEW t \in TaskId, NEW p \in OverwritePolicy, Depart(t, p),
               cmds'[i] = Transfer(t, job[t], p)
        PROVE  policy' = "SkipAll"
    BY <1>1, <2>2 DEF Depart, Transfer
  <2> QED
    BY <1>1, <2>1, <2>2, TransfersFrom
<1>2. ASSUME child' = "ok" PROVE file'[run'.job.dir][run'.job.name] = "new"
  <2>0. /\ file \in [Direction -> [Names -> FileState]]
        /\ run.job.dir \in Direction /\ run.job.name \in Names
    BY JobFields DEF SessionInv, FlightInv, TypeInv, TypeOK, WorkerTypeOK
  <2>1. CASE UNCHANGED <<child, run, file>>
    BY <1>2, <2>1 DEF WholeInv
  <2>2. CASE Work
    BY <1>2, <2>0, <2>2 DEF Work, WholeInv
  <2>3. CASE Begin \/ Stop \/ \E o \in Outcome : End(o)
    BY <1>2, <2>3 DEF Begin, Stop, End
  <2>4. CASE \/ Chat \/ Relist \/ Hear \/ DrainDone \/ DrainEnds
             \/ \E t \in TaskId, p \in OverwritePolicy : Depart(t, p)
             \/ \E o \in {"Ok", "Failed"} : Refuse(o)
    BY <2>1, <2>4 DEF Chat, Relist, Hear, DrainDone, DrainEnds, Depart, Refuse, workerVars
  <2> QED
    BY <2>2, <2>3, <2>4, StepForms
<1> QED
  BY <1>1, <1>2

\* A report that waits, step by step.
LEMMA WholeReported ==
    SessionInv /\ WholeInv /\ [Next]_vars => OkMeansWhole'
<1> SUFFICES ASSUME SessionInv, WholeInv, [Next]_vars,
                    NEW i \in DOMAIN evts', evts'[i].k = "Done",
                    evts'[i].outcome = "Ok", policy' # "SkipAll"
             PROVE  file'[job'[evts'[i].t].dir][job'[evts'[i].t].name] = "new"
  BY DEF OkMeansWhole
<1>0. /\ evts \in Seq(WorkerEvent) /\ evts' \in Seq(WorkerEvent)
      /\ task \in TaskId \cup {0} /\ (Busy => task # 0)
      /\ policy # "SkipAll"
  BY FlightStep, PolicyForm
  DEF SessionInv, FlightInv, TypeInv, TypeOK, ChannelTypeOK, WorkerTypeOK, BusyHasTask
<1>1. i \in 1..Len(evts')
  BY <1>0
<1>2. ASSUME file' = file, NEW j \in 1..Len(evts), evts'[i] = evts[j],
             job'[evts[j].t] = job[evts[j].t]
      PROVE  file'[job'[evts'[i].t].dir][job'[evts'[i].t].name] = "new"
  BY <1>0, <1>2 DEF WholeInv, OkMeansWhole
<1>3. \A j \in 1..Len(evts) : evts[j].k = "Done" =>
          evts[j].t \in TaskId /\ state[evts[j].t] = "InFlight" /\ task = 0
  BY <1>0, EventFields DEF SessionInv, EvtsInv, EvtOK
<1>4. CASE Chat \/ Relist \/ Hear \/ DrainEnds
  <2>1. Flying /\ file' = file /\ (evts' = evts \/ (evts # <<>> /\ evts' = Tail(evts)))
    BY <1>4 DEF Chat, Relist, Hear, DrainEnds, Flying, workerVars, ledgerVars
  <2>2. PICK j \in 1..Len(evts) : evts'[i] = evts[j]
    <3>1. PICK d \in {0, 1} : \A k \in 1..Len(evts') : k + d \in 1..Len(evts)
                                                     /\ evts'[k] = evts[k + d]
      BY <1>0, <2>1, ShrinkIndex
    <3> QED
      BY <1>1, <3>1
  <2> QED
    BY <1>2, <1>3, <2>1, <2>2 DEF Flying
<1>5. CASE DrainDone
  BY <1>1, <1>5, DoneAhead, DoneDrained DEF DrainDone, Draining, Event
<1>6. CASE \E t \in TaskId, p \in OverwritePolicy : Depart(t, p)
  BY <1>1, <1>6, NothingUnderWay DEF Depart
<1>7. CASE Work
  <2>1. UNCHANGED job
    BY <1>7 DEF Work, ledgerVars
  <2>2. PICK j \in 1..Len(evts) : evts'[i] = evts[j]
    <3>1. CASE evts' = evts
      BY <1>1, <3>1
    <3>2. ASSUME NEW e \in WorkerEvent, evts' = Append(evts, e), e.k # "Done"
          PROVE  \E j \in 1..Len(evts) : evts'[i] = evts[j]
      BY <1>0, <1>1, <3>2, AppendIndex
    <3> QED
      BY <1>7, <3>1, <3>2 DEF Work
  <2>3. file' = file
    <3>1. task = 0
      BY <1>3, <2>2
    <3> QED
      BY <1>0, <3>1, FileForm
  <2> QED
    BY <1>2, <2>1, <2>2, <2>3
<1>8. ASSUME NEW o \in {"Ok", "Failed"}, Refuse(o)
      PROVE  file'[job'[evts'[i].t].dir][job'[evts'[i].t].name] = "new"
  <2>1. /\ evts' = Append(evts, Done(cmds[1].t, o)) /\ cmds[1].t \in TaskId
        /\ cmds[1].k = "Transfer" /\ 1 \in 1..Len(cmds) /\ Head(cmds) = cmds[1]
        /\ \A j \in 1..Len(evts) : evts[j].k # "Done"
    BY <1>8, TransferAhead DEF Refuse
  <2>2. Done(cmds[1].t, o) \in WorkerEvent
    BY <2>1, EventTypes DEF Outcome
  <2>3. o = "Ok"
    BY <1>0, <1>1, <2>1, <2>2, AppendIndex DEF Done
  <2> QED
    BY <1>0, <1>8, <2>1, <2>3 DEF Refuse, WholeInv
<1>9. CASE Begin
  BY <1>1, <1>9, TransferAhead DEF Begin
<1>10. ASSUME NEW o \in Outcome, End(o)
      PROVE  file'[job'[evts'[i].t].dir][job'[evts'[i].t].name] = "new"
  <2>1. /\ task # 0 /\ task \in TaskId /\ run.job = job[task] /\ job' = job
        /\ \A j \in 1..Len(evts) : evts[j].k # "Done"
    BY <1>0, <1>10 DEF End, SessionInv, TaskInv, EvtsInv, EvtOK, ledgerVars
  <2>2. Done(task, o) \in WorkerEvent
    BY <2>1, EventTypes
  <2>3. evts'[i] = Done(task, o)
    BY <1>0, <1>1, <1>10, <2>1, <2>2, AppendIndex DEF End
  <2>4. o = "Ok" /\ evts'[i].t = task
    BY <2>3 DEF Done
  <2> QED
    BY <1>10, <2>1, <2>4 DEF End, WholeInv
<1>11. CASE Stop
  <2>1. UNCHANGED evts /\ task # 0
    BY <1>0, <1>11 DEF Stop
  <2> QED
    BY <1>1, <1>3, <2>1
<1> QED
  BY <1>4, <1>5, <1>6, <1>7, <1>8, <1>9, <1>10, <1>11, StepForms

\* run_transfer reports Ok on the child's own success, after it has written its
\* file, and nothing touches that file before the screen has drained the report;
\* a skip was chosen by the user.
THEOREM OkIsWhole == Spec => []OkMeansWhole
<1>1. Init => WholeInv
  <2> SUFFICES ASSUME Init PROVE WholeInv
    OBVIOUS
  <2>1. evts = <<>> /\ cmds = <<>> /\ child = "none"
    BY Zenon DEF Init, WorkerStarts
  <2> QED
    BY <2>1 DEF WholeInv, OkMeansWhole
<1>2. SessionInv /\ WholeInv /\ [Next]_vars => WholeInv'
  BY WholeCarried, WholeReported DEF WholeInv
<1>3. WholeInv => OkMeansWhole
  BY DEF WholeInv
<1> QED
  BY <1>1, <1>2, <1>3, SessionAlways, PTL DEF Spec

-------------------------------------------------------------------------------
(* What a closed session leaves, a pane shows and a queue waits for.          *)

\* Every return from the thread releases everything; the key file goes last.
LEMMA LeftStep == SessionInv /\ LeftInv /\ [Next]_vars => LeftInv'
<1> SUFFICES ASSUME SessionInv, LeftInv, [Next]_vars PROVE LeftInv'
  OBVIOUS
<1> USE DEF LeftInv, workerVars, uiVars, resources
<1>1. CASE Key
  <2>1. UNCHANGED workerVars
    BY <1>1, UIKeepsWorker
  <2>2. ui = "key" /\ ui' \in {"drain", "joining"} /\ UNCHANGED keyFile
    <3>1. CASE KeyQuit
      BY <3>1 DEF KeyQuit, CloseTransfer, KeyPressed
    <3> QED
      BY <1>1, <3>1
      DEF Key, KeyHostKey, KeyEnqueue, KeyNavigate, KeyOpenQueue, KeyCloseQueue, KeyRetry,
          KeyRemove, KeyCancel, KeyPause, KeyQuitConfirmed, KeyQuitDeclined,
          KeyQuitUnconnected, CloseTransfer, KeyPressed
  <2> QED
    BY <2>1, <2>2
<1>2. CASE Loop
  <2>1. UNCHANGED workerVars
    BY <1>2, UIKeepsWorker
  <2>2. CASE Joined
    <3>1. wpc = "exited" /\ UNCHANGED <<wpc, master, pwFile>> /\ ui' = "closed" /\ ~keyFile'
      BY <2>1, <2>2 DEF Joined
    <3> QED
      BY <3>1, Zenon
  <2>3. CASE Tick \/ Drain
    <3>1. ui # "closed" /\ ui' # "closed" /\ UNCHANGED keyFile
      BY <2>3
      DEF Tick, KeyPressed, Drain, DrainListing, DrainProgress, DrainConnected,
          DrainConnectFailed, DrainHostKey, DrainDone, Draining, DrainEnds, AdvanceIdle,
          AdvanceSend, AdvanceAsk, AdvanceAbort, AdvanceDone, Refresh
    <3> QED
      BY <2>1, <3>1
  <2> QED
    BY <1>2, <2>2, <2>3 DEF Loop
<1>3. CASE ConnectStep /\ UNCHANGED uiVars
  BY <1>3
  DEF ConnectStep, HostKeyKnown, HostKeyUnknown, HostKeyScanFails, HostKeyAnswer,
      SpawnMaster, SpawnMasterFails, HandshakePoll, ProbeHome, Exit
<1>4. CASE (ServeStep \/ TransferStep) /\ UNCHANGED uiVars
  BY <1>4
  DEF ServeStep, ServeList, ServeTransfer, SkipTransfer, SpawnChildFails, SpawnChild,
      ServeDrop, ServeShutdown, TransferStep, ReapOk, ReapFailed, ReapError,
      SampleProgress, WaitTimesOut, CancelTransfer, ShutdownTransfer, IgnoreCommand,
      Finish, Exit
<1>5. CASE ProgramStep /\ UNCHANGED uiVars
  <2>1. UNCHANGED <<wpc, master, pwFile, ui, keyFile>>
    BY <1>5 DEF ProgramStep, ChildWrites, ChildEnds, ChildExits, HandshakeDeadline
  <2> QED
    BY <2>1, Zenon
<1>6. CASE UNCHANGED vars
  BY <1>6 DEF vars
<1> QED
  BY <1>1, <1>2, <1>3, <1>4, <1>5, <1>6 DEF Next, Worker, WorkerStep, Program, Closed

\* close_transfer drops the worker, which tears the master down and is joined,
\* before the key file: the file outlives the master, and nothing outlives the
\* screen, however the session ended.
THEOREM FilesSpan == Spec => []FilesSpanSession
<1>1. Init => LeftInv
  <2>1. Init => wpc = "hostkey" /\ ui = "key" /\ keyFile = ("inline key" \in Auth)
    BY DEF Init, WorkerStarts
  <2> QED
    BY <2>1 DEF LeftInv
<1>2. SessionInv /\ LeftInv => FilesSpanSession
  BY DEF SessionInv, TaskInv, Busy, LeftInv, FilesSpanSession
<1> QED
  BY <1>1, <1>2, LeftStep, SessionAlways, PTL DEF Spec

\* apply_remote_listing drops a listing that comes after the user moved on: the
\* entries of the remote pane are only ever replaced by those of its directory.
THEOREM StaleListingsDropped == Spec => StaleListingNotShown
<1>1. [Next]_vars => entries' = entries \/ entries' = cwd'
  <2> USE DEF uiVars, paneVars
  <2>1. CASE Worker \/ Program \/ UNCHANGED vars
    BY <2>1 DEF Worker, Program, vars
  <2>2. CASE Key
    <3>1. CASE KeyQuit
      BY <3>1 DEF KeyQuit, CloseTransfer
    <3> QED
      BY <2>2, <3>1
      DEF Key, KeyHostKey, KeyEnqueue, KeyNavigate, KeyOpenQueue, KeyCloseQueue, KeyRetry,
          KeyRemove, KeyCancel, KeyPause, KeyQuitConfirmed, KeyQuitDeclined,
          KeyQuitUnconnected, CloseTransfer
  <2>3. CASE Loop
    BY <2>3
    DEF Loop, Tick, Joined, Drain, DrainListing, FinishSwitch, IsCurrent, RevertSwitch,
        DrainProgress, DrainConnected, DrainConnectFailed, DrainHostKey, DrainDone,
        DrainEnds, AdvanceIdle, AdvanceSend, AdvanceAsk, AdvanceAbort, AdvanceDone, Refresh
  <2> QED
    BY <2>1, <2>2, <2>3 DEF Next, Closed
<1>2. [Next]_vars => [entries' # entries => entries' = cwd']_vars
  BY <1>1
<1> QED
  BY <1>2, PTL DEF Spec, StaleListingNotShown

\* Whatever makes a queue wait also asks for its next dispatch, but a failure.
LEMMA StallStep == SessionInv /\ StallInv /\ [Next]_vars => StallInv'
<1> SUFFICES ASSUME SessionInv, StallInv, [Next]_vars PROVE StallInv'
  OBVIOUS
<1> USE DEF StallInv, Waiting, ShouldAdvance, ledgerVars, uiVars, flagVars, drainVars,
            screenVars
<1>0. LedgerTypeOK
  BY DEF SessionInv, FlightInv, TypeInv, TypeOK
<1>1. ASSUME UNCHANGED <<state, paused, pendingAdvance, doneAdvance, lastDone>>,
             ui' = ui \/ ui \notin {"drain", "advance"} \/ ui' \in {"drain", "advance"}
      PROVE  StallInv'
  BY <1>1 DEF QueueEmpty, HasInflight, InState
<1>2. CASE Worker \/ Program \/ UNCHANGED vars
  BY <1>1, <1>2 DEF Worker, Program, vars
<1>3. CASE Key
  <2>0. KeyPressed => ui = "key" /\ ui' = "drain"
    BY DEF KeyPressed
  <2>1. ASSUME RouteEnqueue, UNCHANGED <<paused, doneAdvance, lastDone>>, ui' = "drain"
        PROVE  StallInv'
    BY <2>1 DEF RouteEnqueue, HasInflight
  <2>2. ASSUME NEW t \in TaskId, KeyRemove(t) PROVE StallInv'
    <3>1. RemoveTask(t) /\ UNCHANGED <<pendingAdvance, doneAdvance, lastDone>> /\ ui = "key"
      BY <2>0, <2>2 DEF KeyRemove
    <3>2. (QueueEmpty => QueueEmpty') /\ (HasInflight => HasInflight') /\ UNCHANGED paused
      BY <1>0, <3>1 DEF RemoveTask, LedgerTypeOK, QueueEmpty, HasInflight, InState, Outcome
    <3> QED
      BY <3>1, <3>2
  <2>3. CASE KeyPause
    BY <2>0, <2>3 DEF KeyPause, TogglePaused, QueueEmpty, HasInflight, InState
  <2>4. ASSUME CloseTransfer PROVE StallInv'
    BY <1>1, <2>4 DEF CloseTransfer
  <2>5. CASE KeyQuit
    BY <1>1, <2>0, <2>4, <2>5 DEF KeyQuit
  <2>6. CASE KeyOpenQueue \/ KeyCloseQueue \/ KeyQuitDeclined
    BY <1>1, <2>0, <2>6 DEF KeyOpenQueue, KeyCloseQueue, KeyQuitDeclined
  <2>7. ASSUME NEW accept \in BOOLEAN, KeyHostKey(accept) PROVE StallInv'
    BY <1>1, <2>0, <2>7 DEF KeyHostKey
  <2>8. ASSUME NEW d \in Dirs, KeyNavigate(d) PROVE StallInv'
    BY <1>1, <2>0, <2>8 DEF KeyNavigate
  <2>9. ASSUME NEW t \in TaskId, KeyCancel(t) PROVE StallInv'
    BY <1>1, <2>0, <2>9 DEF KeyCancel
  <2>10. ASSUME NEW t \in TaskId, KeyRetry(t) PROVE StallInv'
    BY <2>0, <2>1, <2>10 DEF KeyRetry, RetryTask
  <2>11. ASSUME NEW n \in 1..MaxBatch, NEW js \in [1..n -> Jobs], KeyEnqueue(js)
         PROVE  StallInv'
    BY <2>0, <2>1, <2>11 DEF KeyEnqueue, EnqueueJobs
  <2> QED
    BY <1>3, <2>2, <2>3, <2>4, <2>5, <2>6, <2>7, <2>8, <2>9, <2>10, <2>11
    DEF Key, KeyQuitConfirmed, KeyQuitUnconnected
<1>4. CASE Tick \/ Joined \/ Refresh
  BY <1>1, <1>4
  DEF Tick, Joined, Refresh, KeyPressed, QueueEmpty, HasInflight, InState
<1>5. CASE DrainListing \/ DrainProgress \/ DrainConnected \/ DrainConnectFailed \/ DrainHostKey
           \/ DrainEnds
  BY <1>1, <1>5
  DEF DrainListing, DrainProgress, SetInflightProgress, DrainConnected, DrainConnectFailed,
      DrainHostKey, DrainEnds
<1>6. CASE DrainDone
  <2>1. Head(evts) = evts[1] /\ evts[1].outcome \in Outcome /\ ui = "drain" /\ UNCHANGED ui
    BY <1>6, DoneAhead DEF DrainDone, Draining, Event
  <2>2. lastDone' = evts[1].outcome
        /\ (evts[1].outcome \in {"Ok", "Cancelled"} => doneAdvance')
    BY <1>6, <2>1 DEF DrainDone, Event, AdvancesQueue
  <2> QED
    BY <2>1, <2>2 DEF Outcome
<1>7. CASE AdvanceIdle
  <2>1. Waiting' => Waiting /\ lastDone' = lastDone /\ ~ShouldAdvance
    BY <1>7 DEF AdvanceIdle, AdvanceDone, Dispatchable, QueueEmpty, HasInflight, InState
  <2> QED
    BY <2>1
<1>8. ASSUME NEW t \in TaskId, StartTask(t) PROVE StallInv'
  BY <1>0, <1>8 DEF StartTask, LedgerTypeOK, HasInflight, InState
<1>9. ASSUME NEW t \in TaskId, AdvanceAbort(t) PROVE StallInv'
  <2>1. QueueEmpty'
    BY <1>9 DEF AdvanceAbort, DropBatch, QueueEmpty, InState
  <2> QED
    BY <2>1
<1>10. CASE Loop
  BY <1>4, <1>5, <1>6, <1>7, <1>8, <1>9, <1>10 DEF Loop, Drain, AdvanceSend, AdvanceAsk, Dispatch
<1> QED
  BY <1>2, <1>3, <1>10 DEF Next, Closed

\* Done handling, retries, resumes and enqueues between them leave work waiting
\* in an unpaused queue only where the last transfer failed.
THEOREM StallsOnlyAfterFailure == Spec => []StallOnlyAfterFailure
<1>1. Init => StallInv
  <2>1. Init => state = [t \in TaskId |-> "Unborn"]
    BY Zenon DEF Init, LedgerInit
  <2> QED
    BY <2>1 DEF StallInv, Waiting, QueueEmpty, InState
<1>2. StallInv => StallOnlyAfterFailure
  BY DEF StallInv, Waiting, StallOnlyAfterFailure, Stalled
<1> QED
  BY <1>1, <1>2, StallStep, SessionAlways, PTL DEF Spec

-------------------------------------------------------------------------------
(* The status of a task, and the queue it makes.                              *)

\* A Done under way says this of the task.
ToldAs(t, o) ==
    \E i \in 1..Len(evts) : evts[i].k = "Done" /\ evts[i].t = t /\ evts[i].outcome = o

\* What the status of a task says.
StatusFacts ==
    \A t \in TaskId :
        /\ state[t] # "InFlight" => Status(t) = state[t]
        /\ state[t] = "InFlight" =>
             \/ Status(t) = "Running" /\ \A o \in Outcome : ~ToldAs(t, o)
             \/ Status(t) \in Outcome /\ \A o \in Outcome : ToldAs(t, o) <=> o = Status(t)

\* A task's status is its ledger state, unless it is in flight and a Done says more.
LEMMA StatusIs == SessionInv => StatusFacts
<1> SUFFICES ASSUME SessionInv, NEW t \in TaskId
             PROVE  /\ state[t] # "InFlight" => Status(t) = state[t]
                    /\ state[t] = "InFlight" =>
                         \/ Status(t) = "Running" /\ \A o \in Outcome : ~ToldAs(t, o)
                         \/ /\ Status(t) \in Outcome
                            /\ \A o \in Outcome : ToldAs(t, o) <=> o = Status(t)
  BY DEF StatusFacts
<1>1. state[t] # "InFlight" => Status(t) = state[t]
  BY DEF Status
<1>2. /\ DOMAIN evts = 1..Len(evts)
      /\ \A i \in 1..Len(evts) : evts[i] \in WorkerEvent
      /\ \A i \in 1..Len(evts) : i \in Nat
  BY DEF SessionInv, FlightInv, TypeInv, TypeOK, ChannelTypeOK
<1>3. ASSUME state[t] = "InFlight", ~Told(t)
      PROVE  Status(t) = "Running" /\ \A o \in Outcome : ~ToldAs(t, o)
  <2>1. DoneOf(t) = {}
    BY <1>3, CarriedWhere
  <2> QED
    BY <1>3, <2>1 DEF Status, Told, ToldAs
<1>4. ASSUME state[t] = "InFlight", Told(t)
      PROVE  /\ Status(t) \in Outcome
             /\ \A o \in Outcome : ToldAs(t, o) <=> o = Status(t)
  <2>1. PICK i : DoneOf(t) = {i}
    BY <1>4, CarriedWhere
  <2>2. i \in 1..Len(evts) /\ evts[i].k = "Done" /\ evts[i].t = t
    BY <1>2, <2>1 DEF DoneOf
  <2>3. First(DoneOf(t)) = i
    <3>1. i <= i
      BY <1>2, <2>2
    <3> QED
      BY <2>1, <3>1 DEF First
  <2>4. Status(t) = evts[i].outcome /\ evts[i].outcome \in Outcome
    BY <1>2, <1>4, <2>1, <2>2, <2>3, EventFields DEF Status
  <2>5. \A j \in 1..Len(evts) : evts[j].k = "Done" /\ evts[j].t = t => j = i
    BY <1>2, <2>1 DEF DoneOf
  <2> QED
    BY <2>2, <2>4, <2>5 DEF ToldAs
<1> QED
  BY <1>1, <1>3, <1>4

\* The same of the state after a step.
LEMMA StatusNext == SessionInv' => StatusFacts'
BY StatusIs, PTL

\* No Done is emitted or drained.
DonesSame == \A t \in TaskId, o \in Outcome : ToldAs(t, o)' <=> ToldAs(t, o)

\* Emitting or draining anything else takes and adds none.
LEMMA QuietEvents ==
    ASSUME ChannelTypeOK,
           \/ evts' = evts
           \/ \E e \in WorkerEvent : evts' = Append(evts, e) /\ e.k # "Done"
           \/ evts # <<>> /\ evts' = Tail(evts) /\ Head(evts).k # "Done"
    PROVE  DonesSame
<1>0. evts \in Seq(WorkerEvent)
  BY DEF ChannelTypeOK
<1>1. CASE evts' = evts
  BY <1>1 DEF DonesSame, ToldAs
<1>2. ASSUME NEW e \in WorkerEvent, evts' = Append(evts, e), e.k # "Done"
      PROVE  DonesSame
  <2>1. /\ \A i \in 1..Len(evts) : evts'[i] = evts[i] /\ i \in 1..Len(evts')
        /\ evts'[Len(evts) + 1] = e
        /\ \A i \in 1..Len(evts') : i \in 1..Len(evts) \/ i = Len(evts) + 1
    BY <1>0, <1>2, AppendIndex
  <2> QED
    BY <1>2, <2>1 DEF DonesSame, ToldAs
<1>3. CASE evts # <<>> /\ evts' = Tail(evts) /\ Head(evts).k # "Done"
  <2>1. /\ \A i \in 1..Len(evts') : i + 1 \in 1..Len(evts) /\ evts'[i] = evts[i + 1]
        /\ evts[1].k # "Done"
    BY <1>0, <1>3
  <2>2. \A i \in 1..Len(evts) : i = 1 \/ (i - 1 \in 1..Len(evts') /\ evts'[i - 1] = evts[i])
    BY <1>0, <1>3
  <2> QED
    BY <2>1, <2>2 DEF DonesSame, ToldAs
<1> QED
  BY <1>1, <1>2, <1>3

\* Then a task the step leaves in its state keeps its status.
LEMMA SameStatus ==
    ASSUME StatusFacts, StatusFacts', DonesSame, NEW t \in TaskId, state'[t] = state[t]
    PROVE  Status(t)' = Status(t)
BY DEF StatusFacts, DonesSame

-------------------------------------------------------------------------------
(* The steps of the queue.                                                    *)

\* A request may be dropped at any time.
LEMMA Forgets ==
    ASSUME \A t \in TaskId : Status(t)' = Status(t), Asked' \subseteq Asked,
           UNCHANGED paused
    PROVE  Queue!Forget
BY DEF Queue!Forget

\* A cancel pressed is a request.
LEMMA Asks ==
    ASSUME \A t \in TaskId : Status(t)' = Status(t), UNCHANGED paused,
           NEW t \in TaskId, Status(t) \in {"Running"} \cup Outcome,
           Asked' = Asked \cup {t}
    PROVE  Queue!Ask(t)
BY DEF Queue!Ask, Queue!Result, Outcome

\* toggle_paused is the pause of the queue.
LEMMA Pauses ==
    ASSUME \A t \in TaskId : Status(t)' = Status(t), Asked' = Asked, paused' = ~paused
    PROVE  Queue!Pause
BY DEF Queue!Pause

\* A dispatch starts a task.
LEMMA Starts ==
    ASSUME NEW t \in TaskId, ~paused, Status(t) = "Queued", Status(t)' = "Running",
           \A u \in TaskId : Status(u) # "Running",
           \A u \in TaskId : Status(u) = "Queued" => t <= u,
           \A u \in TaskId \ {t} : Status(u)' = Status(u),
           Asked' = Asked, UNCHANGED paused
    PROVE  Queue!Start(t)
BY DEF Queue!Start, Queue!Having, Queue!Task, TaskId

\* A Done gives the running task its result.
LEMMA Settles ==
    ASSUME NEW t \in TaskId, NEW o \in Outcome, Status(t) = "Running", Status(t)' = o,
           o = "Cancelled" => t \in Asked,
           \A u \in TaskId \ {t} : Status(u)' = Status(u),
           Asked' = Asked \/ Asked' = Asked \ {t}, UNCHANGED paused
    PROVE  Queue!Settle(t, o)
BY DEF Queue!Settle

\* retry() puts a task back.
LEMMA Resubmits ==
    ASSUME NEW t \in TaskId, Status(t) \in {"Failed", "Cancelled"}, Status(t)' = "Queued",
           \A u \in TaskId \ {t} : Status(u)' = Status(u),
           Asked' = Asked, UNCHANGED paused
    PROVE  Queue!Resubmit(t)
BY DEF Queue!Resubmit

\* remove() takes a task off.
LEMMA Withdraws ==
    ASSUME NEW t \in TaskId, Status(t) \in {"Queued"} \cup Outcome, Status(t)' = "Removed",
           \A u \in TaskId \ {t} : Status(u)' = Status(u),
           Asked' = Asked, UNCHANGED paused
    PROVE  Queue!Withdraw(t)
BY DEF Queue!Withdraw, Queue!Result, Outcome

\* enqueue() appends tasks.
LEMMA Submits ==
    ASSUME NEW batch \in SUBSET TaskId, batch # {},
           \A t \in batch : Status(t) = "Unborn" /\ Status(t)' = "Queued",
           \A t \in TaskId \ batch : Status(t)' = Status(t),
           Asked' = Asked, UNCHANGED paused
    PROVE  Queue!Submit(batch)
BY DEF Queue!Submit, Queue!Having, Queue!Task, TaskId

\* abort_inflight() and clear_queued() give the batch up.
LEMMA Abandons ==
    ASSUME ~paused, \A t \in TaskId : Status(t) # "Running",
           \E t \in TaskId : Status(t) = "Queued",
           \A t \in TaskId :
               Status(t)' = IF Status(t) = "Queued" THEN "Removed" ELSE Status(t),
           Asked' = Asked, UNCHANGED paused
    PROVE  Queue!Abandon
BY DEF Queue!Abandon, Queue!Having, Queue!Task, TaskId

-------------------------------------------------------------------------------
(* The requests under way.                                                    *)

\* Receiving and sending commands that are no cancels changes no request.
LEMMA AskedKept ==
    ASSUME cmds \in Seq(WorkerCmd), UNCHANGED pendingCancel
    PROVE  /\ cmds' = cmds => Asked' = Asked
           /\ \A c \in WorkerCmd : c.k # "Cancel" /\ cmds' = Append(cmds, c) => Asked' = Asked
           /\ cmds # <<>> /\ cmds' = Tail(cmds) => Asked' \subseteq Asked
           /\ cmds # <<>> /\ cmds' = Tail(cmds) /\ Head(cmds).k # "Cancel" => Asked' = Asked
           /\ cmds' = <<>> => Asked' \subseteq Asked
<1>0. DOMAIN cmds = 1..Len(cmds) /\ \A t : Cancel(t).k = "Cancel"
  BY DEF Cancel
<1>1. cmds' = cmds => Asked' = Asked
  BY DEF Asked
<1>2. ASSUME NEW c \in WorkerCmd, c.k # "Cancel", cmds' = Append(cmds, c)
      PROVE  Asked' = Asked
  <2>1. /\ \A i \in 1..Len(cmds) : cmds'[i] = cmds[i] /\ i \in 1..Len(cmds')
        /\ cmds'[Len(cmds) + 1] = c
        /\ \A i \in 1..Len(cmds') : i \in 1..Len(cmds) \/ i = Len(cmds) + 1
        /\ DOMAIN cmds' = 1..Len(cmds')
    BY <1>2, AppendIndex
  <2> QED
    BY <1>0, <1>2, <2>1 DEF Asked
<1>3. ASSUME cmds # <<>>, cmds' = Tail(cmds)
      PROVE  Asked' \subseteq Asked /\ (Head(cmds).k # "Cancel" => Asked' = Asked)
  <2>1. /\ DOMAIN cmds' = 1..Len(cmds') /\ Head(cmds) = cmds[1]
        /\ \A i \in 1..Len(cmds') : i + 1 \in 1..Len(cmds) /\ cmds'[i] = cmds[i + 1]
    BY <1>3
  <2>2. \A i \in 1..Len(cmds) : i = 1 \/ (i - 1 \in 1..Len(cmds') /\ cmds'[i - 1] = cmds[i])
    BY <1>3
  <2>3. Asked' \subseteq Asked
    BY <1>0, <2>1 DEF Asked
  <2>4. ASSUME Head(cmds).k # "Cancel", NEW t \in Asked PROVE t \in Asked'
    <3>1. CASE pendingCancel = t
      BY <3>1 DEF Asked
    <3>2. ASSUME NEW i \in 1..Len(cmds), cmds[i] = Cancel(t) PROVE t \in Asked'
      <4>1. i # 1
        BY <1>0, <2>1, <2>4, <3>2
      <4> QED
        BY <2>1, <2>2, <3>2, <4>1 DEF Asked
    <3> QED
      BY <1>0, <3>1, <3>2 DEF Asked
  <2> QED
    BY <2>3, <2>4
<1>4. cmds' = <<>> => Asked' \subseteq Asked
  BY DEF Asked
<1> QED
  BY <1>1, <1>2, <1>3, <1>4

-------------------------------------------------------------------------------
(* Every step of the session is one of the queue's.                           *)

\* A key, or a step of the loop, that leaves the tasks alone.
LEMMA ChatQueues ==
    ASSUME SessionInv, SessionInv', StatusFacts, StatusFacts', Chat
    PROVE  Queue!QNext
<1>0. /\ cmds \in Seq(WorkerCmd) /\ pendingCancel' \in TaskId \cup {0}
      /\ ChannelTypeOK
  BY DEF SessionInv, FlightInv, TypeInv, TypeOK, ChannelTypeOK, ScreenTypeOK
<1>1. \A t \in TaskId : Status(t)' = Status(t)
  BY <1>0, QuietEvents, SameStatus DEF Chat
<1>2. CASE pendingCancel' # 0 /\ state[pendingCancel'] = "InFlight" /\ pendingCancel = 0
           /\ UNCHANGED <<cmds, paused>>
  <2>1. pendingCancel' \in TaskId
    BY <1>0, <1>2
  <2>2. Asked' = Asked \cup {pendingCancel'}
    BY <1>2, <2>1, ChannelAssumption DEF Asked, TaskId
  <2>3. Status(pendingCancel') \in {"Running"} \cup Outcome
    BY <1>2, <2>1 DEF StatusFacts
  <2>4. \E t \in TaskId : Queue!Ask(t)
    BY <1>1, <1>2, <2>1, <2>2, <2>3, Asks
  <2> QED
    BY <2>4 DEF Queue!QNext, Queue!Task, TaskId
<1>3. CASE paused' = ~paused /\ UNCHANGED <<cmds, pendingCancel>>
  BY <1>0, <1>1, <1>3, AskedKept, Pauses DEF Queue!QNext
<1>4. CASE paused' = paused /\ (pendingCancel' = 0 \/ UNCHANGED pendingCancel)
  <2>1. cmds' = cmds \/ \E c \in WorkerCmd : c.k # "Cancel" /\ cmds' = Append(cmds, c)
    BY DEF Chat, Talks, Talk
  <2>2. CASE UNCHANGED pendingCancel
    BY <1>0, <1>1, <1>4, <2>1, <2>2, AskedKept, Forgets DEF Queue!QNext
  <2>3. CASE pendingCancel' = 0
    <3>1. {t \in TaskId : \E i \in DOMAIN cmds' : cmds'[i] = Cancel(t)} \subseteq Asked
      <4>1. CASE cmds' = cmds
        BY <4>1 DEF Asked
      <4>2. ASSUME NEW c \in WorkerCmd, c.k # "Cancel", cmds' = Append(cmds, c)
            PROVE  {t \in TaskId : \E i \in DOMAIN cmds' : cmds'[i] = Cancel(t)} \subseteq Asked
        <5>1. /\ \A i \in 1..Len(cmds) : cmds'[i] = cmds[i] /\ i \in DOMAIN cmds
              /\ cmds'[Len(cmds) + 1] = c
              /\ \A i \in DOMAIN cmds' : i \in 1..Len(cmds) \/ i = Len(cmds) + 1
              /\ \A t : Cancel(t).k = "Cancel"
          BY <1>0, <4>2, AppendIndex DEF Cancel
        <5> QED
          BY <4>2, <5>1 DEF Asked
      <4> QED
        BY <2>1, <4>1, <4>2
    <3>2. Asked' \subseteq Asked
      BY <2>3, <3>1, ChannelAssumption DEF Asked, TaskId
    <3> QED
      BY <1>1, <1>4, <3>2, Forgets DEF Queue!QNext
  <2> QED
    BY <1>4, <2>2, <2>3
<1> QED
  BY <1>2, <1>3, <1>4 DEF Chat

\* Keys and the popup's Cancel, that change the list.
LEMMA RelistQueues ==
    ASSUME SessionInv, SessionInv', StatusFacts, StatusFacts', Relist
    PROVE  Queue!QNext
<1>0. /\ cmds \in Seq(WorkerCmd) /\ ChannelTypeOK /\ LedgerTypeOK
      /\ TaskId = Queue!Task /\ Outcome = Queue!Result
  BY DEF SessionInv, FlightInv, TypeInv, TypeOK, ChannelTypeOK, Queue!Task, TaskId,
         Queue!Result, Outcome
<1>1. Asked' = Asked
  BY <1>0, AskedKept DEF Relist
<1>2. \A t \in TaskId : state'[t] = state[t] => Status(t)' = Status(t)
  BY <1>0, QuietEvents, SameStatus DEF Relist
<1>3. \A t \in TaskId : /\ state[t] # "InFlight" => Status(t) = state[t]
                        /\ state'[t] # "InFlight" => Status(t)' = state'[t]
  BY DEF StatusFacts
<1>4. ASSUME NEW n \in 1..MaxBatch, NEW js \in [1..n -> Jobs], EnqueueJobs(js)
      PROVE  Queue!QNext
  <2>1. n \in Nat /\ n >= 1 /\ Len(js) = n /\ nextId \in Nat /\ MaxTasks \in Nat /\ nextId >= 1
    BY <1>0, SessionAssumption, ChannelAssumption DEF LedgerTypeOK
  <2> DEFINE new == nextId..(nextId + n - 1)
  <2>2. /\ new \in SUBSET TaskId /\ nextId \in new
        /\ \A t \in TaskId : state'[t] = IF t \in new THEN "Queued" ELSE state[t]
        /\ \A t \in new : t >= nextId
        /\ UNCHANGED paused
    BY <1>4, <2>1 DEF EnqueueJobs, TaskId
  <2>3. \A t \in new : state[t] = "Unborn"
    BY <2>2 DEF SessionInv, Fresh
  <2> HIDE DEF new
  <2>4. Queue!Submit(new)
    BY <1>1, <1>2, <1>3, <2>2, <2>3, Submits
  <2> QED
    BY <1>0, <2>2, <2>4 DEF Queue!QNext
<1>5. ASSUME NEW t \in TaskId, RetryTask(t) PROVE Queue!QNext
  <2>1. /\ state[t] \in {"Failed", "Cancelled"} /\ state'[t] = "Queued" /\ UNCHANGED paused
        /\ \A u \in TaskId \ {t} : state'[u] = state[u]
    BY <1>0, <1>5 DEF RetryTask, LedgerTypeOK
  <2>2. Status(t) = state[t] /\ Status(t)' = "Queued"
    BY <1>3, <2>1
  <2>3. Queue!Resubmit(t)
    BY <1>1, <1>2, <2>1, <2>2, Resubmits
  <2> QED
    BY <1>0, <2>3 DEF Queue!QNext
<1>6. ASSUME NEW t \in TaskId, RemoveTask(t) PROVE Queue!QNext
  <2>1. /\ state[t] \in {"Queued"} \cup Outcome /\ state'[t] = "Removed" /\ UNCHANGED paused
        /\ \A u \in TaskId \ {t} : state'[u] = state[u]
    BY <1>0, <1>6 DEF RemoveTask, LedgerTypeOK
  <2>2. Status(t) = state[t] /\ Status(t)' = "Removed"
    BY <1>3, <2>1 DEF Outcome
  <2>3. Queue!Withdraw(t)
    BY <1>1, <1>2, <2>1, <2>2, Withdraws
  <2> QED
    BY <1>0, <2>3 DEF Queue!QNext
<1>7. ASSUME NEW t \in TaskId, DropBatch(t), state[t] = "Queued", ~HasInflight, ~paused
      PROVE  Queue!QNext
  <2>1. \A u \in TaskId : state[u] # "InFlight"
    BY <1>7 DEF HasInflight, InState
  <2>2. /\ \A u \in TaskId :
             state'[u] = IF state[u] = "Queued" THEN "Removed" ELSE state[u]
        /\ UNCHANGED paused
    BY <1>7, <2>1 DEF DropBatch
  <2>3. \A u \in TaskId : Status(u) = state[u] /\ Status(u)' = state'[u]
    BY <1>3, <2>1, <2>2
  <2>4. \A u \in TaskId : Status(u) # "Running"
    BY <1>0, <2>3 DEF LedgerTypeOK, TaskState, Outcome
  <2>5. Status(t) = "Queued"
    BY <1>7, <2>3
  <2>6. Queue!Abandon
    BY <1>1, <1>7, <2>2, <2>3, <2>4, <2>5, Abandons
  <2> QED
    BY <2>6 DEF Queue!QNext
<1> QED
  BY <1>4, <1>5, <1>6, <1>7 DEF Relist

\* A worker's step that ends no task, and events heard that end none.
LEMMA QuietQueues ==
    ASSUME SessionInv, StatusFacts, StatusFacts', Hear \/ Work \/ Begin \/ Stop
    PROVE  Queue!QNext
<1> USE DEF uiVars, flagVars, ledgerVars
<1>0. ChannelTypeOK /\ cmds \in Seq(WorkerCmd)
  BY DEF SessionInv, FlightInv, TypeInv, TypeOK, ChannelTypeOK
<1>1. UNCHANGED <<state, paused, pendingCancel>>
  BY DEF Hear, Work, Begin, Stop
<1>2. DonesSame
  BY <1>0, QuietEvents DEF Hear, Work, Begin, Stop
<1>3. \A t \in TaskId : Status(t)' = Status(t)
  BY <1>1, <1>2, SameStatus
<1>4. \/ cmds' = cmds \/ (cmds # <<>> /\ cmds' = Tail(cmds)) \/ cmds' = <<>>
      \/ \E c \in WorkerCmd : c.k # "Cancel" /\ cmds' = Append(cmds, c)
  BY DEF Hear, Work, Begin, Stop, Talks, Talk
<1>5. Asked' \subseteq Asked
  BY <1>0, <1>1, <1>4, AskedKept
<1> QED
  BY <1>1, <1>3, <1>5, Forgets DEF Queue!QNext

\* Step 4 of the drain sends the request that was pressed.
LEMMA SendQueues ==
    ASSUME SessionInv, StatusFacts, StatusFacts', DrainEnds
    PROVE  Queue!QNext
<1>0. /\ ChannelTypeOK /\ cmds \in Seq(WorkerCmd) /\ 0 \notin TaskId
      /\ pendingCancel # 0 => pendingCancel \in TaskId
  BY ChannelAssumption
  DEF SessionInv, FlightInv, TypeInv, TypeOK, ChannelTypeOK, ScreenTypeOK, TaskId
<1>1. UNCHANGED <<state, paused, evts>> /\ pendingCancel' = 0
  BY DEF DrainEnds, ledgerVars
<1>2. \A t \in TaskId : Status(t)' = Status(t)
  BY <1>0, <1>1, QuietEvents, SameStatus
<1>3. cmds' = cmds \/ (pendingCancel # 0 /\ cmds' = Append(cmds, Cancel(pendingCancel)))
  BY DEF DrainEnds, Send
<1>4. CASE cmds' = cmds
  <2>1. Asked' \subseteq Asked
    BY <1>0, <1>1, <1>4 DEF Asked
  <2> QED
    BY <1>1, <1>2, <2>1, Forgets DEF Queue!QNext
<1>5. CASE pendingCancel # 0 /\ cmds' = Append(cmds, Cancel(pendingCancel))
  <2>1. Cancel(pendingCancel) \in WorkerCmd /\ \A t : Cancel(t).t = t
    BY <1>0, <1>5, CommandTypes DEF Cancel
  <2>2. /\ \A i \in 1..Len(cmds) : cmds'[i] = cmds[i] /\ i \in DOMAIN cmds
        /\ cmds'[Len(cmds) + 1] = Cancel(pendingCancel)
        /\ \A i \in DOMAIN cmds' : i \in 1..Len(cmds) \/ i = Len(cmds) + 1
    BY <1>0, <1>5, <2>1, AppendIndex
  <2>3. ASSUME NEW t \in Asked' PROVE t \in Asked
    <3>1. t \in TaskId /\ \E i \in DOMAIN cmds' : cmds'[i] = Cancel(t)
      BY <1>0, <1>1, <2>3 DEF Asked
    <3>2. PICK i \in DOMAIN cmds' : cmds'[i] = Cancel(t)
      BY <3>1
    <3>3. CASE i \in 1..Len(cmds)
      BY <2>2, <3>1, <3>2, <3>3 DEF Asked
    <3>4. CASE i = Len(cmds) + 1
      <4>1. t = pendingCancel
        BY <2>1, <2>2, <3>2, <3>4
      <4> QED
        BY <3>1, <4>1 DEF Asked
    <3> QED
      BY <2>2, <3>3, <3>4
  <2> QED
    BY <1>1, <1>2, <2>3, Forgets DEF Queue!QNext
<1> QED
  BY <1>3, <1>4, <1>5

\* finish_inflight gives the task the outcome its status had when it was sent.
LEMMA DrainQueues ==
    ASSUME SessionInv, StatusFacts, StatusFacts', DrainDone
    PROVE  Queue!QNext
<1>0. /\ cmds \in Seq(WorkerCmd) /\ LedgerTypeOK /\ SingleInFlight
      /\ \A o \in Outcome : o # "InFlight"
  BY DEF SessionInv, FlightInv, TypeInv, TypeOK, ChannelTypeOK, Outcome
<1>1. PICK t \in TaskId, o \in Outcome :
          /\ 1 \in 1..Len(evts) /\ evts[1].k = "Done"
          /\ evts[1].t = t /\ evts[1].outcome = o /\ state[t] = "InFlight"
  BY DoneAhead DEF DrainDone, Draining, Event
<1>2. state' = [state EXCEPT ![t] = o] /\ UNCHANGED <<cmds, pendingCancel>>
  BY <1>1, DoneDrained
<1>3. UNCHANGED paused
  BY DEF DrainDone, FinishInflight
<1>4. Status(t) = o
  BY <1>1 DEF StatusFacts, ToldAs
<1>5. Status(t)' = o
  <2>1. state'[t] = o
    BY <1>0, <1>2 DEF LedgerTypeOK
  <2> QED
    BY <1>0, <2>1 DEF StatusFacts
<1>6. ASSUME NEW u \in TaskId, u # t PROVE Status(u)' = Status(u)
  <2>1. state[u] # "InFlight" /\ state'[u] = state[u]
    BY <1>0, <1>1, <1>2, <1>6 DEF SingleInFlight, LedgerTypeOK
  <2> QED
    BY <2>1 DEF StatusFacts
<1>7. Asked' = Asked
  BY <1>0, <1>2, AskedKept
<1> QED
  BY <1>3, <1>4, <1>5, <1>6, <1>7, Forgets DEF Queue!QNext

\* dispatch_next_job starts the longest-waiting task.
LEMMA DepartQueues ==
    ASSUME SessionInv, StatusFacts, StatusFacts', NEW t \in TaskId,
           NEW p \in OverwritePolicy, Depart(t, p)
    PROVE  Queue!QNext
<1>0. /\ ChannelTypeOK /\ cmds \in Seq(WorkerCmd) /\ LedgerTypeOK
      /\ TaskId = Queue!Task
  BY DEF SessionInv, FlightInv, TypeInv, TypeOK, ChannelTypeOK, Queue!Task, TaskId
<1>1. /\ ~paused /\ state[t] = "Queued" /\ UNCHANGED <<evts, paused, pendingCancel>>
      /\ state' = [state EXCEPT ![t] = "InFlight"]
      /\ \A u \in TaskId : state[u] # "InFlight"
      /\ \A u \in TaskId : state[u] = "Queued" => t <= u
  BY DEF Depart, StartTask, HasInflight, InState
<1>2. \A u \in TaskId : Status(u) = state[u] /\ Status(u) # "Running"
  BY <1>0, <1>1 DEF StatusFacts, LedgerTypeOK, TaskState, Outcome
<1>3. Status(t)' = "Running"
  <2>1. state'[t] = "InFlight"
    BY <1>0, <1>1 DEF LedgerTypeOK
  <2>2. \A o \in Outcome : ~ToldAs(t, o)'
    BY <1>1, NothingUnderWay DEF ToldAs, Depart
  <2> QED
    BY <2>1, <2>2 DEF StatusFacts
<1>4. ASSUME NEW u \in TaskId \ {t} PROVE Status(u)' = Status(u)
  BY <1>0, <1>1, QuietEvents, SameStatus DEF LedgerTypeOK
<1>5. Asked' = Asked
  <2>1. Transfer(t, job[t], p) \in WorkerCmd /\ Transfer(t, job[t], p).k # "Cancel"
    BY <1>0, CommandTypes DEF LedgerTypeOK, Transfer
  <2>2. cmds' = Append(cmds, Transfer(t, job[t], p))
    BY DEF Depart
  <2> QED
    BY <1>0, <1>1, <2>1, <2>2, AskedKept
<1>6. Queue!Start(t)
  BY <1>1, <1>2, <1>3, <1>4, <1>5, Starts
<1> QED
  BY <1>0, <1>6 DEF Queue!QNext

\* A Done emitted is the outcome of its task.
LEMMA DoneSent ==
    ASSUME SessionInv, StatusFacts, StatusFacts', NEW t \in TaskId, NEW o \in Outcome,
           evts' = Append(evts, Done(t, o)), state[t] = "InFlight", UNCHANGED state,
           \A i \in 1..Len(evts) : evts[i].k # "Done"
    PROVE  /\ Status(t) = "Running" /\ Status(t)' = o
           /\ \A u \in TaskId \ {t} : Status(u)' = Status(u)
<1>1. Status(t) = "Running"
  BY DEF StatusFacts, ToldAs
<1>2. Status(t)' = o
  <2>1. Done(t, o) \in WorkerEvent /\ evts \in Seq(WorkerEvent)
    BY EventTypes DEF SessionInv, FlightInv, TypeInv, TypeOK, ChannelTypeOK
  <2>2. Len(evts) + 1 \in 1..Len(evts') /\ evts'[Len(evts) + 1] = Done(t, o)
    BY <2>1, AppendIndex
  <2>3. ToldAs(t, o)'
    BY <2>2 DEF ToldAs, Done
  <2> QED
    BY <2>3 DEF StatusFacts
<1>3. ASSUME NEW u \in TaskId \ {t} PROVE Status(u)' = Status(u)
  <2>1. state[u] # "InFlight"
    BY DEF SessionInv, FlightInv, SingleInFlight
  <2> QED
    BY <2>1 DEF StatusFacts
<1> QED
  BY <1>1, <1>2, <1>3

\* A transfer skipped or not begun, and one that is over.
LEMMA SettleQueues ==
    ASSUME SessionInv, StatusFacts, StatusFacts',
           (\E o \in {"Ok", "Failed"} : Refuse(o)) \/ \E o \in Outcome : End(o)
    PROVE  Queue!QNext
<1> USE DEF uiVars, flagVars, ledgerVars
<1>0. /\ cmds \in Seq(WorkerCmd)
      /\ TaskId = Queue!Task /\ Outcome = Queue!Result
      /\ {"Ok", "Failed"} \subseteq Outcome
      /\ task \in TaskId \cup {0} /\ (Busy => task # 0)
  BY DEF SessionInv, FlightInv, TypeInv, TypeOK, ChannelTypeOK, WorkerTypeOK, BusyHasTask,
         Queue!Task, TaskId, Queue!Result, Outcome
<1>1. ASSUME NEW o \in {"Ok", "Failed"}, Refuse(o) PROVE Queue!QNext
  <2>1. PICK t \in TaskId :
            /\ t = cmds[1].t /\ state[t] = "InFlight" /\ evts' = Append(evts, Done(t, o))
            /\ \A i \in 1..Len(evts) : evts[i].k # "Done"
    BY <1>1, TransferAhead DEF Refuse
  <2>2. UNCHANGED <<state, paused, pendingCancel>> /\ cmds # <<>> /\ cmds' = Tail(cmds)
        /\ Head(cmds).k # "Cancel"
    BY <1>1 DEF Refuse
  <2>3. Asked' = Asked
    BY <1>0, <2>2, AskedKept
  <2>4. Queue!Settle(t, o)
    BY <1>0, <2>1, <2>2, <2>3, DoneSent, Settles
  <2> QED
    BY <1>0, <2>4 DEF Queue!QNext
<1>2. ASSUME NEW o \in Outcome, End(o) PROVE Queue!QNext
  <2>1. PICK t \in TaskId :
            /\ t = task /\ task # 0 /\ state[t] = "InFlight" /\ evts' = Append(evts, Done(t, o))
            /\ \A i \in 1..Len(evts) : evts[i].k # "Done"
    BY <1>0, <1>2 DEF End, SessionInv, TaskInv, EvtsInv, EvtOK
  <2>2. UNCHANGED <<state, paused, pendingCancel>>
    BY <1>2 DEF End
  <2>3. CASE o # "Cancelled"
    <3>1. Asked' = Asked
      BY <1>0, <1>2, <2>2, <2>3, AskedKept DEF End
    <3>2. Queue!Settle(t, o)
      BY <1>0, <2>1, <2>2, <2>3, <3>1, DoneSent, Settles
    <3> QED
      BY <1>0, <3>2 DEF Queue!QNext
  <2>4. CASE o = "Cancelled"
    <3>1. /\ cmds # <<>> /\ cmds' = Tail(cmds) /\ Head(cmds).k = "Cancel"
          /\ Head(cmds) = cmds[1] /\ 1 \in 1..Len(cmds) /\ cmds[1] \in WorkerCmd
      BY <1>0, <1>2, <2>4 DEF End
    <3>2. cmds[1].t = t
      BY <2>1, <3>1 DEF SessionInv, CmdsInv, CmdOK
    <3>3. cmds[1] = Cancel(t)
      BY <3>1, <3>2 DEF WorkerCmd, Cancel
    <3>4. t \in Asked
      BY <3>1, <3>3 DEF Asked
    <3>5. Asked' = Asked \/ Asked' = Asked \ {t}
      <4>1. Asked' \subseteq Asked
        BY <1>0, <2>2, <3>1, AskedKept
      <4>2. ASSUME NEW u \in Asked, u # t PROVE u \in Asked'
        <5>1. CASE pendingCancel = u
          BY <2>2, <5>1 DEF Asked
        <5>2. ASSUME NEW i \in 1..Len(cmds), cmds[i] = Cancel(u) PROVE u \in Asked'
          <6>1. i # 1
            BY <3>2, <4>2, <5>2 DEF Cancel
          <6>2. i - 1 \in DOMAIN cmds' /\ cmds'[i - 1] = cmds[i]
            BY <1>0, <3>1, <6>1
          <6> QED
            BY <5>2, <6>2 DEF Asked
        <5> QED
          BY <1>0, <5>1, <5>2 DEF Asked
      <4> QED
        BY <4>1, <4>2
    <3>6. Queue!Settle(t, o)
      BY <1>0, <2>1, <2>2, <3>4, <3>5, DoneSent, Settles
    <3> QED
      BY <1>0, <3>6 DEF Queue!QNext
  <2> QED
    BY <2>3, <2>4
<1> QED
  BY <1>1, <1>2

\* Every form of step is a step of the queue, which may also stay as it is.
LEMMA QueueStep == SessionInv /\ [Next]_vars => Queue!QNext
<1> SUFFICES ASSUME SessionInv, [Next]_vars PROVE Queue!QNext
  OBVIOUS
<1>1. SessionInv'
  BY SessionStep
<1>2. StatusFacts /\ StatusFacts'
  BY <1>1, StatusIs, StatusNext
<1> QED
  BY <1>1, <1>2, StepForms, ChatQueues, RelistQueues, QuietQueues, SendQueues, DrainQueues,
     DepartQueues, SettleQueues

\* A fresh session is an empty queue.
LEMMA QueueStart == Init => Queue!QInit
<1> SUFFICES ASSUME Init PROVE Queue!QInit
  OBVIOUS
<1>1. /\ state = [t \in TaskId |-> "Unborn"] /\ paused = FALSE
      /\ cmds = <<>> /\ pendingCancel = 0
  BY Zenon DEF Init, LedgerInit
<1>2. \A t \in TaskId : Status(t) = "Unborn"
  BY <1>1 DEF Status
<1>3. Asked = {}
  BY <1>1, ChannelAssumption DEF Asked, TaskId
<1> QED
  BY <1>1, <1>2, <1>3 DEF Queue!QInit, Queue!Task, TaskId

\* Keys, channels, worker and overwrite popup together are the queue the user is
\* promised: one file at a time, in order, paused when paused, cancelled only when
\* asked for.
THEOREM SessionImplementsQueue == Spec => Implements
<1>1. SessionInv /\ [Next]_vars => [Queue!QNext]_(Queue!qvars)
  BY QueueStep
<1> QED
  BY <1>1, SessionAlways, QueueStart, PTL DEF Spec, Implements, Queue!QSpec
===============================================================================
