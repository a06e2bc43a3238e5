------------------------------ MODULE SftpWorker ------------------------------
(***************************************************************************)
(* The SFTP worker thread (connect/sftp/worker.rs): host-key pre-flight,   *)
(* cancellable master handshake, then a service loop that lists            *)
(* directories and runs one `sftp -b -' child per transfer.  The thread    *)
(* owns the session's resources (MasterSession): the ssh master, its       *)
(* control socket and the password temp file, and releases all of them on  *)
(* every way out.                                                          *)
(*                                                                         *)
(* External programs are nondeterministic: any of them may fail to spawn,  *)
(* fail, succeed, or (the sftp child) run for as long as it likes.         *)
(***************************************************************************)
EXTENDS SftpChannel

CONSTANTS Home,       \* what `sftp pwd' reports
          Root,       \* "/", the fallback and the initial remote cwd
          Auth        \* secrets the host needs on disk: "password" (a file
                      \* for askpass), "inline key" (a file for ssh -i)

ASSUME WorkerAssumption ==
         /\ Home \in Dirs /\ Root \in Dirs
         /\ Auth \subseteq {"password", "inline key"}

VARIABLES wpc,        \* where the thread is
          task,       \* the id of the running transfer, 0 when none
          run,        \* the running transfer's job and overwrite policy
          child,      \* the sftp child: "none", "running", "ok", "failed"
          master,     \* the ssh master process is alive
          pwFile,     \* the password temp file exists
          deadline,   \* HANDSHAKE_TIMEOUT has elapsed
          file        \* [Direction -> [Names -> FileState]]: destinations

workerVars == <<wpc, task, run, child, master, pwFile, deadline, file>>
resources == <<master, pwFile>>

WorkerPc == {"hostkey", "hkwait", "spawn", "handshake", "probe",
             "idle", "poll", "wait", "exited"}
FileState == {"absent", "old", "partial", "new"}
Busy == wpc \in {"poll", "wait"}

WorkerTypeOK ==
    /\ wpc \in WorkerPc
    /\ task \in TaskId \cup {0}
    /\ run \in [job : Jobs, policy : OverwritePolicy]
    /\ child \in {"none", "running", "ok", "failed"}
    /\ master \in BOOLEAN
    /\ pwFile \in BOOLEAN
    /\ deadline \in BOOLEAN
    /\ file \in [Direction -> [Names -> FileState]]

NoRun == [job |-> CHOOSE j \in Jobs : TRUE, policy |-> "Overwrite"]

\* A thread just spawned by SftpWorker::spawn on fresh channels.
WorkerStarts ==
    /\ wpc = "hostkey"
    /\ task = 0
    /\ run = NoRun
    /\ child = "none"
    /\ master = FALSE
    /\ pwFile = FALSE
    /\ deadline = FALSE

Receive == /\ cmds # <<>>
           /\ cmds' = Tail(cmds)
Emit(e) == evts' = Append(evts, e)

\* Return from the thread: MasterSession::teardown, and the dropped receiver
\* discards whatever was still queued.
Exit ==
    /\ wpc' = "exited"
    /\ master' = FALSE
    /\ pwFile' = FALSE
    /\ cmds' = <<>>

(***************************************************************************)
(* host_key_check: a known host proceeds; an unknown one is scanned and    *)
(* put to the user; every failure is a ConnectFailed.                      *)
(***************************************************************************)
HostKeyKnown ==
    /\ wpc = "hostkey"
    /\ wpc' = "spawn"
    /\ UNCHANGED <<chanVars, task, run, child, resources, deadline, file>>

HostKeyUnknown ==
    /\ wpc = "hostkey"
    /\ wpc' = "hkwait"
    /\ Emit(HostKeyNeedsConfirm)
    /\ UNCHANGED <<cmds, task, run, child, resources, deadline, file>>

HostKeyScanFails ==
    /\ wpc = "hostkey"
    /\ Exit
    /\ Emit(ConnectFailed)
    /\ UNCHANGED <<task, run, child, deadline, file>>

\* Any command but an acceptance is a rejection.
HostKeyAnswer ==
    /\ wpc = "hkwait"
    /\ cmds # <<>>
    /\ \/ /\ Head(cmds) = HostKeyConfirm(TRUE)
          /\ Receive
          /\ wpc' = "spawn"
          /\ UNCHANGED <<evts, resources>>
       \/ /\ Exit                        \* rejected, or known_hosts unwritable
          /\ Emit(ConnectFailed)
    /\ UNCHANGED <<task, run, child, deadline, file>>

(***************************************************************************)
(* connect_phase: password file, master, handshake poll, `pwd' probe.      *)
(***************************************************************************)
SpawnMaster ==
    /\ wpc = "spawn"
    /\ wpc' = "handshake"
    /\ master' = TRUE
    /\ pwFile' = ("password" \in Auth)
    /\ UNCHANGED <<chanVars, task, run, child, deadline, file>>

SpawnMasterFails ==
    /\ wpc = "spawn"
    /\ Exit
    /\ Emit(ConnectFailed)
    /\ UNCHANGED <<task, run, child, deadline, file>>

\* Mutant of ClassifyPoll: the deadline ends nothing.
PollForever(check_ok, master_exited, timed_out, cancelled) ==
    CASE cancelled -> "Cancelled"
      [] ~cancelled /\ check_ok -> "Ready"
      [] ~cancelled /\ ~check_ok /\ master_exited -> "Exited"
      [] OTHER -> "Poll"

\* classify_poll: cancelled > check_ok > master_exited > timed_out
ClassifyPoll(check_ok, master_exited, timed_out, cancelled) ==
    CASE cancelled -> "Cancelled"
      [] ~cancelled /\ check_ok -> "Ready"
      [] ~cancelled /\ ~check_ok /\ master_exited -> "Exited"
      [] ~cancelled /\ ~check_ok /\ ~master_exited /\ timed_out -> "Timeout"
      [] OTHER -> "Poll"

\* One turn of wait_for_master_cancellable: takes at most one command, of
\* which only Shutdown counts.
HandshakePoll(check_ok, master_exited) ==
    /\ wpc = "handshake"
    /\ LET cancelled == cmds # <<>> /\ Head(cmds) = Shutdown
           outcome == ClassifyPoll(check_ok, master_exited, deadline, cancelled)
       IN  \/ /\ outcome = "Poll"
              /\ cmds' = IF cmds = <<>> THEN cmds ELSE Tail(cmds)
              /\ UNCHANGED <<evts, wpc, resources>>
           \/ /\ outcome = "Ready"
              /\ cmds' = IF cmds = <<>> THEN cmds ELSE Tail(cmds)
              /\ wpc' = "probe"
              /\ UNCHANGED <<evts, resources>>
           \/ /\ outcome = "Cancelled"   \* silent: the user left
              /\ Exit
              /\ UNCHANGED evts
           \/ /\ outcome \in {"Exited", "Timeout"}
              /\ Exit
              /\ Emit(ConnectFailed)
    /\ UNCHANGED <<task, run, child, deadline, file>>

HandshakeDeadline ==
    /\ wpc = "handshake"
    /\ ~deadline
    /\ deadline' = TRUE
    /\ UNCHANGED <<chanVars, wpc, task, run, child, resources, file>>

ProbeHome(home) ==
    /\ wpc = "probe"
    /\ wpc' = "idle"
    /\ Emit(Connected(home))
    /\ UNCHANGED <<cmds, task, run, child, resources, deadline, file>>

(***************************************************************************)
(* service_loop: one command at a time.                                    *)
(***************************************************************************)
ServeList(ok) ==
    /\ wpc = "idle"
    /\ Receive
    /\ Head(cmds).k = "List"
    /\ Emit(Listing(Head(cmds).dir, ok))
    /\ UNCHANGED workerVars

\* Mutant of SkipTransfer: the skip is not reported.
SkipUnreported(c) ==
    /\ c.policy = "SkipAll"
    /\ UNCHANGED <<evts, workerVars>>

\* Skip and SkipAll answer Done(Ok) without spawning anything.
SkipTransfer(c) ==
    /\ c.policy = "SkipAll"
    /\ Emit(Done(c.t, "Ok"))
    /\ UNCHANGED workerVars

SpawnChildFails(c) ==
    /\ c.policy # "SkipAll"
    /\ Emit(Done(c.t, "Failed"))
    /\ UNCHANGED workerVars

SpawnChild(c) ==
    /\ c.policy # "SkipAll"
    /\ wpc' = "poll"
    /\ task' = c.t
    /\ run' = [job |-> c.job, policy |-> c.policy]
    /\ child' = "running"
    /\ UNCHANGED <<evts, resources, deadline, file>>

ServeTransfer ==
    /\ wpc = "idle"
    /\ Receive
    /\ Head(cmds).k = "Transfer"
    /\ \/ SkipTransfer(Head(cmds))
       \/ SpawnChildFails(Head(cmds))
       \/ SpawnChild(Head(cmds))

\* Nothing is in flight, so a Cancel (or a late host-key answer) is dropped.
ServeDrop ==
    /\ wpc = "idle"
    /\ Receive
    /\ Head(cmds).k \in {"Cancel", "HostKeyConfirm"}
    /\ UNCHANGED <<evts, workerVars>>

ServeShutdown ==
    /\ wpc = "idle"
    /\ cmds # <<>>
    /\ Head(cmds) = Shutdown
    /\ Exit
    /\ UNCHANGED <<evts, task, run, child, deadline, file>>

(***************************************************************************)
(* The sftp child: it writes its destination and ends in its own time.     *)
(***************************************************************************)
ChildWrites ==
    /\ child = "running"
    /\ file[run.job.dir][run.job.name] # "partial"
    /\ file' = [file EXCEPT ![run.job.dir][run.job.name] = "partial"]
    /\ UNCHANGED <<chanVars, wpc, task, run, child, resources, deadline>>

ChildExits(result) ==
    /\ child = "running"
    /\ child' = result
    /\ file' = IF result = "ok"
               THEN [file EXCEPT ![run.job.dir][run.job.name] = "new"]
               ELSE file
    /\ UNCHANGED <<chanVars, wpc, task, run, resources, deadline>>

(***************************************************************************)
(* run_transfer: try_wait, then a progress sample and a bounded wait for a *)
(* command, until the child is done or a command ends it.                  *)
(***************************************************************************)

\* remove_partial_dst: a download's remove_file and a file upload's `rm' are
\* best effort (neither removes a directory, and nobody looks at the result);
\* a recursive upload leaves its tree.
AfterCleanup(j) ==
    IF j.dir = "Upload" /\ j.recursive
    THEN {file}
    ELSE {file, [file EXCEPT ![j.dir][j.name] = "absent"]}

Finish(o) ==
    /\ wpc' = "idle"
    /\ task' = 0
    /\ run' = NoRun
    /\ child' = "none"
    /\ Emit(Done(task, o))

\* Mutant of ReapOk: the status of the child is not looked at.
ReapAny ==
    /\ wpc = "poll"
    /\ child \in {"ok", "failed"}
    /\ Finish("Ok")
    /\ UNCHANGED <<cmds, resources, deadline, file>>

ReapOk ==
    /\ wpc = "poll"
    /\ child = "ok"
    /\ Finish("Ok")
    /\ UNCHANGED <<cmds, resources, deadline, file>>

ReapFailed ==
    /\ wpc = "poll"
    /\ child = "failed"
    /\ file' \in AfterCleanup(run.job)
    /\ Finish("Failed")
    /\ UNCHANGED <<cmds, resources, deadline>>

\* try_wait itself fails, which it does of a child somebody else has reaped:
\* its status is lost, a failure is reported and nothing is cleaned up.
ReapError ==
    /\ wpc = "poll"
    /\ child \in {"ok", "failed"}
    /\ Finish("Failed")
    /\ UNCHANGED <<cmds, resources, deadline, file>>

\* A sample the UI has not drained yet absorbs the next one: the payload is
\* abstracted, so a second identical sample changes nothing.
SampleProgress ==
    /\ wpc = "poll"
    /\ child = "running"
    /\ wpc' = "wait"
    /\ IF evts # <<>> /\ evts[Len(evts)] = Progress(task)
       THEN UNCHANGED evts
       ELSE Emit(Progress(task))
    /\ UNCHANGED <<cmds, task, run, child, resources, deadline, file>>

WaitTimesOut ==
    /\ wpc = "wait"
    /\ cmds = <<>>
    /\ wpc' = "poll"
    /\ UNCHANGED <<chanVars, task, run, child, resources, deadline, file>>

\* Mutants of ClassifyInflight: a command is swallowed mid-transfer.
SwallowShutdown(c) == IF c.k = "Cancel" THEN "Cancel" ELSE "Continue"
SwallowCancel(c) == IF c.k = "Shutdown" THEN "Shutdown" ELSE "Continue"

\* classify_inflight_cmd
ClassifyInflight(c) ==
    CASE c.k = "Cancel" -> "Cancel"
      [] c.k = "Shutdown" -> "Shutdown"
      [] OTHER -> "Continue"

\* Kill and reap the child, remove the partial, report Cancelled.
CancelTransfer ==
    /\ wpc = "wait"
    /\ Receive
    /\ ClassifyInflight(Head(cmds)) = "Cancel"
    /\ file' \in AfterCleanup(run.job)
    /\ Finish("Cancelled")
    /\ UNCHANGED <<resources, deadline>>

\* Shutdown mid-transfer ends the service loop too, and reports nothing.
ShutdownTransfer ==
    /\ wpc = "wait"
    /\ cmds # <<>>
    /\ ClassifyInflight(Head(cmds)) = "Shutdown"
    /\ file' \in AfterCleanup(run.job)
    /\ Exit
    /\ task' = 0
    /\ run' = NoRun
    /\ child' = "none"
    /\ UNCHANGED <<evts, deadline>>

\* Any other command is dropped and the transfer goes on.
IgnoreCommand ==
    /\ wpc = "wait"
    /\ Receive
    /\ ClassifyInflight(Head(cmds)) = "Continue"
    /\ wpc' = "poll"
    /\ UNCHANGED <<evts, task, run, child, resources, deadline, file>>

(***************************************************************************)
(* The thread's own steps, and those of the programs it spawned.           *)
(***************************************************************************)
ConnectStep ==
    \/ HostKeyKnown
    \/ HostKeyUnknown
    \/ HostKeyScanFails
    \/ HostKeyAnswer
    \/ SpawnMaster
    \/ SpawnMasterFails
    \/ \E check_ok, master_exited \in BOOLEAN : HandshakePoll(check_ok, master_exited)
    \/ \E home \in {Home, Root} : ProbeHome(home)

ServeStep ==
    \/ \E ok \in BOOLEAN : ServeList(ok)
    \/ ServeTransfer
    \/ ServeDrop
    \/ ServeShutdown

TransferStep ==
    \/ ReapOk
    \/ ReapFailed
    \/ ReapError
    \/ SampleProgress
    \/ WaitTimesOut
    \/ CancelTransfer
    \/ ShutdownTransfer
    \/ IgnoreCommand

WorkerStep == ConnectStep \/ ServeStep \/ TransferStep

\* The steps the thread takes by itself: it keeps polling a master that
\* neither comes up nor goes away.
Unprompted == WorkerStep /\ (wpc = "handshake" => HandshakePoll(FALSE, FALSE))

ChildEnds == \E result \in {"ok", "failed"} : ChildExits(result)

ProgramStep == ChildWrites \/ ChildEnds \/ HandshakeDeadline
==============================================================================
