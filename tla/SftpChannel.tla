----------------------------- MODULE SftpChannel -----------------------------
(***************************************************************************)
(* The two unbounded FIFO channels between the TUI thread and the SFTP     *)
(* worker thread, and the vocabulary that travels on them                  *)
(* (connect/sftp/proto.rs).  `cmds' is the mpsc channel behind             *)
(* SftpWorker::send, `evts' the one behind SftpWorker::try_event.          *)
(*                                                                         *)
(* A Transfer, Cancel, Progress or Done message carries a field t that the *)
(* program's message does not have: the ledger id of the task it is about. *)
(* No guard and no assignment of the program's state reads it; it is the   *)
(* history the properties need to say WHICH task a message belongs to.     *)
(***************************************************************************)
EXTENDS Naturals, Sequences

CONSTANTS MaxTasks,   \* bound: ledger ids handed out in one session
          Names,      \* file names a job may transfer
          Jobs,       \* the transfer jobs the user may build
          Dirs,       \* remote directories
          NoDir       \* "no directory": Option::None of a PathBuf

Direction == {"Upload", "Download"}

ASSUME ChannelAssumption ==
         /\ MaxTasks \in Nat
         /\ Jobs # {}
         /\ Jobs \subseteq [dir : Direction, name : Names, recursive : BOOLEAN]
         /\ NoDir \notin Dirs

VARIABLES cmds,       \* commands sent and not yet received
          evts        \* events emitted and not yet drained

chanVars == <<cmds, evts>>

TaskId == 1..MaxTasks
Outcome == {"Ok", "Failed", "Cancelled"}
OverwritePolicy == {"Overwrite", "OverwriteAll", "SkipAll"}

(***************************************************************************)
(* WorkerCmd and WorkerEvent.                                              *)
(***************************************************************************)
List(d) == [k |-> "List", dir |-> d]
Transfer(t, j, p) == [k |-> "Transfer", t |-> t, job |-> j, policy |-> p]
Cancel(t) == [k |-> "Cancel", t |-> t]
Shutdown == [k |-> "Shutdown"]
HostKeyConfirm(b) == [k |-> "HostKeyConfirm", accept |-> b]

WorkerCmd ==
    [k : {"List"}, dir : Dirs]
      \cup [k : {"Transfer"}, t : TaskId, job : Jobs, policy : OverwritePolicy]
      \cup [k : {"Cancel"}, t : TaskId]
      \cup [k : {"Shutdown"}]
      \cup [k : {"HostKeyConfirm"}, accept : BOOLEAN]

Listing(d, ok) == [k |-> "Listing", dir |-> d, ok |-> ok]
Progress(t) == [k |-> "Progress", t |-> t]
Done(t, o) == [k |-> "Done", t |-> t, outcome |-> o]
Connected(home) == [k |-> "Connected", home |-> home]
ConnectFailed == [k |-> "ConnectFailed"]
HostKeyNeedsConfirm == [k |-> "HostKeyNeedsConfirm"]

WorkerEvent ==
    [k : {"Listing"}, dir : Dirs, ok : BOOLEAN]
      \cup [k : {"Progress"}, t : TaskId]
      \cup [k : {"Done"}, t : TaskId, outcome : Outcome]
      \cup [k : {"Connected"}, home : Dirs]
      \cup [k : {"ConnectFailed"}]
      \cup [k : {"HostKeyNeedsConfirm"}]

ChannelTypeOK == cmds \in Seq(WorkerCmd) /\ evts \in Seq(WorkerEvent)
==============================================================================
