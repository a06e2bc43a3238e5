---------------------------- MODULE TransferQueue ----------------------------
(***************************************************************************)
(* What the transfer queue promises its user, with no threads, channels or *)
(* events: files go over one at a time, in the order they were queued, and *)
(* a task is reported cancelled only if the user cancelled that task.      *)
(*                                                                         *)
(* SftpSession implements it (SftpSession!Implements): a task runs from    *)
(* the moment it is dispatched to the moment the worker reports it, which  *)
(* is before the screen gets to hear of it.                                *)
(***************************************************************************)
EXTENDS Naturals

CONSTANT MaxTasks     \* bound: tasks queued in one session

VARIABLES status,     \* [Task -> Status]
          paused,     \* the user paused the queue
          asked       \* tasks the user asked to cancel

qvars == <<status, paused, asked>>

Task == 1..MaxTasks
Result == {"Ok", "Failed", "Cancelled"}
Status == {"Unborn", "Queued", "Running", "Removed"} \cup Result

QTypeOK ==
    /\ status \in [Task -> Status]
    /\ paused \in BOOLEAN
    /\ asked \subseteq Task

QInit ==
    /\ status = [t \in Task |-> "Unborn"]
    /\ paused = FALSE
    /\ asked = {}

Having(s) == {t \in Task : status[t] = s}

\* A batch of tasks enters the queue.
Submit(batch) ==
    /\ batch # {}
    /\ batch \subseteq Having("Unborn")
    /\ status' = [t \in Task |-> IF t \in batch THEN "Queued" ELSE status[t]]
    /\ UNCHANGED <<paused, asked>>

\* The longest-waiting task starts, when nothing runs and nobody paused.
Start(t) ==
    /\ ~paused
    /\ Having("Running") = {}
    /\ status[t] = "Queued"
    /\ \A u \in Having("Queued") : t <= u
    /\ status' = [status EXCEPT ![t] = "Running"]
    /\ UNCHANGED <<paused, asked>>

\* The running task ends; Cancelled only if it was asked for.
Settle(t, result) ==
    /\ status[t] = "Running"
    /\ result = "Cancelled" => t \in asked
    /\ status' = [status EXCEPT ![t] = result]
    /\ asked' \in {asked, asked \ {t}}
    /\ UNCHANGED paused

\* The user retries a task that did not succeed.
Resubmit(t) ==
    /\ status[t] \in {"Failed", "Cancelled"}
    /\ status' = [status EXCEPT ![t] = "Queued"]
    /\ UNCHANGED <<paused, asked>>

\* The user takes a task that is not running off the list.
Withdraw(t) ==
    /\ status[t] \in {"Queued"} \cup Result
    /\ status' = [status EXCEPT ![t] = "Removed"]
    /\ UNCHANGED <<paused, asked>>

\* The user gives up the whole batch instead of answering for its first task.
Abandon ==
    /\ ~paused
    /\ Having("Running") = {}
    /\ Having("Queued") # {}
    /\ status' = [t \in Task |-> IF status[t] = "Queued" THEN "Removed" ELSE status[t]]
    /\ UNCHANGED <<paused, asked>>

Pause == /\ paused' = ~paused
         /\ UNCHANGED <<status, asked>>

Ask(t) == /\ status[t] \in {"Running"} \cup Result
          /\ asked' = asked \cup {t}
          /\ UNCHANGED <<status, paused>>

\* A request that came too late (or closing the screen) is forgotten.
Forget == /\ asked' \subseteq asked
          /\ UNCHANGED <<status, paused>>

QNext ==
    \/ \E batch \in SUBSET Task : Submit(batch)
    \/ \E t \in Task : Start(t) \/ Resubmit(t) \/ Withdraw(t) \/ Ask(t)
    \/ \E t \in Task, result \in Result : Settle(t, result)
    \/ Abandon
    \/ Pause
    \/ Forget

QSpec == QInit /\ [][QNext]_qvars

\* One file at a time: what the ledger means by "concurrency = 1".
OneRunning ==
    \A t, u \in Task : status[t] = "Running" /\ status[u] = "Running" => t = u
==============================================================================
