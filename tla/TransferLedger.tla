---------------------------- MODULE TransferLedger ----------------------------
(***************************************************************************)
(* The transfer queue of one SFTP session (tui/transfer/ledger.rs): every  *)
(* task the user enqueued, its state, and the queue-level pause flag.      *)
(*                                                                         *)
(* The program keeps a Vec of tasks in insertion order and hands out ids   *)
(* from a counter that only grows, retries in place and never reorders, so *)
(* Vec order IS id order.  The model is therefore a function over ids:     *)
(* "the first task in state s" is the least id in state s, a task not      *)
(* enqueued yet is "Unborn" and one dropped from the Vec is "Removed".     *)
(***************************************************************************)
EXTENDS SftpChannel, FiniteSets

VARIABLES state,      \* [TaskId -> TaskState]
          job,        \* [TaskId -> Jobs]; meaningless while Unborn
          progress,   \* whose sample a task displays: 0 is Option::None
          nextId,     \* next id enqueue() hands out
          paused      \* queue-level pause

ledgerVars == <<state, job, progress, nextId, paused>>

TaskState == {"Unborn", "Queued", "InFlight", "Removed"} \cup Outcome

InState(s) == {t \in TaskId : state[t] = s}
First(S) == CHOOSE t \in S : \A u \in S : t <= u

HasInflight == InState("InFlight") # {}
InflightId == First(InState("InFlight"))
QueueEmpty == InState("Queued") = {}

LedgerTypeOK ==
    /\ state \in [TaskId -> TaskState]
    /\ job \in [TaskId -> Jobs]
    /\ progress \in [TaskId -> TaskId \cup {0}]
    /\ nextId \in 1..(MaxTasks + 1)
    /\ paused \in BOOLEAN

LedgerInit ==
    /\ state = [t \in TaskId |-> "Unborn"]
    /\ job = [t \in TaskId |-> CHOOSE j \in Jobs : TRUE]
    /\ progress = [t \in TaskId |-> 0]
    /\ nextId = 1
    /\ paused = FALSE

(***************************************************************************)
(* The ledger's methods, each an action on the variables it assigns; the   *)
(* caller leaves the others unchanged.                                     *)
(***************************************************************************)

\* enqueue(), once per job of the sequence js (one key press queues a batch)
EnqueueJobs(js) ==
    /\ nextId + Len(js) <= MaxTasks + 1
    /\ LET new == nextId..(nextId + Len(js) - 1)
       IN  /\ state' = [t \in TaskId |-> IF t \in new THEN "Queued" ELSE state[t]]
           /\ job' = [t \in TaskId |-> IF t \in new THEN js[t - nextId + 1] ELSE job[t]]
    /\ nextId' = nextId + Len(js)
    /\ UNCHANGED <<progress, paused>>

\* the guard of next_to_dispatch(): the head Queued task, unless paused
Dispatchable == IF paused THEN {} ELSE InState("Queued")

\* next_to_dispatch()
StartTask(t) ==
    /\ state' = [state EXCEPT ![t] = "InFlight"]
    /\ UNCHANGED <<job, progress, nextId, paused>>

\* Mutant of DropBatch: the task already marked InFlight is left behind.
DropQueuedOnly(t) ==
    /\ state' = [u \in TaskId |->
                   IF u = t THEN "InFlight"
                   ELSE IF state[u] = "Queued" THEN "Removed" ELSE state[u]]
    /\ UNCHANGED <<job, progress, nextId, paused>>

\* abort_inflight() then clear_queued(): the popup's Cancel drops the batch,
\* the job in hand (marked InFlight, never sent) included
DropBatch(t) ==
    /\ state' = [u \in TaskId |->
                   IF u = t \/ state[u] \in {"Queued", "InFlight"}
                   THEN "Removed" ELSE state[u]]
    /\ UNCHANGED <<job, progress, nextId, paused>>

\* set_inflight_progress(): a sample goes to whichever task is in flight
SetInflightProgress(sample) ==
    /\ progress' = IF HasInflight
                   THEN [progress EXCEPT ![InflightId] = sample]
                   ELSE progress
    /\ UNCHANGED <<state, job, nextId, paused>>

\* Mutant of FinishInflight: the progress snapshot is not cleared.
FinishKeepsProgress(o) ==
    /\ state' = IF HasInflight THEN [state EXCEPT ![InflightId] = o] ELSE state
    /\ UNCHANGED <<job, progress, nextId, paused>>

\* finish_inflight(): the first InFlight task takes the outcome
FinishInflight(o) ==
    /\ IF HasInflight
       THEN /\ state' = [state EXCEPT ![InflightId] = o]
            /\ progress' = [progress EXCEPT ![InflightId] = 0]
       ELSE UNCHANGED <<state, progress>>
    /\ UNCHANGED <<job, nextId, paused>>

\* retry(): only a failed or cancelled task goes back to the queue
RetryTask(t) ==
    /\ state[t] \in {"Failed", "Cancelled"}
    /\ state' = [state EXCEPT ![t] = "Queued"]
    /\ progress' = [progress EXCEPT ![t] = 0]
    /\ UNCHANGED <<job, nextId, paused>>

\* remove(): never the in-flight task
RemoveTask(t) ==
    /\ state[t] \in {"Queued"} \cup Outcome
    /\ state' = [state EXCEPT ![t] = "Removed"]
    /\ UNCHANGED <<job, progress, nextId, paused>>

TogglePaused ==
    /\ paused' = ~paused
    /\ UNCHANGED <<state, job, progress, nextId>>

\* last_direction(): the in-flight task's, else the last finished in Vec order
LastDirection ==
    LET ended == {t \in TaskId : state[t] \in Outcome}
    IN  CASE HasInflight -> job[InflightId].dir
          [] ~HasInflight /\ ended # {} ->
               job[CHOOSE t \in ended : \A u \in ended : u <= t].dir
          [] OTHER -> "None"
==============================================================================
