------------------------------ MODULE JobRunner ------------------------------
(***************************************************************************)
(* The life of a queue job: worker._run_and_broadcast around _run_job,     *)
(* from the claim to the broadcast of its outcome.                         *)
(*                                                                         *)
(* A job is a row of queue_items, a task of the event loop, and a chain of *)
(* executor calls that read and write the row.  Cancelling the task stops  *)
(* it waiting for a call and never stops the call: the call commits later, *)
(* over whatever the row has become.  An abort is itself a thread that     *)
(* reads the row, writes it and cancels the task, in three steps.  SQLite  *)
(* gives a new row the id after the highest one, so a retry of the newest  *)
(* job, which deletes its row, gets that job's id back.                    *)
(*                                                                         *)
(* Of a row the module keeps the status ("settled" stands for skipped,     *)
(* dry_run and manual_review), and of a run whether its output has         *)
(* replaced the file.  A commit may fail, as when the database is locked,  *)
(* or the load raise, MaxFaults times in all.                              *)
(***************************************************************************)
EXTENDS Naturals, FiniteSets

CONSTANTS
    Tasks,      \* task objects; a finished one is used again
    None,       \* no task, no job
    Asking,     \* a claim call in progress
    MaxId,      \* bound on row ids
    MaxJobs,    \* max_concurrent_jobs
    MaxFaults,  \* bound on failures
    MaxLeft     \* bound on abandoned calls: an abort begins with fewer

ASSUME MaxJobsPositive == MaxJobs \in Nat \ {0}
ASSUME MaxIdPositive == MaxId \in Nat \ {0}
ASSUME BoundsNatural == MaxFaults \in Nat /\ MaxLeft \in Nat

Ids == 1 .. MaxId

ASSUME MarksAreNoIds == None \notin Tasks \cup Ids /\ Asking \notin Ids \cup {None}

VARIABLES
    row,        \* queue_items.status, by id
    task,       \* the tasks
    active,     \* active_tasks and _active_task_registry, by id
    left,       \* executor calls nobody waits for any more
    claiming,   \* the loop is claiming: it saw the worker not paused
    handoff,    \* a claim call in progress, or the id it has returned
    paused,     \* _paused
    abort,      \* the abort request in progress
    stopping,   \* stop_worker has begun
    faults,     \* commits and loads that have failed
    changed     \* ids whose row's own run has replaced the file

vars == <<row, task, active, left, claiming, handoff, paused, abort, stopping,
          faults, changed>>
worker == <<active, claiming, handoff, paused>>

Statuses == {"none", "pending", "processing", "success", "failed", "cancelled",
             "settled"}

\* What a task waits for: an executor call, or something else.
Calls == {"load", "finish", "changed", "complete", "completeCut", "requeue",
          "emergency"}
Steps == Calls \cup {"idle", "run", "unwind", "post", "report", "done"}

\* then is where the task goes on once its call has returned, "none" until then.
TaskRecord == [id : Ids \cup {None}, at : Steps, then : Steps \cup {"none"},
               cancel : BOOLEAN, told : BOOLEAN]
Fresh == [id |-> None, at |-> "idle", then |-> "none", cancel |-> FALSE, told |-> FALSE]

AbortSteps == {"no", "found", "read", "marked"}
NoAbort == [at |-> "no", id |-> None, task |-> None, seen |-> FALSE]

Going(t) == task[t].at \notin {"idle", "done"}

TypeOK ==
    /\ row \in [Ids -> Statuses]
    /\ task \in [Tasks -> TaskRecord]
    /\ \A t \in Tasks : task[t].at = "idle" <=> task[t].id = None
    /\ \A t \in Tasks : task[t].then # "none" => task[t].at \in Calls
    /\ active \in [Ids -> Tasks \cup {None}]
    /\ \A i \in Ids : active[i] # None => task[active[i]].id = i
    /\ left \subseteq [call : Calls, id : Ids]
    /\ claiming \in BOOLEAN /\ paused \in BOOLEAN /\ stopping \in BOOLEAN
    /\ handoff \in Ids \cup {None, Asking}
    /\ abort \in [at : AbortSteps, id : Ids \cup {None},
                  task : Tasks \cup {None}, seen : BOOLEAN]
    /\ faults \in 0 .. MaxFaults
    /\ changed \subseteq Ids

Init ==
    /\ row = [i \in Ids |-> "none"]
    /\ task = [t \in Tasks |-> Fresh]
    /\ active = [i \in Ids |-> None]
    /\ left = {}
    /\ claiming = FALSE
    /\ handoff = None
    /\ paused = FALSE
    /\ abort = NoAbort
    /\ stopping = FALSE
    /\ faults = 0
    /\ changed = {}

-----------------------------------------------------------------------------
(* Writing rows                                                            *)

\* An UPDATE of a row that is gone changes nothing.
Write(r, i, status) == IF r[i] = "none" THEN r ELSE [r EXCEPT ![i] = status]

\* An update the code makes only if the row still says it is running.
WriteIfRunning(r, i, status) ==
    IF r[i] = "processing" THEN [r EXCEPT ![i] = status] ELSE r

\* The id after the highest one.
NewId(r) == 1 + Cardinality({i \in Ids : \E j \in i .. MaxId : r[j] # "none"})

\* r, or r with a row added: what evaluating a file can do.
Additions(r) ==
    {r} \cup IF NewId(r) \in Ids
               THEN {[r EXCEPT ![NewId(r)] = s] : s \in {"pending", "settled"}}
               ELSE {}

\* What a call can do: the table it leaves, the failures in it, and
\* where its task goes on.
Outcome(r, failed, then) == [row |-> r, failed |-> failed, then |-> then]

\* _finish_job writes the row without looking at its status.  Its commit may
\* fail, and then the commit of _emergency_fail_job may fail too.
Finishes(i, status, then) ==
    {Outcome(Write(row, i, status), 0, then),
     Outcome(WriteIfRunning(row, i, "failed"), 1, then),
     Outcome(row, 2, then)}

\* _cancel_for_changed_source, with the evaluation that follows it.  A commit
\* that fails is raised.
CancelsForChange(i) ==
    IF row[i] # "processing" THEN {Outcome(row, 0, "post")}
    ELSE {Outcome(r, 0, "post") : r \in Additions([row EXCEPT ![i] = "cancelled"])}
            \cup {Outcome(row, 1, "post")}

\* A failure, or a dry run, or a review of the subtitles.
EndsUnswapped(i) == Finishes(i, "failed", "post") \cup Finishes(i, "settled", "post")

\* _load_job_data: go on, or end the job here, or raise.
Loads(i) ==
    {Outcome(row, 0, IF row[i] = "none" THEN "post" ELSE "run"), Outcome(row, 1, "post")}
        \cup EndsUnswapped(i) \cup CancelsForChange(i)

\* Only a row that says it is running.  A failed commit leaves the finally
\* block, and with it the task.
Requeues(i) ==
    {Outcome(WriteIfRunning(row, i, "pending"), 0, "post")}
        \cup IF row[i] = "processing" THEN {Outcome(row, 1, "done")} ELSE {}

EmergencyFails(i) ==
    {Outcome(WriteIfRunning(row, i, "failed"), 0, "report")}
        \cup IF row[i] = "processing" THEN {Outcome(row, 1, "report")} ELSE {}

Outcomes(call, i) ==
    CASE call = "load" -> Loads(i)
      [] call = "finish" -> EndsUnswapped(i)
      [] call = "changed" -> CancelsForChange(i)
      [] call = "complete" -> Finishes(i, "success", "post")
      [] call = "completeCut" -> Finishes(i, "success", "requeue")
      [] call = "requeue" -> Requeues(i)
      [] call = "emergency" -> EmergencyFails(i)

\* The call commits, or fails to.
Commit(o) ==
    /\ faults + o.failed <= MaxFaults
    /\ faults' = faults + o.failed
    /\ row' = o.row

-----------------------------------------------------------------------------
(* The loop                                                                *)

\* Variant: the entries of tasks that have ended are kept.
StartPassKeepsEntries ==
    /\ ~stopping /\ ~claiming
    /\ task' = [t \in Tasks |-> IF task[t].at = "done" THEN Fresh ELSE task[t]]
    /\ claiming' = ~paused
    /\ UNCHANGED <<row, active, left, handoff, paused, abort, stopping, faults,
                   changed>>

\* Prune the tasks that have ended, and claim unless paused.
StartPass ==
    /\ ~stopping /\ ~claiming
    /\ task' = [t \in Tasks |-> IF task[t].at = "done" THEN Fresh ELSE task[t]]
    /\ active' = [i \in Ids |->
                    IF active[i] # None /\ task[active[i]].at = "done"
                      THEN None ELSE active[i]]
    /\ claiming' = ~paused
    /\ UNCHANGED <<row, left, handoff, paused, abort, stopping, faults, changed>>

\* The loop counts its entries: a task whose id has been claimed again has
\* lost its entry.
Entries == Cardinality({i \in Ids : active[i] # None})

AskForJob ==
    /\ claiming /\ handoff = None /\ Entries < MaxJobs
    /\ handoff' = Asking
    /\ UNCHANGED <<row, task, active, left, claiming, paused, abort, stopping,
                   faults, changed>>

\* _claim_next commits.  After a stop nobody waits for its answer.
ClaimRow ==
    /\ handoff = Asking
    /\ \E i \in Ids :
          /\ row[i] = "pending"
          /\ row' = [row EXCEPT ![i] = "processing"]
          /\ changed' = changed \ {i}
          /\ handoff' = IF stopping THEN None ELSE i
    /\ UNCHANGED <<task, active, left, claiming, paused, abort, stopping, faults>>

Launched(t) ==
    /\ task' = [task EXCEPT ![t] = [Fresh EXCEPT !.id = handoff, !.at = "load"]]
    /\ active' = [active EXCEPT ![handoff] = t]

\* Variant: a job handed over while the user pauses is not started.
LaunchUnlessPaused ==
    /\ handoff \in Ids
    /\ IF paused THEN UNCHANGED <<task, active>>
       ELSE \E t \in Tasks : task[t].at = "idle" /\ abort.task # t /\ Launched(t)
    /\ handoff' = None
    /\ UNCHANGED <<row, left, claiming, paused, abort, stopping, faults, changed>>

\* After the job_started broadcast.  A task the abort request still refers
\* to is another object.
LaunchTask ==
    /\ handoff \in Ids
    /\ \E t \in Tasks : task[t].at = "idle" /\ abort.task # t /\ Launched(t)
    /\ handoff' = None
    /\ UNCHANGED <<row, left, claiming, paused, abort, stopping, faults, changed>>

\* No room, or nothing to claim, or a claim that failed, which is answered as
\* nothing to claim.
EndPass ==
    /\ claiming
    /\ \/ handoff = None /\ Entries >= MaxJobs /\ UNCHANGED faults
       \/ /\ handoff = Asking /\ UNCHANGED faults
          /\ \A i \in Ids : row[i] # "pending"
       \/ handoff = Asking /\ faults < MaxFaults /\ faults' = faults + 1
    /\ claiming' = FALSE /\ handoff' = None
    /\ UNCHANGED <<row, task, active, left, paused, abort, stopping, changed>>

-----------------------------------------------------------------------------
(* A task                                                                  *)

To(t, step) == task' = [task EXCEPT ![t].at = step, ![t].then = "none"]

table == <<row, faults>>
beside == <<worker, left, abort, stopping>>

\* The thread of the call the task waits for.
CallCommits(t) ==
    /\ task[t].at \in Calls /\ task[t].then = "none"
    /\ \E o \in Outcomes(task[t].at, task[t].id) :
          /\ Commit(o)
          /\ task' = [task EXCEPT ![t].then = o.then]
    /\ UNCHANGED <<beside, changed>>

\* The thread of a call nobody waits for any more.
LeftCommits(c) ==
    /\ \E o \in Outcomes(c.call, c.id) : Commit(o)
    /\ left' = left \ {c}
    /\ UNCHANGED <<worker, task, abort, stopping, changed>>

\* The task goes on with what the call returned.
Resumes(t) ==
    /\ task[t].then # "none" /\ ~task[t].cancel
    /\ To(t, task[t].then)
    /\ UNCHANGED <<table, beside, changed>>

\* FFmpeg has failed, timed out or been refused, or the source has changed.
EndRun(t) ==
    /\ task[t].at = "run" /\ ~task[t].cancel
    /\ To(t, "finish") \/ To(t, "changed")
    /\ UNCHANGED <<table, beside, changed>>

\* run_staged_subprocess awaits nothing between the swap and its return, and
\* _run_job nothing before it starts complete().
Swap(t) ==
    /\ task[t].at = "run" /\ ~task[t].cancel
    /\ To(t, "complete")
    /\ changed' = IF active[task[t].id] = t /\ handoff # task[t].id
                    THEN changed \cup {task[t].id} ELSE changed
    /\ UNCHANGED <<table, beside>>

\* FFmpeg is killed, the copy waited for and the temporary files removed.
Unwinds(t) ==
    /\ task[t].at = "unwind" /\ ~task[t].cancel
    /\ To(t, "requeue")
    /\ UNCHANGED <<table, beside, changed>>

\* Variant: the outcome is broadcast as it is.
ReadOutcomeOnly(t) ==
    /\ task[t].at = "post" /\ ~task[t].cancel
    /\ To(t, IF row[task[t].id] = "none" THEN "done" ELSE "report")
    /\ UNCHANGED <<table, beside, changed>>

\* _load_post_job_data: a row that is gone ends the task without a word, one
\* still running goes through the emergency net.
ReadOutcome(t) ==
    /\ task[t].at = "post" /\ ~task[t].cancel
    /\ To(t, CASE row[task[t].id] = "none" -> "done"
               [] row[task[t].id] = "processing" -> "emergency"
               [] OTHER -> "report")
    /\ UNCHANGED <<table, beside, changed>>

\* The job_completed broadcast and what follows a success, with the
\* evaluation of a file whose language was answered meanwhile.
Report(t) ==
    /\ task[t].at = "report" /\ ~task[t].cancel
    /\ row' \in IF row[task[t].id] = "success" THEN Additions(row) ELSE {row}
    /\ task' = [task EXCEPT ![t].at = "done", ![t].told = TRUE]
    /\ UNCHANGED <<faults, beside, changed>>

\* Where a cancellation leads.  The task stops waiting; the call goes on.
\* complete() is shielded: a first cancellation waits for it.
Cut == [load |-> "requeue", run |-> "unwind", unwind |-> "requeue",
        finish |-> "requeue", changed |-> "requeue",
        complete |-> "completeCut", completeCut |-> "requeue",
        requeue |-> "done", post |-> "done", emergency |-> "done",
        report |-> "done"]

Abandoned(t) ==
    IF task[t].at \in Calls /\ task[t].then = "none"
      THEN {[call |-> task[t].at, id |-> task[t].id]} ELSE {}

\* Variant: complete() is not shielded.
CancelDeliveredUnshielded(t) ==
    /\ task[t].cancel
    /\ left' = left \cup Abandoned(t)
    /\ task' = [task EXCEPT
                  ![t].at = IF @ = "complete" THEN "requeue" ELSE Cut[@],
                  ![t].then = "none", ![t].cancel = FALSE]
    /\ UNCHANGED <<table, worker, abort, stopping, changed>>

CancelDelivered(t) ==
    /\ task[t].cancel
    /\ IF task[t].at = "complete"
         THEN /\ task' = [task EXCEPT
                            ![t].at = "completeCut", ![t].cancel = FALSE,
                            ![t].then = IF @ = "none" THEN "none" ELSE "requeue"]
              /\ UNCHANGED left
         ELSE /\ task' = [task EXCEPT ![t].at = Cut[@], ![t].then = "none",
                                      ![t].cancel = FALSE]
              /\ left' = left \cup Abandoned(t)
    /\ UNCHANGED <<table, worker, abort, stopping, changed>>

-----------------------------------------------------------------------------
(* Requests                                                                *)

others == <<task, active, left, claiming, handoff, stopping, faults>>

\* worker.abort_job: the task is found and the worker paused, ...
AbortFind(i) ==
    /\ abort = NoAbort /\ Cardinality(left) < MaxLeft
    /\ active[i] # None /\ Going(active[i])
    /\ abort' = [at |-> "found", id |-> i, task |-> active[i], seen |-> FALSE]
    /\ paused' = TRUE
    /\ UNCHANGED <<row, others, changed>>

\* ... the row is read, ...
AbortRead ==
    /\ abort.at = "found"
    /\ abort' = [abort EXCEPT !.at = "read", !.seen = row[abort.id] = "processing"]
    /\ UNCHANGED <<row, paused, others, changed>>

\* ... marked if it was running when read (if it has gone meanwhile, the
\* request fails), ...
AbortMark ==
    /\ abort.at = "read"
    /\ row' = IF abort.seen THEN Write(row, abort.id, "cancelled") ELSE row
    /\ abort' = IF abort.seen /\ row[abort.id] = "none" THEN NoAbort
                ELSE [abort EXCEPT !.at = "marked"]
    /\ UNCHANGED <<paused, others, changed>>

\* ... and the task cancelled, whatever it is doing by now.
AbortCancel ==
    /\ abort.at = "marked"
    /\ task' = IF Going(abort.task) THEN [task EXCEPT ![abort.task].cancel = TRUE]
               ELSE task
    /\ abort' = NoAbort
    /\ UNCHANGED <<row, active, left, claiming, handoff, paused, stopping, faults,
                   changed>>

\* A scan or a webhook queues a file.
QueueFile ==
    /\ NewId(row) \in Ids
    /\ row' = [row EXCEPT ![NewId(row)] = "pending"]
    /\ UNCHANGED <<paused, abort, others, changed>>

\* queue._retry_with_reprobe, one transaction: the attempt is deleted and the
\* file evaluated.
Retry(i) ==
    /\ row[i] \in {"failed", "cancelled"}
    /\ row' \in Additions([row EXCEPT ![i] = "none"])
    /\ changed' = changed \ {i}
    /\ UNCHANGED <<paused, abort, others>>

\* The file's record is dropped, with its rows, whatever their status.
DropRecord(i) ==
    /\ row[i] # "none"
    /\ row' = [row EXCEPT ![i] = "none"]
    /\ changed' = changed \ {i}
    /\ UNCHANGED <<paused, abort, others>>

Pause ==
    /\ ~paused /\ paused' = TRUE
    /\ UNCHANGED <<row, abort, others, changed>>

Resume ==
    /\ paused /\ paused' = FALSE
    /\ UNCHANGED <<row, abort, others, changed>>

-----------------------------------------------------------------------------
(* The process                                                             *)

\* stop_worker: the loop is cancelled, then every task in the registry.
Stop ==
    /\ ~stopping
    /\ stopping' = TRUE
    /\ claiming' = FALSE
    /\ handoff' = IF handoff = Asking THEN Asking ELSE None
    /\ task' = [t \in Tasks |->
                  IF Going(t) /\ active[task[t].id] = t
                    THEN [task[t] EXCEPT !.cancel = TRUE] ELSE task[t]]
    /\ UNCHANGED <<row, active, left, paused, abort, faults, changed>>

\* The process has gone, cleanly or not, and starts again:
\* recover_interrupted_jobs fails every row still running.
Restart ==
    /\ row' = [i \in Ids |-> WriteIfRunning(row, i, "failed")[i]]
    /\ task' = [t \in Tasks |-> Fresh]
    /\ active' = [i \in Ids |-> None]
    /\ left' = {}
    /\ claiming' = FALSE /\ handoff' = None
    /\ paused' \in BOOLEAN
    /\ abort' = NoAbort
    /\ stopping' = FALSE
    /\ UNCHANGED <<faults, changed>>

-----------------------------------------------------------------------------

Loop == StartPass \/ AskForJob \/ ClaimRow \/ LaunchTask \/ EndPass
TaskStep(t) == Resumes(t) \/ EndRun(t) \/ Swap(t) \/ Unwinds(t) \/ ReadOutcome(t)
               \/ Report(t) \/ CancelDelivered(t)
AbortStep == AbortRead \/ AbortMark \/ AbortCancel
Request ==
    \/ \E i \in Ids : AbortFind(i) \/ Retry(i) \/ DropRecord(i)
    \/ QueueFile \/ Pause \/ Resume

Next ==
    \/ Loop
    \/ \E t \in Tasks : CallCommits(t) \/ TaskStep(t)
    \/ \E c \in left : LeftCommits(c)
    \/ AbortStep
    \/ Request
    \/ Stop
    \/ Restart

\* The event loop and the threads keep running, and FFmpeg ends (by default it
\* is given job_timeout_minutes).
Fairness ==
    /\ WF_vars(Loop)
    /\ \A t \in Tasks : WF_vars(CallCommits(t)) /\ WF_vars(TaskStep(t))
    /\ WF_vars(AbortStep)

Spec == Init /\ [][Next]_vars /\ Fairness

-----------------------------------------------------------------------------
(* Properties                                                              *)

Running(i) == row[i] = "processing"
HasTask(i) == \E t \in Tasks : Going(t) /\ task[t].id = i

\* Outside a shutdown no row says "processing" with nobody left to end it:
\* an abort, a retry or a dropped record at any moment, and any one failure,
\* strand no job (the emergency net of _run_and_broadcast).
NoStrandedRow ==
    ~stopping => \A i \in Ids : Running(i) => handoff = i \/ HasTask(i)

\* _requeue_cut_off_job: a job that its task puts back in the queue "never
\* replaced anything, and running it again from the start is safe".  True one
\* job at a time.
PutsBack(t) ==
    /\ task[t].at = "requeue" /\ task[t].then = "none" /\ task'[t].then = "post"
    /\ Running(task[t].id)
RequeueSafe == [][\A t \in Tasks : PutsBack(t) => task[t].id \notin changed]_vars

\* And a claimed job ends: its row leaves "processing" unless a shutdown
\* intervenes.
EveryJobEnds == \A i \in Ids : Running(i) ~> ~Running(i) \/ stopping

\* _run_and_broadcast: the finally block "guarantees EVERY connected client
\* gets" the job_completed event of a job that has ended.
CompletedAnnounced ==
    \A t \in Tasks :
        task[t].at = "done" /\ row[task[t].id] \in {"success", "failed", "cancelled"}
            => task[t].told \/ stopping

\* abort_job: "An aborted file's bytes are unchanged on disk".
AbortedUnchanged ==
    \A t \in Tasks :
        task[t].at = "done" /\ row[task[t].id] = "cancelled"
            => task[t].id \notin changed

=============================================================================
