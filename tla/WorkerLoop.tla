------------------------------ MODULE WorkerLoop ------------------------------
(***************************************************************************)
(* worker._loop: which waiting job takes a free slot, and when the loop    *)
(* pauses.                                                                 *)
(*                                                                         *)
(* One pass prunes the tasks that ended, reads the settings, offers a free *)
(* slot to the forge first, and then claims queue jobs up to               *)
(* max_concurrent_jobs.  Each of those steps is an await or an executor    *)
(* call, so the routes (pause, resume, abort, settings) and the scans run  *)
(* between any two of them.                                                *)
(*                                                                         *)
(* A file has at most one queue job and one forge job here.  How a job     *)
(* runs is left out: it takes a slot until it ends.                        *)
(***************************************************************************)
EXTENDS Naturals, FiniteSets

CONSTANTS
    Files,      \* media files
    JobFiles,   \* the files a queue job may be queued for
    ForgeFiles, \* the files a forge job may be queued for
    None,       \* no file
    MaxJobs     \* max_concurrent_jobs

ASSUME MaxJobsPositive == MaxJobs \in Nat \ {0}
ASSUME FilesGiven == JobFiles \cup ForgeFiles \subseteq Files /\ None \notin Files

VARIABLES
    job,        \* the queue job of each file
    forge,      \* the forge job of each file
    reverting,  \* revert_lock._reverting_file_id
    active,     \* active_tasks, by file
    forgeTask,  \* forge_task
    pc,         \* where the pass has come to
    picked,     \* the job claimed and not yet launched
    total,      \* total_active
    paused,     \* _paused
    autoStart,  \* the auto_start_jobs setting
    autoSeen    \* _auto_start_seen, which is also the pass's auto_start

vars == <<job, forge, reverting, active, forgeTask, pc, picked, total, paused,
          autoStart, autoSeen>>
tables == <<job, forge, reverting>>

States == {"none", "pending", "processing"}
Steps == {"pass", "look", "forge", "claim", "launch", "end"}

TypeOK ==
    /\ job \in [Files -> States]
    /\ forge \in [Files -> States]
    /\ reverting \in Files \cup {None}
    /\ active \subseteq Files
    /\ forgeTask \in {"none", "claiming", "running", "done"}
    /\ pc \in Steps
    /\ picked \in Files \cup {None}
    /\ pc = "launch" <=> picked # None
    /\ total \in 0 .. MaxJobs
    /\ paused \in BOOLEAN /\ autoStart \in BOOLEAN /\ autoSeen \in BOOLEAN

\* start_worker: paused unless auto-start is on.
Init ==
    /\ job = [f \in Files |-> "none"]
    /\ forge = [f \in Files |-> "none"]
    /\ reverting = None
    /\ active = {}
    /\ forgeTask = "none"
    /\ pc = "pass"
    /\ picked = None
    /\ total = 0
    /\ autoStart \in BOOLEAN
    /\ autoSeen = autoStart
    /\ paused = ~autoStart

-----------------------------------------------------------------------------
(* One pass                                                                *)

JobClaimable(f) ==
    job[f] = "pending" /\ f # reverting /\ forge[f] # "processing"
ForgeClaimable(f) ==
    forge[f] = "pending" /\ f # reverting /\ job[f] # "processing"

\* Prune, read the settings, and pause if auto-start has just been turned off.
StartPass ==
    /\ pc = "pass"
    /\ active' = {f \in active : job[f] = "processing"}
    /\ forgeTask' = IF forgeTask = "done" THEN "none" ELSE forgeTask
    /\ paused' = (paused \/ (autoSeen /\ ~autoStart))
    /\ autoSeen' = autoStart
    /\ pc' = "look"
    /\ UNCHANGED <<tables, picked, total, autoStart>>

\* Variant: the forge run is left out of the count.
RunningJobs == Cardinality(active)

\* total_active as a pass first counts it.
Running == Cardinality(active) + IF forgeTask = "none" THEN 0 ELSE 1

Look ==
    /\ pc = "look"
    /\ \/ /\ paused
          /\ pc' = "pass"
          /\ UNCHANGED total
       \/ /\ ~paused
          /\ total' = Running
          /\ pc' = IF Running < MaxJobs /\ forgeTask = "none" THEN "forge" ELSE "claim"
    /\ UNCHANGED <<tables, active, forgeTask, picked, paused, autoStart, autoSeen>>

\* Variant: the forge is asked only when no queue job is running.
AskForgeWhenIdle ==
    /\ pc = "forge"
    /\ IF active = {} /\ \E f \in Files : forge[f] = "pending"
         THEN forgeTask' = "claiming" /\ total' = total + 1
         ELSE UNCHANGED <<forgeTask, total>>
    /\ pc' = "claim"
    /\ UNCHANGED <<tables, active, picked, paused, autoStart, autoSeen>>

\* _has_pending_forge: any forge job that waits, claimable or not.
AskForge ==
    /\ pc = "forge"
    /\ IF \E f \in Files : forge[f] = "pending"
         THEN forgeTask' = "claiming" /\ total' = total + 1
         ELSE UNCHANGED <<forgeTask, total>>
    /\ pc' = "claim"
    /\ UNCHANGED <<tables, active, picked, paused, autoStart, autoSeen>>

\* Variant: one claim too many.
ClaimOneMore ==
    /\ pc = "claim" /\ total <= MaxJobs
    /\ \E f \in Files :
          /\ JobClaimable(f)
          /\ job' = [job EXCEPT ![f] = "processing"]
          /\ picked' = f
    /\ pc' = "launch"
    /\ UNCHANGED <<forge, reverting, active, forgeTask, total, paused, autoStart,
                   autoSeen>>

\* _claim_next, in an executor thread.
ClaimJob ==
    /\ pc = "claim" /\ total < MaxJobs
    /\ \E f \in Files :
          /\ JobClaimable(f)
          /\ job' = [job EXCEPT ![f] = "processing"]
          /\ picked' = f
    /\ pc' = "launch"
    /\ UNCHANGED <<forge, reverting, active, forgeTask, total, paused, autoStart,
                   autoSeen>>

\* After the job_started broadcast.
LaunchJob ==
    /\ pc = "launch"
    /\ active' = active \cup {picked}
    /\ total' = total + 1
    /\ picked' = None
    /\ pc' = "claim"
    /\ UNCHANGED <<tables, forgeTask, paused, autoStart, autoSeen>>

\* Variant: a job that has to wait holds back the queue behind it.
StopClaimingBehind ==
    /\ pc = "claim"
    /\ \/ total = MaxJobs
       \/ \A f \in Files : ~JobClaimable(f)
       \/ \E f \in Files : job[f] = "pending" /\ ~JobClaimable(f)
    /\ pc' = "end"
    /\ UNCHANGED <<tables, active, forgeTask, picked, total, paused, autoStart,
                   autoSeen>>

\* No room, or nothing to claim.
StopClaiming ==
    /\ pc = "claim"
    /\ total = MaxJobs \/ \A f \in Files : ~JobClaimable(f)
    /\ pc' = "end"
    /\ UNCHANGED <<tables, active, forgeTask, picked, total, paused, autoStart,
                   autoSeen>>

\* Variant: with auto-start off the loop pauses whatever is still running.
EndPassBusy ==
    /\ pc = "end"
    /\ paused' = (paused \/ ~autoSeen)
    /\ pc' = "pass"
    /\ UNCHANGED <<tables, active, forgeTask, picked, total, autoStart, autoSeen>>

\* A manual run has finished: with auto-start off, pause when idle.
EndPass ==
    /\ pc = "end"
    /\ paused' = (paused \/ (~autoSeen /\ total = 0))
    /\ pc' = "pass"
    /\ UNCHANGED <<tables, active, forgeTask, picked, total, autoStart, autoSeen>>

-----------------------------------------------------------------------------
(* The tasks                                                               *)

\* forge.claim_next_forge_job, from the forge task.
ClaimForge ==
    /\ forgeTask = "claiming"
    /\ \/ \E f \in Files :
             /\ ForgeClaimable(f)
             /\ forge' = [forge EXCEPT ![f] = "processing"]
             /\ forgeTask' = "running"
       \/ /\ \A f \in Files : ~ForgeClaimable(f)
          /\ forgeTask' = "done"
          /\ UNCHANGED forge
    /\ UNCHANGED <<job, reverting, active, pc, picked, total, paused, autoStart,
                   autoSeen>>

FinishForge ==
    /\ forgeTask = "running"
    /\ forge' = [f \in Files |-> IF forge[f] = "processing" THEN "none" ELSE forge[f]]
    /\ forgeTask' = "done"
    /\ UNCHANGED <<job, reverting, active, pc, picked, total, paused, autoStart,
                   autoSeen>>

FinishJob(f) ==
    /\ job[f] = "processing" /\ f \in active /\ f # picked
    /\ job' = [job EXCEPT ![f] = "none"]
    /\ UNCHANGED <<forge, reverting, active, forgeTask, pc, picked, total, paused,
                   autoStart, autoSeen>>

-----------------------------------------------------------------------------
(* Everything else                                                         *)

loop == <<active, forgeTask, pc, picked, total, autoSeen>>

QueueJob(f) ==
    /\ job[f] = "none"
    /\ job' = [job EXCEPT ![f] = "pending"]
    /\ UNCHANGED <<forge, reverting, loop, paused, autoStart>>

QueueForge(f) ==
    /\ forge[f] = "none"
    /\ forge' = [forge EXCEPT ![f] = "pending"]
    /\ UNCHANGED <<job, reverting, loop, paused, autoStart>>

StartRevert(f) ==
    /\ reverting = None /\ job[f] = "none" /\ forge[f] = "none"
    /\ reverting' = f
    /\ UNCHANGED <<job, forge, loop, paused, autoStart>>

EndRevert ==
    /\ reverting # None
    /\ reverting' = None
    /\ UNCHANGED <<job, forge, loop, paused, autoStart>>

Pause ==
    /\ ~paused /\ paused' = TRUE
    /\ UNCHANGED <<tables, loop, autoStart>>

Resume ==
    /\ paused /\ paused' = FALSE
    /\ UNCHANGED <<tables, loop, autoStart>>

\* The header toggle, a settings save or import, and the end of an abort.
SetAutoStart ==
    /\ autoStart' = ~autoStart
    /\ UNCHANGED <<tables, loop, paused>>

-----------------------------------------------------------------------------

Loop == StartPass \/ Look \/ AskForge \/ ClaimJob \/ LaunchJob \/ StopClaiming \/ EndPass
Tasks == ClaimForge \/ FinishForge \/ \E f \in Files : FinishJob(f)

User ==
    \/ \E f \in JobFiles : QueueJob(f)
    \/ \E f \in ForgeFiles : QueueForge(f)
    \/ \E f \in Files : StartRevert(f)
    \/ EndRevert \/ Pause \/ Resume \/ SetAutoStart

Next == Loop \/ Tasks \/ User

\* The event loop keeps running and a job or a forge run ends.  Nothing says
\* when a revert ends, or what the user does.
Fairness ==
    /\ WF_vars(Loop)
    /\ WF_vars(ClaimForge) /\ WF_vars(FinishForge)
    /\ \A f \in Files : WF_vars(FinishJob(f))

Spec == Init /\ [][Next]_vars /\ Fairness

-----------------------------------------------------------------------------
(* Properties                                                              *)

\* Queue jobs and the forge run together, those just claimed included, never
\* take more than max_concurrent_jobs slots.
InUse == Cardinality({f \in Files : job[f] = "processing"})
           + IF forgeTask \in {"claiming", "running"} THEN 1 ELSE 0
SlotsRespected == InUse <= MaxJobs

\* The loop never pauses itself at the end of a manual run while a job it
\* started is still running: what Resume started is processed to its end.
ManualRunFinishes ==
    [][EndPass /\ ~paused /\ paused' =>
         /\ forgeTask = "none"
         /\ \A f \in Files : job[f] # "processing"]_vars

\* The forge has first priority on any slot, at any concurrency: a forge job
\* that can run is not kept waiting by a queue that never empties.
ForgeCanRun == \E f \in Files : ForgeClaimable(f)
ForgeNotStarved ==
    ForgeCanRun ~> forgeTask = "running" \/ paused \/ ~ForgeCanRun

\* And the queue is served: a job that can run is claimed, unless forge runs
\* take the slots, or a forge job that cannot run yet does (see QueueMovesOn).
JobCanRun == \E f \in Files : JobClaimable(f)
ForgeWaits == \E f \in Files : forge[f] = "pending"
QueueServed ==
    JobCanRun ~> \/ \E f \in Files : job[f] = "processing"
                 \/ paused \/ ~JobCanRun \/ ForgeWaits

\* forge.claim_next_forge_job, of a forge job whose file another writer holds:
\* "The job is skipped, not the queue".
QueueMovesOn ==
    JobCanRun ~> \/ \E f \in Files : job[f] = "processing"
                 \/ forgeTask = "running"
                 \/ paused \/ ~JobCanRun

=============================================================================
