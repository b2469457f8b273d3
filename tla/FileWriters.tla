----------------------------- MODULE FileWriters -----------------------------
(***************************************************************************)
(* Who may rewrite a media file, and when.                                 *)
(*                                                                         *)
(* Three kinds of run rewrite a library file in place: a queue job         *)
(* (worker._run_job), an AC3 Forge run (worker._run_forge_job) and a       *)
(* revert (revert_restore.restore_revert_point).  app/core/revert_lock.py  *)
(* states how they steer around each other: every check-and-claim is made  *)
(* under CLAIM_LOCK, against the statuses in the queue_items and           *)
(* ac3_forge_jobs tables and against the file a revert holds.              *)
(*                                                                         *)
(* What the module keeps of the code: the two tables (status and file of   *)
(* each row), CLAIM_LOCK with what its holder has picked, the revert flag, *)
(* one run per row, and the windows in which two of them can cross: the    *)
(* two halves of a claim, of a restore and of each route that reads a row  *)
(* and writes it later.  What it abstracts: the statuses a finished row    *)
(* can have (success, failed, skipped, cancelled, dry_run) are one,        *)
(* "ended"; a file's bytes are not kept, only, per run, what has been      *)
(* written to its file since the run read it.                              *)
(*                                                                         *)
(* A file is its path.  Row ids name one row at a time, and an id is used  *)
(* again only when nothing holds it (see Free).                            *)
(***************************************************************************)
EXTENDS Naturals, FiniteSets

CONSTANTS
    Files,      \* media files, by path
    QueueIds,   \* ids of rows of queue_items
    ForgeIds,   \* ids of rows of ac3_forge_jobs
    Revert,     \* the one revert run
    None,       \* no file, nothing picked
    Slots       \* max_concurrent_jobs

Writers == QueueIds \cup ForgeIds \cup {Revert}

ASSUME SlotsPositive == Slots \in Nat \ {0}
ASSUME IdsDisjoint ==
    /\ QueueIds \cap ForgeIds = {}
    /\ Revert \notin QueueIds \cup ForgeIds
    /\ None \notin Files \cup Writers

VARIABLES
    tracked,    \* files with a row in media_files
    queue,      \* queue_items: status and file of each row
    forge,      \* ac3_forge_jobs: status, file and is_undo of each row
    lock,       \* who holds CLAIM_LOCK
    pick,       \* the row or file its holder has picked
    reverting,  \* revert_lock._reverting_file_id
    run,        \* the run of each writer
    abort,      \* how far an abort of each queue job has come
    inflight,   \* a request that has read its row and not yet written it
    stopping    \* stop_worker has begun

vars == <<tracked, queue, forge, lock, pick, reverting, run, abort, inflight, stopping>>

QueueStatus == {"pending", "processing", "manual_review", "ended"}

\* "undoable" is success or undo_failed, "ended" is failed, cancelled or undone.
ForgeStatus == {"pending", "undo_pending", "processing", "undoable", "ended"}

Phases == {"claimed", "writing", "swapped", "redeciding"}

\* What was written to a run's file since the run read it and until it swaps
\* its output in, the worst of it: nothing; something from outside (Sonarr,
\* Radarr, the user) or from a run whose row had been taken from it; the output
\* of a run that held its row.
Overtakes == {"nothing", "other", "rival"}

Holders == {"free", "queue", "forge", "revert"}

\* Requests that read a row, decide, and write it in a second step.
Requests == [op : {"cancel"}, row : QueueIds]
       \cup [op : {"forgeCancel", "forgeUndo"}, row : ForgeIds]

IdleRun == [phase |-> "idle", file |-> None, over |-> "nothing"]
NoQueueRow == [status |-> "absent", file |-> None]
NoForgeRow == [status |-> "absent", file |-> None, undo |-> FALSE]

\* A row or a run that is there has a file.
QueueRecord == {NoQueueRow} \cup [status : QueueStatus, file : Files]
ForgeRecord == {NoForgeRow} \cup [status : ForgeStatus, file : Files, undo : BOOLEAN]
RunRecord == {IdleRun} \cup [phase : Phases, file : Files, over : Overtakes]

TypeOK ==
    /\ tracked \subseteq Files
    /\ queue \in [QueueIds -> QueueRecord]
    /\ forge \in [ForgeIds -> ForgeRecord]
    /\ lock \in Holders
    /\ lock = "free" => pick = None
    /\ lock = "queue" => pick \in QueueIds
    /\ lock = "forge" => pick \in ForgeIds
    /\ lock = "revert" => pick \in Files
    /\ reverting \in Files \cup {None}
    /\ run \in [Writers -> RunRecord]
    /\ abort \in [QueueIds -> {"no", "marked", "cancelled"}]
    /\ inflight \subseteq Requests
    /\ stopping \in BOOLEAN

Init ==
    /\ tracked = {}
    /\ queue = [q \in QueueIds |-> NoQueueRow]
    /\ forge = [g \in ForgeIds |-> NoForgeRow]
    /\ lock = "free"
    /\ pick = None
    /\ reverting = None
    /\ run = [w \in Writers |-> IdleRun]
    /\ abort = [q \in QueueIds |-> "no"]
    /\ inflight = {}
    /\ stopping = FALSE

-----------------------------------------------------------------------------
(* Reading the tables *)

QueueRows(f, statuses) ==
    {q \in QueueIds : queue[q].file = f /\ queue[q].status \in statuses}
ForgeRows(f, statuses) ==
    {g \in ForgeIds : forge[g].file = f /\ forge[g].status \in statuses}

Live(w) == run[w].phase # "idle"
LiveTasks == {w \in QueueIds \cup ForgeIds : Live(w)}

\* A run holds its row (or, for a revert, its file) while the row still says
\* so: an abort, a cancel or a removed record takes it away under the run.
Held(w) ==
    \/ w \in QueueIds /\ queue[w].status = "processing"
    \/ w \in ForgeIds /\ forge[w].status = "processing"
    \/ w = Revert /\ reverting # None

\* An id a new row can take: no row, no run, no claim and no request has it.
Free(id) ==
    /\ ~Live(id)
    /\ pick # id
    /\ \A r \in inflight : r.row # id

-----------------------------------------------------------------------------
(* Writing one row: the statement names its id, and lands on the row as it *)
(* is by then, or on nothing when the row is gone.                         *)

\* Variant: a write that brings back a row that is gone.
QueueRowRevived(q, status) == [queue EXCEPT ![q].status = status]

QueueRow(q, status) ==
    IF queue[q].status = "absent" THEN queue
    ELSE [queue EXCEPT ![q].status = status]
ForgeRow(g, status, undo) ==
    IF forge[g].status = "absent" THEN forge
    ELSE [forge EXCEPT ![g] = [status |-> status, file |-> @.file, undo |-> undo]]

-----------------------------------------------------------------------------
(* Evaluating a file: scanner._process_file, one write transaction.        *)

Without(rows) ==
    [q \in QueueIds |-> IF q \in rows THEN NoQueueRow ELSE queue[q]]

\* new is base with one row added for f.
Adds(base, f, status, new) ==
    \E q \in QueueIds :
        /\ base[q].status = "absent" /\ Free(q)
        /\ new = [base EXCEPT ![q] = [status |-> status, file |-> f]]

\* The three outcomes of the decision, as successors of the queue table.
\* Each may also drop finished rows of the file: a stale preview, a stale
\* skip, the failed attempt a retry replaces.
Evaluated(f, new) ==
    \E gone \in SUBSET QueueRows(f, {"ended"}) :
        LET review == QueueRows(f, {"manual_review"})
        IN  \* to be processed: no second row while one waits or runs
            \/ /\ QueueRows(f, {"pending", "processing"}) # {}
               /\ new = Without(gone)
            \/ /\ QueueRows(f, {"pending", "processing"}) = {}
               /\ Adds(Without(gone \cup review), f, "pending", new)
            \* to be reviewed: a waiting job is superseded, one review row
            \/ LET left == Without(gone \cup QueueRows(f, {"pending"}))
               IN  IF review # {} THEN new = left
                                  ELSE Adds(left, f, "manual_review", new)
            \* nothing to do: the review is over, one skipped row
            \/ LET left == Without(gone \cup review)
               IN  new = left \/ Adds(left, f, "ended", new)

\* A scan, a webhook, a retry, Process Now or a recheck evaluates a file.
EvaluateFile(f) ==
    /\ Evaluated(f, queue')
    /\ tracked' = tracked \cup {f}
    /\ UNCHANGED <<forge, lock, pick, reverting, run, abort, inflight, stopping>>

-----------------------------------------------------------------------------
(* Requests from the user: each runs in a thread, with its own session and *)
(* without CLAIM_LOCK.                                                     *)

\* queue._apply_decision_to_item for an answered review.
AnswerReview(q) ==
    /\ queue[q].status = "manual_review"
    /\ \E s \in {"pending", "ended"} : queue' = QueueRow(q, s)
    /\ UNCHANGED <<tracked, forge, lock, pick, reverting, run, abort, inflight, stopping>>

\* A finished row leaves the history (history delete and clear, clear_dry_run).
ForgetRow(q) ==
    /\ queue[q].status = "ended"
    /\ queue' = [queue EXCEPT ![q] = NoQueueRow]
    /\ UNCHANGED <<tracked, forge, lock, pick, reverting, run, abort, inflight, stopping>>

\* scanner._delete_media_file_and_related: every row of the file goes,
\* whatever its status.
DropRecord(f) ==
    /\ tracked' = tracked \ {f}
    /\ queue' = Without(QueueRows(f, QueueStatus))
    /\ forge' = [g \in ForgeIds |->
                    IF forge[g].file = f THEN NoForgeRow ELSE forge[g]]
    /\ UNCHANGED <<lock, pick, reverting, run, abort, inflight, stopping>>

\* forge.add_to_queue, refused while the file has a job waiting, running or
\* to be undone.
QueueForge(f) ==
    /\ f \in tracked
    /\ ForgeRows(f, {"pending", "undo_pending", "processing", "undoable"}) = {}
    /\ \E g \in ForgeIds :
          /\ forge[g].status = "absent" /\ Free(g)
          /\ forge' = [forge EXCEPT ![g] = [status |-> "pending", file |-> f,
                                            undo |-> FALSE]]
    /\ UNCHANGED <<tracked, queue, lock, pick, reverting, run, abort, inflight, stopping>>

\* queue.cancel_item, forge.cancel_job and forge.undo_job read the row (one
\* such request at a time: a bound of the model) ...
ReadForRequest(r) ==
    /\ inflight = {}
    /\ \/ /\ r.op = "cancel"
          /\ queue[r.row].status \in {"pending", "manual_review"}
       \/ r.op = "forgeCancel" /\ forge[r.row].status = "pending"
       \/ r.op = "forgeUndo" /\ forge[r.row].status = "undoable"
    /\ inflight' = {r}
    /\ UNCHANGED <<tracked, queue, forge, lock, pick, reverting, run, abort, stopping>>

\* ... and write it, whatever it has become by then, unless it is gone.
WriteForRequest(r) ==
    /\ r \in inflight
    /\ inflight' = inflight \ {r}
    /\ \/ /\ r.op = "cancel"
          /\ queue' = QueueRow(r.row, "ended")
          /\ UNCHANGED forge
       \/ /\ r.op = "forgeCancel"
          /\ forge' = ForgeRow(r.row, "ended", forge[r.row].undo)
          /\ UNCHANGED queue
       \/ /\ r.op = "forgeUndo"
          /\ forge' = ForgeRow(r.row, "undo_pending", TRUE)
          /\ UNCHANGED queue
    /\ UNCHANGED <<tracked, lock, pick, reverting, run, abort, stopping>>

\* worker.abort_job commits the row as cancelled ...
AbortMark(q) ==
    /\ Live(q) /\ abort[q] = "no" /\ queue[q].status = "processing"
    /\ queue' = QueueRow(q, "ended")
    /\ abort' = [abort EXCEPT ![q] = "marked"]
    /\ UNCHANGED <<tracked, forge, lock, pick, reverting, run, inflight, stopping>>

\* ... and then cancels the task.
AbortCancel(q) ==
    /\ Live(q) /\ abort[q] = "marked"
    /\ abort' = [abort EXCEPT ![q] = "cancelled"]
    /\ UNCHANGED <<tracked, queue, forge, lock, pick, reverting, run, inflight, stopping>>

\* Something outside Remuxarr replaces the file.
ReplacedOutside(f) ==
    /\ run' = [w \in Writers |->
                  IF /\ run[w].file = f /\ run[w].phase = "writing"
                     /\ run[w].over = "nothing"
                  THEN [run[w] EXCEPT !.over = "other"] ELSE run[w]]
    /\ UNCHANGED <<tracked, queue, forge, lock, pick, reverting, abort, inflight, stopping>>

-----------------------------------------------------------------------------
(* Check-and-claim, under CLAIM_LOCK                                       *)

SlotFree == Cardinality(LiveTasks) < Slots

\* Variant: the claim does not ask whether the forge has the file.
QueueClaimableForged(q) ==
    /\ queue[q].status = "pending"
    /\ queue[q].file # reverting

\* worker._claim_next_locked: a waiting row whose file no revert holds and
\* no forge run is rewriting.
QueueClaimable(q) ==
    /\ queue[q].status = "pending"
    /\ queue[q].file # reverting
    /\ ForgeRows(queue[q].file, {"processing"}) = {}

PickQueueJob(q) ==
    /\ ~stopping /\ lock = "free" /\ SlotFree /\ ~Live(q)
    /\ QueueClaimable(q)
    /\ lock' = "queue" /\ pick' = q
    /\ UNCHANGED <<tracked, queue, forge, reverting, run, abort, inflight, stopping>>

\* The UPDATE names only the id: it lands on the row as it is now, and on
\* nothing when the row has been deleted.
ClaimQueueJob ==
    /\ lock = "queue"
    /\ IF queue[pick].status = "absent"
         THEN UNCHANGED <<queue, run, abort>>
         ELSE /\ queue' = QueueRow(pick, "processing")
              /\ run' = [run EXCEPT ![pick] =
                            [phase |-> "claimed", file |-> queue[pick].file,
                             over |-> "nothing"]]
              /\ abort' = [abort EXCEPT ![pick] = "no"]
    /\ lock' = "free" /\ pick' = None
    /\ UNCHANGED <<tracked, forge, reverting, inflight, stopping>>

\* Variant: the claim does not ask whether a queue job has the file.
ForgeClaimableQueued(g) ==
    /\ forge[g].status \in {"pending", "undo_pending"}
    /\ forge[g].file # reverting

\* forge._claim_next_forge_job_locked.  The loop runs one forge task at a time.
ForgeClaimable(g) ==
    /\ forge[g].status \in {"pending", "undo_pending"}
    /\ forge[g].file # reverting
    /\ QueueRows(forge[g].file, {"processing"}) = {}

PickForgeJob(g) ==
    /\ ~stopping /\ lock = "free" /\ SlotFree
    /\ \A h \in ForgeIds : ~Live(h)
    /\ ForgeClaimable(g)
    /\ lock' = "forge" /\ pick' = g
    /\ UNCHANGED <<tracked, queue, forge, reverting, run, abort, inflight, stopping>>

ClaimForgeJob ==
    /\ lock = "forge"
    /\ IF forge[pick].status = "absent"
         THEN UNCHANGED <<forge, run>>
         ELSE /\ forge' = ForgeRow(pick, "processing", forge[pick].undo)
              /\ run' = [run EXCEPT ![pick] =
                            [phase |-> "claimed", file |-> forge[pick].file,
                             over |-> "nothing"]]
    /\ lock' = "free" /\ pick' = None
    /\ UNCHANGED <<tracked, queue, reverting, abort, inflight, stopping>>

\* routes/revert.restore: refused while a revert runs or the queue has the
\* file; then the forge is asked, and the file is taken.
PickRevert(f) ==
    /\ f \in tracked
    /\ ~stopping /\ reverting = None /\ lock = "free"
    /\ QueueRows(f, {"pending", "processing"}) = {}
    /\ lock' = "revert" /\ pick' = f
    /\ UNCHANGED <<tracked, queue, forge, reverting, run, abort, inflight, stopping>>

AcquireRevert ==
    /\ lock = "revert"
    /\ IF ForgeRows(pick, {"pending", "undo_pending", "processing"}) # {}
         THEN UNCHANGED <<reverting, run>>
         ELSE /\ reverting' = pick
              /\ run' = [run EXCEPT ![Revert] =
                            [phase |-> "claimed", file |-> pick,
                             over |-> "nothing"]]
    /\ lock' = "free" /\ pick' = None
    /\ UNCHANGED <<tracked, queue, forge, abort, inflight, stopping>>

-----------------------------------------------------------------------------
(* A run                                                                   *)

Phase(w, p) == [run EXCEPT ![w].phase = p]
Ended(w) == [run EXCEPT ![w] = IdleRun]

\* A cancellation is delivered at the task's next await.
Cancelled(q) == abort[q] = "cancelled" \/ stopping

Worse(over, kind) ==
    IF over = "rival" \/ kind = "rival" THEN "rival" ELSE "other"

\* os.replace: w's output takes the file's name.
Replace(w) ==
    LET kind == IF Held(w) THEN "rival" ELSE "other"
    IN  run' = [x \in Writers |->
                  IF x = w THEN [run[x] EXCEPT !.phase = "swapped", !.over = "nothing"]
                  ELSE IF run[x].file = run[w].file /\ run[x].phase = "writing"
                    THEN [run[x] EXCEPT !.over = Worse(@, kind)]
                    ELSE run[x]]

\* _load_job_data goes ahead, and _run_job fingerprints the source.
StartQueueJob(q) ==
    /\ run[q].phase = "claimed" /\ ~Cancelled(q)
    /\ queue[q].status # "absent"
    /\ run' = Phase(q, "writing")
    /\ UNCHANGED <<tracked, queue, forge, lock, pick, reverting, abort, inflight, stopping>>

\* The job ends without a swap: nothing to do, a review, a refusal, a dry
\* run, a failure.  Its row is written without being looked at.
EndQueueJob(q) ==
    /\ run[q].phase \in {"claimed", "writing"} /\ ~Cancelled(q)
    /\ \E s \in {"ended", "manual_review"} : queue' = QueueRow(q, s)
    /\ run' = Ended(q)
    /\ UNCHANGED <<tracked, forge, lock, pick, reverting, abort, inflight, stopping>>

\* worker._cancel_for_changed_source: the record was wrong at pickup, or the
\* source changed under the job (what_changed).  The row is cancelled only
\* if the job still has it, and then the file is evaluated again.
StopForChange(q) ==
    /\ \/ run[q].phase = "claimed"
       \/ run[q].phase = "writing" /\ run[q].over # "nothing"
    /\ ~Cancelled(q)
    /\ IF queue[q].status = "processing"
         THEN /\ queue' = QueueRow(q, "ended")
              /\ run' = Phase(q, "redeciding")
         ELSE UNCHANGED queue /\ run' = Ended(q)
    /\ UNCHANGED <<tracked, forge, lock, pick, reverting, abort, inflight, stopping>>

\* on_before_swap and os.replace, with no await between them: only over the
\* file the job fingerprinted.
SwapQueueJob(q) ==
    /\ run[q].phase = "writing" /\ ~Cancelled(q)
    /\ run[q].over = "nothing"
    /\ Replace(q)
    /\ UNCHANGED <<tracked, queue, forge, lock, pick, reverting, abort, inflight, stopping>>

\* The shielded tail: _finish_job writes the outcome, also when a
\* cancellation is waiting.  A success may be followed by a re-evaluation.
FinishQueueJob(q) ==
    /\ run[q].phase = "swapped"
    /\ queue' = QueueRow(q, "ended")
    /\ \/ run' = Ended(q)
       \/ ~Cancelled(q) /\ run' = Phase(q, "redeciding")
    /\ UNCHANGED <<tracked, forge, lock, pick, reverting, abort, inflight, stopping>>

\* The evaluation that follows a changed source or an answer given while
\* the job ran; it may also fail and leave the file to the next scan.
RedecideFile(q) ==
    /\ run[q].phase = "redeciding"
    /\ \/ UNCHANGED <<tracked, queue>>
       \/ /\ Evaluated(run[q].file, queue')
          /\ tracked' = tracked \cup {run[q].file}
    /\ run' = Ended(q)
    /\ UNCHANGED <<forge, lock, pick, reverting, abort, inflight, stopping>>

\* Cancelled before it replaced anything.  An aborted row stays cancelled;
\* one a shutdown cut off goes back to the queue (_requeue_cut_off_job).
CutOffQueueJob(q) ==
    /\ run[q].phase \in {"claimed", "writing"} /\ Cancelled(q)
    /\ queue' = IF queue[q].status = "processing"
                  THEN QueueRow(q, "pending") ELSE queue
    /\ run' = Ended(q)
    /\ UNCHANGED <<tracked, forge, lock, pick, reverting, abort, inflight, stopping>>

\* The row's own is_undo says which of two outcomes it gets.
ForgeOutcome(g, add, undo) ==
    ForgeRow(g, IF forge[g].undo THEN undo ELSE add, forge[g].undo)

StartForge(g) ==
    /\ run[g].phase = "claimed" /\ ~stopping
    /\ forge[g].status # "absent"
    /\ run' = Phase(g, "writing")
    /\ UNCHANGED <<tracked, queue, forge, lock, pick, reverting, abort, inflight, stopping>>

\* finish_forge_job without a swap.  An undo that finds no AC3 is undone.
EndForge(g) ==
    /\ run[g].phase \in {"claimed", "writing"} /\ ~stopping
    /\ \/ forge' = ForgeOutcome(g, "ended", "undoable")
       \/ run[g].phase = "claimed" /\ forge' = ForgeOutcome(g, "ended", "ended")
    /\ run' = Ended(g)
    /\ UNCHANGED <<tracked, queue, lock, pick, reverting, abort, inflight, stopping>>

\* run_forge_command has no before_swap check.
SwapForge(g) ==
    /\ run[g].phase = "writing" /\ ~stopping
    /\ Replace(g)
    /\ UNCHANGED <<tracked, queue, forge, lock, pick, reverting, abort, inflight, stopping>>

FinishForge(g) ==
    /\ run[g].phase = "swapped"
    /\ forge' = ForgeOutcome(g, "undoable", "ended")
    /\ run' = Ended(g)
    /\ UNCHANGED <<tracked, queue, lock, pick, reverting, abort, inflight, stopping>>

\* worker._requeue_cut_off_forge_job.
CutOffForge(g) ==
    /\ run[g].phase \in {"claimed", "writing"} /\ stopping
    /\ forge' = IF forge[g].status = "processing"
                  THEN ForgeOutcome(g, "pending", "undo_pending") ELSE forge
    /\ run' = Ended(g)
    /\ UNCHANGED <<tracked, queue, lock, pick, reverting, abort, inflight, stopping>>

StartRevert ==
    /\ run[Revert].phase = "claimed"
    /\ run' = Phase(Revert, "writing")
    /\ UNCHANGED <<tracked, queue, forge, lock, pick, reverting, abort, inflight, stopping>>

\* The `unchanged` hook and os.replace.
SwapRevert ==
    /\ run[Revert].phase = "writing" /\ run[Revert].over = "nothing"
    /\ Replace(Revert)
    /\ UNCHANGED <<tracked, queue, forge, lock, pick, reverting, abort, inflight, stopping>>

\* Refused, failed or done: _run_revert's finally releases the file.  A
\* revert that swapped settles the file's finished forge jobs, if the
\* restored file has no AC3 left (_settle_forge_jobs).
EndRevert ==
    /\ Live(Revert)
    /\ \/ UNCHANGED forge
       \/ /\ run[Revert].phase = "swapped"
          /\ LET settled == ForgeRows(run[Revert].file, {"undoable"})
             IN forge' = [g \in ForgeIds |->
                            IF g \in settled
                              THEN [forge[g] EXCEPT !.status = "ended",
                                                    !.undo = TRUE]
                              ELSE forge[g]]
    /\ reverting' = None
    /\ run' = Ended(Revert)
    /\ UNCHANGED <<tracked, queue, lock, pick, abort, inflight, stopping>>

-----------------------------------------------------------------------------
(* The process                                                             *)

\* worker.stop_worker.
Stop ==
    /\ ~stopping
    /\ stopping' = TRUE
    /\ UNCHANGED <<tracked, queue, forge, lock, pick, reverting, run, abort, inflight>>

\* The process ends, cleanly or not, and starts again: what was in memory is
\* gone and recover_interrupted_jobs settles the rows left at "processing".
Restart ==
    /\ queue' = [q \in QueueIds |->
                    IF queue[q].status = "processing"
                      THEN [queue[q] EXCEPT !.status = "ended"] ELSE queue[q]]
    /\ forge' = [g \in ForgeIds |->
                    IF forge[g].status = "processing"
                      THEN [forge[g] EXCEPT !.status =
                               IF forge[g].undo THEN "undoable" ELSE "ended"]
                      ELSE forge[g]]
    /\ lock' = "free" /\ pick' = None /\ reverting' = None
    /\ run' = [w \in Writers |-> IdleRun]
    /\ abort' = [q \in QueueIds |-> "no"]
    /\ inflight' = {}
    /\ stopping' = FALSE
    /\ UNCHANGED tracked

-----------------------------------------------------------------------------

QueueRun(q) ==
    \/ StartQueueJob(q) \/ EndQueueJob(q) \/ StopForChange(q)
    \/ SwapQueueJob(q) \/ FinishQueueJob(q) \/ RedecideFile(q)
    \/ CutOffQueueJob(q)

ForgeRun(g) ==
    \/ StartForge(g) \/ EndForge(g) \/ SwapForge(g) \/ FinishForge(g)
    \/ CutOffForge(g)

RevertRun == StartRevert \/ SwapRevert \/ EndRevert

Claim ==
    \/ \E q \in QueueIds : PickQueueJob(q)
    \/ \E g \in ForgeIds : PickForgeJob(g)
    \/ \E f \in Files : PickRevert(f)
    \/ ClaimQueueJob \/ ClaimForgeJob \/ AcquireRevert

Request ==
    \/ \E f \in Files : EvaluateFile(f) \/ DropRecord(f) \/ QueueForge(f)
                        \/ ReplacedOutside(f)
    \/ \E q \in QueueIds : AnswerReview(q) \/ ForgetRow(q)
                           \/ AbortMark(q) \/ AbortCancel(q)
    \/ \E r \in Requests : ReadForRequest(r) \/ WriteForRequest(r)

Next ==
    \/ Claim
    \/ Request
    \/ \E q \in QueueIds : QueueRun(q)
    \/ \E g \in ForgeIds : ForgeRun(g)
    \/ RevertRun
    \/ Stop
    \/ Restart

Spec == Init /\ [][Next]_vars

-----------------------------------------------------------------------------
(* Properties                                                              *)

\* revert_lock, THREE WRITERS, for the three kinds: no file is, at once, the
\* file of a queue job in progress, of a forge run in progress and of a
\* revert, two of them or all three.
KindExclusion ==
    \A f \in Files :
        /\ QueueRows(f, {"processing"}) # {} => ForgeRows(f, {"processing"}) = {}
        /\ reverting = f => /\ QueueRows(f, {"processing"}) = {}
                            /\ ForgeRows(f, {"processing"}) = {}

\* revert_lock: "the loser's output silently replaces the winner's".  A run
\* that holds its row never swaps its output over one that another run, which
\* held its row too, put there after this one had read the file.  Only a run
\* whose row was taken from it (abort, a late cancel, a removed record) can
\* lose its output this way, or overwrite one.
NoSilentReplacement ==
    [][\A w \in Writers :
          run[w].phase = "writing" /\ run'[w].phase = "swapped" /\ Held(w)
            => run[w].over # "rival"]_vars

\* revert_lock's heading, "THREE WRITERS, ONE AT A TIME", read as it is
\* written: two runs that both hold their row never rewrite the same file at
\* once, whatever their kinds.
Rewriting(w) == run[w].phase \in {"claimed", "writing", "swapped"} /\ Held(w)
OneAtATime ==
    \A v, w \in Writers :
        Rewriting(v) /\ Rewriting(w) /\ run[v].file = run[w].file => v = w

=============================================================================
