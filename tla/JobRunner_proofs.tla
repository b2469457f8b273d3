--------------------------- MODULE JobRunner_proofs ---------------------------
(***************************************************************************)
(* JobRunner, proved for any tasks and ids and any limit of running jobs.  *)
(*                                                                         *)
(* A row that says "processing" is kept by one task: the last one launched *)
(* for its id, which is the one the registry has.  That task may lose the  *)
(* registry's entry and end, but only once its row has stopped running or  *)
(* two commits have failed (Kept); tasks left over from an earlier job of  *)
(* the same id may do anything to the row but make it run.                 *)
(***************************************************************************)
EXTENDS JobRunner, FiniteSetTheorems, TLAPS

\* Only a task under way is told to stop, and none goes back to being idle.
CancelsGoing ==
    \A t \in Tasks : (task[t].cancel => Going(t)) /\ task[t].then # "idle"

\* The request in progress names a task of its row, or one that has ended.
AbortFits ==
    abort.at # "no" =>
        /\ abort.id \in Ids /\ abort.task \in Tasks
        /\ task[abort.task].id \in {abort.id, None}

\* The request has seen to it that the row it read runs no longer.
Settling == abort.at = "marked" \/ (abort.at = "read" /\ ~abort.seen)

\* The task that keeps row i running: it is not being stopped, and it has passed
\* its reading of the outcome only because commits have failed.
Keeps(t) ==
    /\ ~(Settling /\ abort.task = t)
    /\ ~task[t].cancel
    /\ task[t].at \notin {"unwind", "requeue", "completeCut"}
    /\ task[t].then \in {"none", "run", "post", "report"}
    /\ task[t].at \in {"post", "emergency"} \/ task[t].then = "post" => faults >= 1
    /\ task[t].at \in {"report", "done"} \/ task[t].then = "report" => faults >= 2

Kept ==
    ~stopping =>
        \A i \in Ids : Running(i) /\ handoff # i =>
            IF active[i] = None THEN faults >= 2 ELSE Keeps(active[i])

Shape == TypeOK /\ CancelsGoing /\ AbortFits
IInv == Shape /\ Kept

-----------------------------------------------------------------------------
(* What a call can do                                                      *)

\* Evaluating a file makes no row run.
LEMMA AdditionsFit ==
    ASSUME NEW r \in [Ids -> Statuses], NEW a \in Additions(r)
    PROVE  /\ a \in [Ids -> Statuses]
           /\ \A j \in Ids : a[j] = "processing" => r[j] = "processing"
           /\ \A j \in Ids : r[j] \notin {"none", "processing"} => a[j] # "processing"
<1>1. CASE a = r
  BY <1>1
<1>2. CASE \E s \in {"pending", "settled"} : NewId(r) \in Ids /\ a = [r EXCEPT ![NewId(r)] = s]
  BY <1>2 DEF Statuses
<1> QED BY <1>1, <1>2 DEF Additions

\* The outcome o of a call for job i: no row starts to run, and what it leaves
\* running it has failed to write.
Fits(o, i) ==
    /\ o.row \in [Ids -> Statuses] /\ o.failed \in 0 .. 2
    /\ \A j \in Ids : o.row[j] = "processing" => row[j] = "processing"
    /\ o.row[i] = "processing" /\ o.then # "run" => o.failed >= 1

\* _finish_job, whose last resort may fail as well.
LEMMA FinishesFit ==
    ASSUME row \in [Ids -> Statuses], NEW i \in Ids, NEW status \in {"success", "failed", "settled"},
           NEW then, NEW o \in Finishes(i, status, then)
    PROVE  Fits(o, i) /\ o.then = then /\ (o.row[i] = "processing" => o.failed = 2)
<1>1. CASE o = Outcome(Write(row, i, status), 0, then)
  BY <1>1 DEF Outcome, Write, Fits, Statuses
<1>2. CASE o = Outcome(WriteIfRunning(row, i, "failed"), 1, then)
  BY <1>2 DEF Outcome, WriteIfRunning, Fits, Statuses
<1>3. CASE o = Outcome(row, 2, then)
  BY <1>3 DEF Outcome, Fits
<1> QED BY <1>1, <1>2, <1>3 DEF Finishes

\* _cancel_for_changed_source.
LEMMA ChangesFit ==
    ASSUME row \in [Ids -> Statuses], NEW i \in Ids, NEW o \in CancelsForChange(i)
    PROVE  Fits(o, i) /\ o.then = "post"
<1>1. CASE o = Outcome(row, 0, "post") /\ row[i] # "processing"
  BY <1>1 DEF Outcome, Fits
<1>2. CASE o = Outcome(row, 1, "post")
  BY <1>2 DEF Outcome, Fits
<1>3. ASSUME NEW r \in Additions([row EXCEPT ![i] = "cancelled"]), o = Outcome(r, 0, "post")
      PROVE  Fits(o, i) /\ o.then = "post"
  <2> DEFINE c == [row EXCEPT ![i] = "cancelled"]
  <2>1. c \in [Ids -> Statuses] /\ c[i] = "cancelled"
        /\ \A j \in Ids : c[j] = "processing" => row[j] = "processing"
    BY DEF Statuses
  <2> HIDE DEF c
  <2>2. /\ r \in [Ids -> Statuses] /\ r[i] # "processing"
        /\ \A j \in Ids : r[j] = "processing" => c[j] = "processing"
    BY <2>1, <1>3, AdditionsFit DEF c
  <2> QED BY <1>3, <2>1, <2>2 DEF Outcome, Fits
<1> QED BY <1>1, <1>2, <1>3 DEF CancelsForChange

\* _load_job_data.
LEMMA LoadsFit ==
    ASSUME row \in [Ids -> Statuses], NEW i \in Ids, NEW o \in Loads(i)
    PROVE  Fits(o, i) /\ o.then \in {"run", "post"}
<1>1. CASE o = Outcome(row, 0, IF row[i] = "none" THEN "post" ELSE "run")
  BY <1>1 DEF Outcome, Fits
<1>2. CASE o = Outcome(row, 1, "post")
  BY <1>2 DEF Outcome, Fits
<1> QED BY <1>1, <1>2, FinishesFit, ChangesFit DEF Loads, EndsUnswapped

\* _requeue_cut_off_job.
LEMMA RequeuesFit ==
    ASSUME row \in [Ids -> Statuses], NEW i \in Ids, NEW o \in Requeues(i)
    PROVE  Fits(o, i) /\ o.then \in {"post", "done"}
<1>1. CASE o = Outcome(WriteIfRunning(row, i, "pending"), 0, "post")
  BY <1>1 DEF Outcome, WriteIfRunning, Fits, Statuses
<1>2. CASE o = Outcome(row, 1, "done")
  BY <1>2 DEF Outcome, Fits
<1> QED BY <1>1, <1>2 DEF Requeues

\* _emergency_fail_job.
LEMMA EmergenciesFit ==
    ASSUME row \in [Ids -> Statuses], NEW i \in Ids, NEW o \in EmergencyFails(i)
    PROVE  Fits(o, i) /\ o.then = "report"
<1>1. CASE o = Outcome(WriteIfRunning(row, i, "failed"), 0, "report")
  BY <1>1 DEF Outcome, WriteIfRunning, Fits, Statuses
<1>2. CASE o = Outcome(row, 1, "report")
  BY <1>2 DEF Outcome, Fits
<1> QED BY <1>1, <1>2 DEF EmergencyFails

\* Every call.
LEMMA OutcomesFit ==
    ASSUME row \in [Ids -> Statuses], NEW call \in Calls, NEW i \in Ids, NEW o \in Outcomes(call, i)
    PROVE  /\ Fits(o, i)
           /\ o.then \in {"run", "post", "requeue", "report", "done"}
           /\ o.then = "run" => call = "load"
           /\ o.then = "requeue" => call = "completeCut"
           /\ o.then = "report" => call = "emergency"
           /\ o.then = "done" => call = "requeue"
           /\ call \in {"complete", "completeCut"} /\ o.row[i] = "processing"
                => o.failed = 2
<1>1. CASE call = "load"
  BY <1>1, LoadsFit DEF Outcomes
<1>2. CASE call = "finish"
  BY <1>2, FinishesFit DEF Outcomes, EndsUnswapped
<1>3. CASE call = "changed"
  BY <1>3, ChangesFit DEF Outcomes
<1>4. CASE call = "complete"
  BY <1>4, FinishesFit DEF Outcomes
<1>5. CASE call = "completeCut"
  BY <1>5, FinishesFit DEF Outcomes
<1>6. CASE call = "requeue"
  BY <1>6, RequeuesFit DEF Outcomes
<1>7. CASE call = "emergency"
  BY <1>7, EmergenciesFit DEF Outcomes
<1> QED BY <1>1, <1>2, <1>3, <1>4, <1>5, <1>6, <1>7 DEF Calls

-----------------------------------------------------------------------------
(* Types                                                                   *)

\* What TypeOK and CancelsGoing say of one task.
TaskFits(r) ==
    /\ r \in TaskRecord
    /\ r.at = "idle" <=> r.id = None
    /\ r.then # "none" => r.at \in Calls
    /\ r.cancel => r.at \notin {"idle", "done"}
    /\ r.then # "idle"

TasksFit == task \in [Tasks -> TaskRecord] /\ \A t \in Tasks : TaskFits(task[t])

\* And what TypeOK says of the rest.
RestFits ==
    /\ row \in [Ids -> Statuses]
    /\ active \in [Ids -> Tasks \cup {None}]
    /\ left \subseteq [call : Calls, id : Ids]
    /\ claiming \in BOOLEAN /\ paused \in BOOLEAN /\ stopping \in BOOLEAN
    /\ handoff \in Ids \cup {None, Asking}
    /\ abort \in [at : AbortSteps, id : Ids \cup {None},
                  task : Tasks \cup {None}, seen : BOOLEAN]
    /\ faults \in 0 .. MaxFaults
    /\ changed \subseteq Ids

EntriesFit == \A i \in Ids : active[i] # None => task[active[i]].id = i

\* The types, taken apart by variable.
LEMMA ShapeIs == Shape <=> TasksFit /\ RestFits /\ EntriesFit /\ AbortFits
<1>1. TypeOK /\ CancelsGoing => TasksFit
  <2> SUFFICES ASSUME TypeOK, CancelsGoing, NEW t \in Tasks PROVE TaskFits(task[t])
    BY DEF TypeOK, TasksFit
  <2> QED BY DEF TypeOK, CancelsGoing, TaskFits, Going
<1>2. TasksFit => CancelsGoing
  BY DEF TasksFit, TaskFits, CancelsGoing, Going
<1>3. TypeOK => RestFits /\ EntriesFit
  BY DEF TypeOK, RestFits, EntriesFit
<1>4. TasksFit /\ RestFits /\ EntriesFit => TypeOK
  BY DEF TypeOK, TasksFit, TaskFits, RestFits, EntriesFit
<1> QED BY <1>1, <1>2, <1>3, <1>4 DEF Shape

\* The same of the next state.
LEMMA ShapeNext ==
    ASSUME TasksFit', RestFits', EntriesFit', AbortFits'
    PROVE  Shape'
BY ShapeIs DEF Shape, TypeOK, CancelsGoing, AbortFits, TasksFit, RestFits, EntriesFit,
   TaskFits, Going

\* A step of task t: it keeps its id and every other task is left alone.
Moves(t) ==
    /\ task' \in [Tasks -> TaskRecord]
    /\ TaskFits(task'[t]) /\ task'[t].id = task[t].id
    /\ \A u \in Tasks \ {t} : task'[u] = task[u]

\* Such a step keeps the types of what it touches.
LEMMA MovesFit ==
    ASSUME Shape, NEW t \in Tasks, Moves(t), UNCHANGED <<active, abort>>
    PROVE  TasksFit' /\ EntriesFit' /\ AbortFits'
<1>1. TasksFit /\ EntriesFit /\ AbortFits /\ active \in [Ids -> Tasks \cup {None}]
  BY ShapeIs DEF RestFits
<1>2. \A u \in Tasks : task'[u].id = task[u].id
  BY DEF Moves
<1>3. TasksFit'
  <2>1. \A u \in Tasks : TaskFits(task'[u])
    BY <1>1 DEF Moves, TasksFit
  <2> QED BY <2>1 DEF Moves, TasksFit, TaskFits
<1>4. EntriesFit'
  BY <1>1, <1>2 DEF EntriesFit
<1>5. AbortFits'
  BY <1>1, <1>2 DEF AbortFits
<1> QED BY <1>3, <1>4, <1>5

\* Going from one step of _run_job to the next is such a step.
LEMMA ToMoves ==
    ASSUME Shape, NEW t \in Tasks, NEW step \in Steps \ {"idle"}, task[t].at # "idle",
           ~task[t].cancel, To(t, step)
    PROVE  /\ Moves(t)
           /\ task'[t].at = step /\ task'[t].then = "none" /\ ~task'[t].cancel
<1>1. TasksFit
  BY ShapeIs
<1>2. /\ task[t] \in TaskRecord /\ task[t].id # None
      /\ task' = [task EXCEPT ![t] = [task[t] EXCEPT !.at = step, !.then = "none"]]
  BY <1>1 DEF TasksFit, TaskFits, To
<1>3. task' \in [Tasks -> TaskRecord]
  BY <1>1, <1>2 DEF TasksFit, TaskRecord
<1>4. /\ task'[t].at = step /\ task'[t].then = "none" /\ task'[t].cancel = task[t].cancel
      /\ task'[t].id = task[t].id
  BY <1>1, <1>2 DEF TasksFit, TaskRecord
<1>5. \A u \in Tasks \ {t} : task'[u] = task[u]
  BY <1>1, <1>2 DEF TasksFit
<1>6. TaskFits(task'[t])
  BY <1>2, <1>3, <1>4 DEF TaskFits
<1> QED BY <1>3, <1>4, <1>5, <1>6 DEF Moves

\* Where a cancellation can lead.
LEMMA CutIs ==
    \A at \in Steps \ {"idle", "done"} :
        Cut[at] \in {"requeue", "unwind", "completeCut", "done"}
BY DEF Cut, Steps, Calls

\* A task's own steps, with the calls it waits for.
LEMMA TaskStepsMove ==
    ASSUME Shape, NEW t \in Tasks, TaskStep(t) \/ CallCommits(t)
    PROVE  Moves(t) /\ UNCHANGED <<active, abort>> /\ RestFits'
<1> DEFINE Good == Moves(t) /\ UNCHANGED <<active, abort>> /\ RestFits'
<1>a. TasksFit /\ RestFits
  BY ShapeIs
<1>b. TaskFits(task[t]) /\ task \in [Tasks -> TaskRecord]
  BY <1>a DEF TasksFit
<1>1. ASSUME Resumes(t) PROVE Good
  <2>1. task[t].then \in Steps \ {"idle"} /\ task[t].at # "idle"
    BY <1>b, <1>1 DEF TaskFits, TaskRecord, Resumes, Steps, Calls
  <2>2. Moves(t)
    BY <2>1, <1>1, ToMoves DEF Resumes
  <2> QED BY <2>2, <1>1, <1>a DEF Resumes, table, beside, worker, RestFits
<1>2. ASSUME EndRun(t) PROVE Good
  <2>1. Moves(t)
    BY <1>2, ToMoves DEF EndRun, Steps, Calls
  <2> QED BY <2>1, <1>2, <1>a DEF EndRun, table, beside, worker, RestFits
<1>3. ASSUME Swap(t) PROVE Good
  <2>1. Moves(t)
    BY <1>3, ToMoves DEF Swap, Steps, Calls
  <2>2. task[t].id \in Ids
    BY <1>b, <1>3 DEF Swap, TaskFits, TaskRecord
  <2> QED BY <2>1, <2>2, <1>3, <1>a DEF Swap, table, beside, worker, RestFits
<1>4. ASSUME Unwinds(t) PROVE Good
  <2>1. Moves(t)
    BY <1>4, ToMoves DEF Unwinds, Steps, Calls
  <2> QED BY <2>1, <1>4, <1>a DEF Unwinds, table, beside, worker, RestFits
<1>5. ASSUME ReadOutcome(t) PROVE Good
  <2>1. \E step \in {"done", "emergency", "report"} : To(t, step)
    BY <1>5 DEF ReadOutcome
  <2>2. Moves(t)
    BY <2>1, <1>5, ToMoves DEF ReadOutcome, Steps, Calls
  <2> QED BY <2>2, <1>5, <1>a DEF ReadOutcome, table, beside, worker, RestFits
<1>6. ASSUME Report(t) PROVE Good
  <2>1. Moves(t)
    <3> DEFINE r == [task[t] EXCEPT !.at = "done", !.told = TRUE]
    <3>1. task[t].at = "report" /\ ~task[t].cancel /\ task' = [task EXCEPT ![t] = r]
      BY <1>6 DEF Report
    <3>2. /\ r \in TaskRecord /\ r.at = "done" /\ r.id = task[t].id
          /\ r.then = task[t].then /\ r.cancel = task[t].cancel
      BY <1>b DEF TaskFits, TaskRecord, Steps
    <3>3. TaskFits(r)
      BY <3>1, <3>2, <1>b DEF TaskFits, Calls
    <3> HIDE DEF r
    <3> QED BY <3>1, <3>2, <3>3, <1>b DEF Moves
  <2>2. row' \in [Ids -> Statuses]
    BY <1>6, <1>a, AdditionsFit DEF Report, RestFits
  <2> QED BY <2>1, <2>2, <1>6, <1>a DEF Report, beside, worker, RestFits
<1>7. ASSUME CancelDelivered(t) PROVE Good
  <2>a. task[t].cancel /\ task[t].at \in Steps \ {"idle", "done"} /\ task[t].id \in Ids
    BY <1>7, <1>b DEF CancelDelivered, TaskFits, TaskRecord
  <2>1. Moves(t)
    <3>1. CASE task[t].at = "complete"
      <4> DEFINE r == [task[t] EXCEPT !.at = "completeCut", !.cancel = FALSE,
                                      !.then = IF @ = "none" THEN "none" ELSE "requeue"]
      <4>1. task' = [task EXCEPT ![t] = r]
        BY <1>7, <3>1 DEF CancelDelivered
      <4>2. r \in TaskRecord /\ r.at = "completeCut" /\ r.id = task[t].id /\ ~r.cancel
            /\ r.then \in {"none", "requeue"}
        BY <1>b DEF TaskFits, TaskRecord, Steps, Calls
      <4>3. TaskFits(r)
        BY <4>2, <2>a, <1>b DEF TaskFits, Calls
      <4> HIDE DEF r
      <4> QED BY <4>1, <4>2, <4>3, <1>b DEF Moves
    <3>2. CASE task[t].at # "complete"
      <4> DEFINE r == [task[t] EXCEPT !.at = Cut[@], !.then = "none", !.cancel = FALSE]
      <4>1. task' = [task EXCEPT ![t] = r]
        BY <1>7, <3>2 DEF CancelDelivered
      <4>2. Cut[task[t].at] \in Steps \ {"idle"}
        BY <2>a, CutIs DEF Steps, Calls
      <4>3. /\ r \in TaskRecord /\ r.at = Cut[task[t].at] /\ r.id = task[t].id
            /\ ~r.cancel /\ r.then = "none"
        BY <1>b, <4>2 DEF TaskFits, TaskRecord
      <4>4. TaskFits(r)
        BY <4>2, <4>3, <2>a, <1>b DEF TaskFits
      <4> HIDE DEF r
      <4> QED BY <4>1, <4>3, <4>4, <1>b DEF Moves
    <3> QED BY <3>1, <3>2
  <2>2. left' \subseteq [call : Calls, id : Ids]
    <3>1. Abandoned(t) \subseteq [call : Calls, id : Ids]
      <4>1. CASE task[t].at \in Calls
        <5>1. [call |-> task[t].at, id |-> task[t].id] \in [call : Calls, id : Ids]
          BY <4>1, <2>a
        <5> QED BY <5>1 DEF Abandoned
      <4>2. CASE task[t].at \notin Calls
        BY <4>2 DEF Abandoned
      <4> QED BY <4>1, <4>2
    <3>2. left \subseteq [call : Calls, id : Ids]
      BY <1>a DEF RestFits
    <3>3. left' = left \/ left' = left \cup Abandoned(t)
      BY <1>7 DEF CancelDelivered
    <3> QED BY <3>1, <3>2, <3>3
  <2> QED BY <2>1, <2>2, <1>7, <1>a DEF CancelDelivered, table, worker, RestFits
<1>8. ASSUME CallCommits(t) PROVE Good
  <2>1. PICK o \in Outcomes(task[t].at, task[t].id) :
          Commit(o) /\ task' = [task EXCEPT ![t] = [task[t] EXCEPT !.then = o.then]]
    BY <1>8 DEF CallCommits
  <2>2. task[t].at \in Calls /\ task[t].at # "idle" /\ task[t].id \in Ids
    BY <1>8, <1>b DEF CallCommits, TaskFits, TaskRecord, Calls
  <2>3. Fits(o, task[t].id) /\ o.then \in {"run", "post", "requeue", "report", "done"}
    BY <2>2, <1>a, OutcomesFit DEF RestFits
  <2>4. Moves(t)
    <3> DEFINE r == [task[t] EXCEPT !.then = o.then]
    <3>1. /\ r \in TaskRecord /\ r.at = task[t].at /\ r.id = task[t].id
          /\ r.cancel = task[t].cancel /\ r.then = o.then
      BY <1>b, <2>3 DEF TaskFits, TaskRecord, Steps, Calls
    <3>2. TaskFits(r)
      BY <3>1, <2>2, <2>3, <1>b DEF TaskFits
    <3> HIDE DEF r
    <3>3. task' = [task EXCEPT ![t] = r]
      BY <2>1 DEF r
    <3> QED BY <3>3, <3>1, <3>2, <1>b DEF Moves
  <2>5. row' \in [Ids -> Statuses] /\ faults' \in 0 .. MaxFaults
    BY <2>1, <2>3, <1>a, BoundsNatural DEF Commit, Fits, RestFits
  <2> QED BY <2>4, <2>5, <1>8, <1>a DEF CallCommits, beside, worker, RestFits
<1> QED BY <1>1, <1>2, <1>3, <1>4, <1>5, <1>6, <1>7, <1>8 DEF TaskStep

\* Steps that leave the tasks and the registry alone.
LEMMA AsideShape ==
    ASSUME Shape, UNCHANGED <<task, active>>, AbortFits', RestFits'
    PROVE  Shape'
<1>1. TasksFit /\ EntriesFit
  BY ShapeIs
<1>2. TasksFit' /\ EntriesFit'
  BY <1>1 DEF TasksFit, TaskFits, EntriesFit
<1> QED BY <1>2, ShapeNext

Aside ==
    \/ AskForJob \/ ClaimRow \/ EndPass
    \/ \E c \in left : LeftCommits(c)
    \/ AbortRead \/ AbortMark
    \/ Request

\* The steps of Request, and what they do to the rows.
LEMMA RowsFit ==
    ASSUME RestFits, Aside
    PROVE  row' \in [Ids -> Statuses] /\ faults' \in faults .. MaxFaults
<1>a. row \in [Ids -> Statuses] /\ faults \in 0 .. MaxFaults /\ abort.id \in Ids \cup {None}
      /\ left \subseteq [call : Calls, id : Ids]
  BY DEF RestFits
<1> DEFINE Good == row' \in [Ids -> Statuses] /\ faults' \in faults .. MaxFaults
<1>1. ASSUME AskForJob \/ ClaimRow \/ EndPass PROVE Good
  BY <1>1, <1>a, BoundsNatural DEF AskForJob, ClaimRow, EndPass, Statuses
<1>2. ASSUME NEW c \in left, LeftCommits(c) PROVE Good
  <2>1. PICK o \in Outcomes(c.call, c.id) : Commit(o)
    BY <1>2 DEF LeftCommits
  <2>2. c.call \in Calls /\ c.id \in Ids
    BY <1>a
  <2>3. Fits(o, c.id)
    BY <2>2, <1>a, OutcomesFit
  <2> QED BY <2>1, <2>3, <1>a, BoundsNatural DEF Commit, Fits
<1>3. ASSUME AbortRead \/ AbortMark PROVE Good
  BY <1>3, <1>a, BoundsNatural DEF AbortRead, AbortMark, others, Write, Statuses
<1>4. ASSUME NEW i \in Ids, AbortFind(i) \/ Retry(i) \/ DropRecord(i) PROVE Good
  <2>1. row' = row \/ row' \in {[row EXCEPT ![i] = "none"]} \cup Additions([row EXCEPT ![i] = "none"])
    BY <1>4 DEF AbortFind, Retry, DropRecord
  <2>2. [row EXCEPT ![i] = "none"] \in [Ids -> Statuses]
    BY <1>a DEF Statuses
  <2>3. row' \in [Ids -> Statuses]
    BY <2>1, <2>2, <1>a, AdditionsFit
  <2> QED BY <2>3, <1>4, <1>a, BoundsNatural DEF AbortFind, Retry, DropRecord, others
<1>5. ASSUME QueueFile \/ Pause \/ Resume PROVE Good
  BY <1>5, <1>a, BoundsNatural DEF QueueFile, Pause, Resume, others, Statuses
<1> QED BY <1>1, <1>2, <1>3, <1>4, <1>5 DEF Aside, Request

\* The loop's claims, the calls left behind and the requests.
LEMMA AsideKeepsShape ==
    ASSUME Shape, Aside
    PROVE  Shape'
<1>a. TasksFit /\ RestFits /\ EntriesFit /\ AbortFits
  BY ShapeIs
<1>b. row' \in [Ids -> Statuses] /\ faults' \in 0 .. MaxFaults
  <2>1. faults \in Nat
    BY <1>a DEF RestFits
  <2> QED BY <1>a, <2>1, RowsFit
<1>1. ASSUME AskForJob \/ ClaimRow \/ EndPass PROVE Shape'
  <2>1. RestFits'
    BY <1>1, <1>a, <1>b DEF AskForJob, ClaimRow, EndPass, RestFits
  <2>2. AbortFits' /\ UNCHANGED <<task, active>>
    BY <1>1, <1>a DEF AskForJob, ClaimRow, EndPass, AbortFits
  <2> QED BY <2>1, <2>2, AsideShape
<1>2. ASSUME NEW c \in left, LeftCommits(c) PROVE Shape'
  <2>1. RestFits'
    BY <1>2, <1>a, <1>b DEF LeftCommits, worker, RestFits
  <2>2. AbortFits' /\ UNCHANGED <<task, active>>
    BY <1>2, <1>a DEF LeftCommits, worker, AbortFits
  <2> QED BY <2>1, <2>2, AsideShape
<1>3. ASSUME AbortRead \/ AbortMark PROVE Shape'
  <2>1. abort' \in [at : AbortSteps, id : Ids \cup {None}, task : Tasks \cup {None}, seen : BOOLEAN]
        /\ AbortFits' /\ UNCHANGED <<task, active>>
    <3>1. CASE AbortRead
      BY <3>1, <1>a DEF AbortRead, AbortFits, RestFits, AbortSteps, others
    <3>2. CASE AbortMark
      BY <3>2, <1>a DEF AbortMark, AbortFits, RestFits, AbortSteps, others, NoAbort
    <3> QED BY <1>3, <3>1, <3>2
  <2>2. RestFits'
    BY <1>3, <2>1, <1>a, <1>b DEF AbortRead, AbortMark, others, RestFits
  <2> QED BY <2>1, <2>2, AsideShape
<1>4. ASSUME NEW i \in Ids, AbortFind(i) PROVE Shape'
  <2>0. active[i] \in Tasks /\ task[active[i]].id = i
    BY <1>4, <1>a DEF AbortFind, RestFits, EntriesFit
  <2>1. abort' \in [at : AbortSteps, id : Ids \cup {None}, task : Tasks \cup {None}, seen : BOOLEAN]
        /\ AbortFits' /\ UNCHANGED <<task, active>>
    BY <2>0, <1>4 DEF AbortFind, AbortFits, AbortSteps, others
  <2>2. RestFits'
    BY <1>4, <2>1, <1>a, <1>b DEF AbortFind, others, RestFits
  <2> QED BY <2>1, <2>2, AsideShape
<1>5. ASSUME NEW i \in Ids, Retry(i) \/ DropRecord(i) PROVE Shape'
  <2>1. RestFits'
    BY <1>5, <1>a, <1>b DEF Retry, DropRecord, others, RestFits
  <2>2. AbortFits' /\ UNCHANGED <<task, active>>
    BY <1>5, <1>a DEF Retry, DropRecord, others, AbortFits
  <2> QED BY <2>1, <2>2, AsideShape
<1>6. ASSUME QueueFile \/ Pause \/ Resume PROVE Shape'
  <2>1. RestFits'
    BY <1>6, <1>a, <1>b DEF QueueFile, Pause, Resume, others, RestFits
  <2>2. AbortFits' /\ UNCHANGED <<task, active>>
    BY <1>6, <1>a DEF QueueFile, Pause, Resume, others, AbortFits
  <2> QED BY <2>1, <2>2, AsideShape
<1> QED BY <1>1, <1>2, <1>3, <1>4, <1>5, <1>6 DEF Aside, Request

\* Steps that make, drop or stop tasks.
LEMMA TasksShape ==
    ASSUME Shape, StartPass \/ LaunchTask \/ AbortCancel \/ Stop \/ Restart
    PROVE  Shape'
<1>a. TasksFit /\ RestFits /\ EntriesFit /\ AbortFits
  BY ShapeIs
<1>b. TaskFits(Fresh) /\ Fresh.id = None /\ Fresh.at = "idle"
  BY DEF TaskFits, TaskRecord, Fresh, Steps, Calls
<1>c. None \notin Tasks \cup Ids
  BY MarksAreNoIds
<1>d. /\ row \in [Ids -> Statuses] /\ active \in [Ids -> Tasks \cup {None}]
      /\ abort \in [at : AbortSteps, id : Ids \cup {None}, task : Tasks \cup {None}, seen : BOOLEAN]
  BY <1>a DEF RestFits
<1>1. ASSUME StartPass PROVE Shape'
  <2>1. \A t \in Tasks : task'[t] = IF task[t].at = "done" THEN Fresh ELSE task[t]
    BY <1>1 DEF StartPass
  <2>2. TasksFit'
    <3>1. \A t \in Tasks : TaskFits(task'[t])
      BY <2>1, <1>a, <1>b DEF TasksFit
    <3>2. task' \in [Tasks -> TaskRecord]
      BY <1>1, <2>1, <3>1 DEF StartPass, TaskFits
    <3> QED BY <3>1, <3>2 DEF TasksFit, TaskFits
  <2>3. RestFits'
    BY <1>1, <1>a DEF StartPass, RestFits
  <2>4. EntriesFit'
    <3>1. \A i \in Ids : active'[i] # None =>
            active'[i] = active[i] /\ active[i] \in Tasks /\ task[active[i]].at # "done"
      BY <1>1, <1>d DEF StartPass
    <3> QED BY <3>1, <2>1, <1>a DEF EntriesFit
  <2>5. AbortFits'
    BY <1>1, <2>1, <1>a, <1>b DEF AbortFits, StartPass
  <2> QED BY <2>2, <2>3, <2>4, <2>5, ShapeNext
<1>2. ASSUME LaunchTask PROVE Shape'
  <2>1. PICK t \in Tasks : task[t].at = "idle" /\ abort.task # t /\ Launched(t)
    BY <1>2 DEF LaunchTask
  <2> DEFINE r == [Fresh EXCEPT !.id = handoff, !.at = "load"]
  <2>2. /\ r \in TaskRecord /\ r.id = handoff /\ r.at = "load" /\ r.then = "none" /\ ~r.cancel
        /\ handoff \in Ids
    BY <1>2 DEF LaunchTask, TaskRecord, Fresh, Steps, Calls
  <2>3. TaskFits(r)
    BY <2>2, <1>c DEF TaskFits
  <2>4. task' = [task EXCEPT ![t] = r] /\ active' = [active EXCEPT ![handoff] = t]
        /\ handoff' = None
    BY <1>2, <2>1 DEF LaunchTask, Launched
  <2> HIDE DEF r
  <2>5. TasksFit'
    <3>1. \A u \in Tasks : TaskFits(task'[u])
      BY <2>3, <2>4, <1>a DEF TasksFit
    <3>2. task' \in [Tasks -> TaskRecord]
      BY <2>2, <2>4, <1>a DEF TasksFit
    <3> QED BY <3>1, <3>2 DEF TasksFit, TaskFits
  <2>6. RestFits'
    BY <1>2, <2>2, <2>4, <1>a DEF LaunchTask, RestFits
  <2>7. EntriesFit'
    <3>0. task[t].id = None
      BY <2>1, <1>a DEF TasksFit, TaskFits
    <3>1. \A i \in Ids : active[i] # None => active[i] # t
      BY <3>0, <1>a, <1>c DEF EntriesFit
    <3> QED BY <3>1, <2>2, <2>4, <1>a, <1>d DEF EntriesFit, TasksFit
  <2>8. AbortFits'
    BY <1>2, <2>1, <2>4, <1>a DEF AbortFits, LaunchTask, TasksFit
  <2> QED BY <2>5, <2>6, <2>7, <2>8, ShapeNext
<1>3. ASSUME AbortCancel PROVE Shape'
  <2>1. RestFits' /\ AbortFits' /\ active' = active
    BY <1>3, <1>a DEF AbortCancel, RestFits, AbortFits, NoAbort, AbortSteps
  <2>2. abort.task \in Tasks
    BY <1>3, <1>a DEF AbortCancel, AbortFits
  <2>3. CASE task' = task
    <3>1. TasksFit' /\ EntriesFit'
      BY <2>1, <2>3, <1>a DEF TasksFit, TaskFits, EntriesFit
    <3> QED BY <3>1, <2>1, ShapeNext
  <2>4. CASE task' # task
    <3> DEFINE t == abort.task
               r == [task[t] EXCEPT !.cancel = TRUE]
    <3>1. Going(t) /\ task' = [task EXCEPT ![t] = r]
      BY <1>3, <2>4 DEF AbortCancel
    <3>2. TaskFits(task[t]) /\ task \in [Tasks -> TaskRecord]
      BY <2>2, <1>a DEF TasksFit
    <3>3. /\ r \in TaskRecord /\ r.id = task[t].id /\ r.at = task[t].at
          /\ r.then = task[t].then
      BY <3>2 DEF TaskFits, TaskRecord
    <3>4. TaskFits(r)
      BY <3>1, <3>2, <3>3 DEF TaskFits, Going
    <3> HIDE DEF r
    <3>5. TasksFit'
      <4>1. \A u \in Tasks : TaskFits(task'[u])
        BY <3>1, <3>4, <1>a DEF TasksFit
      <4>2. task' \in [Tasks -> TaskRecord]
        BY <3>1, <3>2, <3>3
      <4> QED BY <4>1, <4>2 DEF TasksFit, TaskFits
    <3>6. EntriesFit'
      <4>1. \A u \in Tasks : task'[u].id = task[u].id
        BY <3>1, <3>2, <3>3
      <4> QED BY <4>1, <2>1, <1>a, <1>d DEF EntriesFit
    <3> QED BY <3>5, <3>6, <2>1, ShapeNext
  <2> QED BY <2>3, <2>4
<1>4. ASSUME Stop PROVE Shape'
  <2>1. RestFits' /\ active' = active /\ abort' = abort
    BY <1>4, <1>a DEF Stop, RestFits
  <2>2. \A t \in Tasks :
          /\ TaskFits(task'[t]) /\ task'[t].id = task[t].id
    <3> SUFFICES ASSUME NEW t \in Tasks
                 PROVE  TaskFits(task'[t]) /\ task'[t].id = task[t].id
      OBVIOUS
    <3>1. TaskFits(task[t]) /\ task[t] \in TaskRecord
      BY <1>a DEF TasksFit
    <3>2. CASE task'[t] = task[t]
      BY <3>1, <3>2
    <3>3. CASE task'[t] = [task[t] EXCEPT !.cancel = TRUE] /\ Going(t)
      <4> DEFINE r == [task[t] EXCEPT !.cancel = TRUE]
      <4>1. /\ r \in TaskRecord /\ r.id = task[t].id /\ r.at = task[t].at
            /\ r.then = task[t].then
        BY <3>1 DEF TaskRecord
      <4>2. TaskFits(r)
        BY <3>1, <3>3, <4>1 DEF TaskFits, Going
      <4> QED BY <3>3, <4>1, <4>2
    <3> QED BY <1>4, <3>2, <3>3 DEF Stop
  <2>3. TasksFit'
    <3>1. task' \in [Tasks -> TaskRecord]
      BY <1>4, <2>2 DEF Stop, TaskFits
    <3> QED BY <3>1, <2>2 DEF TasksFit, TaskFits
  <2>4. EntriesFit' /\ AbortFits'
    BY <2>1, <2>2, <1>a, <1>d DEF EntriesFit, AbortFits
  <2> QED BY <2>1, <2>3, <2>4, ShapeNext
<1>5. ASSUME Restart PROVE Shape'
  <2>1. row' \in [Ids -> Statuses]
    BY <1>5, <1>d DEF Restart, WriteIfRunning, Statuses
  <2>2. RestFits'
    BY <1>5, <2>1, <1>a DEF Restart, RestFits, NoAbort, AbortSteps
  <2>3. EntriesFit' /\ AbortFits'
    BY <1>5 DEF Restart, EntriesFit, AbortFits, NoAbort
  <2>4. TasksFit'
    <3>1. \A t \in Tasks : TaskFits(task'[t])
      BY <1>5, <1>b DEF Restart
    <3>2. task' \in [Tasks -> TaskRecord]
      BY <1>5, <1>b DEF Restart, TaskFits
    <3> QED BY <3>1, <3>2 DEF TasksFit, TaskFits
  <2> QED BY <2>2, <2>3, <2>4, ShapeNext
<1> QED BY <1>1, <1>2, <1>3, <1>4, <1>5

\* The types hold at start-up ...
LEMMA ShapeInit == Init => Shape
<1> SUFFICES ASSUME Init PROVE Shape
  OBVIOUS
<1>1. TaskFits(Fresh)
  BY DEF TaskFits, TaskRecord, Fresh, Steps, Calls
<1>2. TasksFit
  BY <1>1 DEF Init, TasksFit, TaskFits
<1>3. RestFits
  <2>1. NoAbort \in [at : AbortSteps, id : Ids \cup {None}, task : Tasks \cup {None}, seen : BOOLEAN]
    BY DEF NoAbort, AbortSteps
  <2>2. faults \in 0 .. MaxFaults
    BY BoundsNatural DEF Init
  <2>3. row \in [Ids -> Statuses] /\ active \in [Ids -> Tasks \cup {None}]
    BY DEF Init, Statuses
  <2> QED BY <2>1, <2>2, <2>3 DEF Init, RestFits
<1>4. EntriesFit /\ AbortFits
  BY DEF Init, EntriesFit, AbortFits, NoAbort
<1> QED BY <1>2, <1>3, <1>4, ShapeIs

\* ... and every step keeps them.
LEMMA ShapeStep == Shape /\ [Next]_vars => Shape'
<1> SUFFICES ASSUME Shape, [Next]_vars PROVE Shape'
  OBVIOUS
<1>1. ASSUME NEW t \in Tasks, CallCommits(t) \/ TaskStep(t) PROVE Shape'
  BY <1>1, TaskStepsMove, MovesFit, ShapeNext
<1>2. ASSUME Aside \/ StartPass \/ LaunchTask \/ AbortCancel \/ Stop \/ Restart PROVE Shape'
  BY <1>2, AsideKeepsShape, TasksShape
<1>3. ASSUME UNCHANGED vars PROVE Shape'
  BY <1>3 DEF vars, Shape, TypeOK, CancelsGoing, AbortFits, Going
<1> QED BY <1>1, <1>2, <1>3 DEF Next, Loop, AbortStep, Aside

-----------------------------------------------------------------------------
(* Who keeps a row running                                                 *)

\* The registry's task of a row is a task of that row.
LEMMA EntryIs ==
    ASSUME Shape, NEW i \in Ids, active[i] # None
    PROVE  active[i] \in Tasks /\ task[active[i]].id = i /\ TaskFits(task[active[i]])
BY ShapeIs DEF RestFits, EntriesFit, TasksFit

\* Two states in which the same is known of row i: it ran, its task has not
\* moved, no request has settled it.
LEMMA KeepsOn ==
    ASSUME NEW t, Keeps(t), task'[t] = task[t], faults' >= faults,
           faults \in Nat, faults' \in Nat, Settling' /\ abort'.task = t => Settling /\ abort.task = t
    PROVE  Keeps(t)'
BY DEF Keeps, Settling

\* Only a claim makes a row run.
LEMMA RowsStop ==
    ASSUME RestFits, Aside, NEW j \in Ids, row'[j] = "processing"
    PROVE  row[j] = "processing" \/ ClaimRow
<1>a. row \in [Ids -> Statuses] /\ left \subseteq [call : Calls, id : Ids]
  BY DEF RestFits
<1> DEFINE Good == row[j] = "processing"
<1>1. ASSUME AskForJob \/ EndPass PROVE Good
  BY <1>1 DEF AskForJob, EndPass
<1>2. ASSUME NEW c \in left, LeftCommits(c) PROVE Good
  <2>1. PICK o \in Outcomes(c.call, c.id) : Commit(o)
    BY <1>2 DEF LeftCommits
  <2>2. c.call \in Calls /\ c.id \in Ids
    BY <1>a
  <2> QED BY <2>1, <2>2, <1>a, OutcomesFit DEF Commit, Fits
<1>3. ASSUME AbortRead \/ AbortMark PROVE Good
  BY <1>3, <1>a DEF AbortRead, AbortMark, Write
<1>4. ASSUME NEW i \in Ids, AbortFind(i) \/ Retry(i) \/ DropRecord(i) PROVE Good
  <2> DEFINE r == [row EXCEPT ![i] = "none"]
  <2>1. r \in [Ids -> Statuses] /\ (r[j] = "processing" => row[j] = "processing")
    BY <1>a DEF Statuses
  <2>2. row' = row \/ row' = r \/ row' \in Additions(r)
    BY <1>4 DEF AbortFind, Retry, DropRecord
  <2> HIDE DEF r
  <2> QED BY <2>1, <2>2, AdditionsFit
<1>5. ASSUME QueueFile \/ Pause \/ Resume PROVE Good
  BY <1>5, <1>a DEF QueueFile, Pause, Resume
<1> QED BY <1>1, <1>2, <1>3, <1>4, <1>5 DEF Aside, Request

\* A task's steps, and its calls, make no row run.
LEMMA TaskRows ==
    ASSUME Shape, NEW t \in Tasks, TaskStep(t) \/ CallCommits(t)
    PROVE  /\ UNCHANGED <<active, abort, handoff, stopping>>
           /\ faults \in Nat /\ faults' \in Nat /\ faults' >= faults
           /\ \A j \in Ids : row'[j] = "processing" => row[j] = "processing"
<1>a. RestFits /\ TasksFit
  BY ShapeIs
<1>b. row \in [Ids -> Statuses] /\ faults \in Nat
  BY <1>a DEF RestFits
<1> DEFINE Good == /\ UNCHANGED <<handoff, stopping>>
                   /\ faults' \in Nat /\ faults' >= faults
                   /\ \A j \in Ids : row'[j] = "processing" => row[j] = "processing"
<1>1. ASSUME Resumes(t) \/ EndRun(t) \/ Swap(t) \/ Unwinds(t) \/ ReadOutcome(t) PROVE Good
  BY <1>1, <1>b DEF Resumes, EndRun, Swap, Unwinds, ReadOutcome, table, beside, worker
<1>2. ASSUME Report(t) PROVE Good
  BY <1>2, <1>b, AdditionsFit DEF Report, beside, worker
<1>3. ASSUME CancelDelivered(t) PROVE Good
  BY <1>3, <1>b DEF CancelDelivered, table, worker
<1>4. ASSUME CallCommits(t) PROVE Good
  <2>1. PICK o \in Outcomes(task[t].at, task[t].id) : Commit(o)
    BY <1>4 DEF CallCommits
  <2>2. task[t].at \in Calls /\ task[t].id \in Ids
    BY <1>4, <1>a DEF CallCommits, TasksFit, TaskFits, TaskRecord, Calls
  <2>3. Fits(o, task[t].id)
    BY <2>2, <1>b, OutcomesFit
  <2>4. faults' = faults + o.failed /\ o.failed \in Nat /\ row' = o.row
    BY <2>1, <2>3 DEF Commit, Fits
  <2> QED BY <2>3, <2>4, <1>4, <1>b DEF CallCommits, beside, worker, Fits
<1>5. Good
  BY <1>1, <1>2, <1>3, <1>4 DEF TaskStep
<1> QED BY <1>5, <1>b, TaskStepsMove

\* The step of the task that keeps a row running.
LEMMA KeeperMoves ==
    ASSUME Shape, NEW t \in Tasks, TaskStep(t) \/ CallCommits(t), Keeps(t),
           task[t].id \in Ids, row[task[t].id] = "processing",
           row'[task[t].id] = "processing"
    PROVE  Keeps(t)'
<1>a. RestFits /\ TaskFits(task[t]) /\ task[t] \in TaskRecord /\ task \in [Tasks -> TaskRecord]
  BY ShapeIs DEF TasksFit
<1>b. faults \in Nat /\ faults' \in Nat /\ faults' >= faults /\ abort' = abort
  BY TaskRows
<1>c. ~(Settling' /\ abort'.task = t)
  BY <1>b DEF Keeps, Settling
<1>1. ASSUME Resumes(t) PROVE Keeps(t)'
  <2>1. task[t].then \in {"run", "post", "report"} /\ task[t].at # "idle"
    BY <1>1, <1>a DEF Resumes, Keeps, TaskFits, Calls
  <2>2. task'[t].at = task[t].then /\ task'[t].then = "none" /\ ~task'[t].cancel
    BY <2>1, <1>1, ToMoves DEF Resumes, Steps, Calls
  <2> QED BY <2>1, <2>2, <1>b, <1>c DEF Keeps
<1>2. ASSUME EndRun(t) \/ Swap(t) PROVE Keeps(t)'
  <2>1. /\ task'[t].at \in {"finish", "changed", "complete"} /\ task'[t].then = "none"
        /\ ~task'[t].cancel
    BY <1>2, ToMoves DEF EndRun, Swap, Steps, Calls
  <2> QED BY <2>1, <1>c DEF Keeps
<1>3. ASSUME Unwinds(t) PROVE Keeps(t)'
  BY <1>3 DEF Unwinds, Keeps
<1>4. ASSUME ReadOutcome(t) PROVE Keeps(t)'
  <2>1. task'[t].at = "emergency" /\ task'[t].then = "none" /\ ~task'[t].cancel
    BY <1>4, ToMoves DEF ReadOutcome, Steps, Calls
  <2>2. faults >= 1
    BY <1>4 DEF ReadOutcome, Keeps
  <2> QED BY <2>1, <2>2, <1>b, <1>c DEF Keeps
<1>5. ASSUME Report(t) PROVE Keeps(t)'
  <2>1. task'[t].at = "done" /\ task'[t].then = task[t].then /\ ~task'[t].cancel
    BY <1>5, <1>a DEF Report, TaskRecord
  <2>2. faults >= 2
    BY <1>5 DEF Report, Keeps
  <2> QED BY <2>1, <2>2, <1>b, <1>c DEF Keeps
<1>6. ASSUME CancelDelivered(t) PROVE Keeps(t)'
  BY <1>6 DEF CancelDelivered, Keeps
<1>7. ASSUME CallCommits(t) PROVE Keeps(t)'
  <2>1. PICK o \in Outcomes(task[t].at, task[t].id) :
          Commit(o) /\ task' = [task EXCEPT ![t] = [task[t] EXCEPT !.then = o.then]]
    BY <1>7 DEF CallCommits
  <2>2. task[t].at \in Calls
    BY <1>7 DEF CallCommits
  <2>3. /\ Fits(o, task[t].id)
        /\ o.then \in {"run", "post", "requeue", "report", "done"}
        /\ o.then = "requeue" => task[t].at = "completeCut"
        /\ o.then = "report" => task[t].at = "emergency"
        /\ o.then = "done" => task[t].at = "requeue"
    BY <2>2, <1>a, OutcomesFit DEF RestFits
  <2>4. task'[t].at = task[t].at /\ task'[t].then = o.then /\ task'[t].cancel = task[t].cancel
    BY <2>1, <1>a DEF TaskRecord
  <2>5. o.then \in {"run", "post", "report"}
    BY <2>3 DEF Keeps
  <2>6. o.then # "run" => o.failed >= 1
    BY <2>1, <2>3 DEF Commit, Fits
  <2>7. faults' = faults + o.failed /\ o.failed \in Nat
    BY <2>1, <2>3 DEF Commit, Fits
  <2>8. o.then = "post" => faults' >= 1
    BY <2>6, <2>7, <1>b
  <2>9. o.then = "report" => faults' >= 2
    <3>1. o.then = "report" => faults >= 1
      BY <2>3 DEF Keeps
    <3> QED BY <3>1, <2>6, <2>7, <1>b
  <2>10. task[t].at \in {"post", "emergency"} => faults' >= 1
    BY <1>b DEF Keeps
  <2>11. task[t].at \notin {"report", "done"}
    BY <2>2 DEF Calls
  <2> QED BY <2>4, <2>5, <2>8, <2>9, <2>10, <2>11, <1>c DEF Keeps
<1> QED BY <1>1, <1>2, <1>3, <1>4, <1>5, <1>6, <1>7 DEF TaskStep

\* Every step leaves each running row its keeper.
LEMMA KeptStep == IInv /\ [Next]_vars => Kept'
<1> SUFFICES ASSUME Shape, Kept, [Next]_vars, ~stopping', NEW i \in Ids,
                    Running(i)', handoff' # i
             PROVE  (IF active[i] = None THEN faults >= 2 ELSE Keeps(active[i]))'
  BY DEF IInv, Kept
<1> DEFINE Held == IF active[i] = None THEN faults >= 2 ELSE Keeps(active[i])
<1>a. RestFits /\ TasksFit /\ EntriesFit /\ AbortFits
  BY ShapeIs
<1>b. faults \in Nat /\ active \in [Ids -> Tasks \cup {None}] /\ row \in [Ids -> Statuses]
  BY <1>a DEF RestFits
<1>c. None \notin Tasks \cup Ids /\ Asking \notin Ids
  BY MarksAreNoIds
<1>d. Running(i)' <=> row'[i] = "processing"
  BY DEF Running
<1>1. ASSUME NEW t \in Tasks, CallCommits(t) \/ TaskStep(t) PROVE Held'
  <2>1. /\ UNCHANGED <<active, abort, handoff, stopping>>
        /\ faults' \in Nat /\ faults' >= faults /\ row[i] = "processing"
    BY <1>1, <1>d, TaskRows
  <2>2. Held
    BY <2>1 DEF Kept, Running
  <2>3. CASE active[i] = None
    BY <2>1, <2>2, <2>3, <1>b
  <2>4. CASE active[i] = t /\ active[i] # None
    <3>1. task[t].id = i /\ Keeps(t)
      BY <2>2, <2>4, EntryIs
    <3>2. Keeps(t)'
      BY <3>1, <2>1, <1>1, <1>d, KeeperMoves
    <3> QED BY <3>2, <2>1, <2>4
  <2>5. CASE active[i] # t /\ active[i] # None
    <3>1. Keeps(active[i]) /\ active[i] \in Tasks \ {t}
      BY <2>2, <2>5, <1>b
    <3>2. task'[active[i]] = task[active[i]]
      BY <3>1, <1>1, TaskStepsMove DEF Moves
    <3>3. Settling' /\ abort'.task = active[i] => Settling /\ abort.task = active[i]
      BY <2>1 DEF Settling
    <3>4. \A t2 : t2 = active[i] => Keeps(t2)'
      BY <3>1, <3>2, <3>3, <2>1, <1>b, KeepsOn
    <3> QED BY <3>4, <2>1, <2>5
  <2> QED BY <2>3, <2>4, <2>5
<1>2. ASSUME Aside PROVE Held'
  <2>1. task' = task /\ active' = active /\ ~stopping /\ handoff # i
    <3>1. CASE AskForJob \/ ClaimRow \/ EndPass
      BY <3>1, <1>c DEF AskForJob, ClaimRow, EndPass
    <3>2. CASE UNCHANGED <<task, active, stopping, handoff>>
      BY <3>2
    <3>3. Aside => AskForJob \/ ClaimRow \/ EndPass \/ UNCHANGED <<task, active, stopping, handoff>>
      BY DEF Aside, LeftCommits, worker, AbortRead, AbortMark, Request, AbortFind, Retry,
         DropRecord, QueueFile, Pause, Resume, others
    <3> QED BY <3>1, <3>2, <3>3, <1>2
  <2>2. faults' \in Nat /\ faults' >= faults
    BY <1>2, <1>a, <1>b, RowsFit
  <2>3. row[i] = "processing"
    <3>1. CASE ClaimRow
      BY <3>1, <2>1, <1>b, <1>d DEF ClaimRow
    <3>2. CASE ~ClaimRow
      BY <3>2, <1>2, <1>a, <1>d, RowsStop
    <3> QED BY <3>1, <3>2
  <2>4. Held
    BY <2>1, <2>3 DEF Kept, Running
  <2>5. CASE active[i] = None
    BY <2>1, <2>2, <2>4, <2>5, <1>b
  <2>6. CASE active[i] # None
    <3> DEFINE t == active[i]
    <3>1. Keeps(t) /\ t \in Tasks /\ task[t].id = i
      BY <2>4, <2>6, EntryIs
    <3>2. Settling' /\ abort'.task = t => Settling /\ abort.task = t
      <4>1. ASSUME abort' = abort PROVE Settling' => Settling
        BY <4>1 DEF Settling
      <4>2. ASSUME NEW j \in Ids, AbortFind(j) PROVE ~Settling'
        BY <4>2 DEF AbortFind, Settling
      <4>3. ASSUME AbortRead, Settling', abort'.task = t PROVE FALSE
        <5>1. abort.task = t /\ abort.id \in Ids /\ row[abort.id] # "processing"
          BY <4>3, <1>a DEF AbortRead, Settling, RestFits, AbortFits
        <5>2. abort.id = i
          BY <5>1, <3>1, <4>3, <1>a, <1>c DEF AbortFits, AbortRead
        <5> QED BY <5>1, <5>2, <2>3
      <4>4. ASSUME AbortMark, Settling', abort'.task = t PROVE Settling /\ abort.task = t
        <5>1. abort.task = t /\ abort.id \in Ids /\ abort.at = "read"
              /\ (abort.seen => row' = Write(row, abort.id, "cancelled"))
          BY <4>4, <1>a DEF AbortMark, Settling, RestFits, AbortFits, NoAbort
        <5>2. abort.id = i
          BY <5>1, <3>1, <1>a, <1>c DEF AbortFits
        <5>3. ~abort.seen
          BY <5>1, <5>2, <1>b, <1>d DEF Write
        <5> QED BY <5>1, <5>3 DEF Settling
      <4>5. \/ abort' = abort \/ AbortRead \/ AbortMark
            \/ \E j \in Ids : AbortFind(j)
        BY <1>2 DEF Aside, AskForJob, ClaimRow, EndPass, LeftCommits, Request,
           Retry, DropRecord, QueueFile, Pause, Resume
      <4> QED BY <4>1, <4>2, <4>3, <4>4, <4>5
    <3>3. task'[t] = task[t]
      BY <2>1
    <3>4. \A t2 : t2 = t => Keeps(t2)'
      BY <3>1, <3>2, <3>3, <2>2, <1>b, KeepsOn
    <3> QED BY <3>4, <2>1, <2>6
  <2> QED BY <2>5, <2>6
<1>3. ASSUME StartPass PROVE Held'
  <2>1. /\ ~stopping /\ handoff # i /\ row[i] = "processing" /\ faults' = faults /\ abort' = abort
        /\ active'[i] = IF active[i] # None /\ task[active[i]].at = "done"
                          THEN None ELSE active[i]
    BY <1>3, <1>d DEF StartPass
  <2>2. Held
    BY <2>1 DEF Kept, Running
  <2>3. CASE active[i] = None
    BY <2>1, <2>2, <2>3
  <2>4. CASE active[i] # None /\ task[active[i]].at = "done"
    BY <2>1, <2>2, <2>4 DEF Keeps
  <2>5. CASE active[i] # None /\ task[active[i]].at # "done"
    <3> DEFINE t == active[i]
    <3>a. Keeps(t) /\ active[i] # None
      BY <2>2, <2>5
    <3>b. t \in Tasks
      BY <3>a, EntryIs
    <3>c. active'[i] = t
      BY <2>1, <2>5
    <3>0. Keeps(t) /\ t \in Tasks /\ active'[i] = t
      BY <3>a, <3>b, <3>c
    <3>1. Keeps(t) /\ task'[t] = task[t] /\ active'[i] = t
      BY <3>0, <2>5, <1>3 DEF StartPass
    <3>2. Settling' /\ abort'.task = t => Settling /\ abort.task = t
      BY <2>1 DEF Settling
    <3>3. faults \in Nat /\ faults' \in Nat /\ faults' >= faults
      BY <2>1, <1>b
    <3> HIDE DEF t
    <3>4. \A t2 : t2 = t => Keeps(t2)'
      BY <3>1, <3>2, <3>3, KeepsOn
    <3> QED BY <3>1, <3>4, <2>5 DEF t
  <2> QED BY <2>3, <2>4, <2>5
<1>4. ASSUME LaunchTask PROVE Held'
  <2>1. PICK t \in Tasks : task[t].at = "idle" /\ abort.task # t /\ Launched(t)
    BY <1>4 DEF LaunchTask
  <2>2. /\ ~stopping /\ row[i] = "processing" /\ faults' = faults /\ abort' = abort
        /\ handoff \in Ids
    BY <1>4, <1>d DEF LaunchTask
  <2>3. CASE i = handoff
    <3>1. active'[i] = t /\ t # None
      BY <2>1, <2>3, <1>b, <1>c DEF Launched
    <3>2. task'[t].at = "load" /\ task'[t].then = "none" /\ ~task'[t].cancel
      BY <2>1, <1>a DEF Launched, TasksFit, Fresh
    <3>3. Keeps(t)'
      BY <3>2, <2>1, <2>2 DEF Keeps
    <3> QED BY <3>1, <3>3
  <2>4. CASE i # handoff
    <3>1. Held /\ active'[i] = active[i]
      BY <2>1, <2>2, <2>4, <1>b DEF Kept, Running, Launched
    <3>2. CASE active[i] = None
      BY <3>1, <3>2, <2>2
    <3>3. CASE active[i] # None
      <4>1. Keeps(active[i]) /\ active[i] \in Tasks /\ task[active[i]].id = i
        BY <3>1, <3>3, EntryIs
      <4>2. task[t].id = None
        BY <2>1, <1>a DEF TasksFit, TaskFits
      <4>3. task'[active[i]] = task[active[i]]
        BY <4>1, <4>2, <2>1, <1>c DEF Launched
      <4>4. Settling' /\ abort'.task = active[i] => Settling /\ abort.task = active[i]
        BY <2>2 DEF Settling
      <4>5. \A t2 : t2 = active[i] => Keeps(t2)'
        BY <4>1, <4>3, <4>4, <2>2, <1>b, KeepsOn
      <4> QED BY <4>5, <3>1, <3>3
    <3> QED BY <3>2, <3>3
  <2> QED BY <2>3, <2>4
<1>5. ASSUME AbortCancel PROVE Held'
  <2>1. /\ ~stopping /\ handoff # i /\ row[i] = "processing" /\ faults' = faults
        /\ active' = active /\ Settling /\ ~Settling'
    BY <1>5, <1>d DEF AbortCancel, Settling, NoAbort
  <2>2. Held
    BY <2>1 DEF Kept, Running
  <2>3. CASE active[i] = None
    BY <2>1, <2>2, <2>3
  <2>4. CASE active[i] # None
    <3>1. Keeps(active[i]) /\ active[i] \in Tasks /\ abort.task # active[i]
      BY <2>1, <2>2, <2>4, EntryIs DEF Keeps
    <3>2. task'[active[i]] = task[active[i]]
      BY <3>1, <1>5 DEF AbortCancel
    <3>3. \A t2 : t2 = active[i] => Keeps(t2)'
      BY <3>1, <3>2, <2>1, <1>b, KeepsOn
    <3> QED BY <3>3, <2>1, <2>4
  <2> QED BY <2>3, <2>4
<1>6. ASSUME Stop PROVE Held'
  BY <1>6 DEF Stop
<1>7. ASSUME Restart PROVE Held'
  BY <1>7, <1>b, <1>d DEF Restart, WriteIfRunning
<1>8. ASSUME UNCHANGED vars PROVE Held'
  <2>1. /\ ~stopping /\ handoff # i /\ row[i] = "processing" /\ faults' = faults
        /\ active' = active /\ abort' = abort /\ task' = task
    BY <1>8, <1>d DEF vars
  <2>2. Held
    BY <2>1 DEF Kept, Running
  <2>3. \A t : Keeps(t) => Keeps(t)'
    BY <2>1 DEF Keeps, Settling
  <2> QED BY <2>1, <2>2, <2>3
<1> QED BY <1>1, <1>2, <1>3, <1>4, <1>5, <1>6, <1>7, <1>8 DEF Next, Loop, AbortStep, Aside

\* So the invariant holds throughout.
LEMMA Inductive == Spec => []IInv
<1>1. Init => IInv
  <2>1. Init => Kept
    BY DEF Init, Kept, Running
  <2> QED BY <2>1, ShapeInit DEF IInv
<1>2. IInv /\ [Next]_vars => IInv'
  BY ShapeStep, KeptStep DEF IInv
<1> QED BY <1>1, <1>2, PTL DEF Spec

\* THEOREM: rows, tasks, the registry and the abort request keep their types: an
\* entry of the registry is a task of that row, whatever ids are used again.
THEOREM TypeCorrect == Spec => []TypeOK
  BY Inductive, PTL DEF IInv, Shape

\* THEOREM: outside a shutdown, while at most one commit or load has failed, a row
\* that says it is running has a task that will still write or read it: for any
\* number of jobs at once, of ids used again, and of calls left behind.
THEOREM OneFailureStrandsNothing == Spec => [](faults <= 1 => NoStrandedRow)
<1>1. IInv => (faults <= 1 => NoStrandedRow)
  <2> SUFFICES ASSUME IInv, faults <= 1, ~stopping, NEW i \in Ids, Running(i), handoff # i
               PROVE  HasTask(i)
    BY DEF NoStrandedRow
  <2>1. faults \in Nat
    BY ShapeIs DEF IInv, RestFits
  <2>2. active[i] # None /\ Keeps(active[i])
    BY <2>1 DEF IInv, Kept
  <2>3. active[i] \in Tasks /\ task[active[i]].id = i /\ TaskFits(task[active[i]])
    BY <2>2, EntryIs DEF IInv
  <2>4. task[active[i]].at # "done"
    BY <2>1, <2>2 DEF Keeps
  <2>5. task[active[i]].at # "idle"
    BY <2>3, MarksAreNoIds DEF TaskFits
  <2> QED BY <2>3, <2>4, <2>5 DEF HasTask, Going
<1> QED BY <1>1, Inductive, PTL

\* THEOREM: with the bound the run has, no row is ever stranded.
THEOREM NothingStranded ==
    ASSUME MaxFaults <= 1
    PROVE  Spec => []NoStrandedRow
<1>1. IInv => faults <= 1
  BY ShapeIs, BoundsNatural DEF IInv, RestFits
<1>2. [](IInv => faults <= 1)
  BY <1>1, PTL
<1> QED BY <1>2, Inductive, OneFailureStrandsNothing, PTL

-----------------------------------------------------------------------------
(* One job at a time                                                       *)

\* What a call returned says which call it was.
ThenFits(t) ==
    /\ task[t].then = "run" => task[t].at = "load"
    /\ task[t].then = "requeue" => task[t].at = "completeCut"
    /\ task[t].then \in {"none", "run", "post", "requeue", "report", "done"}

\* A task is its id's entry, nothing is claimed beside an entry, and a row that
\* the request in progress has settled does not run again while its task is there.
Sole ==
    /\ \A t \in Tasks : task[t].at # "idle" => active[task[t].id] = t
    /\ handoff # None => \A i \in Ids : active[i] = None
    /\ Settling /\ task[abort.task].id # None => ~Running(abort.id)

\* A task whose job has replaced the file is past the run, and comes to put its
\* row back only when the outcome has been written or cannot be.
Past(t) ==
    task[t].id \in changed =>
        /\ task[t].at \notin {"load", "run", "unwind", "finish", "changed"}
        /\ (\/ task[t].at = "requeue"
            \/ task[t].at = "completeCut" /\ (task[t].then # "none" \/ task[t].cancel)
            \/ task[t].at = "complete" /\ task[t].then # "none")
           => ~Running(task[t].id) \/ faults >= 2

OneAtATime ==
    /\ Sole
    /\ handoff \notin changed
    /\ \A t \in Tasks : ThenFits(t) /\ Past(t)

\* Nothing is there at start-up.
LEMMA OneAtATimeInit == Init => OneAtATime
BY DEF Init, OneAtATime, Sole, Past, ThenFits, Settling, NoAbort, Fresh

\* A task or registry entry beside a claim there is none.
LEMMA NobodyBeside ==
    ASSUME Shape, OneAtATime, handoff # None, NEW t \in Tasks
    PROVE  task[t].at = "idle" /\ task[t].id = None
<1>1. TaskFits(task[t]) /\ task[t].id \in Ids \cup {None}
  BY ShapeIs DEF TasksFit, TaskRecord
<1>2. ASSUME task[t].at # "idle" PROVE FALSE
  <2>1. active[task[t].id] = t /\ task[t].id \in Ids
    BY <1>1, <1>2 DEF OneAtATime, Sole, TaskFits
  <2> QED BY <2>1, MarksAreNoIds DEF OneAtATime, Sole
<1> QED BY <1>1, <1>2 DEF TaskFits

\* A task that did not move, when no row has started to run.
LEMMA PastOn ==
    ASSUME NEW u, Past(u), task'[u] = task[u],
           task[u].id \in changed' => task[u].id \in changed,
           row'[task[u].id] = "processing" => row[task[u].id] = "processing",
           faults \in Nat, faults' \in Nat, faults' >= faults
    PROVE  Past(u)'
<1>1. task'[u].id = task[u].id /\ task'[u].at = task[u].at /\ task'[u].then = task[u].then
      /\ task'[u].cancel = task[u].cancel
  OBVIOUS
<1>2. faults >= 2 => faults' >= 2
  OBVIOUS
<1>3. Running(task[u].id)' => Running(task[u].id)
  BY <1>1 DEF Running
<1> QED BY <1>1, <1>2, <1>3 DEF Past

\* The steps of the task itself.
LEMMA TaskKeepsPast ==
    ASSUME Shape, OneAtATime, NEW t \in Tasks, TaskStep(t) \/ CallCommits(t)
    PROVE  ThenFits(t)' /\ Past(t)'
<1>a. /\ RestFits /\ TaskFits(task[t]) /\ task[t] \in TaskRecord
      /\ task \in [Tasks -> TaskRecord]
      /\ task[t].at # "idle" => task[t].id \in Ids
  BY ShapeIs DEF TasksFit, TaskFits, TaskRecord
<1>b. faults \in Nat /\ faults' \in Nat /\ faults' >= faults
      /\ (\A j \in Ids : row'[j] = "processing" => row[j] = "processing")
  BY TaskRows
<1>c. ThenFits(t) /\ Past(t)
  BY DEF OneAtATime
<1>d. task'[t].id = task[t].id
  BY TaskStepsMove DEF Moves
<1>1. ASSUME Resumes(t) PROVE ThenFits(t)' /\ Past(t)'
  <2>1. task[t].then # "none" /\ task[t].then # "idle" /\ task[t].at \in Calls
    BY <1>1, <1>a DEF Resumes, TaskFits
  <2>2. /\ task'[t].at = task[t].then /\ task'[t].then = "none" /\ ~task'[t].cancel
        /\ changed' = changed
    BY <2>1, <1>1, <1>c, ToMoves DEF Resumes, Steps, Calls, ThenFits
  <2>3. ThenFits(t)'
    BY <2>2 DEF ThenFits
  <2>4. task[t].then = "requeue" /\ task[t].id \in changed => row'[task[t].id] # "processing" \/ faults' >= 2
    <3> SUFFICES ASSUME task[t].then = "requeue", task[t].id \in changed
                 PROVE  row'[task[t].id] # "processing" \/ faults' >= 2
      OBVIOUS
    <3>1. ~Running(task[t].id) \/ faults >= 2
      BY <1>c DEF ThenFits, Past
    <3>2. row'[task[t].id] = "processing" => row[task[t].id] = "processing"
      BY <2>1, <1>a, <1>b DEF Calls
    <3>3. ~Running(task[t].id) => row'[task[t].id] # "processing"
      BY <3>2 DEF Running
    <3>4. faults >= 2 => faults' >= 2
      BY <1>b
    <3> QED BY <3>1, <3>3, <3>4, <1>d DEF Running
  <2>5. task[t].then = "run" => task[t].id \notin changed
    BY <1>c DEF ThenFits, Past
  <2>6. task'[t].at \in {"run", "post", "requeue", "report", "done"}
    BY <2>1, <2>2, <1>c DEF ThenFits
  <2>7. Running(task[t].id)' <=> row'[task[t].id] = "processing"
    BY <1>d DEF Running
  <2> QED BY <2>2, <2>3, <2>4, <2>5, <2>6, <2>7, <1>d DEF Past
<1>2. ASSUME EndRun(t) \/ Unwinds(t) PROVE ThenFits(t)' /\ Past(t)'
  <2>1. task[t].id \notin changed /\ changed' = changed
    BY <1>2, <1>c DEF EndRun, Unwinds, Past
  <2>2. task'[t].then = "none"
    BY <1>2, ToMoves DEF EndRun, Unwinds, Steps, Calls
  <2> QED BY <2>1, <2>2, <1>d DEF Past, ThenFits
<1>3. ASSUME Swap(t) PROVE ThenFits(t)' /\ Past(t)'
  <2>1. task'[t].at = "complete" /\ task'[t].then = "none"
    BY <1>3, ToMoves DEF Swap, Steps, Calls
  <2> QED BY <2>1 DEF Past, ThenFits
<1>4. ASSUME ReadOutcome(t) PROVE ThenFits(t)' /\ Past(t)'
  <2>1. \E step \in {"done", "emergency", "report"} : To(t, step)
    BY <1>4 DEF ReadOutcome
  <2>2. task'[t].at \in {"done", "emergency", "report"} /\ task'[t].then = "none"
    BY <2>1, <1>4, ToMoves DEF ReadOutcome, Steps, Calls
  <2> QED BY <2>2 DEF Past, ThenFits
<1>5. ASSUME Report(t) PROVE ThenFits(t)' /\ Past(t)'
  <2>1. task'[t].at = "done" /\ task'[t].then = task[t].then /\ task[t].at = "report"
    BY <1>5, <1>a DEF Report, TaskRecord
  <2>2. task[t].then = "none"
    BY <2>1, <1>a DEF TaskFits, Calls
  <2> QED BY <2>1, <2>2 DEF Past, ThenFits
<1>6. ASSUME CancelDelivered(t) PROVE ThenFits(t)' /\ Past(t)'
  <2>a. /\ task[t].cancel /\ changed' = changed /\ row' = row /\ faults' = faults
        /\ task[t].at \in Steps \ {"idle", "done"}
    BY <1>6, <1>a DEF CancelDelivered, worker, table, TaskFits, TaskRecord
  <2>b. Running(task[t].id)' <=> Running(task[t].id)
    BY <2>a, <1>d DEF Running
  <2>1. CASE task[t].at = "complete"
    <3>1. /\ task'[t].at = "completeCut" /\ ~task'[t].cancel
          /\ task'[t].then = IF task[t].then = "none" THEN "none" ELSE "requeue"
      BY <1>6, <2>1, <1>a DEF CancelDelivered, TaskRecord
    <3>2. ThenFits(t)'
      BY <3>1 DEF ThenFits
    <3>3. task[t].id \in changed /\ task'[t].then # "none" => ~Running(task[t].id) \/ faults >= 2
      BY <3>1, <2>1, <1>c DEF Past
    <3>4. Past(t)'
      BY <3>1, <3>3, <2>a, <2>b, <1>d DEF Past
    <3> QED BY <3>2, <3>4
  <2>2. CASE task[t].at = "completeCut"
    <3>1. task'[t].at = "requeue" /\ ~task'[t].cancel /\ task'[t].then = "none"
      BY <1>6, <2>2, <1>a DEF CancelDelivered, TaskRecord, Cut
    <3>2. task[t].id \in changed => ~Running(task[t].id) \/ faults >= 2
      BY <2>2, <2>a, <1>c DEF Past
    <3> QED BY <3>1, <3>2, <2>a, <2>b, <1>d DEF Past, ThenFits
  <2>3. CASE task[t].at \notin {"complete", "completeCut"}
    <3>1. task'[t].at = Cut[task[t].at] /\ ~task'[t].cancel /\ task'[t].then = "none"
      BY <1>6, <2>3, <1>a DEF CancelDelivered, TaskRecord
    <3>2. ThenFits(t)'
      BY <3>1 DEF ThenFits
    <3>3. CASE task[t].at \in {"load", "run", "unwind", "finish", "changed"}
      BY <3>2, <3>3, <2>a, <1>c, <1>d DEF Past
    <3>4. CASE task[t].at \in {"requeue", "post", "emergency", "report"}
      <4>1. task'[t].at = "done"
        BY <3>1, <3>4 DEF Cut
      <4> QED BY <4>1, <3>2 DEF Past
    <3> QED BY <3>2, <3>3, <3>4, <2>a, <2>3 DEF Steps, Calls
  <2> QED BY <2>1, <2>2, <2>3
<1>7. ASSUME CallCommits(t) PROVE ThenFits(t)' /\ Past(t)'
  <2>1. PICK o \in Outcomes(task[t].at, task[t].id) :
          Commit(o) /\ task' = [task EXCEPT ![t] = [task[t] EXCEPT !.then = o.then]]
    BY <1>7 DEF CallCommits
  <2>2. task[t].at \in Calls /\ task[t].id \in Ids /\ task[t].then = "none" /\ changed' = changed
    BY <1>7, <1>a DEF CallCommits, Calls
  <2>3. /\ Fits(o, task[t].id)
        /\ o.then \in {"run", "post", "requeue", "report", "done"}
        /\ o.then = "run" => task[t].at = "load"
        /\ o.then = "requeue" => task[t].at = "completeCut"
        /\ task[t].at \in {"complete", "completeCut"} /\ o.row[task[t].id] = "processing"
             => o.failed = 2
    BY <2>2, <1>a, OutcomesFit DEF RestFits
  <2>4. task'[t].at = task[t].at /\ task'[t].then = o.then /\ task'[t].cancel = task[t].cancel
    BY <2>1, <1>a DEF TaskRecord
  <2>5. ThenFits(t)'
    BY <2>3, <2>4 DEF ThenFits
  <2>6. faults' = faults + o.failed /\ row' = o.row
    BY <2>1 DEF Commit
  <2>7. task[t].at \in {"complete", "completeCut"} => row'[task[t].id] # "processing" \/ faults' >= 2
    BY <2>3, <2>6, <1>b, <1>d DEF Running
  <2>8. task[t].at = "requeue" /\ task[t].id \in changed => row'[task[t].id] # "processing" \/ faults' >= 2
    <3> SUFFICES ASSUME task[t].at = "requeue", task[t].id \in changed
                 PROVE  row'[task[t].id] # "processing" \/ faults' >= 2
      OBVIOUS
    <3>1. ~Running(task[t].id) \/ faults >= 2
      BY <1>c DEF Past
    <3>2. ~Running(task[t].id) => row'[task[t].id] # "processing"
      BY <2>2, <1>b DEF Running
    <3>3. faults >= 2 => faults' >= 2
      BY <1>b
    <3> QED BY <3>1, <3>2, <3>3, <1>d DEF Running
  <2>9. task[t].id \in changed => task[t].at \notin {"load", "run", "unwind", "finish", "changed"}
    BY <1>c DEF Past
  <2>10. Running(task[t].id)' <=> row'[task[t].id] = "processing"
    BY <1>d DEF Running
  <2> QED BY <2>2, <2>4, <2>5, <2>7, <2>8, <2>9, <2>10, <1>d DEF Past
<1> QED BY <1>1, <1>2, <1>3, <1>4, <1>5, <1>6, <1>7 DEF TaskStep

\* The registry is empty when nothing is counted in it.
LEMMA NoEntries ==
    ASSUME active \in [Ids -> Tasks \cup {None}], Entries < 1
    PROVE  \A i \in Ids : active[i] = None
<1>1. IsFiniteSet(Ids)
  BY MaxIdPositive, FS_Interval DEF Ids
<1> DEFINE E == {i \in Ids : active[i] # None}
<1>2. IsFiniteSet(E) /\ Cardinality(E) \in Nat
  BY <1>1, FS_Subset, FS_CardinalityType
<1>3. Cardinality(E) = 0
  BY <1>2 DEF Entries
<1>4. E = {}
  BY <1>2, <1>3, FS_EmptySet
<1> QED BY <1>4

\* Every step keeps jobs apart when one runs at a time.
LEMMA OneAtATimeStep ==
    ASSUME MaxJobs = 1, IInv, OneAtATime, [Next]_vars
    PROVE  OneAtATime'
<1>a. Shape /\ RestFits /\ TasksFit /\ EntriesFit /\ AbortFits
  BY ShapeIs DEF IInv
<1>b. /\ faults \in Nat /\ active \in [Ids -> Tasks \cup {None}] /\ row \in [Ids -> Statuses]
      /\ changed \subseteq Ids
  BY <1>a DEF RestFits
<1>c. None \notin Tasks \cup Ids /\ Asking \notin Ids /\ Asking # None
  BY MarksAreNoIds
<1>e. \A u \in Tasks : TaskFits(task[u]) /\ task[u].id \in Ids \cup {None}
  BY <1>a DEF TasksFit, TaskRecord
<1>f. Sole /\ handoff \notin changed /\ \A u \in Tasks : ThenFits(u) /\ Past(u)
  BY DEF OneAtATime
<1>1. ASSUME NEW t \in Tasks, CallCommits(t) \/ TaskStep(t) PROVE OneAtATime'
  <2>1. /\ UNCHANGED <<active, abort, handoff, stopping>>
        /\ faults' \in Nat /\ faults' >= faults
        /\ \A j \in Ids : row'[j] = "processing" => row[j] = "processing"
    BY <1>1, <1>a, TaskRows
  <2>2. /\ \A u \in Tasks : task'[u].id = task[u].id /\ (u # t => task'[u] = task[u])
        /\ TaskFits(task'[t])
    BY <1>1, <1>a, TaskStepsMove DEF Moves
  <2>3. \A u \in Tasks : task'[u].at # "idle" => task[u].at # "idle"
    BY <2>2, <1>e DEF TaskFits
  <2>4. Sole'
    <3>1. \A u \in Tasks : task'[u].at # "idle" => active'[task'[u].id] = u
      BY <2>1, <2>2, <2>3, <1>f DEF Sole
    <3>2. handoff' # None => \A i \in Ids : active'[i] = None
      BY <2>1, <1>f DEF Sole
    <3>3. ASSUME Settling', task'[abort'.task].id # None PROVE row'[abort'.id] # "processing"
      <4>1. Settling /\ abort' = abort /\ abort.id \in Ids /\ abort.task \in Tasks
        BY <3>3, <2>1, <1>a DEF Settling, AbortFits
      <4>2. task[abort.task].id # None
        BY <3>3, <4>1, <2>2
      <4> QED BY <4>1, <4>2, <2>1, <1>f DEF Sole, Running
    <3> QED BY <3>1, <3>2, <3>3 DEF Sole, Running
  <2>5. \A i : i \in changed' => i \in changed \/ (i = task[t].id /\ active[i] = t /\ handoff # i)
    <3>1. changed' = changed \/ Swap(t)
      BY <1>1 DEF TaskStep, Resumes, EndRun, Unwinds, ReadOutcome, Report, CancelDelivered,
         CallCommits
    <3> QED BY <3>1 DEF Swap
  <2>6. handoff' \notin changed'
    BY <2>1, <2>5, <1>f
  <2>7. ASSUME NEW u \in Tasks PROVE ThenFits(u)' /\ Past(u)'
    <3>1. CASE u = t
      BY <3>1, <1>1, <1>a, TaskKeepsPast
    <3>2. CASE u # t
      <4>1. task'[u] = task[u]
        BY <3>2, <2>2
      <4>2. task[u].id \in changed' => task[u].id \in changed /\ task[u].id \in Ids
        <5> SUFFICES ASSUME task[u].id \in changed', task[u].id \notin changed PROVE FALSE
          BY <1>b
        <5>1. active[task[u].id] = t /\ task[u].id = task[t].id /\ task[u].id \in Ids \cup {None}
          BY <2>5, <1>e
        <5>2. task[t].id = None
          BY <5>1, <3>2, <1>e, <1>f DEF Sole, TaskFits
        <5>3. ~Swap(t)
          BY <5>2, <1>e DEF Swap, TaskFits
        <5> QED BY <5>3, <1>1 DEF TaskStep, Resumes, EndRun, Unwinds, ReadOutcome, Report,
               CancelDelivered, CallCommits
      <4>3. ThenFits(u)'
        BY <4>1, <1>f DEF ThenFits
      <4>4. CASE task[u].id \in Ids
        BY <4>1, <4>2, <4>3, <4>4, <2>1, <1>b, <1>f, PastOn
      <4>5. CASE task[u].id \notin Ids
        BY <4>1, <4>2, <4>3, <4>5 DEF Past
      <4> QED BY <4>3, <4>4, <4>2, <4>5
    <3> QED BY <3>1, <3>2
  <2> QED BY <2>4, <2>6, <2>7 DEF OneAtATime
<1>2. ASSUME Aside PROVE OneAtATime'
  <2>1. task' = task /\ active' = active
    BY <1>2 DEF Aside, AskForJob, ClaimRow, EndPass, LeftCommits, worker, AbortRead, AbortMark,
       Request, AbortFind, Retry, DropRecord, QueueFile, Pause, Resume, others
  <2>2. faults' \in Nat /\ faults' >= faults
    BY <1>2, <1>a, <1>b, RowsFit
  <2>3. changed' \subseteq changed
    BY <1>2 DEF Aside, AskForJob, ClaimRow, EndPass, LeftCommits, worker, AbortRead, AbortMark,
       Request, AbortFind, Retry, DropRecord, QueueFile, Pause, Resume, others
  <2>4. ASSUME ClaimRow PROVE OneAtATime'
    <3>1. \A u \in Tasks : task[u].at = "idle" /\ task[u].id = None
      BY <2>4, <1>a, <1>c, NobodyBeside DEF ClaimRow
    <3>2. \A i \in Ids : active[i] = None
      BY <2>4, <1>c, <1>f DEF ClaimRow, Sole
    <3>3. handoff' \notin changed'
      BY <2>4, <1>b, <1>c DEF ClaimRow
    <3>4. Settling => abort.task \in Tasks
      BY <1>a DEF Settling, AbortFits
    <3>5. Sole'
      <4>1. abort' = abort
        BY <2>4 DEF ClaimRow
      <4>2. ~(Settling' /\ task'[abort'.task].id # None)
        BY <4>1, <3>1, <3>4, <2>1 DEF Settling
      <4> QED BY <4>2, <3>1, <3>2, <2>1 DEF Sole
    <3>6. \A u \in Tasks : ThenFits(u)' /\ Past(u)'
      <4>1. \A u \in Tasks : task'[u].id \notin changed'
        BY <3>1, <2>1, <2>3, <1>b, <1>c
      <4> QED BY <4>1, <2>1, <1>f DEF ThenFits, Past
    <3> QED BY <3>3, <3>5, <3>6 DEF OneAtATime
  <2>5. ASSUME ~ClaimRow PROVE OneAtATime'
    <3>1. \A j \in Ids : row'[j] = "processing" => row[j] = "processing"
      BY <2>5, <1>2, <1>a, RowsStop
    <3>2. \A u \in Tasks : ThenFits(u)' /\ Past(u)'
      <4> SUFFICES ASSUME NEW u \in Tasks PROVE ThenFits(u)' /\ Past(u)'
        OBVIOUS
      <4>1. ThenFits(u)'
        BY <2>1, <1>f DEF ThenFits
      <4>2. task'[u] = task[u] /\ (task[u].id \in changed' => task[u].id \in changed)
        BY <2>1, <2>3
      <4>3. CASE task[u].id \in Ids
        BY <4>1, <4>2, <4>3, <3>1, <2>2, <1>b, <1>f, PastOn
      <4>4. CASE task[u].id \notin Ids
        BY <4>1, <4>2, <4>4, <1>b DEF Past
      <4> QED BY <4>1, <4>3, <4>4
    <3>3. handoff' \notin changed' /\ (handoff' # None => \A i \in Ids : active'[i] = None)
      <4>1. CASE handoff' = handoff
        BY <4>1, <2>1, <2>3, <1>f DEF Sole
      <4>2. CASE AskForJob
        <5>1. Entries < 1
          BY <4>2 DEF AskForJob
        <5>2. \A i \in Ids : active[i] = None
          BY <5>1, <1>b, NoEntries
        <5> QED BY <4>2, <5>2, <2>1, <2>3, <1>b, <1>c DEF AskForJob
      <4>3. CASE EndPass
        BY <4>3, <2>3, <1>b, <1>c DEF EndPass
      <4>4. handoff' = handoff \/ AskForJob \/ EndPass
        BY <1>2, <2>5 DEF Aside, LeftCommits, worker, AbortRead, AbortMark,
           Request, AbortFind, Retry, DropRecord, QueueFile, Pause, Resume, others
      <4> QED BY <4>1, <4>2, <4>3, <4>4
    <3>4. ASSUME Settling', task'[abort'.task].id # None PROVE row'[abort'.id] # "processing"
      <4>1. CASE Settling /\ abort'.id = abort.id /\ abort'.task = abort.task
        <5>1. abort.id \in Ids /\ ~Running(abort.id)
          BY <4>1, <3>4, <2>1, <1>a, <1>f DEF Sole, Settling, AbortFits
        <5> QED BY <4>1, <5>1, <3>1 DEF Running
      <4>2. CASE AbortRead
        <5>1. row' = row /\ abort'.id = abort.id /\ abort'.seen = (row[abort.id] = "processing")
              /\ abort'.at = "read"
          BY <4>2, <1>a DEF AbortRead, RestFits, others
        <5> QED BY <5>1, <3>4 DEF Settling
      <4>3. CASE AbortMark
        <5>1. /\ abort'.id = abort.id /\ abort'.task = abort.task /\ abort.id \in Ids
              /\ abort.seen => row' = Write(row, abort.id, "cancelled")
              /\ abort.at = "read"
          BY <4>3, <3>4, <1>a DEF AbortMark, Settling, AbortFits, NoAbort
        <5>2. CASE abort.seen
          BY <5>1, <5>2, <1>b DEF Write
        <5>3. CASE ~abort.seen
          BY <5>1, <5>3, <4>1 DEF Settling
        <5> QED BY <5>2, <5>3
      <4>4. \/ abort' = abort \/ AbortRead \/ AbortMark
            \/ \E j \in Ids : AbortFind(j)
        BY <1>2, <2>5 DEF Aside, AskForJob, EndPass, LeftCommits, Request,
           Retry, DropRecord, QueueFile, Pause, Resume
      <4>5. ASSUME NEW j \in Ids, AbortFind(j) PROVE FALSE
        BY <4>5, <3>4 DEF AbortFind, Settling
      <4>6. CASE abort' = abort
        BY <4>6, <4>1, <3>4 DEF Settling
      <4> QED BY <4>2, <4>3, <4>4, <4>5, <4>6
    <3>5. Sole'
      BY <2>1, <3>3, <3>4, <1>f DEF Sole, Running
    <3> QED BY <3>2, <3>3, <3>5 DEF OneAtATime
  <2> QED BY <2>4, <2>5
<1>3. ASSUME StartPass PROVE OneAtATime'
  <2>1. /\ handoff' = handoff /\ faults' = faults /\ abort' = abort /\ row' = row
        /\ changed' = changed
        /\ \A u \in Tasks : task'[u] = IF task[u].at = "done" THEN Fresh ELSE task[u]
        /\ \A i \in Ids : active'[i] = IF active[i] # None /\ task[active[i]].at = "done"
                                         THEN None ELSE active[i]
    BY <1>3 DEF StartPass
  <2>2. Fresh.at = "idle" /\ Fresh.id = None /\ Fresh.then = "none"
    BY DEF Fresh
  <2>3. ASSUME NEW u \in Tasks, task'[u].at # "idle" PROVE active'[task'[u].id] = u
    <3>1. task'[u] = task[u] /\ task[u].at # "done" /\ task[u].at # "idle"
      BY <2>1, <2>2, <2>3
    <3>2. active[task[u].id] = u /\ task[u].id \in Ids
      BY <3>1, <1>e, <1>f DEF Sole, TaskFits
    <3> QED BY <3>1, <3>2, <2>1
  <2>4. ASSUME Settling', task'[abort'.task].id # None PROVE row'[abort'.id] # "processing"
    <3>1. Settling /\ abort.task \in Tasks
      BY <2>1, <2>4, <1>a DEF Settling, AbortFits
    <3>2. task[abort.task].id # None
      BY <3>1, <2>1, <2>2, <2>4
    <3> QED BY <3>1, <3>2, <2>1, <1>f DEF Sole, Running
  <2>5. Sole'
    BY <2>1, <2>3, <2>4, <1>f DEF Sole, Running
  <2>6. \A u \in Tasks : ThenFits(u)' /\ Past(u)'
    <3> SUFFICES ASSUME NEW u \in Tasks PROVE ThenFits(u)' /\ Past(u)'
      OBVIOUS
    <3>1. CASE task'[u] = task[u]
      BY <3>1, <2>1, <1>f DEF ThenFits, Past, Running
    <3>2. CASE task'[u] = Fresh
      BY <3>2, <2>1, <2>2, <1>b, <1>c DEF ThenFits, Past
    <3> QED BY <3>1, <3>2, <2>1
  <2> QED BY <2>1, <2>5, <2>6, <1>f DEF OneAtATime
<1>4. ASSUME LaunchTask PROVE OneAtATime'
  <2>1. PICK t \in Tasks : task[t].at = "idle" /\ abort.task # t /\ Launched(t)
    BY <1>4 DEF LaunchTask
  <2>2. handoff \in Ids /\ handoff' = None /\ abort' = abort /\ changed' = changed
    BY <1>4 DEF LaunchTask
  <2>3. \A u \in Tasks : task[u].at = "idle" /\ task[u].id = None
    BY <2>2, <1>a, <1>c, NobodyBeside
  <2>4. /\ task'[t].at = "load" /\ task'[t].then = "none" /\ ~task'[t].cancel
        /\ task'[t].id = handoff /\ active'[handoff] = t
        /\ \A u \in Tasks \ {t} : task'[u] = task[u]
    BY <2>1, <2>2, <1>a, <1>b DEF Launched, TasksFit, Fresh
  <2>5. Sole'
    <3>1. ~(Settling' /\ task'[abort'.task].id # None)
      <4>1. Settling' => abort.task \in Tasks \ {t}
        BY <2>1, <2>2, <1>a DEF Settling, AbortFits
      <4> QED BY <4>1, <2>2, <2>3, <2>4
    <3> QED BY <3>1, <2>2, <2>3, <2>4 DEF Sole
  <2>6. \A u \in Tasks : ThenFits(u)' /\ Past(u)'
    <3>1. ThenFits(t)' /\ Past(t)'
      BY <2>2, <2>4, <1>f DEF ThenFits, Past
    <3>2. ASSUME NEW u \in Tasks \ {t} PROVE ThenFits(u)' /\ Past(u)'
      <4>1. task'[u] = task[u] /\ task'[u].id \notin changed'
        BY <2>2, <2>3, <2>4, <1>b, <1>c
      <4> QED BY <4>1, <1>f DEF ThenFits, Past
    <3> QED BY <3>1, <3>2
  <2> QED BY <2>2, <2>5, <2>6, <1>b, <1>c DEF OneAtATime
<1>5. ASSUME AbortCancel PROVE OneAtATime'
  <2>1. /\ handoff' = handoff /\ faults' = faults /\ row' = row /\ changed' = changed
        /\ active' = active /\ Settling /\ ~Settling'
    BY <1>5 DEF AbortCancel, Settling, NoAbort
  <2>2. abort.id \in Ids /\ abort.task \in Tasks /\ task[abort.task].id \in {abort.id, None}
    BY <1>5, <1>a DEF AbortCancel, AbortFits
  <2>3. \A u \in Tasks :
          /\ task'[u].id = task[u].id /\ task'[u].at = task[u].at /\ task'[u].then = task[u].then
          /\ task'[u].cancel # task[u].cancel => u = abort.task
    BY <1>5, <2>2, <1>a, <1>e DEF AbortCancel, TasksFit, TaskFits, TaskRecord
  <2>4. Sole'
    BY <2>1, <2>3, <1>f DEF Sole
  <2>5. ASSUME NEW u \in Tasks PROVE ThenFits(u)' /\ Past(u)'
    <3>1. ThenFits(u)'
      BY <2>3, <1>f DEF ThenFits
    <3>2. CASE u = abort.task
      <4>1. task[u].id # None => ~Running(task[u].id)
        BY <3>2, <2>1, <2>2, <1>f DEF Sole
      <4>2. task[u].id # None => row'[task'[u].id] # "processing"
        BY <4>1, <2>1, <2>3 DEF Running
      <4>3. task[u].id = None => task'[u].id \notin changed'
        BY <2>1, <2>3, <1>b, <1>c
      <4> QED BY <4>2, <4>3, <3>1, <2>1, <2>3, <1>f DEF Past, Running
    <3>3. CASE u # abort.task
      <4>1. task'[u].cancel = task[u].cancel
        BY <3>3, <2>3
      <4> QED BY <4>1, <3>1, <2>1, <2>3, <1>f DEF Past, Running
    <3> QED BY <3>2, <3>3
  <2> QED BY <2>1, <2>4, <2>5, <1>f DEF OneAtATime
<1>6. ASSUME Stop PROVE OneAtATime'
  <2>1. /\ ~stopping /\ handoff' \in {handoff, None} /\ faults' = faults /\ row' = row
        /\ changed' = changed /\ active' = active /\ abort' = abort
    BY <1>6, <1>a DEF Stop
  <2>2. ASSUME NEW u \in Tasks
        PROVE  /\ task'[u].id = task[u].id /\ task'[u].at = task[u].at
               /\ task'[u].then = task[u].then
    <3>1. task'[u] = task[u] \/ task'[u] = [task[u] EXCEPT !.cancel = TRUE]
      BY <1>6 DEF Stop
    <3>2. task[u] \in TaskRecord
      BY <1>e DEF TaskFits
    <3> QED BY <3>1, <3>2 DEF TaskRecord
  <2>3. Sole'
    <3>1. ASSUME Settling', task'[abort'.task].id # None PROVE row'[abort'.id] # "processing"
      <4>1. Settling /\ abort.task \in Tasks
        BY <2>1, <3>1, <1>a DEF Settling, AbortFits
      <4> QED BY <3>1, <4>1, <2>1, <2>2, <1>f DEF Sole, Running
    <3> QED BY <3>1, <2>1, <2>2, <1>f DEF Sole, Running
  <2>4. ASSUME NEW u \in Tasks PROVE ThenFits(u)' /\ Past(u)'
    <3>1. ThenFits(u)'
      BY <2>2, <1>f DEF ThenFits
    <3>2. ASSUME task[u].at = "completeCut" PROVE ~Running(task[u].id)
      <4>1. active[task[u].id] = u /\ task[u].id \in Ids
        BY <3>2, <1>e, <1>f DEF Sole, TaskFits
      <4>2. handoff = None
        BY <4>1, <1>c, <1>f DEF Sole
      <4>3. ~Keeps(u)
        BY <3>2 DEF Keeps
      <4> QED BY <4>1, <4>2, <4>3, <2>1, <1>c DEF IInv, Kept
    <3>3. row'[task'[u].id] = "processing" <=> Running(task[u].id)
      BY <2>1, <2>2 DEF Running
    <3>4. Past(u)'
      BY <3>2, <3>3, <2>1, <2>2, <1>f DEF Past, Running
    <3> QED BY <3>1, <3>4
  <2> QED BY <2>1, <2>3, <2>4, <1>b, <1>c, <1>f DEF OneAtATime
<1>7. ASSUME Restart PROVE OneAtATime'
  <2>1. /\ handoff' = None /\ ~Settling' /\ changed' = changed
        /\ \A u \in Tasks : task'[u].id = None /\ task'[u].at = "idle" /\ task'[u].then = "none"
    BY <1>7 DEF Restart, Settling, NoAbort, Fresh
  <2> QED BY <2>1, <1>b, <1>c DEF OneAtATime, Sole, ThenFits, Past
<1>8. ASSUME UNCHANGED vars PROVE OneAtATime'
  BY <1>8 DEF vars, OneAtATime, Sole, ThenFits, Past, Settling, Running
<1> QED BY <1>1, <1>2, <1>3, <1>4, <1>5, <1>6, <1>7, <1>8 DEF Next, Loop, AbortStep, Aside

\* THEOREM: with one job at a time and any one failure, a job that its task puts
\* back in the queue has not replaced the file, however it was aborted or stopped.
THEOREM PutBackIsSafe ==
    ASSUME MaxJobs = 1, MaxFaults <= 1
    PROVE  Spec => RequeueSafe
<1>1. Spec => []OneAtATime
  <2>1. IInv /\ OneAtATime /\ [Next]_vars => OneAtATime'
    BY OneAtATimeStep
  <2> QED BY <2>1, OneAtATimeInit, Inductive, PTL DEF Spec
<1>2. IInv /\ OneAtATime =>
        [\A t \in Tasks : PutsBack(t) => task[t].id \notin changed]_vars
  <2> SUFFICES ASSUME IInv, OneAtATime, NEW t \in Tasks, PutsBack(t), task[t].id \in changed
               PROVE  FALSE
    OBVIOUS
  <2>1. faults \in Nat /\ faults <= 1
    BY ShapeIs, BoundsNatural DEF IInv, RestFits
  <2>2. faults >= 2
    BY DEF OneAtATime, Past, PutsBack
  <2> QED BY <2>1, <2>2
<1> QED BY <1>1, <1>2, Inductive, PTL DEF RequeueSafe

=============================================================================
