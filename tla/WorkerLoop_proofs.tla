-------------------------- MODULE WorkerLoop_proofs --------------------------
(***************************************************************************)
(* WorkerLoop, proved for any files and any limit: the variables keep      *)
(* their types, the limit is respected (SlotsRespected), and the loop does *)
(* not pause itself under a running job (ManualRunFinishes).               *)
(*                                                                         *)
(* What is counted is not what runs.  total_active is taken once a pass    *)
(* from active_tasks, which keeps jobs that have ended, while jobs and     *)
(* forge runs end and the claimed job is not yet among the tasks.  The     *)
(* invariant says that at each step the count is no lower than what runs.  *)
(***************************************************************************)
EXTENDS WorkerLoop, FiniteSetTheorems, TLAPS

\* The files whose job runs, and the forge task as the loop counts it.
Busy == {f \in Files : job[f] = "processing"}
ForgeCounts == IF forgeTask = "none" THEN 0 ELSE 1
ForgeRuns == IF forgeTask \in {"claiming", "running"} THEN 1 ELSE 0

\* A job that runs is a task or has just been claimed.
BusyKnown ==
    /\ IsFiniteSet(active)
    /\ Busy \subseteq active \cup {picked}
    /\ picked # None => picked \in Busy

\* What the pass has counted covers what runs; before it has counted, what is
\* left of the tasks fits.
Counted ==
    /\ pc = "look" => Cardinality(active) + ForgeCounts <= MaxJobs
    /\ pc \in {"forge", "claim", "end"} => Cardinality(Busy) + ForgeCounts <= total
    /\ pc = "launch" => total < MaxJobs /\ Cardinality(Busy) + ForgeCounts <= total + 1
    /\ pc = "forge" => total < MaxJobs /\ forgeTask = "none"

IInv == TypeOK /\ BusyKnown /\ Counted /\ SlotsRespected

-----------------------------------------------------------------------------
(* Counting                                                                *)

\* Fewer files are no more to count, and one file more is one more at most.
LEMMA Counting ==
    ASSUME NEW S, IsFiniteSet(S)
    PROVE  /\ Cardinality(S) \in Nat
           /\ \A T \in SUBSET S : IsFiniteSet(T) /\ Cardinality(T) <= Cardinality(S)
                                  /\ Cardinality(T) \in Nat
           /\ \A x : /\ IsFiniteSet(S \cup {x})
                     /\ Cardinality(S \cup {x}) <= Cardinality(S) + 1
                     /\ Cardinality(S \cup {x}) \in Nat
<1>1. \A T \in SUBSET S : IsFiniteSet(T) /\ Cardinality(T) <= Cardinality(S)
  BY FS_Subset
<1>2. \A x : IsFiniteSet(S \cup {x})
             /\ (Cardinality(S \cup {x}) = IF x \in S THEN Cardinality(S)
                                                      ELSE Cardinality(S) + 1)
  BY FS_AddElement
<1>3. \A T : IsFiniteSet(T) => Cardinality(T) \in Nat
  BY FS_CardinalityType
<1>4. \A x : Cardinality(S \cup {x}) <= Cardinality(S) + 1
  <2> TAKE x
  <2>1. Cardinality(S \cup {x}) = Cardinality(S) \/ Cardinality(S \cup {x}) = Cardinality(S) + 1
    BY <1>2
  <2>2. Cardinality(S) \in Nat
    BY <1>3
  <2> QED BY <2>1, <2>2
<1> QED BY <1>1, <1>2, <1>3, <1>4

\* The jobs that run are finitely many.
LEMMA BusyFinite ==
    ASSUME BusyKnown
    PROVE  /\ IsFiniteSet(Busy) /\ Cardinality(Busy) \in Nat
           /\ IsFiniteSet(active) /\ Cardinality(active) \in Nat
<1>1. IsFiniteSet(active \cup {picked})
  BY Counting DEF BusyKnown
<1>2. Busy \in SUBSET (active \cup {picked})
  BY DEF BusyKnown
<1> QED BY <1>1, <1>2, Counting DEF BusyKnown

\* SlotsRespected, in the words of this module.
LEMMA InUseIs == InUse = Cardinality(Busy) + ForgeRuns
  BY DEF InUse, Busy, ForgeRuns

-----------------------------------------------------------------------------
(* The invariant                                                           *)

\* Nothing runs and nothing is counted at start-up.
LEMMA InvInit == Init => IInv
<1> SUFFICES ASSUME Init PROVE IInv
  OBVIOUS
<1>1. Busy = {} /\ active = {} /\ IsFiniteSet(active)
  BY FS_EmptySet DEF Init, Busy
<1>2. Cardinality(Busy) = 0
  BY <1>1, FS_EmptySet
<1>3. TypeOK
  BY FilesGiven, MaxJobsPositive DEF Init, TypeOK, States, Steps
<1>4. BusyKnown /\ Counted
  BY <1>1 DEF Init, BusyKnown, Counted
<1>5. SlotsRespected
  BY <1>2, InUseIs, MaxJobsPositive DEF Init, SlotsRespected, ForgeRuns
<1> QED BY <1>3, <1>4, <1>5 DEF IInv

\* A step of somebody else claims no job and takes no slot.
Bystanding ==
    /\ UNCHANGED <<active, pc, picked, total>>
    /\ Busy' \subseteq Busy /\ (picked # None => picked \in Busy')
    /\ \/ forgeTask' = forgeTask
       \/ forgeTask = "claiming" /\ forgeTask' \in {"running", "done"}
       \/ forgeTask = "running" /\ forgeTask' = "done"

\* What ends no earlier than it is counted: a step that leaves the loop's own
\* variables alone and starts no job keeps the invariant.
LEMMA BystandingKeeps ==
    ASSUME IInv, Bystanding
    PROVE  BusyKnown' /\ Counted' /\ SlotsRespected'
<1> USE DEF IInv
<1>1. Cardinality(Busy') <= Cardinality(Busy) /\ Cardinality(Busy') \in Nat
      /\ Cardinality(Busy) \in Nat
  BY BusyFinite, Counting DEF Bystanding
<1>2. ForgeCounts' = ForgeCounts /\ ForgeRuns' <= ForgeRuns
      /\ ForgeRuns \in {0, 1} /\ ForgeRuns' \in {0, 1} /\ ForgeCounts \in {0, 1}
  BY DEF Bystanding, ForgeCounts, ForgeRuns
<1>3. BusyKnown'
  BY DEF BusyKnown, Bystanding
<1>4. Counted'
  <2>1. total \in Nat /\ MaxJobs \in Nat
    BY MaxJobsPositive DEF TypeOK
  <2>2. pc' = pc /\ total' = total /\ active' = active
    BY DEF Bystanding
  <2>3. (forgeTask = "none") => (forgeTask' = "none")
    BY DEF Bystanding
  <2> QED BY <1>1, <1>2, <2>1, <2>2, <2>3 DEF Counted
<1>5. SlotsRespected'
  <2>1. InUse' = Cardinality(Busy') + ForgeRuns'
    BY InUseIs DEF InUse, Busy, ForgeRuns
  <2> QED BY <1>1, <1>2, <2>1, InUseIs, MaxJobsPositive DEF SlotsRespected
<1> QED BY <1>3, <1>4, <1>5

\* Everything the loop does not do.
LEMMA OthersStandBy ==
    ASSUME IInv, Tasks \/ User \/ UNCHANGED vars
    PROVE  Bystanding /\ TypeOK'
<1> USE DEF IInv
<1>1. ASSUME ClaimForge PROVE Bystanding /\ TypeOK'
  BY <1>1 DEF ClaimForge, Bystanding, Busy, BusyKnown, TypeOK, States, Steps
<1>2. ASSUME FinishForge PROVE Bystanding /\ TypeOK'
  BY <1>2 DEF FinishForge, Bystanding, Busy, BusyKnown, TypeOK, States, Steps
<1>3. ASSUME NEW f \in Files, FinishJob(f) PROVE Bystanding /\ TypeOK'
  BY <1>3 DEF FinishJob, Bystanding, Busy, BusyKnown, TypeOK, States, Steps
<1>4. ASSUME NEW f \in JobFiles, QueueJob(f) PROVE Bystanding /\ TypeOK'
  BY <1>4, FilesGiven DEF QueueJob, Bystanding, Busy, BusyKnown, TypeOK, States, Steps, loop
<1>5. ASSUME NEW f \in ForgeFiles, QueueForge(f) PROVE Bystanding /\ TypeOK'
  BY <1>5, FilesGiven DEF QueueForge, Bystanding, Busy, BusyKnown, TypeOK, States, Steps, loop
<1>6. ASSUME NEW f \in Files, StartRevert(f) PROVE Bystanding /\ TypeOK'
  BY <1>6 DEF StartRevert, Bystanding, Busy, BusyKnown, TypeOK, States, Steps, loop
<1>7. ASSUME EndRevert \/ Pause \/ Resume \/ SetAutoStart PROVE Bystanding /\ TypeOK'
  BY <1>7 DEF EndRevert, Pause, Resume, SetAutoStart, tables, loop, Bystanding, Busy,
     BusyKnown, TypeOK, States, Steps
<1>8. ASSUME UNCHANGED vars PROVE Bystanding /\ TypeOK'
  BY <1>8 DEF vars, Bystanding, Busy, BusyKnown, TypeOK
<1> QED BY <1>1, <1>2, <1>3, <1>4, <1>5, <1>6, <1>7, <1>8 DEF Tasks, User

-----------------------------------------------------------------------------
(* The loop, step by step                                                  *)

\* The prune drops only files whose job has ended.
LEMMA PassKeeps ==
    ASSUME IInv, StartPass
    PROVE  IInv'
<1> USE DEF IInv
<1>1. TypeOK'
  BY DEF StartPass, tables, TypeOK, Steps
<1>2. Busy' = Busy /\ picked = None /\ picked' = None
  BY DEF StartPass, tables, TypeOK, Busy
<1>3. active' \subseteq Busy /\ Busy \subseteq active'
  BY <1>2, FilesGiven DEF StartPass, TypeOK, Busy, BusyKnown
<1>4. IsFiniteSet(Busy) /\ Cardinality(Busy) \in Nat
  BY BusyFinite
<1>5. active' = Busy
  BY <1>3
<1>6. BusyKnown'
  BY <1>2, <1>4, <1>5 DEF BusyKnown
<1>7. ForgeCounts' = ForgeRuns /\ ForgeRuns' = ForgeRuns
  BY DEF StartPass, ForgeCounts, ForgeRuns, TypeOK
<1>8. Counted'
  BY <1>5, <1>7, InUseIs DEF StartPass, Counted, SlotsRespected
<1>9. SlotsRespected'
  <2>1. InUse' = Cardinality(Busy') + ForgeRuns'
    BY InUseIs DEF InUse, Busy, ForgeRuns
  <2> QED BY <1>2, <1>7, <2>1, InUseIs DEF SlotsRespected
<1> QED BY <1>1, <1>6, <1>8, <1>9

\* A step of the loop that leaves the jobs alone.
LEMMA LookKeeps ==
    ASSUME IInv, Look
    PROVE  IInv'
<1> USE DEF IInv
<1>1. TypeOK /\ BusyKnown /\ pc = "look" /\ Cardinality(active) + ForgeCounts <= MaxJobs
  BY DEF Look, Counted
<1>2. /\ Busy' = Busy /\ picked' = picked /\ active' = active /\ picked = None
      /\ forgeTask' = forgeTask
  BY DEF Look, tables, TypeOK, Busy
<1>3. ForgeCounts \in {0, 1} /\ ForgeCounts' = ForgeCounts /\ ForgeRuns' = ForgeRuns
      /\ Running = Cardinality(active) + ForgeCounts
  BY <1>2 DEF ForgeCounts, ForgeRuns, Running
<1>4. Cardinality(Busy) <= Cardinality(active) /\ Cardinality(Busy) \in Nat
      /\ Cardinality(active) \in Nat /\ MaxJobs \in Nat
  <2>1. Busy \in SUBSET active
    BY <1>2, FilesGiven DEF BusyKnown, Busy
  <2> QED BY <2>1, BusyFinite, Counting, MaxJobsPositive DEF BusyKnown
<1>5. TypeOK'
  BY <1>1, <1>3, <1>4 DEF Look, tables, TypeOK, Steps
<1>6. BusyKnown'
  BY <1>2 DEF BusyKnown
<1>7. Counted'
  <2>1. CASE paused
    BY <2>1 DEF Look, Counted
  <2>2. CASE ~paused
    BY <2>2, <1>1, <1>2, <1>3, <1>4 DEF Look, Counted, ForgeCounts
  <2> QED BY <2>1, <2>2
<1>8. SlotsRespected'
  <2>1. InUse' = Cardinality(Busy') + ForgeRuns'
    BY InUseIs DEF InUse, Busy, ForgeRuns
  <2> QED BY <1>2, <1>3, <2>1, InUseIs DEF SlotsRespected
<1> QED BY <1>5, <1>6, <1>7, <1>8

\* Once counted, the count with what a step adds to it stays within the limit.
LEMMA CountedFits ==
    ASSUME TypeOK', Counted', BusyKnown', pc' \in {"forge", "claim", "end", "launch"}
    PROVE  SlotsRespected'
<1>1. InUse' = Cardinality(Busy') + ForgeRuns'
  BY InUseIs DEF InUse, Busy, ForgeRuns
<1>2. ForgeRuns' <= ForgeCounts' /\ ForgeRuns' \in {0, 1} /\ ForgeCounts' \in {0, 1}
  BY DEF ForgeRuns, ForgeCounts
<1>3. Cardinality(Busy') \in Nat
  <2>1. IsFiniteSet(active' \cup {picked'})
    BY Counting DEF BusyKnown
  <2>2. Busy' \in SUBSET (active' \cup {picked'})
    BY DEF BusyKnown
  <2> QED BY <2>1, <2>2, Counting
<1>4. Cardinality(Busy') + ForgeCounts' <= MaxJobs
  BY <1>2, <1>3, MaxJobsPositive DEF Counted, TypeOK
<1> QED BY <1>1, <1>2, <1>3, <1>4, MaxJobsPositive DEF SlotsRespected

\* The forge task takes its place in the count before it claims its job.
LEMMA ForgeAskedKeeps ==
    ASSUME IInv, AskForge
    PROVE  IInv'
<1> USE DEF IInv
<1>1. /\ Busy' = Busy /\ picked' = picked /\ active' = active /\ picked = None
      /\ forgeTask = "none" /\ total < MaxJobs /\ Cardinality(Busy) + ForgeCounts <= total
      /\ pc' = "claim"
  BY DEF AskForge, tables, TypeOK, Busy, Counted
<1>2. Cardinality(Busy) \in Nat /\ MaxJobs \in Nat /\ total \in Nat
  BY BusyFinite, MaxJobsPositive DEF TypeOK
<1>3. ForgeCounts = 0 /\ total' = total + ForgeCounts' /\ ForgeCounts' \in {0, 1}
  BY <1>1, <1>2 DEF AskForge, ForgeCounts
<1>4. TypeOK'
  <2>1. total' \in 0 .. MaxJobs
    <3>1. total < MaxJobs /\ (total' = total \/ total' = total + 1)
      BY <1>1, <1>2 DEF AskForge
    <3> QED BY <3>1, <1>2
  <2>2. forgeTask' \in {"none", "claiming", "running", "done"}
    BY DEF AskForge, TypeOK
  <2> QED BY <1>1, <2>1, <2>2 DEF AskForge, tables, TypeOK, Steps
<1>5. BusyKnown'
  BY <1>1 DEF BusyKnown
<1>6. Counted'
  BY <1>1, <1>2, <1>3 DEF Counted
<1> QED BY <1>1, <1>4, <1>5, <1>6, CountedFits

\* A claim puts one more job to run than the pass has counted.
LEMMA ClaimKeeps ==
    ASSUME IInv, ClaimJob
    PROVE  IInv'
<1> USE DEF IInv
<1>1. PICK f \in Files : /\ JobClaimable(f)
                         /\ job' = [job EXCEPT ![f] = "processing"]
                         /\ picked' = f
  BY DEF ClaimJob
<1>2. /\ Busy' = Busy \cup {f} /\ picked = None /\ active' = active
      /\ total' = total /\ total < MaxJobs /\ Cardinality(Busy) + ForgeCounts <= total
      /\ pc' = "launch" /\ forgeTask' = forgeTask /\ ForgeCounts' = ForgeCounts
  BY <1>1 DEF ClaimJob, TypeOK, Busy, Counted, ForgeCounts
<1>3. Cardinality(Busy) \in Nat /\ MaxJobs \in Nat /\ total \in Nat /\ IsFiniteSet(Busy)
  BY BusyFinite, MaxJobsPositive DEF TypeOK
<1>4. Cardinality(Busy') <= Cardinality(Busy) + 1 /\ Cardinality(Busy') \in Nat
  BY <1>2, <1>3, Counting
<1>5. TypeOK'
  BY <1>1, <1>2, FilesGiven DEF ClaimJob, TypeOK, Steps, States
<1>6. BusyKnown'
  BY <1>1, <1>2, FilesGiven DEF BusyKnown, Busy
<1>7. Counted'
  <2>1. ForgeCounts \in {0, 1}
    BY DEF ForgeCounts
  <2> QED BY <1>2, <1>3, <1>4, <2>1 DEF Counted
<1> QED BY <1>2, <1>5, <1>6, <1>7, CountedFits

\* The launch counts that job and makes it a task.
LEMMA LaunchKeeps ==
    ASSUME IInv, LaunchJob
    PROVE  IInv'
<1> USE DEF IInv
<1>1. /\ Busy' = Busy /\ picked # None /\ picked \in Files /\ picked' = None
      /\ active' = active \cup {picked}
      /\ total' = total + 1 /\ total < MaxJobs /\ Cardinality(Busy) + ForgeCounts <= total + 1
      /\ pc' = "claim" /\ ForgeCounts' = ForgeCounts
  BY DEF LaunchJob, tables, TypeOK, Busy, Counted, ForgeCounts
<1>2. MaxJobs \in Nat /\ total \in Nat
  BY MaxJobsPositive DEF TypeOK
<1>3. TypeOK'
  BY <1>1, <1>2 DEF LaunchJob, tables, TypeOK, Steps
<1>4. BusyKnown'
  BY <1>1, Counting DEF BusyKnown
<1>5. Counted'
  BY <1>1 DEF Counted
<1> QED BY <1>1, <1>3, <1>4, <1>5, CountedFits

\* The end of the claims changes nothing that is counted.
LEMMA StopClaimingKeeps ==
    ASSUME IInv, StopClaiming
    PROVE  IInv'
<1> USE DEF IInv
<1>1. /\ Busy' = Busy /\ picked' = picked /\ active' = active /\ total' = total
      /\ Cardinality(Busy) + ForgeCounts <= total
      /\ pc' = "end" /\ ForgeCounts' = ForgeCounts
  BY DEF StopClaiming, tables, TypeOK, Busy, Counted, ForgeCounts
<1>2. TypeOK'
  BY <1>1 DEF StopClaiming, tables, TypeOK, Steps
<1>3. BusyKnown'
  BY <1>1 DEF BusyKnown
<1>4. Counted'
  BY <1>1 DEF Counted
<1> QED BY <1>1, <1>2, <1>3, <1>4, CountedFits

\* The end of the pass is the one place where the loop pauses itself.
LEMMA EndKeeps ==
    ASSUME IInv, EndPass
    PROVE  IInv'
<1> USE DEF IInv
<1>1. /\ Busy' = Busy /\ picked' = picked /\ active' = active /\ pc' = "pass"
      /\ ForgeRuns' = ForgeRuns
  BY DEF EndPass, tables, TypeOK, Busy, ForgeRuns
<1>2. TypeOK'
  BY <1>1 DEF EndPass, tables, TypeOK, Steps
<1>3. BusyKnown' /\ Counted'
  BY <1>1 DEF BusyKnown, Counted
<1>4. SlotsRespected'
  <2>1. InUse' = Cardinality(Busy') + ForgeRuns'
    BY InUseIs DEF InUse, Busy, ForgeRuns
  <2> QED BY <1>1, <2>1, InUseIs DEF SlotsRespected
<1> QED BY <1>2, <1>3, <1>4

\* Every step keeps the invariant.
LEMMA InvStep == IInv /\ [Next]_vars => IInv'
<1> SUFFICES ASSUME IInv, [Next]_vars PROVE IInv'
  OBVIOUS
<1>1. ASSUME Tasks \/ User \/ UNCHANGED vars PROVE IInv'
  BY <1>1, OthersStandBy, BystandingKeeps DEF IInv
<1>2. ASSUME Loop PROVE IInv'
  BY <1>2, PassKeeps, LookKeeps, ForgeAskedKeeps, ClaimKeeps, LaunchKeeps,
     StopClaimingKeeps, EndKeeps DEF Loop
<1> QED BY <1>1, <1>2 DEF Next

\* So it holds throughout.
LEMMA Inductive == Spec => []IInv
  BY InvInit, InvStep, PTL DEF Spec

\* THEOREM: every variable of the loop has its type; the count stays within the
\* limit, and a job is between its claim and its launch only in that step.
THEOREM TypeCorrect == Spec => []TypeOK
  BY Inductive, PTL DEF IInv

\* THEOREM: queue jobs and the forge run never take more than max_concurrent_jobs
\* slots together, whatever ends, is queued or is switched during a pass.
THEOREM SlotsKept == Spec => []SlotsRespected
  BY Inductive, PTL DEF IInv

\* THEOREM: the loop pauses itself at the end of a manual run only when neither a
\* job nor a forge run is left.
THEOREM ManualRunKept == Spec => ManualRunFinishes
<1>1. IInv /\ EndPass /\ ~paused /\ paused' =>
        forgeTask = "none" /\ \A f \in Files : job[f] # "processing"
  <2> SUFFICES ASSUME IInv, EndPass, ~paused, paused'
               PROVE  forgeTask = "none" /\ Busy = {}
    BY DEF Busy
  <2>1. Cardinality(Busy) + ForgeCounts <= 0
    BY DEF IInv, EndPass, Counted
  <2>2. IsFiniteSet(Busy) /\ Cardinality(Busy) \in Nat /\ ForgeCounts \in {0, 1}
    BY BusyFinite DEF IInv, ForgeCounts
  <2>3. Cardinality(Busy) = 0 /\ ForgeCounts = 0
    BY <2>1, <2>2
  <2> QED BY <2>2, <2>3, FS_EmptySet DEF ForgeCounts
<1>2. IInv => [EndPass /\ ~paused /\ paused' =>
                 /\ forgeTask = "none"
                 /\ \A f \in Files : job[f] # "processing"]_vars
  BY <1>1
<1> QED BY <1>2, Inductive, PTL DEF ManualRunFinishes

=============================================================================
