-------------------------- MODULE FileWriters_proofs --------------------------
(***************************************************************************)
(* FileWriters, proved for any files, any rows and any number of slots:    *)
(* the variables keep their types, no file is ever rewritten by two kinds  *)
(* of run at once (KindExclusion), and no run that holds its row replaces  *)
(* an output another one put there while it was writing                    *)
(* (NoSilentReplacement).                                                  *)
(*                                                                         *)
(* KindExclusion is not inductive by itself.  A claim is two steps, and    *)
(* what the first one found has to be still true when the second one acts  *)
(* on it.  PickStands says so: what the holder of CLAIM_LOCK found of the  *)
(* file it picked stands while it holds the lock.                          *)
(***************************************************************************)
EXTENDS FileWriters, TLAPS

\* What the holder of CLAIM_LOCK found still holds of what it picked.
PickStands ==
    /\ lock = "queue" /\ queue[pick].status # "absent" =>
                /\ queue[pick].file # reverting
                /\ ForgeRows(queue[pick].file, {"processing"}) = {}
    /\ lock = "forge" /\ forge[pick].status # "absent" =>
                /\ forge[pick].file # reverting
                /\ QueueRows(forge[pick].file, {"processing"}) = {}
    /\ lock = "revert" =>
          /\ reverting = None
          /\ QueueRows(pick, {"processing"}) = {}

IInv == TypeOK /\ PickStands /\ KindExclusion

\* A step that claims nothing: it makes no row "processing", takes no file
\* for a revert, and leaves the lock and the row its holder picked.
QuietQueue ==
    /\ \A q \in QueueIds : queue'[q].status = "processing" =>
          queue[q].status = "processing" /\ queue'[q].file = queue[q].file
    /\ lock = "queue" /\ queue'[pick].status # "absent" =>
          queue[pick].status # "absent" /\ queue'[pick].file = queue[pick].file
QuietForge ==
    /\ \A g \in ForgeIds : forge'[g].status = "processing" =>
          forge[g].status = "processing" /\ forge'[g].file = forge[g].file
    /\ lock = "forge" /\ forge'[pick].status # "absent" =>
          forge[pick].status # "absent" /\ forge'[pick].file = forge[pick].file
Quiet ==
    /\ QuietQueue /\ QuietForge
    /\ reverting' \in {reverting, None}
    /\ lock' = lock /\ pick' = pick

-----------------------------------------------------------------------------
(* Types                                                                   *)

\* The empty rows and the idle run are what the tables hold.
LEMMA EmptyRecords ==
    NoQueueRow \in QueueRecord /\ NoForgeRow \in ForgeRecord /\ IdleRun \in RunRecord
  BY DEF NoQueueRow, NoForgeRow, IdleRun, QueueRecord, ForgeRecord, RunRecord,
         QueueStatus, ForgeStatus, Phases, Overtakes

\* What an evaluation does to one row: nothing, a deletion, or a new row of
\* the file under an id that nothing holds.
LEMMA EvaluatedRow ==
    ASSUME TypeOK, NEW f \in Files, NEW new, Evaluated(f, new)
    PROVE  /\ new \in [QueueIds -> QueueRecord]
           /\ \A q \in QueueIds :
                \/ new[q] = queue[q]
                \/ new[q] = NoQueueRow
                \/ /\ new[q].status \in {"pending", "manual_review", "ended"}
                   /\ new[q].file = f
                   /\ Free(q)
<1> DEFINE Row(new_, q) == \/ new_[q] = queue[q]
                           \/ new_[q] = NoQueueRow
                           \/ /\ new_[q].status \in {"pending", "manual_review",
                                                     "ended"}
                              /\ new_[q].file = f
                              /\ Free(q)
           Good(new_) == /\ new_ \in [QueueIds -> QueueRecord]
                         /\ \A q \in QueueIds : Row(new_, q)
<1>1. ASSUME NEW rows PROVE Good(Without(rows))
  BY EmptyRecords DEF Without, TypeOK
<1>2. ASSUME NEW rows, NEW status \in {"pending", "manual_review", "ended"},
             Adds(Without(rows), f, status, new)
      PROVE  Good(new)
  <2>1. PICK q \in QueueIds :
          /\ Free(q)
          /\ new = [Without(rows) EXCEPT ![q] = [status |-> status, file |-> f]]
    BY <1>2 DEF Adds
  <2>2. Good(Without(rows))
    BY <1>1
  <2>3. [status |-> status, file |-> f] \in QueueRecord
    BY DEF QueueStatus, QueueRecord
  <2>4. new \in [QueueIds -> QueueRecord]
    BY <2>1, <2>2, <2>3
  <2>5. new[q].status = status /\ new[q].file = f
    BY <2>1, <2>2
  <2>6. \A p \in QueueIds \ {q} : new[p] = Without(rows)[p]
    BY <2>1, <2>2
  <2> QED BY <2>1, <2>2, <2>4, <2>5, <2>6
<1>3. Good(new)
  BY <1>1, <1>2 DEF Evaluated
<1> QED BY <1>3

\* The parts of a row of the forge.
LEMMA ForgeParts ==
    ASSUME TypeOK, NEW g \in ForgeIds
    PROVE  /\ forge[g].status # "absent" =>
                forge[g].status \in ForgeStatus /\ forge[g].file \in Files
           /\ forge[g].undo \in BOOLEAN
<1>1. forge[g] \in ForgeRecord
  BY DEF TypeOK
<1>2. CASE forge[g] = NoForgeRow
  <2>1. NoForgeRow.undo = FALSE /\ NoForgeRow.status = "absent"
    BY DEF NoForgeRow
  <2> QED BY <1>2, <2>1
<1>3. CASE forge[g] \in [status : ForgeStatus, file : Files, undo : BOOLEAN]
  <2>1. \A r \in [status : ForgeStatus, file : Files, undo : BOOLEAN] :
          r.status \in ForgeStatus /\ r.file \in Files /\ r.undo \in BOOLEAN
    BY Zenon
  <2> QED BY <1>3, <2>1, Zenon
<1> QED BY <1>1, <1>2, <1>3 DEF ForgeRecord

\* Changing the status of a row, or the phase of a run, keeps its type.
LEMMA QueueStatusSet ==
    ASSUME TypeOK, NEW q \in QueueIds, NEW s \in QueueStatus
    PROVE  QueueRow(q, s) \in [QueueIds -> QueueRecord]
  BY DEF TypeOK, QueueRecord, QueueRow, NoQueueRow

\* So it is with a forge row, whichever way its run ended.
LEMMA ForgeStatusSet ==
    ASSUME TypeOK, NEW g \in ForgeIds, NEW s \in ForgeStatus, NEW t \in ForgeStatus,
           NEW u \in BOOLEAN
    PROVE  /\ ForgeRow(g, s, u) \in [ForgeIds -> ForgeRecord]
           /\ ForgeOutcome(g, s, t) \in [ForgeIds -> ForgeRecord]
<1>1. ASSUME NEW c \in ForgeStatus, NEW v \in BOOLEAN
      PROVE  ForgeRow(g, c, v) \in [ForgeIds -> ForgeRecord]
  <2>1. forge[g].status # "absent" => forge[g].file \in Files
    BY DEF TypeOK, ForgeRecord, NoForgeRow
  <2>2. forge[g].status # "absent" =>
          [status |-> c, file |-> forge[g].file, undo |-> v] \in ForgeRecord
    BY <2>1 DEF ForgeRecord
  <2> QED BY <2>2 DEF TypeOK, ForgeRow
<1>2. forge[g].undo \in BOOLEAN
  BY ForgeParts
<1> QED BY <1>1, <1>2 DEF ForgeOutcome

\* Moving a run on, ending it, beginning one and swapping keep the type of run.
LEMMA RunSet ==
    ASSUME TypeOK, NEW w \in Writers
    PROVE  /\ Live(w) => \A p \in Phases : Phase(w, p) \in [Writers -> RunRecord]
           /\ Ended(w) \in [Writers -> RunRecord]
           /\ \A f \in Files :
                [run EXCEPT ![w] = [phase |-> "claimed", file |-> f,
                                    over |-> "nothing"]] \in [Writers -> RunRecord]
           /\ Live(w) /\ Replace(w) => run' \in [Writers -> RunRecord]
<1>1. ASSUME Live(w)
      PROVE  \A p \in Phases : Phase(w, p) \in [Writers -> RunRecord]
  BY <1>1 DEF TypeOK, RunRecord, IdleRun, Live, Phase
<1>2. Ended(w) \in [Writers -> RunRecord]
  BY EmptyRecords DEF TypeOK, Ended
<1>3. ASSUME NEW f \in Files
      PROVE  [run EXCEPT ![w] = [phase |-> "claimed", file |-> f,
                                 over |-> "nothing"]] \in [Writers -> RunRecord]
  BY DEF TypeOK, RunRecord, Phases, Overtakes
<1>4. ASSUME Live(w), Replace(w) PROVE run' \in [Writers -> RunRecord]
  <2>1. run \in [Writers -> RunRecord]
    BY DEF TypeOK
  <2>2. ASSUME NEW x \in Writers, Live(x)
        PROVE  /\ [run[x] EXCEPT !.phase = "swapped", !.over = "nothing"] \in RunRecord
               /\ \A o \in Overtakes : [run[x] EXCEPT !.over = o] \in RunRecord
    <3>1. run[x] \in [phase : Phases, file : Files, over : Overtakes]
      BY <2>1, <2>2 DEF RunRecord, IdleRun, Live
    <3>2. ASSUME NEW r \in [phase : Phases, file : Files, over : Overtakes]
          PROVE  [r EXCEPT !.phase = "swapped"] \in [phase : Phases, file : Files, over : Overtakes]
      BY DEF Phases
    <3>3. ASSUME NEW r \in [phase : Phases, file : Files, over : Overtakes],
                 NEW o \in Overtakes
          PROVE  [r EXCEPT !.over = o] \in [phase : Phases, file : Files, over : Overtakes]
      OBVIOUS
    <3>4. [run[x] EXCEPT !.phase = "swapped", !.over = "nothing"] \in RunRecord
      BY <3>1, <3>2, <3>3 DEF RunRecord, Overtakes
    <3>5. QED
      BY <3>1, <3>3, <3>4 DEF RunRecord
  <2>3. ASSUME NEW over, NEW kind PROVE Worse(over, kind) \in Overtakes
    BY DEF Worse, Overtakes
  <2> QED BY <1>4, <2>1, <2>2, <2>3 DEF Replace, Live
<1> QED BY <1>1, <1>2, <1>3, <1>4

\* So does adding a forge row.
LEMMA NewForgeRow ==
    ASSUME TypeOK, NEW g \in ForgeIds, NEW f \in Files
    PROVE  [forge EXCEPT ![g] = [status |-> "pending", file |-> f, undo |-> FALSE]]
             \in [ForgeIds -> ForgeRecord]
<1>1. [status |-> "pending", file |-> f, undo |-> FALSE] \in ForgeRecord
  BY DEF ForgeRecord, ForgeStatus
<1> QED BY <1>1 DEF TypeOK

\* The types, kept by every step; one step per action.
LEMMA TypeStep == TypeOK /\ [Next]_vars => TypeOK'
<1> SUFFICES ASSUME TypeOK, [Next]_vars PROVE TypeOK'
  OBVIOUS
<1>s. \A s \in {"pending", "processing", "manual_review", "ended"} : s \in QueueStatus
  BY DEF QueueStatus
<1>t. \A s \in {"pending", "undo_pending", "processing", "undoable", "ended"} :
          s \in ForgeStatus
  BY DEF ForgeStatus
<1>p. {"claimed", "writing", "redeciding"} \subseteq Phases
  BY DEF Phases
<1>w. QueueIds \subseteq Writers /\ ForgeIds \subseteq Writers /\ Revert \in Writers
  BY DEF Writers
<1>h. {"free", "queue", "forge", "revert"} \subseteq Holders
  BY DEF Holders
<1>1. CASE UNCHANGED vars
  BY <1>1 DEF vars, TypeOK
<1>2. CASE Claim
  <2>1. ASSUME NEW q \in QueueIds, PickQueueJob(q) PROVE TypeOK'
    BY <1>h, <2>1 DEF PickQueueJob, TypeOK
  <2>2. ASSUME NEW g \in ForgeIds, PickForgeJob(g) PROVE TypeOK'
    BY <1>h, <2>2 DEF PickForgeJob, TypeOK
  <2>3. ASSUME NEW f \in Files, PickRevert(f) PROVE TypeOK'
    BY <1>h, <2>3 DEF PickRevert, TypeOK
  <2>4. CASE ClaimQueueJob
    <3>1. pick \in QueueIds
      BY <2>4 DEF ClaimQueueJob, TypeOK
    <3>2. queue[pick].status # "absent" => queue[pick].file \in Files
      BY <3>1 DEF TypeOK, QueueRecord, NoQueueRow
    <3>3. queue' \in [QueueIds -> QueueRecord] /\ run' \in [Writers -> RunRecord]
      BY <1>s, <1>w, <2>4, <3>1, <3>2, QueueStatusSet, RunSet DEF ClaimQueueJob, TypeOK
    <3> QED BY <1>h, <2>4, <3>1, <3>3 DEF ClaimQueueJob, TypeOK
  <2>5. CASE ClaimForgeJob
    <3>1. pick \in ForgeIds
      BY <2>5 DEF ClaimForgeJob, TypeOK
    <3>2. /\ forge[pick].status # "absent" => forge[pick].file \in Files
          /\ forge[pick].undo \in BOOLEAN
      BY <3>1, ForgeParts
    <3>3. ForgeRow(pick, "processing", forge[pick].undo) \in [ForgeIds -> ForgeRecord]
      BY <1>t, <3>1, <3>2, ForgeStatusSet
    <3>4. forge' \in [ForgeIds -> ForgeRecord]
      BY <2>5, <3>3 DEF ClaimForgeJob, TypeOK
    <3>5. run' \in [Writers -> RunRecord]
      BY <1>w, <2>5, <3>1, <3>2, RunSet DEF ClaimForgeJob, TypeOK
    <3> QED BY <1>h, <2>5, <3>4, <3>5 DEF ClaimForgeJob, TypeOK
  <2>6. CASE AcquireRevert
    <3>1. pick \in Files
      BY <2>6 DEF AcquireRevert, TypeOK
    <3>2. run' \in [Writers -> RunRecord]
      BY <1>w, <2>6, <3>1, RunSet DEF AcquireRevert, TypeOK
    <3> QED BY <1>h, <2>6, <3>1, <3>2 DEF AcquireRevert, TypeOK
  <2> QED BY <1>2, <2>1, <2>2, <2>3, <2>4, <2>5, <2>6 DEF Claim
<1>3. CASE Request
  <2>1. ASSUME NEW f \in Files, EvaluateFile(f) PROVE TypeOK'
    BY <2>1, EvaluatedRow DEF EvaluateFile, TypeOK
  <2>2. ASSUME NEW f \in Files, DropRecord(f) PROVE TypeOK'
    BY <2>2, EmptyRecords DEF DropRecord, Without, TypeOK
  <2>3. ASSUME NEW f \in Files, QueueForge(f) PROVE TypeOK'
    BY <2>3, NewForgeRow DEF QueueForge, TypeOK
  <2>4. ASSUME NEW f \in Files, ReplacedOutside(f) PROVE TypeOK'
    <3>1. run' \in [Writers -> RunRecord]
      <4>1. ASSUME NEW w \in Writers, run[w].phase = "writing"
            PROVE  [run[w] EXCEPT !.over = "other"] \in RunRecord
        BY <4>1 DEF TypeOK, RunRecord, IdleRun, Overtakes
      <4> QED BY <2>4, <4>1 DEF ReplacedOutside, TypeOK
    <3> QED BY <2>4, <3>1 DEF ReplacedOutside, TypeOK
  <2>5. ASSUME NEW q \in QueueIds, AnswerReview(q) PROVE TypeOK'
    BY <1>s, <2>5, QueueStatusSet DEF AnswerReview, TypeOK
  <2>6. ASSUME NEW q \in QueueIds, ForgetRow(q) PROVE TypeOK'
    BY <2>6, EmptyRecords DEF ForgetRow, TypeOK
  <2>7. ASSUME NEW q \in QueueIds, AbortMark(q) PROVE TypeOK'
    BY <1>s, <2>7, QueueStatusSet DEF AbortMark, TypeOK
  <2>8. ASSUME NEW q \in QueueIds, AbortCancel(q) PROVE TypeOK'
    BY <2>8 DEF AbortCancel, TypeOK
  <2>9. ASSUME NEW r \in Requests, ReadForRequest(r) PROVE TypeOK'
    BY <2>9 DEF ReadForRequest, TypeOK
  <2>10. ASSUME NEW r \in Requests, WriteForRequest(r) PROVE TypeOK'
    <3>1. inflight' \subseteq Requests
      BY <2>10 DEF WriteForRequest, TypeOK
    <3>2. /\ r.op = "cancel" => r.row \in QueueIds
          /\ r.op \in {"forgeCancel", "forgeUndo"} => r.row \in ForgeIds
      BY DEF Requests
    <3>3. r.row \in ForgeIds => forge[r.row].undo \in BOOLEAN
      BY ForgeParts
    <3>4. queue' \in [QueueIds -> QueueRecord] /\ forge' \in [ForgeIds -> ForgeRecord]
      <4>1. CASE r.op = "cancel"
        BY <1>s, <2>10, <3>2, <4>1, QueueStatusSet DEF WriteForRequest, TypeOK
      <4>2. CASE r.op = "forgeCancel"
        <5>1. ForgeRow(r.row, "ended", forge[r.row].undo) \in [ForgeIds -> ForgeRecord]
          BY <1>t, <3>2, <3>3, <4>2, ForgeStatusSet
        <5> QED BY <2>10, <4>2, <5>1 DEF WriteForRequest, TypeOK
      <4>3. CASE r.op = "forgeUndo"
        <5>1. ForgeRow(r.row, "undo_pending", TRUE) \in [ForgeIds -> ForgeRecord]
          BY <1>t, <3>2, <4>3, ForgeStatusSet
        <5> QED BY <2>10, <4>3, <5>1 DEF WriteForRequest, TypeOK
      <4> QED BY <2>10, <4>1, <4>2, <4>3 DEF WriteForRequest
    <3> QED BY <2>10, <3>1, <3>4 DEF WriteForRequest, TypeOK
  <2> QED BY <1>3, <2>1, <2>2, <2>3, <2>4, <2>5, <2>6, <2>7, <2>8, <2>9, <2>10
             DEF Request
<1>4. ASSUME NEW q \in QueueIds, QueueRun(q) PROVE TypeOK'
  <2>1. CASE StartQueueJob(q)
    BY <1>p, <1>w, <2>1, RunSet DEF StartQueueJob, TypeOK, Live
  <2>2. CASE EndQueueJob(q)
    BY <1>s, <1>w, <2>2, RunSet, QueueStatusSet DEF EndQueueJob, TypeOK
  <2>3. CASE StopForChange(q)
    <3>1. queue' \in [QueueIds -> QueueRecord]
      BY <1>s, <2>3, QueueStatusSet DEF StopForChange, TypeOK
    <3>2. run' \in [Writers -> RunRecord]
      BY <1>p, <1>w, <2>3, RunSet DEF StopForChange, TypeOK, Live
    <3> QED BY <2>3, <3>1, <3>2 DEF StopForChange, TypeOK
  <2>4. CASE SwapQueueJob(q)
    BY <1>w, <2>4, RunSet DEF SwapQueueJob, TypeOK, Live
  <2>5. CASE FinishQueueJob(q)
    <3>1. queue' \in [QueueIds -> QueueRecord]
      BY <1>s, <2>5, QueueStatusSet DEF FinishQueueJob
    <3>2. run' \in [Writers -> RunRecord]
      BY <1>p, <1>w, <2>5, RunSet DEF FinishQueueJob, Live
    <3> QED BY <2>5, <3>1, <3>2 DEF FinishQueueJob, TypeOK
  <2>6. CASE RedecideFile(q)
    <3>1. run[q].file \in Files
      BY <1>w, <2>6 DEF RedecideFile, TypeOK, RunRecord, IdleRun
    <3>2. queue' \in [QueueIds -> QueueRecord] /\ tracked' \subseteq Files
      BY <2>6, <3>1, EvaluatedRow DEF RedecideFile, TypeOK
    <3> QED BY <1>w, <2>6, <3>2, RunSet DEF RedecideFile, TypeOK
  <2>7. CASE CutOffQueueJob(q)
    BY <1>s, <1>w, <2>7, RunSet, QueueStatusSet DEF CutOffQueueJob, TypeOK
  <2> QED BY <1>4, <2>1, <2>2, <2>3, <2>4, <2>5, <2>6, <2>7 DEF QueueRun
<1>5. ASSUME NEW g \in ForgeIds, ForgeRun(g) PROVE TypeOK'
  <2>1. CASE StartForge(g)
    BY <1>p, <1>w, <2>1, RunSet DEF StartForge, TypeOK, Live
  <2>2. CASE EndForge(g)
    <3>1. /\ ForgeOutcome(g, "ended", "undoable") \in [ForgeIds -> ForgeRecord]
          /\ ForgeOutcome(g, "ended", "ended") \in [ForgeIds -> ForgeRecord]
      BY <1>t, ForgeStatusSet
    <3> QED BY <1>w, <2>2, <3>1, RunSet DEF EndForge, TypeOK
  <2>3. CASE SwapForge(g)
    BY <1>w, <2>3, RunSet DEF SwapForge, TypeOK, Live
  <2>4. CASE FinishForge(g)
    BY <1>t, <1>w, <2>4, RunSet, ForgeStatusSet DEF FinishForge, TypeOK
  <2>5. CASE CutOffForge(g)
    BY <1>t, <1>w, <2>5, RunSet, ForgeStatusSet DEF CutOffForge, TypeOK
  <2> QED BY <1>5, <2>1, <2>2, <2>3, <2>4, <2>5 DEF ForgeRun
<1>6. CASE RevertRun
  <2>1. CASE StartRevert
    BY <1>p, <1>w, <2>1, RunSet DEF StartRevert, TypeOK, Live
  <2>2. CASE SwapRevert
    BY <1>w, <2>2, RunSet DEF SwapRevert, TypeOK, Live
  <2>3. CASE EndRevert
    <3>1. ASSUME NEW g \in ForgeIds, forge[g].status = "undoable"
          PROVE  [forge[g] EXCEPT !.status = "ended", !.undo = TRUE] \in ForgeRecord
      <4>1. /\ forge[g].file \in Files
            /\ forge[g] \in [status : ForgeStatus, file : Files, undo : BOOLEAN]
        BY <3>1, ForgeParts DEF TypeOK, ForgeRecord, NoForgeRow
      <4> QED BY <4>1 DEF ForgeRecord, ForgeStatus
    <3>2. forge' \in [ForgeIds -> ForgeRecord]
      BY <2>3, <3>1 DEF EndRevert, TypeOK, ForgeRows
    <3> QED BY <1>w, <2>3, <3>2, RunSet DEF EndRevert, TypeOK
  <2> QED BY <1>6, <2>1, <2>2, <2>3 DEF RevertRun
<1>7. CASE Stop
  BY <1>7 DEF Stop, TypeOK
<1>8. CASE Restart
  <2>1. ASSUME NEW q \in QueueIds, queue[q].status = "processing"
        PROVE  [queue[q] EXCEPT !.status = "ended"] \in QueueRecord
    BY <2>1 DEF TypeOK, QueueRecord, NoQueueRow, QueueStatus
  <2>2. ASSUME NEW g \in ForgeIds, forge[g].status = "processing", NEW s \in ForgeStatus
        PROVE  [forge[g] EXCEPT !.status = s] \in ForgeRecord
    BY <2>2 DEF TypeOK, ForgeRecord, NoForgeRow
  <2>3. queue' \in [QueueIds -> QueueRecord]
    BY <1>8, <2>1 DEF Restart, TypeOK
  <2>4. forge' \in [ForgeIds -> ForgeRecord]
    BY <1>8, <1>t, <2>2 DEF Restart, TypeOK
  <2> QED BY <1>8, <1>h, <2>3, <2>4, EmptyRecords DEF Restart, TypeOK
<1> QED BY <1>1, <1>2, <1>3, <1>4, <1>5, <1>6, <1>7, <1>8 DEF Next

\* Every value every variable ever has, over all steps of the three writers,
\* of the requests and of the process.
THEOREM TypeCorrect == Spec => []TypeOK
<1>1. Init => TypeOK
  BY EmptyRecords DEF Init, TypeOK, Holders
<1> QED BY <1>1, TypeStep, PTL DEF Spec

-----------------------------------------------------------------------------
(* One kind of run per file                                                *)

\* A quiet step keeps what the lock's holder found, and the exclusion.
LEMMA QuietPreserves ==
    ASSUME IInv, Quiet PROVE PickStands' /\ KindExclusion'
<1>n. None \notin Files
  BY IdsDisjoint
<1>q. \A f : QueueRows(f, {"processing"}) = {} => QueueRows(f, {"processing"})' = {}
  BY DEF Quiet, QuietQueue, QueueRows
<1>g. \A f : ForgeRows(f, {"processing"}) = {} => ForgeRows(f, {"processing"})' = {}
  BY DEF Quiet, QuietForge, ForgeRows
<1>1. PickStands'
  <2>f. /\ lock = "queue" /\ queue[pick].status # "absent" => queue[pick].file \in Files
        /\ lock = "forge" /\ forge[pick].status # "absent" => forge[pick].file \in Files
    BY ForgeParts DEF IInv, TypeOK, QueueRecord, NoQueueRow
  <2>1. ASSUME lock = "queue", queue'[pick].status # "absent"
        PROVE  (/\ queue[pick].file # reverting
                /\ ForgeRows(queue[pick].file, {"processing"}) = {})'
    <3>1. /\ pick' = pick
          /\ queue'[pick].file = queue[pick].file
          /\ queue[pick].file \in Files /\ queue[pick].file # reverting
          /\ ForgeRows(queue[pick].file, {"processing"}) = {}
      BY <2>1, <2>f DEF Quiet, QuietQueue, IInv, PickStands
    <3>2. \A f \in Files : f # reverting => f # reverting'
      BY <1>n DEF Quiet
    <3> QED BY <1>g, <3>1, <3>2 DEF ForgeRows
  <2>2. ASSUME lock = "forge", forge'[pick].status # "absent"
        PROVE  (/\ forge[pick].file # reverting
                /\ QueueRows(forge[pick].file, {"processing"}) = {})'
    <3>1. /\ pick' = pick
          /\ forge'[pick].file = forge[pick].file
          /\ forge[pick].file \in Files /\ forge[pick].file # reverting
          /\ QueueRows(forge[pick].file, {"processing"}) = {}
      BY <2>2, <2>f DEF Quiet, QuietForge, IInv, PickStands
    <3>2. \A f \in Files : f # reverting => f # reverting'
      BY <1>n DEF Quiet
    <3> QED BY <1>q, <3>1, <3>2 DEF QueueRows
  <2>3. ASSUME lock = "revert"
        PROVE  (reverting = None /\ QueueRows(pick, {"processing"}) = {})'
    BY <1>q, <2>3 DEF Quiet, IInv, PickStands, QueueRows
  <2> QED BY <2>1, <2>2, <2>3 DEF Quiet, PickStands
<1>2. KindExclusion'
  BY <1>n, <1>q, <1>g DEF Quiet, IInv, KindExclusion
<1> QED BY <1>1, <1>2

\* Writing an outcome, an answer or a cancellation to a row is quiet.
LEMMA QuietQueueRow ==
    ASSUME TypeOK, NEW q \in QueueIds, NEW s, s # "processing", queue' = QueueRow(q, s)
    PROVE  QuietQueue
  BY DEF QueueRow, QuietQueue, TypeOK, QueueRecord, NoQueueRow

\* So is such a write to a forge row,
LEMMA QuietForgeRow ==
    ASSUME TypeOK, NEW g \in ForgeIds, NEW s, s # "processing", NEW u,
           forge' = ForgeRow(g, s, u)
    PROVE  QuietForge
  BY DEF ForgeRow, QuietForge, TypeOK

\* and leaving a table alone.
LEMMA QuietUnchanged ==
    /\ queue' = queue => QuietQueue
    /\ forge' = forge => QuietForge
  BY DEF QuietQueue, QuietForge

\* So is an evaluation: a new row is pending, under review or ended, and its
\* id is not the one a claim has picked.
LEMMA QuietEvaluation ==
    ASSUME TypeOK, NEW f \in Files, Evaluated(f, queue') PROVE QuietQueue
<1>1. \A q \in QueueIds :
         \/ queue'[q] = queue[q]
         \/ queue'[q] = NoQueueRow
         \/ /\ queue'[q].status \in {"pending", "manual_review", "ended"}
            /\ Free(q)
  BY EvaluatedRow
<1>2. NoQueueRow.status = "absent"
  BY DEF NoQueueRow
<1>3. lock = "queue" => pick \in QueueIds
  BY DEF TypeOK
<1> QED BY <1>1, <1>2, <1>3 DEF QuietQueue, Free

\* Requests claim nothing.
LEMMA QuietRequest == ASSUME TypeOK, Request PROVE Quiet
<1> USE QuietUnchanged DEF Quiet
<1>1. ASSUME NEW f \in Files, EvaluateFile(f) PROVE Quiet
  BY <1>1, QuietEvaluation DEF EvaluateFile
<1>2. ASSUME NEW f \in Files, DropRecord(f) PROVE Quiet
  <2>1. QuietQueue
    BY <1>2 DEF DropRecord, Without, NoQueueRow, QuietQueue, TypeOK
  <2>2. QuietForge
    BY <1>2 DEF DropRecord, NoForgeRow, QuietForge, TypeOK
  <2> QED BY <1>2, <2>1, <2>2 DEF DropRecord
<1>3. ASSUME NEW f \in Files, QueueForge(f) PROVE Quiet
  <2>1. PICK g \in ForgeIds :
           /\ Free(g)
           /\ forge' = [forge EXCEPT ![g] = [status |-> "pending", file |-> f,
                                             undo |-> FALSE]]
    BY <1>3 DEF QueueForge
  <2>2. QuietForge
    BY <2>1 DEF QuietForge, Free, TypeOK
  <2> QED BY <1>3, <2>2 DEF QueueForge
<1>4. ASSUME NEW f \in Files, ReplacedOutside(f) PROVE Quiet
  BY <1>4 DEF ReplacedOutside
<1>5. ASSUME NEW q \in QueueIds, AnswerReview(q) PROVE Quiet
  BY <1>5, QuietQueueRow DEF AnswerReview
<1>6. ASSUME NEW q \in QueueIds, ForgetRow(q) PROVE Quiet
  <2>1. QuietQueue
    BY <1>6 DEF ForgetRow, NoQueueRow, QuietQueue, TypeOK
  <2> QED BY <1>6, <2>1 DEF ForgetRow
<1>7. ASSUME NEW q \in QueueIds, AbortMark(q) PROVE Quiet
  BY <1>7, QuietQueueRow DEF AbortMark
<1>8. ASSUME NEW q \in QueueIds, AbortCancel(q) PROVE Quiet
  BY <1>8 DEF AbortCancel
<1>9. ASSUME NEW r \in Requests, ReadForRequest(r) PROVE Quiet
  BY <1>9 DEF ReadForRequest
<1>10. ASSUME NEW r \in Requests, WriteForRequest(r) PROVE Quiet
  <2>1. /\ r.op = "cancel" => r.row \in QueueIds
        /\ r.op \in {"forgeCancel", "forgeUndo"} => r.row \in ForgeIds
    BY DEF Requests
  <2>2. QuietQueue /\ QuietForge
    BY <1>10, <2>1, QuietQueueRow, QuietForgeRow DEF WriteForRequest
  <2> QED BY <1>10, <2>2 DEF WriteForRequest
<1> QED BY <1>1, <1>2, <1>3, <1>4, <1>5, <1>6, <1>7, <1>8, <1>9, <1>10 DEF Request

\* Nor does a run, whatever it does with its own row.
LEMMA QuietRun ==
    ASSUME TypeOK,
           \/ \E q \in QueueIds : QueueRun(q)
           \/ \E g \in ForgeIds : ForgeRun(g)
           \/ RevertRun
    PROVE  Quiet
<1> USE QuietUnchanged DEF Quiet
<1>1. ASSUME NEW q \in QueueIds, QueueRun(q) PROVE Quiet
  <2>1. CASE StartQueueJob(q)
    BY <2>1 DEF StartQueueJob
  <2>2. CASE EndQueueJob(q)
    BY <2>2, QuietQueueRow DEF EndQueueJob
  <2>3. CASE StopForChange(q)
    BY <2>3, QuietQueueRow DEF StopForChange
  <2>4. CASE SwapQueueJob(q)
    BY <2>4 DEF SwapQueueJob
  <2>5. CASE FinishQueueJob(q)
    BY <2>5, QuietQueueRow DEF FinishQueueJob
  <2>6. CASE RedecideFile(q)
    <3>1. run[q].file \in Files
      BY <2>6 DEF RedecideFile, TypeOK, RunRecord, IdleRun, Writers
    <3> QED BY <2>6, <3>1, QuietEvaluation DEF RedecideFile
  <2>7. CASE CutOffQueueJob(q)
    BY <2>7, QuietQueueRow DEF CutOffQueueJob
  <2> QED BY <1>1, <2>1, <2>2, <2>3, <2>4, <2>5, <2>6, <2>7 DEF QueueRun
<1>2. ASSUME NEW g \in ForgeIds, ForgeRun(g) PROVE Quiet
  <2>1. CASE StartForge(g)
    BY <2>1 DEF StartForge
  <2>2. CASE EndForge(g)
    BY <2>2, QuietForgeRow DEF EndForge, ForgeOutcome
  <2>3. CASE SwapForge(g)
    BY <2>3 DEF SwapForge
  <2>4. CASE FinishForge(g)
    BY <2>4, QuietForgeRow DEF FinishForge, ForgeOutcome
  <2>5. CASE CutOffForge(g)
    BY <2>5, QuietForgeRow DEF CutOffForge, ForgeOutcome
  <2> QED BY <1>2, <2>1, <2>2, <2>3, <2>4, <2>5 DEF ForgeRun
<1>3. CASE RevertRun
  <2>1. CASE StartRevert
    BY <2>1 DEF StartRevert
  <2>2. CASE SwapRevert
    BY <2>2 DEF SwapRevert
  <2>3. CASE EndRevert
    <3>1. QuietForge
      <4>1. ASSUME NEW g \in ForgeIds, forge'[g] # forge[g]
            PROVE  /\ forge[g].status = "undoable"
                   /\ forge'[g].status = "ended" /\ forge'[g].file = forge[g].file
        <5>1. forge[g].status = "undoable"
          BY <2>3, <4>1 DEF EndRevert, ForgeRows, TypeOK
        <5>2. forge'[g] = [forge[g] EXCEPT !.status = "ended", !.undo = TRUE]
          BY <2>3, <4>1 DEF EndRevert, TypeOK
        <5>3. forge[g] \in [status : ForgeStatus, file : Files, undo : BOOLEAN]
          BY <5>1 DEF TypeOK, ForgeRecord, NoForgeRow
        <5> QED BY <5>1, <5>2, <5>3
      <4> QED BY <4>1 DEF QuietForge, TypeOK
    <3> QED BY <2>3, <3>1 DEF EndRevert
  <2> QED BY <1>3, <2>1, <2>2, <2>3 DEF RevertRun
<1> QED BY <1>1, <1>2, <1>3

\* The claims themselves: what a claim finds and takes, under the lock.
LEMMA ClaimKeeps == ASSUME IInv, TypeOK', Claim PROVE PickStands' /\ KindExclusion'
<1>n. None \notin Files
  BY IdsDisjoint
<1>1. ASSUME NEW q \in QueueIds, PickQueueJob(q) PROVE PickStands' /\ KindExclusion'
  BY <1>1 DEF PickQueueJob, QueueClaimable, IInv, PickStands, KindExclusion,
              QueueRows, ForgeRows
<1>2. ASSUME NEW g \in ForgeIds, PickForgeJob(g) PROVE PickStands' /\ KindExclusion'
  BY <1>2 DEF PickForgeJob, ForgeClaimable, IInv, PickStands, KindExclusion,
              QueueRows, ForgeRows
<1>3. ASSUME NEW f \in Files, PickRevert(f) PROVE PickStands' /\ KindExclusion'
  BY <1>3 DEF PickRevert, IInv, PickStands, KindExclusion, QueueRows, ForgeRows
<1>4. CASE ClaimQueueJob
  <2>1. CASE queue[pick].status = "absent"
    BY <1>4, <2>1 DEF ClaimQueueJob, IInv, PickStands, KindExclusion, QueueRows, ForgeRows
  <2>2. CASE queue[pick].status # "absent"
    <3>1. /\ queue'[pick].status = "processing" /\ queue'[pick].file = queue[pick].file
          /\ \A q \in QueueIds \ {pick} : queue'[q] = queue[q]
      BY <1>4, <2>2 DEF ClaimQueueJob, QueueRow, IInv, TypeOK, QueueRecord, NoQueueRow
    <3>2. /\ queue[pick].file # reverting
          /\ ForgeRows(queue[pick].file, {"processing"}) = {}
      BY <1>4, <2>2 DEF ClaimQueueJob, IInv, PickStands
    <3>3. ASSUME NEW f \in Files
          PROVE  QueueRows(f, {"processing"})' \subseteq
                   QueueRows(f, {"processing"})
                     \cup IF f = queue[pick].file THEN {pick} ELSE {}
      BY <3>1 DEF QueueRows
    <3>4. KindExclusion'
      BY <1>4, <3>2, <3>3 DEF ClaimQueueJob, IInv, KindExclusion, ForgeRows
    <3> QED BY <1>4, <3>4 DEF ClaimQueueJob, PickStands
  <2> QED BY <2>1, <2>2
<1>5. CASE ClaimForgeJob
  <2>1. CASE forge[pick].status = "absent"
    BY <1>5, <2>1 DEF ClaimForgeJob, IInv, PickStands, KindExclusion, QueueRows, ForgeRows
  <2>2. CASE forge[pick].status # "absent"
    <3>1. /\ forge'[pick].status = "processing" /\ forge'[pick].file = forge[pick].file
          /\ \A g \in ForgeIds \ {pick} : forge'[g] = forge[g]
      BY <1>5, <2>2 DEF ClaimForgeJob, ForgeRow, IInv, TypeOK
    <3>2. /\ forge[pick].file # reverting
          /\ QueueRows(forge[pick].file, {"processing"}) = {}
      BY <1>5, <2>2 DEF ClaimForgeJob, IInv, PickStands
    <3>3. ASSUME NEW f \in Files
          PROVE  ForgeRows(f, {"processing"})' \subseteq
                   ForgeRows(f, {"processing"})
                     \cup IF f = forge[pick].file THEN {pick} ELSE {}
      BY <3>1 DEF ForgeRows
    <3>4. KindExclusion'
      BY <1>5, <3>2, <3>3 DEF ClaimForgeJob, IInv, KindExclusion, QueueRows
    <3> QED BY <1>5, <3>4 DEF ClaimForgeJob, PickStands
  <2> QED BY <2>1, <2>2
<1>6. CASE AcquireRevert
  <2>1. QueueRows(pick, {"processing"}) = {} /\ reverting = None
    BY <1>6 DEF AcquireRevert, IInv, PickStands
  <2>2. reverting' = pick => ForgeRows(pick, {"processing"}) = {}
    BY <1>6, <2>1, <1>n DEF AcquireRevert, ForgeRows, IInv, TypeOK
  <2>3. KindExclusion'
    BY <1>6, <1>n, <2>1, <2>2 DEF AcquireRevert, IInv, KindExclusion, QueueRows, ForgeRows
  <2> QED BY <1>6, <2>3 DEF AcquireRevert, PickStands
<1> QED BY <1>1, <1>2, <1>3, <1>4, <1>5, <1>6 DEF Claim

\* The invariant holds at first, and every step keeps it.
LEMMA InvariantHolds == Spec => []IInv
<1>1. Init => IInv
  <2>1. Init => TypeOK
    BY EmptyRecords DEF Init, TypeOK, Holders
  <2>2. Init => PickStands
    BY DEF Init, PickStands
  <2>3. Init => KindExclusion
    BY IdsDisjoint DEF Init, KindExclusion, QueueRows, ForgeRows, NoQueueRow, NoForgeRow
  <2> QED BY <2>1, <2>2, <2>3 DEF IInv
<1>2. IInv /\ [Next]_vars => IInv'
  <2> SUFFICES ASSUME IInv, [Next]_vars PROVE PickStands' /\ KindExclusion'
    BY TypeStep DEF IInv
  <2>1. CASE UNCHANGED vars
    BY <2>1 DEF vars, IInv, PickStands, KindExclusion, QueueRows, ForgeRows
  <2>2. CASE Claim
    BY <2>2, TypeStep, ClaimKeeps DEF IInv
  <2>3. CASE Request
    BY <2>3, QuietRequest, QuietPreserves DEF IInv
  <2>4. ASSUME \/ \E q \in QueueIds : QueueRun(q)
               \/ \E g \in ForgeIds : ForgeRun(g)
               \/ RevertRun
        PROVE  PickStands' /\ KindExclusion'
    BY <2>4, QuietRun, QuietPreserves DEF IInv
  <2>5. CASE Stop
    BY <2>5 DEF Stop, IInv, PickStands, KindExclusion, QueueRows, ForgeRows
  <2>6. CASE Restart
    <3>1. /\ \A q \in QueueIds : queue'[q].status # "processing"
          /\ \A g \in ForgeIds : forge'[g].status # "processing"
      <4>1. \A q \in QueueIds : queue'[q].status # "processing"
        BY <2>6 DEF Restart, IInv, TypeOK, QueueRecord, NoQueueRow
      <4>2. ASSUME NEW g \in ForgeIds PROVE forge'[g].status # "processing"
        BY <2>6 DEF Restart, IInv, TypeOK, ForgeRecord, NoForgeRow
      <4> QED BY <4>1, <4>2
    <3>2. reverting' = None /\ lock' = "free"
      BY <2>6 DEF Restart
    <3> QED BY <3>1, <3>2, IdsDisjoint DEF PickStands, KindExclusion, QueueRows, ForgeRows
  <2> QED BY <2>1, <2>2, <2>3, <2>4, <2>5, <2>6 DEF Next
<1> QED BY <1>1, <1>2, PTL DEF Spec

\* Two kinds of run never rewrite one file at once, for any files, any rows
\* and any number of slots: the contract revert_lock states.
THEOREM WriterExclusion == Spec => []KindExclusion
<1>1. IInv => KindExclusion
  BY DEF IInv
<1> QED BY <1>1, InvariantHolds, PTL

-----------------------------------------------------------------------------
(* No output is silently replaced                                          *)

(***************************************************************************)
(* A queue job and a revert look at their file again right before they     *)
(* swap; a forge run does not.  So it is for the forge that nobody who     *)
(* holds a row of the file may swap while it writes: no queue job and no   *)
(* revert, because of KindExclusion, and no other forge run, because the   *)
(* loop has one forge task at a time.                                      *)
(***************************************************************************)

\* A run's row, while it is there, is of the file it rewrites.
RowsFit ==
    /\ \A q \in QueueIds :
          Live(q) /\ queue[q].status # "absent" => queue[q].file = run[q].file
    /\ \A g \in ForgeIds :
          Live(g) /\ forge[g].status # "absent" => forge[g].file = run[g].file
    /\ Live(Revert) /\ reverting # None => run[Revert].file = reverting

\* There is one forge run at a time, and none while one is being claimed.
ForgeAlone ==
    /\ \A g, h \in ForgeIds : Live(g) /\ Live(h) => g = h
    /\ lock = "forge" => \A g \in ForgeIds : ~Live(g)

\* What a forge run that holds its row has read, nobody who held one replaced.
Unrivalled ==
    \A g \in ForgeIds :
        /\ run[g].phase = "claimed" => run[g].over = "nothing"
        /\ run[g].phase = "writing" /\ forge[g].status = "processing"
             => run[g].over # "rival"

RunsFit == RowsFit /\ ForgeAlone /\ Unrivalled

\* A step that begins no run and gives a live run's row to nobody.
CalmQueue ==
    \A q \in QueueIds : queue'[q].status # "absent" /\ Live(q) =>
        queue[q].status # "absent" /\ queue'[q].file = queue[q].file
CalmForge ==
    \A g \in ForgeIds :
        /\ forge'[g].status # "absent" /\ Live(g) =>
              forge[g].status # "absent" /\ forge'[g].file = forge[g].file
        /\ forge'[g].status = "processing" => forge[g].status = "processing"
CalmRows ==
    /\ CalmQueue /\ CalmForge
    /\ reverting' \in {reverting, None} /\ lock' = lock
CalmRuns ==
    \A w \in Writers : Live(w)' => Live(w) /\ run'[w].file = run[w].file

\* All but the forge's runs look at their file once more before they swap.
LooksFirst ==
    \A w \in Writers \ ForgeIds :
        run[w].phase = "writing" /\ run'[w].phase = "swapped" => run[w].over = "nothing"

\* What it leaves of the marks on the forge's runs.
CalmMarks ==
    \A g \in ForgeIds :
        /\ run'[g].phase = "claimed" =>
              run[g].phase = "claimed" /\ run'[g].over = run[g].over
        /\ run'[g].phase = "writing" =>
              \/ run[g].phase = "claimed" /\ run'[g].over = run[g].over
              \/ run[g].phase = "writing" /\ run'[g].over \in {run[g].over, "other"}
              \/ forge[g].status # "processing"

Calm == CalmRows /\ CalmRuns /\ LooksFirst /\ CalmMarks

\* Such a step keeps all three.
LEMMA CalmKeeps ==
    ASSUME TypeOK, RunsFit, CalmRows, CalmRuns, CalmMarks PROVE RunsFit'
<1>w. QueueIds \subseteq Writers /\ ForgeIds \subseteq Writers /\ Revert \in Writers
  BY DEF Writers
<1>1. RowsFit'
  <2>1. ASSUME NEW q \in QueueIds, Live(q)', queue'[q].status # "absent"
        PROVE  queue'[q].file = run'[q].file
    BY <1>w, <2>1 DEF CalmRows, CalmQueue, CalmForge, CalmRuns, RunsFit, RowsFit
  <2>2. ASSUME NEW g \in ForgeIds, Live(g)', forge'[g].status # "absent"
        PROVE  forge'[g].file = run'[g].file
    BY <1>w, <2>2 DEF CalmRows, CalmQueue, CalmForge, CalmRuns, RunsFit, RowsFit
  <2>3. ASSUME Live(Revert)', reverting' # None PROVE run'[Revert].file = reverting'
    BY <1>w, <2>3 DEF CalmRows, CalmQueue, CalmForge, CalmRuns, RunsFit, RowsFit
  <2> QED BY <2>1, <2>2, <2>3 DEF RowsFit
<1>2. ForgeAlone'
  <2>1. ASSUME NEW g \in ForgeIds, NEW h \in ForgeIds, Live(g)', Live(h)' PROVE g = h
    BY <1>w, <2>1 DEF CalmRuns, RunsFit, ForgeAlone
  <2>2. ASSUME lock' = "forge", NEW g \in ForgeIds PROVE ~Live(g)'
    BY <1>w, <2>2 DEF CalmRows, CalmQueue, CalmForge, CalmRuns, RunsFit, ForgeAlone
  <2> QED BY <2>1, <2>2 DEF ForgeAlone
<1>3. Unrivalled'
  <2>1. ASSUME NEW g \in ForgeIds
        PROVE  /\ run'[g].phase = "claimed" => run'[g].over = "nothing"
               /\ run'[g].phase = "writing" /\ forge'[g].status = "processing"
                    => run'[g].over # "rival"
    BY DEF CalmRows, CalmQueue, CalmForge, CalmMarks, RunsFit, Unrivalled
  <2> QED BY <2>1 DEF Unrivalled
<1> QED BY <1>1, <1>2, <1>3 DEF RunsFit

\* Whoever swaps over a writing forge run has lost its row, or the forge has.
LEMMA NoRival ==
    ASSUME IInv, RunsFit, NEW x \in Writers, NEW g \in ForgeIds, x # g,
           run[x].phase = "writing", run[g].phase = "writing",
           run[x].file = run[g].file, Held(x)
    PROVE  forge[g].status # "processing"
<1> SUFFICES ASSUME forge[g].status = "processing" PROVE FALSE
  OBVIOUS
<1>1. Live(x) /\ Live(g)
  BY DEF Live
<1>2. /\ g \in Writers /\ run[g].file \in Files /\ forge[g].file = run[g].file
      /\ ForgeRows(run[g].file, {"processing"}) # {}
  <2>1. g \in Writers /\ forge[g].file = run[g].file
    BY <1>1 DEF Writers, RunsFit, RowsFit
  <2>2. run[g] \in RunRecord
    BY <2>1 DEF IInv, TypeOK
  <2>3. run[g].file \in Files
    BY <2>2 DEF RunRecord, IdleRun
  <2>4. g \in ForgeRows(run[g].file, {"processing"})
    BY <2>1 DEF ForgeRows
  <2> QED BY <2>1, <2>3, <2>4
<1>3. CASE x \in QueueIds
  <2>1. queue[x].status = "processing"
    BY <1>3, IdsDisjoint DEF Held
  <2>2. x \in QueueRows(run[g].file, {"processing"})
    BY <1>1, <1>3, <2>1 DEF RunsFit, RowsFit, QueueRows
  <2> QED BY <1>2, <2>2 DEF IInv, KindExclusion
<1>4. CASE x \in ForgeIds
  BY <1>1, <1>4 DEF RunsFit, ForgeAlone
<1>5. CASE x = Revert
  <2>1. reverting # None
    BY <1>5, IdsDisjoint DEF Held
  <2>2. reverting = run[g].file
    BY <1>1, <1>5, <2>1 DEF RunsFit, RowsFit
  <2> QED BY <1>2, <2>2 DEF IInv, KindExclusion
<1> QED BY <1>3, <1>4, <1>5 DEF Writers

\* A swap is calm.
LEMMA ReplaceCalm ==
    ASSUME IInv, RunsFit, NEW x \in Writers, run[x].phase = "writing", Replace(x),
           x \in ForgeIds \/ run[x].over = "nothing"
    PROVE  CalmRuns /\ LooksFirst /\ CalmMarks
<1> DEFINE kind == IF Held(x) THEN "rival" ELSE "other"
<1>1. run \in [Writers -> RunRecord] /\ ForgeIds \subseteq Writers
  BY DEF IInv, TypeOK, Writers
<1>r. ASSUME NEW w \in Writers, run[w].phase = "writing"
      PROVE  run[w] \in [phase : Phases, file : Files, over : Overtakes]
  BY <1>1, <1>r DEF RunRecord, IdleRun
<1>2. ASSUME NEW w \in Writers
      PROVE  \/ /\ w = x
                /\ run'[w].phase = "swapped" /\ run'[w].file = run[w].file
             \/ /\ w # x /\ run[w].file = run[x].file /\ run[w].phase = "writing"
                /\ run'[w].phase = "writing" /\ run'[w].file = run[w].file
                /\ run'[w].over = Worse(run[w].over, kind)
             \/ w # x /\ run'[w] = run[w]
  <2> HIDE DEF kind
  <2>0. run' = [v \in Writers |->
                  IF v = x THEN [run[v] EXCEPT !.phase = "swapped", !.over = "nothing"]
                  ELSE IF run[v].file = run[x].file /\ run[v].phase = "writing"
                    THEN [run[v] EXCEPT !.over = Worse(@, kind)]
                    ELSE run[v]]
    BY DEF Replace, kind
  <2>1. CASE w = x
    <3>1. run'[w] = [run[w] EXCEPT !.phase = "swapped", !.over = "nothing"]
      BY <2>0, <2>1
    <3>2. run[w] \in [phase : Phases, file : Files, over : Overtakes]
      BY <1>r, <2>1
    <3>3. run'[w].phase = "swapped" /\ run'[w].file = run[w].file
      BY <3>1, <3>2
    <3> QED BY <2>1, <3>3
  <2>2. CASE w # x /\ run[w].file = run[x].file /\ run[w].phase = "writing"
    <3>1. run'[w] = [run[w] EXCEPT !.over = Worse(@, kind)]
      BY <2>0, <2>2
    <3>2. run[w] \in [phase : Phases, file : Files, over : Overtakes]
      BY <1>r, <2>2
    <3>3. /\ run'[w].phase = run[w].phase /\ run'[w].file = run[w].file
          /\ run'[w].over = Worse(run[w].over, kind)
      BY <3>1, <3>2
    <3> QED BY <2>2, <3>3
  <2>3. CASE w # x /\ ~(run[w].file = run[x].file /\ run[w].phase = "writing")
    BY <2>0, <2>3
  <2> QED BY <2>1, <2>2, <2>3
<1> HIDE DEF kind
<1>3. CalmRuns
  BY <1>2 DEF CalmRuns, Live
<1>4. LooksFirst
  BY <1>2 DEF LooksFirst
<1>5. CalmMarks
  <2>1. ASSUME NEW g \in ForgeIds, g # x, run[g].file = run[x].file,
               run[g].phase = "writing", forge[g].status = "processing"
        PROVE  Worse(run[g].over, kind) \in {run[g].over, "other"}
    BY <2>1, NoRival DEF Worse, kind
  <2>2. ASSUME NEW g \in ForgeIds
        PROVE  /\ run'[g].phase = "claimed" =>
                    run[g].phase = "claimed" /\ run'[g].over = run[g].over
               /\ run'[g].phase = "writing" =>
                    \/ run[g].phase = "claimed" /\ run'[g].over = run[g].over
                    \/ run[g].phase = "writing" /\ run'[g].over \in {run[g].over, "other"}
                    \/ forge[g].status # "processing"
    <3>1. g \in Writers /\ run[g] \in RunRecord
      BY <1>1
    <3>2. CASE run'[g].phase = "swapped"
      BY <3>2
    <3>3. CASE /\ g # x /\ run[g].file = run[x].file /\ run[g].phase = "writing"
               /\ run'[g].phase = "writing" /\ run'[g].over = Worse(run[g].over, kind)
      BY <2>1, <3>3
    <3>4. CASE run'[g] = run[g]
      <4>1. run[g].phase = "writing" => run[g].over \in {run[g].over, "other"}
        OBVIOUS
      <4> QED BY <3>4, <4>1
    <3> QED BY <1>2, <3>1, <3>2, <3>3, <3>4
  <2> QED BY <2>2 DEF CalmMarks
<1> QED BY <1>3, <1>4, <1>5

\* Ending a run is calm.
LEMMA EndedCalm ==
    ASSUME TypeOK, NEW w \in Writers, run' = Ended(w)
    PROVE  CalmRuns /\ LooksFirst /\ CalmMarks
<1>1. IdleRun.phase = "idle"
  BY DEF IdleRun
<1>2. \A x \in Writers : run'[x] = run[x] \/ run'[x].phase = "idle"
  BY <1>1 DEF Ended, TypeOK
<1>3. CalmRuns
  BY <1>2 DEF CalmRuns, Live
<1>4. CalmMarks
  BY <1>2 DEF CalmMarks, Writers
<1>5. LooksFirst
  BY <1>2 DEF LooksFirst
<1> QED BY <1>3, <1>4, <1>5

\* Going on to any phase but the swap is calm.
LEMMA PhaseCalm ==
    ASSUME TypeOK, NEW w \in Writers, Live(w), NEW p, p # "swapped", run' = Phase(w, p),
           w \in ForgeIds => run[w].phase = "claimed" /\ p = "writing"
    PROVE  CalmRuns /\ LooksFirst /\ CalmMarks
<1>1. run[w] \in [phase : Phases, file : Files, over : Overtakes]
  BY DEF TypeOK, RunRecord, IdleRun, Live
<1>2. /\ run'[w].phase = p /\ run'[w].file = run[w].file /\ run'[w].over = run[w].over
      /\ \A x \in Writers \ {w} : run'[x] = run[x]
  BY <1>1 DEF TypeOK, Phase
<1>3. CalmRuns
  BY <1>2 DEF CalmRuns, Live
<1>4. CalmMarks
  BY <1>2 DEF CalmMarks, Writers
<1>5. LooksFirst
  BY <1>2 DEF LooksFirst
<1> QED BY <1>3, <1>4, <1>5

\* So is what leaves the runs alone, and what leaves the tables alone.
LEMMA CalmUnchanged ==
    /\ run' = run => CalmRuns /\ LooksFirst /\ CalmMarks
    /\ queue' = queue => CalmQueue
    /\ forge' = forge => CalmForge
  BY DEF CalmRuns, LooksFirst, CalmMarks, CalmQueue, CalmForge, Live

\* Writing a queue row is calm.
LEMMA CalmQueueRow ==
    ASSUME TypeOK, NEW q \in QueueIds, NEW s, queue' = QueueRow(q, s) PROVE CalmQueue
  BY DEF QueueRow, CalmQueue, TypeOK, QueueRecord, NoQueueRow

\* So is writing a forge row, unless the write claims it.
LEMMA CalmForgeRow ==
    ASSUME TypeOK, NEW g \in ForgeIds, NEW s, s # "processing", NEW u,
           forge' = ForgeRow(g, s, u)
    PROVE  CalmForge
  BY DEF ForgeRow, CalmForge, TypeOK

\* So is evaluating a file: a row it adds has an id no run uses.
LEMMA CalmEvaluation ==
    ASSUME TypeOK, NEW f \in Files, Evaluated(f, queue') PROVE CalmQueue
<1>1. \A q \in QueueIds : \/ queue'[q] = queue[q] \/ queue'[q] = NoQueueRow \/ Free(q)
  BY EvaluatedRow
<1> QED BY <1>1 DEF CalmQueue, NoQueueRow, Free

\* What requests do is calm.
LEMMA CalmRequest == ASSUME TypeOK, Request PROVE Calm
<1> USE CalmUnchanged DEF Calm, CalmRows
<1>1. ASSUME NEW f \in Files, EvaluateFile(f) PROVE Calm
  BY <1>1, CalmEvaluation DEF EvaluateFile
<1>2. ASSUME NEW f \in Files, DropRecord(f) PROVE Calm
  <2>1. CalmQueue
    BY <1>2 DEF DropRecord, Without, NoQueueRow, CalmQueue, TypeOK
  <2>2. CalmForge
    BY <1>2 DEF DropRecord, NoForgeRow, CalmForge, TypeOK
  <2> QED BY <1>2, <2>1, <2>2 DEF DropRecord
<1>3. ASSUME NEW f \in Files, QueueForge(f) PROVE Calm
  <2>1. PICK g \in ForgeIds :
           /\ Free(g)
           /\ forge' = [forge EXCEPT ![g] = [status |-> "pending", file |-> f,
                                             undo |-> FALSE]]
    BY <1>3 DEF QueueForge
  <2>2. CalmForge
    BY <2>1 DEF CalmForge, Free, TypeOK
  <2> QED BY <1>3, <2>2 DEF QueueForge
<1>4. ASSUME NEW f \in Files, ReplacedOutside(f) PROVE Calm
  <2>1. ASSUME NEW w \in Writers
        PROVE  \/ run'[w] = run[w]
               \/ /\ run[w].phase = "writing" /\ run'[w].phase = "writing"
                  /\ run'[w].file = run[w].file /\ run'[w].over = "other"
    <3>1. run[w].phase = "writing" =>
             run[w] \in [phase : Phases, file : Files, over : Overtakes]
      BY DEF TypeOK, RunRecord, IdleRun
    <3> QED BY <1>4, <3>1 DEF ReplacedOutside
  <2>2. CalmRuns
    BY <2>1 DEF CalmRuns, Live
  <2>3. CalmMarks
    BY <2>1 DEF CalmMarks, Writers
  <2>4. LooksFirst
    BY <2>1 DEF LooksFirst
  <2> QED BY <1>4, <2>2, <2>3, <2>4 DEF ReplacedOutside
<1>5. ASSUME NEW q \in QueueIds, AnswerReview(q) PROVE Calm
  BY <1>5, CalmQueueRow DEF AnswerReview
<1>6. ASSUME NEW q \in QueueIds, ForgetRow(q) PROVE Calm
  <2>1. CalmQueue
    BY <1>6 DEF ForgetRow, NoQueueRow, CalmQueue, TypeOK
  <2> QED BY <1>6, <2>1 DEF ForgetRow
<1>7. ASSUME NEW q \in QueueIds, AbortMark(q) PROVE Calm
  BY <1>7, CalmQueueRow DEF AbortMark
<1>8. ASSUME NEW q \in QueueIds, AbortCancel(q) PROVE Calm
  BY <1>8 DEF AbortCancel
<1>9. ASSUME NEW r \in Requests, ReadForRequest(r) PROVE Calm
  BY <1>9 DEF ReadForRequest
<1>10. ASSUME NEW r \in Requests, WriteForRequest(r)
       PROVE  Calm
  <2>1. /\ r.op = "cancel" => r.row \in QueueIds
        /\ r.op \in {"forgeCancel", "forgeUndo"} => r.row \in ForgeIds
    BY DEF Requests
  <2>2. CalmQueue /\ CalmForge
    BY <1>10, <2>1, CalmQueueRow, CalmForgeRow DEF WriteForRequest
  <2> QED BY <1>10, <2>2 DEF WriteForRequest
<1> QED BY <1>1, <1>2, <1>3, <1>4, <1>5, <1>6, <1>7, <1>8, <1>9, <1>10 DEF Request

\* So is what the runs do, their swaps included.
LEMMA CalmRun ==
    ASSUME IInv, RunsFit,
           \/ \E q \in QueueIds : QueueRun(q)
           \/ \E g \in ForgeIds : ForgeRun(g)
           \/ RevertRun
    PROVE  Calm
<1> USE CalmUnchanged DEF Calm, CalmRows
<1>t. TypeOK
  BY DEF IInv
<1>w. /\ QueueIds \subseteq Writers /\ ForgeIds \subseteq Writers /\ Revert \in Writers
      /\ \A q \in QueueIds : q \notin ForgeIds
      /\ Revert \notin ForgeIds
  BY IdsDisjoint DEF Writers
<1>1. ASSUME NEW q \in QueueIds, QueueRun(q) PROVE Calm
  <2>1. CASE StartQueueJob(q)
    BY <1>t, <1>w, <2>1, PhaseCalm DEF StartQueueJob, Live
  <2>2. CASE EndQueueJob(q)
    BY <1>t, <1>w, <2>2, EndedCalm, CalmQueueRow DEF EndQueueJob
  <2>3. CASE StopForChange(q)
    <3>1. CalmQueue
      BY <1>t, <2>3, CalmQueueRow DEF StopForChange
    <3>2. CalmRuns /\ LooksFirst /\ CalmMarks
      BY <1>t, <1>w, <2>3, PhaseCalm, EndedCalm DEF StopForChange, Live
    <3> QED BY <2>3, <3>1, <3>2 DEF StopForChange
  <2>4. CASE SwapQueueJob(q)
    BY <1>w, <2>4, ReplaceCalm DEF SwapQueueJob
  <2>5. CASE FinishQueueJob(q)
    <3>1. CalmQueue
      BY <1>t, <2>5, CalmQueueRow DEF FinishQueueJob
    <3>2. CalmRuns /\ LooksFirst /\ CalmMarks
      BY <1>t, <1>w, <2>5, PhaseCalm, EndedCalm DEF FinishQueueJob, Live
    <3> QED BY <2>5, <3>1, <3>2 DEF FinishQueueJob
  <2>6. CASE RedecideFile(q)
    <3>1. run[q].file \in Files
      BY <1>t, <1>w, <2>6 DEF RedecideFile, TypeOK, RunRecord, IdleRun
    <3>2. CalmQueue
      BY <1>t, <2>6, <3>1, CalmEvaluation DEF RedecideFile
    <3> QED BY <1>t, <1>w, <2>6, <3>2, EndedCalm DEF RedecideFile
  <2>7. CASE CutOffQueueJob(q)
    <3>1. CalmQueue
      BY <1>t, <2>7, CalmQueueRow DEF CutOffQueueJob
    <3> QED BY <1>t, <1>w, <2>7, <3>1, EndedCalm DEF CutOffQueueJob
  <2> QED BY <1>1, <2>1, <2>2, <2>3, <2>4, <2>5, <2>6, <2>7 DEF QueueRun
<1>2. ASSUME NEW g \in ForgeIds, ForgeRun(g) PROVE Calm
  <2>1. CASE StartForge(g)
    BY <1>t, <1>w, <2>1, PhaseCalm DEF StartForge, Live
  <2>2. CASE EndForge(g)
    <3>1. CalmForge
      BY <1>t, <2>2, CalmForgeRow DEF EndForge, ForgeOutcome
    <3> QED BY <1>t, <1>w, <2>2, <3>1, EndedCalm DEF EndForge
  <2>3. CASE SwapForge(g)
    BY <1>w, <2>3, ReplaceCalm DEF SwapForge
  <2>4. CASE FinishForge(g)
    <3>1. CalmForge
      BY <1>t, <2>4, CalmForgeRow DEF FinishForge, ForgeOutcome
    <3> QED BY <1>t, <1>w, <2>4, <3>1, EndedCalm DEF FinishForge
  <2>5. CASE CutOffForge(g)
    <3>1. CalmForge
      BY <1>t, <2>5, CalmForgeRow DEF CutOffForge, ForgeOutcome
    <3> QED BY <1>t, <1>w, <2>5, <3>1, EndedCalm DEF CutOffForge
  <2> QED BY <1>2, <2>1, <2>2, <2>3, <2>4, <2>5 DEF ForgeRun
<1>3. CASE RevertRun
  <2>1. CASE StartRevert
    BY <1>t, <1>w, <2>1, PhaseCalm DEF StartRevert, Live
  <2>2. CASE SwapRevert
    BY <1>w, <2>2, ReplaceCalm DEF SwapRevert
  <2>3. CASE EndRevert
    <3>1. ASSUME NEW g \in ForgeIds, forge'[g] # forge[g]
          PROVE  /\ forge[g].status = "undoable"
                 /\ forge'[g].status = "ended" /\ forge'[g].file = forge[g].file
      <4>1. forge[g].status = "undoable"
        BY <1>t, <2>3, <3>1 DEF EndRevert, ForgeRows, TypeOK
      <4>2. forge'[g] = [forge[g] EXCEPT !.status = "ended", !.undo = TRUE]
        BY <1>t, <2>3, <3>1 DEF EndRevert, TypeOK
      <4>3. forge[g] \in [status : ForgeStatus, file : Files, undo : BOOLEAN]
        BY <1>t, <4>1 DEF TypeOK, ForgeRecord, NoForgeRow
      <4> QED BY <4>1, <4>2, <4>3
    <3>2. CalmForge
      BY <3>1 DEF CalmForge
    <3> QED BY <1>t, <1>w, <2>3, <3>2, EndedCalm DEF EndRevert
  <2> QED BY <1>3, <2>1, <2>2, <2>3 DEF RevertRun
<1> QED BY <1>1, <1>2, <1>3

\* A claim begins a run of its row's file, with nothing over it; a forge claim
\* finds no other forge run.
LEMMA ClaimRuns == ASSUME IInv, RunsFit, Claim PROVE RunsFit' /\ LooksFirst
<1>t. TypeOK /\ run \in [Writers -> RunRecord]
  BY DEF IInv, TypeOK
<1>w. /\ QueueIds \subseteq Writers /\ ForgeIds \subseteq Writers /\ Revert \in Writers
      /\ \A q \in QueueIds : q \notin ForgeIds /\ q # Revert
      /\ Revert \notin ForgeIds
  BY IdsDisjoint DEF Writers
<1>n. None \notin Files
  BY IdsDisjoint
<1>0. CASE UNCHANGED <<queue, forge, reverting, run>> /\ lock' # "forge"
  BY <1>0 DEF RunsFit, RowsFit, ForgeAlone, Unrivalled, Live, LooksFirst
<1>1. ASSUME NEW q \in QueueIds, PickQueueJob(q) PROVE RunsFit' /\ LooksFirst
  BY <1>0, <1>1 DEF PickQueueJob
<1>2. ASSUME NEW g \in ForgeIds, PickForgeJob(g) PROVE RunsFit' /\ LooksFirst
  BY <1>2 DEF PickForgeJob, RunsFit, RowsFit, ForgeAlone, Unrivalled, Live, LooksFirst
<1>3. ASSUME NEW f \in Files, PickRevert(f) PROVE RunsFit' /\ LooksFirst
  BY <1>0, <1>3 DEF PickRevert
<1>4. CASE ClaimQueueJob
  <2>1. CASE queue[pick].status = "absent"
    BY <1>0, <1>4, <2>1 DEF ClaimQueueJob
  <2>2. CASE queue[pick].status # "absent"
    <3>1. pick \in QueueIds
      BY <1>t, <1>4 DEF ClaimQueueJob, TypeOK
    <3>2. /\ run'[pick].file = queue[pick].file
          /\ \A w \in Writers \ {pick} : run'[w] = run[w]
          /\ queue'[pick].file = queue[pick].file
          /\ \A q \in QueueIds \ {pick} : queue'[q] = queue[q]
          /\ UNCHANGED <<forge, reverting>> /\ lock' # "forge"
      BY <1>t, <1>w, <1>4, <2>2, <3>1
         DEF ClaimQueueJob, QueueRow, TypeOK, QueueRecord, NoQueueRow
    <3>3. RowsFit'
      <4>1. ASSUME NEW q \in QueueIds, Live(q)', queue'[q].status # "absent"
            PROVE  queue'[q].file = run'[q].file
        BY <1>w, <3>2, <4>1 DEF RunsFit, RowsFit, Live
      <4>2. \A w \in ForgeIds \cup {Revert} : run'[w] = run[w]
        BY <1>w, <3>1, <3>2
      <4> QED BY <3>2, <4>1, <4>2 DEF RunsFit, RowsFit, Live
    <3>4. \A g \in ForgeIds : run'[g] = run[g]
      BY <1>w, <3>1, <3>2
    <3>5. LooksFirst
      <4>1. run'[pick].phase = "claimed"
        BY <1>t, <1>w, <1>4, <2>2, <3>1 DEF ClaimQueueJob
      <4> QED BY <3>2, <4>1 DEF LooksFirst
    <3> QED BY <3>2, <3>3, <3>4, <3>5 DEF RunsFit, ForgeAlone, Unrivalled, Live
  <2> QED BY <2>1, <2>2
<1>5. CASE ClaimForgeJob
  <2>1. CASE forge[pick].status = "absent"
    BY <1>0, <1>5, <2>1 DEF ClaimForgeJob
  <2>2. CASE forge[pick].status # "absent"
    <3>1. pick \in ForgeIds /\ lock = "forge"
      BY <1>t, <1>5 DEF ClaimForgeJob, TypeOK
    <3>2. /\ run'[pick] = [phase |-> "claimed", file |-> forge[pick].file,
                           over |-> "nothing"]
          /\ \A w \in Writers \ {pick} : run'[w] = run[w]
          /\ forge'[pick].file = forge[pick].file
          /\ \A g \in ForgeIds \ {pick} : forge'[g] = forge[g]
          /\ UNCHANGED <<queue, reverting>> /\ lock' # "forge"
      BY <1>t, <1>w, <1>5, <2>2, <3>1 DEF ClaimForgeJob, ForgeRow, TypeOK
    <3>3. \A g \in ForgeIds \ {pick} : ~Live(g)'
      BY <1>w, <3>1, <3>2 DEF RunsFit, ForgeAlone, Live
    <3>4. \A w \in QueueIds \cup {Revert} : run'[w] = run[w]
      BY <1>w, <3>1, <3>2
    <3>5. RowsFit'
      BY <3>2, <3>3, <3>4 DEF RunsFit, RowsFit, Live
    <3>6. ForgeAlone'
      BY <3>2, <3>3 DEF ForgeAlone
    <3>7. Unrivalled'
      BY <3>2, <3>3 DEF Unrivalled, Live
    <3>8. LooksFirst
      BY <3>2 DEF LooksFirst
    <3> QED BY <3>5, <3>6, <3>7, <3>8 DEF RunsFit
  <2> QED BY <2>1, <2>2
<1>6. CASE AcquireRevert
  <2>1. CASE UNCHANGED <<reverting, run>>
    BY <1>0, <1>6, <2>1 DEF AcquireRevert
  <2>2. CASE ~UNCHANGED <<reverting, run>>
    <3>1. /\ reverting' = pick /\ run'[Revert].file = pick
          /\ run'[Revert].phase = "claimed"
          /\ \A w \in Writers \ {Revert} : run'[w] = run[w]
          /\ UNCHANGED <<queue, forge>> /\ lock' # "forge"
      BY <1>t, <1>w, <1>6, <2>2 DEF AcquireRevert
    <3>2. \A w \in QueueIds \cup ForgeIds : run'[w] = run[w]
      BY <1>w, <3>1
    <3> QED BY <3>1, <3>2 DEF RunsFit, RowsFit, ForgeAlone, Unrivalled, Live, LooksFirst
  <2> QED BY <2>1, <2>2
<1> QED BY <1>1, <1>2, <1>3, <1>4, <1>5, <1>6 DEF Claim

\* A run that holds its row never puts its output over one that another run put
\* there while holding its own: for any files, rows and slots, and with aborts,
\* cancellations and removed records at any moment.
THEOREM NothingLostSilently == Spec => NoSilentReplacement
<1>1. Init => RunsFit
  BY DEF Init, RunsFit, RowsFit, ForgeAlone, Unrivalled, Live, IdleRun, NoQueueRow,
         NoForgeRow, Writers
<1>2. IInv /\ RunsFit /\ [Next]_vars => RunsFit' /\ LooksFirst
  <2> SUFFICES ASSUME IInv, RunsFit, [Next]_vars PROVE RunsFit' /\ LooksFirst
    OBVIOUS
  <2>t. TypeOK
    BY DEF IInv
  <2>1. CASE UNCHANGED vars
    BY <2>1 DEF vars, LooksFirst, RunsFit, RowsFit, ForgeAlone, Unrivalled, Live
  <2>2. CASE Claim
    BY <2>2, ClaimRuns
  <2>3. CASE Request
    BY <2>t, <2>3, CalmRequest, CalmKeeps DEF Calm
  <2>4. ASSUME \/ \E q \in QueueIds : QueueRun(q)
               \/ \E g \in ForgeIds : ForgeRun(g)
               \/ RevertRun
        PROVE  RunsFit' /\ LooksFirst
    BY <2>t, <2>4, CalmRun, CalmKeeps DEF Calm
  <2>5. CASE Stop
    BY <2>5 DEF Stop, LooksFirst, RunsFit, RowsFit, ForgeAlone, Unrivalled, Live
  <2>6. CASE Restart
    BY <2>6 DEF Restart, LooksFirst, RunsFit, RowsFit, ForgeAlone, Unrivalled, Live,
       IdleRun, Writers
  <2> QED BY <2>1, <2>2, <2>3, <2>4, <2>5, <2>6 DEF Next
<1>3. IInv /\ RunsFit /\ [Next]_vars =>
        [\A w \in Writers :
            run[w].phase = "writing" /\ run'[w].phase = "swapped" /\ Held(w)
              => run[w].over # "rival"]_vars
  <2> SUFFICES ASSUME IInv, RunsFit, Next, NEW w \in Writers,
                      run[w].phase = "writing", run'[w].phase = "swapped", Held(w)
               PROVE  run[w].over # "rival"
    OBVIOUS
  <2>1. CASE w \in ForgeIds
    BY <2>1, IdsDisjoint DEF Held, RunsFit, Unrivalled
  <2>2. CASE w \notin ForgeIds
    BY <1>2, <2>2 DEF LooksFirst
  <2> QED BY <2>1, <2>2
<1> QED BY <1>1, <1>2, <1>3, InvariantHolds, PTL DEF Spec, NoSilentReplacement

=============================================================================
