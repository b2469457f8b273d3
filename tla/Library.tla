------------------------------ MODULE Library -------------------------------
(***************************************************************************)
(* The library folder, the records of its files, and what adds, moves and  *)
(* removes them: the scan, the webhooks (Intake) and a job that changes a  *)
(* file's name.  The folder is a share that may not be mounted.            *)
(*                                                                         *)
(* A record is [id, file]: the file its answers and history are about.      *)
(***************************************************************************)
EXTENDS Intake

CONSTANTS
    Files,
    MaxScans,       \* bounds on scans,
    MaxJobs,        \* jobs,
    MaxMoves,       \* files renamed, deleted or put in the place of another,
    MaxMounts,      \* and the share going away and coming back
    Gaps            \* whether a file, a record or the share may move while a cleanup
                    \* is between the reads it removes a record on

ASSUME LibraryBounds ==
    {MaxScans, MaxJobs, MaxMoves, MaxMounts} \subseteq Nat /\ Gaps \in BOOLEAN

VARIABLES
    disk,       \* path -> the file there
    mounted,
    record,     \* MediaFile: path -> record
    job,        \* the job under way: [pc, id, from, to]
    running,    \* _scan_running
    cancel,     \* _scan_cancel_requested
    scan,       \* the scan thread: [pc, todo, held, left, listed, doomed]
    renames,    \* renames on disk the service has yet to announce
    used        \* bounds

libraryVars == <<disk, mounted, record, job, running, cancel, scan, renames, used>>
vars == <<intakeVars, libraryVars>>

NoFile == "none"
NoRecord == [id |-> 0, file |-> NoFile]
Idle == [pc |-> "idle"]

Visible(p) == mounted /\ disk[p] # NoFile
PathsOf(id) == {p \in Paths : record[p].id = id}
Busy(id) == job.pc \in {"running", "swapped"} /\ job.id = id
Looking == scan.pc = "cleaning" /\ scan.doomed # 0

Init ==
    /\ IntakeInit
    /\ disk \in {d \in [Paths -> Files \cup {NoFile}] :
                    \A p, q \in Paths : d[p] = d[q] /\ d[p] # NoFile => p = q}
    /\ mounted = TRUE /\ renames = {}
    /\ record = [p \in Paths |-> NoRecord]
    /\ job = Idle /\ running = FALSE /\ cancel = FALSE /\ scan = Idle
    /\ used = [records |-> 0, scans |-> 0, jobs |-> 0, moves |-> 0, mounts |-> 0]

Count(what) == used' = [used EXCEPT ![what] = @ + 1]

-----------------------------------------------------------------------------
(* Evaluation and the webhooks.                                            *)

\* _process_file: what is there has a record from now on.
Evaluated(p) ==
    /\ record' = IF ~Visible(p) THEN record
                 ELSE [record EXCEPT ![p] =
                        [id |-> IF @.id = 0 THEN used.records + 1 ELSE @.id,
                         file |-> disk[p]]]
    /\ used' = IF Visible(p) /\ record[p].id = 0
               THEN [used EXCEPT !.records = @ + 1] ELSE used

\* move_renamed_file
MoveRecord(old, new) ==
    IF /\ record[old].id # 0 /\ ~Visible(old) /\ Visible(new)
       /\ record[new].id # 0 => ~Busy(record[new].id)
    THEN record' = [record EXCEPT ![new] = record[old], ![old] = NoRecord]
    ELSE record' = record

Import(p) ==
    /\ Visible(p)
    /\ Receive(p) \/ ReceiveUnwritten(p)
    /\ UNCHANGED libraryVars

Announce(rename) ==
    /\ Looking => Gaps
    /\ MoveRecord(rename[1], rename[2])
    /\ Receive(rename[2])
    /\ renames' = renames \ {rename}
    /\ UNCHANGED <<disk, mounted, job, running, cancel, scan, used>>

LookEvaluates(th) ==
    /\ Look(th) /\ Evaluated(th.path)
    /\ UNCHANGED <<disk, mounted, job, running, cancel, scan, renames>>

WebhookGoes ==
    /\ \/ \E h \in handlers : Arm(h)
       \/ \E t \in tasks : Fire(t) \/ Attempt(t) \/ Unwind(t)
       \/ \E th \in threads : Forget(th)
       \/ Restart
    /\ UNCHANGED libraryVars

-----------------------------------------------------------------------------
(* The scan.                                                               *)

\* Variant: the flag is kept although no thread started.
FlagKept(started) == TRUE

\* Whoever sets the flag hands it to a thread that runs, or takes it back.
FlagAfter(started) == started

\* trigger_scan, and the scheduler when a time came round.
Launch ==
    /\ up /\ ~running /\ used.scans < MaxScans
    /\ \E started \in BOOLEAN :
        /\ running' = FlagAfter(started)
        /\ scan' = IF started THEN [pc |-> "starting"] ELSE scan
    /\ Count("scans")
    /\ UNCHANGED <<intakeVars, disk, mounted, record, job, cancel, renames>>

CancelScan ==
    /\ running /\ ~cancel /\ cancel' = TRUE
    /\ UNCHANGED <<intakeVars, disk, mounted, record, job, running, scan, renames, used>>

\* _run_scan begins, and the walk lists the folder.
StartScan ==
    /\ scan.pc = "starting"
    /\ cancel' = FALSE
    /\ scan' = [pc |-> "walking", todo |-> {p \in Paths : Visible(p)}, held |-> {}]
    /\ UNCHANGED <<intakeVars, disk, mounted, record, job, running, renames, used>>

\* One file; the session holds its row as it was then.
WalkFile(p) ==
    /\ scan.pc = "walking" /\ p \in scan.todo
    /\ Evaluated(p)
    /\ scan' = IF cancel THEN Idle
               ELSE [scan EXCEPT !.todo = @ \ {p},
                        !.held = IF record'[p].id = 0 THEN {}
                                 ELSE {[id |-> record'[p].id, path |-> p]}]
    /\ running' = ~cancel
    /\ UNCHANGED <<intakeVars, disk, mounted, job, cancel, renames>>

\* cleanup_deleted_files reads the table; a row it holds keeps its old path.
ListRecords ==
    /\ scan.pc = "walking" /\ scan.todo = {}
    /\ LET stale == {h \in scan.held : PathsOf(h.id) # {}}
           fresh == {[id |-> record[p].id, path |-> p] :
                        p \in {q \in Paths : record[q].id \notin {h.id : h \in stale} \cup {0}}}
       IN  scan' = [pc |-> "cleaning", left |-> stale \cup fresh, listed |-> "no",
                        doomed |-> 0]
    /\ UNCHANGED <<intakeVars, disk, mounted, record, job, running, cancel, renames, used>>

\* Variant: the row is not read again.
AsListed(c) == {c.path}

\* db.refresh: where the record is now, nowhere if it is gone.
Refreshed(c) == PathsOf(c.id)

\* Variant: a missing file was deleted.
AlwaysShown == "yes"

\* _deletion_is_shown, asked once in a pass: something is left in the folder.
Shown ==
    IF scan.listed # "no" THEN scan.listed
    ELSE IF \E p \in Paths : Visible(p) THEN "yes" ELSE "empty"

\* A row that is there no more is doomed when both its old and its new name are
\* missing, and something shows that the folder is there.
LookAt(c) ==
    /\ scan.pc = "cleaning" /\ scan.doomed = 0 /\ c \in scan.left
    /\ LET missing == ~Visible(c.path) /\ \E p \in Refreshed(c) : ~Visible(p)
       IN  scan' = [scan EXCEPT
                        !.left = @ \ {c},
                        !.listed = IF missing THEN Shown ELSE @,
                        !.doomed = IF missing /\ Shown = "yes" THEN c.id ELSE 0]
    /\ UNCHANGED <<intakeVars, disk, mounted, record, job, running, cancel, renames, used>>

\* _delete_media_file_and_related, unless a job runs for the row by now.
RemoveRecord ==
    /\ Looking
    /\ scan' = [scan EXCEPT !.doomed = 0]
    /\ record' = IF Busy(scan.doomed) THEN record
                 ELSE [p \in Paths |-> IF record[p].id = scan.doomed THEN NoRecord ELSE record[p]]
    /\ UNCHANGED <<intakeVars, disk, mounted, job, running, cancel, renames, used>>

EndScan ==
    /\ scan.pc = "cleaning" /\ scan.left = {} /\ scan.doomed = 0
    /\ scan' = Idle /\ running' = FALSE
    /\ UNCHANGED <<intakeVars, disk, mounted, record, job, cancel, renames, used>>

-----------------------------------------------------------------------------
(* A job, which may give its file another name.                            *)

StartJob(p, q) ==
    /\ up /\ job = Idle /\ used.jobs < MaxJobs
    /\ record[p].id # 0 /\ Visible(p) /\ (q = p \/ disk[q] = NoFile)
    /\ job' = [pc |-> "running", id |-> record[p].id, from |-> p, to |-> q, file |-> disk[p]]
    /\ Count("jobs")
    /\ UNCHANGED <<intakeVars, disk, mounted, record, running, cancel, scan, renames>>

\* The swap, and the original removed; or the job stops, its source changed.
SwapJob ==
    /\ job.pc = "running"
    /\ Looking => Gaps
    /\ IF Visible(job.from) /\ disk[job.from] = job.file
          /\ (job.to = job.from \/ disk[job.to] = NoFile)
       THEN /\ disk' = [disk EXCEPT ![job.from] = NoFile, ![job.to] = job.file]
            /\ job' = [job EXCEPT !.pc = "swapped"]
       ELSE disk' = disk /\ job' = Idle
    /\ UNCHANGED <<intakeVars, mounted, record, running, cancel, scan, renames, used>>

\* _finish_job: the record takes the name of the output, and the place of any
\* record a scan has given it.
FinishJob ==
    /\ job.pc = "swapped" /\ job' = Idle
    /\ Looking => Gaps
    /\ record' = [p \in Paths |->
                    IF PathsOf(job.id) = {} THEN record[p]
                    ELSE IF p = job.to THEN [id |-> job.id, file |-> job.file]
                    ELSE IF p \in PathsOf(job.id) THEN NoRecord ELSE record[p]]
    /\ UNCHANGED <<intakeVars, disk, mounted, running, cancel, scan, renames, used>>

-----------------------------------------------------------------------------
(* The service, the user and the share.                                    *)

\* Not while a job's output waits for its record.
Moved(d) ==
    /\ job.pc # "swapped" /\ (Looking => Gaps)
    /\ mounted /\ used.moves < MaxMoves /\ Count("moves")
    /\ disk' = d
    /\ UNCHANGED <<intakeVars, mounted, record, job, running, cancel, scan>>

RenameFile(p, q) ==
    /\ Visible(p) /\ disk[q] = NoFile
    /\ Moved([disk EXCEPT ![p] = NoFile, ![q] = disk[p]])
    /\ renames' = renames \cup {<<p, q>>}

\* Deleted, or another file in its place.
ReplaceFile(p, f) ==
    /\ f # disk[p] /\ f \notin {disk[q] : q \in Paths} \ {NoFile}
    /\ Moved([disk EXCEPT ![p] = f])
    /\ renames' = renames

ShareMoves ==
    /\ used.mounts < MaxMounts /\ Count("mounts")
    /\ scan.pc = "cleaning" => Gaps
    /\ mounted' = ~mounted
    /\ UNCHANGED <<intakeVars, disk, record, job, running, cancel, scan, renames>>

StopAll ==
    /\ Stop
    /\ scan' = Idle /\ running' = FALSE /\ cancel' = FALSE /\ job' = Idle
    /\ UNCHANGED <<disk, mounted, record, renames, used>>

-----------------------------------------------------------------------------
ScanGoes ==
    \/ StartScan \/ ListRecords \/ EndScan
    \/ \E p \in Paths : WalkFile(p)
    \/ \E c \in [id : 1 .. used.records, path : Paths] : LookAt(c)
    \/ RemoveRecord

Next ==
    \/ \E p \in Paths : Import(p)
    \/ \E r \in renames : Announce(r)
    \/ WebhookGoes \/ \E th \in threads : LookEvaluates(th)
    \/ Launch \/ CancelScan \/ ScanGoes
    \/ \E p, q \in Paths : StartJob(p, q) \/ RenameFile(p, q)
    \/ SwapJob \/ FinishJob
    \/ \E p \in Paths, f \in Files \cup {NoFile} : ReplaceFile(p, f)
    \/ ShareMoves \/ StopAll

Spec ==
    /\ Init /\ [][Next]_vars
    /\ WF_vars(WebhookGoes) /\ WF_vars(\E th \in threads : LookEvaluates(th))
    /\ WF_vars(ScanGoes)

-----------------------------------------------------------------------------
TypeOK ==
    /\ IntakeTypeOK
    /\ disk \in [Paths -> Files \cup {NoFile}] /\ mounted \in BOOLEAN
    /\ record \in [Paths -> [id : 0 .. used.records, file : Files \cup {NoFile}]]
    /\ \A p, q \in Paths : record[p].id = record[q].id /\ record[p].id # 0 => p = q
    /\ job.pc \in {"idle", "running", "swapped"}
    /\ scan.pc \in {"idle", "starting", "walking", "cleaning"}
    /\ running <=> scan # Idle

\* The end of a job, which takes the record it ran for to its output although a
\* late Rename event has given that record to another file meanwhile.
TakenAlong(p) == FinishJob /\ record[p].id = job.id /\ p # job.to

\* A file that stays where it is, mounted or not, keeps the record that carries
\* its answers and history, whatever scan, webhook or job comes by; only a service
\* that says the file was another's until now puts that one's in its place, and
\* only the job a record is taken along by leaves none.
HistoryKept ==
    [][\A p \in Paths :
          record[p].id # 0 /\ record[p].file = disk[p] /\ disk'[p] = disk[p]
            => \/ /\ record'[p].id # 0
                  /\ record'[p].file = disk[p] \/ \E r \in renames : r[2] = p
               \/ TakenAlong(p)]_vars

\* What the end of a job breaks: that record is the file's to keep as well.
NoneTakenAlong == [][\A p \in Paths : TakenAlong(p) => record[p].file # disk[p]]_vars
=============================================================================
