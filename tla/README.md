# Remuxarr in TLA+

Models, checks and proofs of Remuxarr, which strips and converts the tracks of
media files in place.  Line numbers are those of the commit beside this
directory; `worker.py` and the like are under `src/app/core/` unless a path
says otherwise.  `PROJECT.json` maps each definition to the lines it stands for.

## 1. The system

One Python process: an asyncio event loop, a pool of executor threads, the
threads FastAPI runs its synchronous routes in, one SQLite database, FFmpeg and
mkvtoolnix as subprocesses.

| Component | State | Operations | Talks to | Hard because | Correct when |
|---|---|---|---|---|---|
| Claims and writers (`revert_lock.py`, `worker.py`, `forge.py`, `routes/revert.py`) | `CLAIM_LOCK`, `_reverting_file_id`, the statuses in `queue_items` and `ac3_forge_jobs` | claim a queue job, claim a forge job, start a revert, swap an output in | every route and scan that moves a row | the check and the claim are separate reads and writes, routes do not take the lock, rows are deleted and ids reused | two kinds of writer never hold a file at once; no run silently overwrites another's work |
| Worker loop (`worker.py` 321-445) | `active_tasks`, `_forge_task`, `_paused`, `_auto_start_seen` | prune, forge first, claim, pause when idle, resume, auto-start | pause, resume and abort routes in other threads | the flags change between its awaits; two kinds of job share one limit | the limit is kept, nobody is starved, a manual run is not cut short |
| Queue job runner (`worker.py` 448-1516, 2097-2470) | a row, a task, the executor calls of that task | load, run, swap, record, requeue, emergency-fail, announce; abort, retry, stop, recover | staged runs, the queue routes, Sonarr, Radarr and Plex notifications | cancelling a task does not stop its executor calls; every commit may fail | no row is left `processing` with nobody on it; a replaced file's job is not run again |
| Staged subprocess (`subprocess_runner.py`) | temps, `.part` files, destinations, a copying thread | run, copy, flush, two hooks, replace loop, cleanup, sweep at start-up | every job, forge run and revert | cancellation beside an uninterruptible copy, power cuts, several outputs | a destination is never half written; nothing is left behind; refused means untouched |
| AC3 forge (`forge.py`, `worker.py` 3139-3399, `routes/forge.py`) | `ac3_forge_jobs` rows with `is_undo` | queue, cancel, undo, run, finish | the worker loop, reverts | which track is the forged one is told from its place; a failed commit leaves a row nobody ends | an undo removes the forge's track; each row ends or can be retried |
| Revert capture and restore (`revert*.py`, `recycle.py`) | sidecar files, `revert_points` rows | capture, extend, record, retain, discard, attach, restore, empty the bin | job runner, forge, scanner | file and row are written in separate steps by several actors; streams are paired by what ffprobe says of them | what was taken can be got back; a revert gives back what it was begun for; no stray sidecar stays |
| Decision engine (`decision.py`, `langcodes.py`) and command builder (`ffmpeg.py`) | none | tracks, settings and answers in; a review, or actions and the new file, out | scanner, worker, reviews | languages, undefined tracks, extraction, container and tags meet | audio is never emptied, no wanted track is lost, a pass leaves nothing to do |
| Scanner: one file (`scanner.py` 1044-1524) | `media_files` with its stamp and answers, tracks, language flags | delta check, probe, forget answers of a replaced file, decide, raise a review or queue | decision engine, all routes that re-evaluate, the job's end | the file changes while it is read; evaluations and jobs overlap; a session writes only changed columns | what is skipped is described by its rows; an answer stays with its track and is carried out |
| Scanner: the library (`scanner.py` 282-425, 690-900) | the walk's session, the records | walk, cleanup of deleted files, renames | webhooks, jobs that rename | the session's rows are as old as the walk; a share goes away | a file that stays keeps its record |
| Scan routes, scheduler (`routes/scan.py`, `scheduler.py`) | scan flag, cancel flag, next-run times | start, cancel, scheduled jobs | scanner | several starters of one scan; a thread that does not start | the flag is set exactly while a scan runs |
| Language review (`routes/_language_review.py`) | answers, ignores, the mark `needs_reevaluation` | answer, ignore, acknowledge | scanner, running jobs | an answer during a run that was decided without it | every answer is carried out |
| Webhooks (`routes/webhooks.py`) | table `webhook_intake`, `_pending` tasks, threads | receive, debounce, queue, forget, replay | scanner | a timer is replaced while the old one unwinds; the process stops | an accepted event is attempted |
| Queue and review routes (`routes/queue.py`, `routes/history.py`) | the queue rows | cancel, retry, answer, ask again, prioritise, clear | worker, scanner | read-decide-write against a running claim | no request undoes a claim |
| Failure e-mail (`worker.py` 3019-3118, `email_notify.py`) | consecutive-failure counter | count, trip, send | job tasks in several threads | no lock | trips once, at the limit |
| Plex (`plex.py`) | analyse backlog | fill, drain | job tasks, scheduler | filled while drained | nothing is dropped |
| Sonarr, Radarr, settings, backup, session, paths, WebSocket, start-up, frontend | see `PROJECT.json` | | | | |

## 2. Modules

| Module | Models | Composed with |
|---|---|---|
| `FileWriters` | claims, routes and runs of the three kinds of writer | - |
| `FileWriters_proofs` | TLAPS: types, writer exclusion, no silent replacement | extends `FileWriters` |
| `WorkerLoop` | `_loop`, a step per await | - |
| `WorkerLoop_proofs` | TLAPS: types, the slot limit, manual runs | extends `WorkerLoop` |
| `JobRunner` | one job from claim to announcement | - |
| `JobRunner_proofs` | TLAPS: types, no stranded row, safe requeues | extends `JobRunner` |
| `OrderedSwap` | abstract: what a staged run promises | implemented by `StagedRun` |
| `StagedRun` | `run_staged_subprocess`, its thread, and the sweep | refines `OrderedSwap` |
| `StagedRun_proofs` | TLAPS: types, whole destinations, the refinement, cleanup | extends `StagedRun` |
| `StreamMaps` | streams in order, and `dict.update` | used by the two below and `RevertPoints` |
| `Decision` | `analyze_file` and the file a job makes, as operators | used by `Passes`, `FileLife` |
| `Answers` | descriptors of tracks, and answers carried from file to file | used by `Passes`, `FileLife` |
| `Passes` | a file decided, reviewed and rewritten until nothing is left | extends both |
| `Passes_proofs` | TLAPS: types, audio, MP4, kept tracks, answers, `.srt` files | extends `Passes` |
| `FileLife` | one file's record under scans, a job, answers and replacement | extends both |
| `FileLife_proofs` | TLAPS: types, the delta check, questions and answers | extends `FileLife` |
| `RevertPoints` | sidecars and points through runs, reverts, sweeps and upgrades | - |
| `RevertPoints_proofs` | TLAPS: types, pairing, places, undo, reverts, kept originals | extends `RevertPoints` |
| `Intake` | webhook events, their rows, timers and threads | - |
| `Library` | the records of a folder under scan, cleanup, webhooks, jobs, a share | extends `Intake` |
| `Library_proofs` | TLAPS: types, the scan flag, kept records; of `Intake`: types, rows on disk, one timer per path | extends `Library` |
| `MC...` | the cases, and symmetry sets, for TLC | extend theirs |

The modules look at the same process at different grains.  `FileWriters` has all
writers and every request, and of a run only what decides who writes a file.
`WorkerLoop` has the scheduling, `JobRunner` the life of a job whose swap is one
step, `StagedRun` that swap.  `Passes` has what the decisions make of a file when
nothing else happens, `FileLife` what else can happen, with the same decisions.
`RevertPoints` has the streams of a file where the others have its tracks, and
`Library` the names of files where the others have one.

### FileWriters

`queue` and `forge` are the two tables (status and file by row id), `lock` and
`pick` are `CLAIM_LOCK` and what its holder found, `reverting` is
`_reverting_file_id`, `run` is one run per row plus the revert.  A claim is two
actions, `Pick...` (the SELECT under the lock) and `Claim...` or
`AcquireRevert` (the write), so any route can come between.  A route that reads
a row and writes it later is `ReadForRequest` and `WriteForRequest`; an abort
is `AbortMark` and `AbortCancel`.  `EvaluateFile` is `_process_file` for every
outcome of the decision: rows are superseded, a review raised or a job queued,
inside one write transaction.  Statuses a finished row can have are one,
`ended`.  Of a file's bytes the module keeps, per run, the worst of what was
written since the run read the file: nothing; something from outside, or the
output of a run whose row had been taken from it; the output of a run that held
its row.
One request at a time is between its read and its write (`ReadForRequest`).
An id is used again only when nothing holds it; the reuse of the id of a job
still winding down is the subject of `JobRunner`.

### WorkerLoop

One action per step between two awaits of `_loop`: `StartPass` (prune, settings,
the auto-start edge), `Look` (pause flag and the forge task), `AskForge`
(`_has_pending_forge`), `ClaimJob`, `LaunchJob`, `StopClaiming`, `EndPass`.
Forge tasks claim for themselves, as `_process_next_forge` does.  `Pause`,
`Resume`, `SetAutoStart`, `StartRevert`, `QueueJob` and `QueueForge` come from
other threads at any point.  A job just holds its slot until it ends.

### JobRunner

A row, a task, and the calls it has left behind.  `task[t].at` is what a task
waits for; a call commits (`CallCommits`) separately from the task's going on
(`Resumes`), and a cancelled task moves its call to `left`, from where it
commits whenever it likes (`LeftCommits`).  Each call is a set of outcomes, the
tables it may leave: `Loads`, `Finishes` (`_finish_job` does not ask whether the
row still runs), `CancelsForChange`, `Requeues`, `EmergencyFails`.  An abort is
`AbortFind`, `AbortRead`, `AbortMark`, `AbortCancel`, as `abort_job` has a
session and a registry lookup of its own.  `NewId` is SQLite's choice without
AUTOINCREMENT, 1 + the highest id, which is how a retry gets its predecessor's.
Left out: the forge, the loop's pause at the end of a manual run (both in
`WorkerLoop`), and the separate re-evaluation after a changed source
(`redeciding` in `FileWriters`).  Reads do not fail.  One abort at a time.

### StagedRun and OrderedSwap

`pc` is the coroutine, `copy` and `out` the thread of `_stage_parts`, `temp`,
`part` and `final` the contents on disk, `proc` the program.  The thread opens
its source, creates the `.part`, writes and flushes in separate steps, since the
order of the first two is what `_copy_and_flush` says its caller's cleanup rests
on.  The removals are one step per path, because the thread may be live beside
them.  `Cancel` is delivered at any await of the coroutine, the waits inside the
handlers included.  A power cut takes what was not flushed, and may undo any of
the renames, whose directory is not (`subprocess_runner.py:459`): the old file is
back, its `.part` beside it.  `Sweep` is
`_cleanup_orphaned_temp_files` and leaves any subset, as files under five
minutes old stay.  `OrderedSwap` keeps only which destinations are replaced and
how the run reports it; `StagedRun` maps to it by `Replaced` (read off the
destinations, not off the loop's counter) and `Result`.
Progress callbacks may raise, as the handlers expect, though those the callers
pass today do not: their broadcasts swallow every error.
A run begins with no leftovers of an earlier one of the same id, removing a
file does not fail, and a killed program writes nothing more.

### Decision, Answers and Passes

`Decision` has no state.  `f`, `s` and `a` are a file, the settings and the
answers given for it by stream index; each operator is one thing `analyze_file`
or the passes after it work out: `AudioKept` with its fallback, `Flagged` (a
review, while there is one nothing is done), `Extracted` and `Embedded`,
`Converts`, `UndefinedAudio` and `UndefinedSubs` with the "Apply To" rule,
`Fixed`, `Corrected`, `LangWritten`, `Named` (the `.srt` names in the order
they are given out), `HasWork`, and `Output`, the file `build_ffmpeg_command`
asks for.  Codecs are cut down to a few kinds that differ in what MP4 and the
extraction make of them, languages to a listed one in its two spellings, another
and none.  `Answers` is the ledger in `scanner.py`: a `Descriptor` is a track's
shape and its ordinal among those of the same shape, `Resolve` finds answers
again, `JobMapping` and `Rekey` carry them to the file a job made.

`Passes` runs the two to rest: `Decide`, `AnswerReview`, `SetLanguage`,
`Acknowledge`, `Run`.  `stored` are the three answer columns, `folder` the `.srt`
files beside the file, with the track each one's content is from.  `id` of a
track is what it is across rewrites; only properties read it.  In `Decide` and
`Run`, `\E x \in {e}` stands for `LET x == e`: TLC then works `e` out once.
`Run` gives out the `.srt` names and writes the files in one step; a file that
somebody else puts under such a name while FFmpeg runs is not modelled.
`CasesGiven` says what a file is: it has audio, its tracks are told apart, an MP4
holds what MP4 can, and its subtitles have codecs `decision.py` lists.  Of any
other codec (`dvb_teletext`, say) the code assumes that MP4 takes it; such files
are left out, and `MuxFits` says nothing of them.  So are files without audio, of
which `AudioStays` has nothing to say.

### FileLife

`disk` is the file with its stamp (size and mtime), `record` the row with the
tracks, the stamp and the answers read into it, `flags` and `asked` the open
questions, `queue` the statuses of its queue rows.  `_process_file` is three steps:
`Scan` (or another starter) loads the record and takes the file's stamp, `Probe`
reads the file, `Evaluate` commits.  No lock and no snapshot spans them, and three
threads may be between them.  The session writes back only what it changed, from
what it loaded: `Evaluate` writes the tracks that were probed, but the stamp stays
what it is in the row by then if the one taken equals the one loaded.
`_replaced_on_disk` compares with the rows read afresh but the stamp as loaded; its
reading and the commit are one step.  A language answer is four: `SetLanguage` reads
question, answers and tracks, `Store` commits the answers, `Settle` takes the
question away, and `Follow` marks a file whose job runs, or drops the rows of any
other and loads it to be evaluated, the two in one step.  The job is `Claim`, `Load` (decided again from the rows), `Fingerprint`,
`Swap` or `StopForChange` or `Fail`, `FinishRead`, `FinishWrite` or
`FinishUnread` (the output cannot be probed: the stamp is taken, the rows and
questions stay, the answers go), `After`.  The stamp, the probe and the commit of a
job's end are one step, which tells only when somebody writes the file there.  An answer is kept with the track it
was said of, which no step reads.  A scan or a load that cannot probe the file is
left out: the one writes nothing but a status, the other goes on as if the tracks
matched.  So is the renaming of a subtitle file that had been extracted under the
language an answer now corrects.

### RevertPoints

A stream is what ffprobe says of it, and `id` and `lossy`, which only properties
read: which original's bytes it holds, or a re-encode.  `points` are the rows
(`file` 0 is detached), each with its `manifest`: per original stream where it is
in the processed file and in the sidecar.  `MatchStreams` is `match_streams`,
three times `PairPass` with an ever weaker key (`FullKey`, `LanguageKey`,
`PayloadKey`, the fields two streams must agree on): the n-th of some look-alikes
among the originals (`Rank`) pairs with the n-th among the candidates, or all of
them are lost if there are too few.  `Captured` is `capture` with extension,
re-encoded tracks, `_plan_sources` and `_reannotate`.  A run is `Begin...`,
`Capture` or `GoWithout`, `Swap`, `Record` or `RecordFails`, and `Fail`,
`StopForChange`, `Cancel` or `Crash` in between; a queue job makes `Remuxed` of
any plan that keeps some audio.  A revert is `StartRevert`, `SwapRevert`,
`EndRevert`.  Merged are the question whether a revert is blocked with its
fingerprint (`revert_restore.py:260`, `:533`), `Discard`'s look at the running revert
with the removal (`routes/revert.py:328`; the constant `Gaps` opens it), and the
commit of a new point with the removal of the sidecar it supersedes: a crash
between those leaves a sidecar without a row, which the sweep takes.  `Discard`, `Sweep`, `Renamed`, `Attach` and `Replaced` come at any
point.  `promised` is what a revert ought to give back: the original of the point
being extended, or else the file that the run that captured started from; nothing
once its point has been thrown away.  A run that would leave an extended point
with nothing but fonts in its sidecar makes none (no container holds fonts alone),
so what is promised from there on is the file as it is left.  `OriginalKept` says
that each stream promised is in the file, or that a point describes the file which
puts all of them back.  Writers take turns, which is what
`FileWriters` shows.

### Intake and Library

`Intake`: `Receive` is `_remember_sync`'s commit, `Arm` the debounce task's
registration after it, in the same handler but a thread switch later.  A task is
`waiting`, `firing`, `queueing` (its thread runs), `done` or `cancelled`, and its
`finally` block is `Unwind`, some steps after the cancellation.  `Attempt` starts its
thread, `Look` is that thread's `queue_single_file`, with which the event is no
longer owed (`owed`), and `Forget` removes the row the timer was armed with and no
other.  `Restart` is
`replay_webhook_intake`.

`Library` adds the folder, the records and the scan: `Launch` (routes and
scheduler), `WalkFile` per file, `ListRecords`, then per record `LookAt` and
`RemoveRecord`, two steps because the row is read afresh in one statement and the
running job asked for in another.  `LookAt` has the questions whether the two paths
exist and the refresh between them in one step (`scanner.py:792-815`), and
`RemoveRecord` the commit at the end of the pass (`:843`): the deletion is flushed
at once, and the session holds SQLite's write lock from then on.  `Announce` is a Rename event with
`move_renamed_file`.  `Shown` is `_deletion_is_shown`.  A record is an id and the
file its history is about.

## 3. Runs

| Run | Shows | Bounds |
|---|---|---|
| `file_writers` | `TypeOK`, `KindExclusion` (two kinds never hold a file), `NoSilentReplacement` (a run holding its row never swaps over the work of another that held its own) | 1 file, 2 queue rows, 1 forge row, 2 slots |
| `worker_loop` | `TypeOK`, `SlotsRespected`, `ManualRunFinishes`, `ForgeNotStarved`, `QueueServed` | 3 files, 1 of them with a forge job, 2 slots |
| `job_runner` | `TypeOK`, `NoStrandedRow`, `RequeueSafe`, `EveryJobEnds` | 2 tasks, 1 id, 1 job at a time, 1 failure, 1 abandoned call |
| `staged_run` | `TypeOK`, `FinalsWhole`, `NothingLeft`, `CancelledEnds`, `KeepsItsPromise` (refinement) | 3 outputs, 1 upset |
| `passes` | `AudioStays`, `MuxFits`, `WantedStays`, `SidecarsStay`, `ExtractedSaved`, `AnswersFollow`, `Settles` | 5680 cases of a file of up to 5 tracks and its settings, 1 language answered, any review |
| `file_life` | `DeltaSound`, `QuestionsFit`, `AnswersFit`, `AnswersLand` | 2 files, 3 requests, 1 failure, 1 replacement |
| `revert_points` | `OriginalKept`, `RevertGivesBack`, `UndoRemovesForged`, `BinIsCounted` | 2 files, 2 runs, 1 point dropped, 1 trouble |
| `intake` | `RowBacked`, `OneTimer`, `AcceptedLands` | 2 paths, 3 events, 1 stop |
| `library` | `TypeOK` (with the scan flag), `HistoryKept` | 2 paths, 2 files, 1 event, 1 stop, 1 scan, 1 job, 2 moves, 1 mount or unmount |

What the properties of the newer runs say:

- `AudioStays`, `MuxFits`, `WantedStays`, `SidecarsStay`, `ExtractedSaved`: over
  all passes a file keeps some audio, an MP4 gets nothing it cannot hold, a track
  in a listed language is in the file or beside it unless somebody asked
  otherwise, and no `.srt` is written over.  `AnswersFollow`: the answers a
  rewritten file is decided from are those its tracks were given.  `Settles`: a
  file comes to rest, or waits for a person.
- `DeltaSound`: a file the delta check skips has the tracks its rows list.
  `QuestionsFit`, `AnswersFit`: a question is about the track it names, and no job
  applies an answer to another.  `AnswersLand`: an answer is carried out whenever
  it came, one during a job included.  All but `QuestionsFit` except an output
  that could not be probed (`FileLifeUnread`).
- `OriginalKept`: what runs took can be got back while its point stands.
  `RevertGivesBack`: a revert that is let through gives back exactly the streams
  it promised.  `UndoRemovesForged`: an undo takes the forge's track out.
  `BinIsCounted`: a sidecar without a row does not stay.
- `RowBacked`, `OneTimer`, `AcceptedLands`: an accepted event has its row until
  its file has been looked at, a path has one timer that can fire, and every event
  on disk gets its attempt.
- `HistoryKept`: a file that stays where it is keeps its record.  One exception
  came out of the proof (`TakenAlong`, `LibraryLateRename`).

Runs that TLC finds violated, each quoting what the repository says:

| Run | Property | What happens |
|---|---|---|
| `revert_points_lookalikes` | `RevertGivesBack` | a job drops one subtitle and tags its untagged twin with the language of the first; the original pairs with the survivor, and the revert puts the survivor back twice |
| `forge_undo_own_ac3` | `UndoRemovesForged` | a queue job drops the forged track by its language; the undo removes the AC3 5.1 the release came with, now last |
| `probe_overtaken` | `DeltaSound` | a forced scan takes the stamp a record has and probes the file; a job replaces the file and commits its rows and its stamp; the scan commits the tracks it had probed and leaves the stamp, and no delta scan looks again |

Further configurations, with a property that the code does not have; each gives a
counterexample with `tlc -config <cfg> <module>`:

| Configuration | Module | Property | What happens |
|---|---|---|---|
| `FileWritersOneAtATime` | `MCFileWriters` | `OneAtATime` | two queue jobs of one file run together; `_claim_next_locked` does not exclude it |
| `WorkerLoopQueueMoves` | `WorkerLoop` | `QueueMovesOn` | with one slot, a forge job that has to wait for a revert holds up the queue |
| `JobRunnerAnnounced` | `JobRunner` | `CompletedAnnounced` | an abort cancels a task in its `finally` block and its outcome is never announced |
| `JobRunnerAborted` | `JobRunner` | `AbortedUnchanged` | an abort overwrites the success of a job that has just replaced its file |
| `JobRunnerTwoJobs` | `JobRunner` | `RequeueSafe` | with two slots, an aborted task requeues the row of its retry, which has its id |
| `StagedRunTwice` | `StagedRun` | `NoOrphan` | a second cancellation lets the cleanup run beside the copy, and a `.part` stays |
| `StagedRunTogether` | `StagedRun` | `LandTogether` | an error between two replacements leaves the media file new and its sidecar missing; the cleanup, or the sweep after a crash, removes its `.part`, the last copy of that subtitle |
| `FileLifeReplaced` | `MCFileLife` | `QuestionsFit` | a file with language questions gives way to one with a review; the review branch leaves the questions, now at other tracks |
| `FileLifeUnread` | `MCFileLife` | `AnswersFitUnread` | a job's output cannot be probed, so its rows and questions stay those of the source; an answer to one of them is applied to the track that has moved up to its place |
| `FileLifeAnswered` | `MCFileLife` | `AnswersFit` | a file gives way to another; an answer to a question of the first is read, a scan loads the record, and the answer is stored; the scan, which loaded no answers, forgets none, and a job applies this one to a track of the second |
| `LibraryCleanup` | `MCLibrary` | `HistoryKept` | a job that renames its file commits between the cleanup's refresh of the row and its look for a running job, and the row is deleted |
| `LibraryLateRename` | `MCLibrary` | `NoneTakenAlong` | a file is renamed, another takes its name, and a job starts on that with the record of the first; the Rename event then moves the record to the first file's new name, and the end of the job, which goes by the record's id, takes it to its output: the renamed file has none |
| `RevertPointsUpgraded` | `MCRevertPoints` | `RevertGivesBack` | an upgrade lands where no fingerprint is compared any more, and its file is taken for the one the point is of |
| `RevertPointsReusedIds` | `MCRevertPoints` | `OriginalKept` | queue rows are numbered without AUTOINCREMENT; a later job with an earlier one's id writes over the sidecar it is to extend |

**Why the bounds are enough.** Conflicts between writers are about one file and
need at most one writer of each kind plus a second queue job; files interact only
through the slot count, which `WorkerLoop` has with three.  In `JobRunner` one
failure and one abandoned call already reach every handler, and one id is enough
for a retry to take its predecessor's.  In `StagedRun` three outputs give a first,
a middle and a last one; the proofs cover any number.  `Passes` does not bound its
passes.  Its cases are a family of audio tracks and one of subtitles, since the
two meet only in the container, which both vary; two tracks of a type are enough
for look-alikes, a number in a file name and the renumbering of streams.
`FileLife` has a file with two tracks to ask about and one that goes before them,
and a replacement of another layout; three requests give answer, ask again and
cancel in any order. `RevertPoints` needs a second run to extend a point and a
revert after either; `PlainCases` have look-alikes, a track that goes, a tag that
is written, a font and cover art.  In `Intake` three events let a timer be
replaced twice on one path beside another path; the proofs cover any number.
`Library` needs two paths for a rename and two files for one taking the place of
another; a third path matters only for `TakenAlong`, and the proof covers any
number.  Deadlock is not checked: a run really ends, and bounded inputs are used
up.

**`Gaps` and `ReusedIds`.** The passing runs leave out moments in which the code is
known not to be protected; the properties are claimed of the code only outside
them.  The constants are in the modules so that each can be opened.

- `FileLife`'s `Gaps` names those that are open, and is empty in `file_life`.  `"job"`:
  between a job's load and its fingerprint, and between its swap and its commit,
  others act; a file replaced there is given the answers, or the plan, of the one
  before it.  `"record"`: the record changes between an evaluation's load and its
  commit, which then works from what it loaded.  `"probe"`: the file changes between
  its probe and that commit, which then writes the tracks of the one before
  (`probe_overtaken`).  `"answer"`: others act between the reading of a language
  answer and its commit (`FileLifeAnswered`).  `DeltaSound` is proved with
  `"record"` and `"answer"` open, and of neither of the other two.
- `RevertPoints`: with `Gaps` an upgrade lands between a swap and its record, or
  under a forge run, which does not compare its source before it swaps
  (`RevertPointsUpgraded`), and a point is discarded under the revert that reads it;
  with `ReusedIds` a later job overwrites a sidecar (`RevertPointsReusedIds`).
- `Library`: with `Gaps` the file, the record and the share change while a cleanup is
  between the reads it removes a record on (`LibraryCleanup`).

Two further exclusions: `HistoryKept` lets a Rename event put the renamed file's
record in the place of one a scan had made, and nobody moves files while a job's
output waits for its record.

**Fairness.** `WorkerLoop`: weak fairness of the loop, of a forge task and of
running jobs, which end; none for reverts, users and scans.  `JobRunner`: the
loop, the tasks, the executor calls and an abort's thread go on; FFmpeg ends
because `job_timeout_minutes` (120 by default; 0 switches it off) kills it.
`StagedRun`: the coroutine and the copying thread; the program may hang for
ever, and `CancelledEnds` holds all the same because an abort kills it.
`Passes`: what is queued runs and what is to be decided is decided; nobody has to
answer.  `FileLife`: scans recur (the scheduler), evaluations and the job go on,
an answer that has been read is stored and followed, and the worker claims what waits; the claim is strongly fair, as the row is taken
out of the queue and put back while it polls.  A failed job need not be retried.
`RevertPoints`: the daily sweep comes round, and a run that has begun goes on.
`Intake` and `Library`: the event loop and the scan thread go on, and the process
is started again after a stop.  `FileWriters` states no liveness.

**What the properties do not say.** `RequeueSafe` is about a task putting its own
row back; a requeue call abandoned by a second abort may still commit on a
reused id.  `NoStrandedRow` holds for one failure; when the load and then the
emergency commit both fail, a row does stay `processing` until a restart, as
`_emergency_fail_job` says.  `QueueServed` excepts a waiting forge job because of
`QueueMovesOn`.  `AnswersLand` is satisfied by a file that waits for a person: for
a review, or for the Retry of a job that failed.  `OriginalKept` says nothing of
a run that went on without its point because the volume was away, and
`RevertGivesBack` nothing of the subtitle files a job had written beside the file.
`WantedStays` is about the keep lists: it excepts tracks an answer or a setting
such as `original_only` or `always_remove` takes.

## 4. Proofs

`FileWriters_proofs` (any files, rows and slots; from `SlotsPositive` and
`IdsDisjoint`): `TypeCorrect` and `WriterExclusion`, which is
`Spec => []KindExclusion`.  `KindExclusion` is not inductive: a claim acts on what
it found one step earlier.  The invariant is
`IInv == TypeOK /\ PickStands /\ KindExclusion`, where `PickStands` says that what
the holder of `CLAIM_LOCK` found still stands.  It holds because each of the
three claimers needs the lock to make anything `processing` or `reverting`, and
no route does either: the actions fall into the claims, proved one by one, and
the quiet ones, proved from one lemma each to claim nothing.
`NothingLostSilently` is `Spec => NoSilentReplacement`, from `IInv` and `RunsFit`.
A queue job and a revert look at their file once more before they swap, so only
a forge run could do harm.  `RunsFit` says that a run that holds its row is of
the file its row names, that the forge has one run at a time, and that nobody
who holds a row has swapped under a forge run that writes: other kinds cannot, by
`KindExclusion`, and another forge run there is not.

`StagedRun_proofs` (any number of outputs and upsets; from `OutputsGiven` and
`UpsetsGiven`): `TypeCorrect`; `WholeFinals`, from `CopiedIsFlushed`, which follows
the thread (what it is past is on the disk as long as nothing is being
removed); `Implements`, the refinement of `OrderedSwap`, from `SwapFollowsLoop`
(until a crash, a destination is replaced exactly when the loop is past it; every
result but an exception is decided before the loop or after it); `CleansUp`, from
`RemovedStaysGone`, under `MaxUpsets <= 1`, without which it is false
(`StagedRunTwice`): no thread copies once the removals have begun.

`Library_proofs`, of `Intake` (any paths, events and stops; from `IntakeBounds`):
`TypeCorrect`; `AcceptedBacked`, which is `IntakeSpec => []RowBacked`;
`SingleTimer`, which is `IntakeSpec => []OneTimer`.  Neither is inductive.  For
the first, `IInv == IntakeTypeOK /\ RowsKnown /\ LookedAt /\ RowBacked`:
`RowsKnown` says that the ids held by handlers, timers and threads have been given
out, which is where AUTOINCREMENT matters, and `LookedAt` that a thread which has
looked and will remove the row of a path has done so since that row was written.
For the second `IdsUnique` is added: an event and a task have a number each, so a
`finally` block knows its own entry.

`WorkerLoop_proofs` (any files, any limit; from `MaxJobsPositive` and
`FilesGiven`): `TypeCorrect`, `SlotsKept`, which is `Spec => []SlotsRespected`, and
`ManualRunKept`.  What a pass has counted is not what runs: jobs end, and the job
just claimed is not among the tasks yet.  `BusyKnown` says that a job that runs is
a task or has just been claimed, `Counted` that at each step of the pass the count
is no lower than what runs; `IInv == TypeOK /\ BusyKnown /\ Counted /\
SlotsRespected`.  Steps of everybody else only let jobs end
(`BystandingKeeps`).

`JobRunner_proofs` (any tasks and ids, any limit): `TypeCorrect`;
`OneFailureStrandsNothing` and, when `MaxFaults <= 1`, `NothingStranded`, which is
`Spec => []NoStrandedRow`; `PutBackIsSafe`, which is `Spec => RequeueSafe`, when
`MaxJobs = 1` and `MaxFaults <= 1`.  The invariant is `Shape /\ Kept`.  `Kept` names
who keeps a row running: the task the registry has for it, which is not being
stopped and is past the reading of its outcome only if a commit has failed; an
entry that is gone from the registry costs two failures.  Tasks and calls left
over from an earlier job of the same id may do anything to the row but make it
run, which is one lemma on the outcomes of all calls (`OutcomesFit`).  For
`PutBackIsSafe` that is not enough: `OneAtATime` adds that a row is at work for
one task and that what changed the file is past putting anything back.  Both
hypotheses are needed: `JobRunnerTwoJobs` refutes it with two slots.

`FileLife_proofs` (any cases and bounds; from `BoundsGiven` and `CasesGiven`) is in
two parts.

1. `TypeCorrect`, and `SkippedIsKnown`, which is `Spec => []DeltaSound` if `"job"` and
   `"probe"` are not in `Gaps`; `probe_overtaken` refutes it with the second.  The
   invariant adds to them the shapes of record and job; `EvalKnown`: a stamp taken
   for an evaluation is one a file has had, so that a file put there later has
   another; and `ReadKnown`: what an evaluation has probed is still the file, so a
   commit of the stamp or of the tracks alone fits what is there.  Nothing is used of what `Decision` and
   `Answers` compute.
2. `QuestionsKept` and `AnswersKept`, of a file nobody replaces (`MaxReplaced = 0`);
   `QuestionsOutlive` and `AnswersOutlive`, of one replaced any number of times.
   The first of each pair is `[](used.unread = 0 => QuestionsFit)`, the second
   `AnswersFit`, which has the same condition in it: once an output could not be
   probed, neither need hold (`FileLifeUnread`).  `Gaps` is empty, as in the run.

The invariant of the second part is `Fits`: questions and answers stand at their
tracks; what an evaluation holds of a file that has gone shows that it has
(`LoadedKnown`); an answer being given is for the track at its question
(`Replying`); and what a job was decided on is what is there to be converted,
until its output is, which is `Output` of the rows (`JobFits`).  A job's end needs
what `Passes_proofs` needs too, of any file with `IsFile`: `MappingFollows` leads
each track to where FFmpeg puts it, `DescriptorTells` has a descriptor name one
track, so `CarriedFit` carries answers, and `MovedFit` questions, to theirs.  (These
lemmas are stated again: the variables of the two components have the same
names, so one module cannot extend both.)

`Fits` is kept where two things hold.  `LooksTell`: rows that have the shapes of
the file on disk are the file's.  `Settled`: no review is open, and no language
question over a file that raises a review, while the rows are about to change.
For a file nobody replaces both follow from `RowsFit`, which is invariant by
itself: except between a swap and its end the rows are empty or the file's, and a
review is open only in a `review` row, with no `pending` one beside it and no job
past its load.  For a file that is replaced, `Settled` follows from `ReviewsOff`
(no case asks about pictures or fonts), without which `FileLifeReplaced` refutes
`QuestionsFit`; and `[]LooksTell` is a hypothesis of the theorem, as two files
that look alike cannot be told apart by anything in the code, and whether a job's
output looks like the next replacement depends on the files.  TLC finds it true of
the language case of `MCFileLife`, with two replacements.

`Passes_proofs` (any files, settings, languages, answers and number of passes; from
`CasesGiven`, `LanguagesGiven` and `InputsGiven`): `TypeCorrect`, with which every
stored answer is that of a track of the file; `AudioNeverEmptied`; `Mp4AlwaysFits`;
`ExtractedIsSaved`; `AnswersFollowTracks`; and under a hypothesis each:
`WantedKept`, if no keep list has "und" in it, which is no language, and
`SidecarsKept`, if the setting for existing files is one of the three there are.
Under `replace` nothing in the folder keeps an extracted file from being written
over; that none is comes from the file: `SavedOnce` says that once a pass has
extracted a subtitle, every one left is `Spared`, by its kind, its answer or the
settings, and that no later answer or change of tags makes one of them extracted.
The invariant is
`IInv == TypeOK /\ SubtitlesKnown /\ AudioStays /\ MuxFits`; added to it are that
the folder is finite, that the settings stay a case's, and that ids are apart.
What would be induction over the streams is counting here: a stream's place is its
rank in its set, ranks differ, so each is taken (`RankTaken`, by the pigeonhole
principle).  From this come the order of the output, that a descriptor names one
track (`DescriptorTells`), that the n-th free name exists (`FreeNameFits`), and
that `JobMapping`, which pairs the n-th stream of a type before with the n-th
after, leads each track to where FFmpeg puts it (`MappingFollows`).

`Library_proofs`, of `Library` (any paths, files and bounds; from `IntakeBounds` and
`LibraryBounds`): `LibraryTypeCorrect`; `WebhooksAsInIntake`, the library's
webhooks refine `Intake`, so that `LibraryKeepsEvents` has what is proved there of
events with scans, jobs and renames around them; `FileKeepsHistory`, which is
`Spec => HistoryKept` if `~Gaps`.  `Shape` has the scan and the job by where they
are, and `OutputWaits`: nothing happens to a job's output before its record is
written.  `DoomedGone` says that the record a cleanup is about to remove is of no
file, which is what `~Gaps` gives.

`RevertPoints_proofs` (any files, any number of runs, reverts, troubles and points;
from `BoundsGiven` and `CasesGiven`) is in four parts.

1. `TypeCorrect` needs nothing else.  `MatchesApart` is about `match_streams` on any
   two lists of streams: what it pairs agrees on type, codec and shape, and no
   stream is given to two originals; the counting of `Passes_proofs` does it again.
2. `PlacesExist`, `UndoTakesForged`: no queue row's id comes again, and no upgrade
   lands between a swap and its record or under a forge run (`ReusedIds` and `Gaps`
   are FALSE; the code allows both, and `RevertPointsReusedIds` and
   `RevertPointsUpgraded` show what comes of it).  The invariant is
   `TInv /\ NamesOlder /\ InputRead /\ Holds(key)`: a sidecar's name is
   older than the run under way; a run that is let through has read the file as
   it is; and every place a point or a capture names, in its sidecar or in the
   file, holds a stream that agrees with the original on `key`.  With `PayloadKey`
   that is `PlacesExist`.  `UndoTakesForged` assumes `NoOwnAc3` (no file has an AC3
   5.1 track of its own, without which `RevertPointsOwnAc3` refutes it) and shows
   that every AC3 5.1 there is, in the file, a sidecar or an output, is the forge's.
3. `RevertIsRight` and `OriginalIsKept`, which are `RevertGivesBack` and
   `[]OriginalKept`, follow from `[]PairsRight(BytesKey)`: at each capture and
   attachment, what is paired by its looks is the same by its bytes.  `Holds` with
   `BytesKey` is then invariant, so a revert makes the manifest's streams, and
   `Promised` says who keeps what is promised: the point that describes the file,
   the capture of the run under way, the revert, or the file itself.
4. `PairingIsRight` discharges that hypothesis for files that are `ToldApart`: nothing
   is re-encoded and no two tracks have one type, shape, codec (SubRip and mov_text
   count as one) and language (untagged and English count as one; SubRip tracks need
   to differ in more than language).  Hence `PlainRevertIsRight` and
   `PlainOriginalIsKept`, with nothing assumed of the pairing.  The invariant is
   `OneLine`: the file, the points that describe it, the output of the run and
   that of the revert all descend from one file of the case.  `MatchesRight` is the
   heart of it.  Tags and codecs change, so even here a look is not one track's for
   good; but a candidate of a track's own look and language is of the same
   original, and what the language passes leave is at most the one track of that
   look that was tagged since, or too few candidates, which pair with nothing.
   The case `Untagged` of `MCRevertPoints` is such a file, and TLC finds `OneLine`
   true of it.

The hypotheses of `ToldApart` are there for a reason.  Look-alikes refute
`RevertGivesBack` (`RevertPointsLookalikes`).  So does a re-encode: if a queue job
drops an AAC 5.1 track and makes AAC 5.1 of a DTS one, the payload pass pairs the
dropped original with the re-encode, and `_unmatch_reencoded`
(`revert_capture.py:353`) takes back only the pairing of the track that was
re-encoded itself; the dropped one is not stored.  `Twins`, the other case of the
run, is two subtitles alike in everything, in a file that is re-encoded but has one
audio track; for it the pairing stays with TLC.

The proofs changed the models where these were wrong or said less than they seemed
to.  `OriginalKept` had looked at the point alone, not at what the file still has,
and `Captured` had forgotten that fonts alone make no sidecar.  `HistoryKept` was
false with three paths.  `CASE` with overlapping arms, which the semantics leaves
open and TLC settles by order, became `IF` in `Decision`, `RevertPoints` and
`FileLife`.  The output that cannot be probed, which `FileLife` had left out,
would have made `SkippedIsKnown` say more than the code does.  `StreamMaps` is
there because sorting and `@@` are definitions of the module `TLC`, which the
provers do not see into.  What `Passes` and `RevertPoints` took for granted of
their cases became `CasesGiven`, and so did what `FileLife` did; there the
arguments of `analyze_file` are written out as a record, and answers are added
with `Updated` where `@@` had been.

Only model-checked: `QuestionsFit` and `AnswersFit` of files that have reviews and are
replaced, `RevertGivesBack` and `OriginalKept` of files that are not `ToldApart`, and
every liveness property (liveness is out of the prover's reach).

## 5. Not modelled yet, and the plan

To prove next: `QuestionsFit` of files that have reviews, or language questions, but
not both, with replacements; there a review of a file that has gone has to be
shown to be asked anew before a job can move it.

To model, in order:

1. `ForgeRunner`: a forge row through `_run_forge_job` with commits and loads that
   fail, and the row `finish_forge_job` leaves at `processing`.
2. `EmailBreaker`: the consecutive-failure counter read and written by jobs that
   end together.
3. `PlexBacklog`: filled by jobs while a scheduled task drains it.
4. Settings import and backup restore while the worker runs.
5. The path filters and path mapping, against reference definitions.
6. The frontend's data hooks: late responses overwriting newer ones.

Left out of the components that are modelled, and why:

- Decision engine: title hints, dispositions other than default and forced, the
  wording of actions and reasons (text nobody decides by).
- Command builder: argument lists, progress parsing, ffprobe's output (text).
- Revert: subtitle files a job created, the container path of a restore,
  attaching after a mismatch was confirmed, the list of candidates.
- Scanner: exclusion rules and the removal of orphans and excluded files, the
  progress counts; bulk routes are their single-row forms.
- Scheduler: which time of day is due.
- Webhooks: the payloads; an event is a choice of path.
- Forge: the bulk routes; failing commits (planned above).

Left out for good: HTTP clients beyond their retries, schema migrations, log
reading, the React views (layout), and build files.  `PROJECT.json` lists every
component with its status, and every hazard with the property that covers it or
the reason why none does.
