------------------------------- MODULE FileLife ------------------------------
(***************************************************************************)
(* One file and its record: what is on disk, the tracks, the stamp and the *)
(* answers stored for it, its language questions and its queue rows, under *)
(* scans, one job at a time, the user's answers, and replacement of the    *)
(* file from outside.  What is decided comes from Decision; how answers    *)
(* follow their tracks from Answers.                                       *)
(*                                                                         *)
(* A step is what happens between two points where another thread can act: *)
(* loading the record with the file's stamp, probing the file, the commit  *)
(* that follows, a request's commit.  The session writes back only the     *)
(* columns it changed, from the values it loaded.  An answer is <<what was *)
(* said, the track it was said of>>; no step reads the second.             *)
(***************************************************************************)
EXTENDS Decision, Answers

CONSTANTS
    Cases,          \* [file, other, settings]: `other` may replace `file`
    MaxReplaced,    \* bounds on replacements from outside,
    MaxRequests,    \* on the user's requests
    MaxFailures,    \* and on jobs that fail, or cannot probe their output
    Gaps            \* moments the code leaves open in which others may act

ASSUME BoundsGiven ==
    /\ {MaxReplaced, MaxRequests, MaxFailures} \subseteq Nat
    /\ Gaps \subseteq {"job", "record", "probe", "answer"}

\* A file lists its tracks, and both have these fields.
FileFields == {"container", "tracks", "fonts", "fast", "original"}
TrackFields == {"id", "type", "kind", "lang", "default", "forced"}
IsTrack(t) == t = [f \in TrackFields |-> t[f]]
IsFile(file) ==
    /\ file = [f \in FileFields |-> file[f]]
    /\ file.tracks \in Seq(Range(file.tracks))
    /\ \A i \in DOMAIN file.tracks : IsTrack(file.tracks[i])

ASSUME CasesGiven == \A c \in Cases : IsFile(c.file) /\ IsFile(c.other)

VARIABLES
    case,       \* the file, its replacement, the settings
    disk,       \* [file, stamp]: a file's size and mtime are its stamp
    record,     \* the file's row: [file, stamp, answers, mark]; stamp 0 is -1
    flags,      \* language questions: stream -> the track it was raised for
    queue,      \* statuses of its rows
    asked,      \* the review's flagged streams -> the tracks
    eval,       \* the evaluations under way, by thread
    job,        \* the job under way
    request,    \* the language answer being given
    said,       \* every answer given and not taken back
    used        \* bounds: [replaced, requests, failures, stamps], and `unread`,
                \* the stamp of the last output that could not be probed

vars == <<case, disk, record, flags, queue, asked, eval, job, request, said, used>>

Columns == {"subs", "audioLang", "subLang"}
Threads == {"scan", "job", "user"}
NoAnswers == [c \in Columns |-> <<>>]
Nobody == [on |-> FALSE]
NoJob == [pc |-> "idle"]
NoRequest == [pc |-> "none"]
S == case.settings

\* The arguments analyze_file gets.
Given(answers, file) ==
    LET Words(c) == LET found == Resolve(answers[c], file.tracks)
                    IN  [i \in DOMAIN found |-> found[i][1]]
    IN  [subs |-> Words("subs"), audioLang |-> Words("audioLang"), subLang |-> Words("subLang"),
         ack |-> FALSE, forged |-> FALSE]

Running == "processing" \in queue

\* Variant: a job that is over leaves its row.
EndedNot == queue
Ended == queue \ {"processing"}

\* The moments between a language answer's reading and its commit.
Unanswering == "answer" \in Gaps \/ request.pc # "read"

\* Those between a job's load and its fingerprint, and between its swap and the
\* commit of its outcome.
Open ==
    /\ "job" \in Gaps \/ job.pc \notin {"decided", "swapped", "finishing"}
    /\ Unanswering

\* And those between an evaluation's load of the record and its commit.
Undisturbed == Open /\ ("record" \in Gaps \/ \A t \in Threads : ~eval[t].on)

\* Of these, the ones after its probe: what it is about to write was read from
\* the file before.
Unprobed == "probe" \in Gaps \/ \A t \in Threads : eval[t].on => ~eval[t].read

TypeOK ==
    /\ case \in Cases
    /\ record.stamp \in 0 .. used.stamps /\ disk.stamp \in 1 .. used.stamps
    /\ DOMAIN record.answers = Columns
    /\ record.mark \in BOOLEAN
    /\ request.pc \in {"none", "read", "stored", "settled"}
    /\ queue \subseteq {"pending", "processing", "review", "failed"}
    /\ Running <=> job.pc \in {"claimed", "decided", "running", "swapped", "finishing"}
    /\ "review" \in queue => DOMAIN asked # {}
    /\ used.replaced <= MaxReplaced /\ used.requests <= MaxRequests
    /\ used.failures <= MaxFailures

Init ==
    /\ case \in Cases
    /\ disk = [file |-> case.file, stamp |-> 1]
    /\ record = [file |-> [case.file EXCEPT !.tracks = <<>>], stamp |-> 0,
                 answers |-> NoAnswers, mark |-> FALSE]
    /\ flags = <<>> /\ queue = {} /\ asked = <<>>
    /\ eval = [t \in Threads |-> Nobody] /\ job = NoJob /\ request = NoRequest
    /\ said = {}
    /\ used = [replaced |-> 0, requests |-> 0, failures |-> 0, stamps |-> 1,
             unread |-> 0]

\* A download tool puts another file at the path.
Replaced ==
    /\ Undisturbed /\ Unprobed /\ used.replaced < MaxReplaced
    /\ disk' = [file |-> case.other, stamp |-> used.stamps + 1]
    /\ used' = [used EXCEPT !.replaced = @ + 1, !.stamps = @ + 1]
    /\ UNCHANGED <<case, record, flags, queue, asked, eval, job, request, said>>

-----------------------------------------------------------------------------
(* _process_file.                                                          *)

\* The record and the file's stamp are read; the file itself is yet to be.
Started(rec, clear) ==
    [on |-> TRUE, stamp |-> disk.stamp, loaded |-> rec, clear |-> clear,
     again |-> rec.mark /\ ~Running, read |-> FALSE, file |-> rec.file]

\* _upsert_language_flags
Upserted(file, given) ==
    [i \in Mismatched(file, S, given) \cup UndefinedFlags(file, S, given)
              \cup SubFlags(file, S, given) |-> file.tracks[i].id]

Questions(file, given) ==
    [i \in Flagged(file, S, given) |-> file.tracks[i].id]

\* What a decision does to a file's rows.
Decided(file, given) ==
    LET waiting == queue \cap {"pending", "processing"} # {}
    IN  IF Flagged(file, S, given) # {}
        THEN [queue |-> (queue \ {"pending"}) \cup {"review"},
              asked |-> Questions(file, given), flags |-> flags]
        ELSE IF ~HasWork(file, S, given)
        THEN [queue |-> queue \ {"review"}, asked |-> <<>>,
              flags |-> Upserted(file, given)]
        ELSE IF waiting
        THEN [queue |-> queue, asked |-> asked, flags |-> Upserted(file, given)]
        ELSE [queue |-> (queue \ {"review", "failed"}) \cup {"pending"},
              asked |-> <<>>, flags |-> Upserted(file, given)]

\* Variant: a file replaced is taken for the one answered for.
ForgetsNever(e, file) == FALSE

\* _replaced_on_disk: the rows are read again, the stamp is the one loaded.
Forgets(e, file) ==
    /\ e.loaded.stamp # e.stamp
    /\ TrackShapes(record.file.tracks) # TrackShapes(file.tracks)

\* ffprobe reads the file.
Probe(t) ==
    /\ eval[t].on /\ ~eval[t].read
    /\ eval' = [eval EXCEPT ![t].read = TRUE, ![t].file = disk.file]
    /\ UNCHANGED <<case, disk, record, flags, queue, asked, job, request, said, used>>

\* What it read is written, with the decision made of it.  A stamp equal to the
\* one loaded is no change, so the one in the row stays.
Evaluate(t) ==
    /\ Open /\ eval[t].on /\ eval[t].read
    /\ LET e == eval[t]
           file == e.file
           loaded == IF e.clear \/ Forgets(e, file) THEN NoAnswers ELSE e.loaded.answers
           decided == Decided(file, Given(loaded, file))
       IN  /\ record' =
                [file |-> file,
                 stamp |-> IF e.stamp # e.loaded.stamp THEN e.stamp ELSE record.stamp,
                 answers |-> [c \in Columns |->
                    IF loaded[c] # e.loaded.answers[c] THEN <<>> ELSE record.answers[c]],
                 mark |-> record.mark /\ ~e.again]
           /\ queue' = decided.queue /\ asked' = decided.asked /\ flags' = decided.flags
           /\ said' = IF e.clear THEN {} ELSE said
    /\ eval' = [eval EXCEPT ![t] = Nobody]
    /\ UNCHANGED <<case, disk, job, request, used>>

\* The delta check: changed on disk, or answered during a job now over.
Due(rec) == rec.stamp # disk.stamp \/ (rec.mark /\ ~Running)

\* A scan comes to the file; a forced one looks whatever the stamp says.
Scan(force) ==
    /\ Open /\ ~eval["scan"].on
    /\ force \/ Due(record)
    /\ eval' = [eval EXCEPT !["scan"] = Started(record, FALSE)]
    /\ UNCHANGED <<case, disk, record, flags, queue, asked, job, request, said, used>>

-----------------------------------------------------------------------------
(* The user.                                                               *)

Requested == Undisturbed /\ used.requests < MaxRequests
Counted == used' = [used EXCEPT !.requests = @ + 1]

\* The answers given, these now the last word on their tracks.
Told(column, answers) ==
    {x \in said : x[1] # column \/ \A y \in answers : x[2][2] # y[2]}
        \cup {<<column, y>> : y \in answers}

\* _answer_subtitle_review, on the page as it is now; decided from the rows.
AnswerReview ==
    /\ Requested /\ Counted
    /\ "review" \in queue /\ DOMAIN asked \subseteq DOMAIN record.file.tracks
    /\ \E answer \in [DOMAIN asked -> {"keep", "remove"}] :
          LET file == record.file
              told == [key \in {Descriptor(file.tracks, i) : i \in DOMAIN asked} |->
                          LET i == StreamOf(file.tracks, key) IN <<answer[i], asked[i]>>]
              answers == [record.answers EXCEPT !.subs = Updated(@, told)]
              given == Given(answers, file)
          IN  /\ record' = [record EXCEPT !.answers = answers]
              /\ said' = Told("subs", {told[key] : key \in DOMAIN told})
              /\ IF Flagged(file, S, given) # {}
                 THEN /\ asked' = Questions(file, given)
                      /\ UNCHANGED <<flags, queue>>
                 ELSE /\ flags' = Upserted(file, given) /\ asked' = <<>>
                      /\ queue' = (queue \ {"review"}) \cup
                                  (IF HasWork(file, S, given) THEN {"pending"} ELSE {})
    /\ UNCHANGED <<case, disk, eval, job, request>>

\* apply_language: the answer is for the track at the question's stream, under
\* its descriptor.  A question whose stream is gone is refused.
Reply(i) ==
    LET tracks == record.file.tracks
        column == IF tracks[i].type = "audio" THEN "audioLang" ELSE "subLang"
    IN  [pc |-> "read", column |-> column, was |-> record.answers[column],
         told |-> [key \in {Descriptor(tracks, i)} |-> <<"eng", flags[i]>>]]

\* The question, the file's answers and its tracks are read,
SetLanguage ==
    /\ Requested /\ Counted /\ request = NoRequest /\ ~eval["user"].on
    /\ \E i \in DOMAIN flags \cap DOMAIN record.file.tracks : request' = Reply(i)
    /\ UNCHANGED <<case, disk, record, flags, queue, asked, eval, job, said>>

\* the answers are committed with the new one among them,
Store ==
    /\ request.pc = "read"
    /\ LET told == {request.told[key] : key \in DOMAIN request.told}
       IN  /\ record' = [record EXCEPT
                           !.answers[request.column] = Updated(request.was, request.told)]
           /\ said' = Told(request.column, told)
           /\ request' = [pc |-> "stored", tracks |-> {x[2] : x \in told}]
    /\ UNCHANGED <<case, disk, flags, queue, asked, eval, job, used>>

\* and the question goes, wherever a job has moved it meanwhile.
Settle ==
    /\ request.pc = "stored"
    /\ flags' = [j \in {k \in DOMAIN flags : flags[k] \notin request.tracks} |-> flags[j]]
    /\ request' = [pc |-> "settled"]
    /\ UNCHANGED <<case, disk, record, queue, asked, eval, job, said, used>>

\* Variant: nobody is told that a running job decided without the answer.
DeferredNever == FALSE
Deferred == Running

\* Then the file is marked while a job runs, decided again if none does.
Follow ==
    /\ Open /\ request.pc = "settled" /\ request' = NoRequest
    /\ IF Deferred
       THEN /\ record' = [record EXCEPT !.mark = TRUE]
            /\ UNCHANGED <<queue, asked, eval>>
       ELSE /\ queue' = queue \ {"pending", "review"} /\ asked' = <<>>
            /\ eval' = [eval EXCEPT !["user"] = Started(record, FALSE)]
            /\ UNCHANGED record
    /\ UNCHANGED <<case, disk, flags, job, said, used>>

\* ask_again
AskAgain ==
    /\ Requested /\ Counted /\ ~Running /\ request = NoRequest /\ ~eval["user"].on
    /\ eval' = [eval EXCEPT !["user"] = Started(record, TRUE)]
    /\ UNCHANGED <<case, disk, record, flags, queue, asked, job, request, said>>

\* cancel_item: the next delta scan looks at the file again.
CancelItem ==
    /\ Requested /\ Counted
    /\ \E row \in queue \cap {"pending", "review"} :
          /\ queue' = queue \ {row}
          /\ asked' = IF row = "review" THEN <<>> ELSE asked
    /\ record' = [record EXCEPT !.stamp = 0]
    /\ UNCHANGED <<case, disk, flags, eval, job, request, said>>

-----------------------------------------------------------------------------
(* The job.                                                                *)

Claim ==
    /\ Undisturbed /\ ~eval["job"].on
    /\ "pending" \in queue /\ ~Running /\ job = NoJob
    /\ queue' = (queue \ {"pending"}) \cup {"processing"}
    /\ job' = [pc |-> "claimed"]
    /\ UNCHANGED <<case, disk, record, flags, asked, eval, request, said, used>>

\* _load_job_data compares the stored tracks with the file's.
Matches == TrackShapes(record.file.tracks) = TrackShapes(disk.file.tracks)

\* The decision is made again from the rows; nothing of the scan's is trusted.
Load ==
    /\ job.pc = "claimed" /\ Unanswering
    /\ LET file == record.file
           given == Given(record.answers, file)
       IN  \/ /\ ~Matches          \* _cancel_for_changed_source, the stamp left
              /\ queue' = Ended /\ job' = NoJob
              /\ eval' = [eval EXCEPT !["job"] =
                            [Started(record, FALSE) EXCEPT !.again = record.mark]]
              /\ UNCHANGED <<flags, asked>>
           \/ /\ Matches /\ Flagged(file, S, given) # {}
              /\ queue' = Ended \cup {"review"}
              /\ asked' = Questions(file, given)
              /\ job' = NoJob /\ UNCHANGED <<flags, eval>>
           \/ /\ Matches /\ Flagged(file, S, given) = {} /\ ~HasWork(file, S, given)
              /\ queue' = Ended
              /\ flags' = Upserted(file, given)
              /\ job' = NoJob /\ UNCHANGED <<asked, eval>>
           \/ /\ Matches /\ Flagged(file, S, given) = {} /\ HasWork(file, S, given)
              /\ flags' = Upserted(file, given)
              /\ job' = [pc |-> "decided", file |-> file, answers |-> record.answers]
              /\ UNCHANGED <<queue, asked, eval>>
    /\ UNCHANGED <<case, disk, record, request, said, used>>

\* source_print
Fingerprint ==
    /\ job.pc = "decided"
    /\ job' = [pc |-> "running", file |-> job.file, answers |-> job.answers,
               print |-> disk.stamp]
    /\ UNCHANGED <<case, disk, record, flags, queue, asked, eval, request, said, used>>

Planned == Given(job.answers, job.file)

\* FFmpeg is done and the source is as it was: the output takes its place.
Swap ==
    /\ job.pc = "running" /\ disk.stamp = job.print /\ Unprobed
    /\ disk' = [file |-> Output(job.file, S, Planned), stamp |-> used.stamps + 1]
    /\ used' = [used EXCEPT !.stamps = @ + 1]
    /\ job' = [job EXCEPT !.pc = "swapped"]
    /\ UNCHANGED <<case, record, flags, queue, asked, eval, request, said>>

\* It is not: _cancel_for_changed_source.
StopForChange ==
    /\ job.pc = "running" /\ disk.stamp # job.print /\ Unanswering
    /\ queue' = Ended /\ job' = NoJob
    /\ record' = [record EXCEPT !.stamp = 0]
    /\ eval' = [eval EXCEPT !["job"] =
                  [Started([record EXCEPT !.stamp = 0], FALSE) EXCEPT !.again = record.mark]]
    /\ UNCHANGED <<case, disk, flags, asked, request, said, used>>

\* The job fails: its row waits for Retry, and a mark for the next scan.
Fail ==
    /\ job.pc = "running" /\ used.failures < MaxFailures
    /\ queue' = Ended \cup {"failed"} /\ job' = NoJob
    /\ used' = [used EXCEPT !.failures = @ + 1]
    /\ UNCHANGED <<case, disk, record, flags, asked, eval, request, said>>

\* _finish_job loads the record, and then probes the file.
FinishRead ==
    /\ job.pc = "swapped" /\ Unanswering
    /\ job' = [pc |-> "finishing", file |-> job.file, answers |-> job.answers,
               print |-> job.print, loaded |-> record.answers]
    /\ UNCHANGED <<case, disk, record, flags, queue, asked, eval, request, said, used>>

\* Variant: the rows of the source are left.
RowsLeft == record.file
RowsRead == disk.file

\* Variant: questions stay at the streams they were raised for.
FlagsLeft(mapping) == flags

\* rekey_language_flags
FlagsMoved(mapping) ==
    [j \in {mapping[i] : i \in DOMAIN flags \cap DOMAIN mapping} |->
        flags[CHOOSE i \in DOMAIN flags \cap DOMAIN mapping : mapping[i] = j]]

\* Answers and questions are carried to where their tracks now are, then the
\* rows become those of the output.
FinishWrite ==
    /\ job.pc = "finishing" /\ Unanswering
    /\ LET before == record.file.tracks
           after == disk.file.tracks
           mapping == JobMapping(before, after, Removed(job.file, S, Planned))
           Carried(c) == Rekey(job.loaded[c], before, after, mapping)
       IN  /\ record' =
                [record EXCEPT
                    !.file = RowsRead, !.stamp = disk.stamp,
                    !.answers = [c \in Columns |->
                        IF Carried(c) # job.loaded[c] THEN Carried(c) ELSE @[c]]]
           /\ flags' = FlagsMoved(mapping)
    /\ queue' = Ended
    /\ job' = [pc |-> "ended"]
    /\ UNCHANGED <<case, disk, asked, eval, request, said, used>>

\* The output cannot be probed: its stamp is taken, its tracks are not, and the
\* answers are forgotten.
FinishUnread ==
    /\ job.pc = "finishing" /\ Unanswering /\ used.failures < MaxFailures
    /\ record' =
         [record EXCEPT
             !.stamp = disk.stamp,
             !.answers = [c \in Columns |-> IF job.loaded[c] # <<>> THEN <<>> ELSE @[c]]]
    /\ used' = [used EXCEPT !.failures = @ + 1, !.unread = disk.stamp]
    /\ queue' = Ended
    /\ job' = [pc |-> "ended"]
    /\ UNCHANGED <<case, disk, flags, asked, eval, request, said>>

\* _reevaluate_after_job
After ==
    /\ job.pc = "ended" /\ Unanswering /\ job' = NoJob
    /\ eval' = IF record.mark /\ ~eval["job"].on
               THEN [eval EXCEPT !["job"] = Started(record, FALSE)] ELSE eval
    /\ UNCHANGED <<case, disk, record, flags, queue, asked, request, said, used>>

-----------------------------------------------------------------------------
Next ==
    \/ Replaced
    \/ \E t \in Threads : Probe(t) \/ Evaluate(t)
    \/ \E force \in BOOLEAN : Scan(force)
    \/ AnswerReview \/ SetLanguage \/ Store \/ Settle \/ Follow \/ AskAgain \/ CancelItem
    \/ Claim \/ Load \/ Fingerprint \/ Swap \/ StopForChange \/ Fail
    \/ FinishRead \/ FinishWrite \/ FinishUnread \/ After

\* The steps that go on by themselves, told by where they lead.
Evaluated(t) == eval[t].on /\ eval' = [eval EXCEPT ![t] = Nobody]
ScanComes == Scan(FALSE)
Replied == Store \/ Settle \/ Follow
JobMoves ==
    \/ job.pc = "claimed" /\ job' \in {NoJob, [pc |-> "decided", file |-> record.file,
                                               answers |-> record.answers]}
    \/ Fingerprint
    \/ job.pc = "running" /\ job' \in {NoJob, [job EXCEPT !.pc = "swapped"]}
    \/ FinishRead
    \/ job.pc = "finishing" /\ job' = [pc |-> "ended"]
    \/ After

\* Scans recur, the worker claims what waits, and what has begun goes on; a
\* person need do nothing.
Spec ==
    /\ Init /\ [][Next]_vars
    /\ \A t \in Threads : WF_eval(Evaluated(t))
    /\ WF_vars(ScanComes) /\ SF_vars(Claim) /\ WF_job(JobMoves) /\ WF_vars(Replied)

-----------------------------------------------------------------------------
(* What must hold.                                                         *)

\* A file a delta scan would skip is the file its rows describe, unless it is an
\* output that could not be read: everything is decided from those rows.
DeltaSound ==
    record.stamp = disk.stamp /\ record.stamp # used.unread
      => record.file.tracks = disk.file.tracks

\* A question names the track it was raised for, whatever was rewritten since:
\* an answer to it is stored for the track at that stream.
QuestionsFit ==
    \A q \in {flags, asked} : \A i \in DOMAIN q \cap DOMAIN record.file.tracks :
        q[i] = record.file.tracks[i].id

\* No job applies an answer to a track it was not given for, as long as every
\* output could be read.
AppliesAsSaid ==
    \A c \in Columns :
        LET found == Resolve(job.answers[c], job.file.tracks)
        IN  \A i \in DOMAIN found :
               i \in DOMAIN disk.file.tracks /\ found[i][2] = disk.file.tracks[i].id
AnswersFit ==
    [][job.pc = "running" /\ job'.pc = "swapped" /\ used.unread = 0 => AppliesAsSaid]_vars

\* The same when an output could not be read.  Not so: clear_media_answers
\* forgets the answers given, and a question left on the page is answered for
\* the track that has taken its stream.
AnswersFitUnread ==
    [][job.pc = "running" /\ job'.pc = "swapped" => AppliesAsSaid]_vars

Landed(x) ==
    \A i \in DOMAIN disk.file.tracks :
        disk.file.tracks[i].id = x[2][2] =>
            IF x[1] = "subs" THEN x[2][1] # "remove" ELSE disk.file.tracks[i].lang = x[2][1]

\* Every answer is carried out, whenever it was given, or the file waits for a
\* person: for another answer, or for the Retry of a job that failed; again if
\* each output could be read.
AnswersLand ==
    <>[](\/ \A x \in said : Landed(x)
         \/ queue \cap {"review", "failed"} # {}
         \/ used.unread # 0)
=============================================================================
