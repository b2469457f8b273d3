--------------------------- MODULE FileLife_proofs ---------------------------
(***************************************************************************)
(* What is proved of FileLife, for any cases and any number of requests    *)
(* and failures.                                                           *)
(*                                                                         *)
(* First, whatever is decided and however often the file is replaced: the  *)
(* variables keep their types (IInv), and a file a delta scan skips is the *)
(* one its rows describe, if that could be read and nothing replaces it    *)
(* between an evaluation's probe and its commit (Fresh).                   *)
(*                                                                         *)
(* Then what Decision and Answers compute, for any files, settings and     *)
(* answers: the n-th track of a type a job keeps is the n-th of its output *)
(* (a member's place in an ordered set is its rank; the ranks of streams   *)
(* that are mapped in order are kept), a descriptor names one track, so    *)
(* answers and questions are carried to where their tracks are.            *)
(*                                                                         *)
(* From that, that questions name the tracks they were raised for and jobs *)
(* apply answers to the tracks they were given for (Fits), wherever looks  *)
(* tell a replaced file from its rows and no review is open while they     *)
(* change (LooksTell, Settled).  So it is if the file is never replaced    *)
(* (RowsFit), or has no subtitle review and its replacements look another  *)
(* (NoneAsked).                                                            *)
(***************************************************************************)
EXTENDS FileLife, FiniteSetTheorems, TLAPS

\* A record has its four columns, whatever is in them.
RecordShaped ==
    record = [file |-> record.file, stamp |-> record.stamp,
              answers |-> record.answers, mark |-> record.mark]

\* A job has a place in its life; the rest of it comes along later.
JobShaped ==
    /\ job = [f \in DOMAIN job |-> job[f]] /\ "pc" \in DOMAIN job
    /\ job.pc \in {"idle", "claimed", "decided", "running", "swapped", "finishing", "ended"}

UsedShaped ==
    used \in [replaced : Nat, requests : Nat, failures : Nat, stamps : Nat \ {0}, unread : Nat]

\* A stamp read for an evaluation is one that some file has had: none that is
\* yet to be given out.
EvalKnown ==
    /\ eval = [t \in Threads |-> eval[t]]
    /\ \A t \in Threads : eval[t].on => eval[t].stamp \in 1 .. used.stamps

\* Unless others act between an evaluation's probe and its commit, what it has
\* read is what is there.
ReadKnown == \A t \in Threads : eval[t].on /\ eval[t].read => eval[t].file = disk.file
Fresh == "probe" \notin Gaps => ReadKnown /\ DeltaSound

IInv == TypeOK /\ RecordShaped /\ JobShaped /\ UsedShaped /\ EvalKnown /\ Fresh

-----------------------------------------------------------------------------
(* The initial state, and the lemmas about the pieces of a step.           *)

\* A file nobody has looked at: its stamp is none that a file has.
LEMMA InitFits == ASSUME Init PROVE IInv
  <1>1. TypeOK
    <2>1. 0 <= MaxReplaced /\ 0 <= MaxRequests /\ 0 <= MaxFailures
      BY BoundsGiven
    <2>2. /\ record.stamp = 0 /\ record.answers = NoAnswers /\ record.mark = FALSE
          /\ disk.stamp = 1 /\ used.stamps = 1 /\ queue = {} /\ job.pc = "idle"
          /\ used.replaced = 0 /\ used.requests = 0 /\ used.failures = 0
      BY DEF Init, NoJob
    <2>3. case \in Cases /\ request.pc = "none"
      BY DEF Init, NoRequest
    <2>4. Running <=> job.pc \in {"claimed", "decided", "running", "swapped", "finishing"}
      BY <2>2 DEF Running
    <2>5. DOMAIN record.answers = Columns
      BY <2>2 DEF NoAnswers
    <2>6. record.stamp \in 0 .. used.stamps /\ disk.stamp \in 1 .. used.stamps
      BY <2>2
    <2>7. /\ used.replaced <= MaxReplaced /\ used.requests <= MaxRequests
          /\ used.failures <= MaxFailures
      BY <2>1, <2>2
    <2>8. "review" \notin queue /\ queue \subseteq {"pending", "processing", "review", "failed"}
      BY <2>2
    <2> QED BY <2>2, <2>3, <2>4, <2>5, <2>6, <2>7, <2>8 DEF TypeOK, Running
  <1>2. RecordShaped /\ JobShaped /\ UsedShaped /\ EvalKnown
    BY DEF Init, RecordShaped, JobShaped, UsedShaped, EvalKnown, NoJob, Nobody
  <1>3. Fresh
    BY DEF Init, Fresh, ReadKnown, DeltaSound, Nobody
  <1> QED BY <1>1, <1>2, <1>3 DEF IInv

\* What an evaluation makes of the queue keeps to its statuses, leaves a running
\* job its row, and asks something wherever it puts a review.
LEMMA DecidedFits ==
    ASSUME TypeOK, NEW file, NEW given
    PROVE  LET d == Decided(file, given)
           IN  /\ d.queue \subseteq {"pending", "processing", "review", "failed"}
               /\ "processing" \in d.queue <=> Running
               /\ "review" \in d.queue => DOMAIN d.asked # {}
  <1> DEFINE d == Decided(file, given)
  <1>1. CASE Flagged(file, S, given) # {}
    <2>1. d = [queue |-> (queue \ {"pending"}) \cup {"review"},
               asked |-> Questions(file, given), flags |-> flags]
      BY <1>1 DEF Decided
    <2>2. DOMAIN Questions(file, given) # {}
      BY <1>1 DEF Questions
    <2> QED BY <2>1, <2>2 DEF TypeOK, Running
  <1>2. CASE Flagged(file, S, given) = {}
    <2>1. \/ d.queue = queue \ {"review"}
          \/ d.queue = queue /\ d.asked = asked
          \/ d.queue = (queue \ {"review", "failed"}) \cup {"pending"}
      BY <1>2 DEF Decided
    <2> QED BY <2>1 DEF TypeOK, Running
  <1> QED BY <1>1, <1>2

\* An evaluation that begins reads a stamp that has been given out.
LEMMA StartedFits ==
    ASSUME TypeOK, NEW rec, NEW clear
    PROVE  Started(rec, clear).stamp \in 1 .. used.stamps
  BY DEF Started, TypeOK

\* A file put at the path has a stamp no record has.
LEMMA ReplacedFits == ASSUME IInv, Replaced PROVE IInv'
  <1>1. TypeOK'
    BY BoundsGiven DEF Replaced, IInv, TypeOK, Running, RecordShaped, JobShaped,
       UsedShaped, EvalKnown
  <1>2. RecordShaped'
    BY DEF Replaced, IInv, RecordShaped
  <1>3. JobShaped'
    BY DEF Replaced, IInv, JobShaped
  <1>4. UsedShaped'
    <2>1. used' = [used EXCEPT !.replaced = used.replaced + 1, !.stamps = used.stamps + 1]
      BY DEF Replaced
    <2>2. used.replaced + 1 \in Nat /\ used.stamps + 1 \in Nat \ {0}
      BY DEF IInv, UsedShaped
    <2> QED BY <2>1, <2>2 DEF IInv, UsedShaped
  <1>5. EvalKnown'
    BY DEF Replaced, IInv, EvalKnown, UsedShaped, TypeOK
  <1>6. Fresh'
    BY DEF Replaced, IInv, Fresh, ReadKnown, DeltaSound, Unprobed, TypeOK, RecordShaped,
       UsedShaped
  <1> QED BY <1>1, <1>2, <1>3, <1>4, <1>5, <1>6 DEF IInv

\* A probe reads the file that is there.
LEMMA ProbeFits == ASSUME NEW t \in Threads, IInv, Probe(t) PROVE IInv'
  <1>1. /\ eval' = [eval EXCEPT ![t] = [eval[t] EXCEPT !.read = TRUE, !.file = disk.file]]
        /\ UNCHANGED <<case, disk, record, flags, queue, asked, job, request, said, used>>
    BY DEF Probe
  <1>2. \A u \in Threads : eval'[u].on = eval[u].on /\ eval'[u].stamp = eval[u].stamp
    BY <1>1 DEF IInv, EvalKnown
  <1> QED BY <1>1, <1>2 DEF IInv, TypeOK, Running, RecordShaped, JobShaped, UsedShaped,
             EvalKnown, Fresh, ReadKnown, DeltaSound

\* An evaluation writes the rows of the file it probes.
LEMMA EvaluateFits == ASSUME NEW t \in Threads, IInv, Evaluate(t) PROVE IInv'
  <1>1. TypeOK'
    <2> DEFINE e == eval[t]
               file == e.file
               loaded == IF e.clear \/ Forgets(e, file) THEN NoAnswers ELSE e.loaded.answers
               given == Given(loaded, file)
               d == Decided(file, given)
    <2>1. /\ record' = [file |-> file,
                 stamp |-> IF e.stamp # e.loaded.stamp THEN e.stamp ELSE record.stamp,
                 answers |-> [c \in Columns |->
                    IF loaded[c] # e.loaded.answers[c] THEN <<>> ELSE record.answers[c]],
                 mark |-> record.mark /\ ~e.again]
          /\ queue' = d.queue /\ asked' = d.asked /\ eval[t].on
          /\ UNCHANGED <<case, disk, job, request, used>>
      BY DEF Evaluate
    <2>2. /\ d.queue \subseteq {"pending", "processing", "review", "failed"}
          /\ "processing" \in d.queue <=> Running
          /\ "review" \in d.queue => DOMAIN d.asked # {}
      BY DecidedFits DEF IInv
    <2>3. e.stamp \in 1 .. used.stamps /\ record.stamp \in 0 .. used.stamps
      BY <2>1 DEF IInv, EvalKnown, TypeOK
    <2> HIDE DEF e, loaded, given, d
    <2>4. record'.stamp \in 0 .. used.stamps
      BY <2>1, <2>3
    <2>5. DOMAIN record'.answers = Columns
      BY <2>1
    <2>6. record'.mark \in BOOLEAN
      BY <2>1
    <2> QED BY <2>1, <2>2, <2>4, <2>5, <2>6 DEF IInv, TypeOK, Running
  <1>2. RecordShaped'
    BY DEF Evaluate, IInv, RecordShaped
  <1>3. JobShaped'
    BY DEF Evaluate, IInv, JobShaped
  <1>4. UsedShaped'
    BY DEF Evaluate, IInv, UsedShaped
  <1>5. EvalKnown'
    <2>1. eval' = [eval EXCEPT ![t] = [on |-> FALSE]] /\ used' = used
      BY DEF Evaluate, Nobody
    <2>2. [on |-> FALSE].on = FALSE
      OBVIOUS
    <2> QED BY <2>1, <2>2 DEF IInv, EvalKnown
  <1>6. Fresh'
    <2>1. SUFFICES ASSUME "probe" \notin Gaps PROVE ReadKnown' /\ DeltaSound'
      BY DEF Fresh
    <2>2. ReadKnown /\ eval[t].on /\ eval[t].read /\ record'.file = eval[t].file
      BY <2>1 DEF IInv, Fresh, Evaluate
    <2>3. /\ eval' = [eval EXCEPT ![t] = [on |-> FALSE]]
          /\ UNCHANGED <<disk, used>>
      BY DEF Evaluate, Nobody
    <2>4. ReadKnown'
      BY <2>2, <2>3 DEF ReadKnown, IInv, EvalKnown
    <2>5. record'.file = disk.file
      BY <2>2 DEF ReadKnown
    <2> QED BY <2>3, <2>4, <2>5 DEF DeltaSound
  <1> QED BY <1>1, <1>2, <1>3, <1>4, <1>5, <1>6 DEF IInv

\* A scan that begins reads a stamp that has been given out.
LEMMA ScanFits == ASSUME NEW force, IInv, Scan(force) PROVE IInv'
  <1>1. TypeOK'
    BY BoundsGiven DEF Scan, Started, IInv, TypeOK, Running, RecordShaped, JobShaped,
       UsedShaped, EvalKnown
  <1>2. RecordShaped'
    BY DEF Scan, Started, IInv, RecordShaped
  <1>3. JobShaped'
    BY DEF Scan, Started, IInv, JobShaped
  <1>4. UsedShaped'
    BY DEF Scan, Started, IInv, UsedShaped
  <1>5. EvalKnown'
    BY DEF Scan, Started, IInv, EvalKnown, UsedShaped, TypeOK
  <1>6. Fresh'
    BY DEF Scan, Started, IInv, Fresh, ReadKnown, DeltaSound, TypeOK, RecordShaped,
       UsedShaped
  <1> QED BY <1>1, <1>2, <1>3, <1>4, <1>5, <1>6 DEF IInv

\* An answer to a review leaves rows and stamp, and asks again if the review stays.
LEMMA AnswerFits == ASSUME IInv, AnswerReview PROVE IInv'
  <1>1. TypeOK'
    <2>1. PICK answers, given :
             /\ record' = [record EXCEPT !.answers = [record.answers EXCEPT !.subs = answers]]
             /\ IF Flagged(record.file, S, given) # {}
                THEN /\ asked' = Questions(record.file, given)
                     /\ UNCHANGED queue
                ELSE \/ queue' = queue \ {"review"}
                     \/ queue' = (queue \ {"review"}) \cup {"pending"}
      BY DEF AnswerReview
    <2>2. /\ used' = [used EXCEPT !.requests = used.requests + 1]
          /\ used.requests < MaxRequests
          /\ UNCHANGED <<case, disk, job, request>>
      BY DEF AnswerReview, Requested, Counted
    <2>3. used'.requests <= MaxRequests /\ used'.replaced = used.replaced
             /\ used'.failures = used.failures /\ used'.stamps = used.stamps
      BY <2>2, BoundsGiven DEF IInv, UsedShaped
    <2>4. record'.stamp = record.stamp /\ record'.mark = record.mark
             /\ DOMAIN record'.answers = Columns
      BY <2>1 DEF IInv, RecordShaped, TypeOK
    <2>5. \/ queue' = queue /\ DOMAIN asked' # {}
          \/ queue' = queue \ {"review"} \/ queue' = (queue \ {"review"}) \cup {"pending"}
      BY <2>1 DEF Questions
    <2> QED BY <2>2, <2>3, <2>4, <2>5 DEF IInv, TypeOK, Running
  <1>2. RecordShaped'
    BY DEF AnswerReview, Requested, Counted, IInv, RecordShaped
  <1>3. JobShaped'
    BY DEF AnswerReview, Requested, Counted, IInv, JobShaped
  <1>4. UsedShaped'
    BY DEF AnswerReview, Requested, Counted, IInv, UsedShaped
  <1>5. EvalKnown'
    BY DEF AnswerReview, Requested, Counted, IInv, EvalKnown, UsedShaped, TypeOK
  <1>6. Fresh'
    BY DEF AnswerReview, Requested, Counted, IInv, Fresh, ReadKnown, DeltaSound, TypeOK,
       RecordShaped, UsedShaped
  <1> QED BY <1>1, <1>2, <1>3, <1>4, <1>5, <1>6 DEF IInv

\* A language answer leaves rows and stamp.
LEMMA LanguageFits == ASSUME IInv, SetLanguage PROVE IInv'
  <1>1. TypeOK'
    BY BoundsGiven DEF SetLanguage, Reply, Requested, Counted, IInv, TypeOK, Running,
       RecordShaped, JobShaped, UsedShaped, EvalKnown
  <1>2. RecordShaped'
    BY DEF SetLanguage, Reply, Requested, Counted, IInv, RecordShaped
  <1>3. JobShaped'
    BY DEF SetLanguage, Reply, Requested, Counted, IInv, JobShaped
  <1>4. UsedShaped'
    BY DEF SetLanguage, Reply, Requested, Counted, IInv, UsedShaped
  <1>5. EvalKnown'
    BY DEF SetLanguage, Reply, Requested, Counted, IInv, EvalKnown, UsedShaped, TypeOK
  <1>6. Fresh'
    BY DEF SetLanguage, Reply, Requested, Counted, IInv, Fresh, ReadKnown, DeltaSound,
       TypeOK, RecordShaped, UsedShaped
  <1> QED BY <1>1, <1>2, <1>3, <1>4, <1>5, <1>6 DEF IInv

\* So do its commit
LEMMA StoreFits == ASSUME IInv, Store PROVE IInv'
  <1>1. PICK column, answers :
           /\ record' = [record EXCEPT !.answers[column] = answers]
           /\ request'.pc = "stored"
           /\ UNCHANGED <<case, disk, flags, queue, asked, eval, job, used>>
    BY DEF Store
  <1>2. /\ record'.file = record.file /\ record'.stamp = record.stamp
        /\ record'.mark = record.mark /\ DOMAIN record'.answers = DOMAIN record.answers
        /\ RecordShaped'
    BY <1>1 DEF IInv, RecordShaped
  <1> QED BY <1>1, <1>2 DEF IInv, TypeOK, Running, JobShaped, UsedShaped, EvalKnown,
             Fresh, ReadKnown, DeltaSound

\* and the deletion of the question.
LEMMA SettleFits == ASSUME IInv, Settle PROVE IInv'
  <1>1. /\ request'.pc = "settled"
        /\ UNCHANGED <<case, disk, record, queue, asked, eval, job, said, used>>
    BY DEF Settle
  <1> QED BY <1>1 DEF IInv, TypeOK, Running, RecordShaped, JobShaped, UsedShaped,
             EvalKnown, Fresh, ReadKnown, DeltaSound

\* So does what follows.
LEMMA FollowFits == ASSUME IInv, Follow PROVE IInv'
  <1>1. TypeOK'
    BY BoundsGiven DEF Follow, Started, NoRequest, IInv, TypeOK, Running, RecordShaped, JobShaped,
       UsedShaped, EvalKnown
  <1>2. RecordShaped'
    BY DEF Follow, Started, NoRequest, IInv, RecordShaped
  <1>3. JobShaped'
    BY DEF Follow, Started, NoRequest, IInv, JobShaped
  <1>4. UsedShaped'
    BY DEF Follow, Started, NoRequest, IInv, UsedShaped
  <1>5. EvalKnown'
    BY DEF Follow, Started, NoRequest, IInv, EvalKnown, UsedShaped, TypeOK
  <1>6. Fresh'
    <2>1. UNCHANGED <<disk, used>> /\ record'.file = record.file /\ record'.stamp = record.stamp
      BY DEF Follow, IInv, RecordShaped
    <2>2. \A t \in Threads : eval'[t] = eval[t] \/ ~eval'[t].read
      BY DEF Follow, Started, IInv, EvalKnown
    <2> QED BY <2>1, <2>2 DEF IInv, Fresh, ReadKnown, DeltaSound
  <1> QED BY <1>1, <1>2, <1>3, <1>4, <1>5, <1>6 DEF IInv

\* So does asking again.
LEMMA AskAgainFits == ASSUME IInv, AskAgain PROVE IInv'
  <1>1. TypeOK'
    BY BoundsGiven DEF AskAgain, Started, NoRequest, Requested, Counted, IInv, TypeOK, Running,
       RecordShaped, JobShaped, UsedShaped, EvalKnown
  <1>2. RecordShaped'
    BY DEF AskAgain, Started, NoRequest, Requested, Counted, IInv, RecordShaped
  <1>3. JobShaped'
    BY DEF AskAgain, Started, NoRequest, Requested, Counted, IInv, JobShaped
  <1>4. UsedShaped'
    BY DEF AskAgain, Started, NoRequest, Requested, Counted, IInv, UsedShaped
  <1>5. EvalKnown'
    BY DEF AskAgain, Started, NoRequest, Requested, Counted, IInv, EvalKnown, UsedShaped, TypeOK
  <1>6. Fresh'
    BY DEF AskAgain, Started, NoRequest, Requested, Counted, IInv, Fresh, ReadKnown,
       DeltaSound, TypeOK, RecordShaped, UsedShaped
  <1> QED BY <1>1, <1>2, <1>3, <1>4, <1>5, <1>6 DEF IInv

\* A cancel takes the stamp from the record: no file has stamp 0.
LEMMA CancelFits == ASSUME IInv, CancelItem PROVE IInv'
  <1>1. TypeOK'
    BY BoundsGiven DEF CancelItem, Requested, Counted, IInv, TypeOK, Running,
       RecordShaped, JobShaped, UsedShaped, EvalKnown
  <1>2. RecordShaped'
    BY DEF CancelItem, Requested, Counted, IInv, RecordShaped
  <1>3. JobShaped'
    BY DEF CancelItem, Requested, Counted, IInv, JobShaped
  <1>4. UsedShaped'
    BY DEF CancelItem, Requested, Counted, IInv, UsedShaped
  <1>5. EvalKnown'
    BY DEF CancelItem, Requested, Counted, IInv, EvalKnown, UsedShaped, TypeOK
  <1>6. Fresh'
    BY DEF CancelItem, Requested, Counted, IInv, Fresh, ReadKnown, DeltaSound, TypeOK,
       RecordShaped, UsedShaped
  <1> QED BY <1>1, <1>2, <1>3, <1>4, <1>5, <1>6 DEF IInv

\* A claim leaves record and file alone, and the row that is processing is the job's.
LEMMA ClaimFits == ASSUME IInv, Claim PROVE IInv'
  <1>1. TypeOK'
    BY BoundsGiven DEF Claim, NoJob, IInv, TypeOK, Running, RecordShaped, JobShaped,
       UsedShaped, EvalKnown
  <1>2. RecordShaped'
    BY DEF Claim, NoJob, IInv, RecordShaped
  <1>3. JobShaped'
    BY DEF Claim, NoJob, IInv, JobShaped
  <1>4. UsedShaped'
    BY DEF Claim, NoJob, IInv, UsedShaped
  <1>5. EvalKnown'
    BY DEF Claim, NoJob, IInv, EvalKnown, UsedShaped, TypeOK
  <1>6. Fresh'
    BY DEF Claim, NoJob, IInv, Fresh, ReadKnown, DeltaSound, TypeOK, RecordShaped,
       UsedShaped
  <1> QED BY <1>1, <1>2, <1>3, <1>4, <1>5, <1>6 DEF IInv

\* A load ends the job with its row, or goes on with both; a review asks something.
LEMMA LoadFits == ASSUME IInv, Load PROVE IInv'
  <1>1. TypeOK'
    <2>1. job.pc = "claimed" /\ UNCHANGED <<case, disk, record, request, used>>
      BY DEF Load
    <2>2. \/ queue' = Ended /\ job'.pc = "idle" /\ asked' = asked
          \/ queue' = Ended \cup {"review"} /\ DOMAIN asked' # {} /\ job'.pc = "idle"
          \/ queue' = queue /\ asked' = asked /\ job'.pc = "decided"
      <3> DEFINE file == record.file
                 given == Given(record.answers, file)
      <3>1. \/ queue' = Ended /\ asked' = asked /\ job' = NoJob
            \/ /\ Flagged(file, S, given) # {} /\ queue' = Ended \cup {"review"}
               /\ asked' = Questions(file, given) /\ job' = NoJob
            \/ /\ queue' = queue /\ asked' = asked
               /\ job' = [pc |-> "decided", file |-> file, answers |-> record.answers]
        BY Zenon DEF Load
      <3>2. DOMAIN Questions(file, given) = Flagged(file, S, given)
        BY DEF Questions
      <3> HIDE DEF file, given
      <3> QED BY <3>1, <3>2 DEF NoJob
    <2> QED BY <2>1, <2>2 DEF IInv, TypeOK, Running, Ended
  <1>2. RecordShaped'
    BY DEF Load, Started, Ended, NoJob, IInv, RecordShaped
  <1>3. JobShaped'
    BY DEF Load, Started, Ended, NoJob, IInv, JobShaped
  <1>4. UsedShaped'
    BY DEF Load, Started, Ended, NoJob, IInv, UsedShaped
  <1>5. EvalKnown'
    BY DEF Load, Started, Ended, NoJob, IInv, EvalKnown, UsedShaped, TypeOK
  <1>7. PICK rec : eval' \in {eval, [eval EXCEPT !["job"] = rec]} /\ ~rec.read
    <2> DEFINE again == [Started(record, FALSE) EXCEPT !.again = record.mark]
    <2>1. ~again.read
      BY DEF Started
    <2>2. eval' = eval \/ eval' = [eval EXCEPT !["job"] = again]
      BY DEF Load
    <2> HIDE DEF again
    <2> QED BY <2>1, <2>2
  <1>6. Fresh'
    <2>1. UNCHANGED <<disk, used, record>>
      BY DEF Load
    <2>2. \A t \in Threads : eval'[t] = eval[t] \/ ~eval'[t].read
      BY <1>7 DEF IInv, EvalKnown
    <2> QED BY <2>1, <2>2 DEF IInv, Fresh, ReadKnown, DeltaSound
  <1> QED BY <1>1, <1>2, <1>3, <1>4, <1>5, <1>6 DEF IInv

\* The fingerprint is read.
LEMMA FingerprintFits == ASSUME IInv, Fingerprint PROVE IInv'
  <1>1. TypeOK'
    BY BoundsGiven DEF Fingerprint, IInv, TypeOK, Running, RecordShaped, JobShaped,
       UsedShaped, EvalKnown
  <1>2. RecordShaped'
    BY DEF Fingerprint, IInv, RecordShaped
  <1>3. JobShaped'
    BY DEF Fingerprint, IInv, JobShaped
  <1>4. UsedShaped'
    BY DEF Fingerprint, IInv, UsedShaped
  <1>5. EvalKnown'
    BY DEF Fingerprint, IInv, EvalKnown, UsedShaped, TypeOK
  <1>6. Fresh'
    BY DEF Fingerprint, IInv, Fresh, ReadKnown, DeltaSound, TypeOK, RecordShaped,
       UsedShaped
  <1> QED BY <1>1, <1>2, <1>3, <1>4, <1>5, <1>6 DEF IInv

\* The swap gives the file a stamp no record has.
LEMMA SwapFits == ASSUME IInv, Swap PROVE IInv'
  <1>1. TypeOK'
    BY BoundsGiven DEF Swap, IInv, TypeOK, Running, RecordShaped, JobShaped, UsedShaped,
       EvalKnown
  <1>2. RecordShaped'
    BY DEF Swap, IInv, RecordShaped
  <1>3. JobShaped'
    BY DEF Swap, IInv, JobShaped
  <1>4. UsedShaped'
    BY DEF Swap, IInv, UsedShaped
  <1>5. EvalKnown'
    BY DEF Swap, IInv, EvalKnown, UsedShaped, TypeOK
  <1>6. Fresh'
    BY DEF Swap, IInv, Fresh, ReadKnown, DeltaSound, Unprobed, TypeOK, RecordShaped,
       UsedShaped
  <1> QED BY <1>1, <1>2, <1>3, <1>4, <1>5, <1>6 DEF IInv

\* A job that finds its source changed takes the stamp from the record.
LEMMA StopFits == ASSUME IInv, StopForChange PROVE IInv'
  <1>1. TypeOK'
    BY BoundsGiven DEF StopForChange, Started, Ended, NoJob, IInv, TypeOK, Running,
       RecordShaped, JobShaped, UsedShaped, EvalKnown
  <1>2. RecordShaped'
    BY DEF StopForChange, Started, Ended, NoJob, IInv, RecordShaped
  <1>3. JobShaped'
    BY DEF StopForChange, Started, Ended, NoJob, IInv, JobShaped
  <1>4. UsedShaped'
    BY DEF StopForChange, Started, Ended, NoJob, IInv, UsedShaped
  <1>5. EvalKnown'
    <2>1. PICK rec :
             /\ eval' = [eval EXCEPT !["job"] = rec] /\ rec.stamp = disk.stamp
             /\ UNCHANGED used
      BY DEF StopForChange, Started
    <2> QED BY <2>1 DEF IInv, EvalKnown, UsedShaped, TypeOK
  <1>6. Fresh'
    BY DEF StopForChange, Started, Ended, NoJob, IInv, Fresh, ReadKnown, DeltaSound,
       TypeOK, RecordShaped, UsedShaped
  <1> QED BY <1>1, <1>2, <1>3, <1>4, <1>5, <1>6 DEF IInv

\* A job that fails gives up its row.
LEMMA FailFits == ASSUME IInv, Fail PROVE IInv'
  <1>1. TypeOK'
    BY BoundsGiven DEF Fail, Ended, NoJob, IInv, TypeOK, Running, RecordShaped,
       JobShaped, UsedShaped, EvalKnown
  <1>2. RecordShaped'
    BY DEF Fail, Ended, NoJob, IInv, RecordShaped
  <1>3. JobShaped'
    BY DEF Fail, Ended, NoJob, IInv, JobShaped
  <1>4. UsedShaped'
    BY DEF Fail, Ended, NoJob, IInv, UsedShaped
  <1>5. EvalKnown'
    BY DEF Fail, Ended, NoJob, IInv, EvalKnown, UsedShaped, TypeOK
  <1>6. Fresh'
    BY DEF Fail, Ended, NoJob, IInv, Fresh, ReadKnown, DeltaSound, TypeOK, RecordShaped,
       UsedShaped
  <1> QED BY <1>1, <1>2, <1>3, <1>4, <1>5, <1>6 DEF IInv

\* The end of a job reads the record.
LEMMA FinishReadFits == ASSUME IInv, FinishRead PROVE IInv'
  <1>1. /\ job.pc = "swapped" /\ job'.pc = "finishing"
        /\ UNCHANGED <<case, disk, record, flags, queue, asked, eval, request, said, used>>
    BY DEF FinishRead
  <1>2. TypeOK'
    BY <1>1 DEF IInv, TypeOK, Running
  <1>3. JobShaped'
    BY DEF FinishRead, JobShaped
  <1> QED BY <1>1, <1>2, <1>3 DEF IInv, RecordShaped, UsedShaped, EvalKnown, Fresh, ReadKnown,
             DeltaSound

\* The end of a job writes the rows of its output together with its stamp.
LEMMA FinishWriteFits == ASSUME IInv, FinishWrite PROVE IInv'
  <1>1. TypeOK'
    BY BoundsGiven DEF FinishWrite, Ended, RowsRead, IInv, TypeOK, Running, RecordShaped,
       JobShaped, UsedShaped, EvalKnown
  <1>2. RecordShaped'
    BY DEF FinishWrite, Ended, RowsRead, IInv, RecordShaped
  <1>3. JobShaped'
    BY DEF FinishWrite, Ended, RowsRead, IInv, JobShaped
  <1>4. UsedShaped'
    BY DEF FinishWrite, Ended, RowsRead, IInv, UsedShaped
  <1>5. EvalKnown'
    BY DEF FinishWrite, Ended, RowsRead, IInv, EvalKnown, UsedShaped, TypeOK
  <1>6. Fresh'
    BY DEF FinishWrite, Ended, RowsRead, IInv, Fresh, ReadKnown, DeltaSound, TypeOK,
       RecordShaped, UsedShaped
  <1> QED BY <1>1, <1>2, <1>3, <1>4, <1>5, <1>6 DEF IInv

\* An output that cannot be read has its stamp noted as such.
LEMMA FinishUnreadFits == ASSUME IInv, FinishUnread PROVE IInv'
  <1> DEFINE answers == [c \in Columns |-> IF job.loaded[c] # <<>> THEN <<>>
                                           ELSE record.answers[c]]
  <1>1. /\ job.pc = "finishing" /\ used.failures < MaxFailures
        /\ record' = [record EXCEPT !.stamp = disk.stamp, !.answers = answers]
        /\ used' = [used EXCEPT !.failures = used.failures + 1, !.unread = disk.stamp]
        /\ queue' = queue \ {"processing"} /\ job' = [pc |-> "ended"]
        /\ UNCHANGED <<case, disk, flags, asked, eval, request, said>>
    BY DEF FinishUnread, Ended, IInv, RecordShaped
  <1>2. disk.stamp \in 1 .. used.stamps /\ disk.stamp \in Nat
    BY DEF IInv, TypeOK, UsedShaped
  <1>3. DOMAIN answers = Columns
    OBVIOUS
  <1> HIDE DEF answers
  <1>4. /\ used'.replaced = used.replaced /\ used'.requests = used.requests
        /\ used'.failures = used.failures + 1 /\ used'.stamps = used.stamps
        /\ used'.unread = disk.stamp
    BY <1>1 DEF IInv, UsedShaped
  <1>5. /\ record'.stamp = disk.stamp /\ record'.answers = answers
        /\ record'.mark = record.mark
    BY <1>1 DEF IInv, RecordShaped
  <1>6. TypeOK'
    <2>1. used.failures + 1 <= MaxFailures
      BY <1>1, BoundsGiven DEF IInv, UsedShaped
    <2> QED BY <1>1, <1>2, <1>3, <1>4, <1>5, <2>1 DEF IInv, TypeOK, Running
  <1>7. RecordShaped'
    BY <1>1 DEF IInv, RecordShaped
  <1>8. JobShaped'
    BY <1>1 DEF JobShaped
  <1>9. UsedShaped'
    <2>1. used.failures + 1 \in Nat
      BY DEF IInv, UsedShaped
    <2> QED BY <1>1, <1>2, <2>1 DEF IInv, UsedShaped
  <1>10. EvalKnown'
    BY <1>1, <1>4 DEF IInv, EvalKnown
  <1>11. Fresh'
    BY <1>1, <1>4, <1>5 DEF IInv, Fresh, ReadKnown, DeltaSound
  <1> QED BY <1>6, <1>7, <1>8, <1>9, <1>10, <1>11 DEF IInv

\* A job that is over makes way, perhaps with an evaluation of a stamp given out.
LEMMA AfterFits == ASSUME IInv, After PROVE IInv'
  <1>1. TypeOK'
    BY BoundsGiven DEF After, Started, NoJob, IInv, TypeOK, Running, RecordShaped,
       JobShaped, UsedShaped, EvalKnown
  <1>2. RecordShaped'
    BY DEF After, Started, NoJob, IInv, RecordShaped
  <1>3. JobShaped'
    BY DEF After, Started, NoJob, IInv, JobShaped
  <1>4. UsedShaped'
    BY DEF After, Started, NoJob, IInv, UsedShaped
  <1>5. EvalKnown'
    BY DEF After, Started, NoJob, IInv, EvalKnown, UsedShaped, TypeOK
  <1>6. Fresh'
    BY DEF After, Started, NoJob, IInv, Fresh, ReadKnown, DeltaSound, TypeOK,
       RecordShaped, UsedShaped
  <1> QED BY <1>1, <1>2, <1>3, <1>4, <1>5, <1>6 DEF IInv

-----------------------------------------------------------------------------
(* The theorems.                                                           *)

\* The invariant holds at first and every step preserves it.
THEOREM Inductive == Init /\ [][Next]_vars => []IInv
  <1>1. ASSUME IInv, [Next]_vars PROVE IInv'
    <2>1. CASE UNCHANGED vars
      BY <1>1, <2>1 DEF vars, IInv, TypeOK, Running, RecordShaped, JobShaped, UsedShaped,
                        EvalKnown, Fresh, ReadKnown, DeltaSound
    <2>2. CASE Replaced BY <1>1, <2>2, ReplacedFits
    <2>3. ASSUME NEW t \in Threads, Evaluate(t) PROVE IInv'
      BY <1>1, <2>3, EvaluateFits
    <2>20. ASSUME NEW t \in Threads, Probe(t) PROVE IInv'
      BY <1>1, <2>20, ProbeFits
    <2>21. CASE Store BY <1>1, <2>21, StoreFits
    <2>22. CASE Settle BY <1>1, <2>22, SettleFits
    <2>4. ASSUME NEW force \in BOOLEAN, Scan(force) PROVE IInv'
      BY <1>1, <2>4, ScanFits
    <2>5. CASE AnswerReview BY <1>1, <2>5, AnswerFits
    <2>6. CASE SetLanguage BY <1>1, <2>6, LanguageFits
    <2>7. CASE Follow BY <1>1, <2>7, FollowFits
    <2>8. CASE AskAgain BY <1>1, <2>8, AskAgainFits
    <2>9. CASE CancelItem BY <1>1, <2>9, CancelFits
    <2>10. CASE Claim BY <1>1, <2>10, ClaimFits
    <2>11. CASE Load BY <1>1, <2>11, LoadFits
    <2>12. CASE Fingerprint BY <1>1, <2>12, FingerprintFits
    <2>13. CASE Swap BY <1>1, <2>13, SwapFits
    <2>14. CASE StopForChange BY <1>1, <2>14, StopFits
    <2>15. CASE Fail BY <1>1, <2>15, FailFits
    <2>16. CASE FinishRead BY <1>1, <2>16, FinishReadFits
    <2>17. CASE FinishWrite BY <1>1, <2>17, FinishWriteFits
    <2>18. CASE After BY <1>1, <2>18, AfterFits
    <2>19. CASE FinishUnread BY <1>1, <2>19, FinishUnreadFits
    <2> QED BY <1>1, <2>1, <2>2, <2>3, <2>4, <2>5, <2>6, <2>7, <2>8, <2>9, <2>10, <2>11,
               <2>12, <2>13, <2>14, <2>15, <2>16, <2>17, <2>18, <2>19,
               <2>20, <2>21, <2>22 DEF Next
  <1> QED BY <1>1, InitFits, PTL

\* Record, rows, questions and counters keep their types, a row is processing
\* exactly while a job is at work, and a review always asks something.
THEOREM TypeCorrect == Spec => []TypeOK
  <1>1. IInv => TypeOK
    BY DEF IInv
  <1> QED BY <1>1, Inductive, PTL DEF Spec

\* The file a delta scan skips is the one its rows describe, whoever replaces it,
\* unless it is an output that could not be probed: as long as nothing replaces
\* it between an evaluation's probe and its commit (FileLifeOvertaken.cfg shows
\* what becomes of it otherwise), nor in the moments a job leaves open, of which
\* FinishWrite takes the stamp, the probe and the commit in one step.
THEOREM SkippedIsKnown ==
    ASSUME {"job", "probe"} \cap Gaps = {} PROVE Spec => []DeltaSound
  <1>1. IInv => DeltaSound
    BY DEF IInv, Fresh
  <1> QED BY <1>1, Inductive, PTL DEF Spec

-----------------------------------------------------------------------------
(* Streams in order                                                        *)

TrackTypes == {"video", "audio", "subtitle"}

\* A later member of a set has a higher rank, and ranks run from 1 to the number
\* of members.
LEMMA RankFits ==
    ASSUME NEW R \in SUBSET Nat, IsFiniteSet(R)
    PROVE  /\ Cardinality(R) \in Nat
           /\ \A i \in R : Rank(R, i) \in 1 .. Cardinality(R)
           /\ \A i, j \in R : i < j => Rank(R, i) < Rank(R, j)
<1>1. Cardinality(R) \in Nat
  BY FS_CardinalityType
<1>2. ASSUME NEW i \in R
      PROVE  /\ IsFiniteSet({k \in R : k <= i})
             /\ Rank(R, i) \in Nat /\ Rank(R, i) <= Cardinality(R) /\ Rank(R, i) # 0
  <2>1. {k \in R : k <= i} \in SUBSET R /\ {k \in R : k <= i} # {}
    OBVIOUS
  <2>2. IsFiniteSet({k \in R : k <= i}) /\ Rank(R, i) <= Cardinality(R)
    BY <2>1, FS_Subset DEF Rank
  <2>3. Rank(R, i) \in Nat /\ Rank(R, i) # 0
    BY <2>1, <2>2, FS_CardinalityType, FS_EmptySet DEF Rank
  <2> QED BY <2>2, <2>3
<1>3. ASSUME NEW i \in R, NEW j \in R, i < j PROVE Rank(R, i) < Rank(R, j)
  <2> DEFINE I == {k \in R : k <= i}
             J == {k \in R : k <= j}
  <2>0. i \in Nat /\ j \in Nat
    OBVIOUS
  <2>1. \A k \in R : k <= i => k <= j
    BY <1>3, <2>0
  <2>2. j \in J /\ j \notin I
    BY <1>3, <2>0
  <2>3. I \in SUBSET J /\ I # J
    BY <2>1, <2>2
  <2>4. Cardinality(I) <= Cardinality(J) /\ Cardinality(I) # Cardinality(J)
    <3>1. IsFiniteSet(J)
      BY <1>2
    <3> HIDE DEF I, J
    <3> QED BY <2>3, <3>1, FS_Subset
  <2>5. Rank(R, i) = Cardinality(I) /\ Rank(R, j) = Cardinality(J)
    BY DEF Rank
  <2>6. Rank(R, i) \in Nat /\ Rank(R, j) \in Nat
    BY <1>2
  <2> HIDE DEF I, J
  <2> QED BY <2>4, <2>5, <2>6
<1>4. ASSUME NEW i \in R PROVE Rank(R, i) \in 1 .. Cardinality(R)
  <2>1. Rank(R, i) \in Nat /\ Rank(R, i) <= Cardinality(R) /\ Rank(R, i) # 0
    BY <1>2
  <2> QED BY <1>1, <2>1
<1> QED BY <1>1, <1>3, <1>4

\* Each rank is that of one member: by counting, since no two have the same.
LEMMA RankTaken ==
    ASSUME NEW R \in SUBSET Nat, IsFiniteSet(R), NEW n \in 1 .. Cardinality(R)
    PROVE  \E i \in R : Rank(R, i) = n
<1> SUFFICES ASSUME \A i \in R : Rank(R, i) # n PROVE FALSE
  OBVIOUS
<1> DEFINE T == (1 .. Cardinality(R)) \ {n}
           f == [i \in R |-> Rank(R, i)]
<1>1. Cardinality(R) \in Nat
  BY FS_CardinalityType
<1>2. IsFiniteSet(T) /\ Cardinality(T) = Cardinality(R) - 1
  <2>1. IsFiniteSet(1 .. Cardinality(R)) /\ Cardinality(1 .. Cardinality(R)) = Cardinality(R)
    BY <1>1, FS_Interval, SMTT(30)
  <2> QED BY <2>1, FS_RemoveElement
<1>3. f \in [R -> T]
  BY RankFits
<1>4. PICK i, j \in R : i # j /\ f[i] = f[j]
  <2> HIDE DEF T, f
  <2>1. Cardinality(T) < Cardinality(R)
    BY <1>1, <1>2
  <2> QED BY <1>2, <1>3, <2>1, FS_PigeonHole
<1>5. i < j \/ j < i
  BY <1>4
<1>6. Rank(R, i) = Rank(R, j) /\ Rank(R, i) \in Nat /\ Rank(R, j) \in Nat
  BY <1>4, RankFits
<1> QED BY <1>5, <1>6, RankFits

\* Ordered lists the members of a set, each once, the lowest first.
LEMMA OrderedFits ==
    ASSUME NEW R \in SUBSET Nat, IsFiniteSet(R)
    PROVE  /\ Ordered(R) \in Seq(R) /\ Len(Ordered(R)) = Cardinality(R)
           /\ \A i \in R : Rank(R, i) \in DOMAIN Ordered(R) /\ Ordered(R)[Rank(R, i)] = i
           /\ \A n \in DOMAIN Ordered(R) : Rank(R, Ordered(R)[n]) = n
<1>1. Cardinality(R) \in Nat
  BY FS_CardinalityType
<1>2. DOMAIN Ordered(R) = 1 .. Cardinality(R)
  BY DEF Ordered
<1>3. ASSUME NEW n \in 1 .. Cardinality(R)
      PROVE  Ordered(R)[n] \in R /\ Rank(R, Ordered(R)[n]) = n
  BY <1>3, RankTaken DEF Ordered
<1>4. Ordered(R) \in [1 .. Cardinality(R) -> R]
  BY <1>3 DEF Ordered
<1>5. Ordered(R) \in Seq(R) /\ Len(Ordered(R)) = Cardinality(R)
  BY <1>1, <1>4
<1>6. ASSUME NEW i \in R
      PROVE  Rank(R, i) \in DOMAIN Ordered(R) /\ Ordered(R)[Rank(R, i)] = i
  <2> DEFINE n == Rank(R, i)
             j == Ordered(R)[n]
  <2>1. n \in 1 .. Cardinality(R) /\ j \in R /\ Rank(R, j) = n
    BY <1>3, RankFits
  <2>2. i = j
    <3> HIDE DEF j
    <3>1. i \in Nat /\ j \in Nat /\ Rank(R, i) \in Nat /\ Rank(R, j) \in Nat
      BY <2>1
    <3>2. ~(i < j) /\ ~(j < i)
      BY <2>1, <3>1, RankFits
    <3> QED BY <3>1, <3>2
  <2> QED BY <1>2, <2>1, <2>2
<1> QED BY <1>2, <1>3, <1>5, <1>6

\* A set of streams that is not empty has a lowest one.
LEMMA MinFits ==
    ASSUME NEW R \in SUBSET Nat, IsFiniteSet(R), R # {}
    PROVE  Min(R) \in R /\ \A i \in R : Min(R) <= i
<1>1. Cardinality(R) \in Nat /\ Cardinality(R) # 0
  BY FS_CardinalityType, FS_EmptySet
<1>2. PICK m \in R : Rank(R, m) = 1
  <2>1. 1 \in 1 .. Cardinality(R)
    BY <1>1
  <2> QED BY <2>1, RankTaken
<1>3. ASSUME NEW i \in R PROVE m <= i
  <2>1. i \in Nat /\ m \in Nat /\ Rank(R, i) \in Nat /\ Rank(R, i) >= 1
    BY RankFits
  <2>2. i < m => Rank(R, i) < Rank(R, m)
    BY RankFits
  <2> QED BY <1>2, <2>1, <2>2
<1> QED BY <1>3 DEF Min

\* What a type's streams are: some of the file's.
LEMMA StreamsFit ==
    ASSUME NEW f, IsFile(f), NEW type
    PROVE  /\ DOMAIN f.tracks = 1 .. Len(f.tracks) /\ Len(f.tracks) \in Nat
           /\ DOMAIN f.tracks \in SUBSET Nat /\ IsFiniteSet(DOMAIN f.tracks)
           /\ \A i \in DOMAIN f.tracks : IsTrack(f.tracks[i])
           /\ Streams(f, type) \in SUBSET DOMAIN f.tracks
           /\ \A T \in SUBSET DOMAIN f.tracks : T \in SUBSET Nat /\ IsFiniteSet(T)
<1>1. f.tracks \in Seq(Range(f.tracks)) /\ \A i \in DOMAIN f.tracks : IsTrack(f.tracks[i])
  BY DEF IsFile
<1>2. /\ DOMAIN f.tracks = 1 .. Len(f.tracks) /\ Len(f.tracks) \in Nat
      /\ DOMAIN f.tracks \in SUBSET Nat
  BY <1>1
<1>3. IsFiniteSet(DOMAIN f.tracks)
  BY <1>2, FS_Interval
<1>4. \A T \in SUBSET DOMAIN f.tracks : T \in SUBSET Nat /\ IsFiniteSet(T)
  BY <1>2, <1>3, FS_Subset
<1> QED BY <1>1, <1>2, <1>3, <1>4 DEF Streams

-----------------------------------------------------------------------------
(* What is kept, and what the output is made of                            *)

\* The audio that is kept is of the file, and there is some if the file has any.
LEMMA AudioKeptFits ==
    ASSUME NEW f, IsFile(f), NEW s
    PROVE  /\ AudioKept(f, s) \in SUBSET Streams(f, "audio")
           /\ Streams(f, "audio") # {} => AudioKept(f, s) # {}
<1>1. Streams(f, "audio") # {} => Min(Streams(f, "audio")) \in Streams(f, "audio")
  BY StreamsFit, MinFits
<1> QED BY <1>1 DEF AudioKept

\* A sequence of the members of a set, none left out.
Lists(p, R) == p \in Seq(R) /\ \A i \in R : \E n \in DOMAIN p : p[n] = i

\* One after the other, two of them list both sets.
LEMMA ConcatLists ==
    ASSUME NEW R, NEW T, NEW p, NEW q, Lists(p, R), Lists(q, T)
    PROVE  Lists(p \o q, R \cup T)
<1>1. p \in Seq(R) /\ q \in Seq(T)
  BY DEF Lists
<1>2. p \o q \in Seq(R \cup T) /\ DOMAIN (p \o q) = 1 .. Len(p) + Len(q)
  BY <1>1
<1>3. ASSUME NEW i \in R PROVE \E k \in DOMAIN (p \o q) : (p \o q)[k] = i
  <2>1. PICK n \in DOMAIN p : p[n] = i
    BY DEF Lists
  <2>2. n \in DOMAIN (p \o q) /\ (p \o q)[n] = i
    BY <1>1, <1>2, <2>1
  <2> QED BY <2>2
<1>4. ASSUME NEW i \in T PROVE \E k \in DOMAIN (p \o q) : (p \o q)[k] = i
  <2>1. PICK n \in DOMAIN q : q[n] = i
    BY DEF Lists
  <2>2. n + Len(p) \in DOMAIN (p \o q) /\ (p \o q)[n + Len(p)] = i
    BY <1>1, <1>2, <2>1
  <2> QED BY <2>2
<1> QED BY <1>2, <1>3, <1>4 DEF Lists

\* The output's streams are, in order, the video, the audio kept and the
\* subtitles kept, each a stream of the file, and all of them.
LEMMA MappedFits ==
    ASSUME NEW f, IsFile(f), NEW s, NEW a
    PROVE  /\ Lists(Mapped(f, s, a),
                    Streams(f, "video") \cup AudioKept(f, s) \cup Embedded(f, s, a))
           /\ Streams(f, "video") \cup AudioKept(f, s) \cup Embedded(f, s, a)
                \in SUBSET DOMAIN f.tracks
<1> DEFINE V == Streams(f, "video")
           A == AudioKept(f, s)
           E == Embedded(f, s, a)
<1>1. V \in SUBSET DOMAIN f.tracks /\ A \in SUBSET DOMAIN f.tracks
      /\ E \in SUBSET DOMAIN f.tracks
  BY StreamsFit, AudioKeptFits DEF Embedded
<1>2. ASSUME NEW T \in SUBSET DOMAIN f.tracks PROVE Lists(Ordered(T), T)
  BY StreamsFit, OrderedFits DEF Lists
<1>3. Mapped(f, s, a) = (Ordered(V) \o Ordered(A)) \o Ordered(E)
  BY DEF Mapped
<1> HIDE DEF V, A, E
<1>4. Lists(Ordered(V), V) /\ Lists(Ordered(A), A) /\ Lists(Ordered(E), E)
  BY <1>1, <1>2
<1>5. Lists(Ordered(V) \o Ordered(A), V \cup A)
  BY <1>4, ConcatLists
<1>6. Lists((Ordered(V) \o Ordered(A)) \o Ordered(E), (V \cup A) \cup E)
  BY <1>4, <1>5, ConcatLists
<1> QED BY <1>1, <1>3, <1>6 DEF V, A, E

\* The output is a file: its streams are the mapped ones, but for their tags.
\* The output is a file: its streams are the mapped ones, but for their tags.
LEMMA OutputFits ==
    ASSUME NEW f, IsFile(f), NEW s, NEW a
    PROVE  LET out == Output(f, s, a)
               map == Mapped(f, s, a)
           IN  /\ IsFile(out)
               /\ DOMAIN out.tracks = DOMAIN map
               /\ \A n \in DOMAIN map :
                     /\ map[n] \in DOMAIN f.tracks
                     /\ out.tracks[n].id = f.tracks[map[n]].id
                     /\ out.tracks[n].type = f.tracks[map[n]].type
                     /\ out.tracks[n].kind = f.tracks[map[n]].kind
<1> DEFINE map == Mapped(f, s, a)
           target == Target(f, s, a)
           Written(i) == Muxed(target, LangWritten(f, s, a, i))
           tracks == [n \in DOMAIN map |-> [f.tracks[map[n]] EXCEPT !.lang = Written(map[n])]]
<1>1. map \in Seq(DOMAIN f.tracks)
  <2>1. DEFINE W == Streams(f, "video") \cup AudioKept(f, s) \cup Embedded(f, s, a)
  <2>2. map \in Seq(W) /\ W \in SUBSET DOMAIN f.tracks
    BY MappedFits DEF Lists
  <2> HIDE DEF W, map
  <2> QED BY <2>2
<1>2. Output(f, s, a) = [container |-> target, tracks |-> tracks,
                         fonts |-> f.fonts /\ target # "mp4",
                         fast |-> OutputFast(f, s, a), original |-> f.original]
  BY DEF Output
<1> HIDE DEF map, target, Written
<1>3. ASSUME NEW n \in DOMAIN map
      PROVE  /\ map[n] \in DOMAIN f.tracks
             /\ IsTrack(tracks[n])
             /\ tracks[n].id = f.tracks[map[n]].id
             /\ tracks[n].type = f.tracks[map[n]].type
             /\ tracks[n].kind = f.tracks[map[n]].kind
  <2>1. map[n] \in DOMAIN f.tracks
    BY <1>1
  <2>2. IsTrack(f.tracks[map[n]])
    BY <2>1, StreamsFit
  <2>3. tracks[n] = [f.tracks[map[n]] EXCEPT !.lang = Written(map[n])]
    OBVIOUS
  <2> HIDE DEF tracks
  <2> QED BY <2>1, <2>2, <2>3 DEF IsTrack, TrackFields
<1>4. tracks \in Seq(Range(tracks)) /\ DOMAIN tracks = DOMAIN map
  <2>1. DOMAIN map = 1 .. Len(map) /\ Len(map) \in Nat
    BY <1>1
  <2>2. DOMAIN tracks = 1 .. Len(map)
    BY <2>1
  <2>3. tracks = [n \in 1 .. Len(map) |-> tracks[n]]
    BY <2>1
  <2> HIDE DEF tracks
  <2>4. tracks \in [1 .. Len(map) -> Range(tracks)]
    BY <2>2, <2>3 DEF Range
  <2> QED BY <2>1, <2>2, <2>4
<1> HIDE DEF tracks
<1>5. IsFile(Output(f, s, a))
  BY <1>2, <1>3, <1>4 DEF IsFile, FileFields
<1> QED BY <1>2, <1>3, <1>4, <1>5 DEF map

-----------------------------------------------------------------------------
(* Answers and their tracks                                                *)

\* Two tracks of a file never share a descriptor: an answer is that of one track.
LEMMA DescriptorTells ==
    ASSUME NEW f, IsFile(f), NEW i \in DOMAIN f.tracks, NEW j \in DOMAIN f.tracks,
           Descriptor(f.tracks, i) = Descriptor(f.tracks, j)
    PROVE  i = j
<1> DEFINE R == {k \in DOMAIN f.tracks : Shape(f.tracks[k]) = Shape(f.tracks[i])}
<1>1. R \in SUBSET Nat /\ IsFiniteSet(R) /\ i \in R
  BY StreamsFit
<1>2. Shape(f.tracks[i]) = Shape(f.tracks[j])
  BY DEF Descriptor
<1>3. j \in R
  BY <1>2
<1>4. ASSUME NEW k \in R
      PROVE  {l \in 1 .. k : Shape(f.tracks[l]) = Shape(f.tracks[k])} = {l \in R : l <= k}
  <2>1. k \in 1 .. Len(f.tracks) /\ DOMAIN f.tracks = 1 .. Len(f.tracks) /\ Len(f.tracks) \in Nat
    BY StreamsFit
  <2>2. 1 .. k = {l \in DOMAIN f.tracks : l <= k}
    BY <2>1
  <2>3. Shape(f.tracks[k]) = Shape(f.tracks[i])
    OBVIOUS
  <2> QED BY <2>2, <2>3
<1>5. Rank(R, i) = Rank(R, j)
  <2>1. Cardinality({l \in 1 .. i : Shape(f.tracks[l]) = Shape(f.tracks[i])})
          = Cardinality({l \in 1 .. j : Shape(f.tracks[l]) = Shape(f.tracks[j])})
    BY DEF Descriptor
  <2>2. /\ {l \in 1 .. i : Shape(f.tracks[l]) = Shape(f.tracks[i])} = {l \in R : l <= i}
        /\ {l \in 1 .. j : Shape(f.tracks[l]) = Shape(f.tracks[j])} = {l \in R : l <= j}
    BY <1>1, <1>3, <1>4
  <2> HIDE DEF R
  <2> QED BY <2>1, <2>2 DEF Rank
<1> HIDE DEF R
<1>6. i \in Nat /\ j \in Nat /\ Rank(R, i) \in Nat
  <2>1. Cardinality(R) \in Nat /\ Rank(R, i) \in 1 .. Cardinality(R)
    BY <1>1, RankFits
  <2>2. i \in Nat /\ j \in Nat
    BY StreamsFit
  <2> QED BY <2>1, <2>2
<1>7. ~(i < j) /\ ~(j < i)
  BY <1>1, <1>3, <1>5, <1>6, RankFits
<1> QED BY <1>6, <1>7

\* StreamOf finds the track of a descriptor.
LEMMA StreamOfFits ==
    ASSUME NEW f, IsFile(f), NEW i \in DOMAIN f.tracks
    PROVE  StreamOf(f.tracks, Descriptor(f.tracks, i)) = i
<1>1. \E j \in DOMAIN f.tracks : Descriptor(f.tracks, j) = Descriptor(f.tracks, i)
  OBVIOUS
<1>2. /\ StreamOf(f.tracks, Descriptor(f.tracks, i)) \in DOMAIN f.tracks
      /\ Descriptor(f.tracks, StreamOf(f.tracks, Descriptor(f.tracks, i)))
           = Descriptor(f.tracks, i)
  BY <1>1 DEF StreamOf
<1> QED BY <1>2, DescriptorTells

(* Answers follow their tracks                                             *)

\* Where p has members of R it has them in order.
SortedOn(p, R) ==
    \A n, m \in DOMAIN p : p[n] \in R /\ p[m] \in R /\ n < m => p[n] < p[m]

\* Ordered puts a set in order.
LEMMA OrderedSorted ==
    ASSUME NEW R \in SUBSET Nat, IsFiniteSet(R) PROVE SortedOn(Ordered(R), R)
<1> SUFFICES ASSUME NEW n \in DOMAIN Ordered(R), NEW m \in DOMAIN Ordered(R), n < m
             PROVE  Ordered(R)[n] < Ordered(R)[m]
  BY DEF SortedOn
<1> DEFINE i == Ordered(R)[n]
           j == Ordered(R)[m]
<1>1. i \in R /\ j \in R /\ n \in Nat /\ m \in Nat
  BY OrderedFits
<1>2. Rank(R, i) = n /\ Rank(R, j) = m
  BY OrderedFits
<1> HIDE DEF i, j
<1>3. i \in Nat /\ j \in Nat
  BY <1>1
<1>4. i # j /\ ~(j < i)
  BY <1>1, <1>2, <1>3, RankFits
<1> QED BY <1>3, <1>4 DEF i, j

\* Of two sequences in a row, if only one has members of U, theirs is the order.
LEMMA ConcatSorted ==
    ASSUME NEW R, NEW T, NEW p \in Seq(R), NEW q \in Seq(T), NEW U,
           \/ SortedOn(p, U) /\ T \cap U = {}
           \/ SortedOn(q, U) /\ R \cap U = {}
    PROVE  SortedOn(p \o q, U)
<1> SUFFICES ASSUME NEW n \in DOMAIN (p \o q), NEW m \in DOMAIN (p \o q),
                    (p \o q)[n] \in U, (p \o q)[m] \in U, n < m
             PROVE  (p \o q)[n] < (p \o q)[m]
  BY DEF SortedOn
<1>1. /\ DOMAIN (p \o q) = 1 .. Len(p) + Len(q) /\ Len(p) \in Nat /\ Len(q) \in Nat
      /\ DOMAIN p = 1 .. Len(p) /\ DOMAIN q = 1 .. Len(q)
  OBVIOUS
<1>2. ASSUME NEW k \in DOMAIN (p \o q)
      PROVE  /\ k <= Len(p) => k \in DOMAIN p /\ (p \o q)[k] = p[k] /\ p[k] \in R
             /\ k > Len(p) => /\ k - Len(p) \in DOMAIN q
                              /\ (p \o q)[k] = q[k - Len(p)] /\ q[k - Len(p)] \in T
  BY <1>1
<1>3. n \in Nat /\ m \in Nat
  BY <1>1
<1>4. CASE SortedOn(p, U) /\ T \cap U = {}
  <2>1. n <= Len(p) /\ m <= Len(p)
    BY <1>1, <1>2, <1>3, <1>4
  <2> QED BY <1>2, <1>4, <2>1 DEF SortedOn
<1>5. CASE SortedOn(q, U) /\ R \cap U = {}
  <2>1. n > Len(p) /\ m > Len(p)
    BY <1>1, <1>2, <1>3, <1>5
  <2>2. n - Len(p) < m - Len(p)
    BY <1>1, <1>3
  <2> QED BY <1>2, <1>5, <2>1, <2>2 DEF SortedOn
<1> QED BY <1>4, <1>5

\* The streams of a type a job keeps.
KeptOf(f, s, a, type) == Streams(f, type) \ Removed(f, s, a)

\* They are mapped in order, and each stream mapped is one of them.
LEMMA MappedSorted ==
    ASSUME NEW f, IsFile(f), NEW s, NEW a
    PROVE  /\ KeptOf(f, s, a, "video") = Streams(f, "video")
           /\ KeptOf(f, s, a, "audio") = AudioKept(f, s)
           /\ KeptOf(f, s, a, "subtitle") = Embedded(f, s, a)
           /\ \A type \in TrackTypes : SortedOn(Mapped(f, s, a), KeptOf(f, s, a, type))
<1> DEFINE V == Streams(f, "video")
           A == AudioKept(f, s)
           E == Embedded(f, s, a)
           D == DOMAIN f.tracks
<1>1. /\ V \in SUBSET D /\ A \in SUBSET D /\ E \in SUBSET D
      /\ A \subseteq Streams(f, "audio") /\ E \subseteq Streams(f, "subtitle")
  BY StreamsFit, AudioKeptFits DEF Embedded
<1>2. V \cap A = {} /\ V \cap E = {} /\ A \cap E = {}
  BY <1>1 DEF Streams
<1>3. /\ KeptOf(f, s, a, "video") = V
      /\ KeptOf(f, s, a, "audio") = A
      /\ KeptOf(f, s, a, "subtitle") = E
  <2> HIDE DEF A, E
  <2>1. /\ \A i \in Streams(f, "audio") : i \notin Streams(f, "subtitle")
        /\ \A i \in V : i \notin Streams(f, "audio") \cup Streams(f, "subtitle")
    BY DEF Streams
  <2> HIDE DEF V
  <2>2. Removed(f, s, a) = (Streams(f, "audio") \cup Streams(f, "subtitle")) \ (A \cup E)
    BY DEF Removed, Kept, A, E
  <2>3. KeptOf(f, s, a, "video") = V \ Removed(f, s, a)
    BY DEF KeptOf, V
  <2> QED BY <1>1, <2>1, <2>2, <2>3 DEF KeptOf
<1>4. Mapped(f, s, a) = (Ordered(V) \o Ordered(A)) \o Ordered(E)
  BY DEF Mapped
<1>5. ASSUME NEW T \in SUBSET D PROVE Ordered(T) \in Seq(T) /\ SortedOn(Ordered(T), T)
  BY StreamsFit, OrderedFits, OrderedSorted
<1> HIDE DEF V, A, E, D
<1>6. /\ Ordered(V) \in Seq(V) /\ Ordered(A) \in Seq(A) /\ Ordered(E) \in Seq(E)
      /\ SortedOn(Ordered(V), V) /\ SortedOn(Ordered(A), A) /\ SortedOn(Ordered(E), E)
  BY <1>1, <1>5
<1> DEFINE P == Ordered(V) \o Ordered(A)
<1>7. P \in Seq(V \cup A)
  BY <1>6
<1>8. SortedOn(P, V) /\ SortedOn(P, A)
  BY <1>2, <1>6, ConcatSorted
<1> HIDE DEF P
<1>9. /\ SortedOn(P \o Ordered(E), V) /\ SortedOn(P \o Ordered(E), A)
  BY <1>2, <1>6, <1>7, <1>8, ConcatSorted
<1>10. SortedOn(P \o Ordered(E), E)
  <2>1. (V \cup A) \cap E = {}
    BY <1>2
  <2> QED BY <1>6, <1>7, <2>1, ConcatSorted
<1>11. Mapped(f, s, a) = P \o Ordered(E)
  BY <1>4 DEF P
<1>12. \A type \in TrackTypes : SortedOn(Mapped(f, s, a), KeptOf(f, s, a, type))
  BY <1>3, <1>9, <1>10, <1>11 DEF TrackTypes
<1> QED BY <1>3, <1>12 DEF V, A, E

\* A map that lists the members of I in order keeps their ranks.
LEMMA SameRank ==
    ASSUME NEW map, DOMAIN map \in SUBSET Nat, IsFiniteSet(DOMAIN map),
           NEW I \in SUBSET Nat, SortedOn(map, I), \A i \in I : \E n \in DOMAIN map : map[n] = i
    PROVE  LET O == {n \in DOMAIN map : map[n] \in I}
           IN  /\ IsFiniteSet(O) /\ IsFiniteSet(I) /\ Cardinality(O) = Cardinality(I)
               /\ \A n \in O : Rank(O, n) = Rank(I, map[n])
<1> DEFINE O == {n \in DOMAIN map : map[n] \in I}
<1>1. O \in SUBSET Nat /\ IsFiniteSet(O)
  BY FS_Subset
<1>2. \A n, m \in O : n < m => map[n] < map[m]
  BY DEF SortedOn
<1>3. \A i \in I : \E n \in O : map[n] = i
  OBVIOUS
<1>4. \A n \in O : map[n] \in I /\ map[n] \in Nat /\ n \in Nat
  OBVIOUS
<1> HIDE DEF O
<1>5. ASSUME NEW n \in O, NEW m \in O, map[n] = map[m] PROVE n = m
  <2>1. n \in Nat /\ m \in Nat /\ ~(map[n] < map[m]) /\ ~(map[m] < map[n])
    BY <1>4, <1>5
  <2> QED BY <1>2, <2>1
<1>6. IsFiniteSet(I) /\ Cardinality(O) = Cardinality(I)
  <2> DEFINE h == [n \in O |-> map[n]]
  <2>1. h \in Bijection(O, I)
    BY <1>3, <1>4, <1>5 DEF Bijection, Injection, Surjection, IsInjective
  <2> HIDE DEF h
  <2> QED BY <1>1, <2>1, FS_Bijection DEF ExistsBijection
<1>7. ASSUME NEW n \in O PROVE Rank(O, n) = Rank(I, map[n])
  <2> DEFINE R == {m \in O : m <= n}
             T == {i \in I : i <= map[n]}
             h == [m \in R |-> map[m]]
  <2>1. ASSUME NEW m \in R PROVE map[m] \in T
    <3>1. m = n \/ m < n
      BY <1>4
    <3> QED BY <1>2, <1>4, <3>1
  <2>2. ASSUME NEW i \in T PROVE \E m \in R : map[m] = i
    <3>1. PICK m \in O : map[m] = i
      BY <1>3
    <3>2. ~(n < m)
      BY <1>2, <1>4, <3>1
    <3> QED BY <1>4, <3>1, <3>2
  <2>3. h \in Bijection(R, T)
    <3>1. h \in [R -> T]
      BY <2>1
    <3>2. \A m, k \in R : map[m] = map[k] => m = k
      BY <1>5
    <3> HIDE DEF R, T
    <3> QED BY <2>2, <3>1, <3>2 DEF Bijection, Injection, Surjection, IsInjective
  <2>4. IsFiniteSet(R)
    BY <1>1, FS_Subset
  <2> HIDE DEF R, T, h
  <2>5. Cardinality(R) = Cardinality(T)
    BY <2>3, <2>4, FS_Bijection DEF ExistsBijection
  <2> QED BY <2>5 DEF Rank, R, T
<1> QED BY <1>1, <1>6, <1>7 DEF O

\* What JobMapping pairs of a type, and where FFmpeg puts its streams.
Paired(f, s, a, type) ==
    LET kept == OfType(f.tracks, type, Removed(f, s, a))
        out == OfType(Output(f, s, a).tracks, type, {})
    IN  IF Len(kept) # Len(out) THEN {} ELSE {<<kept[n], out[n]>> : n \in DOMAIN kept}

Placed(f, s, a, type) ==
    LET map == Mapped(f, s, a)
    IN  {<<map[m], m>> : m \in {m \in DOMAIN map : map[m] \in KeptOf(f, s, a, type)}}

\* The n-th stream of a type a job keeps is the n-th of that type in its output.
LEMMA PairsInOrder ==
    ASSUME NEW f, IsFile(f), NEW s, NEW a,
           NEW type \in TrackTypes
    PROVE  Paired(f, s, a, type) = Placed(f, s, a, type)
<1> DEFINE map == Mapped(f, s, a)
           I == KeptOf(f, s, a, type)
           O == {m \in DOMAIN map : map[m] \in I}
           out == Output(f, s, a)
           W == Streams(f, "video") \cup AudioKept(f, s) \cup Embedded(f, s, a)
<1>1. /\ IsFile(out) /\ DOMAIN out.tracks = DOMAIN map
      /\ \A m \in DOMAIN map : /\ map[m] \in DOMAIN f.tracks
                               /\ out.tracks[m].type = f.tracks[map[m]].type
  BY OutputFits
<1>2. DOMAIN map \in SUBSET Nat /\ IsFiniteSet(DOMAIN map)
  <2> HIDE DEF map, out
  <2> QED BY <1>1, StreamsFit
<1>3. /\ I \in SUBSET DOMAIN f.tracks /\ I \in SUBSET Nat /\ IsFiniteSet(I)
  <2>1. I \in SUBSET DOMAIN f.tracks
    BY StreamsFit DEF KeptOf
  <2> HIDE DEF I
  <2> QED BY <2>1, StreamsFit
<1>4. I \subseteq W /\ (W \cap Streams(f, type)) \subseteq I
  <2>1. /\ KeptOf(f, s, a, "video") = Streams(f, "video")
        /\ KeptOf(f, s, a, "audio") = AudioKept(f, s)
        /\ KeptOf(f, s, a, "subtitle") = Embedded(f, s, a)
    BY MappedSorted
  <2>2. I \subseteq W
    BY <2>1 DEF TrackTypes
  <2>3. W \cap Removed(f, s, a) = {}
    <3>1. \A i \in Streams(f, "video") : i \notin Streams(f, "audio") \cup Streams(f, "subtitle")
      BY DEF Streams
    <3> QED BY <3>1 DEF Removed, Kept
  <2> QED BY <2>2, <2>3 DEF KeptOf
<1>5. Lists(map, W) /\ SortedOn(map, I)
  BY MappedFits, MappedSorted
<1>6. /\ \A m \in DOMAIN map : map[m] \in W
      /\ \A i \in I : \E m \in DOMAIN map : map[m] = i
  <2> HIDE DEF map, W, I
  <2> QED BY <1>4, <1>5 DEF Lists
<1>7. OfType(f.tracks, type, Removed(f, s, a)) = Ordered(I)
  BY DEF OfType, KeptOf, Streams
<1>8. OfType(out.tracks, type, {}) = Ordered(O)
  <2>1. ASSUME NEW m \in DOMAIN map PROVE out.tracks[m].type = type <=> map[m] \in I
    <3>1. map[m] \in DOMAIN f.tracks /\ out.tracks[m].type = f.tracks[map[m]].type /\ map[m] \in W
      BY <1>1, <1>6
    <3>2. map[m] \in Streams(f, type) <=> f.tracks[map[m]].type = type
      BY <3>1 DEF Streams
    <3>3. map[m] \in I => map[m] \in Streams(f, type)
      BY DEF KeptOf
    <3> HIDE DEF map, out, I, W
    <3> QED BY <1>4, <3>1, <3>2, <3>3
  <2> HIDE DEF map, out, I
  <2>2. {m \in DOMAIN out.tracks : out.tracks[m].type = type} \ {} = O
    BY <1>1, <2>1
  <2> HIDE DEF O
  <2> QED BY <2>2 DEF OfType
<1> HIDE DEF map, I, W, out
<1>9. /\ IsFiniteSet(O) /\ Cardinality(O) = Cardinality(I)
      /\ \A m \in O : Rank(O, m) = Rank(I, map[m])
  BY <1>2, <1>3, <1>5, <1>6, SameRank
<1>10. O \in SUBSET Nat
  BY <1>2
<1> DEFINE kept == Ordered(I)
           last == Ordered(O)
<1>11. /\ kept \in Seq(I) /\ Len(kept) = Cardinality(I)
       /\ \A i \in I : Rank(I, i) \in DOMAIN kept /\ kept[Rank(I, i)] = i
  BY <1>3, OrderedFits
<1>12. /\ last \in Seq(O) /\ Len(last) = Cardinality(O)
       /\ \A m \in O : Rank(O, m) \in DOMAIN last /\ last[Rank(O, m)] = m
       /\ \A n \in DOMAIN last : Rank(O, last[n]) = n
  <2> HIDE DEF O
  <2> QED BY <1>9, <1>10, OrderedFits
<1>13. \A m \in O : map[m] \in I
  OBVIOUS
<1> HIDE DEF O, kept, last
<1>14. Len(kept) = Len(last) /\ DOMAIN kept = DOMAIN last
  BY <1>9, <1>11, <1>12
<1>15. ASSUME NEW n \in DOMAIN kept
       PROVE  last[n] \in O /\ kept[n] = map[last[n]]
  <2>1. last[n] \in O /\ Rank(O, last[n]) = n
    BY <1>12, <1>14
  <2>2. Rank(I, map[last[n]]) = n
    BY <1>9, <2>1
  <2> QED BY <1>11, <1>13, <2>1, <2>2
<1>16. ASSUME NEW m \in O
       PROVE  \E n \in DOMAIN kept : kept[n] = map[m] /\ last[n] = m
  BY <1>9, <1>11, <1>12, <1>13
<1>17. {<<kept[n], last[n]>> : n \in DOMAIN kept} = {<<map[m], m>> : m \in O}
  BY <1>15, <1>16
<1>18. Paired(f, s, a, type) = {<<kept[n], last[n]>> : n \in DOMAIN kept}
  BY <1>7, <1>8, <1>14 DEF Paired, kept, last, out
<1>19. Placed(f, s, a, type) = {<<map[m], m>> : m \in O}
  BY DEF Placed, map, O, I
<1> QED BY <1>17, <1>18, <1>19

\* No stream is mapped twice.
LEMMA MappedOnce ==
    ASSUME NEW f, IsFile(f), NEW s, NEW a, DOMAIN Mapped(f, s, a) \in SUBSET Nat
    PROVE  /\ \A m \in DOMAIN Mapped(f, s, a) :
                 \E type \in TrackTypes : Mapped(f, s, a)[m] \in KeptOf(f, s, a, type)
           /\ \A m, n \in DOMAIN Mapped(f, s, a) :
                 Mapped(f, s, a)[m] = Mapped(f, s, a)[n] => m = n
<1> DEFINE map == Mapped(f, s, a)
           W == Streams(f, "video") \cup AudioKept(f, s) \cup Embedded(f, s, a)
<1>1. /\ \A type \in TrackTypes : SortedOn(map, KeptOf(f, s, a, type))
      /\ W = KeptOf(f, s, a, "video") \cup KeptOf(f, s, a, "audio")
               \cup KeptOf(f, s, a, "subtitle")
  BY MappedSorted
<1>2. Lists(map, W) /\ W \in SUBSET Nat
  <2>1. Lists(map, W) /\ W \in SUBSET DOMAIN f.tracks
    BY MappedFits
  <2>2. DOMAIN f.tracks \in SUBSET Nat
    BY StreamsFit
  <2> HIDE DEF map, W
  <2> QED BY <2>1, <2>2
<1> HIDE DEF map, W
<1>3. \A m \in DOMAIN map : map[m] \in W
  BY <1>2 DEF Lists
<1>4. ASSUME NEW m \in DOMAIN map
      PROVE  \E type \in TrackTypes : map[m] \in KeptOf(f, s, a, type)
  BY <1>1, <1>3 DEF TrackTypes
<1>5. ASSUME NEW m \in DOMAIN map, NEW n \in DOMAIN map, map[m] = map[n]
      PROVE  m = n
  <2>1. PICK type \in TrackTypes : map[m] \in KeptOf(f, s, a, type)
    BY <1>4
  <2>0. map[m] \in Nat
    BY <1>2, <1>3
  <2>2. ~(map[m] < map[n]) /\ ~(map[n] < map[m])
    BY <1>5, <2>0
  <2>3. ~(m < n) /\ ~(n < m)
    BY <1>1, <1>5, <2>1, <2>2 DEF SortedOn
  <2>4. m \in Nat /\ n \in Nat
    BY DEF map
  <2> QED BY <2>3, <2>4
<1> QED BY <1>4, <1>5 DEF map

\* Where a job leads the tracks it keeps is where FFmpeg put them.
LEMMA MappingFollows ==
    ASSUME NEW f, IsFile(f), NEW s, NEW a
    PROVE  LET map == Mapped(f, s, a)
               mapping == JobMapping(f.tracks, Output(f, s, a).tracks, Removed(f, s, a))
           IN  /\ DOMAIN mapping = {map[m] : m \in DOMAIN map}
               /\ \A m \in DOMAIN map : mapping[map[m]] = m
               /\ \A m, n \in DOMAIN map : map[m] = map[n] => m = n
<1> DEFINE map == Mapped(f, s, a)
           In(type) == OfType(f.tracks, type, Removed(f, s, a))
           Out(type) == OfType(Output(f, s, a).tracks, type, {})
           Pairs(type) == IF Len(In(type)) # Len(Out(type)) THEN {}
                          ELSE {<<In(type)[n], Out(type)[n]>> : n \in DOMAIN In(type)}
           pairs == UNION {Pairs(type) : type \in {"video", "audio", "subtitle"}}
           mapping == JobMapping(f.tracks, Output(f, s, a).tracks, Removed(f, s, a))
<1>1. mapping = [i \in {p[1] : p \in pairs} |-> (CHOOSE p \in pairs : p[1] = i)[2]]
  BY DEF JobMapping
<1>2. ASSUME NEW type \in TrackTypes
      PROVE  Pairs(type) =
               {<<map[m], m>> : m \in {m \in DOMAIN map : map[m] \in KeptOf(f, s, a, type)}}
  <2>1. Pairs(type) = Paired(f, s, a, type)
    BY DEF Paired
  <2>2. Paired(f, s, a, type) = Placed(f, s, a, type)
    BY PairsInOrder
  <2> HIDE DEF Pairs
  <2> QED BY <2>1, <2>2 DEF Placed
<1>3. DOMAIN map \in SUBSET Nat
  <2>1. IsFile(Output(f, s, a)) /\ DOMAIN Output(f, s, a).tracks = DOMAIN map
    BY OutputFits
  <2> HIDE DEF map
  <2> QED BY <2>1, StreamsFit
<1>4. /\ \A m \in DOMAIN map : \E type \in TrackTypes : map[m] \in KeptOf(f, s, a, type)
      /\ \A m, n \in DOMAIN map : map[m] = map[n] => m = n
  BY <1>3, MappedOnce
<1>5. pairs = UNION {Pairs(type) : type \in TrackTypes}
  BY DEF TrackTypes
<1> HIDE DEF map, Pairs, pairs, mapping
<1>6. ASSUME NEW p \in pairs PROVE \E m \in DOMAIN map : p[1] = map[m] /\ p[2] = m
  <2>1. PICK m \in DOMAIN map : p = <<map[m], m>>
    BY <1>2, <1>5
  <2> QED BY <2>1
<1>7. ASSUME NEW m \in DOMAIN map PROVE \E p \in pairs : p[1] = map[m] /\ p[2] = m
  <2>1. PICK type \in TrackTypes : map[m] \in KeptOf(f, s, a, type)
    BY <1>4
  <2>2. <<map[m], m>> \in Pairs(type)
    BY <1>2, <2>1
  <2>3. <<map[m], m>> \in pairs
    BY <1>5, <2>2
  <2>4. <<map[m], m>>[1] = map[m] /\ <<map[m], m>>[2] = m
    OBVIOUS
  <2> QED BY <2>3, <2>4
<1>8. {p[1] : p \in pairs} = {map[m] : m \in DOMAIN map}
  BY <1>6, <1>7
<1>9. ASSUME NEW m \in DOMAIN map PROVE mapping[map[m]] = m
  <2> DEFINE p == CHOOSE p \in pairs : p[1] = map[m]
  <2>1. p \in pairs /\ p[1] = map[m]
    <3>1. \E q \in pairs : q[1] = map[m]
      BY <1>7
    <3> QED BY <3>1
  <2>2. PICK n \in DOMAIN map : p[1] = map[n] /\ p[2] = n
    BY <1>6, <2>1
  <2>3. p[2] = m
    BY <1>4, <2>1, <2>2
  <2>4. mapping[map[m]] = p[2]
    BY <1>1, <1>8
  <2> QED BY <2>3, <2>4
<1>10. DOMAIN mapping = {map[m] : m \in DOMAIN map}
  BY <1>1, <1>8
<1> QED BY <1>4, <1>9, <1>10 DEF map, mapping

\* What a column holds for the m-th track of the output is what it held for the
\* track that was put there.
Follows(f, s, a, column, m) ==
    LET i == Mapped(f, s, a)[m]
        out == Output(f, s, a).tracks
        before == Resolve(column, f.tracks)
        after == Resolve(Rekey(column, f.tracks, out,
                               JobMapping(f.tracks, out, Removed(f, s, a))), out)
    IN  /\ i \in DOMAIN before <=> m \in DOMAIN after
        /\ i \in DOMAIN before => before[i] = after[m]

\* An answer is found again for the track it was given for, where it is now, and
\* for no other.
LEMMA RekeyFollows ==
    ASSUME NEW f, IsFile(f), NEW s, NEW a,
           NEW column, NEW m \in DOMAIN Mapped(f, s, a)
    PROVE  Follows(f, s, a, column, m)
<1> DEFINE map == Mapped(f, s, a)
           g == Output(f, s, a)
           out == g.tracks
           mapping == JobMapping(f.tracks, out, Removed(f, s, a))
           before == Resolve(column, f.tracks)
           carried == {k \in DOMAIN before \cap DOMAIN mapping :
                          out[mapping[k]].type = f.tracks[k].type}
           Key(k) == Descriptor(out, mapping[k])
           new == Rekey(column, f.tracks, out, mapping)
           after == Resolve(new, out)
<1>1. /\ IsFile(g) /\ DOMAIN out = DOMAIN map
      /\ \A n \in DOMAIN map : out[n].type = f.tracks[map[n]].type
  BY OutputFits
<1>2. /\ DOMAIN mapping = {map[n] : n \in DOMAIN map}
      /\ \A n \in DOMAIN map : mapping[map[n]] = n
  BY MappingFollows
<1>3. new = [key \in {Key(k) : k \in carried} |-> before[CHOOSE k \in carried : Key(k) = key]]
  BY DEF Rekey
<1>4. after = [n \in {n \in DOMAIN out : Descriptor(out, n) \in DOMAIN new} |->
                  new[Descriptor(out, n)]]
  BY DEF Resolve
<1>5. \A n \in DOMAIN out : Descriptor(out, n) = Descriptor(out, m) => n = m
  <2>1. m \in DOMAIN out
    BY <1>1
  <2> HIDE DEF g
  <2> QED BY <1>1, <2>1, DescriptorTells
<1> HIDE DEF map, g, mapping, before, new, after
<1>6. carried = DOMAIN before \cap {map[n] : n \in DOMAIN map}
  BY <1>1, <1>2
<1> HIDE DEF carried
<1>7. \A k \in carried : Key(k) = Descriptor(out, m) => k = map[m]
  BY <1>1, <1>2, <1>5, <1>6
<1>8. map[m] \in carried => Key(map[m]) = Descriptor(out, m)
  BY <1>2 DEF map
<1>9. map[m] \in DOMAIN before <=> map[m] \in carried
  BY <1>6 DEF map
<1>10. m \in DOMAIN after <=> Descriptor(out, m) \in {Key(k) : k \in carried}
  BY <1>1, <1>3, <1>4 DEF map
<1>11. map[m] \in DOMAIN before <=> m \in DOMAIN after
  BY <1>7, <1>8, <1>9, <1>10
<1>12. ASSUME map[m] \in DOMAIN before PROVE before[map[m]] = after[m]
  <2> DEFINE k == CHOOSE k \in carried : Key(k) = Descriptor(out, m)
  <2>1. k \in carried /\ Key(k) = Descriptor(out, m)
    BY <1>8, <1>9, <1>12
  <2>2. k = map[m]
    BY <1>7, <2>1
  <2>3. after[m] = new[Descriptor(out, m)]
    BY <1>4, <1>11, <1>12
  <2>4. new[Descriptor(out, m)] = before[k]
    BY <1>3, <1>10, <1>11, <1>12
  <2> QED BY <2>2, <2>3, <2>4
<1> QED BY <1>11, <1>12 DEF Follows, map, g, mapping, before, new, after

-----------------------------------------------------------------------------
(* Files, and what a job carries                                           *)

\* What is on disk, in the rows and in a job's hands is a file each.
FilesKnown == IsFile(disk.file) /\ IsFile(record.file)

JobKnown ==
    /\ job.pc \in {"decided", "running", "swapped", "finishing"} => IsFile(job.file)
    /\ job.pc \in {"running", "swapped"} => DOMAIN job = {"pc", "file", "answers", "print"}
    /\ job.pc = "running" => job.print \in 1 .. used.stamps

\* Nothing that a language answer has read changes before its commit.
Replying ==
    request.pc = "read" =>
        /\ \A t \in Threads : ~eval[t].on
        /\ job.pc # "finishing"
        /\ \E i \in DOMAIN flags \cap DOMAIN record.file.tracks : request = Reply(i)

Known == IInv /\ FilesKnown /\ JobKnown /\ Replying

\* What was stored for a file nobody has looked at lists no tracks.
LEMMA UnlookedIsFile ==
    ASSUME NEW f, IsFile(f) PROVE IsFile([f EXCEPT !.tracks = <<>>])
<1> DEFINE g == [f EXCEPT !.tracks = <<>>]
<1>1. f = [x \in FileFields |-> f[x]]
  BY DEF IsFile
<1>2. g = [x \in FileFields |-> g[x]] /\ g.tracks = <<>>
  BY <1>1 DEF FileFields
<1>3. <<>> \in Seq(Range(<<>>)) /\ DOMAIN <<>> = {}
  OBVIOUS
<1> HIDE DEF g
<1> QED BY <1>2, <1>3 DEF IsFile, g

\* With no gap open, an evaluation writes what is there.
LEMMA ReadIsThere ==
    ASSUME IInv, Gaps = {}, NEW t \in Threads, Evaluate(t)
    PROVE  eval[t].on /\ eval[t].file = disk.file
  BY DEF IInv, Fresh, ReadKnown, Evaluate

\* And a language answer what it read.
LEMMA ReplyHolds == ASSUME Gaps = {}, Replying, [Next]_vars PROVE Replying'
<1> SUFFICES ASSUME request'.pc = "read" PROVE Replying'
  BY DEF Replying
<1>1. CASE SetLanguage
  <2>1. /\ \E i \in DOMAIN flags \cap DOMAIN record.file.tracks : request' = Reply(i)
        /\ Undisturbed /\ UNCHANGED <<record, flags, eval, job>>
    BY <1>1 DEF SetLanguage, Requested
  <2>2. job.pc # "finishing" /\ \A t \in Threads : ~eval[t].on
    BY <2>1 DEF Undisturbed, Open
  <2> QED BY <2>1, <2>2 DEF Replying, Reply
<1>2. CASE ~SetLanguage
  <2>1. request' = request
    <3>1. ~(Store \/ Settle \/ Follow)
      <4>1. Store => request'.pc = "stored"
        BY DEF Store
      <4>2. Settle => request'.pc = "settled"
        BY DEF Settle
      <4>3. Follow => request' = NoRequest
        BY DEF Follow
      <4>4. NoRequest.pc = "none"
        BY DEF NoRequest
      <4> QED BY <4>1, <4>2, <4>3, <4>4
    <3>2. ASSUME NEW t \in Threads, Probe(t) \/ Evaluate(t) PROVE request' = request
      BY <3>2 DEF Probe, Evaluate
    <3>3. ASSUME NEW force, Replaced \/ Scan(force) PROVE request' = request
      BY <3>3 DEF Replaced, Scan
    <3>4. AnswerReview \/ AskAgain \/ CancelItem => request' = request
      BY DEF AnswerReview, AskAgain, CancelItem
    <3>5. Claim \/ Load \/ Fingerprint \/ Swap \/ StopForChange \/ Fail => request' = request
      BY DEF Claim, Load, Fingerprint, Swap, StopForChange, Fail
    <3>6. FinishRead \/ FinishWrite \/ FinishUnread \/ After => request' = request
      BY DEF FinishRead, FinishWrite, FinishUnread, After
    <3>7. UNCHANGED vars => request' = request
      BY DEF vars
    <3> QED BY <1>2, <3>1, <3>2, <3>3, <3>4, <3>5, <3>6, <3>7 DEF Next
  <2>2. request.pc = "read" /\ ~Unanswering /\ ~Open /\ ~Undisturbed
    BY <2>1 DEF Unanswering, Open, Undisturbed
  <2>3. ~Store
    BY <2>1 DEF Store
  <2>4. request # NoRequest /\ \A t \in Threads : ~eval[t].on
    BY <2>2 DEF NoRequest, Replying
  <2>5. \/ Fingerprint \/ Swap \/ Fail \/ UNCHANGED vars
    BY <1>2, <2>2, <2>3, <2>4 DEF Next, Replaced, Probe, Evaluate, Scan, AnswerReview, Settle,
       Follow, AskAgain, CancelItem, Claim, Load, StopForChange, FinishRead, FinishWrite,
       FinishUnread, After, Requested
  <2>6. UNCHANGED <<record, flags, eval>> /\ (job' = job \/ job'.pc # "finishing")
    <3>1. CASE Fingerprint BY <3>1 DEF Fingerprint
    <3>2. CASE Swap BY <3>2 DEF Swap
    <3>3. CASE Fail BY <3>3 DEF Fail, NoJob
    <3>4. CASE UNCHANGED vars BY <3>4 DEF vars
    <3> QED BY <2>5, <3>1, <3>2, <3>3, <3>4
  <2> QED BY <2>1, <2>6 DEF Replying, Reply
<1> QED BY <1>1, <1>2

\* Files stay files, and a job keeps what it carries.
LEMMA KnownHolds == ASSUME Gaps = {} PROVE Init /\ [][Next]_vars => []Known
<1>1. Init => FilesKnown /\ JobKnown /\ Replying
  <2> SUFFICES ASSUME Init PROVE FilesKnown /\ JobKnown /\ Replying
    OBVIOUS
  <2>1. IsFile(case.file) /\ disk.file = case.file
        /\ record.file = [case.file EXCEPT !.tracks = <<>>] /\ job.pc = "idle"
    BY CasesGiven DEF Init, NoJob
  <2>2. request.pc = "none"
    BY DEF Init, NoRequest
  <2> QED BY <2>1, <2>2, UnlookedIsFile DEF FilesKnown, JobKnown, Replying
<1>2. ASSUME IInv, FilesKnown, JobKnown, [Next]_vars PROVE FilesKnown' /\ JobKnown'
  <2>u. ASSUME UNCHANGED <<disk, record>> PROVE FilesKnown'
    BY <1>2, <2>u DEF FilesKnown
  <2>j. ASSUME UNCHANGED <<job, used>> PROVE JobKnown'
    BY <1>2, <2>j DEF JobKnown
  <2>s. used.stamps \in Nat /\ disk.stamp \in 1 .. used.stamps
    BY <1>2 DEF IInv, TypeOK, UsedShaped
  <2>i. ASSUME job'.pc \in {"idle", "claimed", "ended"} PROVE JobKnown'
    BY <2>i DEF JobKnown
  <2>1. CASE UNCHANGED vars
    BY <2>1, <2>u, <2>j DEF vars
  <2>2. CASE Replaced
    <3>1. IsFile(case.other)
      BY <1>2, CasesGiven DEF IInv, TypeOK
    <3>2. disk'.file = case.other /\ record' = record /\ job' = job
          /\ used'.stamps = used.stamps + 1
      BY <1>2, <2>2 DEF Replaced, IInv, UsedShaped
    <3> QED BY <1>2, <2>s, <3>1, <3>2 DEF FilesKnown, JobKnown
  <2>3. ASSUME NEW t \in Threads, Evaluate(t) PROVE FilesKnown' /\ JobKnown'
    <3>1. record'.file = disk.file /\ UNCHANGED <<disk, job, used>>
      BY <1>2, <2>3, ReadIsThere DEF Evaluate
    <3> QED BY <1>2, <2>j, <3>1 DEF FilesKnown
  <2>4. ASSUME NEW force \in BOOLEAN, Scan(force) PROVE FilesKnown' /\ JobKnown'
    BY <2>4, <2>u, <2>j DEF Scan
  <2>r. ASSUME record'.file = record.file, disk' = disk PROVE FilesKnown'
    BY <1>2, <2>r DEF FilesKnown
  <2>p. ASSUME job' = job, used'.stamps = used.stamps PROVE JobKnown'
    BY <1>2, <2>p DEF JobKnown
  <2>c. Counted => used'.stamps = used.stamps
    BY <1>2 DEF Counted, IInv, UsedShaped
  <2>5. CASE AnswerReview
    BY <1>2, <2>5, <2>r, <2>p, <2>c DEF AnswerReview, IInv, RecordShaped
  <2>6. CASE SetLanguage
    BY <1>2, <2>6, <2>r, <2>p, <2>c DEF SetLanguage, IInv, RecordShaped
  <2>20. ASSUME NEW t \in Threads, Probe(t) PROVE FilesKnown' /\ JobKnown'
    BY <2>20, <2>u, <2>j DEF Probe
  <2>21. CASE Store
    <3>1. record'.file = record.file /\ UNCHANGED <<disk, job, used>>
      <4>1. PICK column, answers :
               /\ record' = [record EXCEPT !.answers[column] = answers]
               /\ UNCHANGED <<disk, job, used>>
        BY <2>21 DEF Store
      <4> QED BY <1>2, <4>1 DEF IInv, RecordShaped
    <3> QED BY <2>r, <2>j, <3>1
  <2>22. CASE Settle
    BY <2>22, <2>u, <2>j DEF Settle
  <2>7. CASE Follow
    BY <1>2, <2>7, <2>r, <2>j DEF Follow, IInv, RecordShaped
  <2>8. CASE AskAgain
    BY <1>2, <2>8, <2>r, <2>p, <2>c DEF AskAgain, IInv, RecordShaped
  <2>9. CASE CancelItem
    BY <1>2, <2>9, <2>r, <2>p, <2>c DEF CancelItem, IInv, RecordShaped
  <2>10. CASE Claim
    BY <2>10, <2>u, <2>i DEF Claim
  <2>11. CASE Load
    <3>1. UNCHANGED <<disk, record, used>>
          /\ \/ job' = NoJob
             \/ job' = [pc |-> "decided", file |-> record.file, answers |-> record.answers]
      BY <2>11 DEF Load
    <3>2. CASE job' = NoJob
      BY <2>u, <2>i, <3>1, <3>2 DEF NoJob
    <3>3. CASE job' = [pc |-> "decided", file |-> record.file, answers |-> record.answers]
      BY <1>2, <2>u, <3>1, <3>3 DEF FilesKnown, JobKnown
    <3> QED BY <3>1, <3>2, <3>3
  <2>12. CASE Fingerprint
    <3>1. /\ job.pc = "decided" /\ UNCHANGED <<disk, record, used>>
          /\ job' = [pc |-> "running", file |-> job.file, answers |-> job.answers,
                     print |-> disk.stamp]
      BY <2>12 DEF Fingerprint
    <3> QED BY <1>2, <2>s, <2>u, <3>1 DEF JobKnown
  <2>13. CASE Swap
    <3>1. /\ job.pc = "running" /\ UNCHANGED record
          /\ disk'.file = Output(job.file, S, Planned)
          /\ job' = [job EXCEPT !.pc = "swapped"]
      BY <2>13 DEF Swap
    <3>2. IsFile(job.file) /\ DOMAIN job = {"pc", "file", "answers", "print"}
      BY <1>2, <3>1 DEF JobKnown
    <3>3. IsFile(Output(job.file, S, Planned))
      BY <3>2, OutputFits
    <3>4. job'.pc = "swapped" /\ job'.file = job.file
          /\ DOMAIN job' = {"pc", "file", "answers", "print"}
      BY <3>1, <3>2
    <3> QED BY <1>2, <3>1, <3>2, <3>3, <3>4 DEF FilesKnown, JobKnown
  <2>14. CASE StopForChange
    <3>1. record'.file = record.file /\ disk' = disk /\ job'.pc = "idle"
      BY <1>2, <2>14 DEF StopForChange, NoJob, IInv, RecordShaped
    <3> QED BY <2>r, <2>i, <3>1
  <2>15. CASE Fail
    BY <2>15, <2>u, <2>i DEF Fail, NoJob
  <2>16. CASE FinishRead
    <3>1. /\ job.pc = "swapped" /\ UNCHANGED <<disk, record>>
          /\ job'.pc = "finishing" /\ job'.file = job.file
      BY <2>16 DEF FinishRead
    <3> QED BY <1>2, <2>u, <3>1 DEF JobKnown
  <2>17. CASE FinishWrite
    <3>1. record'.file = disk.file /\ disk' = disk /\ job'.pc = "ended"
      BY <1>2, <2>17 DEF FinishWrite, RowsRead, IInv, RecordShaped
    <3> QED BY <1>2, <2>i, <3>1 DEF FilesKnown
  <2>18. CASE After
    BY <2>18, <2>u, <2>i DEF After, NoJob
  <2>19. CASE FinishUnread
    <3>1. record'.file = record.file /\ disk' = disk /\ job'.pc = "ended"
      BY <1>2, <2>19 DEF FinishUnread, IInv, RecordShaped
    <3> QED BY <2>r, <2>i, <3>1
  <2> QED BY <1>2, <2>1, <2>2, <2>3, <2>4, <2>5, <2>6, <2>7, <2>8, <2>9, <2>10, <2>11,
             <2>12, <2>13, <2>14, <2>15, <2>16, <2>17, <2>18, <2>19,
             <2>20, <2>21, <2>22 DEF Next
<1> QED BY <1>1, <1>2, ReplyHolds, Inductive, PTL DEF Known

-----------------------------------------------------------------------------
(* Questions and answers are of the tracks they stand at                   *)

\* Every output could be read; no job is between its swap and its end.
Clear == used.unread = 0
Unfinished == job.pc \notin {"swapped", "finishing"}

\* The rows are those of the file on disk; and so they are if they look it.
Alike == record.file.tracks = disk.file.tracks
LooksTell == Clear /\ Unfinished /\ Matches => Alike

\* No review is open over rows that are about to change under it.
Settled ==
    Clear =>
        /\ job.pc = "finishing" => DOMAIN asked = {}
        /\ Unfinished /\ ~Alike =>
              /\ queue \cap {"pending", "processing"} # {} => DOMAIN asked = {}
              /\ DOMAIN flags # {} => Flagged(disk.file, S, Given(NoAnswers, disk.file)) = {}

QuestionFits(q, tracks) == \A i \in DOMAIN q \cap DOMAIN tracks : q[i] = tracks[i].id

ColumnFits(column, tracks) ==
    \A i \in DOMAIN tracks :
        Descriptor(tracks, i) \in DOMAIN column =>
            column[Descriptor(tracks, i)][2] = tracks[i].id

AllFit(answers, tracks) == \A c \in Columns : ColumnFits(answers[c], tracks)

\* What an evaluation holds of a file that has gone shows that it has, and no
\* answer has been given since.
LoadedKnown ==
    Unfinished /\ ~Alike =>
        \A t \in Threads : eval[t].on =>
            /\ eval[t].loaded.stamp # eval[t].stamp
            /\ \A c \in Columns : record.answers[c] \in {eval[t].loaded.answers[c], <<>>}

\* What a job was decided on is what is there to be converted.
JobFits ==
    /\ job.pc = "decided" \/ (job.pc = "running" /\ disk.stamp = job.print) =>
          /\ job.file.tracks = record.file.tracks /\ Alike
          /\ AllFit(job.answers, job.file.tracks)
    /\ job.pc \in {"swapped", "finishing"} =>
          job.file.tracks = record.file.tracks /\ disk.file = Output(job.file, S, Planned)
    /\ job.pc = "finishing" => job.loaded = record.answers

Fits ==
    /\ QuestionFits(flags, record.file.tracks) /\ QuestionFits(asked, record.file.tracks)
    /\ AllFit(record.answers, record.file.tracks)
    /\ LoadedKnown /\ JobFits

\* Questions raised from a file's tracks are of them.
LEMMA RaisedFit ==
    ASSUME NEW f, NEW given
    PROVE  /\ QuestionFits(Questions(f, given), f.tracks)
           /\ QuestionFits(Upserted(f, given), f.tracks)
  BY DEF QuestionFits, Questions, Upserted

\* Nothing asked and nothing stored fits any tracks.
LEMMA NoneFit ==
    ASSUME NEW tracks
    PROVE  /\ \A q : DOMAIN q = {} => QuestionFits(q, tracks)
           /\ QuestionFits(<<>>, tracks) /\ ColumnFits(<<>>, tracks)
  BY DEF QuestionFits, ColumnFits

\* Answers that fit, added to answers that fit, do.
LEMMA UpdatedFit ==
    ASSUME NEW tracks, NEW old, NEW new, ColumnFits(old, tracks), ColumnFits(new, tracks)
    PROVE  ColumnFits(Updated(old, new), tracks)
  BY DEF ColumnFits, Updated

\* What a decision leaves of the questions, of one file.
LEMMA DecidedAsks ==
    ASSUME NEW f, NEW given,
           Flagged(f, S, given) # {} => QuestionFits(flags, f.tracks),
           queue \cap {"pending", "processing"} # {} => QuestionFits(asked, f.tracks)
    PROVE  /\ QuestionFits(Decided(f, given).flags, f.tracks)
           /\ QuestionFits(Decided(f, given).asked, f.tracks)
<1>1. CASE Flagged(f, S, given) # {}
  <2>1. Decided(f, given).flags = flags /\ Decided(f, given).asked = Questions(f, given)
    BY <1>1 DEF Decided
  <2> QED BY <1>1, <2>1, RaisedFit
<1>2. CASE Flagged(f, S, given) = {}
  <2>1. /\ Decided(f, given).flags = Upserted(f, given)
        /\ \/ Decided(f, given).asked = <<>>
           \/ Decided(f, given).asked = asked /\ queue \cap {"pending", "processing"} # {}
    BY <1>2 DEF Decided
  <2> QED BY <2>1, RaisedFit, NoneFit
<1> QED BY <1>1, <1>2

\* The hypotheses of a step: where reviews are settled and looks tell.
Sound == Known /\ Clear /\ LooksTell /\ Settled /\ Gaps = {} /\ Fits

\* An evaluation writes the answers of the file it decides.
LEMMA EvaluateKeepsFit ==
    ASSUME Sound, NEW t \in Threads, Evaluate(t) PROVE Fits'
<1> DEFINE e == eval[t]
           file == disk.file
           forgets == e.clear \/ Forgets(e, file)
           loaded == IF forgets THEN NoAnswers ELSE e.loaded.answers
           given == Given(loaded, file)
           d == Decided(file, given)
           Goal == /\ QuestionFits(d.flags, file.tracks) /\ QuestionFits(d.asked, file.tracks)
                   /\ AllFit(record'.answers, file.tracks)
<1>0. e.file = file
  BY ReadIsThere DEF Sound, Known
<1>1. /\ record'.file = file
      /\ \A c \in Columns :
            record'.answers[c] = IF loaded[c] # e.loaded.answers[c] THEN <<>>
                                 ELSE record.answers[c]
      /\ flags' = d.flags /\ asked' = d.asked
      /\ Open /\ e.on
      /\ UNCHANGED <<disk, job>>
  BY <1>0 DEF Evaluate
<1>2. Unfinished /\ Clear
  BY <1>1 DEF Open, Unfinished, Sound
<1>3. ASSUME Alike PROVE Goal
  <2>1. QuestionFits(flags, file.tracks) /\ QuestionFits(asked, file.tracks)
        /\ AllFit(record.answers, file.tracks)
    BY <1>3 DEF Alike, Sound, Fits
  <2>2. QuestionFits(d.flags, file.tracks) /\ QuestionFits(d.asked, file.tracks)
    BY <2>1, DecidedAsks
  <2> HIDE DEF e, loaded, d, file
  <2>3. AllFit(record'.answers, file.tracks)
    BY <1>1, <2>1, NoneFit DEF AllFit
  <2> QED BY <1>1, <2>2, <2>3
<1>4. ASSUME ~Alike PROVE Goal
  <2>1. ~Matches
    BY <1>2, <1>4 DEF Sound, LooksTell
  <2>2. /\ e.loaded.stamp # e.stamp
        /\ \A c \in Columns : record.answers[c] \in {e.loaded.answers[c], <<>>}
    BY <1>1, <1>2, <1>4 DEF Sound, Fits, LoadedKnown
  <2>3. forgets
    BY <2>1, <2>2 DEF Forgets, Matches
  <2>4. loaded = NoAnswers
    BY <2>3
  <2>5. /\ queue \cap {"pending", "processing"} # {} => DOMAIN asked = {}
        /\ DOMAIN flags # {} => Flagged(file, S, given) = {}
    BY <1>2, <1>4, <2>4 DEF Sound, Settled
  <2>6. QuestionFits(d.flags, file.tracks) /\ QuestionFits(d.asked, file.tracks)
    <3> HIDE DEF file, given, loaded
    <3>1. Flagged(file, S, given) # {} => QuestionFits(flags, file.tracks)
      BY <2>5, NoneFit
    <3>2. queue \cap {"pending", "processing"} # {} => QuestionFits(asked, file.tracks)
      BY <2>5, NoneFit
    <3> QED BY <3>1, <3>2, DecidedAsks
  <2>7. \A c \in Columns : loaded[c] = <<>>
    BY <2>4 DEF NoAnswers
  <2> HIDE DEF e, loaded, d, file
  <2>8. \A c \in Columns : record'.answers[c] = <<>>
    BY <1>1, <2>2, <2>7
  <2>9. AllFit(record'.answers, file.tracks)
    BY <2>8, NoneFit DEF AllFit
  <2> QED BY <1>1, <2>6, <2>9
<1>5. Goal
  BY <1>3, <1>4
<1> HIDE DEF d, e, loaded
<1>6. Alike' /\ record'.file.tracks = file.tracks
  BY <1>1 DEF Alike
<1>7. LoadedKnown'
  BY <1>6 DEF LoadedKnown
<1>8. JobFits'
  <2>1. job.pc \in {"idle", "claimed", "running", "ended"}
    BY <1>1 DEF Open, Sound, Known, IInv, JobShaped
  <2>2. job.pc = "running" /\ disk.stamp = job.print =>
          /\ job.file.tracks = file.tracks /\ AllFit(job.answers, job.file.tracks)
    BY DEF Sound, Fits, JobFits, Alike
  <2> QED BY <1>1, <1>6, <2>1, <2>2 DEF JobFits
<1> QED BY <1>1, <1>5, <1>6, <1>7, <1>8 DEF Fits

\* The evaluations that go on hold what they held; one may begin.
GoesOn(t) ==
    /\ eval[t].on
    /\ eval'[t].stamp = eval[t].stamp /\ eval'[t].loaded = eval[t].loaded
    /\ eval'[t].clear = eval[t].clear
Begun ==
    \A t \in Threads : eval'[t].on =>
        \/ GoesOn(t)
        \/ /\ eval'[t].stamp = disk.stamp /\ eval'[t].loaded.answers = record.answers
           /\ eval'[t].loaded.stamp \in {record.stamp, 0}

\* While files and answers stay, what evaluations hold goes on telling.
LEMMA LoadedStays ==
    ASSUME Sound, Begun, disk' = disk, record'.file = record.file,
           record'.answers = record.answers, Unfinished' => Unfinished
    PROVE  LoadedKnown'
<1> SUFFICES ASSUME Unfinished, ~Alike, NEW t \in Threads, eval'[t].on
             PROVE  /\ eval'[t].loaded.stamp # eval'[t].stamp
                    /\ \A c \in Columns :
                          record.answers[c] \in {eval'[t].loaded.answers[c], <<>>}
  BY DEF LoadedKnown, Alike
<1>1. CASE GoesOn(t)
  BY <1>1 DEF GoesOn, Sound, Fits, LoadedKnown
<1>2. CASE /\ eval'[t].stamp = disk.stamp /\ eval'[t].loaded.answers = record.answers
           /\ eval'[t].loaded.stamp \in {record.stamp, 0}
  <2>1. disk.stamp # 0 /\ record.stamp # disk.stamp
    BY DEF Sound, Known, IInv, TypeOK, UsedShaped, Fresh, DeltaSound, Clear, Alike
  <2> QED BY <1>2, <2>1
<1> QED BY <1>1, <1>2 DEF Begun

\* And the job goes on fitting what is there.
LEMMA JobStays ==
    ASSUME Sound, job' = job, disk' = disk, case' = case, record'.file = record.file,
           job.pc = "finishing" => record'.answers = record.answers
    PROVE  JobFits'
  BY DEF Sound, Fits, JobFits, Alike, S, Planned

\* An evaluation that starts from the record is one that may begin,
LEMMA StartBegins ==
    ASSUME IInv, NEW t \in Threads, NEW rec, NEW clear, rec.answers = record.answers,
           rec.stamp \in {record.stamp, 0},
           \/ eval' = [eval EXCEPT ![t] = Started(rec, clear)]
           \/ \E mark : eval' = [eval EXCEPT ![t] = [Started(rec, clear) EXCEPT !.again = mark]]
    PROVE  Begun
  BY DEF IInv, EvalKnown, Begun, GoesOn, Started

\* and none need.
LEMMA NoneBegin == ASSUME eval' = eval PROVE Begun
  BY DEF Begun, GoesOn

\* A probe leaves what was loaded.
LEMMA ProbeGoesOn ==
    ASSUME IInv, NEW t \in Threads, Probe(t)
    PROVE  \A u \in Threads : eval'[u].on => GoesOn(u)
<1>1. eval[t].on /\ eval' = [eval EXCEPT ![t] = [eval[t] EXCEPT !.read = TRUE, !.file = disk.file]]
  BY DEF Probe
<1>2. \A u \in Threads : eval'[u] = IF u = t THEN [eval[t] EXCEPT !.read = TRUE, !.file = disk.file]
                                     ELSE eval[u]
  BY <1>1 DEF IInv, EvalKnown
<1> QED BY <1>1, <1>2 DEF GoesOn

\* A replacement comes between evaluations, and a job will find it.
LEMMA ReplacedKeepsFit == ASSUME Sound, Replaced PROVE Fits'
<1>1. /\ disk'.stamp = used.stamps + 1 /\ job.pc \notin {"decided", "swapped", "finishing"}
      /\ \A t \in Threads : ~eval[t].on
      /\ UNCHANGED <<record, flags, asked, eval, job>>
  BY DEF Replaced, Undisturbed, Open, Sound
<1>2. LoadedKnown'
  BY <1>1 DEF LoadedKnown
<1>3. JobFits'
  <2>1. job.pc = "running" => disk'.stamp # job.print
    BY <1>1 DEF Sound, Known, JobKnown, IInv, UsedShaped
  <2> QED BY <1>1, <2>1 DEF JobFits
<1> QED BY <1>1, <1>2, <1>3 DEF Sound, Fits

\* A scan begins an evaluation.
LEMMA ScanKeepsFit == ASSUME Sound, NEW force, Scan(force) PROVE Fits'
<1>1. UNCHANGED <<case, disk, record, flags, asked, job>>
      /\ eval' = [eval EXCEPT !["scan"] = Started(record, FALSE)]
  BY DEF Scan
<1>2. Begun
  BY <1>1, StartBegins DEF Sound, Known, Threads
<1>3. LoadedKnown' /\ JobFits'
  BY <1>1, <1>2, LoadedStays, JobStays DEF Unfinished
<1> QED BY <1>1, <1>3 DEF Sound, Fits

\* A probe reads the file an evaluation is to write.
LEMMA ProbeKeepsFit == ASSUME Sound, NEW t \in Threads, Probe(t) PROVE Fits'
<1>1. UNCHANGED <<case, disk, record, flags, asked, job>>
  BY DEF Probe
<1>2. Begun
  BY ProbeGoesOn DEF Begun, Sound, Known
<1>3. LoadedKnown' /\ JobFits'
  BY <1>1, <1>2, LoadedStays, JobStays DEF Unfinished
<1> QED BY <1>1, <1>3 DEF Sound, Fits

\* So may what follows a language answer, which takes questions back.
LEMMA FollowKeepsFit == ASSUME Sound, Follow PROVE Fits'
<1>1. /\ record'.file = record.file /\ record'.answers = record.answers
      /\ UNCHANGED <<case, disk, flags, job>>
      /\ asked' = asked \/ asked' = <<>>
      /\ eval' = eval \/ eval' = [eval EXCEPT !["user"] = Started(record, FALSE)]
  BY DEF Follow, Sound, Known, IInv, RecordShaped
<1>2. Begun
  BY <1>1, StartBegins, NoneBegin DEF Sound, Known, Threads
<1>3. LoadedKnown' /\ JobFits'
  BY <1>1, <1>2, LoadedStays, JobStays DEF Unfinished
<1> QED BY <1>1, <1>3, NoneFit DEF Sound, Fits

\* Asking again begins one that is to forget the answers.
LEMMA AskAgainKeepsFit == ASSUME Sound, AskAgain PROVE Fits'
<1>1. UNCHANGED <<case, disk, record, flags, asked, job>>
      /\ eval' = [eval EXCEPT !["user"] = Started(record, TRUE)]
  BY DEF AskAgain
<1>2. Begun
  BY <1>1, StartBegins DEF Sound, Known, Threads
<1>3. LoadedKnown' /\ JobFits'
  BY <1>1, <1>2, LoadedStays, JobStays DEF Unfinished
<1> QED BY <1>1, <1>3 DEF Sound, Fits

\* A cancel takes a question back and leaves the rest.
LEMMA CancelKeepsFit == ASSUME Sound, CancelItem PROVE Fits'
<1>1. /\ record'.file = record.file /\ record'.answers = record.answers
      /\ UNCHANGED <<case, disk, flags, eval, job>>
      /\ asked' = asked \/ asked' = <<>>
  BY DEF CancelItem, Sound, Known, IInv, RecordShaped
<1>2. LoadedKnown' /\ JobFits'
  BY <1>1, NoneBegin, LoadedStays, JobStays DEF Unfinished
<1> QED BY <1>1, <1>2, NoneFit DEF Sound, Fits

\* A person's answers are stored for the tracks the questions are of.
LEMMA ReviewKeepsFit == ASSUME Sound, AnswerReview PROVE Fits'
<1> DEFINE file == record.file
<1>1. PICK answer \in [DOMAIN asked -> {"keep", "remove"}] :
         LET told == [key \in {Descriptor(file.tracks, i) : i \in DOMAIN asked} |->
                         LET i == StreamOf(file.tracks, key) IN <<answer[i], asked[i]>>]
             answers == [record.answers EXCEPT !.subs = Updated(@, told)]
             given == Given(answers, file)
         IN  /\ record' = [record EXCEPT !.answers = answers]
             /\ \/ asked' = Questions(file, given) /\ flags' = flags
                \/ asked' = <<>> /\ flags' = Upserted(file, given)
  BY DEF AnswerReview
<1>2. /\ DOMAIN asked \subseteq DOMAIN file.tracks /\ Undisturbed
      /\ UNCHANGED <<case, disk, eval, job>>
  BY DEF AnswerReview, Requested
<1> DEFINE told == [key \in {Descriptor(file.tracks, i) : i \in DOMAIN asked} |->
                      LET i == StreamOf(file.tracks, key) IN <<answer[i], asked[i]>>]
           answers == [record.answers EXCEPT !.subs = Updated(@, told)]
           given == Given(answers, file)
<1>3. /\ record'.file = file /\ record'.answers = answers
      /\ \/ asked' = Questions(file, given) /\ flags' = flags
         \/ asked' = <<>> /\ flags' = Upserted(file, given)
  <2>1. record' = [record EXCEPT !.answers = answers]
    BY <1>1
  <2> HIDE DEF answers
  <2>2. record'.file = file /\ record'.answers = answers
    BY <2>1 DEF Sound, Known, IInv, RecordShaped
  <2> QED BY <1>1, <2>2 DEF answers
<1>4. ColumnFits(told, file.tracks)
  <2> SUFFICES ASSUME NEW i \in DOMAIN file.tracks, Descriptor(file.tracks, i) \in DOMAIN told
               PROVE  told[Descriptor(file.tracks, i)][2] = file.tracks[i].id
    BY DEF ColumnFits
  <2>1. IsFile(file)
    BY DEF Sound, Known, FilesKnown
  <2>2. StreamOf(file.tracks, Descriptor(file.tracks, i)) = i
    BY <2>1, StreamOfFits
  <2>3. PICK j \in DOMAIN asked : Descriptor(file.tracks, i) = Descriptor(file.tracks, j)
    OBVIOUS
  <2>4. j = i
    BY <1>2, <2>1, <2>3, DescriptorTells
  <2>5. asked[i] = file.tracks[i].id
    BY <2>3, <2>4 DEF Sound, Fits, QuestionFits
  <2> QED BY <2>2, <2>5
<1> HIDE DEF told
<1>5. AllFit(record'.answers, file.tracks)
  <2>1. AllFit(record.answers, file.tracks)
    BY DEF Sound, Fits
  <2>2. \A c \in Columns : answers[c] \in {record.answers[c], Updated(record.answers[c], told)}
    BY DEF Sound, Known, IInv, TypeOK, Columns
  <2> HIDE DEF answers, file
  <2> QED BY <1>3, <1>4, <2>1, <2>2, UpdatedFit DEF AllFit
<1>6. QuestionFits(flags', file.tracks) /\ QuestionFits(asked', file.tracks)
  BY <1>3, RaisedFit, NoneFit DEF Sound, Fits
<1>7. /\ \A t \in Threads : ~eval[t].on
      /\ job.pc # "finishing"
  BY <1>2 DEF Undisturbed, Open, Sound
<1>8. LoadedKnown' /\ JobFits'
  BY <1>2, <1>3, <1>7, JobStays DEF LoadedKnown
<1> QED BY <1>3, <1>5, <1>6, <1>8 DEF Fits

\* So are the languages they give: when the answer is read,
LEMMA LanguageKeepsFit == ASSUME Sound, SetLanguage PROVE Fits'
<1>1. UNCHANGED <<case, disk, record, flags, asked, eval, job>>
  BY DEF SetLanguage
<1>2. LoadedKnown' /\ JobFits'
  BY <1>1, NoneBegin, LoadedStays, JobStays DEF Unfinished
<1> QED BY <1>1, <1>2 DEF Sound, Fits

\* when it is stored,
LEMMA StoreKeepsFit == ASSUME Sound, Store PROVE Fits'
<1> DEFINE tracks == record.file.tracks
           Column(i) == IF tracks[i].type = "audio" THEN "audioLang" ELSE "subLang"
           Said(i) == [key \in {Descriptor(tracks, i)} |-> <<"eng", flags[i]>>]
<1>1. /\ record' = [record EXCEPT !.answers[request.column] =
                                       Updated(request.was, request.told)]
      /\ UNCHANGED <<case, disk, flags, asked, eval, job>> /\ request.pc = "read"
  BY DEF Store
<1>2. PICK i \in DOMAIN flags \cap DOMAIN tracks : request = Reply(i)
  BY <1>1 DEF Sound, Known, Replying
<1>3. ColumnFits(Said(i), tracks)
  <2> SUFFICES ASSUME NEW j \in DOMAIN tracks, Descriptor(tracks, j) \in DOMAIN Said(i)
               PROVE  Said(i)[Descriptor(tracks, j)][2] = tracks[j].id
    BY DEF ColumnFits
  <2>1. IsFile(record.file) /\ Descriptor(tracks, j) = Descriptor(tracks, i)
    BY DEF Sound, Known, FilesKnown
  <2>2. j = i
    BY <2>1, DescriptorTells
  <2>3. flags[i] = tracks[i].id
    BY DEF Sound, Fits, QuestionFits
  <2> QED BY <2>1, <2>2, <2>3
<1>4. /\ request.column = Column(i) /\ request.was = record.answers[Column(i)]
      /\ request.told = Said(i)
  BY <1>2 DEF Reply
<1>5. record'.file = record.file
      /\ record'.answers =
            [record.answers EXCEPT ![Column(i)] = Updated(record.answers[Column(i)], Said(i))]
  <2> HIDE DEF Column, Said
  <2> QED BY <1>1, <1>4 DEF Sound, Known, IInv, RecordShaped
<1>6. AllFit(record'.answers, tracks)
  <2>1. AllFit(record.answers, tracks) /\ DOMAIN record.answers = Columns
    BY DEF Sound, Fits, Known, IInv, TypeOK
  <2> HIDE DEF Column, Said, tracks
  <2>2. \A c \in Columns :
           record'.answers[c] \in {record.answers[c], Updated(record.answers[c], Said(i))}
    BY <1>5, <2>1
  <2> QED BY <1>3, <2>1, <2>2, UpdatedFit DEF AllFit
<1>7. (\A t \in Threads : ~eval[t].on) /\ job.pc # "finishing"
  BY <1>1 DEF Sound, Known, Replying
<1>8. LoadedKnown' /\ JobFits'
  BY <1>1, <1>5, <1>7, JobStays DEF LoadedKnown
<1> QED BY <1>1, <1>5, <1>6, <1>8 DEF Sound, Fits

\* and when its question goes.
LEMMA SettleKeepsFit == ASSUME Sound, Settle PROVE Fits'
<1>1. /\ UNCHANGED <<case, disk, record, asked, eval, job>>
      /\ flags' = [j \in {k \in DOMAIN flags : flags[k] \notin request.tracks} |-> flags[j]]
  BY DEF Settle
<1>2. QuestionFits(flags', record.file.tracks)
  BY <1>1 DEF Sound, Fits, QuestionFits
<1>3. LoadedKnown' /\ JobFits'
  BY <1>1, NoneBegin, LoadedStays, JobStays DEF Unfinished
<1> QED BY <1>1, <1>2, <1>3 DEF Sound, Fits

\* A job is claimed, loaded, and fingerprinted.
LEMMA ClaimKeepsFit == ASSUME Sound, Claim PROVE Fits'
<1>1. job'.pc = "claimed" /\ UNCHANGED <<disk, record, flags, asked, eval>>
      /\ job.pc = "idle"
  BY DEF Claim, NoJob
<1>2. LoadedKnown' /\ JobFits'
  BY <1>1, NoneBegin, LoadedStays DEF Unfinished, JobFits
<1> QED BY <1>1, <1>2 DEF Sound, Fits

\* What is loaded is of the tracks on disk, which look like the rows.
LEMMA LoadKeepsFit == ASSUME Sound, Load PROVE Fits'
<1> DEFINE file == record.file
           given == Given(record.answers, file)
<1>1. /\ job.pc = "claimed" /\ UNCHANGED <<case, disk, record>>
      /\ flags' = flags \/ flags' = Upserted(file, given)
      /\ asked' = asked \/ asked' = Questions(file, given)
  BY DEF Load
<1>2. \/ eval' = eval
      \/ \E mark : eval' = [eval EXCEPT !["job"] =
                               [Started(record, FALSE) EXCEPT !.again = mark]]
  BY DEF Load
<1>3. \/ job' = NoJob
      \/ Matches /\ job' = [pc |-> "decided", file |-> file, answers |-> record.answers]
  BY DEF Load
<1>4. QuestionFits(flags', file.tracks) /\ QuestionFits(asked', file.tracks)
  BY <1>1, RaisedFit DEF Sound, Fits
<1>5. Begun
  BY <1>2, StartBegins, NoneBegin DEF Sound, Known, Threads
<1>6. LoadedKnown'
  BY <1>1, <1>5, LoadedStays DEF Unfinished
<1>7. JobFits'
  <2>1. CASE job' = NoJob
    BY <2>1 DEF NoJob, JobFits
  <2>2. CASE Matches /\ job' = [pc |-> "decided", file |-> file, answers |-> record.answers]
    <3>1. Alike
      BY <1>1, <2>2 DEF Sound, LooksTell, Unfinished
    <3>2. AllFit(record.answers, file.tracks)
      BY DEF Sound, Fits
    <3>3. job'.pc = "decided" /\ job'.file = file /\ job'.answers = record.answers
      BY <2>2
    <3> QED BY <1>1, <3>1, <3>2, <3>3 DEF JobFits, Alike
  <2> QED BY <1>3, <2>1, <2>2
<1> QED BY <1>1, <1>4, <1>6, <1>7 DEF Sound, Fits

\* The fingerprint is of the file the job was decided on.
LEMMA FingerprintKeepsFit == ASSUME Sound, Fingerprint PROVE Fits'
<1>1. /\ job.pc = "decided" /\ UNCHANGED <<disk, record, flags, asked, eval>>
      /\ job'.pc = "running" /\ job'.file = job.file /\ job'.answers = job.answers
  BY DEF Fingerprint
<1>2. LoadedKnown'
  BY <1>1, NoneBegin, LoadedStays DEF Unfinished
<1>3. JobFits'
  BY <1>1 DEF Sound, Fits, JobFits, Alike
<1> QED BY <1>1, <1>2, <1>3 DEF Sound, Fits

\* Its output is made of the tracks the rows still have.
LEMMA SwapKeepsFit == ASSUME Sound, Swap PROVE Fits'
<1>1. /\ job.pc = "running" /\ disk.stamp = job.print
      /\ disk'.file = Output(job.file, S, Planned)
      /\ job' = [job EXCEPT !.pc = "swapped"]
      /\ UNCHANGED <<case, record, flags, asked>>
  BY DEF Swap
<1>2. job'.pc = "swapped" /\ job'.file = job.file /\ job'.answers = job.answers
  BY <1>1 DEF Sound, Known, JobKnown
<1>3. LoadedKnown'
  BY <1>2 DEF LoadedKnown, Unfinished
<1>4. JobFits'
  <2>1. Output(job.file, S, Planned)' = Output(job.file, S, Planned)
    BY <1>1, <1>2 DEF S, Planned
  <2> QED BY <1>1, <1>2, <2>1 DEF Sound, Fits, JobFits
<1> QED BY <1>1, <1>3, <1>4 DEF Sound, Fits

\* A job that finds its source changed begins an evaluation that will see it.
LEMMA StopKeepsFit == ASSUME Sound, StopForChange PROVE Fits'
<1> DEFINE rec == [record EXCEPT !.stamp = 0]
<1>1. /\ job.pc = "running" /\ job'.pc = "idle" /\ record' = rec
      /\ UNCHANGED <<disk, flags, asked>>
      /\ eval' = [eval EXCEPT !["job"] = [Started(rec, FALSE) EXCEPT !.again = record.mark]]
  BY DEF StopForChange, NoJob
<1>2. rec.file = record.file /\ rec.answers = record.answers /\ rec.stamp = 0
  BY DEF Sound, Known, IInv, RecordShaped
<1> HIDE DEF rec
<1>3. Begun
  BY <1>1, <1>2, StartBegins DEF Sound, Known, Threads
<1>4. LoadedKnown' /\ JobFits'
  BY <1>1, <1>2, <1>3, LoadedStays DEF Unfinished, JobFits
<1> QED BY <1>1, <1>2, <1>4 DEF Sound, Fits

\* A job that fails leaves files and answers.
LEMMA FailKeepsFit == ASSUME Sound, Fail PROVE Fits'
<1>1. job.pc = "running" /\ job'.pc = "idle" /\ UNCHANGED <<disk, record, flags, asked, eval>>
  BY DEF Fail, NoJob
<1>2. LoadedKnown' /\ JobFits'
  BY <1>1, NoneBegin, LoadedStays DEF Unfinished, JobFits
<1> QED BY <1>1, <1>2 DEF Sound, Fits

\* The end of a job reads the answers, which nobody changes from then on.
LEMMA FinishReadKeepsFit == ASSUME Sound, FinishRead PROVE Fits'
<1>1. /\ job.pc = "swapped" /\ job'.pc = "finishing" /\ job'.loaded = record.answers
      /\ job'.file = job.file /\ job'.answers = job.answers
      /\ UNCHANGED <<case, disk, record, flags, asked>>
  BY DEF FinishRead
<1>2. LoadedKnown'
  BY <1>1 DEF LoadedKnown, Unfinished
<1>3. JobFits'
  <2>1. Output(job.file, S, Planned)' = Output(job.file, S, Planned)
    BY <1>1 DEF S, Planned
  <2> QED BY <1>1, <2>1 DEF Sound, Fits, JobFits
<1> QED BY <1>1, <1>2, <1>3 DEF Sound, Fits

\* Answers and questions are carried to where FFmpeg put their tracks.
LEMMA CarriedFit ==
    ASSUME NEW f, IsFile(f), NEW s, NEW a, NEW column, ColumnFits(column, f.tracks)
    PROVE  LET out == Output(f, s, a).tracks
               mapping == JobMapping(f.tracks, out, Removed(f, s, a))
           IN  ColumnFits(Rekey(column, f.tracks, out, mapping), out)
<1> DEFINE out == Output(f, s, a).tracks
           map == Mapped(f, s, a)
           mapping == JobMapping(f.tracks, out, Removed(f, s, a))
           new == Rekey(column, f.tracks, out, mapping)
           before == Resolve(column, f.tracks)
           after == Resolve(new, out)
<1> SUFFICES ASSUME NEW m \in DOMAIN out, Descriptor(out, m) \in DOMAIN new
             PROVE  new[Descriptor(out, m)][2] = out[m].id
  BY DEF ColumnFits
<1>1. /\ DOMAIN out = DOMAIN map /\ map[m] \in DOMAIN f.tracks
      /\ out[m].id = f.tracks[map[m]].id
  BY OutputFits
<1>2. after = [n \in {n \in DOMAIN out : Descriptor(out, n) \in DOMAIN new} |->
                  new[Descriptor(out, n)]]
  BY DEF Resolve
<1>3. before = [n \in {n \in DOMAIN f.tracks : Descriptor(f.tracks, n) \in DOMAIN column} |->
                  column[Descriptor(f.tracks, n)]]
  BY DEF Resolve
<1>4. /\ map[m] \in DOMAIN before <=> m \in DOMAIN after
      /\ map[m] \in DOMAIN before => before[map[m]] = after[m]
  BY <1>1, RekeyFollows DEF Follows
<1> HIDE DEF out, map, mapping, new, before, after
<1>5. m \in DOMAIN after /\ after[m] = new[Descriptor(out, m)]
  BY <1>2
<1>6. /\ map[m] \in DOMAIN before /\ before[map[m]] = after[m]
      /\ Descriptor(f.tracks, map[m]) \in DOMAIN column
      /\ before[map[m]] = column[Descriptor(f.tracks, map[m])]
  BY <1>1, <1>3, <1>4, <1>5
<1>7. column[Descriptor(f.tracks, map[m])][2] = f.tracks[map[m]].id
  BY <1>1, <1>6 DEF ColumnFits
<1> QED BY <1>1, <1>5, <1>6, <1>7

\* A question goes with its track.
LEMMA MovedFit ==
    ASSUME NEW f, IsFile(f), NEW s, NEW a, QuestionFits(flags, f.tracks)
    PROVE  LET out == Output(f, s, a).tracks
               mapping == JobMapping(f.tracks, out, Removed(f, s, a))
           IN  QuestionFits(FlagsMoved(mapping), out)
<1> DEFINE out == Output(f, s, a).tracks
           map == Mapped(f, s, a)
           mapping == JobMapping(f.tracks, out, Removed(f, s, a))
           here == DOMAIN flags \cap DOMAIN mapping
<1>1. /\ DOMAIN out = DOMAIN map
      /\ \A m \in DOMAIN map : map[m] \in DOMAIN f.tracks /\ out[m].id = f.tracks[map[m]].id
  BY OutputFits
<1>2. /\ DOMAIN mapping = {map[m] : m \in DOMAIN map}
      /\ \A m \in DOMAIN map : mapping[map[m]] = m
  BY MappingFollows
<1>3. FlagsMoved(mapping) =
        [j \in {mapping[i] : i \in here} |-> flags[CHOOSE i \in here : mapping[i] = j]]
  BY DEF FlagsMoved
<1> SUFFICES ASSUME NEW j \in {mapping[i] : i \in here}
             PROVE  FlagsMoved(mapping)[j] = out[j].id
  <2> DEFINE moved == FlagsMoved(mapping)
  <2>1. DOMAIN moved = {mapping[i] : i \in here}
    BY <1>3
  <2> SUFFICES \A j \in DOMAIN moved \cap DOMAIN out : moved[j] = out[j].id
    BY DEF QuestionFits
  <2> HIDE DEF moved, mapping, out
  <2> QED BY <2>1 DEF moved
<1> HIDE DEF out, map, mapping
<1> DEFINE i == CHOOSE i \in here : mapping[i] = j
<1>4. i \in here /\ mapping[i] = j
  OBVIOUS
<1>5. FlagsMoved(mapping)[j] = flags[i]
  BY <1>3
<1> HIDE DEF i
<1>6. PICK m \in DOMAIN map : i = map[m]
  BY <1>2, <1>4
<1>7. j = m /\ i \in DOMAIN f.tracks /\ out[j].id = f.tracks[i].id
  BY <1>1, <1>2, <1>4, <1>6
<1> QED BY <1>4, <1>5, <1>7 DEF QuestionFits

\* The end of a job writes questions and answers where their tracks are.
LEMMA FinishKeepsFit == ASSUME Sound, FinishWrite PROVE Fits'
<1> DEFINE f == job.file
           out == Output(f, S, Planned).tracks
           mapping == JobMapping(f.tracks, out, Removed(f, S, Planned))
           Carried(c) == Rekey(record.answers[c], f.tracks, out, mapping)
<1>1. job.pc = "finishing"
  BY DEF FinishWrite
<1>2. /\ IsFile(f) /\ record.file.tracks = f.tracks /\ disk.file.tracks = out
      /\ job.loaded = record.answers /\ DOMAIN asked = {}
  BY <1>1 DEF Sound, Known, JobKnown, Settled, Fits, JobFits
<1>3. /\ record'.file = disk.file
      /\ \A c \in Columns :
            record'.answers[c] = IF Carried(c) # record.answers[c] THEN Carried(c)
                                 ELSE record.answers[c]
      /\ flags' = FlagsMoved(mapping)
      /\ job'.pc = "ended" /\ UNCHANGED <<disk, asked, eval>>
  <2> DEFINE before == record.file.tracks
             after == disk.file.tracks
             map == JobMapping(before, after, Removed(job.file, S, Planned))
             Moved(c) == Rekey(job.loaded[c], before, after, map)
             answers == [c \in Columns |->
                            IF Moved(c) # job.loaded[c] THEN Moved(c) ELSE record.answers[c]]
  <2>1. /\ record' = [record EXCEPT !.file = disk.file, !.stamp = disk.stamp,
                                    !.answers = answers]
        /\ flags' = FlagsMoved(map)
        /\ job'.pc = "ended" /\ UNCHANGED <<disk, asked, eval>>
    BY DEF FinishWrite, RowsRead, Sound, Known, IInv, RecordShaped
  <2>2. map = mapping /\ \A c \in Columns : Moved(c) = Carried(c)
    BY <1>2
  <2>3. \A c \in Columns : answers[c] = IF Carried(c) # record.answers[c] THEN Carried(c)
                                        ELSE record.answers[c]
    BY <1>2, <2>2
  <2> HIDE DEF map, answers, mapping, Moved, Carried
  <2>4. record'.file = disk.file /\ record'.answers = answers
    BY <2>1 DEF Sound, Known, IInv, RecordShaped
  <2> QED BY <2>1, <2>2, <2>3, <2>4
<1>4. \A c \in Columns : ColumnFits(Carried(c), out)
  <2>1. \A c \in Columns : ColumnFits(record.answers[c], f.tracks)
    BY <1>2 DEF Sound, Fits, AllFit
  <2> QED BY <1>2, <2>1, CarriedFit
<1>5. QuestionFits(FlagsMoved(mapping), out)
  <2>1. QuestionFits(flags, f.tracks)
    BY <1>2 DEF Sound, Fits
  <2> QED BY <1>2, <2>1, MovedFit
<1> HIDE DEF f, out, mapping, Carried
<1>6. record'.file.tracks = out
  BY <1>2, <1>3
<1>7. AllFit(record'.answers, out)
  <2>1. \A c \in Columns : record'.answers[c] = Carried(c)
    BY <1>3
  <2> QED BY <1>4, <2>1 DEF AllFit
<1>8. QuestionFits(asked', out)
  BY <1>2, <1>3, NoneFit
<1>9. LoadedKnown' /\ JobFits'
  BY <1>3 DEF LoadedKnown, Alike, JobFits
<1> QED BY <1>3, <1>5, <1>6, <1>7, <1>8, <1>9 DEF Fits

\* What follows a job may begin an evaluation.
LEMMA AfterKeepsFit == ASSUME Sound, After PROVE Fits'
<1>1. /\ job.pc = "ended" /\ job'.pc = "idle" /\ UNCHANGED <<disk, record, flags, asked>>
      /\ eval' = eval \/ eval' = [eval EXCEPT !["job"] = Started(record, FALSE)]
  BY DEF After, NoJob
<1>2. Begun
  BY <1>1, StartBegins, NoneBegin DEF Sound, Known, Threads
<1>3. LoadedKnown' /\ JobFits'
  BY <1>1, <1>2, LoadedStays DEF Unfinished, JobFits
<1> QED BY <1>1, <1>3 DEF Sound, Fits

\* An output that could not be read is never forgotten.
LEMMA ClearBefore == ASSUME IInv, [Next]_vars, Clear' PROVE Clear /\ ~FinishUnread
<1>1. ASSUME FinishUnread PROVE FALSE
  BY <1>1 DEF FinishUnread, IInv, TypeOK, UsedShaped, Clear
<1>2. CASE used'.unread = used.unread
  BY <1>1, <1>2 DEF Clear
<1>3. Counted => used'.unread = used.unread
  BY DEF Counted, IInv, UsedShaped
<1>4. Replaced \/ Swap \/ Fail => used'.unread = used.unread
  <2>1. Replaced => used'.unread = used.unread
    BY DEF Replaced, IInv, UsedShaped
  <2>2. Swap => used'.unread = used.unread
    BY DEF Swap, IInv, UsedShaped
  <2>3. Fail => used'.unread = used.unread
    BY DEF Fail, IInv, UsedShaped
  <2> QED BY <2>1, <2>2, <2>3
<1>5. \/ used' = used \/ Counted \/ Replaced \/ Swap \/ Fail \/ FinishUnread
  <2>1. UNCHANGED vars => used' = used
    BY DEF vars
  <2>2. ASSUME NEW t \in Threads, Probe(t) \/ Evaluate(t) PROVE used' = used
    BY <2>2 DEF Probe, Evaluate
  <2>3. ASSUME NEW force, Scan(force) PROVE used' = used
    BY <2>3 DEF Scan
  <2>4. AnswerReview \/ SetLanguage \/ AskAgain \/ CancelItem => Counted
    BY DEF AnswerReview, SetLanguage, AskAgain, CancelItem
  <2>5. Store \/ Settle \/ Follow => used' = used
    BY DEF Store, Settle, Follow
  <2>6. Claim \/ Load \/ Fingerprint \/ StopForChange \/ FinishRead \/ FinishWrite \/ After
          => used' = used
    BY DEF Claim, Load, Fingerprint, StopForChange, FinishRead, FinishWrite, After
  <2> QED BY <2>1, <2>2, <2>3, <2>4, <2>5, <2>6 DEF Next
<1> QED BY <1>1, <1>2, <1>3, <1>4, <1>5

\* Where reviews are settled and looks tell, every step keeps the questions and
\* the answers with their tracks.
LEMMA FitsHold ==
    ASSUME Gaps = {}
    PROVE  Init /\ [][Next]_vars /\ []LooksTell /\ []Settled => [](Clear => Fits)
<1>1. Init => Fits
  <2> SUFFICES ASSUME Init PROVE Fits
    OBVIOUS
  <2>1. /\ record.answers = NoAnswers /\ DOMAIN flags = {} /\ DOMAIN asked = {}
        /\ \A t \in Threads : ~eval[t].on
        /\ job.pc = "idle"
    BY DEF Init, Nobody, NoJob
  <2>2. AllFit(record.answers, record.file.tracks)
    BY <2>1, NoneFit DEF AllFit, NoAnswers
  <2> QED BY <2>1, <2>2, NoneFit DEF Fits, LoadedKnown, JobFits
<1>2. ASSUME Known, LooksTell, Settled, Clear => Fits, [Next]_vars, Clear' PROVE Fits'
  <2>0. Sound /\ ~FinishUnread
    BY <1>2, ClearBefore DEF Sound, Known
  <2>1. CASE UNCHANGED vars
    <3>1. Fits
      BY <2>0 DEF Sound
    <3> QED BY <2>1, <3>1 DEF vars, Fits, LoadedKnown, JobFits, Alike, Unfinished, S, Planned
  <2>2. CASE Replaced BY <2>0, <2>2, ReplacedKeepsFit
  <2>3. ASSUME NEW t \in Threads, Evaluate(t) PROVE Fits'
    BY <2>0, <2>3, EvaluateKeepsFit
  <2>4. ASSUME NEW force \in BOOLEAN, Scan(force) PROVE Fits'
    BY <2>0, <2>4, ScanKeepsFit
  <2>5. CASE AnswerReview BY <2>0, <2>5, ReviewKeepsFit
  <2>6. CASE SetLanguage BY <2>0, <2>6, LanguageKeepsFit
  <2>7. CASE Follow BY <2>0, <2>7, FollowKeepsFit
  <2>8. CASE AskAgain BY <2>0, <2>8, AskAgainKeepsFit
  <2>9. CASE CancelItem BY <2>0, <2>9, CancelKeepsFit
  <2>10. CASE Claim BY <2>0, <2>10, ClaimKeepsFit
  <2>11. CASE Load BY <2>0, <2>11, LoadKeepsFit
  <2>12. CASE Fingerprint BY <2>0, <2>12, FingerprintKeepsFit
  <2>13. CASE Swap BY <2>0, <2>13, SwapKeepsFit
  <2>14. CASE StopForChange BY <2>0, <2>14, StopKeepsFit
  <2>15. CASE Fail BY <2>0, <2>15, FailKeepsFit
  <2>16. CASE FinishRead BY <2>0, <2>16, FinishReadKeepsFit
  <2>17. CASE FinishWrite BY <2>0, <2>17, FinishKeepsFit
  <2>18. CASE After BY <2>0, <2>18, AfterKeepsFit
  <2>19. ASSUME NEW t \in Threads, Probe(t) PROVE Fits'
    BY <2>0, <2>19, ProbeKeepsFit
  <2>20. CASE Store BY <2>0, <2>20, StoreKeepsFit
  <2>21. CASE Settle BY <2>0, <2>21, SettleKeepsFit
  <2> QED BY <1>2, <2>0, <2>1, <2>2, <2>3, <2>4, <2>5, <2>6, <2>7, <2>8, <2>9, <2>10, <2>11,
             <2>12, <2>13, <2>14, <2>15, <2>16, <2>17, <2>18, <2>19, <2>20, <2>21 DEF Next
<1> QED BY <1>1, <1>2, KnownHolds, PTL

\* So the questions fit, and so does what a swap applies.
LEMMA FitTells == ASSUME Fits PROVE QuestionsFit
  BY DEF Fits, QuestionsFit, QuestionFits

\* A swap applies answers that fit the file it replaces.
LEMMA SwapApplies ==
    ASSUME Known, Clear => Fits, [Next]_vars
    PROVE  job.pc = "running" /\ job'.pc = "swapped" /\ Clear => AppliesAsSaid
<1> SUFFICES ASSUME job.pc = "running", job'.pc = "swapped", Clear PROVE AppliesAsSaid
  OBVIOUS
<1>1. Swap
  <2>1. \/ job' = job \/ job'.pc \in {"idle", "claimed", "decided", "running", "ended"}
        \/ job.pc # "running" \/ Swap
    <3>1. NoJob.pc = "idle"
      BY DEF NoJob
    <3>2. CASE Load BY <3>2 DEF Load
    <3>3. CASE Fingerprint BY <3>3 DEF Fingerprint
    <3>4. CASE FinishRead BY <3>4 DEF FinishRead
    <3>5. CASE Claim BY <3>5 DEF Claim
    <3>6. CASE After BY <3>1, <3>6 DEF After
    <3>7. CASE StopForChange \/ Fail BY <3>1, <3>7 DEF StopForChange, Fail
    <3>8. CASE FinishWrite \/ FinishUnread BY <3>8 DEF FinishWrite, FinishUnread
    <3>9. CASE UNCHANGED job BY <3>9
    <3>10. ASSUME NEW t \in Threads, Probe(t) \/ Evaluate(t) PROVE UNCHANGED job
      BY <3>10 DEF Probe, Evaluate
    <3>11. Store \/ Settle \/ Follow => UNCHANGED job
      BY DEF Store, Settle, Follow
    <3>12. AnswerReview \/ SetLanguage \/ AskAgain \/ CancelItem => UNCHANGED job
      BY DEF AnswerReview, SetLanguage, AskAgain, CancelItem
    <3>13. ASSUME NEW force, Replaced \/ Scan(force) PROVE UNCHANGED job
      BY <3>13 DEF Replaced, Scan
    <3>14. UNCHANGED vars => UNCHANGED job
      BY DEF vars
    <3> QED BY <3>2, <3>3, <3>4, <3>5, <3>6, <3>7, <3>8, <3>9, <3>10, <3>11, <3>12, <3>13,
               <3>14 DEF Next
  <2> QED BY <2>1
<1>2. /\ job.file.tracks = disk.file.tracks
      /\ AllFit(job.answers, job.file.tracks)
  BY <1>1 DEF Swap, Fits, JobFits, Alike
<1>3. ASSUME NEW c \in Columns, NEW i \in DOMAIN Resolve(job.answers[c], job.file.tracks)
      PROVE  /\ i \in DOMAIN disk.file.tracks
             /\ Resolve(job.answers[c], job.file.tracks)[i][2] = disk.file.tracks[i].id
  <2> DEFINE tracks == job.file.tracks
             column == job.answers[c]
  <2>1. ColumnFits(column, tracks)
    BY <1>2 DEF AllFit
  <2>2. /\ i \in DOMAIN tracks /\ Descriptor(tracks, i) \in DOMAIN column
        /\ Resolve(column, tracks)[i] = column[Descriptor(tracks, i)]
    BY <1>3 DEF Resolve
  <2> QED BY <1>2, <2>1, <2>2 DEF ColumnFits
<1> QED BY <1>3 DEF AppliesAsSaid

-----------------------------------------------------------------------------
(* A file nobody replaces                                                  *)

\* Its rows hold questions for a review.
Asking == Flagged(record.file, S, Given(record.answers, record.file)) # {}

\* Nobody has looked at it.
Blank ==
    /\ record.file.tracks = <<>> /\ DOMAIN flags = {} /\ DOMAIN asked = {}
    /\ \A c \in Columns : DOMAIN record.answers[c] = {}
    /\ job.pc = "idle" /\ queue \cap {"pending", "processing", "review"} = {}

InStep == Unfinished => record.file = disk.file \/ Blank
AskedIsReview == DOMAIN asked # {} => "review" \in queue
OneRow == ~({"pending", "review"} \subseteq queue)

\* The subtitle answers stay what they are while a job is being decided.
InJob == job.pc \in {"claimed", "decided", "running"}
SubsStay ==
    InJob => \A t \in Threads : eval[t].on =>
        ~eval[t].clear /\ eval[t].loaded.answers["subs"] = record.answers["subs"]

\* A job goes on only where there is no review, and none comes up meanwhile.
ReviewOrJob ==
    /\ job.pc = "claimed" =>
          ("review" \in queue => Asking) /\ ("pending" \in queue => ~Asking)
    /\ job.pc \in {"decided", "running"} => "review" \notin queue /\ ~Asking
    /\ job.pc \in {"swapped", "finishing"} => "review" \notin queue

RowsFit == InStep /\ AskedIsReview /\ OneRow /\ SubsStay /\ ReviewOrJob

\* Reviews are decided by the subtitle answers alone.
LEMMA SameQuestions ==
    ASSUME NEW f, NEW answers, NEW others, answers["subs"] = others["subs"]
    PROVE  Flagged(f, S, Given(answers, f)) = Flagged(f, S, Given(others, f))
<1>1. Given(answers, f).subs = Given(others, f).subs
  BY DEF Given
<1> QED BY <1>1 DEF Flagged, Images, Styled, Unanswered, Answered

\* What a decision makes of a file's rows.
LEMMA DecidedRows ==
    ASSUME AskedIsReview, OneRow, NEW f, NEW given
    PROVE  LET d == Decided(f, given)
           IN  /\ DOMAIN d.asked # {} => "review" \in d.queue
               /\ ~({"pending", "review"} \subseteq d.queue)
               /\ Flagged(f, S, given) # {} => "pending" \notin d.queue
               /\ Flagged(f, S, given) = {} /\ "processing" \in queue => d.queue \subseteq queue
<1> DEFINE d == Decided(f, given)
<1>1. CASE Flagged(f, S, given) # {}
  <2>1. d.queue = (queue \ {"pending"}) \cup {"review"}
    BY <1>1 DEF Decided
  <2> QED BY <1>1, <2>1
<1>2. CASE Flagged(f, S, given) = {}
  <2>1. \/ d.queue = queue \ {"review"} /\ d.asked = <<>>
        \/ d.queue = queue /\ d.asked = asked
        \/ /\ d.queue = (queue \ {"review", "failed"}) \cup {"pending"} /\ d.asked = <<>>
           /\ queue \cap {"pending", "processing"} = {}
    BY <1>2 DEF Decided
  <2>2. DOMAIN <<>> = {}
    OBVIOUS
  <2> HIDE DEF d
  <2>3. /\ DOMAIN d.asked # {} => "review" \in d.queue
        /\ ~({"pending", "review"} \subseteq d.queue)
        /\ "processing" \in queue => d.queue \subseteq queue
    BY <2>1, <2>2 DEF AskedIsReview, OneRow
  <2> QED BY <1>2, <2>3 DEF d
<1> QED BY <1>1, <1>2

\* The hypotheses of a step.
Untouched == Known /\ Clear /\ RowsFit /\ Gaps = {} /\ MaxReplaced = 0

\* An evaluation during a job decides as the job did: the rows and the subtitle
\* answers are those it saw.
LEMMA EvaluateKeepsRows ==
    ASSUME Untouched, NEW t \in Threads, Evaluate(t) PROVE RowsFit'
<1> DEFINE e == eval[t]
           file == disk.file
           forgets == e.clear \/ Forgets(e, file)
           loaded == IF forgets THEN NoAnswers ELSE e.loaded.answers
           given == Given(loaded, file)
           d == Decided(file, given)
<1>0. e.file = file
  BY ReadIsThere DEF Untouched, Known
<1>1. /\ record'.file = file
      /\ \A c \in Columns :
            record'.answers[c] = IF loaded[c] # e.loaded.answers[c] THEN <<>>
                                 ELSE record.answers[c]
      /\ queue' = d.queue /\ asked' = d.asked
      /\ Open /\ e.on /\ eval' = [eval EXCEPT ![t] = Nobody]
      /\ UNCHANGED <<case, disk, job>>
  BY <1>0 DEF Evaluate
<1>2. job.pc \notin {"decided", "swapped", "finishing"}
  BY <1>1 DEF Open, Untouched
<1>3. /\ DOMAIN d.asked # {} => "review" \in d.queue
      /\ ~({"pending", "review"} \subseteq d.queue)
      /\ Flagged(file, S, given) # {} => "pending" \notin d.queue
      /\ Flagged(file, S, given) = {} /\ "processing" \in queue => d.queue \subseteq queue
  BY DecidedRows DEF Untouched, RowsFit
<1>4. ASSUME InJob
      PROVE  /\ record'.answers["subs"] = record.answers["subs"]
             /\ Flagged(file, S, given) # {} <=> Asking
             /\ Asking' <=> Asking
  <2>1. record.file = file
    BY <1>2, <1>4 DEF Untouched, RowsFit, InStep, Blank, InJob, Unfinished
  <2>2. ~e.clear /\ e.loaded.answers["subs"] = record.answers["subs"]
    BY <1>1, <1>4 DEF Untouched, RowsFit, SubsStay
  <2>3. loaded = e.loaded.answers
    BY <2>1, <2>2 DEF Forgets
  <2>4. "subs" \in Columns
    BY DEF Columns
  <2> HIDE DEF e, loaded, forgets
  <2>5. record'.answers["subs"] = record.answers["subs"]
    BY <1>1, <2>3, <2>4
  <2>6. Flagged(file, S, given) = Flagged(file, S, Given(record.answers, file))
    BY <2>2, <2>3, SameQuestions
  <2>7. Flagged(file, S, Given(record'.answers, file))
          = Flagged(file, S, Given(record.answers, file))
    BY <2>5, SameQuestions
  <2> HIDE DEF file
  <2>8. Asking <=> Flagged(file, S, Given(record.answers, file)) # {}
    BY <2>1 DEF Asking
  <2>9. Asking' <=> Flagged(file, S, Given(record'.answers, file)) # {}
    BY <1>1 DEF Asking, S
  <2> QED BY <2>5, <2>6, <2>7, <2>8, <2>9
<1> HIDE DEF e, loaded, given, d, file
<1>5. InStep'
  BY <1>1 DEF InStep, file
<1>6. AskedIsReview' /\ OneRow'
  BY <1>1, <1>3 DEF AskedIsReview, OneRow
<1>7. SubsStay'
  <2>1. eval'[t].on = FALSE /\ \A u \in Threads \ {t} : eval'[u] = eval[u]
    BY <1>1 DEF Untouched, Known, IInv, EvalKnown, Nobody
  <2> QED BY <1>1, <1>4, <2>1 DEF Untouched, RowsFit, SubsStay, InJob
<1>8. ReviewOrJob'
  <2>1. InJob => "processing" \in queue
    BY DEF Untouched, Known, IInv, TypeOK, Running, InJob
  <2>2. CASE job.pc = "claimed"
    BY <1>1, <1>3, <1>4, <2>1, <2>2 DEF Untouched, RowsFit, ReviewOrJob, InJob
  <2>3. CASE job.pc = "running"
    BY <1>1, <1>3, <1>4, <2>1, <2>3 DEF Untouched, RowsFit, ReviewOrJob, InJob
  <2>4. CASE job.pc \notin {"claimed", "running"}
    BY <1>1, <1>2, <2>4 DEF ReviewOrJob
  <2> QED BY <2>2, <2>3, <2>4
<1> QED BY <1>5, <1>6, <1>7, <1>8 DEF RowsFit

\* Whether a review is due depends on the rows and the subtitle answers.
LEMMA AskingStays ==
    ASSUME record'.file = record.file, case' = case,
           record'.answers["subs"] = record.answers["subs"]
    PROVE  Asking' <=> Asking
<1>1. Flagged(record.file, S, Given(record'.answers, record.file))
        = Flagged(record.file, S, Given(record.answers, record.file))
  BY SameQuestions
<1> QED BY <1>1 DEF Asking, S

\* An evaluation that begins holds the answers as they are.
BegunPlain ==
    \A t \in Threads : eval'[t].on =>
        \/ GoesOn(t)
        \/ ~eval'[t].clear /\ eval'[t].loaded.answers = record.answers

\* While the subtitle answers stay, evaluations go on holding them.
LEMMA SubsKept ==
    ASSUME Untouched, BegunPlain, record'.answers["subs"] = record.answers["subs"],
           InJob' => InJob
    PROVE  SubsStay'
  BY DEF Untouched, RowsFit, SubsStay, BegunPlain, GoesOn

\* An evaluation that does not forget starts from the answers there are.
LEMMA PlainBegins ==
    ASSUME IInv, NEW t \in Threads, NEW rec, rec.answers = record.answers,
           \/ eval' = eval \/ eval' = [eval EXCEPT ![t] = Started(rec, FALSE)]
           \/ \E mark : eval' = [eval EXCEPT ![t] = [Started(rec, FALSE) EXCEPT !.again = mark]]
    PROVE  BegunPlain
  BY DEF IInv, EvalKnown, BegunPlain, GoesOn, Started

\* Where rows, questions and the job's place are left, all is.
LEMMA RowsStay ==
    ASSUME Untouched, record'.file = record.file, record'.answers = record.answers,
           UNCHANGED <<case, disk, queue, asked, flags>>, job'.pc = job.pc, BegunPlain
    PROVE  RowsFit'
<1>1. SubsStay'
  BY SubsKept DEF InJob
<1>2. Asking' <=> Asking
  BY AskingStays
<1> QED BY <1>1, <1>2 DEF Untouched, RowsFit, InStep, Unfinished, Blank, AskedIsReview, OneRow,
           ReviewOrJob

\* A scan only begins an evaluation.
LEMMA ScanKeepsRows == ASSUME Untouched, NEW force, Scan(force) PROVE RowsFit'
<1>1. UNCHANGED <<case, disk, record, queue, flags, asked, job>>
      /\ eval' = [eval EXCEPT !["scan"] = Started(record, FALSE)]
  BY DEF Scan
<1>2. BegunPlain
  BY <1>1, PlainBegins DEF Untouched, Known, Threads
<1> QED BY <1>1, <1>2, RowsStay

\* A language answer takes rows back only where no job is at work.
LEMMA FollowKeepsRows == ASSUME Untouched, Follow PROVE RowsFit'
<1>1. /\ record'.file = record.file /\ record'.answers = record.answers
      /\ UNCHANGED <<case, disk, flags, job>>
  BY DEF Follow, Untouched, Known, IInv, RecordShaped
<1>2. CASE Deferred
  <2>1. UNCHANGED <<queue, asked, eval>>
    BY <1>2 DEF Follow
  <2>2. BegunPlain
    BY <2>1 DEF BegunPlain, GoesOn
  <2> QED BY <1>1, <2>1, <2>2, RowsStay
<1>3. CASE ~Deferred
  <2>1. /\ queue' = queue \ {"pending", "review"} /\ asked' = <<>>
        /\ eval' = [eval EXCEPT !["user"] = Started(record, FALSE)]
    BY <1>3 DEF Follow
  <2>2. ~InJob /\ job.pc \notin {"swapped", "finishing"}
    BY <1>3 DEF Deferred, InJob, Untouched, Known, IInv, TypeOK
  <2>3. SubsStay' /\ ReviewOrJob'
    BY <1>1, <2>2 DEF SubsStay, ReviewOrJob, InJob
  <2>4. InStep'
    BY <1>1, <2>1, <2>2 DEF Untouched, RowsFit, InStep, Unfinished, Blank
  <2>5. DOMAIN <<>> = {}
    OBVIOUS
  <2> QED BY <2>1, <2>3, <2>4, <2>5 DEF RowsFit, AskedIsReview, OneRow
<1> QED BY <1>2, <1>3

\* And so for an evaluation that forgets the answers.
LEMMA AskAgainKeepsRows == ASSUME Untouched, AskAgain PROVE RowsFit'
<1>1. UNCHANGED <<case, disk, record, queue, flags, asked, job>> /\ ~Running
  BY DEF AskAgain
<1>2. ~InJob
  BY <1>1 DEF InJob, Untouched, Known, IInv, TypeOK
<1>3. Asking' <=> Asking
  BY <1>1, AskingStays
<1> QED BY <1>1, <1>2, <1>3 DEF Untouched, RowsFit, InStep, Unfinished, Blank, AskedIsReview,
           OneRow, SubsStay, InJob, ReviewOrJob

\* A row that is cancelled takes its questions with it.
LEMMA CancelKeepsRows == ASSUME Untouched, CancelItem PROVE RowsFit'
<1>1. /\ record'.file = record.file /\ record'.answers = record.answers
      /\ UNCHANGED <<case, disk, flags, eval, job>>
  BY DEF CancelItem, Untouched, Known, IInv, RecordShaped
<1>2. PICK row \in queue \cap {"pending", "review"} :
         /\ queue' = queue \ {row}
         /\ asked' = IF row = "review" THEN <<>> ELSE asked
  BY DEF CancelItem
<1>3. SubsStay'
  BY <1>1, SubsKept DEF InJob, BegunPlain, GoesOn
<1>4. Asking' <=> Asking
  BY <1>1, AskingStays
<1>5. InStep'
  BY <1>1, <1>2 DEF Untouched, RowsFit, InStep, Unfinished, Blank
<1>6. DOMAIN <<>> = {}
  OBVIOUS
<1>7. AskedIsReview' /\ OneRow'
  BY <1>2, <1>6 DEF Untouched, RowsFit, AskedIsReview, OneRow
<1>8. ReviewOrJob'
  BY <1>1, <1>2, <1>4 DEF Untouched, RowsFit, ReviewOrJob
<1> QED BY <1>3, <1>5, <1>7, <1>8 DEF RowsFit

\* A review can be answered only before the job is decided, and its answer leaves
\* the review or makes way for a job.
LEMMA ReviewKeepsRows == ASSUME Untouched, AnswerReview PROVE RowsFit'
<1>1. PICK answers, given :
         /\ record' = [record EXCEPT !.answers = answers]
         /\ given = Given(answers, record.file)
         /\ IF Flagged(record.file, S, given) # {}
            THEN asked' = Questions(record.file, given) /\ UNCHANGED queue
            ELSE /\ asked' = <<>>
                 /\ \/ queue' = queue \ {"review"}
                    \/ queue' = (queue \ {"review"}) \cup {"pending"}
  BY DEF AnswerReview
<1>2. /\ "review" \in queue /\ Undisturbed
      /\ UNCHANGED <<case, disk, eval, job>>
  BY DEF AnswerReview, Requested
<1>3. record'.file = record.file /\ record'.answers = answers
  BY <1>1 DEF Untouched, Known, IInv, RecordShaped
<1>4. Asking' <=> Flagged(record.file, S, given) # {}
  BY <1>1, <1>2, <1>3 DEF Asking, S
<1>5. job.pc \notin {"decided", "running", "swapped", "finishing"}
  BY <1>2 DEF Untouched, RowsFit, ReviewOrJob
<1>6. SubsStay'
  BY <1>2 DEF SubsStay, Undisturbed, Untouched
<1>7. InStep'
  <2>1. record.file = disk.file
    BY <1>2, <1>5 DEF Untouched, RowsFit, InStep, Unfinished, Blank
  <2> QED BY <1>2, <1>3, <2>1 DEF InStep
<1>8. DOMAIN <<>> = {}
  OBVIOUS
<1>9. AskedIsReview' /\ OneRow'
  BY <1>1, <1>2, <1>8 DEF Untouched, RowsFit, AskedIsReview, OneRow
<1>10. ReviewOrJob'
  <2>1. "pending" \notin queue
    BY <1>2 DEF Untouched, RowsFit, OneRow
  <2> QED BY <1>1, <1>2, <1>4, <1>5, <2>1 DEF ReviewOrJob
<1> QED BY <1>6, <1>7, <1>9, <1>10 DEF RowsFit

\* A probe only reads,
LEMMA ProbeKeepsRows == ASSUME Untouched, NEW t \in Threads, Probe(t) PROVE RowsFit'
<1>1. UNCHANGED <<case, disk, record, queue, flags, asked, job>>
  BY DEF Probe
<1>2. BegunPlain
  BY ProbeGoesOn DEF BegunPlain, Untouched, Known
<1> QED BY <1>1, <1>2, RowsStay

\* and so does a language answer at first;
LEMMA LanguageKeepsRows == ASSUME Untouched, SetLanguage PROVE RowsFit'
<1>1. UNCHANGED <<case, disk, record, queue, flags, asked, eval, job>>
  BY DEF SetLanguage
<1>2. BegunPlain
  BY <1>1 DEF BegunPlain, GoesOn
<1> QED BY <1>1, <1>2, RowsStay

\* it leaves the subtitle answers when it is stored
LEMMA StoreKeepsRows == ASSUME Untouched, Store PROVE RowsFit'
<1>1. /\ record' = [record EXCEPT !.answers[request.column] =
                                       Updated(request.was, request.told)]
      /\ UNCHANGED <<case, disk, flags, queue, asked, eval, job>> /\ request.pc = "read"
  BY DEF Store
<1>2. PICK i \in DOMAIN flags : request = Reply(i)
  BY <1>1 DEF Untouched, Known, Replying
<1>3. request.column \in {"audioLang", "subLang"}
  BY <1>2 DEF Reply
<1>4. record'.file = record.file /\ record'.answers["subs"] = record.answers["subs"]
  BY <1>1, <1>3 DEF Untouched, Known, IInv, RecordShaped, TypeOK, Columns
<1>5. Asking' <=> Asking
  BY <1>1, <1>4, AskingStays
<1>6. SubsStay'
  BY <1>1 DEF SubsStay, Untouched, Known, Replying
<1>7. InStep'
  <2>1. Unfinished => record.file = disk.file
    BY <1>2 DEF Untouched, RowsFit, InStep, Blank
  <2> QED BY <1>1, <1>4, <2>1 DEF InStep, Unfinished
<1> QED BY <1>1, <1>5, <1>6, <1>7 DEF Untouched, RowsFit, AskedIsReview, OneRow, ReviewOrJob

\* and the rest when its question goes.
LEMMA SettleKeepsRows == ASSUME Untouched, Settle PROVE RowsFit'
<1>1. /\ UNCHANGED <<case, disk, record, queue, asked, eval, job>>
      /\ DOMAIN flags' \subseteq DOMAIN flags
  BY DEF Settle
<1>2. SubsStay'
  BY <1>1, SubsKept DEF InJob, BegunPlain, GoesOn
<1>3. Asking' <=> Asking
  BY <1>1, AskingStays
<1> QED BY <1>1, <1>2, <1>3 DEF Untouched, RowsFit, InStep, Unfinished, Blank, AskedIsReview,
           OneRow, ReviewOrJob

\* A row that is claimed has no review beside it, and nothing is being evaluated.
LEMMA ClaimKeepsRows == ASSUME Untouched, Claim PROVE RowsFit'
<1>1. /\ "pending" \in queue /\ queue' = (queue \ {"pending"}) \cup {"processing"}
      /\ job.pc = "idle" /\ job'.pc = "claimed" /\ Undisturbed
      /\ UNCHANGED <<case, disk, record, flags, asked, eval>>
  BY DEF Claim, NoJob
<1>2. "review" \notin queue
  BY <1>1 DEF Untouched, RowsFit, OneRow
<1>3. InStep'
  BY <1>1 DEF Untouched, RowsFit, InStep, Unfinished, Blank
<1>4. SubsStay'
  BY <1>1 DEF SubsStay, Undisturbed, Untouched
<1> QED BY <1>1, <1>2, <1>3, <1>4 DEF Untouched, RowsFit, AskedIsReview, OneRow, ReviewOrJob

\* A job goes on past its load only if no review is due.
LEMMA LoadKeepsRows == ASSUME Untouched, Load PROVE RowsFit'
<1> DEFINE file == record.file
           given == Given(record.answers, file)
<1>1. job.pc = "claimed" /\ UNCHANGED <<case, disk, record>>
  BY DEF Load
<1>2. record.file = disk.file
  BY <1>1 DEF Untouched, RowsFit, InStep, Unfinished, Blank
<1>3. Matches
  BY <1>2 DEF Matches
<1>4. \/ /\ Flagged(file, S, given) # {} /\ queue' = Ended \cup {"review"}
         /\ asked' = Questions(file, given) /\ job'.pc = "idle"
      \/ /\ Flagged(file, S, given) = {} /\ queue' = Ended /\ asked' = asked
         /\ job'.pc = "idle"
      \/ /\ Flagged(file, S, given) = {} /\ queue' = queue /\ asked' = asked
         /\ job'.pc = "decided" /\ eval' = eval
  <2>1. NoJob.pc = "idle"
    BY DEF NoJob
  <2>2. \A a, b : [pc |-> "decided", file |-> a, answers |-> b].pc = "decided"
    OBVIOUS
  <2> QED BY <1>3, <2>1, <2>2 DEF Load
<1>5. (Asking <=> Flagged(file, S, given) # {}) /\ (Asking' <=> Asking)
  BY <1>1, AskingStays DEF Asking
<1> HIDE DEF given
<1>6. /\ "review" \in queue => Asking
      /\ "pending" \in queue => ~Asking
  BY <1>1 DEF Untouched, RowsFit, ReviewOrJob
<1>7. InStep'
  BY <1>1, <1>2 DEF InStep
<1>8. AskedIsReview' /\ OneRow'
  BY <1>4, <1>5, <1>6 DEF Untouched, RowsFit, AskedIsReview, OneRow, Ended
<1>9. SubsStay'
  BY <1>1, <1>4 DEF Untouched, RowsFit, SubsStay, InJob
<1>10. ReviewOrJob'
  BY <1>4, <1>5, <1>6 DEF ReviewOrJob
<1> QED BY <1>7, <1>8, <1>9, <1>10 DEF RowsFit

\* No more has changed at its fingerprint,
LEMMA FingerprintKeepsRows == ASSUME Untouched, Fingerprint PROVE RowsFit'
<1>1. /\ job.pc = "decided" /\ job'.pc = "running"
      /\ UNCHANGED <<case, disk, record, flags, queue, asked, eval>>
  BY DEF Fingerprint
<1>2. Asking' <=> Asking
  BY <1>1, AskingStays
<1> QED BY <1>1, <1>2 DEF Untouched, RowsFit, InStep, Unfinished, Blank, AskedIsReview, OneRow,
           SubsStay, InJob, ReviewOrJob

\* nor at its swap.
LEMMA SwapKeepsRows == ASSUME Untouched, Swap PROVE RowsFit'
<1>1. /\ job.pc = "running" /\ job'.pc = "swapped"
      /\ UNCHANGED <<record, flags, queue, asked, eval>>
  BY DEF Swap, Untouched, Known, JobKnown
<1> QED BY <1>1 DEF Untouched, RowsFit, InStep, Unfinished, AskedIsReview, OneRow,
           SubsStay, InJob, ReviewOrJob

\* A job that ends before its swap.
LEMMA StopKeepsRows == ASSUME Untouched, StopForChange \/ Fail PROVE RowsFit'
<1>1. /\ job.pc = "running" /\ job'.pc = "idle" /\ UNCHANGED <<disk, asked>>
      /\ queue' = Ended \/ queue' = Ended \cup {"failed"}
  <2>1. NoJob.pc = "idle"
    BY DEF NoJob
  <2>2. CASE StopForChange BY <2>1, <2>2 DEF StopForChange
  <2>3. CASE Fail BY <2>1, <2>3 DEF Fail
  <2> QED BY <2>2, <2>3
<1>2. record'.file = record.file
  BY DEF StopForChange, Fail, Untouched, Known, IInv, RecordShaped
<1>3. record.file = disk.file
  BY <1>1 DEF Untouched, RowsFit, InStep, Unfinished, Blank
<1> QED BY <1>1, <1>2, <1>3 DEF Untouched, RowsFit, InStep, AskedIsReview, OneRow, Ended,
           SubsStay, InJob, ReviewOrJob

\* Between swap and end nobody adds a row.
LEMMA FinishReadKeepsRows == ASSUME Untouched, FinishRead PROVE RowsFit'
<1>1. job.pc = "swapped" /\ job'.pc = "finishing" /\ UNCHANGED <<queue, asked>>
  BY DEF FinishRead
<1> QED BY <1>1 DEF Untouched, RowsFit, InStep, Unfinished, AskedIsReview, OneRow, SubsStay,
           InJob, ReviewOrJob

\* At its end the rows are those of its output.
LEMMA FinishWriteKeepsRows == ASSUME Untouched, FinishWrite PROVE RowsFit'
<1>1. job'.pc = "ended" /\ UNCHANGED <<disk, asked>> /\ queue' = Ended
  BY DEF FinishWrite
<1>2. record'.file = disk.file
  BY DEF FinishWrite, RowsRead, Untouched, Known, IInv, RecordShaped
<1> QED BY <1>1, <1>2 DEF Untouched, RowsFit, InStep, AskedIsReview, OneRow, Ended, SubsStay,
           InJob, ReviewOrJob

\* What follows leaves them.
LEMMA AfterKeepsRows == ASSUME Untouched, After PROVE RowsFit'
<1>1. /\ job.pc = "ended" /\ job'.pc = "idle"
      /\ UNCHANGED <<disk, record, queue, asked>>
  BY DEF After, NoJob
<1>2. record.file = disk.file
  BY <1>1 DEF Untouched, RowsFit, InStep, Unfinished, Blank
<1> QED BY <1>1, <1>2 DEF Untouched, RowsFit, InStep, AskedIsReview, OneRow, SubsStay, InJob,
           ReviewOrJob

\* A file nobody replaces and its rows stay in step.
LEMMA RowsHold ==
    ASSUME Gaps = {}, MaxReplaced = 0
    PROVE  Init /\ [][Next]_vars => [](Clear => RowsFit)
<1>1. Init => RowsFit
  <2> SUFFICES ASSUME Init PROVE RowsFit
    OBVIOUS
  <2>1. /\ DOMAIN flags = {} /\ DOMAIN asked = {} /\ queue = {} /\ job.pc = "idle"
        /\ \A c \in Columns : DOMAIN record.answers[c] = {}
    BY DEF Init, NoJob, NoAnswers
  <2>2. record.file.tracks = <<>>
    <3>1. IsFile(case.file) /\ record.file = [case.file EXCEPT !.tracks = <<>>]
      BY CasesGiven DEF Init
    <3> QED BY <3>1 DEF IsFile, FileFields
  <2> QED BY <2>1, <2>2 DEF RowsFit, InStep, Blank, AskedIsReview, OneRow, SubsStay, InJob,
             ReviewOrJob
<1>2. ASSUME Known, Clear => RowsFit, [Next]_vars, Clear' PROVE RowsFit'
  <2>0. Untouched /\ ~FinishUnread
    BY <1>2, ClearBefore DEF Untouched, Known
  <2>1. CASE UNCHANGED vars
    <3>1. BegunPlain
      BY <2>1 DEF vars, BegunPlain, GoesOn
    <3> QED BY <2>0, <2>1, <3>1, RowsStay DEF vars
  <2>2. ~Replaced
    BY <1>2 DEF Replaced, Known, IInv, UsedShaped
  <2>3. ASSUME NEW t \in Threads, Evaluate(t) PROVE RowsFit'
    BY <2>0, <2>3, EvaluateKeepsRows
  <2>4. ASSUME NEW force \in BOOLEAN, Scan(force) PROVE RowsFit'
    BY <2>0, <2>4, ScanKeepsRows
  <2>5. CASE AnswerReview BY <2>0, <2>5, ReviewKeepsRows
  <2>6. CASE SetLanguage BY <2>0, <2>6, LanguageKeepsRows
  <2>7. CASE Follow BY <2>0, <2>7, FollowKeepsRows
  <2>8. CASE AskAgain BY <2>0, <2>8, AskAgainKeepsRows
  <2>9. CASE CancelItem BY <2>0, <2>9, CancelKeepsRows
  <2>10. CASE Claim BY <2>0, <2>10, ClaimKeepsRows
  <2>11. CASE Load BY <2>0, <2>11, LoadKeepsRows
  <2>12. CASE Fingerprint BY <2>0, <2>12, FingerprintKeepsRows
  <2>13. CASE Swap BY <2>0, <2>13, SwapKeepsRows
  <2>14. CASE StopForChange \/ Fail BY <2>0, <2>14, StopKeepsRows
  <2>15. CASE FinishRead BY <2>0, <2>15, FinishReadKeepsRows
  <2>16. CASE FinishWrite BY <2>0, <2>16, FinishWriteKeepsRows
  <2>17. CASE After BY <2>0, <2>17, AfterKeepsRows
  <2>18. ASSUME NEW t \in Threads, Probe(t) PROVE RowsFit'
    BY <2>0, <2>18, ProbeKeepsRows
  <2>19. CASE Store BY <2>0, <2>19, StoreKeepsRows
  <2>20. CASE Settle BY <2>0, <2>20, SettleKeepsRows
  <2> QED BY <1>2, <2>0, <2>1, <2>2, <2>3, <2>4, <2>5, <2>6, <2>7, <2>8, <2>9, <2>10, <2>11,
             <2>12, <2>13, <2>14, <2>15, <2>16, <2>17, <2>18, <2>19, <2>20 DEF Next
<1> QED BY <1>1, <1>2, KnownHolds, PTL

\* There looks tell, and reviews are settled.
LEMMA InStepTells ==
    ASSUME Known, Clear => RowsFit PROVE LooksTell /\ Settled
<1> SUFFICES ASSUME Clear PROVE LooksTell /\ Settled
  BY DEF LooksTell, Settled
<1>1. ASSUME Matches, record.file.tracks = <<>> PROVE Alike
  <2>1. DOMAIN disk.file.tracks = {}
    <3>1. DOMAIN TrackShapes(record.file.tracks) = DOMAIN record.file.tracks
          /\ DOMAIN TrackShapes(disk.file.tracks) = DOMAIN disk.file.tracks
      BY DEF TrackShapes
    <3>2. DOMAIN <<>> = {}
      OBVIOUS
    <3> QED BY <1>1, <3>1, <3>2 DEF Matches
  <2>2. disk.file.tracks \in Seq(Range(disk.file.tracks))
    BY DEF Known, FilesKnown, IsFile
  <2>3. disk.file.tracks = <<>>
    <3> DEFINE tracks == disk.file.tracks
               T == Range(tracks)
    <3>1. tracks \in Seq(T) /\ DOMAIN tracks = {}
      BY <2>1, <2>2
    <3> HIDE DEF tracks, T
    <3>2. Len(tracks) \in Nat /\ DOMAIN tracks = 1 .. Len(tracks)
      BY <3>1
    <3>3. Len(tracks) = 0
      BY <3>1, <3>2
    <3>4. tracks = <<>>
      BY <3>1, <3>3
    <3> QED BY <3>4 DEF tracks
  <2> QED BY <1>1, <2>3 DEF Alike
<1>2. LooksTell
  BY <1>1 DEF LooksTell, RowsFit, InStep, Blank, Alike
<1>3. job.pc = "finishing" => DOMAIN asked = {}
  BY DEF RowsFit, AskedIsReview, ReviewOrJob
<1>4. Settled
  BY <1>3 DEF Settled, RowsFit, InStep, Blank, Alike
<1> QED BY <1>2, <1>4

\* A file nobody replaces keeps its questions and answers with their tracks.
LEMMA UntouchedFits ==
    ASSUME Gaps = {}, MaxReplaced = 0
    PROVE  Spec => [](Known /\ (Clear => Fits))
<1>1. Known /\ (Clear => RowsFit) => LooksTell /\ Settled
  BY InStepTells
<1> QED BY <1>1, FitsHold, RowsHold, KnownHolds, PTL DEF Spec

\* What fits as a job swaps its output in is what AnswersFit asks for.
LEMMA StepApplies ==
    Known /\ (Clear => Fits) /\ [Next]_vars
        => [job.pc = "running" /\ job'.pc = "swapped" /\ used.unread = 0 => AppliesAsSaid]_vars
  BY SwapApplies DEF Clear

\* And at any time, what QuestionsFit asks for.
LEMMA KnownFits == Known /\ (Clear => Fits) => (used.unread = 0 => QuestionsFit)
  BY FitTells DEF Clear

\* Of a file nobody replaces, a question always names the track it was raised for,
\* through every job, scan and answer, as long as every output could be read.
THEOREM QuestionsKept ==
    ASSUME Gaps = {}, MaxReplaced = 0
    PROVE  Spec => [](used.unread = 0 => QuestionsFit)
  BY UntouchedFits, KnownFits, PTL

\* And no job applies an answer to a track it was not given for.
THEOREM AnswersKept == ASSUME Gaps = {}, MaxReplaced = 0 PROVE Spec => AnswersFit
  BY UntouchedFits, StepApplies, PTL DEF Spec, AnswersFit

-----------------------------------------------------------------------------
(* A file without reviews, replaced by one that looks another               *)

\* No case has a subtitle review.
ReviewsOff ==
    \A c \in Cases :
        /\ c.settings.images # "always_ask"
        /\ c.settings.fonts = "always_ask" => ~c.file.fonts /\ ~c.other.fonts

HasNone(f) == S.fonts = "always_ask" => ~f.fonts

NoneAsked ==
    /\ DOMAIN asked = {}
    /\ HasNone(disk.file) /\ HasNone(record.file)
    /\ job.pc \in {"decided", "running"} => HasNone(job.file)

\* No review is due of a file that none can be raised for.
LEMMA NoneFlagged ==
    ASSUME ReviewsOff, case \in Cases, NEW f, HasNone(f), NEW given
    PROVE  Flagged(f, S, given) = {}
  BY DEF ReviewsOff, HasNone, S, Flagged, Styled

\* And none of its outputs or replacements has one either.
LEMMA NoneAskedHolds ==
    ASSUME Gaps = {}, ReviewsOff PROVE Init /\ [][Next]_vars => []NoneAsked
<1>1. Init => NoneAsked
  <2> SUFFICES ASSUME Init PROVE NoneAsked
    OBVIOUS
  <2>1. /\ IsFile(case.file) /\ record.file = [case.file EXCEPT !.tracks = <<>>]
        /\ case \in Cases /\ disk.file = case.file /\ asked = <<>> /\ job.pc = "idle"
    BY CasesGiven DEF Init, NoJob
  <2>2. record.file.fonts = case.file.fonts
    BY <2>1 DEF IsFile, FileFields
  <2> QED BY <2>1, <2>2 DEF NoneAsked, HasNone, ReviewsOff, S
<1>2. ASSUME Known, NoneAsked, [Next]_vars PROVE NoneAsked'
  <2>0. case' = case /\ case \in Cases
    <3>1. case \in Cases
      BY <1>2 DEF Known, IInv, TypeOK
    <3>2. ASSUME NEW t \in Threads, Probe(t) \/ Evaluate(t) PROVE case' = case
      BY <3>2 DEF Probe, Evaluate
    <3>3. ASSUME NEW force, Replaced \/ Scan(force) PROVE case' = case
      BY <3>3 DEF Replaced, Scan
    <3>4. Store \/ Settle \/ Follow => case' = case
      BY DEF Store, Settle, Follow
    <3>5. AnswerReview \/ SetLanguage \/ AskAgain \/ CancelItem => case' = case
      BY DEF AnswerReview, SetLanguage, AskAgain, CancelItem
    <3>6. Claim \/ Load \/ Fingerprint \/ Swap \/ StopForChange \/ Fail => case' = case
      BY DEF Claim, Load, Fingerprint, Swap, StopForChange, Fail
    <3>7. FinishRead \/ FinishWrite \/ FinishUnread \/ After => case' = case
      BY DEF FinishRead, FinishWrite, FinishUnread, After
    <3>8. UNCHANGED vars => case' = case
      BY DEF vars
    <3> QED BY <1>2, <3>1, <3>2, <3>3, <3>4, <3>5, <3>6, <3>7, <3>8 DEF Next
  <2>f. ASSUME NEW f, HasNone(f), NEW given
        PROVE  Flagged(f, S, given) = {} /\ DOMAIN Questions(f, given) = {}
    BY <2>0, <2>f, NoneFlagged DEF Questions
  <2>u. ASSUME DOMAIN asked' = {}, disk'.file = disk.file,
               record'.file \in {record.file, disk.file},
               job'.pc \in {"decided", "running"} => HasNone(job'.file)
        PROVE  NoneAsked'
    BY <1>2, <2>0, <2>u DEF NoneAsked, HasNone, S
  <2>j. job.pc \in {"decided", "running"} => HasNone(job.file)
    BY <1>2 DEF NoneAsked
  <2>e. DOMAIN <<>> = {} /\ DOMAIN asked = {}
    BY <1>2 DEF NoneAsked
  <2>1. CASE UNCHANGED vars
    BY <2>1, <2>u, <2>j, <2>e DEF vars
  <2>2. CASE Replaced
    <3>1. disk'.file = case.other /\ UNCHANGED <<record, asked, job>>
      BY <2>2 DEF Replaced
    <3> QED BY <1>2, <2>0, <3>1 DEF NoneAsked, HasNone, ReviewsOff, S
  <2>3. ASSUME NEW t \in Threads, Evaluate(t) PROVE NoneAsked'
    <3>0. eval[t].file = disk.file
      BY <1>2, <2>3, ReadIsThere DEF Known
    <3>1. PICK given : asked' = Decided(disk.file, given).asked
      BY <2>3, <3>0 DEF Evaluate
    <3>2. record'.file = disk.file /\ UNCHANGED <<disk, job>>
      BY <2>3, <3>0 DEF Evaluate
    <3>3. Flagged(disk.file, S, given) = {}
      BY <1>2, <2>f DEF NoneAsked
    <3>4. Decided(disk.file, given).asked \in {<<>>, asked}
      BY <3>3 DEF Decided
    <3> QED BY <2>u, <2>j, <2>e, <3>1, <3>2, <3>4
  <2>4. ASSUME NEW force \in BOOLEAN, Scan(force) PROVE NoneAsked'
    BY <2>4, <2>u, <2>j, <2>e DEF Scan
  <2>5. CASE AnswerReview
    <3>1. "review" \notin queue
      BY <1>2, <2>e DEF Known, IInv, TypeOK
    <3> QED BY <2>5, <3>1 DEF AnswerReview
  <2>20. ASSUME NEW t \in Threads, Probe(t) PROVE NoneAsked'
    BY <2>20, <2>u, <2>j, <2>e DEF Probe
  <2>6. CASE SetLanguage
    BY <2>6, <2>u, <2>j, <2>e DEF SetLanguage
  <2>21. CASE Store
    <3>1. record'.file = record.file /\ UNCHANGED <<disk, asked, job>>
      <4>1. PICK column, answers :
               /\ record' = [record EXCEPT !.answers[column] = answers]
               /\ UNCHANGED <<disk, asked, job>>
        BY <2>21 DEF Store
      <4> QED BY <1>2, <4>1 DEF Known, IInv, RecordShaped
    <3> QED BY <2>u, <2>j, <2>e, <3>1
  <2>22. CASE Settle
    BY <2>22, <2>u, <2>j, <2>e DEF Settle
  <2>7. CASE Follow
    <3>1. record'.file = record.file /\ UNCHANGED <<disk, job>> /\ asked' \in {asked, <<>>}
      BY <1>2, <2>7 DEF Follow, Known, IInv, RecordShaped
    <3> QED BY <2>u, <2>j, <2>e, <3>1
  <2>8. CASE AskAgain
    BY <2>8, <2>u, <2>j, <2>e DEF AskAgain
  <2>9. CASE CancelItem
    <3>1. record'.file = record.file /\ UNCHANGED <<disk, job>> /\ asked' \in {asked, <<>>}
      BY <1>2, <2>9 DEF CancelItem, Known, IInv, RecordShaped
    <3> QED BY <2>u, <2>j, <2>e, <3>1
  <2>10. CASE Claim
    BY <2>10, <2>u, <2>e DEF Claim
  <2>11. CASE Load
    <3> DEFINE given == Given(record.answers, record.file)
    <3>1. UNCHANGED <<disk, record>> /\ asked' \in {asked, Questions(record.file, given)}
      BY <2>11 DEF Load
    <3>2. \/ job'.pc = "idle"
          \/ job' = [pc |-> "decided", file |-> record.file, answers |-> record.answers]
      <4>1. \/ job' = NoJob
            \/ job' = [pc |-> "decided", file |-> record.file, answers |-> record.answers]
        BY <2>11 DEF Load
      <4>2. NoJob.pc = "idle"
        BY DEF NoJob
      <4> QED BY <4>1, <4>2
    <3>3. HasNone(record.file)
      BY <1>2 DEF NoneAsked
    <3>4. DOMAIN Questions(record.file, given) = {}
      BY <2>f, <3>3
    <3> HIDE DEF given
    <3> QED BY <2>u, <2>e, <3>1, <3>2, <3>3, <3>4
  <2>12. CASE Fingerprint
    <3>1. job.pc = "decided" /\ job'.file = job.file /\ UNCHANGED <<disk, record, asked>>
      BY <2>12 DEF Fingerprint
    <3> QED BY <2>u, <2>j, <2>e, <3>1
  <2>13. CASE Swap
    <3>1. /\ job.pc = "running" /\ disk'.file = Output(job.file, S, Planned)
          /\ UNCHANGED <<record, asked>>
      BY <2>13 DEF Swap
    <3>2. job'.pc = "swapped"
      BY <1>2, <2>13 DEF Swap, Known, JobKnown
    <3>3. Output(job.file, S, Planned).fonts => job.file.fonts
      BY DEF Output
    <3> QED BY <1>2, <2>0, <2>j, <3>1, <3>2, <3>3 DEF NoneAsked, HasNone, S
  <2>14. CASE StopForChange
    <3>1. record'.file = record.file /\ UNCHANGED <<disk, asked>> /\ job'.pc = "idle"
      BY <1>2, <2>14 DEF StopForChange, NoJob, Known, IInv, RecordShaped
    <3> QED BY <2>u, <2>e, <3>1
  <2>15. CASE Fail
    BY <2>15, <2>u, <2>e DEF Fail, NoJob
  <2>16. CASE FinishRead
    BY <2>16, <2>u, <2>e DEF FinishRead
  <2>17. CASE FinishWrite
    <3>1. record'.file = disk.file /\ UNCHANGED <<disk, asked>> /\ job'.pc = "ended"
      BY <1>2, <2>17 DEF FinishWrite, RowsRead, Known, IInv, RecordShaped
    <3> QED BY <2>u, <2>e, <3>1
  <2>18. CASE After
    BY <2>18, <2>u, <2>e DEF After, NoJob
  <2>19. CASE FinishUnread
    <3>1. record'.file = record.file /\ UNCHANGED <<disk, asked>> /\ job'.pc = "ended"
      BY <1>2, <2>19 DEF FinishUnread, Known, IInv, RecordShaped
    <3> QED BY <2>u, <2>e, <3>1
  <2> QED BY <1>2, <2>1, <2>2, <2>3, <2>4, <2>5, <2>6, <2>7, <2>8, <2>9, <2>10, <2>11,
             <2>12, <2>13, <2>14, <2>15, <2>16, <2>17, <2>18, <2>19,
             <2>20, <2>21, <2>22 DEF Next
<1> QED BY <1>1, <1>2, KnownHolds, PTL

\* Such a file keeps questions and answers with their tracks if looks tell.
LEMMA UnaskedFits ==
    ASSUME Gaps = {}, ReviewsOff
    PROVE  Spec /\ []LooksTell => [](Known /\ (Clear => Fits))
<1>1. ASSUME Known, NoneAsked PROVE Settled
  <2>1. Flagged(disk.file, S, Given(NoAnswers, disk.file)) = {}
    BY <1>1, NoneFlagged DEF Known, IInv, TypeOK, NoneAsked
  <2> QED BY <1>1, <2>1 DEF Settled, NoneAsked
<1> QED BY <1>1, FitsHold, NoneAskedHolds, KnownHolds, PTL DEF Spec

\* The same of a file that is replaced any number of times, where no subtitle
\* review is raised and a replacement never has the shapes and languages of the
\* rows it makes stale: with two alike nothing in the code could tell.
THEOREM QuestionsOutlive ==
    ASSUME Gaps = {}, ReviewsOff
    PROVE  Spec /\ []LooksTell => [](used.unread = 0 => QuestionsFit)
  BY UnaskedFits, KnownFits, PTL

THEOREM AnswersOutlive ==
    ASSUME Gaps = {}, ReviewsOff PROVE Spec /\ []LooksTell => AnswersFit
  BY UnaskedFits, StepApplies, PTL DEF Spec, AnswersFit
=============================================================================
