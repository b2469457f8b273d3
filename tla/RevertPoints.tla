---------------------------- MODULE RevertPoints ----------------------------
(***************************************************************************)
(* The recycle bin: one file rewritten by queue jobs and AC3 Forge runs,   *)
(* the point each of them captures before it swaps, and the revert.        *)
(*                                                                         *)
(* A stream is what ffprobe says of it and, in `id` and `lossy`, what it   *)
(* really is: the bytes of which original, or a re-encode of them.  No     *)
(* step of the code reads those two.  Writers take turns (FileWriters).    *)
(***************************************************************************)
EXTENDS Integers, Sequences, FiniteSets, SequencesExt, StreamMaps

CONSTANTS
    Cases,          \* [file: the streams as found, require: BOOLEAN, reencode: BOOLEAN]
    MaxJobs,        \* bounds on jobs and forge runs,
    MaxDropped,     \* points discarded or swept,
    MaxTroubles,    \* and crashes, failures, replacements, renames
    ReusedIds,      \* whether a queue row's id may come again,
    Gaps            \* and what nobody looks out for may happen: an upgrade between a swap
                    \* and its record, or under a forge run, and the removal of a point
                    \* whose revert starts after the look at the running one

ASSUME BoundsGiven ==
    {MaxJobs, MaxDropped, MaxTroubles} \subseteq Nat /\ {ReusedIds, Gaps} \subseteq BOOLEAN

\* A file lists its streams, and a stream has these fields.
Fields == {"id", "lossy", "type", "codec", "shape", "lang", "default"}
IsStream(s) == s = [f \in Fields |-> s[f]]

ASSUME CasesGiven ==
    \A c \in Cases : \A file \in {c.file, c.other} :
        file \in Seq(Range(file)) /\ \A i \in DOMAIN file : IsStream(file[i])

VARIABLES
    case,       \* the file as found and the settings
    disk,       \* [streams, stamp]: the stamp is size and mtime
    media,      \* the id of the file's row
    points,     \* RevertPoint: id -> [file, sidecar, manifest, print]
    sidecars,   \* the recycle volume: name -> streams
    job,        \* the run under way
    revert,     \* the revert under way
    forge,      \* the status of the file's last forge row
    promised,   \* what a revert is to give back; <<>> is nothing
    used        \* bounds: [jobs, dropped, troubles, stamps]

vars == <<case, disk, media, points, sidecars, job, revert, forge, promised, used>>

None == [pc |-> "none"]

Without(f, S) == [x \in DOMAIN f \ S |-> f[x]]
With(f, x, v) == [y \in DOMAIN f \cup {x} |-> IF y = x THEN v ELSE f[y]]

\* The streams at the indices S, in order.
Pick(streams, S) == [n \in 1 .. Cardinality(S) |-> streams[Ordered(S)[n]]]
Real(streams) == [i \in DOMAIN streams |-> <<streams[i].id, streams[i].lossy>>]

-----------------------------------------------------------------------------
(* Pairing the streams of the original with those of a later file.         *)

PayloadKey == {"type", "codec", "shape"}
LanguageKey == PayloadKey \cup {"lang"}
FullKey == LanguageKey \cup {"default"}

Agree(s, t, key) == \A f \in key : s[f] = t[f]

\* One pass over the originals `left` and the candidates `remaining`: look-alikes
\* pair in order if none of them is missing, and all are lost if one is.
PairPass(key, old, new, m) ==
    LET Twins(i) == {j \in m.left : Agree(old[j], old[i], key)}
        Candidates(i) == {j \in m.remaining : Agree(new[j], old[i], key)}
        settled == {i \in m.left : Candidates(i) # {}}
        Paired(i) == IF Cardinality(Candidates(i)) >= Cardinality(Twins(i))
                     THEN Ordered(Candidates(i))[Rank(Twins(i), i)] ELSE 0
        consumed == UNION {IF Paired(i) = 0 THEN Candidates(i) ELSE {Paired(i)} : i \in settled}
    IN  [at |-> [i \in DOMAIN m.at |-> IF i \in settled THEN Paired(i) ELSE m.at[i]],
         left |-> m.left \ settled,
         remaining |-> m.remaining \ consumed]

\* match_streams: where each stream of `old` is in `new`, 0 if it is lost.
MatchStreams(old, new) ==
    LET start == [at |-> [i \in DOMAIN old |-> 0],
                  left |-> DOMAIN old, remaining |-> DOMAIN new]
        exact == PairPass(FullKey, old, new, start)
        language == PairPass(LanguageKey, old, new, exact)
    IN  PairPass(PayloadKey, old, new, language).at

-----------------------------------------------------------------------------
(* Capture.                                                                *)

\* The file's own point still describes it: revert_blocked_reason.
Blocked(p) == points[p].sidecar \notin DOMAIN sidecars \/ points[p].print # disk.stamp

Existing == {p \in DOMAIN points : points[p].file = media}
Extendable == {p \in Existing : ~Blocked(p)}

\* build_manifest, nothing re-indexed yet.
Manifest(streams) ==
    [i \in DOMAIN streams |-> [s |-> streams[i], processed |-> 0, sidecar |-> 0, re |-> FALSE]]

Originals(manifest) == [i \in DOMAIN manifest |-> manifest[i].s]

\* Variant: a re-encoded track counts as the track it replaced.
NoneReencoded(manifest, extend, reencoded) == {}

\* _unmatch_reencoded
Reencoded(manifest, extend, reencoded) ==
    {i \in DOMAIN manifest :
        manifest[i].re \/ (IF extend THEN manifest[i].processed ELSE i) \in reencoded}

\* Tracks first, attachments after, as Matroska writes them.
SidecarOrder(manifest, lost) ==
    LET fonts == {i \in lost : manifest[i].s.type = "attachment"}
    IN  Ordered(lost \ fonts) \o Ordered(fonts)

\* _plan_sources: the sidecar first, then the file this run was given.
Source(manifest, i, extend) ==
    IF extend /\ manifest[i].sidecar # 0 THEN <<"sidecar", manifest[i].sidecar>>
    ELSE <<"file", IF manifest[i].processed # 0 THEN manifest[i].processed ELSE i>>

\* Variant: a stream that is lost later on keeps no place.
AnnotatedOnce(entry, at, slot) == [entry EXCEPT !.processed = at]

\* _reannotate
Annotated(entry, at, slot) == [entry EXCEPT !.processed = at, !.sidecar = slot]

\* capture: the sidecar and the manifest for a run that leaves `output`.
Captured(name, input, output, reencoded) ==
    LET extend == Extendable # {}
        point == CHOOSE p \in Extendable : TRUE
        manifest == IF extend THEN points[point].manifest ELSE Manifest(input)
        gone == Reencoded(manifest, extend, reencoded)
        match == MatchStreams(Originals(manifest), output)
        at == [i \in DOMAIN manifest |-> IF i \in gone THEN 0 ELSE match[i]]
        lost == {i \in DOMAIN manifest : at[i] = 0}
        order == SidecarOrder(manifest, lost)
        Slot(i) == IF i \in lost THEN CHOOSE n \in DOMAIN order : order[n] = i ELSE 0
        Stream(i) == LET from == Source(manifest, i, extend)
                     IN  IF from[1] = "file" THEN input[from[2]]
                         ELSE sidecars[points[point].sidecar][from[2]]
    IN  [name |-> name,
         anything |-> \E i \in lost : manifest[i].s.type # "attachment",
         fonts |-> lost # {} /\ \A i \in lost : manifest[i].s.type = "attachment",
         extend |-> extend,
         streams |-> [n \in DOMAIN order |-> Stream(order[n])],
         manifest |-> [i \in DOMAIN manifest |->
                        Annotated([manifest[i] EXCEPT !.re = i \in gone], at[i], Slot(i))],
         replaces |-> Existing]

-----------------------------------------------------------------------------
(* What the runs make of the file.                                         *)

OfType(streams, type) == {i \in DOMAIN streams : streams[i].type = type}

Settled(s, plan) ==
    [s EXCEPT
        !.lang = IF plan.tag /\ s.type \in {"audio", "subtitle"} /\ @ = "und" THEN "eng" ELSE @,
        !.codec = IF plan.reencode /\ s.type = "audio" THEN "aac"
                  ELSE IF plan.mp4 /\ @ = "subrip" THEN "mov_text" ELSE @,
        !.lossy = @ \/ (plan.reencode /\ s.type = "audio")]

\* A default audio track gone, FFmpeg makes the first one left the default.
Promoted(audio) ==
    IF audio = <<>> \/ \E i \in DOMAIN audio : audio[i].default THEN audio
    ELSE [audio EXCEPT ![1].default = TRUE]

Kept(streams, type, plan) ==
    LET left == Pick(streams, {i \in OfType(streams, type) : streams[i].id \notin plan.drop})
    IN  [n \in DOMAIN left |-> Settled(left[n], plan)]

\* A remux: video, audio and subtitles in order; fonts unless it is an MP4; cover
\* art never.
Remuxed(streams, plan) ==
    Kept(streams, "video", plan) \o Promoted(Kept(streams, "audio", plan))
        \o Kept(streams, "subtitle", plan)
        \o Pick(streams, IF plan.mp4 THEN {} ELSE OfType(streams, "attachment"))

AudioAt(streams) == OfType(streams, "audio")

\* Audio goes by language, subtitles one by one; some audio stays.
Drops(streams) ==
    LET Ids(type) == {streams[i].id : i \in OfType(streams, type)}
        InLang(l) == {streams[i].id : i \in {x \in AudioAt(streams) : streams[x].lang = l}}
        audio == {InLang(l) : l \in {"fre", "none"}} \ {Ids("audio")}
    IN  {a \cup t : a \in audio, t \in SUBSET Ids("subtitle")}

Plans(streams) ==
    [drop : Drops(streams), tag : BOOLEAN, mp4 : BOOLEAN, reencode : {FALSE, case.reencode}]

Ac3Shape(s) == s.codec = "ac3" /\ s.shape = 6
Aac51(streams) == {i \in AudioAt(streams) : streams[i].codec = "aac" /\ streams[i].shape = 6}
Least(S) == CHOOSE x \in S : \A y \in S : x <= y
Greatest(S) == CHOOSE x \in S : \A y \in S : x >= y

\* build_add_ac3_command, on resolve_forge_aac_for_add's track.
Forged(streams) ==
    Append(streams, [streams[Least(Aac51(streams))] EXCEPT
        !.id = "forged", !.codec = "ac3", !.default = FALSE, !.lossy = FALSE])

\* Variant: the first audio track goes.
UndoneFirst(streams) ==
    Pick(streams, DOMAIN streams \ {Least(AudioAt(streams))})

\* build_undo_command: without the last audio track.
Undone(streams) ==
    Pick(streams, DOMAIN streams \ {Greatest(AudioAt(streams))})

\* resolve_forge_ac3_for_undo
UndoOutcome(streams) ==
    IF \A i \in AudioAt(streams) : ~Ac3Shape(streams[i]) THEN "absent"
    ELSE IF Ac3Shape(streams[Greatest(AudioAt(streams))]) THEN "found" ELSE "mismatch"

-----------------------------------------------------------------------------
Init ==
    /\ case \in Cases
    /\ disk = [streams |-> case.file, stamp |-> 1]
    /\ media = 1 /\ points = <<>> /\ sidecars = <<>>
    /\ job = None /\ revert = None /\ forge = "none"
    /\ promised = case.file
    /\ used = [jobs |-> 0, dropped |-> 0, troubles |-> 0, stamps |-> 1]

Trouble ==
    /\ used.troubles < MaxTroubles
    /\ used' = [used EXCEPT !.troubles = @ + 1]

NewDisk(streams) ==
    /\ disk' = [streams |-> streams, stamp |-> used.stamps + 1]
    /\ used' = [used EXCEPT !.stamps = @ + 1]

-----------------------------------------------------------------------------
(* A run: FFmpeg's output is made, captured from, swapped in, recorded.    *)

\* A queue row's id may come again; a forge row numbers from its own table.
Names(kind) ==
    {kind} \X (IF ReusedIds THEN 1 .. used.jobs + 1 ELSE {used.jobs + 1})

Begin(kind, name, output, reencoded) ==
    /\ job = None /\ revert = None /\ used.jobs < MaxJobs
    /\ used' = [used EXCEPT !.jobs = @ + 1]
    /\ job' = [pc |-> "made", kind |-> kind, name |-> name, input |-> disk,
               output |-> output, reencoded |-> reencoded,
               extend |-> FALSE, point |-> {}]
    /\ UNCHANGED <<case, disk, media, points, sidecars, revert, forge, promised>>

BeginQueueJob ==
    \E plan \in Plans(disk.streams) : \E name \in Names("queue") :
        LET output == Remuxed(disk.streams, plan)
            kept == {i \in AudioAt(disk.streams) : disk.streams[i].id \notin plan.drop}
        IN  /\ output # disk.streams
            /\ Begin("queue", name, output, IF plan.reencode THEN kept ELSE {})

BeginForgeAdd ==
    /\ forge \in {"none", "undone"} /\ Aac51(disk.streams) # {}
    /\ \E name \in Names("add") : Begin("add", name, Forged(disk.streams), {})

BeginForgeUndo ==
    /\ forge = "success" /\ UndoOutcome(disk.streams) = "found"
    /\ \E name \in Names("undo") : Begin("undo", name, Undone(disk.streams), {})

\* load_forge_job_data settles the others without touching the file.
SettleForgeUndo ==
    /\ forge = "success" /\ job = None /\ revert = None
    /\ UndoOutcome(disk.streams) # "found"
    /\ forge' = IF UndoOutcome(disk.streams) = "absent" THEN "undone" ELSE "undo_failed"
    /\ UNCHANGED <<case, disk, media, points, sidecars, job, revert, promised, used>>

\* A queue job looks at its source again before the capture and the swap.
Changed == job.kind = "queue" /\ disk.stamp # job.input.stamp

CapturedOf(j) == Captured(j.name, j.input.streams, j.output, j.reencoded)

Capture ==
    /\ job.pc = "made" /\ ~Changed
    /\ LET c == CapturedOf(job)
       IN  /\ job' = [job EXCEPT !.pc = "captured", !.extend = c.extend /\ ~c.fonts,
                                 !.point = IF c.anything THEN {c} ELSE {}]
           /\ sidecars' = IF c.anything THEN With(sidecars, c.name, c.streams) ELSE sidecars
    /\ UNCHANGED <<case, disk, media, points, revert, forge, promised, used>>

\* The volume is away: the run goes on without a point unless one is required.
GoWithout ==
    /\ job.pc = "made" /\ ~Changed /\ ~case.require /\ Trouble
    /\ job' = [job EXCEPT !.pc = "captured"]
    /\ UNCHANGED <<case, disk, media, points, sidecars, revert, forge, promised>>

Leftover == IF job = None THEN {} ELSE {c.name : c \in job.point}

\* It ends short of success and takes its sidecar with it.
Fail ==
    /\ job.pc \in {"made", "captured"}
    /\ Trouble
    /\ job' = None /\ sidecars' = Without(sidecars, Leftover)
    /\ UNCHANGED <<case, disk, media, points, revert, forge, promised>>

StopForChange ==
    /\ job.pc \in {"made", "captured"} /\ Changed
    /\ job' = None /\ sidecars' = Without(sidecars, Leftover)
    /\ UNCHANGED <<case, disk, media, points, revert, forge, promised, used>>

\* Cancelled: a queue job leaves its sidecar behind, a forge run does not.
Cancel ==
    /\ job.pc = "captured" /\ Trouble
    /\ job' = None
    /\ sidecars' = IF job.kind = "queue" THEN sidecars ELSE Without(sidecars, Leftover)
    /\ UNCHANGED <<case, disk, media, points, revert, forge, promised>>

\* What a revert is to give back from here on: the original of the point that
\* was extended or that misses nothing, the file a new point starts from, or the
\* file as it is left.  A sidecar cannot hold fonts alone: those are given up.
Promise ==
    CASE job.extend -> promised
      [] ~job.extend /\ job.point # {} -> job.input.streams
      [] OTHER -> job.output

Swap ==
    /\ job.pc = "captured" /\ ~Changed
    /\ NewDisk(job.output)
    /\ promised' = Promise
    /\ job' = [job EXCEPT !.pc = "swapped"]
    /\ UNCHANGED <<case, media, points, sidecars, revert, forge>>

\* SQLite gives a row one more than the largest id there is.
NewId == IF DOMAIN points = {} THEN 1 ELSE Greatest(DOMAIN points) + 1

Superseded(c) == {points[p].sidecar : p \in c.replaces \cap DOMAIN points} \ {c.name}

\* _record_revert_point, then the outcome of the run.
Record ==
    /\ job.pc = "swapped" /\ job' = None
    /\ IF job.point = {} THEN UNCHANGED <<points, sidecars>>
       ELSE LET c == CHOOSE x \in job.point : TRUE
                still == c.replaces \cap DOMAIN points
                p == IF still = {} THEN NewId ELSE Greatest(still)
            IN  /\ points' = With(points, p,
                        [file |-> IF still = {} THEN media ELSE points[p].file,
                         sidecar |-> c.name, manifest |-> c.manifest, print |-> disk.stamp])
                /\ sidecars' = Without(sidecars, Superseded(c))
    /\ forge' = CASE job.kind = "add" -> "success"
                  [] job.kind = "undo" -> "undone"
                  [] OTHER -> forge
    /\ UNCHANGED <<case, disk, media, revert, promised, used>>

\* The row cannot be written: the sidecar goes, and what it held.
RecordFails ==
    /\ job.pc = "swapped" /\ job.point # {} /\ Trouble
    /\ sidecars' = Without(sidecars, {c.name : c \in job.point})
    /\ job' = [job EXCEPT !.point = {}]
    /\ promised' = disk.streams
    /\ UNCHANGED <<case, disk, media, points, revert, forge>>

\* The process dies; what is between a swap and its record is not kept.
Crash ==
    /\ job # None \/ revert # None
    /\ Trouble
    /\ job' = None /\ revert' = None
    /\ promised' = IF job.pc = "swapped" THEN disk.streams ELSE promised
    /\ UNCHANGED <<case, disk, media, points, sidecars, forge>>

-----------------------------------------------------------------------------
(* The revert.                                                             *)

Located(p, i) ==
    LET entry == points[p].manifest[i]
    IN  IF entry.sidecar # 0 THEN sidecars[points[p].sidecar][entry.sidecar]
        ELSE disk.streams[entry.processed]

\* build_restore_command: the original's streams in its order, with its tags.
Restored(p) ==
    [i \in DOMAIN points[p].manifest |->
        [points[p].manifest[i].s EXCEPT !.id = Located(p, i).id, !.lossy = Located(p, i).lossy]]

\* Variant: the file itself is not looked at.
OfferedUnseen(p) == points[p].file = media

\* restore_blocked_reason
Offered(p) == points[p].file = media /\ ~Blocked(p)

StartRevert(p) ==
    /\ job = None /\ revert = None /\ Offered(p)
    /\ revert' = [pc |-> "running", id |-> p, output |-> Restored(p),
                  manifest |-> points[p].manifest, stamp |-> disk.stamp]
    /\ UNCHANGED <<case, disk, media, points, sidecars, job, forge, promised, used>>

SwapRevert ==
    /\ revert.pc = "running" /\ disk.stamp = revert.stamp
    /\ NewDisk(revert.output)
    /\ revert' = [revert EXCEPT !.pc = "swapped"]
    /\ UNCHANGED <<case, media, points, sidecars, job, forge, promised>>

\* The file is not the one the revert read, or FFmpeg failed.
RefuseRevert ==
    /\ revert.pc = "running" /\ revert' = None
    /\ \/ disk.stamp # revert.stamp /\ UNCHANGED used
       \/ Trouble
    /\ UNCHANGED <<case, disk, media, points, sidecars, job, forge, promised>>

\* _apply: every point of the file is spent, and its forge rows are settled.
EndRevert ==
    /\ revert.pc = "swapped" /\ revert' = None
    /\ points' = Without(points, Existing)
    /\ sidecars' = Without(sidecars, {points[p].sidecar : p \in Existing})
    /\ forge' = IF forge \in {"success", "undo_failed"}
                   /\ UndoOutcome(disk.streams) = "absent"
                THEN "undone" ELSE forge
    /\ UNCHANGED <<case, disk, media, job, promised, used>>

-----------------------------------------------------------------------------
(* The bin, and the world.                                                 *)

Named == {points[p].sidecar : p \in DOMAIN points}

\* A sidecar under an hour old is left alone: a run's own, not yet recorded.
Young == IF job.pc \in {"captured", "swapped"} THEN {c.name : c \in job.point} ELSE {}

\* A point that still described the file takes what it promised with it.
Forget(doomed) ==
    promised' = IF \E p \in doomed : points[p].print = disk.stamp THEN <<>> ELSE promised

\* discard_point and empty_bin, refused for a point being restored.
Discard(doomed) ==
    /\ doomed # {} /\ used.dropped < MaxDropped
    /\ used' = [used EXCEPT !.dropped = @ + 1]
    /\ revert # None => revert.id \notin doomed \/ Gaps
    /\ sidecars' = Without(sidecars, {points[p].sidecar : p \in doomed})
    /\ points' = Without(points, doomed)
    /\ Forget(doomed)
    /\ UNCHANGED <<case, disk, media, job, revert, forge>>

\* Variant: a sidecar that any run once named is known.
OrphansLeft(doomed) == {}
Orphans(doomed) ==
    {n \in DOMAIN sidecars : n \notin {points[p].sidecar : p \in DOMAIN points \ doomed}}
        \ Young

\* sweep_retention: too old or too much, then what no row names.
Sweep(doomed) ==
    /\ doomed # {} => used.dropped < MaxDropped
    /\ used' = IF doomed = {} THEN used ELSE [used EXCEPT !.dropped = @ + 1]
    /\ points' = Without(points, doomed)
    /\ sidecars' = Without(sidecars, {points[p].sidecar : p \in doomed} \cup Orphans(doomed))
    /\ Forget(doomed)
    /\ UNCHANGED <<case, disk, media, job, revert, forge>>

\* An upgrade lands at the path.  A forge run would not notice.
Replaced ==
    /\ job.pc \in {"made", "captured"} => job.kind = "queue" \/ Gaps
    /\ job.pc = "swapped" => Gaps
    /\ used.troubles < MaxTroubles
    /\ disk' = [streams |-> case.other, stamp |-> used.stamps + 1]
    /\ used' = [used EXCEPT !.troubles = @ + 1, !.stamps = @ + 1]
    /\ promised' = case.other
    /\ UNCHANGED <<case, media, points, sidecars, job, revert, forge>>

\* The file is renamed: a scan drops its row, and its point is detached.
Renamed ==
    /\ job = None /\ revert = None /\ Trouble
    /\ media' = media + 1
    /\ points' = [p \in DOMAIN points |-> [points[p] EXCEPT !.file = 0]]
    /\ forge' = "none"
    /\ UNCHANGED <<case, disk, sidecars, job, revert, promised>>

\* attach, of the file the point's job left: each stream is found again, or the
\* match is refused.
Attach(p) ==
    LET manifest == points[p].manifest
        at == MatchStreams(Originals(manifest), disk.streams)
    IN  /\ points[p].file = 0 /\ points[p].print = disk.stamp
        /\ \A i \in DOMAIN manifest : at[i] # 0 \/ manifest[i].sidecar # 0
        /\ points' = [points EXCEPT ![p].file = media,
                        ![p].manifest = [i \in DOMAIN @ |-> [@[i] EXCEPT !.processed = at[i]]]]
        /\ UNCHANGED <<case, disk, media, sidecars, job, revert, forge, promised, used>>

-----------------------------------------------------------------------------
Next ==
    \/ BeginQueueJob \/ BeginForgeAdd \/ BeginForgeUndo \/ SettleForgeUndo
    \/ Capture \/ GoWithout \/ Fail \/ StopForChange \/ Cancel \/ Swap \/ Record
    \/ RecordFails \/ Crash
    \/ \E p \in DOMAIN points : StartRevert(p) \/ Attach(p)
    \/ SwapRevert \/ RefuseRevert \/ EndRevert
    \/ \E doomed \in SUBSET DOMAIN points : Discard(doomed) \/ Sweep(doomed)
    \/ Replaced \/ Renamed

\* The sweep comes round daily; a run that has begun goes on.
Spec ==
    /\ Init /\ [][Next]_vars
    /\ WF_vars(Sweep({})) /\ WF_job(Swap \/ StopForChange \/ Record)

-----------------------------------------------------------------------------
(* What must hold.                                                         *)

TypeOK ==
    /\ \A p \in DOMAIN points :
          /\ points[p].file \in 0 .. media /\ points[p].print \in 1 .. used.stamps
          /\ \A i \in DOMAIN points[p].manifest :
                points[p].manifest[i].processed # 0 \/ points[p].manifest[i].sidecar # 0
    /\ job = None \/ revert = None
    /\ forge \in {"none", "success", "undone", "undo_failed"}
    /\ used.jobs <= MaxJobs /\ used.dropped <= MaxDropped /\ used.troubles <= MaxTroubles

\* Whatever was captured, extended, swept and matched in between, a revert that
\* is let through puts back the streams its point was begun for, none of them a
\* re-encode, in their order.
RevertGivesBack ==
    [][revert.pc = "running" /\ revert'.pc = "swapped"
          => Real(disk'.streams) = Real(Originals(revert.manifest))]_vars

\* What runs took from the file can be got back for as long as its point is not
\* thrown away: all of it is in the file, or some point still describes the file
\* and holds the rest.
OriginalKept ==
    \/ promised = <<>> \/ job.pc = "swapped"
    \/ Range(Real(promised)) \subseteq Range(Real(disk.streams))
    \/ \E p \in DOMAIN points :
          points[p].file \in {0, media} /\ ~Blocked(p) /\ Real(Restored(p)) = Real(promised)

\* An undo takes out the AC3 the forge put in and nothing else.
UndoRemovesForged ==
    [][job.pc = "captured" /\ job.kind = "undo" /\ job'.pc = "swapped"
          => \A s \in Range(disk.streams) \ Range(disk'.streams) : s.id = "forged"]_vars

\* A sidecar no row names does not stay on the volume.
BinIsCounted == []<>(DOMAIN sidecars \subseteq Named)
=============================================================================
