-------------------------------- MODULE Passes -------------------------------
(***************************************************************************)
(* One file, decided and rewritten again and again under one set of        *)
(* settings until nothing is left to do: scanner and worker run            *)
(* analyze_file, the user answers its reviews and flags, FFmpeg writes the *)
(* file, the answers are carried to the new tracks and the file is decided *)
(* again.  Nothing else touches the file meanwhile; FileLife has that.     *)
(***************************************************************************)
EXTENDS Decision, Answers

CONSTANTS
    Cases,      \* pairs of a file and the settings it is processed under
    Languages,  \* the codes tracks and settings may carry
    Chosen,     \* those the user answers with, as canonical() leaves them
    MaxInputs   \* bound on the questions the user answers

\* The subtitle codecs a file may have: those decision.py lists, and the one MP4
\* takes.  It would take any other for one MP4 can hold.
SubtitleKinds == Mp4IncompatibleSubs \cup {"mov_text"}
TrackTypes == {"video", "audio", "subtitle"}
Tracks == [id : STRING, type : TrackTypes, kind : STRING, lang : Languages,
           default : BOOLEAN, forced : BOOLEAN]
MediaFiles == [container : {"mkv", "mp4"}, tracks : Seq(Tracks), fonts : BOOLEAN,
               fast : BOOLEAN, original : STRING]

\* An MP4 that is there is one that could be written.
Muxable(f) ==
    f.container = "mp4" =>
        \A i \in DOMAIN f.tracks :
            Kind(f, i) \in Mp4Video \cup Mp4Audio \cup {"mov_text"}

ASSUME InputsGiven == MaxInputs \in Nat
ASSUME LanguagesGiven ==
    Chosen \cup {"eng", "und"} \subseteq Languages /\ Chosen \cap TwoLetter = {}
ASSUME CasesGiven ==
    \A c \in Cases :
        /\ c.file \in MediaFiles /\ c.forged \in BOOLEAN /\ c.settings.primary \in Languages
        /\ \A i \in Streams(c.file, "subtitle") : Kind(c.file, i) \in SubtitleKinds
        /\ Streams(c.file, "audio") # {} /\ Muxable(c.file)
        /\ \A i, j \in DOMAIN c.file.tracks :
              c.file.tracks[i].id = c.file.tracks[j].id => i = j

VARIABLES
    stage,      \* what the file waits for
    file,       \* the file on disk
    settings,
    stored,     \* the answer columns
    ack,        \* und_audio_threshold_acknowledged
    forged,     \* whether a forge job is on record
    folder,     \* the .srt files beside it: a name's content
    inputs

vars == <<stage, file, settings, stored, ack, forged, folder, inputs>>

Columns == {"subs", "audioLang", "subLang"}
NoAnswers == [c \in Columns |-> <<>>]

\* The arguments analyze_file gets.
Given ==
    [subs |-> Resolve(stored["subs"], file.tracks),
     audioLang |-> Resolve(stored["audioLang"], file.tracks),
     subLang |-> Resolve(stored["subLang"], file.tracks),
     ack |-> ack,
     forged |-> forged]

\* The undefined tracks left to the language reviews, and the odd one out.
LanguageFlags(given) ==
    Mismatched(file, settings, given) \cup UndefinedFlags(file, settings, given)

AnswersIn(c) == IF c = "subs" THEN {"keep", "remove", "extract"} ELSE Languages

TypeOK ==
    /\ stage \in {"decide", "review", "queued", "settled"}
    /\ file \in MediaFiles
    /\ settings.primary \in Languages
    /\ DOMAIN stored = Columns
    /\ \A c \in Columns :
          /\ DOMAIN stored[c] \subseteq Descriptors(file.tracks)
          /\ \A key \in DOMAIN stored[c] : stored[c][key] \in AnswersIn(c)
    /\ ack \in BOOLEAN /\ forged \in BOOLEAN
    /\ inputs \in 0 .. MaxInputs

UserFile == <<"eng", FALSE, 1>>

Init ==
    /\ stage = "decide"
    /\ \E c \in Cases :
          /\ file = c.file /\ settings = c.settings
          /\ forged = c.forged
          /\ folder = [name \in IF c.sidecar THEN {UserFile} ELSE {} |-> "user"]
    /\ stored = NoAnswers /\ ack = FALSE /\ inputs = 0

\* The decision: a review, work to queue, or nothing.
Decide ==
    /\ stage = "decide"
    /\ \E given \in {Given} :
          stage' = IF Flagged(file, settings, given) # {} THEN "review"
                   ELSE IF HasWork(file, settings, given) THEN "queued" ELSE "settled"
    /\ UNCHANGED <<file, settings, stored, ack, forged, folder, inputs>>

\* _answer_subtitle_review: an answer for each flagged track, "extract" only
\* for what can be extracted.
AnswerReview ==
    /\ stage = "review"
    /\ \E answers \in [Flagged(file, settings, Given) -> {"keep", "remove", "extract"}] :
          /\ \A i \in DOMAIN answers :
                answers[i] = "extract" => Kind(file, i) \in ConvertibleSubs
          /\ stored' = [stored EXCEPT !.subs =
                Updated(@, [key \in {Descriptor(file.tracks, i) : i \in DOMAIN answers} |->
                               answers[StreamOf(file.tracks, key)]])]
    /\ stage' = "decide"
    /\ UNCHANGED <<file, settings, ack, forged, folder, inputs>>

Told(column, i, lang) ==
    [stored EXCEPT ![column] = Updated(@, [key \in {Descriptor(file.tracks, i)} |-> lang])]

\* apply_language on a flag of a track that is in the file.
SetLanguage ==
    /\ stage \in {"queued", "settled"} /\ inputs < MaxInputs
    /\ \E lang \in Chosen, given \in {Given} :
          \/ \E i \in LanguageFlags(given) : stored' = Told("audioLang", i, lang)
          \/ \E i \in SubFlags(file, settings, given) : stored' = Told("subLang", i, lang)
    /\ inputs' = inputs + 1
    /\ stage' = "decide"
    /\ UNCHANGED <<file, settings, ack, forged, folder>>

\* Confirm correct on a threshold flag.
Acknowledge ==
    /\ stage \in {"queued", "settled"}
    /\ OverThreshold(file, settings, Given) /\ LanguageFlags(Given) # {}
    /\ ack' = TRUE
    /\ UNCHANGED <<stage, file, settings, stored, forged, folder, inputs>>

\* next_free_srt_name, of the k-th file of a name moved.
MovedTo(name, k, taken) == FreeName(name[1], name[2], k, taken)

\* Variant: what is there is written over.
MovedAsideNever(names) == folder

\* _move_aside, for each name the job is about to write.
MovedAside(names) ==
    IF settings.existing # "embedded_first" THEN folder
    ELSE LET hit == names \cap DOMAIN folder
             moved == [name \in hit |-> MovedTo(name,
                          Cardinality({n \in 1 .. name[3] : <<name[1], name[2], n>> \in hit}),
                          names \cup DOMAIN folder)]
         IN  Updated([name \in DOMAIN folder \ hit |-> folder[name]],
                     [name \in {moved[h] : h \in hit} |->
                         folder[CHOOSE h \in hit : moved[h] = name]])

\* The job: execute_ffmpeg_combined, and _finish_job's re-keying.
Run ==
    /\ stage = "queued"
    /\ \E given \in {Given} :
          /\ file' = Output(file, settings, given)
          /\ \E names \in {Named(file, settings, given, DOMAIN folder)} :
                folder' = Updated(MovedAside(Range(names)),
                              [name \in Range(names) |->
                                  file.tracks[Max({i \in DOMAIN names : names[i] = name})].id])
          /\ \E mapping \in {JobMapping(file.tracks, file'.tracks,
                                           Removed(file, settings, given))} :
                stored' = [c \in Columns |->
                              Rekey(stored[c], file.tracks, file'.tracks, mapping)]
    /\ stage' = "decide"
    /\ UNCHANGED <<settings, ack, forged, inputs>>

Next == Decide \/ AnswerReview \/ SetLanguage \/ Acknowledge \/ Run

\* The steps Decide and Run are, told by the stages alone.
Decided == stage = "decide" /\ stage' \in {"review", "queued", "settled"}
Ran == stage = "queued" /\ stage' = "decide" /\ inputs' = inputs

\* What is queued runs and what is to be decided is decided; nobody has to
\* answer anything.
Spec == Init /\ [][Next]_vars /\ WF_stage(Decided) /\ WF_stage(Ran)

-----------------------------------------------------------------------------
(* What must hold.                                                         *)

Ids(type) == {file.tracks[i].id : i \in Streams(file, type)}
Saved == {folder[name] : name \in DOMAIN folder}

\* A file with audio never loses the last of it, whatever the settings and the
\* tags, in however many passes ("it will never end up with none at all").
AudioStays == Streams(file, "audio") # {}

\* Nothing MP4 cannot hold is ever put into one: FFmpeg fails at the header.
MuxFits == Muxable(file)

\* No track in a language of the keep lists is lost between two passes: audio
\* stays in the file, a subtitle stays there or has its .srt, unless an answer
\* or a setting took it.  What a pass does to tags, order and container must
\* not make the next one see another track.
Listed(t) ==
    \/ t.type = "audio" /\ Canonical(t.lang) \in settings.keepAudio
       /\ settings.original # "original_only"
    \/ t.type = "subtitle" /\ Canonical(t.lang) \in settings.keepSubs
       /\ settings.images # "always_remove"
WantedStays ==
    [][\A i \in DOMAIN file.tracks, given \in {Given} :
          Listed(file.tracks[i]) =>
             \/ \E j \in DOMAIN file'.tracks : file'.tracks[j].id = file.tracks[i].id
                   /\ Canonical(file'.tracks[j].lang) = Canonical(file.tracks[i].lang)
             \/ \E name \in DOMAIN folder' : folder'[name] = file.tracks[i].id
             \/ i \in DOMAIN given.subs /\ given.subs[i] = "remove"
             \/ i \in DOMAIN given.audioLang \cup DOMAIN given.subLang]_vars

\* No extracted subtitle, and under keep_both and embedded_first nothing that
\* was in the folder, is overwritten.
SidecarsStay ==
    [][Saved \ (IF settings.existing = "replace" THEN {"user"} ELSE {})
          \subseteq {folder'[name] : name \in DOMAIN folder'}]_vars

\* Every subtitle a pass extracts is in the folder once it has run.
ExtractedSaved ==
    [][Ran =>
          \A i \in Extracted(file, settings, Given) :
              file.tracks[i].id \in {folder'[name] : name \in DOMAIN folder'}]_vars

\* An answer stays with its track: what a rewritten file is decided from is
\* what the tracks it still holds were given.
AnswersFollow ==
    [][\A c \in Columns, i \in DOMAIN file.tracks, j \in DOMAIN file'.tracks :
          Ran /\ file.tracks[i].id = file'.tracks[j].id =>
             LET before == Resolve(stored[c], file.tracks)
                 after == Resolve(stored'[c], file'.tracks)
             IN  /\ i \in DOMAIN before <=> j \in DOMAIN after
                 /\ i \in DOMAIN before => before[i] = after[j]]_vars

\* Processing comes to an end: a pass leaves nothing for ever to be done again.
Settles == <>[](stage \in {"settled", "review"})
=============================================================================
