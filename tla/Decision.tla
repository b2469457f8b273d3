------------------------------ MODULE Decision -------------------------------
(***************************************************************************)
(* decision.analyze_file and ffmpeg.build_ffmpeg_command: what is done to  *)
(* a file, from its tracks, the settings and the answers given for it, and *)
(* what the file is once it is done.                                       *)
(*                                                                         *)
(* A file f is [container, tracks, fonts, fast, original]: `fonts` says    *)
(* whether fonts are attached, `fast` whether the moov atom comes first,   *)
(* `original` is the original language Sonarr or Radarr gave, or "".  A    *)
(* track is [id, type, kind, lang, default, forced], and its stream index  *)
(* its place in the sequence.  `kind` stands for the codec; "ac3" is the   *)
(* six-channel kind the forge appends.  `id` tells tracks apart across     *)
(* rewrites and no definition here reads it.                               *)
(*                                                                         *)
(* The answers a are [subs, audioLang, subLang, ack, forged]: partial      *)
(* functions from stream indices, the acknowledged threshold, and whether  *)
(* a finished forge job is on record.  The settings s have one field per   *)
(* setting.  Title hints, dispositions other than forced and default, and  *)
(* all wording are left out.  The container is always known.               *)
(***************************************************************************)
EXTENDS Naturals, FiniteSets, Sequences, TLC, FiniteSetsExt, SequencesExt, StreamMaps

Mp4Video == {"h264"}
Mp4Audio == {"aac", "ac3"}
ImageSubs == {"pgs"}
StyledSubs == {"ass"}
Mp4IncompatibleSubs == {"pgs", "ass", "subrip", "webvtt"}
ConvertibleSubs == {"subrip", "ass", "mov_text"}

\* langcodes.canonical: "en" stands for the two-letter spellings.
TwoLetter == {"en"}
Canonical(lang) == IF lang = "en" THEN "eng" ELSE lang

Streams(f, type) == {i \in DOMAIN f.tracks : f.tracks[i].type = type}
Kind(f, i) == f.tracks[i].kind
Lang(f, i) == Canonical(f.tracks[i].lang)
Undefined(f, streams) == {i \in streams : Lang(f, i) = "und"}

-----------------------------------------------------------------------------
(* Undefined languages.                                                    *)

\* The track the forge appended: the last audio track, if it looks like one.
IsForged(f, a, i) ==
    a.forged /\ i = Max(Streams(f, "audio")) /\ Kind(f, i) = "ac3"

CountedUndefined(f, a) ==
    {i \in Undefined(f, Streams(f, "audio")) : ~IsForged(f, a, i)}

OverThreshold(f, s, a) ==
    Cardinality(CountedUndefined(f, a)) >= Max({1, s.threshold})

\* Which of a type's undefined tracks the "Apply To" rule takes.
Qualifying(rule, undefined, all) ==
    CASE rule = "all_undefined" -> undefined
      [] rule = "all_undefined_per_type" -> IF undefined = all THEN undefined ELSE {}
      [] rule = "single_per_type" -> IF Cardinality(undefined) = 1 THEN undefined ELSE {}
      [] OTHER -> {}

\* Subtitles whose language is settled before what is kept is decided.
ResolvedSubs(f, s) ==
    IF s.undSubs = "always_fix"
    THEN LET subs == Streams(f, "subtitle")
         IN  Qualifying(s.applySubs, Undefined(f, subs), subs)
    ELSE {}

-----------------------------------------------------------------------------
(* Subtitles: what the settings keep, the review gates, the answers.       *)

SubWanted(f, s, i) ==
    LET lang == IF i \in ResolvedSubs(f, s) THEN s.primary ELSE Lang(f, i)
    IN  \/ lang \in s.keepSubs
        \/ s.keepForced /\ f.tracks[i].forced
        \/ s.keepUnd /\ lang = "und"

\* An "extract" on a track that cannot be extracted counts as no answer.
Answered(f, a) ==
    {i \in DOMAIN a.subs : a.subs[i] # "extract" \/ Kind(f, i) \in ConvertibleSubs}

Unanswered(f, s, a, kinds) ==
    {i \in Streams(f, "subtitle") \ Answered(f, a) :
        SubWanted(f, s, i) /\ Kind(f, i) \in kinds}

Images(f, s, a) == IF s.extract THEN Unanswered(f, s, a, ImageSubs) ELSE {}
Styled(f, s, a) == IF f.fonts THEN Unanswered(f, s, a, StyledSubs) ELSE {}

\* The tracks a review is raised for; while there are any nothing is done.
Flagged(f, s, a) ==
    (IF s.images = "always_ask" THEN Images(f, s, a) ELSE {})
        \cup (IF s.fonts = "always_ask" THEN Styled(f, s, a) ELSE {})

\* The user's answers, and those the settings give.
Choice(f, s, a, i) ==
    CASE i \in Answered(f, a) -> a.subs[i]
      [] i \in Images(f, s, a) /\ s.images = "always_keep" -> "keep"
      [] i \in Images(f, s, a) /\ s.images = "always_remove" -> "remove"
      [] i \in Styled(f, s, a) /\ s.fonts = "always_keep" -> "keep"
      [] OTHER -> "none"

Extracted(f, s, a) ==
    {i \in Streams(f, "subtitle") :
        \/ Choice(f, s, a, i) = "extract"
        \/ /\ Choice(f, s, a, i) = "none" /\ SubWanted(f, s, i)
           /\ s.extract /\ Kind(f, i) \in ConvertibleSubs}

Embedded(f, s, a) ==
    {i \in Streams(f, "subtitle") \ Extracted(f, s, a) :
        \/ Choice(f, s, a, i) = "keep"
        \/ Choice(f, s, a, i) = "none" /\ SubWanted(f, s, i)}

-----------------------------------------------------------------------------
(* Audio.                                                                  *)

KeepLanguages(f, s) ==
    CASE f.original # "" /\ s.original = "keep_both" -> s.keepAudio \cup {f.original}
      [] /\ f.original # "" /\ s.original = "original_only"
         /\ \E i \in Streams(f, "audio") : Lang(f, i) = f.original -> {f.original}
      [] OTHER -> s.keepAudio

HasPreferred(f, s) == \E i \in Streams(f, "audio") : Lang(f, i) \in KeepLanguages(f, s)

AudioWanted(f, s, i) ==
    \/ Lang(f, i) \in KeepLanguages(f, s) \cup {"und"}
    \/ s.keepDefault /\ f.tracks[i].default /\ ~HasPreferred(f, s)

\* Variant: before the fallback, a file could be left without audio.
AudioKeptNoFallback(f, s) == {i \in Streams(f, "audio") : AudioWanted(f, s, i)}

\* If nothing is wanted the first track stays.
AudioKept(f, s) ==
    LET audio == Streams(f, "audio")
        wanted == {i \in audio : AudioWanted(f, s, i)}
    IN  IF audio # {} /\ wanted = {} THEN {Min(audio)} ELSE wanted

-----------------------------------------------------------------------------
(* The container.                                                          *)

\* Variant: the text codecs MP4 cannot copy are not listed.
ConvertsImagesOnly(f, s, a) ==
    /\ s.preferMp4 /\ f.container # "mp4"
    /\ \A i \in Streams(f, "video") : Kind(f, i) \in Mp4Video
    /\ \A i \in AudioKept(f, s) : Kind(f, i) \in Mp4Audio
    /\ \A i \in Embedded(f, s, a) : Kind(f, i) \notin ImageSubs \cup StyledSubs

Converts(f, s, a) ==
    /\ s.preferMp4 /\ f.container # "mp4"
    /\ \A i \in Streams(f, "video") : Kind(f, i) \in Mp4Video
    /\ \A i \in AudioKept(f, s) : Kind(f, i) \in Mp4Audio
    /\ \A i \in Embedded(f, s, a) : Kind(f, i) \notin Mp4IncompatibleSubs

AddsFaststart(f, s) == s.faststart /\ f.container = "mp4" /\ ~f.fast

Target(f, s, a) == IF Converts(f, s, a) THEN "mp4" ELSE f.container

-----------------------------------------------------------------------------
(* Language tags.                                                          *)

\* The undefined tracks the fix pass is about, of the kept ones of a type:
\* under always_fix they get the primary language, under always_ask they are
\* flagged.  Too many of them are a question for a person.
UndefinedAudio(f, s, a) ==
    LET kept == AudioKept(f, s)
    IN  IF OverThreshold(f, s, a) \/ s.undAudio = "always_leave" THEN {}
        ELSE Qualifying(s.applyAudio, Undefined(f, kept), kept) \ DOMAIN a.audioLang

UndefinedSubs(f, s, a) ==
    LET kept == Embedded(f, s, a) \cup Extracted(f, s, a)
    IN  IF s.undSubs = "always_leave" THEN {}
        ELSE Qualifying(s.applySubs, Undefined(f, kept), kept) \ DOMAIN a.subLang

Fixed(f, s, a) ==
    (IF s.undAudio = "always_fix" THEN UndefinedAudio(f, s, a) ELSE {})
        \cup (IF s.undSubs = "always_fix" THEN UndefinedSubs(f, s, a) ELSE {})

Kept(f, s, a) == AudioKept(f, s) \cup Embedded(f, s, a)

\* Variant: an answer is written again though the track has that language.
CorrectedAgain(f, s, a) == Kept(f, s, a) \cap (DOMAIN a.audioLang \cup DOMAIN a.subLang)

\* The kept tracks whose language the user gave and which do not have it yet.
Corrected(f, s, a) ==
    {i \in AudioKept(f, s) \cap DOMAIN a.audioLang : Lang(f, i) # a.audioLang[i]}
        \cup {i \in Embedded(f, s, a) \cap DOMAIN a.subLang : Lang(f, i) # a.subLang[i]}

GivenLang(a, i) == IF i \in DOMAIN a.subLang THEN a.subLang[i] ELSE a.audioLang[i]

\* Variant: two-letter tags are left as they are.
LangWrittenAsFound(f, s, a, i) ==
    IF i \in Corrected(f, s, a) THEN GivenLang(a, i)
    ELSE IF i \in Fixed(f, s, a) THEN s.primary ELSE f.tracks[i].lang

\* The tag a kept track is written with; a two-letter one in full.
LangWritten(f, s, a, i) ==
    IF i \in Corrected(f, s, a) THEN GivenLang(a, i)
    ELSE IF i \in Fixed(f, s, a) THEN s.primary
    ELSE IF i \in Kept(f, s, a) THEN Lang(f, i) ELSE f.tracks[i].lang

-----------------------------------------------------------------------------
(* The names of extracted subtitles: language, forced, number.             *)

\* _build_srt_path: the name with the k-th number not yet used.
FreeName(lang, forced, k, used) ==
    CHOOSE name \in {<<lang, forced, n>> : n \in 1 .. Cardinality(used) + k} :
        /\ name \notin used
        /\ Cardinality({n \in 1 .. name[3] : <<lang, forced, n>> \notin used}) = k

SidecarLang(f, s, a, i) ==
    IF i \in Fixed(f, s, a) THEN s.primary
    ELSE IF i \in DOMAIN a.subLang THEN a.subLang[i] ELSE Lang(f, i)

\* Variant: a name given to one track is not set aside for the next.
NamedUnchecked(f, s, a, folder) ==
    [i \in Extracted(f, s, a) |->
        FreeName(SidecarLang(f, s, a, i), f.tracks[i].forced, 1,
                 IF s.existing = "keep_both" THEN folder ELSE {})]

\* The tracks are named in turn; those the fix pass retags give up the name they
\* got and are named after the others.
Named(f, s, a, folder) ==
    LET extracted == Extracted(f, s, a)
        fixed == Fixed(f, s, a)
        lang == [i \in extracted |-> SidecarLang(f, s, a, i)]
        Ahead(j, i) == IF (j \in fixed) = (i \in fixed) THEN j <= i ELSE i \in fixed
        rank == [i \in extracted |->
                    Cardinality({j \in extracted :
                        /\ lang[j] = lang[i]
                        /\ f.tracks[j].forced = f.tracks[i].forced
                        /\ Ahead(j, i)})]
    IN  [i \in extracted |-> FreeName(lang[i], f.tracks[i].forced, rank[i],
                                      IF s.existing = "keep_both" THEN folder ELSE {})]

-----------------------------------------------------------------------------
(* Questions for the language reviews, of a file no subtitle review holds. *)

\* A defined language outside the list, on the first track that has one.
Mismatched(f, s, a) ==
    LET wrong == {i \in AudioKept(f, s) \ DOMAIN a.audioLang : Lang(f, i) # "und"}
    IN  IF HasPreferred(f, s) \/ wrong = {} THEN {} ELSE {Min(wrong)}

UndefinedFlags(f, s, a) ==
    IF OverThreshold(f, s, a)
    THEN IF a.ack THEN {} ELSE CountedUndefined(f, a) \ DOMAIN a.audioLang
    ELSE IF s.undAudio = "always_ask" THEN UndefinedAudio(f, s, a) ELSE {}

SubFlags(f, s, a) == IF s.undSubs = "always_ask" THEN UndefinedSubs(f, s, a) ELSE {}

-----------------------------------------------------------------------------
(* What is to be done, and the file FFmpeg makes of it.                    *)

Removed(f, s, a) == (Streams(f, "audio") \cup Streams(f, "subtitle")) \ Kept(f, s, a)

HasWork(f, s, a) ==
    \/ Removed(f, s, a) # {}
    \/ Converts(f, s, a)
    \/ AddsFaststart(f, s)
    \/ Fixed(f, s, a) # {}
    \/ Corrected(f, s, a) # {}

\* The video, the kept audio and the kept subtitles, each in source order.
Mapped(f, s, a) ==
    Ordered(Streams(f, "video")) \o Ordered(AudioKept(f, s)) \o Ordered(Embedded(f, s, a))

\* MP4 holds no two-letter tag: FFmpeg drops it without a word.
Muxed(container, lang) ==
    IF container = "mp4" /\ lang \in TwoLetter THEN "und" ELSE lang

OutputFast(f, s, a) ==
    /\ Target(f, s, a) = "mp4" /\ s.faststart
    /\ Converts(f, s, a) \/ AddsFaststart(f, s) \/ f.fast

Output(f, s, a) ==
    LET target == Target(f, s, a)
        map == Mapped(f, s, a)
    IN  [container |-> target,
         tracks |-> [n \in DOMAIN map |->
             [f.tracks[map[n]] EXCEPT
                 !.lang = Muxed(target, LangWritten(f, s, a, map[n]))]],
         fonts |-> f.fonts /\ target # "mp4",
         fast |-> OutputFast(f, s, a),
         original |-> f.original]
=============================================================================
