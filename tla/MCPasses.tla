------------------------------ MODULE MCPasses -------------------------------
(***************************************************************************)
(* Passes for the model checker.  One family of cases varies the audio     *)
(* tracks and the settings about them, the other the subtitles; they meet  *)
(* only in the container, which both vary.                                 *)
(***************************************************************************)
EXTENDS Passes

Video == [id |-> "v", type |-> "video", kind |-> "h264", lang |-> "und",
          default |-> TRUE, forced |-> FALSE]
Audio(id, lang, kind, default) ==
    [id |-> id, type |-> "audio", kind |-> kind, lang |-> lang,
     default |-> default, forced |-> FALSE]
Sub(id, lang, kind, forced) ==
    [id |-> id, type |-> "subtitle", kind |-> kind, lang |-> lang,
     default |-> FALSE, forced |-> forced]

File(container, tracks, fonts, original) ==
    [container |-> container, tracks |-> tracks, fonts |-> fonts,
     fast |-> FALSE, original |-> original]

Defaults ==
    [keepAudio |-> {"eng"}, keepSubs |-> {"eng"}, keepForced |-> TRUE,
     keepUnd |-> FALSE, keepDefault |-> TRUE, preferMp4 |-> TRUE,
     threshold |-> 2, extract |-> TRUE, faststart |-> TRUE,
     images |-> "always_ask", fonts |-> "always_ask",
     undAudio |-> "always_leave", applyAudio |-> "all_undefined_per_type",
     undSubs |-> "always_leave", applySubs |-> "all_undefined_per_type",
     primary |-> "eng", original |-> "off", existing |-> "keep_both"]

Case(f, s, g, beside) ==
    [file |-> f, settings |-> s, forged |-> g, sidecar |-> beside]

UndAudio ==
    {<<"always_leave", "all_undefined">>, <<"always_ask", "all_undefined">>,
     <<"always_fix", "all_undefined">>, <<"always_fix", "single_per_type">>,
     <<"always_fix", "all_undefined_per_type">>}

AudioSettings ==
    {[Defaults EXCEPT !.undAudio = u[1], !.applyAudio = u[2], !.primary = v[1],
                      !.original = v[2], !.keepDefault = v[3]] :
        u \in UndAudio,
        v \in {<<"eng", "off", TRUE>>, <<"eng", "off", FALSE>>,
               <<"jpn", "keep_both", TRUE>>, <<"jpn", "original_only", FALSE>>}}

First == {Audio("a1", l, "aac", d) : l \in {"en", "jpn", "und"}, d \in BOOLEAN}
Second == {Audio("a2", l, k, FALSE) : l \in {"eng", "jpn", "und"}, k \in {"aac", "ac3"}}

\* MP4 cannot hold the two-letter tag.
AudioCases ==
    {Case(File(c, <<Video>> \o as, FALSE, "jpn"), s, g, FALSE) :
        c \in {"mkv", "mp4"},
        as \in {<<a>> : a \in First} \cup {<<a, b>> : a \in First, b \in Second},
        s \in AudioSettings, g \in BOOLEAN}

SubTracks(id) ==
    {Sub(id, l[1], k, l[2]) :
        l \in {<<"en", FALSE>>, <<"jpn", TRUE>>, <<"und", FALSE>>},
        k \in {"pgs", "ass", "subrip", "webvtt"}}

SubSettings ==
    {[Defaults EXCEPT !.undSubs = u[1], !.applySubs = u[2], !.extract = v[1],
                      !.keepUnd = v[2], !.images = v[3], !.fonts = v[3], !.existing = v[4]] :
        u \in {<<"always_leave", "all_undefined">>, <<"always_ask", "all_undefined">>,
               <<"always_fix", "all_undefined">>, <<"always_fix", "all_undefined_per_type">>},
        v \in {<<TRUE, TRUE, "always_ask", "keep_both">>,
               <<TRUE, FALSE, "always_keep", "replace">>,
               <<TRUE, TRUE, "always_remove", "embedded_first">>,
               <<FALSE, TRUE, "always_ask", "keep_both">>,
               <<FALSE, FALSE, "always_keep", "keep_both">>}}

\* A Japanese track before the subtitles, so that streams are renumbered.
SubCases ==
    {Case(File("mkv", <<Video, Audio("a1", "jpn", "dts", FALSE),
                        Audio("a2", "eng", "aac", TRUE), p, q>>, TRUE, ""), s, FALSE, TRUE) :
        p \in SubTracks("s1"), q \in SubTracks("s2"), s \in SubSettings}

AllCases ==
    {c \in AudioCases : c.file.container = "mp4" =>
        \A i \in DOMAIN c.file.tracks : c.file.tracks[i].lang # "en"}
        \cup SubCases
=============================================================================
