----------------------------- MODULE MCFileLife ------------------------------
(***************************************************************************)
(* FileLife for the model checker: a file with language questions and one  *)
(* with a subtitle review, each with a file to replace it.                 *)
(***************************************************************************)
EXTENDS FileLife

Track(id, type, kind, lang) ==
    [id |-> id, type |-> type, kind |-> kind, lang |-> lang, default |-> FALSE, forced |-> FALSE]
File(tracks) ==
    [container |-> "mkv", tracks |-> <<Track("v", "video", "h264", "und")>> \o tracks,
     fonts |-> FALSE, fast |-> FALSE, original |-> ""]

Settings(undefined, images) ==
    [keepAudio |-> {"eng"}, keepSubs |-> {"eng"}, keepForced |-> TRUE,
     keepUnd |-> FALSE, keepDefault |-> TRUE, preferMp4 |-> FALSE,
     threshold |-> 5, extract |-> TRUE, faststart |-> FALSE,
     images |-> images, fonts |-> "always_ask",
     undAudio |-> undefined, applyAudio |-> "all_undefined",
     undSubs |-> "always_leave", applySubs |-> "all_undefined",
     primary |-> "eng", original |-> "off", existing |-> "keep_both"]

\* The French track goes and the undefined ones move up.
Untagged == File(<<Track("a1", "audio", "aac", "fre"), Track("a2", "audio", "aac", "und"),
                   Track("a3", "audio", "aac", "und")>>)
Upgrade == File(<<Track("b1", "audio", "aac", "und"), Track("b2", "audio", "aac", "jpn")>>)

Pictures == File(<<Track("a1", "audio", "aac", "eng"), Track("s1", "subtitle", "pgs", "eng"),
                   Track("s2", "subtitle", "pgs", "eng")>>)
OtherPictures == File(<<Track("c1", "audio", "aac", "eng"), Track("t1", "subtitle", "pgs", "ger"),
                        Track("t2", "subtitle", "pgs", "eng")>>)

LanguageCase ==
    [file |-> Untagged, other |-> Upgrade, settings |-> Settings("always_ask", "always_keep")]
ReviewCase ==
    [file |-> Pictures, other |-> OtherPictures, settings |-> Settings("always_leave", "always_ask")]

\* A file with questions gives way to one with a review.
BothCase ==
    [file |-> Upgrade, other |-> OtherPictures, settings |-> Settings("always_ask", "always_ask")]

TwoCases == {LanguageCase, ReviewCase}
OneCase == {BothCase}
=============================================================================
