--------------------------- MODULE MCRevertPoints ---------------------------
(***************************************************************************)
(* RevertPoints for the model checker: files whose tracks are hard to tell *)
(* apart once a job has been at them.                                      *)
(***************************************************************************)
EXTENDS RevertPoints

Stream(id, type, codec, shape, lang, default) ==
    [id |-> id, type |-> type, codec |-> codec, shape |-> shape, lang |-> lang,
     default |-> default, lossy |-> FALSE]

Video == Stream("v", "video", "h264", 1080, "und", TRUE)
Font == Stream("f", "attachment", "ttf", 0, "none", FALSE)
Cover == Stream("c", "cover", "png", 0, "none", FALSE)
Aac(id, lang, default) == Stream(id, "audio", "aac", 6, lang, default)
Pgs(id, lang) == Stream(id, "subtitle", "pgs", 0, lang, FALSE)

\* Another release of the same layout.
Upgrade(file) == [i \in DOMAIN file |-> [file[i] EXCEPT !.id = @ \o "-new"]]
Case(file, require, reencode) ==
    [file |-> file, other |-> Upgrade(file), require |-> require, reencode |-> reencode]

\* A French track that goes and an untagged one that is tagged.
Untagged == <<Video, Aac("a1", "fre", TRUE), Aac("a2", "und", FALSE),
              Stream("s1", "subtitle", "subrip", 0, "eng", FALSE), Font, Cover>>

\* Two subtitles alike in everything.
Twins == <<Video, Aac("a1", "eng", TRUE), Pgs("s1", "eng"), Pgs("s2", "eng"), Font>>

PlainCases == {Case(Untagged, TRUE, FALSE), Case(Twins, FALSE, TRUE)}

\* An untagged subtitle that, once tagged, looks like the one removed.
Lookalikes == {Case(<<Video, Aac("a1", "eng", TRUE), Pgs("s1", "eng"), Pgs("s2", "und")>>,
                    TRUE, FALSE)}

\* A forged track in a language that goes, beside an AC3 of the release.
OwnAc3 == {Case(<<Video, Aac("a1", "fre", TRUE), Stream("a2", "audio", "aac", 2, "eng", FALSE),
                Stream("a3", "audio", "ac3", 6, "eng", FALSE)>>, TRUE, FALSE)}
=============================================================================
