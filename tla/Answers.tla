------------------------------- MODULE Answers -------------------------------
(***************************************************************************)
(* scanner's ledger of per-track answers: an answer is stored under a      *)
(* descriptor of its track, which a remux leaves alone, and is found again *)
(* by it; after a job of Remuxarr's own it is carried to the track's new   *)
(* descriptor.                                                             *)
(*                                                                         *)
(* A stored column is a function from descriptors to answers.  A           *)
(* descriptor is the track's shape and its ordinal among the tracks of     *)
(* that shape; of the shape the type, the codec and the forced flag are    *)
(* kept here, and the language is not part of it.                          *)
(***************************************************************************)
EXTENDS Naturals, FiniteSets, Sequences, TLC, FiniteSetsExt, SequencesExt, StreamMaps

Shape(track) == <<track.type, track.kind, track.forced>>

Descriptor(tracks, i) ==
    <<Shape(tracks[i]), Cardinality({j \in 1 .. i : Shape(tracks[j]) = Shape(tracks[i])})>>

Descriptors(tracks) == {Descriptor(tracks, i) : i \in DOMAIN tracks}

StreamOf(tracks, key) == CHOOSE i \in DOMAIN tracks : Descriptor(tracks, i) = key

\* Stored answers by the stream index their track has now.
Resolve(stored, tracks) ==
    [i \in {i \in DOMAIN tracks : Descriptor(tracks, i) \in DOMAIN stored} |->
        stored[Descriptor(tracks, i)]]

OfType(tracks, type, without) ==
    Ordered({i \in DOMAIN tracks : tracks[i].type = type} \ without)

\* Variant: a track stays where it was.
SameIndex(before, after, removed) ==
    [i \in (DOMAIN before \ removed) \cap DOMAIN after |-> i]

\* Where each track a job kept now sits.  A type whose counts differ is left out.
JobMapping(before, after, removed) ==
    LET pairs == UNION {
            LET kept == OfType(before, type, removed)
                out == OfType(after, type, {})
            IN  IF Len(kept) # Len(out) THEN {}
                ELSE {<<kept[n], out[n]>> : n \in DOMAIN kept} :
            type \in {"video", "audio", "subtitle"}}
    IN  [i \in {p[1] : p \in pairs} |-> (CHOOSE p \in pairs : p[1] = i)[2]]

\* Variant: the answers keep the descriptors they were stored under.
RekeyNothing(stored, before, after, mapping) == stored

Rekey(stored, before, after, mapping) ==
    LET found == Resolve(stored, before)
        carried == {i \in DOMAIN found \cap DOMAIN mapping :
                       after[mapping[i]].type = before[i].type}
    IN  [key \in {Descriptor(after, mapping[i]) : i \in carried} |->
            found[CHOOSE i \in carried : Descriptor(after, mapping[i]) = key]]

\* What tells a file replaced from outside from the one answered for.
TrackShapes(tracks) == [i \in DOMAIN tracks |-> <<Shape(tracks[i]), tracks[i].lang>>]
=============================================================================
