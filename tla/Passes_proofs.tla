---------------------------- MODULE Passes_proofs ----------------------------
(***************************************************************************)
(* What is proved of Passes, for any files, settings, tags, answers and    *)
(* folders that meet CasesGiven and any number of questions answered.      *)
(*                                                                         *)
(* Streams are sets of indices put in order.  That needs no induction: a   *)
(* member's place is its rank, how many come no later than it; no two have *)
(* the same, so by counting each rank up to the set's size is taken.  From *)
(* this follow the order of the output's tracks, that a descriptor names   *)
(* one track, and that the n-th free name of a subtitle exists.            *)
(*                                                                         *)
(* IInv is what the passes keep: a pass reads a file that has audio and    *)
(* whose subtitles' codecs are known, and writes one.                      *)
(***************************************************************************)
EXTENDS Passes, FiniteSetTheorems, TLAPS

-----------------------------------------------------------------------------
(* Streams in order                                                        *)

\* A later member of a set has a higher rank, and ranks run from 1 to the number
\* of members.
LEMMA RankFits ==
    ASSUME NEW S \in SUBSET Nat, IsFiniteSet(S)
    PROVE  /\ Cardinality(S) \in Nat
           /\ \A i \in S : Rank(S, i) \in 1 .. Cardinality(S)
           /\ \A i, j \in S : i < j => Rank(S, i) < Rank(S, j)
<1>1. Cardinality(S) \in Nat
  BY FS_CardinalityType
<1>2. ASSUME NEW i \in S
      PROVE  /\ IsFiniteSet({k \in S : k <= i})
             /\ Rank(S, i) \in Nat /\ Rank(S, i) <= Cardinality(S) /\ Rank(S, i) # 0
  <2>1. {k \in S : k <= i} \in SUBSET S /\ {k \in S : k <= i} # {}
    OBVIOUS
  <2>2. IsFiniteSet({k \in S : k <= i}) /\ Rank(S, i) <= Cardinality(S)
    BY <2>1, FS_Subset DEF Rank
  <2>3. Rank(S, i) \in Nat /\ Rank(S, i) # 0
    BY <2>1, <2>2, FS_CardinalityType, FS_EmptySet DEF Rank
  <2> QED BY <2>2, <2>3
<1>3. ASSUME NEW i \in S, NEW j \in S, i < j PROVE Rank(S, i) < Rank(S, j)
  <2> DEFINE I == {k \in S : k <= i}
             J == {k \in S : k <= j}
  <2>0. i \in Nat /\ j \in Nat
    OBVIOUS
  <2>1. \A k \in S : k <= i => k <= j
    BY <1>3, <2>0
  <2>2. j \in J /\ j \notin I
    BY <1>3, <2>0
  <2>3. I \in SUBSET J /\ I # J
    BY <2>1, <2>2
  <2>4. Cardinality(I) <= Cardinality(J) /\ Cardinality(I) # Cardinality(J)
    <3>1. IsFiniteSet(J)
      BY <1>2
    <3> HIDE DEF I, J
    <3> QED BY <2>3, <3>1, FS_Subset
  <2>5. Rank(S, i) = Cardinality(I) /\ Rank(S, j) = Cardinality(J)
    BY DEF Rank
  <2>6. Rank(S, i) \in Nat /\ Rank(S, j) \in Nat
    BY <1>2
  <2> HIDE DEF I, J
  <2> QED BY <2>4, <2>5, <2>6
<1>4. ASSUME NEW i \in S PROVE Rank(S, i) \in 1 .. Cardinality(S)
  <2>1. Rank(S, i) \in Nat /\ Rank(S, i) <= Cardinality(S) /\ Rank(S, i) # 0
    BY <1>2
  <2> QED BY <1>1, <2>1
<1> QED BY <1>1, <1>3, <1>4

\* Each rank is that of one member: by counting, since no two have the same.
LEMMA RankTaken ==
    ASSUME NEW S \in SUBSET Nat, IsFiniteSet(S), NEW n \in 1 .. Cardinality(S)
    PROVE  \E i \in S : Rank(S, i) = n
<1> SUFFICES ASSUME \A i \in S : Rank(S, i) # n PROVE FALSE
  OBVIOUS
<1> DEFINE T == (1 .. Cardinality(S)) \ {n}
           f == [i \in S |-> Rank(S, i)]
<1>1. Cardinality(S) \in Nat
  BY FS_CardinalityType
<1>2. IsFiniteSet(T) /\ Cardinality(T) = Cardinality(S) - 1
  <2>1. IsFiniteSet(1 .. Cardinality(S)) /\ Cardinality(1 .. Cardinality(S)) = Cardinality(S)
    BY <1>1, FS_Interval
  <2> QED BY <2>1, FS_RemoveElement
<1>3. f \in [S -> T]
  BY RankFits
<1>4. PICK i, j \in S : i # j /\ f[i] = f[j]
  <2> HIDE DEF T, f
  <2>1. Cardinality(T) < Cardinality(S)
    BY <1>1, <1>2
  <2> QED BY <1>2, <1>3, <2>1, FS_PigeonHole
<1>5. i < j \/ j < i
  BY <1>4
<1>6. Rank(S, i) = Rank(S, j) /\ Rank(S, i) \in Nat /\ Rank(S, j) \in Nat
  BY <1>4, RankFits
<1> QED BY <1>5, <1>6, RankFits

\* Ordered lists the members of a set, each once, the lowest first.
LEMMA OrderedFits ==
    ASSUME NEW S \in SUBSET Nat, IsFiniteSet(S)
    PROVE  /\ Ordered(S) \in Seq(S) /\ Len(Ordered(S)) = Cardinality(S)
           /\ \A i \in S : Rank(S, i) \in DOMAIN Ordered(S) /\ Ordered(S)[Rank(S, i)] = i
           /\ \A n \in DOMAIN Ordered(S) : Rank(S, Ordered(S)[n]) = n
<1>1. Cardinality(S) \in Nat
  BY FS_CardinalityType
<1>2. DOMAIN Ordered(S) = 1 .. Cardinality(S)
  BY DEF Ordered
<1>3. ASSUME NEW n \in 1 .. Cardinality(S)
      PROVE  Ordered(S)[n] \in S /\ Rank(S, Ordered(S)[n]) = n
  BY <1>3, RankTaken DEF Ordered
<1>4. Ordered(S) \in [1 .. Cardinality(S) -> S]
  BY <1>3 DEF Ordered
<1>5. Ordered(S) \in Seq(S) /\ Len(Ordered(S)) = Cardinality(S)
  BY <1>1, <1>4
<1>6. ASSUME NEW i \in S
      PROVE  Rank(S, i) \in DOMAIN Ordered(S) /\ Ordered(S)[Rank(S, i)] = i
  <2> DEFINE n == Rank(S, i)
             j == Ordered(S)[n]
  <2>1. n \in 1 .. Cardinality(S) /\ j \in S /\ Rank(S, j) = n
    BY <1>3, RankFits
  <2>2. i = j
    <3> HIDE DEF j
    <3>1. i \in Nat /\ j \in Nat /\ Rank(S, i) \in Nat /\ Rank(S, j) \in Nat
      BY <2>1
    <3>2. ~(i < j) /\ ~(j < i)
      BY <2>1, <3>1, RankFits
    <3> QED BY <3>1, <3>2
  <2> QED BY <1>2, <2>1, <2>2
<1> QED BY <1>2, <1>3, <1>5, <1>6

\* A set of streams that is not empty has a lowest one.
LEMMA MinFits ==
    ASSUME NEW S \in SUBSET Nat, IsFiniteSet(S), S # {}
    PROVE  Min(S) \in S /\ \A i \in S : Min(S) <= i
<1>1. Cardinality(S) \in Nat /\ Cardinality(S) # 0
  BY FS_CardinalityType, FS_EmptySet
<1>2. PICK m \in S : Rank(S, m) = 1
  <2>1. 1 \in 1 .. Cardinality(S)
    BY <1>1
  <2> QED BY <2>1, RankTaken
<1>3. ASSUME NEW i \in S PROVE m <= i
  <2>1. i \in Nat /\ m \in Nat /\ Rank(S, i) \in Nat /\ Rank(S, i) >= 1
    BY RankFits
  <2>2. i < m => Rank(S, i) < Rank(S, m)
    BY RankFits
  <2> QED BY <1>2, <2>1, <2>2
<1> QED BY <1>3 DEF Min

\* What a type's streams are: some of the file's.
LEMMA StreamsFit ==
    ASSUME NEW f \in MediaFiles, NEW type
    PROVE  /\ DOMAIN f.tracks = 1 .. Len(f.tracks) /\ Len(f.tracks) \in Nat
           /\ DOMAIN f.tracks \in SUBSET Nat /\ IsFiniteSet(DOMAIN f.tracks)
           /\ \A i \in DOMAIN f.tracks : f.tracks[i] \in Tracks
           /\ Streams(f, type) \in SUBSET DOMAIN f.tracks
           /\ \A T \in SUBSET DOMAIN f.tracks : T \in SUBSET Nat /\ IsFiniteSet(T)
<1>1. f.tracks \in Seq(Tracks)
  BY DEF MediaFiles
<1>2. /\ DOMAIN f.tracks = 1 .. Len(f.tracks) /\ Len(f.tracks) \in Nat
      /\ DOMAIN f.tracks \in SUBSET Nat
      /\ \A i \in DOMAIN f.tracks : f.tracks[i] \in Tracks
  BY <1>1
<1>3. IsFiniteSet(DOMAIN f.tracks)
  BY <1>2, FS_Interval
<1>4. \A T \in SUBSET DOMAIN f.tracks : T \in SUBSET Nat /\ IsFiniteSet(T)
  BY <1>2, <1>3, FS_Subset
<1> QED BY <1>2, <1>3, <1>4 DEF Streams

-----------------------------------------------------------------------------
(* What is kept, and what the output is made of                            *)

\* The audio that is kept is of the file, and there is some if the file has any.
LEMMA AudioKeptFits ==
    ASSUME NEW f \in MediaFiles, NEW s
    PROVE  /\ AudioKept(f, s) \in SUBSET Streams(f, "audio")
           /\ Streams(f, "audio") # {} => AudioKept(f, s) # {}
<1>1. Streams(f, "audio") # {} => Min(Streams(f, "audio")) \in Streams(f, "audio")
  BY StreamsFit, MinFits
<1> QED BY <1>1 DEF AudioKept

\* A sequence of the members of a set, none left out.
Lists(p, S) == p \in Seq(S) /\ \A i \in S : \E n \in DOMAIN p : p[n] = i

\* One after the other, two of them list both sets.
LEMMA ConcatLists ==
    ASSUME NEW S, NEW T, NEW p, NEW q, Lists(p, S), Lists(q, T)
    PROVE  Lists(p \o q, S \cup T)
<1>1. p \in Seq(S) /\ q \in Seq(T)
  BY DEF Lists
<1>2. p \o q \in Seq(S \cup T) /\ DOMAIN (p \o q) = 1 .. Len(p) + Len(q)
  BY <1>1
<1>3. ASSUME NEW i \in S PROVE \E k \in DOMAIN (p \o q) : (p \o q)[k] = i
  <2>1. PICK n \in DOMAIN p : p[n] = i
    BY DEF Lists
  <2>2. n \in DOMAIN (p \o q) /\ (p \o q)[n] = i
    BY <1>1, <1>2, <2>1
  <2> QED BY <2>2
<1>4. ASSUME NEW i \in T PROVE \E k \in DOMAIN (p \o q) : (p \o q)[k] = i
  <2>1. PICK n \in DOMAIN q : q[n] = i
    BY DEF Lists
  <2>2. n + Len(p) \in DOMAIN (p \o q) /\ (p \o q)[n + Len(p)] = i
    BY <1>1, <1>2, <2>1
  <2> QED BY <2>2
<1> QED BY <1>2, <1>3, <1>4 DEF Lists

\* The output's streams are, in order, the video, the audio kept and the
\* subtitles kept, each a stream of the file, and all of them.
LEMMA MappedFits ==
    ASSUME NEW f \in MediaFiles, NEW s, NEW a
    PROVE  /\ Lists(Mapped(f, s, a),
                    Streams(f, "video") \cup AudioKept(f, s) \cup Embedded(f, s, a))
           /\ Streams(f, "video") \cup AudioKept(f, s) \cup Embedded(f, s, a)
                \in SUBSET DOMAIN f.tracks
<1> DEFINE V == Streams(f, "video")
           A == AudioKept(f, s)
           E == Embedded(f, s, a)
<1>1. V \in SUBSET DOMAIN f.tracks /\ A \in SUBSET DOMAIN f.tracks
      /\ E \in SUBSET DOMAIN f.tracks
  BY StreamsFit, AudioKeptFits DEF Embedded
<1>2. ASSUME NEW T \in SUBSET DOMAIN f.tracks PROVE Lists(Ordered(T), T)
  BY StreamsFit, OrderedFits DEF Lists
<1>3. Mapped(f, s, a) = (Ordered(V) \o Ordered(A)) \o Ordered(E)
  BY DEF Mapped
<1> HIDE DEF V, A, E
<1>4. Lists(Ordered(V), V) /\ Lists(Ordered(A), A) /\ Lists(Ordered(E), E)
  BY <1>1, <1>2
<1>5. Lists(Ordered(V) \o Ordered(A), V \cup A)
  BY <1>4, ConcatLists
<1>6. Lists((Ordered(V) \o Ordered(A)) \o Ordered(E), (V \cup A) \cup E)
  BY <1>4, <1>5, ConcatLists
<1> QED BY <1>1, <1>3, <1>6 DEF V, A, E

\* The output is a file: its streams are the mapped ones, but for their tags.
LEMMA OutputFits ==
    ASSUME NEW f \in MediaFiles, NEW s, s.primary \in Languages, NEW a,
           \A i \in DOMAIN a.audioLang : a.audioLang[i] \in Languages,
           \A i \in DOMAIN a.subLang : a.subLang[i] \in Languages
    PROVE  LET out == Output(f, s, a)
               map == Mapped(f, s, a)
           IN  /\ out \in MediaFiles
               /\ out.container = Target(f, s, a)
               /\ DOMAIN out.tracks = DOMAIN map
               /\ \A n \in DOMAIN map :
                     /\ map[n] \in DOMAIN f.tracks
                     /\ out.tracks[n].id = f.tracks[map[n]].id
                     /\ out.tracks[n].type = f.tracks[map[n]].type
                     /\ out.tracks[n].kind = f.tracks[map[n]].kind
                     /\ out.tracks[n].lang = Muxed(Target(f, s, a), LangWritten(f, s, a, map[n]))
<1> DEFINE map == Mapped(f, s, a)
           target == Target(f, s, a)
           Written(i) == Muxed(target, LangWritten(f, s, a, i))
           tracks == [n \in DOMAIN map |-> [f.tracks[map[n]] EXCEPT !.lang = Written(map[n])]]
<1>1. map \in Seq(DOMAIN f.tracks)
  <2>1. DEFINE W == Streams(f, "video") \cup AudioKept(f, s) \cup Embedded(f, s, a)
  <2>2. map \in Seq(W) /\ W \in SUBSET DOMAIN f.tracks
    BY MappedFits DEF Lists
  <2> HIDE DEF W, map
  <2> QED BY <2>2
<1>2. ASSUME NEW i \in DOMAIN f.tracks PROVE Written(i) \in Languages
  <2>1. f.tracks[i].lang \in Languages
    BY StreamsFit DEF Tracks
  <2>s. "eng" \in Languages /\ "und" \in Languages
    BY LanguagesGiven
  <2>2. Lang(f, i) \in Languages
    BY <2>1, <2>s DEF Lang, Canonical
  <2>3. i \in Corrected(f, s, a) => GivenLang(a, i) \in Languages
    BY DEF Corrected, GivenLang
  <2>4. LangWritten(f, s, a, i) \in Languages
    BY <2>1, <2>2, <2>3 DEF LangWritten
  <2> QED BY <2>4, <2>s DEF Muxed
<1>3. target \in {"mkv", "mp4"}
  BY DEF Target, MediaFiles
<1>4. Output(f, s, a) = [container |-> target, tracks |-> tracks,
                         fonts |-> f.fonts /\ target # "mp4",
                         fast |-> OutputFast(f, s, a), original |-> f.original]
  BY DEF Output
<1> HIDE DEF map, target, Written
<1>5. ASSUME NEW n \in DOMAIN map
      PROVE  /\ map[n] \in DOMAIN f.tracks
             /\ tracks[n] \in Tracks
             /\ tracks[n].id = f.tracks[map[n]].id
             /\ tracks[n].type = f.tracks[map[n]].type
             /\ tracks[n].kind = f.tracks[map[n]].kind
             /\ tracks[n].lang = Written(map[n])
  <2>1. map[n] \in DOMAIN f.tracks
    BY <1>1
  <2>2. f.tracks[map[n]] \in Tracks /\ Written(map[n]) \in Languages
    BY <1>2, <2>1, StreamsFit
  <2>3. tracks[n] = [f.tracks[map[n]] EXCEPT !.lang = Written(map[n])]
    OBVIOUS
  <2> HIDE DEF tracks
  <2> QED BY <2>1, <2>2, <2>3 DEF Tracks
<1>6. tracks \in Seq(Tracks) /\ DOMAIN tracks = DOMAIN map
  <2>1. DOMAIN map = 1 .. Len(map) /\ Len(map) \in Nat
    BY <1>1
  <2>2. tracks \in [1 .. Len(map) -> Tracks]
    BY <1>5, <2>1
  <2> QED BY <2>1, <2>2
<1> HIDE DEF tracks
<1>7. Output(f, s, a) \in MediaFiles
  <2>1. /\ (f.fonts /\ target # "mp4") \in BOOLEAN
        /\ OutputFast(f, s, a) \in BOOLEAN
        /\ f.original \in STRING
    BY DEF OutputFast, MediaFiles
  <2> QED BY <1>3, <1>4, <1>6, <2>1 DEF MediaFiles
<1> QED BY <1>4, <1>5, <1>6, <1>7 DEF map, target, Written

\* The output has audio if the file has, and can be muxed if the file could be
\* read: what is put into an MP4 was one already or is checked track by track.
LEMMA OutputHolds ==
    ASSUME NEW f \in MediaFiles, NEW s, s.primary \in Languages, NEW a,
           \A i \in DOMAIN a.audioLang : a.audioLang[i] \in Languages,
           \A i \in DOMAIN a.subLang : a.subLang[i] \in Languages,
           \A i \in Streams(f, "subtitle") : Kind(f, i) \in SubtitleKinds,
           Streams(f, "audio") # {}, Muxable(f)
    PROVE  LET out == Output(f, s, a)
           IN  /\ \A i \in Streams(out, "subtitle") : Kind(out, i) \in SubtitleKinds
               /\ Streams(out, "audio") # {}
               /\ Muxable(out)
<1> DEFINE out == Output(f, s, a)
           map == Mapped(f, s, a)
<1>1. /\ DOMAIN out.tracks = DOMAIN map
      /\ out.container = Target(f, s, a)
      /\ \A n \in DOMAIN map : /\ map[n] \in DOMAIN f.tracks
                               /\ out.tracks[n].type = f.tracks[map[n]].type
                               /\ out.tracks[n].kind = f.tracks[map[n]].kind
  BY OutputFits
<1>2. /\ \A n \in DOMAIN map :
            map[n] \in Streams(f, "video") \cup AudioKept(f, s) \cup Embedded(f, s, a)
      /\ \A i \in AudioKept(f, s) : \E n \in DOMAIN map : map[n] = i
  <2> DEFINE W == Streams(f, "video") \cup AudioKept(f, s) \cup Embedded(f, s, a)
  <2>1. Lists(map, W) /\ AudioKept(f, s) \subseteq W
    BY MappedFits
  <2> HIDE DEF W, map
  <2>2. \A n \in DOMAIN map : map[n] \in W
    BY <2>1 DEF Lists
  <2>3. \A i \in AudioKept(f, s) : \E n \in DOMAIN map : map[n] = i
    BY <2>1 DEF Lists
  <2> QED BY <2>2, <2>3 DEF W
<1>3. AudioKept(f, s) # {} /\ AudioKept(f, s) \subseteq Streams(f, "audio")
  BY AudioKeptFits
<1> HIDE DEF out, map
<1>4. Streams(out, "audio") # {}
  <2>1. PICK i : i \in AudioKept(f, s)
    BY <1>3
  <2>2. PICK n \in DOMAIN map : map[n] = i
    BY <1>2, <2>1
  <2>3. f.tracks[i].type = "audio"
    BY <1>3, <2>1 DEF Streams
  <2>4. n \in Streams(out, "audio")
    BY <1>1, <2>2, <2>3 DEF Streams
  <2> QED BY <2>4
<1>5. ASSUME NEW n \in Streams(out, "subtitle") PROVE Kind(out, n) \in SubtitleKinds
  BY <1>1 DEF Streams, Kind
<1>6. ASSUME out.container = "mp4", NEW n \in DOMAIN map
      PROVE  out.tracks[n].kind \in Mp4Video \cup Mp4Audio \cup {"mov_text"}
  <2>1. CASE Converts(f, s, a)
    <3>1. \A i \in Embedded(f, s, a) : Kind(f, i) \in {"mov_text"}
      BY <2>1 DEF Converts, Embedded, SubtitleKinds
    <3>2. Kind(f, map[n]) \in Mp4Video \cup Mp4Audio \cup {"mov_text"}
      BY <1>2, <2>1, <3>1 DEF Converts
    <3> QED BY <1>1, <3>2 DEF Kind
  <2>2. CASE ~Converts(f, s, a)
    <3>1. f.container = "mp4"
      BY <1>1, <1>6, <2>2 DEF Target
    <3> QED BY <1>1, <3>1 DEF Muxable, Kind
  <2> QED BY <2>1, <2>2
<1>7. Muxable(out)
  BY <1>1, <1>6 DEF Muxable, Kind
<1> QED BY <1>4, <1>5, <1>7 DEF out

-----------------------------------------------------------------------------
(* Answers and their tracks                                                *)

\* Two tracks of a file never share a descriptor: an answer is that of one track.
LEMMA DescriptorTells ==
    ASSUME NEW f \in MediaFiles, NEW i \in DOMAIN f.tracks, NEW j \in DOMAIN f.tracks,
           Descriptor(f.tracks, i) = Descriptor(f.tracks, j)
    PROVE  i = j
<1> DEFINE S == {k \in DOMAIN f.tracks : Shape(f.tracks[k]) = Shape(f.tracks[i])}
<1>1. S \in SUBSET Nat /\ IsFiniteSet(S) /\ i \in S
  BY StreamsFit
<1>2. Shape(f.tracks[i]) = Shape(f.tracks[j])
  BY DEF Descriptor
<1>3. j \in S
  BY <1>2
<1>4. ASSUME NEW k \in S
      PROVE  {l \in 1 .. k : Shape(f.tracks[l]) = Shape(f.tracks[k])} = {l \in S : l <= k}
  <2>1. k \in 1 .. Len(f.tracks) /\ DOMAIN f.tracks = 1 .. Len(f.tracks) /\ Len(f.tracks) \in Nat
    BY StreamsFit
  <2>2. 1 .. k = {l \in DOMAIN f.tracks : l <= k}
    BY <2>1
  <2>3. Shape(f.tracks[k]) = Shape(f.tracks[i])
    OBVIOUS
  <2> QED BY <2>2, <2>3
<1>5. Rank(S, i) = Rank(S, j)
  <2>1. Cardinality({l \in 1 .. i : Shape(f.tracks[l]) = Shape(f.tracks[i])})
          = Cardinality({l \in 1 .. j : Shape(f.tracks[l]) = Shape(f.tracks[j])})
    BY DEF Descriptor
  <2>2. /\ {l \in 1 .. i : Shape(f.tracks[l]) = Shape(f.tracks[i])} = {l \in S : l <= i}
        /\ {l \in 1 .. j : Shape(f.tracks[l]) = Shape(f.tracks[j])} = {l \in S : l <= j}
    BY <1>1, <1>3, <1>4
  <2> HIDE DEF S
  <2> QED BY <2>1, <2>2 DEF Rank
<1> HIDE DEF S
<1>6. i \in Nat /\ j \in Nat /\ Rank(S, i) \in Nat
  <2>1. Cardinality(S) \in Nat /\ Rank(S, i) \in 1 .. Cardinality(S)
    BY <1>1, RankFits
  <2>2. i \in Nat /\ j \in Nat
    BY StreamsFit
  <2> QED BY <2>1, <2>2
<1>7. ~(i < j) /\ ~(j < i)
  BY <1>1, <1>3, <1>5, <1>6, RankFits
<1> QED BY <1>6, <1>7

\* StreamOf finds the track of a descriptor.
LEMMA StreamOfFits ==
    ASSUME NEW f \in MediaFiles, NEW i \in DOMAIN f.tracks
    PROVE  StreamOf(f.tracks, Descriptor(f.tracks, i)) = i
<1>1. \E j \in DOMAIN f.tracks : Descriptor(f.tracks, j) = Descriptor(f.tracks, i)
  OBVIOUS
<1>2. /\ StreamOf(f.tracks, Descriptor(f.tracks, i)) \in DOMAIN f.tracks
      /\ Descriptor(f.tracks, StreamOf(f.tracks, Descriptor(f.tracks, i)))
           = Descriptor(f.tracks, i)
  BY <1>1 DEF StreamOf
<1> QED BY <1>2, DescriptorTells

\* A stored column: answers of one kind, under descriptors of the file's tracks.
Column(column, tracks, S) ==
    /\ DOMAIN column \subseteq Descriptors(tracks)
    /\ \A key \in DOMAIN column : column[key] \in S

\* What is resolved from it is of the file's streams.
LEMMA ResolveFits ==
    ASSUME NEW column, NEW tracks, NEW S, Column(column, tracks, S)
    PROVE  LET found == Resolve(column, tracks)
           IN  /\ DOMAIN found \subseteq DOMAIN tracks
               /\ \A i \in DOMAIN found : found[i] \in S
  BY DEF Column, Resolve

\* Adding answers for tracks of the file keeps it one.
LEMMA UpdatedFits ==
    ASSUME NEW old, NEW new, NEW tracks, NEW S, Column(old, tracks, S), Column(new, tracks, S)
    PROVE  Column(Updated(old, new), tracks, S)
  BY DEF Column, Updated

\* Where a job leads a track is a track of its output.
LEMMA MappingFits ==
    ASSUME NEW f \in MediaFiles, NEW g \in MediaFiles, NEW removed
    PROVE  LET mapping == JobMapping(f.tracks, g.tracks, removed)
           IN  \A i \in DOMAIN mapping : mapping[i] \in DOMAIN g.tracks
<1> DEFINE In(type) == OfType(f.tracks, type, removed)
           Out(type) == OfType(g.tracks, type, {})
           Pairs(type) == IF Len(In(type)) # Len(Out(type)) THEN {}
                          ELSE {<<In(type)[n], Out(type)[n]>> : n \in DOMAIN In(type)}
           pairs == UNION {Pairs(type) : type \in {"video", "audio", "subtitle"}}
<1>1. ASSUME NEW type, NEW p \in Pairs(type) PROVE p[2] \in DOMAIN g.tracks
  <2>1. Len(In(type)) = Len(Out(type))
    OBVIOUS
  <2>2. PICK n \in DOMAIN In(type) : p = <<In(type)[n], Out(type)[n]>>
    BY <2>1
  <2>3. {i \in DOMAIN f.tracks : f.tracks[i].type = type} \ removed \in SUBSET DOMAIN f.tracks
    OBVIOUS
  <2>4. {i \in DOMAIN g.tracks : g.tracks[i].type = type} \ {} \in SUBSET DOMAIN g.tracks
    OBVIOUS
  <2>5. In(type) \in Seq(DOMAIN f.tracks)
    BY <2>3, StreamsFit, OrderedFits DEF OfType
  <2>6. Out(type) \in Seq(DOMAIN g.tracks)
    BY <2>4, StreamsFit, OrderedFits DEF OfType
  <2>7. n \in DOMAIN Out(type)
    BY <2>1, <2>2, <2>5, <2>6
  <2>8. Out(type)[n] \in DOMAIN g.tracks
    BY <2>6, <2>7
  <2> QED BY <2>2, <2>8
<1>2. \A p \in pairs : p[2] \in DOMAIN g.tracks
  BY <1>1
<1>3. JobMapping(f.tracks, g.tracks, removed) =
        [i \in {p[1] : p \in pairs} |-> (CHOOSE p \in pairs : p[1] = i)[2]]
  BY DEF JobMapping
<1> HIDE DEF pairs
<1>4. ASSUME NEW i \in {p[1] : p \in pairs}
      PROVE  (CHOOSE p \in pairs : p[1] = i)[2] \in DOMAIN g.tracks
  BY <1>2
<1> QED BY <1>3, <1>4

\* What is carried over a job is a column for its output.
LEMMA RekeyFits ==
    ASSUME NEW f \in MediaFiles, NEW g \in MediaFiles, NEW column, NEW S, NEW removed,
           Column(column, f.tracks, S)
    PROVE  Column(Rekey(column, f.tracks, g.tracks,
                        JobMapping(f.tracks, g.tracks, removed)), g.tracks, S)
<1> DEFINE mapping == JobMapping(f.tracks, g.tracks, removed)
           found == Resolve(column, f.tracks)
           carried == {i \in DOMAIN found \cap DOMAIN mapping :
                          g.tracks[mapping[i]].type = f.tracks[i].type}
           Key(i) == Descriptor(g.tracks, mapping[i])
<1>1. \A i \in DOMAIN found : found[i] \in S
  BY ResolveFits
<1>2. \A i \in DOMAIN mapping : mapping[i] \in DOMAIN g.tracks
  BY MappingFits
<1>3. Rekey(column, f.tracks, g.tracks, mapping) =
        [key \in {Key(i) : i \in carried} |-> found[CHOOSE i \in carried : Key(i) = key]]
  BY DEF Rekey
<1>4. \A i \in carried : i \in DOMAIN found /\ Key(i) \in Descriptors(g.tracks)
  <2> HIDE DEF mapping, found
  <2> QED BY <1>2 DEF Descriptors
<1> HIDE DEF found, carried, Key
<1>5. ASSUME NEW key \in {Key(i) : i \in carried}
      PROVE  found[CHOOSE i \in carried : Key(i) = key] \in S
  <2>1. \E i \in carried : Key(i) = key
    BY <1>5
  <2>2. (CHOOSE i \in carried : Key(i) = key) \in carried
    BY <2>1
  <2> QED BY <1>1, <1>4, <2>2
<1> DEFINE new == Rekey(column, f.tracks, g.tracks, mapping)
<1>6. DOMAIN new = {Key(i) : i \in carried}
  BY <1>3
<1>7. \A key \in DOMAIN new : new[key] \in S
  BY <1>3, <1>5, <1>6
<1>8. DOMAIN new \subseteq Descriptors(g.tracks)
  BY <1>4, <1>6
<1> QED BY <1>7, <1>8 DEF Column

-----------------------------------------------------------------------------
(* The passes                                                              *)

SubtitlesKnown ==
    \A i \in Streams(file, "subtitle") : Kind(file, i) \in SubtitleKinds

IInv == TypeOK /\ SubtitlesKnown /\ AudioStays /\ MuxFits

\* TypeOK by its parts: the stored columns are columns.
LEMMA TypeParts ==
    TypeOK <=> /\ stage \in {"decide", "review", "queued", "settled"}
               /\ file \in MediaFiles
               /\ settings.primary \in Languages
               /\ DOMAIN stored = Columns
               /\ \A c \in Columns : Column(stored[c], file.tracks, AnswersIn(c))
               /\ ack \in BOOLEAN /\ forged \in BOOLEAN
               /\ inputs \in 0 .. MaxInputs
  BY DEF TypeOK, Column

\* The languages given are languages.
LEMMA GivenFits ==
    ASSUME TypeOK
    PROVE  /\ \A i \in DOMAIN Given.audioLang : Given.audioLang[i] \in Languages
           /\ \A i \in DOMAIN Given.subLang : Given.subLang[i] \in Languages
<1>1. /\ Column(stored["audioLang"], file.tracks, Languages)
      /\ Column(stored["subLang"], file.tracks, Languages)
  BY TypeParts DEF Columns, AnswersIn
<1>2. /\ Given.audioLang = Resolve(stored["audioLang"], file.tracks)
      /\ Given.subLang = Resolve(stored["subLang"], file.tracks)
  BY DEF Given
<1> QED BY <1>1, <1>2, ResolveFits

\* The tracks a question is raised for are tracks of the file.
LEMMA FlagsFit ==
    ASSUME file \in MediaFiles, NEW a
    PROVE  /\ Flagged(file, settings, a) \subseteq DOMAIN file.tracks
           /\ LanguageFlags(a) \subseteq DOMAIN file.tracks
           /\ SubFlags(file, settings, a) \subseteq DOMAIN file.tracks
<1>1. /\ Streams(file, "audio") \in SUBSET DOMAIN file.tracks
      /\ Streams(file, "subtitle") \in SUBSET DOMAIN file.tracks
      /\ AudioKept(file, settings) \in SUBSET DOMAIN file.tracks
  BY StreamsFit, AudioKeptFits
<1>2. Flagged(file, settings, a) \subseteq DOMAIN file.tracks
  BY <1>1 DEF Flagged, Images, Styled, Unanswered
<1>3. ASSUME NEW rule, NEW undefined, NEW all
      PROVE  Qualifying(rule, undefined, all) \subseteq undefined
  BY DEF Qualifying
<1>4. Mismatched(file, settings, a) \subseteq DOMAIN file.tracks
  <2> DEFINE wrong == {i \in AudioKept(file, settings) \ DOMAIN a.audioLang :
                          Lang(file, i) # "und"}
  <2>1. wrong \in SUBSET DOMAIN file.tracks
    BY <1>1
  <2>2. wrong # {} => Min(wrong) \in wrong
    <3> HIDE DEF wrong
    <3> QED BY <2>1, StreamsFit, MinFits
  <2> QED BY <2>1, <2>2 DEF Mismatched
<1>5. UndefinedFlags(file, settings, a) \subseteq DOMAIN file.tracks
  <2>1. CountedUndefined(file, a) \subseteq DOMAIN file.tracks
    BY <1>1 DEF CountedUndefined, Undefined
  <2>2. UndefinedAudio(file, settings, a) \subseteq DOMAIN file.tracks
    <3>1. Undefined(file, AudioKept(file, settings)) \subseteq DOMAIN file.tracks
      BY <1>1 DEF Undefined
    <3> QED BY <1>3, <3>1 DEF UndefinedAudio
  <2> QED BY <2>1, <2>2 DEF UndefinedFlags
<1>6. SubFlags(file, settings, a) \subseteq DOMAIN file.tracks
  <2>1. Undefined(file, Embedded(file, settings, a) \cup Extracted(file, settings, a))
          \subseteq DOMAIN file.tracks
    BY <1>1 DEF Undefined, Embedded, Extracted
  <2> QED BY <1>3, <2>1 DEF SubFlags, UndefinedSubs
<1> QED BY <1>2, <1>4, <1>5, <1>6 DEF LanguageFlags

\* Answering a review, or setting a language, stores answers for tracks of the
\* file.
LEMMA AnswersStored ==
    ASSUME TypeOK, AnswerReview \/ SetLanguage
    PROVE  /\ DOMAIN stored' = Columns
           /\ \A c \in Columns : Column(stored'[c], file.tracks, AnswersIn(c))
<1>t. /\ file \in MediaFiles /\ DOMAIN stored = Columns
      /\ \A c \in Columns : Column(stored[c], file.tracks, AnswersIn(c))
  BY TypeParts
<1>1. ASSUME NEW c \in Columns, NEW new, Column(new, file.tracks, AnswersIn(c)),
             stored' = [stored EXCEPT ![c] = Updated(stored[c], new)]
      PROVE  /\ DOMAIN stored' = Columns
             /\ \A d \in Columns : Column(stored'[d], file.tracks, AnswersIn(d))
  <2>1. Column(Updated(stored[c], new), file.tracks, AnswersIn(c))
    BY <1>t, <1>1, UpdatedFits
  <2>2. /\ DOMAIN stored' = Columns
        /\ stored'[c] = Updated(stored[c], new)
        /\ \A d \in Columns \ {c} : stored'[d] = stored[d]
    BY <1>t, <1>1
  <2>3. ASSUME NEW d \in Columns PROVE Column(stored'[d], file.tracks, AnswersIn(d))
    BY <1>t, <2>1, <2>2
  <2> QED BY <2>2, <2>3
<1>2. CASE AnswerReview
  <2>1. PICK answers \in [Flagged(file, settings, Given) -> {"keep", "remove", "extract"}] :
           stored' = [stored EXCEPT !["subs"] =
             Updated(stored["subs"],
                     [key \in {Descriptor(file.tracks, i) : i \in DOMAIN answers} |->
                         answers[StreamOf(file.tracks, key)]])]
    BY <1>2 DEF AnswerReview
  <2> DEFINE new == [key \in {Descriptor(file.tracks, i) : i \in DOMAIN answers} |->
                        answers[StreamOf(file.tracks, key)]]
  <2>2. DOMAIN answers \subseteq DOMAIN file.tracks
    BY <1>t, FlagsFit
  <2>3. ASSUME NEW key \in DOMAIN new PROVE new[key] \in AnswersIn("subs")
    <3>1. PICK i \in DOMAIN answers : key = Descriptor(file.tracks, i)
      BY <2>3
    <3>2. StreamOf(file.tracks, key) = i
      BY <1>t, <2>2, <3>1, StreamOfFits
    <3>3. new[key] = answers[i]
      BY <3>1, <3>2
    <3> QED BY <3>3 DEF AnswersIn
  <2>4. DOMAIN new \subseteq Descriptors(file.tracks)
    BY <2>2 DEF Descriptors
  <2>5. Column(new, file.tracks, AnswersIn("subs"))
    BY <2>3, <2>4 DEF Column
  <2> HIDE DEF new
  <2> QED BY <1>1, <2>1, <2>5 DEF Columns, new
<1>3. CASE SetLanguage
  <2>1. PICK lang \in Chosen, c \in {"audioLang", "subLang"}, i \in DOMAIN file.tracks :
           stored' = Told(c, i, lang)
    BY <1>t, <1>3, FlagsFit DEF SetLanguage
  <2> DEFINE new == [key \in {Descriptor(file.tracks, i)} |-> lang]
  <2>2. Column(new, file.tracks, AnswersIn(c))
    BY LanguagesGiven DEF Column, AnswersIn, Descriptors
  <2>3. stored' = [stored EXCEPT ![c] = Updated(stored[c], new)]
    BY <2>1 DEF Told
  <2> HIDE DEF new
  <2> QED BY <1>1, <2>2, <2>3 DEF Columns
<1> QED BY <1>2, <1>3

\* The invariant holds at first, and every step keeps it.
LEMMA InvariantHolds == Spec => []IInv
<1>1. Init => IInv
  <2> SUFFICES ASSUME Init PROVE IInv
    OBVIOUS
  <2>1. PICK c \in Cases : file = c.file /\ settings = c.settings /\ forged = c.forged
    BY DEF Init
  <2>2. ASSUME NEW d \in Columns PROVE Column(stored[d], file.tracks, AnswersIn(d))
    BY DEF Init, NoAnswers, Column
  <2>3. TypeOK
    <3>1. file \in MediaFiles /\ settings.primary \in Languages /\ forged \in BOOLEAN
      BY <2>1, CasesGiven
    <3>2. stage = "decide" /\ ack = FALSE /\ inputs \in 0 .. MaxInputs
      BY InputsGiven DEF Init
    <3>3. DOMAIN stored = Columns
      BY DEF Init, NoAnswers
    <3> QED BY <2>2, <3>1, <3>2, <3>3, TypeParts
  <2> QED BY <2>1, <2>3, CasesGiven DEF IInv, SubtitlesKnown, AudioStays, MuxFits
<1>2. IInv /\ [Next]_vars => IInv'
  <2> SUFFICES ASSUME IInv, [Next]_vars PROVE IInv'
    OBVIOUS
  <2>t. TypeOK
    BY DEF IInv
  <2>1. CASE UNCHANGED vars
    BY <2>1 DEF vars, IInv, TypeOK, SubtitlesKnown, AudioStays, MuxFits, Streams, Kind,
       Muxable
  <2>f. ASSUME UNCHANGED <<file, settings, forged>>,
               stage' \in {"decide", "review", "queued", "settled"},
               ack' \in BOOLEAN, inputs' \in 0 .. MaxInputs,
               DOMAIN stored' = Columns,
               \A c \in Columns : Column(stored'[c], file.tracks, AnswersIn(c))
        PROVE  IInv'
    <3>1. TypeOK'
      BY <2>t, <2>f, TypeParts DEF TypeOK, Column
    <3> QED BY <2>f, <3>1 DEF IInv, SubtitlesKnown, AudioStays, MuxFits, Streams, Kind,
               Muxable
  <2>2. CASE Decide
    BY <2>2, <2>f, <2>t, TypeParts DEF Decide
  <2>3. CASE AnswerReview
    BY <2>3, <2>f, <2>t, TypeParts, AnswersStored DEF AnswerReview
  <2>4. CASE SetLanguage
    <3>1. inputs' \in 0 .. MaxInputs
      BY <2>4, <2>t, InputsGiven DEF SetLanguage, TypeOK
    <3> QED BY <2>4, <2>f, <2>t, <3>1, TypeParts, AnswersStored DEF SetLanguage
  <2>5. CASE Acknowledge
    BY <2>5, <2>f, <2>t, TypeParts DEF Acknowledge
  <2>6. CASE Run
    <3>1. /\ file' = Output(file, settings, Given)
          /\ stored' = [c \in Columns |->
               Rekey(stored[c], file.tracks, file'.tracks,
                     JobMapping(file.tracks, file'.tracks, Removed(file, settings, Given)))]
      BY <2>6 DEF Run
    <3>2. /\ stage' = "decide" /\ UNCHANGED <<settings, ack, forged, inputs>>
      BY <2>6 DEF Run
    <3>3. file \in MediaFiles /\ file' \in MediaFiles
      BY <2>t, <3>1, GivenFits, OutputFits, TypeParts
    <3>4. ASSUME NEW c \in Columns
          PROVE  Column(stored'[c], file'.tracks, AnswersIn(c))
      BY <2>t, <3>1, <3>3, RekeyFits, TypeParts
    <3>5. SubtitlesKnown' /\ AudioStays' /\ MuxFits'
      <4>1. /\ \A i \in Streams(file', "subtitle") : Kind(file', i) \in SubtitleKinds
            /\ Streams(file', "audio") # {}
            /\ Muxable(file')
        BY <2>t, <3>1, <3>3, GivenFits, OutputHolds
           DEF IInv, TypeOK, SubtitlesKnown, AudioStays, MuxFits
      <4> QED BY <4>1 DEF SubtitlesKnown, AudioStays, MuxFits, Streams, Kind, Muxable
    <3>6. DOMAIN stored' = Columns
      BY <3>1
    <3>7. TypeOK'
      BY <2>t, <3>2, <3>3, <3>4, <3>6 DEF TypeOK, Column, AnswersIn
    <3> QED BY <3>5, <3>7 DEF IInv
  <2> QED BY <2>1, <2>2, <2>3, <2>4, <2>5, <2>6 DEF Next
<1> QED BY <1>1, <1>2, PTL DEF Spec

\* The variables keep their types: a file stays one, and the answers stored are
\* always for tracks that are in it.
THEOREM TypeCorrect == Spec => []TypeOK
<1>1. IInv => TypeOK
  BY DEF IInv
<1> QED BY <1>1, InvariantHolds, PTL

\* Whatever the settings, the tags and the answers, no number of passes takes
\* the last audio track out of a file.
THEOREM AudioNeverEmptied == Spec => []AudioStays
<1>1. IInv => AudioStays
  BY DEF IInv
<1> QED BY <1>1, InvariantHolds, PTL

\* No pass makes an MP4 of what MP4 cannot hold.
THEOREM Mp4AlwaysFits == Spec => []MuxFits
<1>1. IInv => MuxFits
  BY DEF IInv
<1> QED BY <1>1, InvariantHolds, PTL

-----------------------------------------------------------------------------
(* The files extracted subtitles get                                       *)

\* There is a k-th free name, and FreeName is it.
LEMMA FreeNameFits ==
    ASSUME NEW lang, NEW forced, NEW k \in Nat \ {0}, NEW used, IsFiniteSet(used)
    PROVE  LET name == FreeName(lang, forced, k, used)
           IN  /\ name[1] = lang /\ name[2] = forced /\ name[3] \in Nat \ {0}
               /\ name = <<name[1], name[2], name[3]>>
               /\ name \notin used
               /\ Cardinality({n \in 1 .. name[3] : <<lang, forced, n>> \notin used}) = k
<1> DEFINE last == Cardinality(used) + k
           all == 1 .. last
           taken == {n \in all : <<lang, forced, n>> \in used}
           free == all \ taken
<1>1. Cardinality(used) \in Nat /\ last \in Nat
  BY FS_CardinalityType
<1>2. IsFiniteSet(all) /\ Cardinality(all) = last
  BY <1>1, FS_Interval
<1>3. IsFiniteSet(taken) /\ Cardinality(taken) <= Cardinality(used)
  <2> DEFINE g == [n \in taken |-> <<lang, forced, n>>]
  <2>1. g \in Injection(taken, used)
    BY DEF Injection, IsInjective
  <2> HIDE DEF g, taken
  <2> QED BY <2>1, FS_Injection
<1>4. IsFiniteSet(free) /\ Cardinality(free) = last - Cardinality(taken)
  <2>1. all \cap taken = taken
    OBVIOUS
  <2> HIDE DEF all, taken
  <2> QED BY <1>2, <2>1, FS_Difference
<1>5. k \in 1 .. Cardinality(free)
  <2>1. Cardinality(taken) \in Nat
    BY <1>3, FS_CardinalityType
  <2> HIDE DEF taken, free
  <2> QED BY <1>1, <1>3, <1>4, <2>1
<1>6. PICK m \in free : Rank(free, m) = k
  <2>1. free \in SUBSET Nat
    BY <1>1
  <2> HIDE DEF free
  <2> QED BY <1>4, <1>5, <2>1, RankTaken
<1>7. \A n \in 1 .. m : n \in all
  BY <1>1
<1>8. {n \in 1 .. m : <<lang, forced, n>> \notin used} = {j \in free : j <= m}
  BY <1>1, <1>7
<1>9. Cardinality({n \in 1 .. m : <<lang, forced, n>> \notin used}) = k
  BY <1>6, <1>8 DEF Rank
<1>10. \E name \in {<<lang, forced, n>> : n \in 1 .. Cardinality(used) + k} :
          /\ name \notin used
          /\ Cardinality({n \in 1 .. name[3] : <<lang, forced, n>> \notin used}) = k
  <2> DEFINE name == <<lang, forced, m>>
  <2>1. name \notin used /\ name[3] = m
    BY <1>6
  <2>2. name \in {<<lang, forced, n>> : n \in 1 .. Cardinality(used) + k}
    BY <1>6
  <2> HIDE DEF name
  <2> QED BY <1>9, <2>1, <2>2
<1>11. LET name == FreeName(lang, forced, k, used)
       IN  /\ name \in {<<lang, forced, n>> : n \in 1 .. Cardinality(used) + k}
           /\ name \notin used
           /\ Cardinality({n \in 1 .. name[3] : <<lang, forced, n>> \notin used}) = k
  BY <1>10 DEF FreeName
<1>12. \A name \in {<<lang, forced, n>> : n \in 1 .. Cardinality(used) + k} :
          /\ name[1] = lang /\ name[2] = forced /\ name[3] \in Nat \ {0}
          /\ name = <<name[1], name[2], name[3]>>
  BY <1>1
<1> QED BY <1>11, <1>12

\* Under keep_both a name is not to be one the folder has; otherwise any will do.
UsedIn(s, folderNames) == IF s.existing = "keep_both" THEN folderNames ELSE {}

\* The extracted tracks get names of their own.
LEMMA NamedFits ==
    ASSUME NEW f \in MediaFiles, NEW s, NEW a, NEW folderNames, IsFiniteSet(folderNames)
    PROVE  LET names == Named(f, s, a, folderNames)
           IN  /\ DOMAIN names = Extracted(f, s, a)
               /\ Extracted(f, s, a) \in SUBSET DOMAIN f.tracks
               /\ \A i \in DOMAIN names :
                     /\ names[i][3] \in Nat \ {0}
                     /\ names[i] = <<names[i][1], names[i][2], names[i][3]>>
                     /\ names[i] \notin UsedIn(s, folderNames)
               /\ \A i, j \in DOMAIN names : names[i] = names[j] => i = j
<1> DEFINE E == Extracted(f, s, a)
           fixed == Fixed(f, s, a)
           lang == [i \in E |-> SidecarLang(f, s, a, i)]
           forcd(i) == f.tracks[i].forced
           Ahead(j, i) == IF (j \in fixed) = (i \in fixed) THEN j <= i ELSE i \in fixed
           R(i) == {j \in E : lang[j] = lang[i] /\ forcd(j) = forcd(i) /\ Ahead(j, i)}
           rank == [i \in E |-> Cardinality(R(i))]
           used == UsedIn(s, folderNames)
           names == Named(f, s, a, folderNames)
<1>1. E \in SUBSET DOMAIN f.tracks /\ E \in SUBSET Nat /\ IsFiniteSet(E)
  <2>1. E \in SUBSET DOMAIN f.tracks
    BY StreamsFit DEF Extracted
  <2> HIDE DEF E
  <2> QED BY <2>1, StreamsFit
<1>2. names = [i \in E |-> FreeName(lang[i], forcd(i), rank[i], used)]
  <2>1. used = IF s.existing = "keep_both" THEN folderNames ELSE {}
    BY DEF UsedIn
  <2> HIDE DEF used
  <2> QED BY <2>1 DEF Named
<1>3. IsFiniteSet(used)
  BY FS_EmptySet DEF UsedIn
<1> HIDE DEF E, fixed, lang, forcd, used, names
<1>4. ASSUME NEW i \in E
      PROVE  IsFiniteSet(R(i)) /\ i \in R(i) /\ Cardinality(R(i)) \in Nat \ {0}
  <2>1. i \in R(i) /\ R(i) \in SUBSET E
    BY <1>1
  <2> HIDE DEF R
  <2> QED BY <1>1, <2>1, FS_Subset, FS_CardinalityType, FS_EmptySet
<1>5. ASSUME NEW i \in E, NEW j \in E, i # j, Ahead(i, j), lang[i] = lang[j],
             forcd(i) = forcd(j)
      PROVE  Cardinality(R(i)) # Cardinality(R(j))
  <2>1. ~Ahead(j, i)
    BY <1>1, <1>5
  <2>2. \A k \in E : Ahead(k, i) => Ahead(k, j)
    BY <1>1, <1>5
  <2>3. j \in R(j) /\ j \notin R(i)
    BY <1>4, <2>1
  <2>4. R(i) \in SUBSET R(j)
    BY <1>5, <2>2
  <2>5. IsFiniteSet(R(j))
    BY <1>4
  <2> HIDE DEF R, Ahead
  <2> QED BY <2>3, <2>4, <2>5, FS_Subset
<1>6. \A i, j \in E : Ahead(i, j) \/ Ahead(j, i)
  BY <1>1
<1> HIDE DEF Ahead, R
<1>7. ASSUME NEW i \in E
      PROVE  /\ names[i][1] = lang[i] /\ names[i][2] = forcd(i)
             /\ names[i][3] \in Nat \ {0}
             /\ names[i] = <<names[i][1], names[i][2], names[i][3]>>
             /\ names[i] \notin used
             /\ Cardinality({n \in 1 .. names[i][3] : <<lang[i], forcd(i), n>> \notin used})
                  = Cardinality(R(i))
  <2>1. names[i] = FreeName(lang[i], forcd(i), Cardinality(R(i)), used)
    BY <1>2
  <2>2. Cardinality(R(i)) \in Nat \ {0}
    BY <1>4
  <2> QED BY <1>3, <2>1, <2>2, FreeNameFits
<1>8. ASSUME NEW i \in E, NEW j \in E, names[i] = names[j] PROVE i = j
  <2>1. lang[i] = lang[j] /\ forcd(i) = forcd(j)
    BY <1>7, <1>8
  <2>2. Cardinality(R(i)) = Cardinality(R(j))
    <3> DEFINE Free(l, fo, n) == Cardinality({m \in 1 .. n : <<l, fo, m>> \notin used})
    <3>1. \A k \in E : Free(lang[k], forcd(k), names[k][3]) = Cardinality(R(k))
      BY <1>7
    <3> HIDE DEF Free
    <3> QED BY <1>8, <2>1, <3>1
  <2> QED BY <1>5, <1>6, <2>1, <2>2
<1>9. DOMAIN names = E
  BY <1>2
<1> QED BY <1>1, <1>7, <1>8, <1>9 DEF E, used, names

\* What the values of a function on finitely many arguments are is finite.
LEMMA RangeFinite ==
    ASSUME NEW g, IsFiniteSet(DOMAIN g) PROVE IsFiniteSet(Range(g))
<1> DEFINE h == [x \in DOMAIN g |-> g[x]]
<1>1. h \in Surjection(DOMAIN g, Range(g))
  BY DEF Surjection, Range
<1> QED BY <1>1, FS_Surjection

\* There are finitely many files in the folder.
FolderFinite == IsFiniteSet(DOMAIN folder)

\* Only a run adds to the folder, and what it adds are names of tracks of the file
\* and of files that were there.
LEMMA FolderStaysFinite == Spec => []FolderFinite
<1>1. Init => FolderFinite
  <2> SUFFICES ASSUME Init PROVE FolderFinite
    OBVIOUS
  <2>0. PICK c \in Cases : folder = [name \in IF c.sidecar THEN {UserFile} ELSE {} |-> "user"]
    BY DEF Init
  <2>1. DOMAIN folder = {} \/ DOMAIN folder = {UserFile}
    <3>1. DOMAIN folder = IF c.sidecar THEN {UserFile} ELSE {}
      BY <2>0
    <3> QED BY <3>1
  <2> QED BY <2>1, FS_EmptySet, FS_Singleton DEF FolderFinite
<1>2. IInv /\ FolderFinite /\ [Next]_vars => FolderFinite'
  <2> SUFFICES ASSUME IInv, FolderFinite, [Next]_vars PROVE FolderFinite'
    OBVIOUS
  <2>1. CASE UNCHANGED folder
    BY <2>1 DEF FolderFinite
  <2>2. CASE Run
    <3> DEFINE names == Named(file, settings, Given, DOMAIN folder)
               hit == Range(names) \cap DOMAIN folder
               moved == [name \in hit |->
                           MovedTo(name,
                                   Cardinality({n \in 1 .. name[3] : <<name[1], name[2], n>> \in hit}),
                                   Range(names) \cup DOMAIN folder)]
    <3>1. IsFiniteSet(Range(names))
      <4>1. DOMAIN names = Extracted(file, settings, Given)
            /\ Extracted(file, settings, Given) \in SUBSET DOMAIN file.tracks
        BY NamedFits DEF FolderFinite, IInv, TypeOK
      <4>2. IsFiniteSet(DOMAIN names)
        BY <4>1, StreamsFit DEF IInv, TypeOK
      <4> HIDE DEF names
      <4> QED BY <4>2, RangeFinite
    <3>2. DOMAIN folder' = DOMAIN MovedAside(Range(names)) \cup Range(names)
      BY <2>2 DEF Run, Updated
    <3>3. IsFiniteSet(DOMAIN MovedAside(Range(names)))
      <4>1. CASE settings.existing # "embedded_first"
        BY <4>1 DEF MovedAside, FolderFinite
      <4>2. CASE settings.existing = "embedded_first"
        <5>1. DOMAIN MovedAside(Range(names)) = (DOMAIN folder \ hit) \cup Range(moved)
          BY <4>2 DEF MovedAside, Updated, Range
        <5>2. IsFiniteSet(hit) /\ IsFiniteSet(DOMAIN folder \ hit)
          <6> HIDE DEF names
          <6>1. hit \in SUBSET DOMAIN folder /\ (DOMAIN folder \ hit) \in SUBSET DOMAIN folder
            OBVIOUS
          <6> QED BY <6>1, FS_Subset DEF FolderFinite
        <5>3. DOMAIN moved = hit
          OBVIOUS
        <5> HIDE DEF moved, hit
        <5>4. IsFiniteSet(Range(moved))
          BY <5>2, <5>3, RangeFinite
        <5> QED BY <5>1, <5>2, <5>4, FS_Union
      <4> QED BY <4>1, <4>2
    <3> HIDE DEF names
    <3> QED BY <3>1, <3>2, <3>3, FS_Union DEF FolderFinite
  <2> QED BY <2>1, <2>2 DEF Next, vars, Decide, AnswerReview, SetLanguage, Acknowledge
<1> QED BY <1>1, <1>2, InvariantHolds, PTL DEF Spec

\* Only Run is the step Ran is.
LEMMA RanIsRun == ASSUME IInv, Next, Ran PROVE Run
<1>1. ~Decide /\ ~AnswerReview /\ ~Acknowledge
  BY DEF Ran, Decide, AnswerReview, Acknowledge
<1>2. ~SetLanguage
  <2>1. inputs \in Nat
    BY InputsGiven DEF IInv, TypeOK
  <2> QED BY <2>1 DEF Ran, SetLanguage
<1> QED BY <1>1, <1>2 DEF Next

\* Every subtitle that is extracted is in the folder, under its name.
LEMMA RunSaves ==
    ASSUME IInv, FolderFinite, Run, NEW i \in Extracted(file, settings, Given)
    PROVE  \E name \in DOMAIN folder' : folder'[name] = file.tracks[i].id
<1> DEFINE names == Named(file, settings, Given, DOMAIN folder)
<1>1. /\ DOMAIN names = Extracted(file, settings, Given)
      /\ Extracted(file, settings, Given) \in SUBSET DOMAIN file.tracks
      /\ \A k, j \in DOMAIN names : names[k] = names[j] => k = j
  BY NamedFits DEF FolderFinite, IInv, TypeOK
<1>2. i \in Nat
  BY <1>1, StreamsFit DEF IInv, TypeOK
<1>3. folder' = Updated(MovedAside(Range(names)),
                   [name \in Range(names) |->
                       file.tracks[Max({j \in DOMAIN names : names[j] = name})].id])
  BY DEF Run
<1> HIDE DEF names
<1>4. {j \in DOMAIN names : names[j] = names[i]} = {i}
  BY <1>1
<1>5. Max({i}) = i
  BY <1>2 DEF Max
<1>6. names[i] \in Range(names)
  BY <1>1 DEF Range
<1>7. names[i] \in DOMAIN folder' /\ folder'[names[i]] = file.tracks[i].id
  BY <1>3, <1>4, <1>5, <1>6 DEF Updated
<1> QED BY <1>7

\* Each subtitle a pass extracts is in the folder once it has run: no other of
\* the pass took its name.
THEOREM ExtractedIsSaved == Spec => ExtractedSaved
<1>1. IInv /\ FolderFinite /\ [Next]_vars =>
        [Ran => \A i \in Extracted(file, settings, Given) :
              file.tracks[i].id \in {folder'[name] : name \in DOMAIN folder'}]_vars
  <2> SUFFICES ASSUME IInv, FolderFinite, Next, Ran,
                      NEW i \in Extracted(file, settings, Given)
               PROVE  file.tracks[i].id \in {folder'[name] : name \in DOMAIN folder'}
    OBVIOUS
  <2> QED BY RanIsRun, RunSaves
<1> QED BY <1>1, InvariantHolds, FolderStaysFinite, PTL DEF Spec, ExtractedSaved

-----------------------------------------------------------------------------
(* Tracks of the languages on the keep lists                               *)

\* The settings are those of a case.
SettingsGiven == \E c \in Cases : settings = c.settings

\* No step changes them.
LEMMA SettingsStay == Spec => []SettingsGiven
<1>1. Init => SettingsGiven
  BY DEF Init, SettingsGiven
<1>2. SettingsGiven /\ [Next]_vars => SettingsGiven'
  BY DEF SettingsGiven, Next, vars, Decide, AnswerReview, SetLanguage, Acknowledge, Run
<1> QED BY <1>1, <1>2, PTL DEF Spec

\* A kept track whose language is defined and not answered for is written with
\* that language.
LEMMA KeptWritten ==
    ASSUME NEW f \in MediaFiles, NEW s, NEW a, NEW i \in Kept(f, s, a), Lang(f, i) # "und",
           i \notin DOMAIN a.audioLang \cup DOMAIN a.subLang, NEW target
    PROVE  Canonical(Muxed(target, LangWritten(f, s, a, i))) = Lang(f, i)
<1>1. i \notin Corrected(f, s, a)
  BY DEF Corrected
<1>2. \A rule, undefined, all : Qualifying(rule, undefined, all) \subseteq undefined
  BY DEF Qualifying
<1>3. i \notin UndefinedAudio(f, s, a) /\ i \notin UndefinedSubs(f, s, a)
  <2>1. \A S : i \notin Undefined(f, S)
    BY DEF Undefined
  <2> QED BY <1>2, <2>1 DEF UndefinedAudio, UndefinedSubs
<1>4. i \notin Fixed(f, s, a)
  BY <1>3 DEF Fixed
<1>5. LangWritten(f, s, a, i) = Lang(f, i)
  BY <1>1, <1>4 DEF LangWritten
<1>6. Lang(f, i) # "en" /\ Canonical(Lang(f, i)) = Lang(f, i)
  BY DEF Lang, Canonical
<1> QED BY <1>5, <1>6 DEF Muxed, TwoLetter

\* A track of a language on the keep lists is kept, or extracted.
LEMMA ListedKept ==
    ASSUME IInv, NEW i \in DOMAIN file.tracks, Listed(file.tracks[i]), Lang(file, i) # "und",
           ~(i \in DOMAIN Given.subs /\ Given.subs[i] = "remove")
    PROVE  i \in Kept(file, settings, Given) \/ i \in Extracted(file, settings, Given)
<1>1. CASE file.tracks[i].type = "audio"
  <2>1. Lang(file, i) \in settings.keepAudio /\ settings.original # "original_only"
    BY <1>1 DEF Listed, Lang
  <2>2. settings.keepAudio \subseteq KeepLanguages(file, settings)
    BY <2>1 DEF KeepLanguages
  <2>3. AudioWanted(file, settings, i)
    BY <2>1, <2>2 DEF AudioWanted
  <2>4. i \in AudioKept(file, settings)
    BY <1>1, <2>3 DEF AudioKept, Streams
  <2> QED BY <2>4 DEF Kept
<1>2. CASE file.tracks[i].type = "subtitle"
  <2> DEFINE choice == Choice(file, settings, Given, i)
  <2>1. /\ Lang(file, i) \in settings.keepSubs /\ settings.images # "always_remove"
        /\ i \in Streams(file, "subtitle")
    BY <1>2 DEF Listed, Lang, Streams
  <2>2. SubWanted(file, settings, i)
    <3>1. \A rule, undefined, all : Qualifying(rule, undefined, all) \subseteq undefined
      BY DEF Qualifying
    <3>2. i \notin Undefined(file, Streams(file, "subtitle"))
      BY DEF Undefined
    <3>3. i \notin ResolvedSubs(file, settings)
      BY <3>1, <3>2 DEF ResolvedSubs
    <3> QED BY <2>1, <3>3 DEF SubWanted
  <2>3. \A k \in DOMAIN Given.subs : Given.subs[k] \in {"keep", "remove", "extract"}
    <3>1. Column(stored["subs"], file.tracks, {"keep", "remove", "extract"})
      BY TypeParts DEF IInv, Columns, AnswersIn
    <3>2. Given.subs = Resolve(stored["subs"], file.tracks)
      BY DEF Given
    <3> QED BY <3>1, <3>2, ResolveFits
  <2>4. choice \in {"keep", "extract", "none"}
    <3>1. CASE i \in Answered(file, Given)
      <4>1. choice = Given.subs[i]
        BY <3>1 DEF Choice, Images, Styled, Unanswered
      <4> QED BY <2>3, <3>1, <4>1 DEF Answered
    <3>2. CASE i \notin Answered(file, Given)
      BY <2>1, <3>2 DEF Choice
    <3> QED BY <3>1, <3>2
  <2>5. i \in Extracted(file, settings, Given) \/ i \in Embedded(file, settings, Given)
    BY <2>1, <2>2, <2>4 DEF Extracted, Embedded
  <2> QED BY <2>5 DEF Kept
<1>3. file.tracks[i].type \in {"audio", "subtitle"}
  BY DEF Listed
<1> QED BY <1>1, <1>2, <1>3

\* So it is in the output under its language, or in the folder.
LEMMA RunKeeps ==
    ASSUME IInv, FolderFinite, Run, NEW i \in DOMAIN file.tracks, Listed(file.tracks[i]),
           Lang(file, i) # "und",
           ~(i \in DOMAIN Given.subs /\ Given.subs[i] = "remove"),
           i \notin DOMAIN Given.audioLang \cup DOMAIN Given.subLang
    PROVE  \/ \E j \in DOMAIN file'.tracks :
                /\ file'.tracks[j].id = file.tracks[i].id
                /\ Canonical(file'.tracks[j].lang) = Canonical(file.tracks[i].lang)
           \/ \E name \in DOMAIN folder' : folder'[name] = file.tracks[i].id
<1>t. file \in MediaFiles /\ settings.primary \in Languages /\ TypeOK
  BY DEF IInv, TypeOK
<1>1. CASE i \in Extracted(file, settings, Given)
  BY <1>1, RunSaves
<1>2. CASE i \in Kept(file, settings, Given)
  <2> DEFINE map == Mapped(file, settings, Given)
             target == Target(file, settings, Given)
             W == Streams(file, "video") \cup AudioKept(file, settings)
                    \cup Embedded(file, settings, Given)
  <2>1. file' = Output(file, settings, Given)
    BY DEF Run
  <2>2. i \in W
    BY <1>2 DEF Kept
  <2>3. Lists(map, W)
    BY <1>t, MappedFits
  <2>4. PICK n \in DOMAIN map : map[n] = i
    <3> HIDE DEF map, W
    <3> QED BY <2>2, <2>3 DEF Lists
  <2>5. /\ DOMAIN file'.tracks = DOMAIN map
        /\ file'.tracks[n].id = file.tracks[i].id
        /\ file'.tracks[n].lang = Muxed(target, LangWritten(file, settings, Given, i))
    BY <1>t, <2>1, <2>4, GivenFits, OutputFits
  <2>6. Canonical(file'.tracks[n].lang) = Canonical(file.tracks[i].lang)
    <3>1. Lang(file, i) = Canonical(file.tracks[i].lang)
      BY DEF Lang
    <3> HIDE DEF target
    <3> QED BY <1>t, <1>2, <2>5, <3>1, KeptWritten
  <2> QED BY <2>4, <2>5, <2>6
<1> QED BY <1>1, <1>2, ListedKept

\* No pass loses a track in a language of the keep lists: for any settings whose
\* lists name languages, "und" being no language but a setting of its own.
THEOREM WantedKept ==
    ASSUME \A c \in Cases : "und" \notin c.settings.keepAudio \cup c.settings.keepSubs
    PROVE  Spec => WantedStays
<1>1. IInv /\ FolderFinite /\ SettingsGiven /\ [Next]_vars =>
        [\A i \in DOMAIN file.tracks, given \in {Given} :
            Listed(file.tracks[i]) =>
               \/ \E j \in DOMAIN file'.tracks : file'.tracks[j].id = file.tracks[i].id
                     /\ Canonical(file'.tracks[j].lang) = Canonical(file.tracks[i].lang)
               \/ \E name \in DOMAIN folder' : folder'[name] = file.tracks[i].id
               \/ i \in DOMAIN given.subs /\ given.subs[i] = "remove"
               \/ i \in DOMAIN given.audioLang \cup DOMAIN given.subLang]_vars
  <2> SUFFICES ASSUME IInv, FolderFinite, SettingsGiven, Next,
                      NEW i \in DOMAIN file.tracks, Listed(file.tracks[i])
               PROVE  \/ \E j \in DOMAIN file'.tracks :
                           /\ file'.tracks[j].id = file.tracks[i].id
                           /\ Canonical(file'.tracks[j].lang) = Canonical(file.tracks[i].lang)
                      \/ \E name \in DOMAIN folder' : folder'[name] = file.tracks[i].id
                      \/ i \in DOMAIN Given.subs /\ Given.subs[i] = "remove"
                      \/ i \in DOMAIN Given.audioLang \cup DOMAIN Given.subLang
    OBVIOUS
  <2>1. CASE file' = file
    BY <2>1
  <2>2. CASE Run
    <3>1. "und" \notin settings.keepAudio \cup settings.keepSubs
      BY DEF SettingsGiven
    <3>2. Lang(file, i) # "und"
      BY <3>1 DEF Listed, Lang
    <3> QED BY <2>2, <3>2, RunKeeps
  <2> QED BY <2>1, <2>2 DEF Next, Decide, AnswerReview, SetLanguage, Acknowledge
<1> QED BY <1>1, InvariantHolds, FolderStaysFinite, SettingsStay, PTL DEF Spec,
           WantedStays

-----------------------------------------------------------------------------
(* Answers follow their tracks                                             *)

\* Where p has members of S it has them in order.
SortedOn(p, S) ==
    \A n, m \in DOMAIN p : p[n] \in S /\ p[m] \in S /\ n < m => p[n] < p[m]

\* Ordered puts a set in order.
LEMMA OrderedSorted ==
    ASSUME NEW S \in SUBSET Nat, IsFiniteSet(S) PROVE SortedOn(Ordered(S), S)
<1> SUFFICES ASSUME NEW n \in DOMAIN Ordered(S), NEW m \in DOMAIN Ordered(S), n < m
             PROVE  Ordered(S)[n] < Ordered(S)[m]
  BY DEF SortedOn
<1> DEFINE i == Ordered(S)[n]
           j == Ordered(S)[m]
<1>1. i \in S /\ j \in S /\ n \in Nat /\ m \in Nat
  BY OrderedFits
<1>2. Rank(S, i) = n /\ Rank(S, j) = m
  BY OrderedFits
<1> HIDE DEF i, j
<1>3. i \in Nat /\ j \in Nat
  BY <1>1
<1>4. i # j /\ ~(j < i)
  BY <1>1, <1>2, <1>3, RankFits
<1> QED BY <1>3, <1>4 DEF i, j

\* Of two sequences in a row, if only one has members of U, theirs is the order.
LEMMA ConcatSorted ==
    ASSUME NEW S, NEW T, NEW p \in Seq(S), NEW q \in Seq(T), NEW U,
           \/ SortedOn(p, U) /\ T \cap U = {}
           \/ SortedOn(q, U) /\ S \cap U = {}
    PROVE  SortedOn(p \o q, U)
<1> SUFFICES ASSUME NEW n \in DOMAIN (p \o q), NEW m \in DOMAIN (p \o q),
                    (p \o q)[n] \in U, (p \o q)[m] \in U, n < m
             PROVE  (p \o q)[n] < (p \o q)[m]
  BY DEF SortedOn
<1>1. /\ DOMAIN (p \o q) = 1 .. Len(p) + Len(q) /\ Len(p) \in Nat /\ Len(q) \in Nat
      /\ DOMAIN p = 1 .. Len(p) /\ DOMAIN q = 1 .. Len(q)
  OBVIOUS
<1>2. ASSUME NEW k \in DOMAIN (p \o q)
      PROVE  /\ k <= Len(p) => k \in DOMAIN p /\ (p \o q)[k] = p[k] /\ p[k] \in S
             /\ k > Len(p) => /\ k - Len(p) \in DOMAIN q
                              /\ (p \o q)[k] = q[k - Len(p)] /\ q[k - Len(p)] \in T
  BY <1>1
<1>3. n \in Nat /\ m \in Nat
  BY <1>1
<1>4. CASE SortedOn(p, U) /\ T \cap U = {}
  <2>1. n <= Len(p) /\ m <= Len(p)
    BY <1>1, <1>2, <1>3, <1>4
  <2> QED BY <1>2, <1>4, <2>1 DEF SortedOn
<1>5. CASE SortedOn(q, U) /\ S \cap U = {}
  <2>1. n > Len(p) /\ m > Len(p)
    BY <1>1, <1>2, <1>3, <1>5
  <2>2. n - Len(p) < m - Len(p)
    BY <1>1, <1>3
  <2> QED BY <1>2, <1>5, <2>1, <2>2 DEF SortedOn
<1> QED BY <1>4, <1>5

\* The streams of a type a job keeps.
KeptOf(f, s, a, type) == Streams(f, type) \ Removed(f, s, a)

\* They are mapped in order, and each stream mapped is one of them.
LEMMA MappedSorted ==
    ASSUME NEW f \in MediaFiles, NEW s, NEW a
    PROVE  /\ KeptOf(f, s, a, "video") = Streams(f, "video")
           /\ KeptOf(f, s, a, "audio") = AudioKept(f, s)
           /\ KeptOf(f, s, a, "subtitle") = Embedded(f, s, a)
           /\ \A type \in TrackTypes : SortedOn(Mapped(f, s, a), KeptOf(f, s, a, type))
<1> DEFINE V == Streams(f, "video")
           A == AudioKept(f, s)
           E == Embedded(f, s, a)
           D == DOMAIN f.tracks
<1>1. /\ V \in SUBSET D /\ A \in SUBSET D /\ E \in SUBSET D
      /\ A \subseteq Streams(f, "audio") /\ E \subseteq Streams(f, "subtitle")
  BY StreamsFit, AudioKeptFits DEF Embedded
<1>2. V \cap A = {} /\ V \cap E = {} /\ A \cap E = {}
  BY <1>1 DEF Streams
<1>3. /\ KeptOf(f, s, a, "video") = V
      /\ KeptOf(f, s, a, "audio") = A
      /\ KeptOf(f, s, a, "subtitle") = E
  <2> HIDE DEF A, E
  <2>1. /\ \A i \in Streams(f, "audio") : i \notin Streams(f, "subtitle")
        /\ \A i \in V : i \notin Streams(f, "audio") \cup Streams(f, "subtitle")
    BY DEF Streams
  <2> HIDE DEF V
  <2>2. Removed(f, s, a) = (Streams(f, "audio") \cup Streams(f, "subtitle")) \ (A \cup E)
    BY DEF Removed, Kept, A, E
  <2>3. KeptOf(f, s, a, "video") = V \ Removed(f, s, a)
    BY DEF KeptOf, V
  <2> QED BY <1>1, <2>1, <2>2, <2>3 DEF KeptOf
<1>4. Mapped(f, s, a) = (Ordered(V) \o Ordered(A)) \o Ordered(E)
  BY DEF Mapped
<1>5. ASSUME NEW T \in SUBSET D PROVE Ordered(T) \in Seq(T) /\ SortedOn(Ordered(T), T)
  BY StreamsFit, OrderedFits, OrderedSorted
<1> HIDE DEF V, A, E, D
<1>6. /\ Ordered(V) \in Seq(V) /\ Ordered(A) \in Seq(A) /\ Ordered(E) \in Seq(E)
      /\ SortedOn(Ordered(V), V) /\ SortedOn(Ordered(A), A) /\ SortedOn(Ordered(E), E)
  BY <1>1, <1>5
<1> DEFINE P == Ordered(V) \o Ordered(A)
<1>7. P \in Seq(V \cup A)
  BY <1>6
<1>8. SortedOn(P, V) /\ SortedOn(P, A)
  BY <1>2, <1>6, ConcatSorted
<1> HIDE DEF P
<1>9. /\ SortedOn(P \o Ordered(E), V) /\ SortedOn(P \o Ordered(E), A)
  BY <1>2, <1>6, <1>7, <1>8, ConcatSorted
<1>10. SortedOn(P \o Ordered(E), E)
  <2>1. (V \cup A) \cap E = {}
    BY <1>2
  <2> QED BY <1>6, <1>7, <2>1, ConcatSorted
<1>11. Mapped(f, s, a) = P \o Ordered(E)
  BY <1>4 DEF P
<1>12. \A type \in TrackTypes : SortedOn(Mapped(f, s, a), KeptOf(f, s, a, type))
  BY <1>3, <1>9, <1>10, <1>11 DEF TrackTypes
<1> QED BY <1>3, <1>12 DEF V, A, E

\* A map that lists the members of I in order keeps their ranks.
LEMMA SameRank ==
    ASSUME NEW map, DOMAIN map \in SUBSET Nat, IsFiniteSet(DOMAIN map),
           NEW I \in SUBSET Nat, SortedOn(map, I), \A i \in I : \E n \in DOMAIN map : map[n] = i
    PROVE  LET O == {n \in DOMAIN map : map[n] \in I}
           IN  /\ IsFiniteSet(O) /\ IsFiniteSet(I) /\ Cardinality(O) = Cardinality(I)
               /\ \A n \in O : Rank(O, n) = Rank(I, map[n])
<1> DEFINE O == {n \in DOMAIN map : map[n] \in I}
<1>1. O \in SUBSET Nat /\ IsFiniteSet(O)
  BY FS_Subset
<1>2. \A n, m \in O : n < m => map[n] < map[m]
  BY DEF SortedOn
<1>3. \A i \in I : \E n \in O : map[n] = i
  OBVIOUS
<1>4. \A n \in O : map[n] \in I /\ map[n] \in Nat /\ n \in Nat
  OBVIOUS
<1> HIDE DEF O
<1>5. ASSUME NEW n \in O, NEW m \in O, map[n] = map[m] PROVE n = m
  <2>1. n \in Nat /\ m \in Nat /\ ~(map[n] < map[m]) /\ ~(map[m] < map[n])
    BY <1>4, <1>5
  <2> QED BY <1>2, <2>1
<1>6. IsFiniteSet(I) /\ Cardinality(O) = Cardinality(I)
  <2> DEFINE h == [n \in O |-> map[n]]
  <2>1. h \in Bijection(O, I)
    BY <1>3, <1>4, <1>5 DEF Bijection, Injection, Surjection, IsInjective
  <2> HIDE DEF h
  <2> QED BY <1>1, <2>1, FS_Bijection DEF ExistsBijection
<1>7. ASSUME NEW n \in O PROVE Rank(O, n) = Rank(I, map[n])
  <2> DEFINE S == {m \in O : m <= n}
             T == {i \in I : i <= map[n]}
             h == [m \in S |-> map[m]]
  <2>1. ASSUME NEW m \in S PROVE map[m] \in T
    <3>1. m = n \/ m < n
      BY <1>4
    <3> QED BY <1>2, <1>4, <3>1
  <2>2. ASSUME NEW i \in T PROVE \E m \in S : map[m] = i
    <3>1. PICK m \in O : map[m] = i
      BY <1>3
    <3>2. ~(n < m)
      BY <1>2, <1>4, <3>1
    <3> QED BY <1>4, <3>1, <3>2
  <2>3. h \in Bijection(S, T)
    <3>1. h \in [S -> T]
      BY <2>1
    <3>2. \A m, k \in S : map[m] = map[k] => m = k
      BY <1>5
    <3> HIDE DEF S, T
    <3> QED BY <2>2, <3>1, <3>2 DEF Bijection, Injection, Surjection, IsInjective
  <2>4. IsFiniteSet(S)
    BY <1>1, FS_Subset
  <2> HIDE DEF S, T, h
  <2>5. Cardinality(S) = Cardinality(T)
    BY <2>3, <2>4, FS_Bijection DEF ExistsBijection
  <2> QED BY <2>5 DEF Rank, S, T
<1> QED BY <1>1, <1>6, <1>7 DEF O

\* What JobMapping pairs of a type, and where FFmpeg puts its streams.
Paired(f, s, a, type) ==
    LET kept == OfType(f.tracks, type, Removed(f, s, a))
        out == OfType(Output(f, s, a).tracks, type, {})
    IN  IF Len(kept) # Len(out) THEN {} ELSE {<<kept[n], out[n]>> : n \in DOMAIN kept}

Placed(f, s, a, type) ==
    LET map == Mapped(f, s, a)
    IN  {<<map[m], m>> : m \in {m \in DOMAIN map : map[m] \in KeptOf(f, s, a, type)}}

\* The n-th stream of a type a job keeps is the n-th of that type in its output.
LEMMA PairsInOrder ==
    ASSUME NEW f \in MediaFiles, NEW s, s.primary \in Languages, NEW a,
           \A i \in DOMAIN a.audioLang : a.audioLang[i] \in Languages,
           \A i \in DOMAIN a.subLang : a.subLang[i] \in Languages,
           NEW type \in TrackTypes
    PROVE  Paired(f, s, a, type) = Placed(f, s, a, type)
<1> DEFINE map == Mapped(f, s, a)
           I == KeptOf(f, s, a, type)
           O == {m \in DOMAIN map : map[m] \in I}
           out == Output(f, s, a)
           W == Streams(f, "video") \cup AudioKept(f, s) \cup Embedded(f, s, a)
<1>1. /\ out \in MediaFiles /\ DOMAIN out.tracks = DOMAIN map
      /\ \A m \in DOMAIN map : /\ map[m] \in DOMAIN f.tracks
                               /\ out.tracks[m].type = f.tracks[map[m]].type
  BY OutputFits
<1>2. DOMAIN map \in SUBSET Nat /\ IsFiniteSet(DOMAIN map)
  <2> HIDE DEF map, out
  <2> QED BY <1>1, StreamsFit
<1>3. /\ I \in SUBSET DOMAIN f.tracks /\ I \in SUBSET Nat /\ IsFiniteSet(I)
  <2>1. I \in SUBSET DOMAIN f.tracks
    BY StreamsFit DEF KeptOf
  <2> HIDE DEF I
  <2> QED BY <2>1, StreamsFit
<1>4. I \subseteq W /\ (W \cap Streams(f, type)) \subseteq I
  <2>1. /\ KeptOf(f, s, a, "video") = Streams(f, "video")
        /\ KeptOf(f, s, a, "audio") = AudioKept(f, s)
        /\ KeptOf(f, s, a, "subtitle") = Embedded(f, s, a)
    BY MappedSorted
  <2>2. I \subseteq W
    BY <2>1 DEF TrackTypes
  <2>3. W \cap Removed(f, s, a) = {}
    <3>1. \A i \in Streams(f, "video") : i \notin Streams(f, "audio") \cup Streams(f, "subtitle")
      BY DEF Streams
    <3> QED BY <3>1 DEF Removed, Kept
  <2> QED BY <2>2, <2>3 DEF KeptOf
<1>5. Lists(map, W) /\ SortedOn(map, I)
  BY MappedFits, MappedSorted
<1>6. /\ \A m \in DOMAIN map : map[m] \in W
      /\ \A i \in I : \E m \in DOMAIN map : map[m] = i
  <2> HIDE DEF map, W, I
  <2> QED BY <1>4, <1>5 DEF Lists
<1>7. OfType(f.tracks, type, Removed(f, s, a)) = Ordered(I)
  BY DEF OfType, KeptOf, Streams
<1>8. OfType(out.tracks, type, {}) = Ordered(O)
  <2>1. ASSUME NEW m \in DOMAIN map PROVE out.tracks[m].type = type <=> map[m] \in I
    <3>1. map[m] \in DOMAIN f.tracks /\ out.tracks[m].type = f.tracks[map[m]].type /\ map[m] \in W
      BY <1>1, <1>6
    <3>2. map[m] \in Streams(f, type) <=> f.tracks[map[m]].type = type
      BY <3>1 DEF Streams
    <3>3. map[m] \in I => map[m] \in Streams(f, type)
      BY DEF KeptOf
    <3> HIDE DEF map, out, I, W
    <3> QED BY <1>4, <3>1, <3>2, <3>3
  <2> HIDE DEF map, out, I
  <2>2. {m \in DOMAIN out.tracks : out.tracks[m].type = type} \ {} = O
    BY <1>1, <2>1
  <2> HIDE DEF O
  <2> QED BY <2>2 DEF OfType
<1> HIDE DEF map, I, W, out
<1>9. /\ IsFiniteSet(O) /\ Cardinality(O) = Cardinality(I)
      /\ \A m \in O : Rank(O, m) = Rank(I, map[m])
  BY <1>2, <1>3, <1>5, <1>6, SameRank
<1>10. O \in SUBSET Nat
  BY <1>2
<1> DEFINE kept == Ordered(I)
           last == Ordered(O)
<1>11. /\ kept \in Seq(I) /\ Len(kept) = Cardinality(I)
       /\ \A i \in I : Rank(I, i) \in DOMAIN kept /\ kept[Rank(I, i)] = i
  BY <1>3, OrderedFits
<1>12. /\ last \in Seq(O) /\ Len(last) = Cardinality(O)
       /\ \A m \in O : Rank(O, m) \in DOMAIN last /\ last[Rank(O, m)] = m
       /\ \A n \in DOMAIN last : Rank(O, last[n]) = n
  <2> HIDE DEF O
  <2> QED BY <1>9, <1>10, OrderedFits
<1>13. \A m \in O : map[m] \in I
  OBVIOUS
<1> HIDE DEF O, kept, last
<1>14. Len(kept) = Len(last) /\ DOMAIN kept = DOMAIN last
  BY <1>9, <1>11, <1>12
<1>15. ASSUME NEW n \in DOMAIN kept
       PROVE  last[n] \in O /\ kept[n] = map[last[n]]
  <2>1. last[n] \in O /\ Rank(O, last[n]) = n
    BY <1>12, <1>14
  <2>2. Rank(I, map[last[n]]) = n
    BY <1>9, <2>1
  <2> QED BY <1>11, <1>13, <2>1, <2>2
<1>16. ASSUME NEW m \in O
       PROVE  \E n \in DOMAIN kept : kept[n] = map[m] /\ last[n] = m
  BY <1>9, <1>11, <1>12, <1>13
<1>17. {<<kept[n], last[n]>> : n \in DOMAIN kept} = {<<map[m], m>> : m \in O}
  BY <1>15, <1>16
<1>18. Paired(f, s, a, type) = {<<kept[n], last[n]>> : n \in DOMAIN kept}
  BY <1>7, <1>8, <1>14 DEF Paired, kept, last, out
<1>19. Placed(f, s, a, type) = {<<map[m], m>> : m \in O}
  BY DEF Placed, map, O, I
<1> QED BY <1>17, <1>18, <1>19

\* No stream is mapped twice.
LEMMA MappedOnce ==
    ASSUME NEW f \in MediaFiles, NEW s, NEW a, DOMAIN Mapped(f, s, a) \in SUBSET Nat
    PROVE  /\ \A m \in DOMAIN Mapped(f, s, a) :
                 \E type \in TrackTypes : Mapped(f, s, a)[m] \in KeptOf(f, s, a, type)
           /\ \A m, n \in DOMAIN Mapped(f, s, a) :
                 Mapped(f, s, a)[m] = Mapped(f, s, a)[n] => m = n
<1> DEFINE map == Mapped(f, s, a)
           W == Streams(f, "video") \cup AudioKept(f, s) \cup Embedded(f, s, a)
<1>1. /\ \A type \in TrackTypes : SortedOn(map, KeptOf(f, s, a, type))
      /\ W = KeptOf(f, s, a, "video") \cup KeptOf(f, s, a, "audio")
               \cup KeptOf(f, s, a, "subtitle")
  BY MappedSorted
<1>2. Lists(map, W) /\ W \in SUBSET Nat
  BY MappedFits, StreamsFit
<1> HIDE DEF map, W
<1>3. \A m \in DOMAIN map : map[m] \in W
  BY <1>2 DEF Lists
<1>4. ASSUME NEW m \in DOMAIN map
      PROVE  \E type \in TrackTypes : map[m] \in KeptOf(f, s, a, type)
  BY <1>1, <1>3 DEF TrackTypes
<1>5. ASSUME NEW m \in DOMAIN map, NEW n \in DOMAIN map, map[m] = map[n]
      PROVE  m = n
  <2>1. PICK type \in TrackTypes : map[m] \in KeptOf(f, s, a, type)
    BY <1>4
  <2>0. map[m] \in Nat
    BY <1>2, <1>3
  <2>2. ~(map[m] < map[n]) /\ ~(map[n] < map[m])
    BY <1>5, <2>0
  <2>3. ~(m < n) /\ ~(n < m)
    BY <1>1, <1>5, <2>1, <2>2 DEF SortedOn
  <2>4. m \in Nat /\ n \in Nat
    BY DEF map
  <2> QED BY <2>3, <2>4
<1> QED BY <1>4, <1>5 DEF map

\* Where a job leads the tracks it keeps is where FFmpeg put them.
LEMMA MappingFollows ==
    ASSUME NEW f \in MediaFiles, NEW s, s.primary \in Languages, NEW a,
           \A i \in DOMAIN a.audioLang : a.audioLang[i] \in Languages,
           \A i \in DOMAIN a.subLang : a.subLang[i] \in Languages
    PROVE  LET map == Mapped(f, s, a)
               mapping == JobMapping(f.tracks, Output(f, s, a).tracks, Removed(f, s, a))
           IN  /\ DOMAIN mapping = {map[m] : m \in DOMAIN map}
               /\ \A m \in DOMAIN map : mapping[map[m]] = m
               /\ \A m, n \in DOMAIN map : map[m] = map[n] => m = n
<1> DEFINE map == Mapped(f, s, a)
           In(type) == OfType(f.tracks, type, Removed(f, s, a))
           Out(type) == OfType(Output(f, s, a).tracks, type, {})
           Pairs(type) == IF Len(In(type)) # Len(Out(type)) THEN {}
                          ELSE {<<In(type)[n], Out(type)[n]>> : n \in DOMAIN In(type)}
           pairs == UNION {Pairs(type) : type \in {"video", "audio", "subtitle"}}
           mapping == JobMapping(f.tracks, Output(f, s, a).tracks, Removed(f, s, a))
<1>1. mapping = [i \in {p[1] : p \in pairs} |-> (CHOOSE p \in pairs : p[1] = i)[2]]
  BY DEF JobMapping
<1>2. ASSUME NEW type \in TrackTypes
      PROVE  Pairs(type) =
               {<<map[m], m>> : m \in {m \in DOMAIN map : map[m] \in KeptOf(f, s, a, type)}}
  <2>1. Pairs(type) = Paired(f, s, a, type)
    BY DEF Paired
  <2>2. Paired(f, s, a, type) = Placed(f, s, a, type)
    BY PairsInOrder
  <2> HIDE DEF Pairs
  <2> QED BY <2>1, <2>2 DEF Placed
<1>3. DOMAIN map \in SUBSET Nat
  <2>1. Output(f, s, a) \in MediaFiles /\ DOMAIN Output(f, s, a).tracks = DOMAIN map
    BY OutputFits
  <2> HIDE DEF map
  <2> QED BY <2>1, StreamsFit
<1>4. /\ \A m \in DOMAIN map : \E type \in TrackTypes : map[m] \in KeptOf(f, s, a, type)
      /\ \A m, n \in DOMAIN map : map[m] = map[n] => m = n
  BY <1>3, MappedOnce
<1>5. pairs = UNION {Pairs(type) : type \in TrackTypes}
  BY DEF TrackTypes
<1> HIDE DEF map, Pairs, pairs, mapping
<1>6. ASSUME NEW p \in pairs PROVE \E m \in DOMAIN map : p[1] = map[m] /\ p[2] = m
  <2>1. PICK m \in DOMAIN map : p = <<map[m], m>>
    BY <1>2, <1>5
  <2> QED BY <2>1
<1>7. ASSUME NEW m \in DOMAIN map PROVE \E p \in pairs : p[1] = map[m] /\ p[2] = m
  <2>1. PICK type \in TrackTypes : map[m] \in KeptOf(f, s, a, type)
    BY <1>4
  <2>2. <<map[m], m>> \in Pairs(type)
    BY <1>2, <2>1
  <2>3. <<map[m], m>> \in pairs
    BY <1>5, <2>2
  <2>4. <<map[m], m>>[1] = map[m] /\ <<map[m], m>>[2] = m
    OBVIOUS
  <2> QED BY <2>3, <2>4
<1>8. {p[1] : p \in pairs} = {map[m] : m \in DOMAIN map}
  BY <1>6, <1>7
<1>9. ASSUME NEW m \in DOMAIN map PROVE mapping[map[m]] = m
  <2> DEFINE p == CHOOSE p \in pairs : p[1] = map[m]
  <2>1. p \in pairs /\ p[1] = map[m]
    <3>1. \E q \in pairs : q[1] = map[m]
      BY <1>7
    <3> QED BY <3>1
  <2>2. PICK n \in DOMAIN map : p[1] = map[n] /\ p[2] = n
    BY <1>6, <2>1
  <2>3. p[2] = m
    BY <1>4, <2>1, <2>2
  <2>4. mapping[map[m]] = p[2]
    BY <1>1, <1>8
  <2> QED BY <2>3, <2>4
<1>10. DOMAIN mapping = {map[m] : m \in DOMAIN map}
  BY <1>1, <1>8
<1> QED BY <1>4, <1>9, <1>10 DEF map, mapping

\* The tracks of a file have ids of their own.
IdsApart ==
    \A i, j \in DOMAIN file.tracks : file.tracks[i].id = file.tracks[j].id => i = j

\* No pass writes a track twice.
LEMMA IdsStayApart == Spec => []IdsApart
<1>1. Init => IdsApart
  BY CasesGiven DEF Init, IdsApart
<1>2. IInv /\ IdsApart /\ [Next]_vars => IdsApart'
  <2> SUFFICES ASSUME IInv, IdsApart, [Next]_vars PROVE IdsApart'
    OBVIOUS
  <2>1. CASE UNCHANGED file
    BY <2>1 DEF IdsApart
  <2>2. CASE Run
    <3> DEFINE map == Mapped(file, settings, Given)
    <3>1. file \in MediaFiles /\ settings.primary \in Languages /\ TypeOK
      BY DEF IInv, TypeOK
    <3>2. file' = Output(file, settings, Given)
      BY <2>2 DEF Run
    <3>3. /\ DOMAIN file'.tracks = DOMAIN map
          /\ \A n \in DOMAIN map : /\ map[n] \in DOMAIN file.tracks
                                   /\ file'.tracks[n].id = file.tracks[map[n]].id
      BY <3>1, <3>2, GivenFits, OutputFits
    <3>4. \A m, n \in DOMAIN map : map[m] = map[n] => m = n
      BY <3>1, GivenFits, MappingFollows
    <3> HIDE DEF map
    <3> QED BY <3>3, <3>4 DEF IdsApart
  <2> QED BY <2>1, <2>2 DEF Next, vars, Decide, AnswerReview, SetLanguage, Acknowledge
<1> QED BY <1>1, <1>2, InvariantHolds, PTL DEF Spec

\* What a column holds for the m-th track of the output is what it held for the
\* track that was put there.
Follows(f, s, a, column, m) ==
    LET i == Mapped(f, s, a)[m]
        out == Output(f, s, a).tracks
        before == Resolve(column, f.tracks)
        after == Resolve(Rekey(column, f.tracks, out,
                               JobMapping(f.tracks, out, Removed(f, s, a))), out)
    IN  /\ i \in DOMAIN before <=> m \in DOMAIN after
        /\ i \in DOMAIN before => before[i] = after[m]

\* An answer is found again for the track it was given for, where it is now, and
\* for no other.
LEMMA RekeyFollows ==
    ASSUME NEW f \in MediaFiles, NEW s, s.primary \in Languages, NEW a,
           \A i \in DOMAIN a.audioLang : a.audioLang[i] \in Languages,
           \A i \in DOMAIN a.subLang : a.subLang[i] \in Languages,
           NEW column, NEW m \in DOMAIN Mapped(f, s, a)
    PROVE  Follows(f, s, a, column, m)
<1> DEFINE map == Mapped(f, s, a)
           g == Output(f, s, a)
           out == g.tracks
           mapping == JobMapping(f.tracks, out, Removed(f, s, a))
           before == Resolve(column, f.tracks)
           carried == {k \in DOMAIN before \cap DOMAIN mapping :
                          out[mapping[k]].type = f.tracks[k].type}
           Key(k) == Descriptor(out, mapping[k])
           new == Rekey(column, f.tracks, out, mapping)
           after == Resolve(new, out)
<1>1. /\ g \in MediaFiles /\ DOMAIN out = DOMAIN map
      /\ \A n \in DOMAIN map : out[n].type = f.tracks[map[n]].type
  BY OutputFits
<1>2. /\ DOMAIN mapping = {map[n] : n \in DOMAIN map}
      /\ \A n \in DOMAIN map : mapping[map[n]] = n
  BY MappingFollows
<1>3. new = [key \in {Key(k) : k \in carried} |-> before[CHOOSE k \in carried : Key(k) = key]]
  BY DEF Rekey
<1>4. after = [n \in {n \in DOMAIN out : Descriptor(out, n) \in DOMAIN new} |->
                  new[Descriptor(out, n)]]
  BY DEF Resolve
<1>5. \A n \in DOMAIN out : Descriptor(out, n) = Descriptor(out, m) => n = m
  <2>1. m \in DOMAIN out
    BY <1>1
  <2> HIDE DEF g
  <2> QED BY <1>1, <2>1, DescriptorTells
<1> HIDE DEF map, g, mapping, before, new, after
<1>6. carried = DOMAIN before \cap {map[n] : n \in DOMAIN map}
  BY <1>1, <1>2
<1> HIDE DEF carried
<1>7. \A k \in carried : Key(k) = Descriptor(out, m) => k = map[m]
  BY <1>1, <1>2, <1>5, <1>6
<1>8. map[m] \in carried => Key(map[m]) = Descriptor(out, m)
  BY <1>2 DEF map
<1>9. map[m] \in DOMAIN before <=> map[m] \in carried
  BY <1>6 DEF map
<1>10. m \in DOMAIN after <=> Descriptor(out, m) \in {Key(k) : k \in carried}
  BY <1>1, <1>3, <1>4 DEF map
<1>11. map[m] \in DOMAIN before <=> m \in DOMAIN after
  BY <1>7, <1>8, <1>9, <1>10
<1>12. ASSUME map[m] \in DOMAIN before PROVE before[map[m]] = after[m]
  <2> DEFINE k == CHOOSE k \in carried : Key(k) = Descriptor(out, m)
  <2>1. k \in carried /\ Key(k) = Descriptor(out, m)
    BY <1>8, <1>9, <1>12
  <2>2. k = map[m]
    BY <1>7, <2>1
  <2>3. after[m] = new[Descriptor(out, m)]
    BY <1>4, <1>11, <1>12
  <2>4. new[Descriptor(out, m)] = before[k]
    BY <1>3, <1>10, <1>11, <1>12
  <2> QED BY <2>2, <2>3, <2>4
<1> QED BY <1>11, <1>12 DEF Follows, map, g, mapping, before, new, after

\* A run carries each answer to the place its track has in the new file; no
\* other track inherits it, and none is lost while its track is there.
THEOREM AnswersFollowTracks == Spec => AnswersFollow
<1>1. IInv /\ IdsApart /\ [Next]_vars =>
        [\A c \in Columns, i \in DOMAIN file.tracks, j \in DOMAIN file'.tracks :
            Ran /\ file.tracks[i].id = file'.tracks[j].id =>
               LET before == Resolve(stored[c], file.tracks)
                   after == Resolve(stored'[c], file'.tracks)
               IN  /\ i \in DOMAIN before <=> j \in DOMAIN after
                   /\ i \in DOMAIN before => before[i] = after[j]]_vars
  <2> SUFFICES ASSUME IInv, IdsApart, Next, Ran, NEW c \in Columns,
                      NEW i \in DOMAIN file.tracks, NEW j \in DOMAIN file'.tracks,
                      file.tracks[i].id = file'.tracks[j].id
               PROVE  LET before == Resolve(stored[c], file.tracks)
                          after == Resolve(stored'[c], file'.tracks)
                      IN  /\ i \in DOMAIN before <=> j \in DOMAIN after
                          /\ i \in DOMAIN before => before[i] = after[j]
    OBVIOUS
  <2> DEFINE map == Mapped(file, settings, Given)
  <2>1. Run
    BY RanIsRun
  <2>2. file \in MediaFiles /\ settings.primary \in Languages /\ TypeOK
    BY DEF IInv, TypeOK
  <2>3. /\ file' = Output(file, settings, Given)
        /\ stored'[c] = Rekey(stored[c], file.tracks, file'.tracks,
                              JobMapping(file.tracks, file'.tracks,
                                         Removed(file, settings, Given)))
    BY <2>1 DEF Run
  <2>4. /\ j \in DOMAIN map /\ map[j] \in DOMAIN file.tracks
        /\ file'.tracks[j].id = file.tracks[map[j]].id
    BY <2>2, <2>3, GivenFits, OutputFits
  <2>5. i = map[j]
    BY <2>4 DEF IdsApart
  <2> DEFINE out == Output(file, settings, Given).tracks
             before == Resolve(stored[c], file.tracks)
             after == Resolve(Rekey(stored[c], file.tracks, out,
                                    JobMapping(file.tracks, out,
                                               Removed(file, settings, Given))), out)
  <2>6. /\ map[j] \in DOMAIN before <=> j \in DOMAIN after
        /\ map[j] \in DOMAIN before => before[map[j]] = after[j]
    <3>1. Follows(file, settings, Given, stored[c], j)
      BY <2>2, <2>4, GivenFits, RekeyFollows
    <3> QED BY <3>1 DEF Follows
  <2>7. Resolve(stored'[c], file'.tracks) = after
    BY <2>3
  <2> HIDE DEF map, before, after
  <2> QED BY <2>5, <2>6, <2>7 DEF before
<1> QED BY <1>1, InvariantHolds, IdsStayApart, PTL DEF Spec, AnswersFollow

-----------------------------------------------------------------------------
(* What is in the folder stays there                                       *)

\* The names of a pass are triples, and finitely many.
LEMMA NamesFinite ==
    ASSUME IInv, FolderFinite
    PROVE  LET names == Range(Named(file, settings, Given, DOMAIN folder))
           IN  /\ IsFiniteSet(names)
               /\ \A h \in names : h[3] \in Nat \ {0} /\ h = <<h[1], h[2], h[3]>>
<1> DEFINE names == Named(file, settings, Given, DOMAIN folder)
<1>1. /\ DOMAIN names = Extracted(file, settings, Given)
      /\ Extracted(file, settings, Given) \in SUBSET DOMAIN file.tracks
      /\ \A i \in DOMAIN names : /\ names[i][3] \in Nat \ {0}
                                 /\ names[i] = <<names[i][1], names[i][2], names[i][3]>>
  BY NamedFits DEF FolderFinite, IInv, TypeOK
<1>2. IsFiniteSet(DOMAIN names)
  BY <1>1, StreamsFit DEF IInv, TypeOK
<1> HIDE DEF names
<1>3. IsFiniteSet(Range(names))
  BY <1>2, RangeFinite
<1>4. \A h \in Range(names) : h[3] \in Nat \ {0} /\ h = <<h[1], h[2], h[3]>>
  BY <1>1 DEF Range
<1> QED BY <1>3, <1>4 DEF names

\* Files that are moved aside get free names, each its own.
LEMMA MovedApart ==
    ASSUME NEW taken, IsFiniteSet(taken), NEW hit,
           \A h \in hit : h[3] \in Nat \ {0} /\ h = <<h[1], h[2], h[3]>>
    PROVE  LET Place(h) == Cardinality({n \in 1 .. h[3] : <<h[1], h[2], n>> \in hit})
               Moved(h) == MovedTo(h, Place(h), taken)
           IN  /\ \A h \in hit : Moved(h) \notin taken
               /\ \A h, g \in hit : Moved(h) = Moved(g) => h = g
<1> DEFINE Before(h) == {n \in 1 .. h[3] : <<h[1], h[2], n>> \in hit}
           Moved(h) == MovedTo(h, Cardinality(Before(h)), taken)
<1>1. ASSUME NEW h \in hit
      PROVE  /\ h[3] \in Before(h) /\ IsFiniteSet(Before(h))
             /\ Cardinality(Before(h)) \in Nat \ {0}
  <2>1. h[3] \in Before(h)
    OBVIOUS
  <2>2. IsFiniteSet(Before(h))
    <3>1. h[3] \in Nat
      OBVIOUS
    <3>2. IsFiniteSet(1 .. h[3])
      BY <3>1, FS_Interval
    <3>3. Before(h) \in SUBSET (1 .. h[3])
      OBVIOUS
    <3> HIDE DEF Before
    <3> QED BY <3>2, <3>3, FS_Subset
  <2> HIDE DEF Before
  <2> QED BY <2>1, <2>2, FS_CardinalityType, FS_EmptySet
<1>2. ASSUME NEW h \in hit, NEW g \in hit, h[1] = g[1], h[2] = g[2], h[3] < g[3]
      PROVE  Cardinality(Before(h)) # Cardinality(Before(g))
  <2>1. g[3] \in Before(g) /\ g[3] \notin Before(h) /\ IsFiniteSet(Before(g))
    BY <1>1, <1>2
  <2>2. Before(h) \in SUBSET Before(g)
    BY <1>2
  <2> HIDE DEF Before
  <2> QED BY <2>1, <2>2, FS_Subset
<1> HIDE DEF Before
<1>3. ASSUME NEW h \in hit
      PROVE  /\ Moved(h)[1] = h[1] /\ Moved(h)[2] = h[2] /\ Moved(h) \notin taken
             /\ Cardinality({n \in 1 .. Moved(h)[3] : <<h[1], h[2], n>> \notin taken})
                  = Cardinality(Before(h))
  BY <1>1, FreeNameFits DEF MovedTo
<1> HIDE DEF Moved
<1>4. ASSUME NEW h \in hit, NEW g \in hit, Moved(h) = Moved(g) PROVE h = g
  <2>1. h[1] = g[1] /\ h[2] = g[2]
    BY <1>3, <1>4
  <2>2. Cardinality(Before(h)) = Cardinality(Before(g))
    BY <1>3, <1>4, <2>1
  <2>3. ~(h[3] < g[3]) /\ ~(g[3] < h[3])
    BY <1>2, <2>1, <2>2
  <2>4. h[3] = g[3]
    BY <2>3
  <2>5. h = <<h[1], h[2], h[3]>> /\ g = <<g[1], g[2], g[3]>>
    OBVIOUS
  <2> QED BY <2>1, <2>4, <2>5
<1> QED BY <1>3, <1>4 DEF Moved, Before

\* A run leaves what is in the folder there, unless that is to be replaced.
LEMMA RunSpares ==
    ASSUME IInv, FolderFinite, Run, settings.existing \in {"keep_both", "embedded_first"},
           NEW name \in DOMAIN folder
    PROVE  \E new \in DOMAIN folder' : folder'[new] = folder[name]
<1> DEFINE given == Named(file, settings, Given, DOMAIN folder)
           names == Range(given)
           saved == [n \in names |-> file.tracks[Max({i \in DOMAIN given : given[i] = n})].id]
<1>1. folder' = Updated(MovedAside(names), saved)
  BY DEF Run
<1>2. IsFiniteSet(names) /\ \A h \in names : h[3] \in Nat \ {0} /\ h = <<h[1], h[2], h[3]>>
  BY NamesFinite
<1>3. DOMAIN saved = names
  OBVIOUS
<1>4. CASE settings.existing = "keep_both"
  <2>1. \A i \in DOMAIN given : given[i] \notin DOMAIN folder
    BY <1>4, NamedFits DEF UsedIn, FolderFinite, IInv, TypeOK
  <2>2. name \notin names
    <3> HIDE DEF given
    <3> QED BY <2>1 DEF Range
  <2>3. MovedAside(names) = folder
    BY <1>4 DEF MovedAside
  <2> HIDE DEF saved, given, names
  <2>4. name \in DOMAIN folder' /\ folder'[name] = folder[name]
    BY <1>1, <1>3, <2>2, <2>3 DEF Updated
  <2> QED BY <2>4
<1>5. CASE settings.existing = "embedded_first"
  <2> HIDE DEF given
  <2> DEFINE hit == names \cap DOMAIN folder
             taken == names \cup DOMAIN folder
             Moved(h) == MovedTo(h, Cardinality({n \in 1 .. h[3] : <<h[1], h[2], n>> \in hit}),
                                 taken)
             moved == [h \in hit |-> Moved(h)]
             aside == [n \in {moved[h] : h \in hit} |->
                          folder[CHOOSE h \in hit : moved[h] = n]]
             rest == [n \in DOMAIN folder \ hit |-> folder[n]]
  <2> HIDE DEF names, saved
  <2>1. MovedAside(names) = Updated(rest, aside)
    BY <1>5 DEF MovedAside
  <2>2. IsFiniteSet(taken)
    BY <1>2, FS_Union DEF FolderFinite
  <2>3. /\ \A h \in hit : Moved(h) \notin taken
        /\ \A h, g \in hit : Moved(h) = Moved(g) => h = g
    BY <1>2, <2>2, MovedApart
  <2> HIDE DEF Moved
  <2>4. \A h \in hit : moved[h] = Moved(h)
    OBVIOUS
  <2>5. DOMAIN aside = {moved[h] : h \in hit} /\ DOMAIN rest = DOMAIN folder \ hit
    OBVIOUS
  <2>6. \A n \in DOMAIN aside : n \notin taken
    BY <2>3, <2>4, <2>5
  <2>7. CASE name \in hit
    <3> DEFINE new == moved[name]
    <3>1. new \in DOMAIN aside /\ new \notin names
      BY <2>5, <2>6, <2>7
    <3>2. (CHOOSE h \in hit : moved[h] = new) = name
      BY <2>3, <2>4, <2>7
    <3>3. aside[new] = folder[name]
      BY <3>1, <3>2
    <3> HIDE DEF new, aside, rest
    <3>4. new \in DOMAIN folder' /\ folder'[new] = aside[new]
      BY <1>1, <1>3, <2>1, <3>1 DEF Updated
    <3> QED BY <3>3, <3>4
  <2>8. CASE name \notin hit
    <3>1. name \notin names /\ name \notin DOMAIN aside /\ name \in DOMAIN rest
      BY <2>5, <2>6, <2>8
    <3>2. rest[name] = folder[name]
      BY <2>8
    <3> HIDE DEF aside, rest
    <3>3. name \in DOMAIN folder' /\ folder'[name] = rest[name]
      BY <1>1, <1>3, <2>1, <3>1 DEF Updated
    <3> QED BY <3>2, <3>3
  <2> QED BY <2>7, <2>8
<1> QED BY <1>4, <1>5

-----------------------------------------------------------------------------
(* A subtitle is extracted once                                            *)

\* No answer and no setting will have this subtitle extracted: it has another
\* answer, or cannot be extracted; or nothing is, and it will not be asked about;
\* or it is always kept for its fonts.
Spared(i) ==
    LET answers == Resolve(stored["subs"], file.tracks)
        styled == Kind(file, i) \in StyledSubs /\ file.fonts
    IN  \/ Kind(file, i) \notin ConvertibleSubs
        \/ i \in DOMAIN answers /\ answers[i] # "extract"
        \/ i \notin DOMAIN answers /\ ~settings.extract
             /\ ~(styled /\ settings.fonts = "always_ask")
        \/ i \notin DOMAIN answers /\ styled /\ settings.fonts = "always_keep"

\* No work is queued while a review is due.
ReviewedFirst == stage = "queued" => Flagged(file, settings, Given) = {}

\* Once a pass has extracted a subtitle none is left that another will.
SavedOnce ==
    \/ \A name \in DOMAIN folder : folder[name] = "user"
    \/ \A i \in Streams(file, "subtitle") : Spared(i)

\* The answers a file is decided from are resolved from the column.
LEMMA GivenSubs ==
    ASSUME TypeOK
    PROVE  /\ Given.subs = Resolve(stored["subs"], file.tracks)
           /\ \A i \in DOMAIN Given.subs : Given.subs[i] \in {"keep", "remove", "extract"}
<1>1. Column(stored["subs"], file.tracks, {"keep", "remove", "extract"})
  BY TypeParts DEF Columns, AnswersIn
<1>2. Given.subs = Resolve(stored["subs"], file.tracks)
  BY DEF Given
<1> QED BY <1>1, <1>2, ResolveFits

\* A spared subtitle is not extracted.
LEMMA SparedStays ==
    ASSUME TypeOK, NEW i \in Streams(file, "subtitle"), Spared(i)
    PROVE  i \notin Extracted(file, settings, Given)
<1> DEFINE subs == Given.subs
           images == Images(file, settings, Given)
           styled == Styled(file, settings, Given)
           known == Answered(file, Given)
           choice == Choice(file, settings, Given, i)
<1>1. /\ subs = Resolve(stored["subs"], file.tracks)
      /\ \A j \in DOMAIN subs : subs[j] \in {"keep", "remove", "extract"}
  BY GivenSubs
<1>2. \A j \in known :
        j \in DOMAIN subs /\ (subs[j] # "extract" \/ Kind(file, j) \in ConvertibleSubs)
  BY DEF Answered
<1>3. \A j \in images \cup styled : j \notin known
  BY DEF Images, Styled, Unanswered
<1>4. i \in known => choice = subs[i]
  BY <1>3 DEF Choice
<1>5. i \notin known => choice \in {"keep", "remove", "none"}
  BY DEF Choice
<1>6. Kind(file, i) \in StyledSubs => i \notin images
  BY DEF Images, Unanswered, StyledSubs, ImageSubs
<1>7. ASSUME i \notin known, i \in styled, settings.fonts = "always_keep",
             Kind(file, i) \in StyledSubs
      PROVE  choice = "keep"
  BY <1>6, <1>7 DEF Choice
<1>8. ASSUME i \notin known, i \notin DOMAIN subs,
             Kind(file, i) \in StyledSubs, file.fonts, SubWanted(file, settings, i)
      PROVE  i \in styled
  BY <1>8 DEF Styled, Unanswered
<1> HIDE DEF subs, images, styled, known, choice
<1>9. SUFFICES ASSUME \/ choice = "extract"
                      \/ /\ choice = "none" /\ SubWanted(file, settings, i)
                         /\ settings.extract /\ Kind(file, i) \in ConvertibleSubs
               PROVE  FALSE
  BY DEF Extracted, choice
<1>10. CASE Kind(file, i) \notin ConvertibleSubs
  <2>1. choice = "extract"
    BY <1>9, <1>10
  <2>2. i \in known /\ subs[i] = "extract"
    BY <1>4, <1>5, <2>1
  <2> QED BY <1>2, <1>10, <2>2
<1>11. CASE i \in DOMAIN subs /\ subs[i] # "extract"
  <2>1. i \in known
    BY <1>11 DEF known, subs, Answered
  <2>2. choice \in {"keep", "remove"}
    BY <1>1, <1>4, <1>11, <2>1
  <2> QED BY <1>9, <2>2
<1>12. CASE i \notin DOMAIN subs /\ ~settings.extract
  <2>1. choice # "extract"
    BY <1>2, <1>5, <1>12
  <2> QED BY <1>9, <1>12, <2>1
<1>13. CASE /\ i \notin DOMAIN subs /\ Kind(file, i) \in StyledSubs /\ file.fonts
            /\ settings.fonts = "always_keep"
  <2>1. i \notin known
    BY <1>2, <1>13
  <2>2. choice # "extract" /\ (SubWanted(file, settings, i) => choice = "keep")
    BY <1>5, <1>7, <1>8, <1>13, <2>1
  <2> QED BY <1>9, <2>2
<1> QED BY <1>1, <1>10, <1>11, <1>12, <1>13 DEF Spared

\* What a run leaves in the file is spared.
LEMMA EmbeddedSpared ==
    ASSUME TypeOK, Flagged(file, settings, Given) = {},
           NEW i \in Embedded(file, settings, Given)
    PROVE  Spared(i)
<1> DEFINE subs == Given.subs
           choice == Choice(file, settings, Given, i)
           wanted == SubWanted(file, settings, i)
<1>1. subs = Resolve(stored["subs"], file.tracks)
  BY GivenSubs
<1>2. /\ i \in Streams(file, "subtitle")
      /\ choice # "extract"
      /\ ~(choice = "none" /\ wanted /\ settings.extract /\ Kind(file, i) \in ConvertibleSubs)
      /\ choice = "keep" \/ (choice = "none" /\ wanted)
  BY DEF Embedded, Extracted
<1>3. SUFFICES ASSUME Kind(file, i) \in ConvertibleSubs PROVE Spared(i)
  BY DEF Spared
<1>4. i \in Answered(file, Given) <=> i \in DOMAIN subs
  BY <1>3 DEF Answered
<1>5. i \in DOMAIN subs => choice = subs[i]
  <2>1. i \in Answered(file, Given) =>
          i \notin Images(file, settings, Given) \cup Styled(file, settings, Given)
    BY DEF Images, Styled, Unanswered
  <2> QED BY <1>4, <2>1 DEF Choice
<1>6. i \notin Images(file, settings, Given)
  BY <1>3 DEF Images, Unanswered, ImageSubs, ConvertibleSubs
<1>7. ASSUME i \notin DOMAIN subs, choice = "keep"
      PROVE  i \in Styled(file, settings, Given) /\ settings.fonts = "always_keep"
  BY <1>4, <1>6, <1>7 DEF Choice
<1>8. i \in Styled(file, settings, Given) => Kind(file, i) \in StyledSubs /\ file.fonts
  BY DEF Styled, Unanswered
<1>9. ASSUME i \notin DOMAIN subs, wanted, Kind(file, i) \in StyledSubs, file.fonts
      PROVE  settings.fonts # "always_ask"
  <2>1. i \in Styled(file, settings, Given)
    BY <1>2, <1>4, <1>9 DEF Styled, Unanswered
  <2> QED BY <2>1 DEF Flagged
<1> HIDE DEF subs, choice, wanted
<1>10. CASE i \in DOMAIN subs
  BY <1>1, <1>2, <1>5, <1>10 DEF Spared
<1>11. CASE i \notin DOMAIN subs /\ choice = "keep"
  BY <1>1, <1>7, <1>8, <1>11 DEF Spared
<1>12. CASE i \notin DOMAIN subs /\ choice = "none" /\ wanted
  BY <1>1, <1>2, <1>3, <1>9, <1>12 DEF Spared
<1> QED BY <1>2, <1>10, <1>11, <1>12

\* An answered review spares what was spared: it asks about none of it that could
\* be extracted.
LEMMA ReviewSpares ==
    ASSUME TypeOK, AnswerReview, NEW i \in Streams(file, "subtitle"), Spared(i)
    PROVE  Spared(i)'
<1> DEFINE flagged == Flagged(file, settings, Given)
           subs == Resolve(stored["subs"], file.tracks)
<1>1. PICK answers \in [flagged -> {"keep", "remove", "extract"}] :
         stored' = [stored EXCEPT !["subs"] =
           Updated(stored["subs"],
                   [key \in {Descriptor(file.tracks, j) : j \in DOMAIN answers} |->
                       answers[StreamOf(file.tracks, key)]])]
  BY DEF AnswerReview
<1> DEFINE new == [key \in {Descriptor(file.tracks, j) : j \in flagged} |->
                      answers[StreamOf(file.tracks, key)]]
<1>2. file \in MediaFiles /\ DOMAIN stored = Columns /\ UNCHANGED <<file, settings>>
  BY TypeParts DEF AnswerReview
<1>3. stored'["subs"] = Updated(stored["subs"], new)
  BY <1>1, <1>2 DEF Columns
<1>4. flagged \subseteq DOMAIN file.tracks
  BY <1>2, FlagsFit
<1>5. i \in DOMAIN file.tracks
  BY DEF Streams
<1>6. CASE i \in flagged
  <2>1. i \in Images(file, settings, Given) => Kind(file, i) \notin ConvertibleSubs
    BY DEF Images, Unanswered, ImageSubs, ConvertibleSubs
  <2>2. ASSUME i \in Styled(file, settings, Given), settings.fonts = "always_ask"
        PROVE  Kind(file, i) \notin ConvertibleSubs
    <3>1. i \notin Answered(file, Given) /\ Kind(file, i) \in StyledSubs /\ file.fonts
      BY <2>2 DEF Styled, Unanswered
    <3>2. ~(i \in DOMAIN subs /\ subs[i] # "extract")
      BY <3>1, GivenSubs DEF Answered
    <3> HIDE DEF subs
    <3> QED BY <2>2, <3>1, <3>2 DEF Spared, subs
  <2>3. Kind(file, i) \notin ConvertibleSubs
    BY <1>6, <2>1, <2>2 DEF Flagged
  <2> QED BY <1>2, <2>3 DEF Spared, Kind
<1>7. CASE i \notin flagged
  <2>1. Descriptor(file.tracks, i) \notin DOMAIN new
    BY <1>2, <1>4, <1>5, <1>7, DescriptorTells
  <2> DEFINE after == Resolve(stored'["subs"], file.tracks)
             key == Descriptor(file.tracks, i)
  <2> HIDE DEF new
  <2>2. /\ key \in DOMAIN stored'["subs"] <=> key \in DOMAIN stored["subs"]
        /\ key \in DOMAIN stored["subs"] => stored'["subs"][key] = stored["subs"][key]
    BY <1>3, <2>1 DEF Updated
  <2>3. i \in DOMAIN after <=> i \in DOMAIN subs
    BY <1>5, <2>2 DEF Resolve
  <2>4. i \in DOMAIN subs => after[i] = subs[i]
    BY <1>5, <2>2 DEF Resolve
  <2> HIDE DEF after, subs
  <2> QED BY <1>2, <2>3, <2>4 DEF Spared, Kind, after, subs
<1> QED BY <1>6, <1>7

\* A run that has begun with every review answered leaves only subtitles that are
\* spared; an "extract" that was not carried out stays with what it cannot be
\* carried out on.
LEMMA RunLeavesSpared ==
    ASSUME IInv, ReviewedFirst, Run
    PROVE  \A n \in Streams(file', "subtitle") : Spared(n)'
<1> SUFFICES ASSUME NEW n \in Streams(file', "subtitle") PROVE Spared(n)'
  OBVIOUS
<1> DEFINE out == Output(file, settings, Given)
           map == Mapped(file, settings, Given)
           i == map[n]
           before == Resolve(stored["subs"], file.tracks)
           after == Resolve(stored'["subs"], file'.tracks)
<1>1. /\ file \in MediaFiles /\ settings.primary \in Languages /\ TypeOK
      /\ Flagged(file, settings, Given) = {}
  BY DEF IInv, TypeOK, ReviewedFirst, Run
<1>2. /\ file' = out /\ settings' = settings
      /\ stored'["subs"] = Rekey(stored["subs"], file.tracks, out.tracks,
                                 JobMapping(file.tracks, out.tracks,
                                            Removed(file, settings, Given)))
  BY DEF Run, Columns
<1>3. /\ n \in DOMAIN map /\ i \in DOMAIN file.tracks
      /\ Kind(file', n) = Kind(file, i)
      /\ file.tracks[i].type = "subtitle"
      /\ out.container = Target(file, settings, Given)
  BY <1>1, <1>2, GivenFits, OutputFits DEF Streams, Kind
<1>4. i \in Embedded(file, settings, Given)
  <2> DEFINE W == Streams(file, "video") \cup AudioKept(file, settings)
                    \cup Embedded(file, settings, Given)
  <2>1. Lists(map, W)
    BY <1>1, MappedFits
  <2>2. i \in W
    <3> HIDE DEF W, map
    <3> QED BY <1>3, <2>1 DEF Lists
  <2>3. i \notin Streams(file, "video") /\ i \notin Streams(file, "audio")
    BY <1>3 DEF Streams
  <2>4. AudioKept(file, settings) \subseteq Streams(file, "audio")
    BY <1>1, AudioKeptFits
  <2> QED BY <2>2, <2>3, <2>4
<1>5. Spared(i)
  BY <1>1, <1>4, EmbeddedSpared
<1>6. /\ i \in DOMAIN before <=> n \in DOMAIN after
      /\ i \in DOMAIN before => before[i] = after[n]
  <2>1. Follows(file, settings, Given, stored["subs"], n)
    BY <1>1, <1>3, GivenFits, RekeyFollows
  <2> QED BY <1>2, <2>1 DEF Follows
<1>7. file'.fonts = (file.fonts /\ Target(file, settings, Given) # "mp4")
  BY <1>2 DEF Output
<1>8. ASSUME Kind(file, i) \in StyledSubs PROVE Target(file, settings, Given) # "mp4"
  <2>1. file.container # "mp4"
    BY <1>3, <1>8 DEF IInv, MuxFits, Muxable, StyledSubs, Mp4Video, Mp4Audio, Kind
  <2>2. ~Converts(file, settings, Given)
    BY <1>4, <1>8 DEF Converts, StyledSubs, Mp4IncompatibleSubs
  <2> QED BY <2>1, <2>2 DEF Target
<1> HIDE DEF before, after, i, map, out
<1>9. CASE Kind(file, i) \notin ConvertibleSubs
  BY <1>3, <1>9 DEF Spared
<1>10. CASE i \in DOMAIN before /\ before[i] # "extract"
  BY <1>6, <1>10 DEF Spared, after
<1>11. CASE /\ i \notin DOMAIN before /\ ~settings.extract
            /\ ~(Kind(file, i) \in StyledSubs /\ file.fonts /\ settings.fonts = "always_ask")
  BY <1>2, <1>3, <1>6, <1>7, <1>11 DEF Spared, after
<1>12. CASE /\ i \notin DOMAIN before /\ Kind(file, i) \in StyledSubs /\ file.fonts
            /\ settings.fonts = "always_keep"
  BY <1>2, <1>3, <1>6, <1>7, <1>8, <1>12 DEF Spared, after
<1> QED BY <1>5, <1>9, <1>10, <1>11, <1>12 DEF Spared, before

\* With nothing left to extract a run leaves the folder as it is.
LEMMA NothingSaved ==
    ASSUME IInv, FolderFinite, Run, settings.existing = "replace",
           \A i \in Streams(file, "subtitle") : Spared(i)
    PROVE  /\ DOMAIN folder' = DOMAIN folder
           /\ \A name \in DOMAIN folder : folder'[name] = folder[name]
<1> DEFINE given == Named(file, settings, Given, DOMAIN folder)
           names == Range(given)
           saved == [n \in names |-> file.tracks[Max({i \in DOMAIN given : given[i] = n})].id]
<1>1. folder' = Updated(MovedAside(names), saved)
  BY DEF Run
<1>2. MovedAside(names) = folder
  BY DEF MovedAside
<1>3. Extracted(file, settings, Given) = {}
  BY SparedStays DEF IInv, Extracted
<1>4. DOMAIN given = {}
  BY <1>3, NamedFits DEF FolderFinite, IInv, TypeOK
<1>5. names = {}
  <2> HIDE DEF given
  <2> QED BY <1>4 DEF Range
<1>6. DOMAIN saved = {}
  <2> HIDE DEF given
  <2> QED BY <1>5
<1> HIDE DEF saved, names
<1> QED BY <1>1, <1>2, <1>6 DEF Updated

\* Under the settings, a pass extracts nothing that an earlier one has.
LEMMA OnceSaved == Spec => [](ReviewedFirst /\ SavedOnce)
<1>1. Init => ReviewedFirst /\ SavedOnce
  <2> SUFFICES ASSUME Init PROVE ReviewedFirst /\ SavedOnce
    OBVIOUS
  <2>1. PICK c \in Cases :
           folder = [name \in IF c.sidecar THEN {UserFile} ELSE {} |-> "user"]
    BY DEF Init
  <2> QED BY <2>1 DEF Init, ReviewedFirst, SavedOnce
<1>2. IInv /\ FolderFinite /\ ReviewedFirst /\ SavedOnce /\ [Next]_vars
        => (ReviewedFirst /\ SavedOnce)'
  <2> SUFFICES ASSUME IInv, FolderFinite, ReviewedFirst, SavedOnce, [Next]_vars
               PROVE  ReviewedFirst' /\ SavedOnce'
    OBVIOUS
  <2>t. TypeOK /\ DOMAIN stored = Columns
    BY DEF IInv, TypeOK
  <2>s. ASSUME UNCHANGED <<file, settings, folder>>, stored'["subs"] = stored["subs"]
        PROVE  SavedOnce'
    <3>1. \A i : Spared(i)' <=> Spared(i)
      BY <2>s DEF Spared, Kind
    <3> QED BY <2>s, <3>1 DEF SavedOnce, Streams
  <2>1. CASE UNCHANGED vars
    <3>1. ReviewedFirst'
      BY <2>1 DEF vars, ReviewedFirst, Given
    <3> QED BY <2>1, <2>s, <3>1 DEF vars
  <2>2. CASE Decide
    <3>1. ReviewedFirst'
      BY <2>2 DEF Decide, ReviewedFirst, Given
    <3> QED BY <2>2, <2>s, <3>1 DEF Decide
  <2>3. CASE AnswerReview
    <3>1. ReviewedFirst'
      BY <2>3 DEF AnswerReview, ReviewedFirst
    <3>2. UNCHANGED <<file, folder>>
      BY <2>3 DEF AnswerReview
    <3>3. SavedOnce'
      BY <2>3, <2>t, <3>2, ReviewSpares DEF SavedOnce, Streams
    <3> QED BY <3>1, <3>3
  <2>4. CASE SetLanguage
    <3>1. ReviewedFirst'
      BY <2>4 DEF SetLanguage, ReviewedFirst
    <3>2. stored'["subs"] = stored["subs"]
      BY <2>4, <2>t DEF SetLanguage, Told, Columns
    <3> QED BY <2>4, <2>s, <3>1, <3>2 DEF SetLanguage
  <2>5. CASE Acknowledge
    <3>1. UNCHANGED <<stage, file, settings, stored, folder>>
      BY <2>5 DEF Acknowledge
    <3>2. Given'.subs = Given.subs
      BY <3>1 DEF Given
    <3>3. Flagged(file, settings, Given)' = Flagged(file, settings, Given)
      BY <3>1, <3>2 DEF Flagged, Images, Styled, Unanswered, Answered, SubWanted, Kind, Lang,
         ResolvedSubs, Streams
    <3>4. ReviewedFirst'
      BY <3>1, <3>3 DEF ReviewedFirst
    <3> QED BY <2>s, <3>1, <3>4
  <2>6. CASE Run
    <3>1. ReviewedFirst'
      BY <2>6 DEF Run, ReviewedFirst
    <3>2. SavedOnce'
      BY <2>6, RunLeavesSpared DEF SavedOnce
    <3> QED BY <3>1, <3>2
  <2> QED BY <2>1, <2>2, <2>3, <2>4, <2>5, <2>6 DEF Next
<1> QED BY <1>1, <1>2, InvariantHolds, FolderStaysFinite, PTL DEF Spec

\* Under each of the three settings for subtitle files that are there, no pass loses
\* one it should not: under keep_both and embedded_first neither the user's nor
\* one an earlier pass extracted, under replace none that a pass extracted.
THEOREM SidecarsKept ==
    ASSUME \A c \in Cases : c.settings.existing \in {"keep_both", "embedded_first", "replace"}
    PROVE  Spec => SidecarsStay
<1>1. IInv /\ FolderFinite /\ SettingsGiven /\ SavedOnce /\ [Next]_vars =>
        [Saved \ (IF settings.existing = "replace" THEN {"user"} ELSE {})
           \subseteq {folder'[name] : name \in DOMAIN folder'}]_vars
  <2> SUFFICES ASSUME IInv, FolderFinite, SettingsGiven, SavedOnce, Next,
                      NEW name \in DOMAIN folder,
                      settings.existing = "replace" => folder[name] # "user"
               PROVE  \E new \in DOMAIN folder' : folder'[new] = folder[name]
    BY DEF Saved
  <2>1. CASE folder' = folder
    BY <2>1
  <2>2. CASE Run
    <3>1. settings.existing \in {"keep_both", "embedded_first", "replace"}
      BY DEF SettingsGiven
    <3>2. CASE settings.existing = "replace"
      <4>1. \A i \in Streams(file, "subtitle") : Spared(i)
        BY <3>2 DEF SavedOnce
      <4> QED BY <2>2, <3>2, <4>1, NothingSaved
    <3> QED BY <2>2, <3>1, <3>2, RunSpares
  <2> QED BY <2>1, <2>2 DEF Next, Decide, AnswerReview, SetLanguage, Acknowledge
<1> QED BY <1>1, InvariantHolds, FolderStaysFinite, SettingsStay, OnceSaved, PTL DEF Spec,
           SidecarsStay

=============================================================================
