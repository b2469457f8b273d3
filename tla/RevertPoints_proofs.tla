------------------------ MODULE RevertPoints_proofs --------------------------
(***************************************************************************)
(* What is proved of RevertPoints, for every set of files and every bound: *)
(* its types; that a point which is offered has every stream it names;     *)
(* that an undo takes out the forge's track; and that a revert puts back   *)
(* the original and that what runs took stays there to be got back.        *)
(*                                                                         *)
(* The last two hold as far as the pairing of look-alikes does.  They are  *)
(* proved from PairsRight(BytesKey), that what is paired by its looks is   *)
(* paired by its bytes, and PairsRight(BytesKey) of files whose tracks can *)
(* be told apart.  On others TLC finds it broken (Lookalikes).             *)
(*                                                                         *)
(* All of it but the types assumes that no queue row's id comes again and  *)
(* that no upgrade lands between a swap and its record.                    *)
(***************************************************************************)
EXTENDS RevertPoints, FiniteSetTheorems, TLAPS

-----------------------------------------------------------------------------
(* Streams in order, as in Passes_proofs.                                  *)

\* A later member of a set has a higher rank, and ranks run from 1 to the number
\* of members.
LEMMA RankFits ==
    ASSUME NEW S \in SUBSET Nat, IsFiniteSet(S)
    PROVE  /\ Cardinality(S) \in Nat
           /\ \A i \in S : Rank(S, i) \in 1 .. Cardinality(S)
           /\ \A i, j \in S : i < j => Rank(S, i) < Rank(S, j)
<1>1. Cardinality(S) \in Nat
  BY FS_CardinalityType
<1>2. ASSUME NEW i \in S
      PROVE  /\ IsFiniteSet({k \in S : k <= i})
             /\ Rank(S, i) \in Nat /\ Rank(S, i) <= Cardinality(S) /\ Rank(S, i) # 0
  <2>1. {k \in S : k <= i} \in SUBSET S /\ {k \in S : k <= i} # {}
    OBVIOUS
  <2>2. IsFiniteSet({k \in S : k <= i}) /\ Rank(S, i) <= Cardinality(S)
    BY <2>1, FS_Subset DEF Rank
  <2>3. Rank(S, i) \in Nat /\ Rank(S, i) # 0
    BY <2>1, <2>2, FS_CardinalityType, FS_EmptySet DEF Rank
  <2> QED BY <2>2, <2>3
<1>3. ASSUME NEW i \in S, NEW j \in S, i < j PROVE Rank(S, i) < Rank(S, j)
  <2> DEFINE I == {k \in S : k <= i}
             J == {k \in S : k <= j}
  <2>0. i \in Nat /\ j \in Nat
    OBVIOUS
  <2>1. \A k \in S : k <= i => k <= j
    BY <1>3, <2>0
  <2>2. j \in J /\ j \notin I
    BY <1>3, <2>0
  <2>3. I \in SUBSET J /\ I # J
    BY <2>1, <2>2
  <2>4. Cardinality(I) <= Cardinality(J) /\ Cardinality(I) # Cardinality(J)
    <3>1. IsFiniteSet(J)
      BY <1>2
    <3> HIDE DEF I, J
    <3> QED BY <2>3, <3>1, FS_Subset
  <2>5. Rank(S, i) = Cardinality(I) /\ Rank(S, j) = Cardinality(J)
    BY DEF Rank
  <2>6. Rank(S, i) \in Nat /\ Rank(S, j) \in Nat
    BY <1>2
  <2> HIDE DEF I, J
  <2> QED BY <2>4, <2>5, <2>6
<1>4. ASSUME NEW i \in S PROVE Rank(S, i) \in 1 .. Cardinality(S)
  <2>1. Rank(S, i) \in Nat /\ Rank(S, i) <= Cardinality(S) /\ Rank(S, i) # 0
    BY <1>2
  <2> QED BY <1>1, <2>1
<1> QED BY <1>1, <1>3, <1>4

\* Each rank is that of one member: by counting, since no two have the same.
LEMMA RankTaken ==
    ASSUME NEW S \in SUBSET Nat, IsFiniteSet(S), NEW n \in 1 .. Cardinality(S)
    PROVE  \E i \in S : Rank(S, i) = n
<1> SUFFICES ASSUME \A i \in S : Rank(S, i) # n PROVE FALSE
  OBVIOUS
<1> DEFINE T == (1 .. Cardinality(S)) \ {n}
           f == [i \in S |-> Rank(S, i)]
<1>1. Cardinality(S) \in Nat
  BY FS_CardinalityType
<1>2. IsFiniteSet(T) /\ Cardinality(T) = Cardinality(S) - 1
  <2>1. IsFiniteSet(1 .. Cardinality(S)) /\ Cardinality(1 .. Cardinality(S)) = Cardinality(S)
    BY <1>1, FS_Interval
  <2> QED BY <2>1, FS_RemoveElement
<1>3. f \in [S -> T]
  BY RankFits
<1>4. PICK i, j \in S : i # j /\ f[i] = f[j]
  <2> HIDE DEF T, f
  <2>1. Cardinality(T) < Cardinality(S)
    BY <1>1, <1>2
  <2> QED BY <1>2, <1>3, <2>1, FS_PigeonHole
<1>5. i < j \/ j < i
  BY <1>4
<1>6. Rank(S, i) = Rank(S, j) /\ Rank(S, i) \in Nat /\ Rank(S, j) \in Nat
  BY <1>4, RankFits
<1> QED BY <1>5, <1>6, RankFits

\* Ordered lists the members of a set, each once, the lowest first.
LEMMA OrderedFits ==
    ASSUME NEW S \in SUBSET Nat, IsFiniteSet(S)
    PROVE  /\ Ordered(S) \in Seq(S) /\ Len(Ordered(S)) = Cardinality(S)
           /\ \A i \in S : Rank(S, i) \in DOMAIN Ordered(S) /\ Ordered(S)[Rank(S, i)] = i
           /\ \A n \in DOMAIN Ordered(S) : Rank(S, Ordered(S)[n]) = n
<1>1. Cardinality(S) \in Nat
  BY FS_CardinalityType
<1>2. DOMAIN Ordered(S) = 1 .. Cardinality(S)
  BY DEF Ordered
<1>3. ASSUME NEW n \in 1 .. Cardinality(S)
      PROVE  Ordered(S)[n] \in S /\ Rank(S, Ordered(S)[n]) = n
  BY <1>3, RankTaken DEF Ordered
<1>4. Ordered(S) \in [1 .. Cardinality(S) -> S]
  BY <1>3 DEF Ordered
<1>5. Ordered(S) \in Seq(S) /\ Len(Ordered(S)) = Cardinality(S)
  BY <1>1, <1>4
<1>6. ASSUME NEW i \in S
      PROVE  Rank(S, i) \in DOMAIN Ordered(S) /\ Ordered(S)[Rank(S, i)] = i
  <2> DEFINE n == Rank(S, i)
             j == Ordered(S)[n]
  <2>1. n \in 1 .. Cardinality(S) /\ j \in S /\ Rank(S, j) = n
    BY <1>3, RankFits
  <2>2. i = j
    <3> HIDE DEF j
    <3>1. i \in Nat /\ j \in Nat /\ Rank(S, i) \in Nat /\ Rank(S, j) \in Nat
      BY <2>1
    <3>2. ~(i < j) /\ ~(j < i)
      BY <2>1, <3>1, RankFits
    <3> QED BY <3>1, <3>2
  <2> QED BY <1>2, <2>1, <2>2
<1> QED BY <1>2, <1>3, <1>5, <1>6

\* A list is a function on 1 .. n; a file is a list of streams.
IsList(f) == \E n \in Nat : f = [i \in 1 .. n |-> f[i]]
IsFile(streams) == IsList(streams) /\ \A i \in DOMAIN streams : IsStream(streams[i])

\* A list is a sequence of what is in it.
LEMMA ListFits ==
    ASSUME NEW f, IsList(f)
    PROVE  /\ f \in Seq({f[i] : i \in DOMAIN f}) /\ Len(f) \in Nat
           /\ DOMAIN f = 1 .. Len(f) /\ DOMAIN f \in SUBSET Nat /\ IsFiniteSet(DOMAIN f)
<1>1. PICK n \in Nat : f = [i \in 1 .. n |-> f[i]]
  BY DEF IsList
<1>2. DOMAIN f = 1 .. n
  BY <1>1
<1>3. f \in Seq({f[i] : i \in DOMAIN f})
  <2> DEFINE S == {f[i] : i \in DOMAIN f}
  <2>1. f \in [1 .. n -> S]
    BY <1>1, <1>2
  <2> HIDE DEF S
  <2> QED BY <2>1
<1>4. Len(f) \in Nat /\ DOMAIN f = 1 .. Len(f)
  BY <1>3
<1>5. IsFiniteSet(DOMAIN f)
  BY <1>2, FS_Interval
<1> QED BY <1>3, <1>4, <1>5

\* A sequence is a list.
LEMMA SeqFits == ASSUME NEW S, NEW f \in Seq(S) PROVE IsList(f)
<1>1. Len(f) \in Nat /\ f = [i \in 1 .. Len(f) |-> f[i]]
  OBVIOUS
<1> QED BY <1>1 DEF IsList

\* One list after another is a list of what is in either.
JoinOf(f, p, q) ==
    /\ IsList(f)
    /\ \A n \in DOMAIN f : (\E i \in DOMAIN p : f[n] = p[i]) \/ \E i \in DOMAIN q : f[n] = q[i]
    /\ \A i \in DOMAIN p : \E n \in DOMAIN f : f[n] = p[i]
    /\ \A i \in DOMAIN q : \E n \in DOMAIN f : f[n] = q[i]

\* Two lists make one.
LEMMA ConcatFits ==
    ASSUME NEW p, NEW q, IsList(p), IsList(q)
    PROVE  JoinOf(p \o q, p, q)
<1> DEFINE S == {p[i] : i \in DOMAIN p}
           T == {q[i] : i \in DOMAIN q}
<1>1. p \in Seq(S) /\ q \in Seq(T)
  BY ListFits
<1>2. p \in Seq(S \cup T) /\ q \in Seq(S \cup T)
  <2> HIDE DEF S, T
  <2> QED BY <1>1
<1>3. /\ p \o q \in Seq(S \cup T) /\ DOMAIN (p \o q) = 1 .. Len(p) + Len(q)
      /\ DOMAIN p = 1 .. Len(p) /\ DOMAIN q = 1 .. Len(q)
      /\ Len(p) \in Nat /\ Len(q) \in Nat
      /\ \A n \in 1 .. Len(p) + Len(q) :
            (p \o q)[n] = IF n <= Len(p) THEN p[n] ELSE q[n - Len(p)]
  <2> HIDE DEF S, T
  <2> QED BY <1>2
<1>4. IsList(p \o q)
  BY <1>3, SeqFits
<1> HIDE DEF S, T
<1>5. ASSUME NEW n \in DOMAIN (p \o q)
      PROVE  \/ \E i \in DOMAIN p : (p \o q)[n] = p[i]
             \/ \E i \in DOMAIN q : (p \o q)[n] = q[i]
  <2>1. CASE n <= Len(p)
    BY <1>3, <2>1
  <2>2. CASE n > Len(p)
    <3>1. n - Len(p) \in DOMAIN q /\ (p \o q)[n] = q[n - Len(p)]
      BY <1>3, <2>2
    <3> QED BY <3>1
  <2> QED BY <1>3, <2>1, <2>2
<1>6. ASSUME NEW i \in DOMAIN p PROVE \E n \in DOMAIN (p \o q) : (p \o q)[n] = p[i]
  <2>1. i \in DOMAIN (p \o q) /\ (p \o q)[i] = p[i]
    BY <1>3
  <2> QED BY <2>1
<1>7. ASSUME NEW i \in DOMAIN q PROVE \E n \in DOMAIN (p \o q) : (p \o q)[n] = q[i]
  <2>1. i + Len(p) \in DOMAIN (p \o q) /\ (p \o q)[i + Len(p)] = q[i]
    BY <1>3
  <2> QED BY <2>1
<1> QED BY <1>4, <1>5, <1>6, <1>7 DEF JoinOf

\* Pick lists the streams at the indices it is given, all of them.
LEMMA PickFits ==
    ASSUME NEW streams, IsList(streams), NEW S \in SUBSET DOMAIN streams
    PROVE  /\ IsList(Pick(streams, S))
           /\ \A n \in DOMAIN Pick(streams, S) : \E i \in S : Pick(streams, S)[n] = streams[i]
           /\ \A i \in S : \E n \in DOMAIN Pick(streams, S) : Pick(streams, S)[n] = streams[i]
<1>1. S \in SUBSET Nat /\ IsFiniteSet(S)
  BY ListFits, FS_Subset
<1>2. Cardinality(S) \in Nat
  BY <1>1, FS_CardinalityType
<1>3. /\ DOMAIN Ordered(S) = 1 .. Cardinality(S)
      /\ \A n \in 1 .. Cardinality(S) : Ordered(S)[n] \in S
      /\ \A i \in S : Rank(S, i) \in 1 .. Cardinality(S) /\ Ordered(S)[Rank(S, i)] = i
  <2>1. /\ Ordered(S) \in Seq(S) /\ Len(Ordered(S)) = Cardinality(S)
        /\ \A i \in S : Rank(S, i) \in DOMAIN Ordered(S) /\ Ordered(S)[Rank(S, i)] = i
    BY <1>1, OrderedFits
  <2> QED BY <2>1
<1>4. DOMAIN Pick(streams, S) = 1 .. Cardinality(S)
      /\ \A n \in 1 .. Cardinality(S) : Pick(streams, S)[n] = streams[Ordered(S)[n]]
  BY DEF Pick
<1>5. IsList(Pick(streams, S))
  BY <1>2 DEF IsList, Pick
<1> QED BY <1>3, <1>4, <1>5

-----------------------------------------------------------------------------
(* What the runs make of the file.                                         *)

\* A stream of an output, made of a stream of its input.
Made(t, s, plan) == t \in {s, Settled(s, plan), [Settled(s, plan) EXCEPT !.default = TRUE]}

\* It is a stream of the same type and the same bytes, or a re-encode of them; no
\* remux makes an AC3.
LEMMA MadeFits ==
    ASSUME NEW s, IsStream(s), NEW plan, NEW t, Made(t, s, plan)
    PROVE  /\ IsStream(t) /\ t.type = s.type /\ t.id = s.id /\ t.shape = s.shape
           /\ t.codec \in {s.codec, "aac", "mov_text"}
           /\ t.lang = s.lang \/ (s.lang = "und" /\ t.lang = "eng")
<1> DEFINE u == Settled(s, plan)
<1>1. /\ IsStream(u) /\ u.type = s.type /\ u.id = s.id /\ u.shape = s.shape
      /\ u.codec \in {s.codec, "aac", "mov_text"}
      /\ u.lang = s.lang \/ (s.lang = "und" /\ u.lang = "eng")
  BY DEF Settled, IsStream, Fields
<1>2. t \in {s, u, [u EXCEPT !.default = TRUE]}
  BY DEF Made
<1> HIDE DEF u
<1>3. CASE t = s
  BY <1>3
<1>4. CASE t = u
  BY <1>1, <1>4
<1>5. CASE t = [u EXCEPT !.default = TRUE]
  <2>1. IsStream(t)
    BY <1>1, <1>5 DEF IsStream, Fields
  <2>2. /\ t.type = u.type /\ t.id = u.id /\ t.shape = u.shape /\ t.codec = u.codec
        /\ t.lang = u.lang
    BY <1>1, <1>5 DEF IsStream, Fields
  <2> QED BY <1>1, <2>1, <2>2
<1> QED BY <1>2, <1>3, <1>4, <1>5

\* A plan that re-encodes nothing leaves it as it was, but for SubRip in an MP4.
LEMMA MadeCopies ==
    ASSUME NEW s, IsStream(s), s.lossy = FALSE, NEW plan, plan.reencode = FALSE,
           NEW t, Made(t, s, plan)
    PROVE  /\ t.codec = s.codec \/ (s.codec = "subrip" /\ t.codec = "mov_text")
           /\ t.lossy = FALSE
<1> DEFINE u == Settled(s, plan)
<1>1. /\ IsStream(u) /\ u.lossy = FALSE
      /\ u.codec = s.codec \/ (s.codec = "subrip" /\ u.codec = "mov_text")
  BY DEF Settled, IsStream, Fields
<1>2. t \in {s, u, [u EXCEPT !.default = TRUE]}
  BY DEF Made
<1> HIDE DEF u
<1>3. CASE t = [u EXCEPT !.default = TRUE]
  <2>1. t.codec = u.codec /\ t.lossy = u.lossy
    BY <1>1, <1>3 DEF IsStream, Fields
  <2> QED BY <1>1, <2>1
<1> QED BY <1>1, <1>2, <1>3

\* The streams of one type that are kept.
LEMMA KeptFits ==
    ASSUME NEW streams, IsList(streams), NEW type, NEW plan
    PROVE  /\ IsList(Kept(streams, type, plan))
           /\ \A n \in DOMAIN Kept(streams, type, plan) :
                 \E i \in DOMAIN streams : Kept(streams, type, plan)[n] = Settled(streams[i], plan)
<1> DEFINE S == {i \in OfType(streams, type) : streams[i].id \notin plan.drop}
           left == Pick(streams, S)
<1>1. S \in SUBSET DOMAIN streams
  BY DEF OfType
<1>2. Kept(streams, type, plan) = [n \in DOMAIN left |-> Settled(left[n], plan)]
  BY DEF Kept
<1> HIDE DEF S
<1>3. IsList(left) /\ \A n \in DOMAIN left : \E i \in DOMAIN streams : left[n] = streams[i]
  BY <1>1, PickFits
<1> HIDE DEF left
<1>4. PICK k \in Nat : DOMAIN left = 1 .. k
  BY <1>3 DEF IsList
<1>5. IsList(Kept(streams, type, plan))
  BY <1>2, <1>4 DEF IsList
<1> QED BY <1>2, <1>3, <1>5

\* A default that moves changes no stream but for its flag.
LEMMA PromotedFits ==
    ASSUME NEW audio, IsList(audio)
    PROVE  /\ IsList(Promoted(audio))
           /\ \A n \in DOMAIN Promoted(audio) :
                 /\ n \in DOMAIN audio
                 /\ Promoted(audio)[n] \in {audio[n], [audio[n] EXCEPT !.default = TRUE]}
<1>1. PICK k \in Nat : audio = [i \in 1 .. k |-> audio[i]]
  BY DEF IsList
<1>2. CASE Promoted(audio) = audio
  BY <1>2
<1>3. CASE Promoted(audio) = [audio EXCEPT ![1].default = TRUE]
  <2>1. DOMAIN Promoted(audio) = 1 .. k
    BY <1>1, <1>3
  <2>2. \A n \in 1 .. k : Promoted(audio)[n] =
            IF n = 1 THEN [audio[n] EXCEPT !.default = TRUE] ELSE audio[n]
    BY <1>1, <1>3
  <2>3. Promoted(audio) = [i \in 1 .. k |-> Promoted(audio)[i]]
    BY <1>1, <1>3
  <2>4. IsList(Promoted(audio))
    BY <2>3 DEF IsList
  <2> QED BY <1>1, <2>1, <2>2, <2>4
<1> QED BY <1>2, <1>3 DEF Promoted

\* The output of a remux is a file, each of its streams made of one of the input's.
LEMMA RemuxedFits ==
    ASSUME NEW streams, IsFile(streams), NEW plan
    PROVE  /\ IsFile(Remuxed(streams, plan))
           /\ \A n \in DOMAIN Remuxed(streams, plan) :
                 \E i \in DOMAIN streams : Made(Remuxed(streams, plan)[n], streams[i], plan)
<1> DEFINE From(f) == \A n \in DOMAIN f : \E i \in DOMAIN streams : Made(f[n], streams[i], plan)
           v == Kept(streams, "video", plan)
           a == Promoted(Kept(streams, "audio", plan))
           s == Kept(streams, "subtitle", plan)
           t == Pick(streams, IF plan.mp4 THEN {} ELSE OfType(streams, "attachment"))
<1>1. IsList(v) /\ From(v) /\ IsList(s) /\ From(s)
  BY KeptFits DEF IsFile, Made
<1>2. IsList(a) /\ From(a)
  <2> DEFINE k == Kept(streams, "audio", plan)
  <2>1. IsList(k) /\ \A n \in DOMAIN k : \E i \in DOMAIN streams : k[n] = Settled(streams[i], plan)
    BY KeptFits DEF IsFile
  <2> HIDE DEF k
  <2>2. IsList(Promoted(k)) /\ From(Promoted(k))
    <3>1. IsList(Promoted(k))
          /\ \A n \in DOMAIN Promoted(k) :
                n \in DOMAIN k /\ Promoted(k)[n] \in {k[n], [k[n] EXCEPT !.default = TRUE]}
      BY <2>1, PromotedFits
    <3>2. ASSUME NEW n \in DOMAIN Promoted(k)
          PROVE  \E i \in DOMAIN streams : Made(Promoted(k)[n], streams[i], plan)
      <4>1. PICK i \in DOMAIN streams : k[n] = Settled(streams[i], plan)
        BY <2>1, <3>1
      <4>2. Made(Promoted(k)[n], streams[i], plan)
        BY <3>1, <4>1 DEF Made
      <4> QED BY <4>2
    <3> QED BY <3>1, <3>2
  <2> QED BY <2>2 DEF k
<1>3. IsList(t) /\ From(t)
  <2>1. (IF plan.mp4 THEN {} ELSE OfType(streams, "attachment")) \in SUBSET DOMAIN streams
    BY DEF OfType
  <2> QED BY <2>1, PickFits DEF IsFile, Made
<1>4. Remuxed(streams, plan) = ((v \o a) \o s) \o t
  BY DEF Remuxed
<1> HIDE DEF v, a, s, t
<1>5. ASSUME NEW p, NEW q, IsList(p), From(p), IsList(q), From(q)
      PROVE  IsList(p \o q) /\ From(p \o q)
  <2>1. JoinOf(p \o q, p, q)
    BY <1>5, ConcatFits
  <2>2. ASSUME NEW n \in DOMAIN (p \o q)
        PROVE  \E j \in DOMAIN streams : Made((p \o q)[n], streams[j], plan)
    BY <1>5, <2>1 DEF JoinOf
  <2> QED BY <2>1, <2>2 DEF JoinOf
<1>6. IsList(v \o a) /\ From(v \o a)
  BY <1>1, <1>2, <1>5
<1>7. IsList((v \o a) \o s) /\ From((v \o a) \o s)
  BY <1>1, <1>5, <1>6
<1>8. IsList(Remuxed(streams, plan)) /\ From(Remuxed(streams, plan))
  BY <1>3, <1>4, <1>5, <1>7
<1>9. ASSUME NEW n \in DOMAIN Remuxed(streams, plan) PROVE IsStream(Remuxed(streams, plan)[n])
  <2>1. PICK i \in DOMAIN streams : Made(Remuxed(streams, plan)[n], streams[i], plan)
    BY <1>8
  <2> QED BY <2>1, MadeFits DEF IsFile
<1> QED BY <1>8, <1>9 DEF IsFile

\* The last of a set of streams that is not empty is one of them.
LEMMA GreatestFits ==
    ASSUME NEW S \in SUBSET Nat, IsFiniteSet(S), S # {}
    PROVE  Greatest(S) \in S
<1>1. Cardinality(S) \in Nat /\ Cardinality(S) # 0
  BY FS_CardinalityType, FS_EmptySet
<1>2. Cardinality(S) \in 1 .. Cardinality(S)
  BY <1>1
<1>3. PICK x \in S : Rank(S, x) = Cardinality(S)
  BY <1>2, RankTaken
<1>4. ASSUME NEW y \in S PROVE x >= y
  <2>1. x \in Nat /\ y \in Nat /\ Rank(S, y) \in 1 .. Cardinality(S)
    BY RankFits
  <2>2. ~(x < y)
    BY <1>1, <1>3, <2>1, RankFits
  <2> QED BY <2>1, <2>2
<1> QED BY <1>4 DEF Greatest

\* So is the first.
LEMMA LeastFits ==
    ASSUME NEW S \in SUBSET Nat, IsFiniteSet(S), S # {}
    PROVE  Least(S) \in S
<1>1. Cardinality(S) \in Nat /\ Cardinality(S) # 0
  BY FS_CardinalityType, FS_EmptySet
<1>2. 1 \in 1 .. Cardinality(S)
  BY <1>1
<1>3. PICK x \in S : Rank(S, x) = 1
  BY <1>2, RankTaken
<1>4. ASSUME NEW y \in S PROVE x <= y
  <2>1. x \in Nat /\ y \in Nat /\ Rank(S, y) \in 1 .. Cardinality(S)
    BY RankFits
  <2>2. ~(y < x)
    BY <1>1, <1>3, <2>1, RankFits
  <2> QED BY <2>1, <2>2
<1> QED BY <1>4 DEF Least

\* The AC3 a forge makes.
IsForged(t) ==
    IsStream(t) /\ t.id = "forged" /\ t.type = "audio" /\ Ac3Shape(t) /\ t.lossy = FALSE

\* A stream of an output: that, or one made of the input's.
Comes(t, streams, plan) == IsForged(t) \/ \E i \in DOMAIN streams : Made(t, streams[i], plan)

\* The forge adds one stream, the AC3 it makes, and leaves the others alone.
LEMMA ForgedFits ==
    ASSUME NEW streams, IsFile(streams), Aac51(streams) # {}
    PROVE  /\ IsFile(Forged(streams))
           /\ \A n \in DOMAIN Forged(streams) :
                 \/ \E i \in DOMAIN streams : Forged(streams)[n] = streams[i]
                 \/ IsForged(Forged(streams)[n])
<1> DEFINE a == Least(Aac51(streams))
           new == [streams[a] EXCEPT !.id = "forged", !.codec = "ac3", !.default = FALSE,
                                     !.lossy = FALSE]
<1>1. a \in DOMAIN streams /\ streams[a].type = "audio" /\ streams[a].shape = 6
  <2>1. Aac51(streams) \in SUBSET DOMAIN streams
    BY DEF Aac51, AudioAt, OfType
  <2>2. DOMAIN streams \in SUBSET Nat /\ IsFiniteSet(DOMAIN streams)
    BY ListFits DEF IsFile
  <2>3. IsFiniteSet(Aac51(streams))
    BY <2>1, <2>2, FS_Subset
  <2>4. a \in Aac51(streams)
    BY <2>1, <2>2, <2>3, LeastFits
  <2> HIDE DEF a
  <2> QED BY <2>4 DEF Aac51, AudioAt, OfType
<1> HIDE DEF a
<1>2. IsForged(new)
  BY <1>1 DEF IsFile, IsStream, Fields, IsForged, Ac3Shape
<1>3. Forged(streams) = Append(streams, new)
  BY DEF Forged, a
<1> HIDE DEF new
<1> DEFINE S == {streams[i] : i \in DOMAIN streams}
<1>4. streams \in Seq(S) /\ Len(streams) \in Nat /\ DOMAIN streams = 1 .. Len(streams)
  BY ListFits DEF IsFile
<1>5. /\ Append(streams, new) \in Seq(S \cup {new})
      /\ DOMAIN Append(streams, new) = 1 .. Len(streams) + 1
      /\ \A n \in 1 .. Len(streams) : Append(streams, new)[n] = streams[n]
      /\ Append(streams, new)[Len(streams) + 1] = new
  <2> HIDE DEF S
  <2>1. streams \in Seq(S \cup {new})
    BY <1>4
  <2> QED BY <1>4, <2>1
<1>6. IsList(Forged(streams))
  BY <1>3, <1>5, SeqFits
<1>7. ASSUME NEW n \in DOMAIN Forged(streams)
      PROVE  \/ n \in DOMAIN streams /\ Forged(streams)[n] = streams[n]
             \/ Forged(streams)[n] = new
  BY <1>3, <1>4, <1>5
<1> QED BY <1>2, <1>6, <1>7 DEF IsFile, IsForged

\* An undo that finds an AC3 5.1 track last among the audio takes it out, and
\* nothing else.
LEMMA UndoneFits ==
    ASSUME NEW streams, IsFile(streams), UndoOutcome(streams) = "found"
    PROVE  /\ IsFile(Undone(streams))
           /\ \A n \in DOMAIN Undone(streams) :
                 \E i \in DOMAIN streams : Undone(streams)[n] = streams[i]
           /\ \A i \in DOMAIN streams :
                 \/ streams[i].type = "audio" /\ Ac3Shape(streams[i])
                 \/ \E n \in DOMAIN Undone(streams) : Undone(streams)[n] = streams[i]
<1> DEFINE a == Greatest(AudioAt(streams))
           S == DOMAIN streams \ {a}
<1>1. a \in AudioAt(streams) /\ Ac3Shape(streams[a])
  <2>1. AudioAt(streams) # {} /\ Ac3Shape(streams[a])
    BY DEF UndoOutcome
  <2>2. AudioAt(streams) \in SUBSET DOMAIN streams
    BY DEF AudioAt, OfType
  <2>3. DOMAIN streams \in SUBSET Nat /\ IsFiniteSet(DOMAIN streams)
    BY ListFits DEF IsFile
  <2>4. IsFiniteSet(AudioAt(streams))
    BY <2>2, <2>3, FS_Subset
  <2> QED BY <2>1, <2>2, <2>3, <2>4, GreatestFits
<1>2. streams[a].type = "audio"
  BY <1>1 DEF AudioAt, OfType
<1>3. Undone(streams) = Pick(streams, S)
  BY DEF Undone
<1> HIDE DEF a
<1>4. /\ IsList(Undone(streams))
      /\ \A n \in DOMAIN Undone(streams) : \E i \in S : Undone(streams)[n] = streams[i]
      /\ \A i \in S : \E n \in DOMAIN Undone(streams) : Undone(streams)[n] = streams[i]
  <2>1. S \in SUBSET DOMAIN streams
    OBVIOUS
  <2> HIDE DEF S
  <2> QED BY <1>3, <2>1, PickFits DEF IsFile
<1>5. IsFile(Undone(streams))
  BY <1>4 DEF IsFile
<1> QED BY <1>1, <1>2, <1>4, <1>5

\* No two streams are of one original, the forged aside.
Once(streams) ==
    \A i, j \in DOMAIN streams :
        streams[i].id = streams[j].id /\ streams[i].id # "forged" => i = j

\* Part of a file: streams of the originals of those at the indices S.
PartOf(f, streams, S) ==
    IsList(f) /\ Once(f) /\ \A n \in DOMAIN f : \E i \in S : f[n].id = streams[i].id

\* What is picked of a file is part of it.
LEMMA PickOnce ==
    ASSUME NEW streams, IsList(streams), Once(streams), NEW S \in SUBSET DOMAIN streams
    PROVE  PartOf(Pick(streams, S), streams, S)
<1>1. S \in SUBSET Nat /\ IsFiniteSet(S)
  BY ListFits, FS_Subset
<1>2. /\ DOMAIN Ordered(S) = 1 .. Cardinality(S)
      /\ \A n \in 1 .. Cardinality(S) : Ordered(S)[n] \in S /\ Rank(S, Ordered(S)[n]) = n
  <2>1. /\ Ordered(S) \in Seq(S) /\ Len(Ordered(S)) = Cardinality(S)
        /\ \A n \in DOMAIN Ordered(S) : Rank(S, Ordered(S)[n]) = n
    BY <1>1, OrderedFits
  <2> QED BY <2>1
<1>3. DOMAIN Pick(streams, S) = 1 .. Cardinality(S)
      /\ \A n \in 1 .. Cardinality(S) : Pick(streams, S)[n] = streams[Ordered(S)[n]]
  BY DEF Pick
<1>4. ASSUME NEW n \in 1 .. Cardinality(S), NEW k \in 1 .. Cardinality(S),
             Pick(streams, S)[n].id = Pick(streams, S)[k].id, Pick(streams, S)[n].id # "forged"
      PROVE  n = k
  <2>1. Ordered(S)[n] = Ordered(S)[k]
    BY <1>2, <1>3, <1>4 DEF Once
  <2> QED BY <1>2, <2>1
<1>5. Once(Pick(streams, S))
  BY <1>3, <1>4 DEF Once
<1> QED BY <1>2, <1>3, <1>5, PickFits DEF PartOf

\* What is said of its streams is no matter.
LEMMA SamePart ==
    ASSUME NEW f, NEW g, NEW streams, NEW S, PartOf(f, streams, S), IsList(g),
           DOMAIN g = DOMAIN f, \A n \in DOMAIN f : g[n].id = f[n].id
    PROVE  PartOf(g, streams, S)
  BY DEF PartOf, Once

\* Parts of different streams, one after the other.
LEMMA ConcatOnce ==
    ASSUME NEW streams, Once(streams), NEW S \in SUBSET DOMAIN streams,
           NEW T \in SUBSET DOMAIN streams, S \cap T = {},
           NEW p, NEW q, PartOf(p, streams, S), PartOf(q, streams, T)
    PROVE  PartOf(p \o q, streams, S \cup T)
<1> DEFINE P == {p[i] : i \in DOMAIN p}
           Q == {q[i] : i \in DOMAIN q}
           f == p \o q
<1>0. IsList(p) /\ IsList(q)
  BY DEF PartOf
<1>1. p \in Seq(P) /\ q \in Seq(Q)
  BY <1>0, ListFits
<1>2. /\ Len(p) \in Nat /\ Len(q) \in Nat /\ DOMAIN p = 1 .. Len(p) /\ DOMAIN q = 1 .. Len(q)
      /\ DOMAIN f = 1 .. Len(p) + Len(q)
      /\ \A n \in DOMAIN f : f[n] = IF n <= Len(p) THEN p[n] ELSE q[n - Len(p)]
  <2> HIDE DEF P, Q
  <2>1. p \in Seq(P \cup Q) /\ q \in Seq(P \cup Q)
    BY <1>1
  <2> QED BY <2>1
<1>3. IsList(f)
  BY <1>0, ConcatFits DEF JoinOf
<1> HIDE DEF f
<1>4. ASSUME NEW n \in DOMAIN f
      PROVE  \/ n \in DOMAIN p /\ n <= Len(p) /\ f[n] = p[n]
             \/ n - Len(p) \in DOMAIN q /\ n > Len(p) /\ f[n] = q[n - Len(p)]
  BY <1>2
<1>5. ASSUME NEW n \in DOMAIN p, NEW k \in DOMAIN q, p[n].id = q[k].id, p[n].id # "forged"
      PROVE  FALSE
  <2>1. PICK i \in S : p[n].id = streams[i].id
    BY DEF PartOf
  <2>2. PICK j \in T : q[k].id = streams[j].id
    BY DEF PartOf
  <2>3. i = j
    BY <1>5, <2>1, <2>2 DEF Once
  <2> QED BY <2>3
<1>6. ASSUME NEW n \in DOMAIN f, NEW k \in DOMAIN f, f[n].id = f[k].id, f[n].id # "forged"
      PROVE  n = k
  <2>1. CASE n <= Len(p) /\ k <= Len(p)
    BY <1>2, <1>4, <1>6, <2>1 DEF PartOf, Once
  <2>2. CASE n > Len(p) /\ k > Len(p)
    <3>1. n - Len(p) = k - Len(p)
      BY <1>2, <1>4, <1>6, <2>2 DEF PartOf, Once
    <3> QED BY <1>2, <3>1
  <2>3. CASE n <= Len(p) /\ k > Len(p)
    <3>1. n \in DOMAIN p /\ f[n] = p[n] /\ k - Len(p) \in DOMAIN q /\ f[k] = q[k - Len(p)]
      BY <1>2, <1>4, <2>3
    <3> QED BY <1>5, <1>6, <3>1
  <2>4. CASE n > Len(p) /\ k <= Len(p)
    <3>1. k \in DOMAIN p /\ f[k] = p[k] /\ n - Len(p) \in DOMAIN q /\ f[n] = q[n - Len(p)]
      BY <1>2, <1>4, <2>4
    <3> QED BY <1>5, <1>6, <3>1
  <2> QED BY <1>2, <2>1, <2>2, <2>3, <2>4
<1>7. ASSUME NEW n \in DOMAIN f PROVE \E i \in S \cup T : f[n].id = streams[i].id
  BY <1>4 DEF PartOf
<1> QED BY <1>3, <1>6, <1>7 DEF PartOf, Once, f

\* A remux repeats no stream.
LEMMA RemuxedOnce ==
    ASSUME NEW streams, IsFile(streams), Once(streams), NEW plan
    PROVE  Once(Remuxed(streams, plan))
<1> DEFINE At(type) == {i \in OfType(streams, type) : streams[i].id \notin plan.drop}
           v == Kept(streams, "video", plan)
           a == Promoted(Kept(streams, "audio", plan))
           s == Kept(streams, "subtitle", plan)
           X == IF plan.mp4 THEN {} ELSE OfType(streams, "attachment")
           t == Pick(streams, X)
<1>1. /\ \A type : At(type) \in SUBSET DOMAIN streams
      /\ \A type : \A i \in At(type) : streams[i].type = type
      /\ X \in SUBSET DOMAIN streams /\ \A i \in X : streams[i].type = "attachment"
  BY DEF OfType
<1>2. ASSUME NEW type PROVE PartOf(Kept(streams, type, plan), streams, At(type))
  <2> DEFINE left == Pick(streams, At(type))
             k == Kept(streams, type, plan)
  <2>1. k = [n \in DOMAIN left |-> Settled(left[n], plan)]
    BY DEF Kept
  <2>2. IsList(k)
    BY KeptFits DEF IsFile
  <2>3. /\ PartOf(left, streams, At(type))
        /\ \A n \in DOMAIN left : \E i \in DOMAIN streams : left[n] = streams[i]
    <3> HIDE DEF At
    <3>1. At(type) \in SUBSET DOMAIN streams
      BY <1>1
    <3> QED BY <3>1, PickOnce, PickFits DEF IsFile
  <2> HIDE DEF left, k
  <2>4. ASSUME NEW n \in DOMAIN left PROVE k[n].id = left[n].id
    <3>1. IsStream(left[n])
      BY <2>3 DEF IsFile
    <3> QED BY <2>1, <3>1, MadeFits DEF Made
  <2>5. DOMAIN k = DOMAIN left
    BY <2>1
  <2> HIDE DEF At
  <2>6. PartOf(k, streams, At(type))
    BY <2>2, <2>3, <2>4, <2>5, SamePart
  <2> QED BY <2>6 DEF k
<1>3. PartOf(a, streams, At("audio"))
  <2> DEFINE k == Kept(streams, "audio", plan)
  <2>1. /\ IsList(k) /\ PartOf(k, streams, At("audio"))
        /\ \A n \in DOMAIN k : IsStream(k[n])
    <3>1. ASSUME NEW n \in DOMAIN k PROVE IsStream(k[n])
      <4>1. PICK i \in DOMAIN streams : k[n] = Settled(streams[i], plan)
        BY KeptFits DEF IsFile
      <4>2. IsStream(streams[i])
        BY DEF IsFile
      <4>3. Made(k[n], streams[i], plan)
        BY <4>1 DEF Made
      <4> HIDE DEF k
      <4> QED BY <4>2, <4>3, MadeFits
    <3> QED BY <1>2, <3>1, KeptFits DEF IsFile
  <2> HIDE DEF k, At
  <2>2. /\ IsList(Promoted(k)) /\ DOMAIN Promoted(k) = DOMAIN k
        /\ \A n \in DOMAIN Promoted(k) :
              Promoted(k)[n] \in {k[n], [k[n] EXCEPT !.default = TRUE]}
    <3>1. DOMAIN Promoted(k) = DOMAIN k
      BY DEF Promoted
    <3> QED BY <2>1, <3>1, PromotedFits
  <2>3. ASSUME NEW n \in DOMAIN k PROVE Promoted(k)[n].id = k[n].id
    <3>1. IsStream(k[n])
      BY <2>1
    <3> QED BY <2>2, <3>1 DEF IsStream, Fields
  <2>4. PartOf(Promoted(k), streams, At("audio"))
    BY <2>1, <2>2, <2>3, SamePart
  <2> QED BY <2>4 DEF k
<1>4. PartOf(t, streams, X)
  <2> HIDE DEF X
  <2> QED BY <1>1, PickOnce DEF IsFile
<1>5. PartOf(v, streams, At("video")) /\ PartOf(s, streams, At("subtitle"))
  BY <1>2
<1>6. Remuxed(streams, plan) = ((v \o a) \o s) \o t
  BY DEF Remuxed
<1> DEFINE V == At("video")
           A == At("audio")
           U == At("subtitle")
<1>7. /\ V \in SUBSET DOMAIN streams /\ A \in SUBSET DOMAIN streams
      /\ U \in SUBSET DOMAIN streams /\ X \in SUBSET DOMAIN streams
      /\ V \cap A = {} /\ (V \cup A) \cap U = {} /\ ((V \cup A) \cup U) \cap X = {}
  <2>1. /\ V \in SUBSET DOMAIN streams /\ A \in SUBSET DOMAIN streams
        /\ U \in SUBSET DOMAIN streams /\ X \in SUBSET DOMAIN streams
    BY <1>1
  <2>2. /\ \A i \in V : streams[i].type = "video"
        /\ \A i \in A : streams[i].type = "audio"
        /\ \A i \in U : streams[i].type = "subtitle"
        /\ \A i \in X : streams[i].type = "attachment"
    BY <1>1
  <2> HIDE DEF V, A, U, X, At
  <2> QED BY <2>1, <2>2
<1>8. PartOf(v, streams, V) /\ PartOf(a, streams, A) /\ PartOf(s, streams, U)
  BY <1>3, <1>5
<1> HIDE DEF v, a, s, t, V, A, U, X, At
<1>9. PartOf(v \o a, streams, V \cup A)
  BY <1>7, <1>8, ConcatOnce
<1>10. PartOf((v \o a) \o s, streams, (V \cup A) \cup U)
  <2>1. V \cup A \in SUBSET DOMAIN streams
    BY <1>7
  <2> QED BY <1>7, <1>8, <1>9, <2>1, ConcatOnce
<1>11. PartOf(((v \o a) \o s) \o t, streams, ((V \cup A) \cup U) \cup X)
  <2>1. (V \cup A) \cup U \in SUBSET DOMAIN streams
    BY <1>7
  <2> QED BY <1>4, <1>7, <1>10, <2>1, ConcatOnce
<1> QED BY <1>6, <1>11 DEF PartOf

\* Nor does a forge.
LEMMA ForgedOnce ==
    ASSUME NEW streams, IsFile(streams), Aac51(streams) # {}, Once(streams)
    PROVE  Once(Forged(streams))
<1> DEFINE new == [streams[Least(Aac51(streams))] EXCEPT
                       !.id = "forged", !.codec = "ac3", !.default = FALSE, !.lossy = FALSE]
           S == {streams[i] : i \in DOMAIN streams}
<1>1. Least(Aac51(streams)) \in DOMAIN streams
  <2>1. Aac51(streams) \in SUBSET DOMAIN streams
    BY DEF Aac51, AudioAt, OfType
  <2>2. DOMAIN streams \in SUBSET Nat /\ IsFiniteSet(DOMAIN streams)
    BY ListFits DEF IsFile
  <2>3. IsFiniteSet(Aac51(streams))
    BY <2>1, <2>2, FS_Subset
  <2> QED BY <2>1, <2>2, <2>3, LeastFits
<1>2. new.id = "forged"
  BY <1>1 DEF IsFile, IsStream, Fields
<1>3. Forged(streams) = Append(streams, new)
  BY DEF Forged
<1> HIDE DEF new
<1>4. streams \in Seq(S) /\ Len(streams) \in Nat /\ DOMAIN streams = 1 .. Len(streams)
  BY ListFits DEF IsFile
<1>5. /\ DOMAIN Append(streams, new) = 1 .. Len(streams) + 1
      /\ \A n \in 1 .. Len(streams) : Append(streams, new)[n] = streams[n]
      /\ Append(streams, new)[Len(streams) + 1] = new
  <2> HIDE DEF S
  <2>1. streams \in Seq(S \cup {new})
    BY <1>4
  <2> QED BY <1>4, <2>1
<1>6. ASSUME NEW n \in DOMAIN Forged(streams)
      PROVE  \/ n \in DOMAIN streams /\ Forged(streams)[n] = streams[n]
             \/ Forged(streams)[n].id = "forged"
  BY <1>2, <1>3, <1>4, <1>5
<1> QED BY <1>6 DEF Once

\* Nor does an undo.
LEMMA UndoneOnce ==
    ASSUME NEW streams, IsFile(streams), Once(streams)
    PROVE  Once(Undone(streams))
  BY PickOnce DEF IsFile, Undone, PartOf

-----------------------------------------------------------------------------
(* Pairing.                                                                *)

\* A matching under way: an original that has a place has one stream of the later
\* file to itself, of its type, codec and shape, and both are done with.
Matching(m, old, new) ==
    /\ DOMAIN m.at = DOMAIN old
    /\ m.left \in SUBSET DOMAIN old /\ m.remaining \in SUBSET DOMAIN new
    /\ \A i \in DOMAIN old :
          /\ m.at[i] \in {0} \cup DOMAIN new
          /\ m.at[i] # 0 => /\ Agree(old[i], new[m.at[i]], PayloadKey)
                            /\ i \notin m.left /\ m.at[i] \notin m.remaining
    /\ \A i, j \in DOMAIN old : m.at[i] = m.at[j] /\ m.at[i] # 0 => i = j

\* Look-alikes no fewer than those they are for give each of them one of its own.
LEMMA PlaceFits ==
    ASSUME NEW T \in SUBSET Nat, IsFiniteSet(T), NEW C \in SUBSET Nat, IsFiniteSet(C),
           Cardinality(C) >= Cardinality(T)
    PROVE  /\ \A i \in T : Ordered(C)[Rank(T, i)] \in C
           /\ \A i, j \in T : Ordered(C)[Rank(T, i)] = Ordered(C)[Rank(T, j)] => i = j
<1>1. Cardinality(C) \in Nat /\ Cardinality(T) \in Nat
  BY FS_CardinalityType
<1>2. ASSUME NEW i \in T
      PROVE  /\ Rank(T, i) \in 1 .. Cardinality(C) /\ Ordered(C)[Rank(T, i)] \in C
             /\ Rank(C, Ordered(C)[Rank(T, i)]) = Rank(T, i)
  <2>1. Rank(T, i) \in 1 .. Cardinality(T)
    BY RankFits
  <2>2. Rank(T, i) \in 1 .. Cardinality(C)
    BY <1>1, <2>1
  <2>3. Ordered(C) \in Seq(C) /\ Len(Ordered(C)) = Cardinality(C)
        /\ \A n \in DOMAIN Ordered(C) : Rank(C, Ordered(C)[n]) = n
    BY OrderedFits
  <2> QED BY <2>2, <2>3
<1>3. ASSUME NEW i \in T, NEW j \in T, Ordered(C)[Rank(T, i)] = Ordered(C)[Rank(T, j)]
      PROVE  i = j
  <2>1. Rank(T, i) = Rank(T, j)
    BY <1>2, <1>3
  <2>2. Ordered(T)[Rank(T, i)] = i /\ Ordered(T)[Rank(T, j)] = j
    BY OrderedFits
  <2> QED BY <2>1, <2>2
<1> QED BY <1>2, <1>3

\* A pass carries a matching on.
LEMMA PassFits ==
    ASSUME NEW old, NEW new, IsList(old), IsList(new), NEW m, Matching(m, old, new),
           NEW key, PayloadKey \subseteq key
    PROVE  Matching(PairPass(key, old, new, m), old, new)
<1> DEFINE Twins(i) == {j \in m.left : Agree(old[j], old[i], key)}
           Candidates(i) == {j \in m.remaining : Agree(new[j], old[i], key)}
           settled == {i \in m.left : Candidates(i) # {}}
           Paired(i) == IF Cardinality(Candidates(i)) >= Cardinality(Twins(i))
                        THEN Ordered(Candidates(i))[Rank(Twins(i), i)] ELSE 0
           consumed == UNION {IF Paired(i) = 0 THEN Candidates(i) ELSE {Paired(i)} : i \in settled}
           r == PairPass(key, old, new, m)
<1>1. /\ r.at = [i \in DOMAIN m.at |-> IF i \in settled THEN Paired(i) ELSE m.at[i]]
      /\ r.left = m.left \ settled /\ r.remaining = m.remaining \ consumed
  BY DEF PairPass
<1>2. /\ DOMAIN old \in SUBSET Nat /\ IsFiniteSet(DOMAIN old)
      /\ DOMAIN new \in SUBSET Nat /\ IsFiniteSet(DOMAIN new) /\ 0 \notin DOMAIN new
  <2>1. DOMAIN new = 1 .. Len(new) /\ Len(new) \in Nat
    BY ListFits
  <2>2. 0 \notin DOMAIN new
    BY <2>1
  <2>3. DOMAIN old \in SUBSET Nat /\ IsFiniteSet(DOMAIN old)
    BY ListFits
  <2>4. DOMAIN new \in SUBSET Nat /\ IsFiniteSet(DOMAIN new)
    BY ListFits
  <2> QED BY <2>2, <2>3, <2>4
<1>3. /\ DOMAIN m.at = DOMAIN old
      /\ m.left \in SUBSET DOMAIN old /\ m.remaining \in SUBSET DOMAIN new
      /\ \A i \in DOMAIN old :
            /\ m.at[i] \in {0} \cup DOMAIN new
            /\ m.at[i] # 0 => /\ Agree(old[i], new[m.at[i]], PayloadKey)
                              /\ i \notin m.left /\ m.at[i] \notin m.remaining
      /\ \A i, j \in DOMAIN old : m.at[i] = m.at[j] /\ m.at[i] # 0 => i = j
  BY DEF Matching
<1>4. ASSUME NEW i \in m.left
      PROVE  /\ Twins(i) \in SUBSET Nat /\ IsFiniteSet(Twins(i)) /\ i \in Twins(i)
             /\ Candidates(i) \in SUBSET Nat /\ IsFiniteSet(Candidates(i))
  <2>1. Twins(i) \in SUBSET DOMAIN old /\ Candidates(i) \in SUBSET DOMAIN new
    BY <1>3
  <2>2. i \in Twins(i)
    BY DEF Agree
  <2> HIDE DEF Twins, Candidates
  <2> QED BY <1>2, <2>1, <2>2, FS_Subset
<1>5. ASSUME NEW i \in settled, Paired(i) # 0
      PROVE  Paired(i) \in Candidates(i) /\ Cardinality(Candidates(i)) >= Cardinality(Twins(i))
             /\ Paired(i) = Ordered(Candidates(i))[Rank(Twins(i), i)]
  <2>1. i \in m.left
    OBVIOUS
  <2>2. Cardinality(Candidates(i)) >= Cardinality(Twins(i))
        /\ Paired(i) = Ordered(Candidates(i))[Rank(Twins(i), i)]
    BY <1>5
  <2>3. /\ Twins(i) \in SUBSET Nat /\ IsFiniteSet(Twins(i)) /\ i \in Twins(i)
        /\ Candidates(i) \in SUBSET Nat /\ IsFiniteSet(Candidates(i))
    BY <1>4, <2>1
  <2> HIDE DEF Twins, Candidates, Paired, settled
  <2> QED BY <2>2, <2>3, PlaceFits
<1>6. ASSUME NEW i \in settled, Paired(i) # 0
      PROVE  /\ Paired(i) \in m.remaining /\ Paired(i) \in DOMAIN new /\ Paired(i) \in consumed
             /\ Agree(new[Paired(i)], old[i], key) /\ i \in m.left
  <2>1. Paired(i) \in Candidates(i)
    BY <1>5, <1>6
  <2>2. Paired(i) \in m.remaining /\ Agree(new[Paired(i)], old[i], key)
    <3> HIDE DEF Paired, settled
    <3> QED BY <2>1
  <2>3. Paired(i) \in consumed
    <3> HIDE DEF Paired, settled
    <3> QED BY <1>6
  <2>4. i \in m.left
    OBVIOUS
  <2> HIDE DEF Paired, settled, consumed
  <2> QED BY <1>3, <2>2, <2>3, <2>4
<1>7. ASSUME NEW i \in settled, NEW j \in settled, Paired(i) = Paired(j), Paired(i) # 0
      PROVE  i = j
  <2>1. /\ i \in m.left /\ j \in m.left
        /\ Agree(new[Paired(i)], old[i], key) /\ Agree(new[Paired(i)], old[j], key)
    BY <1>6, <1>7
  <2>2. Agree(old[j], old[i], key)
    <3> HIDE DEF Paired, settled
    <3> QED BY <2>1 DEF Agree
  <2>3. j \in Twins(i) /\ Twins(i) = Twins(j) /\ Candidates(i) = Candidates(j)
    <3>1. \A s : /\ Agree(s, old[i], key) <=> Agree(s, old[j], key)
      BY <2>2 DEF Agree
    <3> QED BY <2>1, <2>2, <3>1
  <2>4. /\ Paired(i) = Ordered(Candidates(i))[Rank(Twins(i), i)]
        /\ Paired(j) = Ordered(Candidates(j))[Rank(Twins(j), j)]
        /\ Cardinality(Candidates(i)) >= Cardinality(Twins(i))
    BY <1>5, <1>7
  <2>5. /\ Twins(i) \in SUBSET Nat /\ IsFiniteSet(Twins(i)) /\ i \in Twins(i)
        /\ Candidates(i) \in SUBSET Nat /\ IsFiniteSet(Candidates(i))
    BY <1>4, <2>1
  <2> HIDE DEF Paired, settled, Twins, Candidates
  <2> QED BY <1>7, <2>3, <2>4, <2>5, PlaceFits
<1> HIDE DEF Paired, settled, consumed, Twins, Candidates, r
<1>8. ASSUME NEW i \in DOMAIN old
      PROVE  /\ r.at[i] \in {0} \cup DOMAIN new
             /\ r.at[i] # 0 => /\ Agree(old[i], new[r.at[i]], PayloadKey)
                               /\ i \notin r.left /\ r.at[i] \notin r.remaining
  <2>1. CASE i \in settled
    <3>1. r.at[i] = Paired(i)
      BY <1>1, <1>3, <2>1
    <3>2. CASE Paired(i) # 0
      <4>1. /\ Paired(i) \in DOMAIN new /\ Paired(i) \in consumed
            /\ Agree(new[Paired(i)], old[i], key)
        BY <1>6, <2>1, <3>2
      <4>2. Agree(old[i], new[Paired(i)], PayloadKey)
        BY <4>1 DEF Agree
      <4> QED BY <1>1, <2>1, <3>1, <4>1, <4>2
    <3> QED BY <3>1, <3>2
  <2>2. CASE i \notin settled
    <3>1. r.at[i] = m.at[i]
      BY <1>1, <1>3, <2>2
    <3> QED BY <1>1, <1>3, <3>1
  <2> QED BY <2>1, <2>2
<1>9. ASSUME NEW i \in DOMAIN old, NEW j \in DOMAIN old, r.at[i] = r.at[j], r.at[i] # 0
      PROVE  i = j
  <2>1. r.at[i] = (IF i \in settled THEN Paired(i) ELSE m.at[i])
        /\ r.at[j] = (IF j \in settled THEN Paired(j) ELSE m.at[j])
    BY <1>1, <1>3
  <2>2. CASE i \in settled /\ j \in settled
    BY <1>7, <1>9, <2>1, <2>2
  <2>3. CASE i \notin settled /\ j \notin settled
    BY <1>3, <1>9, <2>1, <2>3
  <2>4. CASE i \in settled /\ j \notin settled
    <3>1. Paired(i) \in m.remaining
      BY <1>6, <1>9, <2>1, <2>4
    <3> QED BY <1>3, <1>9, <2>1, <2>4, <3>1
  <2>5. CASE i \notin settled /\ j \in settled
    <3>1. Paired(j) \in m.remaining
      BY <1>6, <1>9, <2>1, <2>5
    <3> QED BY <1>3, <1>9, <2>1, <2>5, <3>1
  <2> QED BY <2>2, <2>3, <2>4, <2>5
<1>10. DOMAIN r.at = DOMAIN old /\ r.left \in SUBSET DOMAIN old
       /\ r.remaining \in SUBSET DOMAIN new
  BY <1>1, <1>3
<1> QED BY <1>8, <1>9, <1>10 DEF Matching, r

\* For any two files: an original is paired with a stream of its own type, codec
\* and shape, and no two originals with the same one.
THEOREM MatchesApart ==
    ASSUME NEW old, NEW new, IsList(old), IsList(new)
    PROVE  LET at == MatchStreams(old, new)
           IN  /\ DOMAIN at = DOMAIN old
               /\ \A i \in DOMAIN old : at[i] # 0 =>
                     at[i] \in DOMAIN new /\ Agree(old[i], new[at[i]], PayloadKey)
               /\ \A i, j \in DOMAIN old : at[i] = at[j] /\ at[i] # 0 => i = j
<1> DEFINE start == [at |-> [i \in DOMAIN old |-> 0],
                     left |-> DOMAIN old, remaining |-> DOMAIN new]
           exact == PairPass(FullKey, old, new, start)
           language == PairPass(LanguageKey, old, new, exact)
           last == PairPass(PayloadKey, old, new, language)
<1>1. Matching(start, old, new)
  BY DEF Matching
<1> HIDE DEF start
<1>2. Matching(exact, old, new)
  BY <1>1, PassFits DEF FullKey, LanguageKey
<1> HIDE DEF exact
<1>3. Matching(language, old, new)
  BY <1>2, PassFits DEF LanguageKey
<1> HIDE DEF language
<1>4. Matching(last, old, new)
  BY <1>3, PassFits
<1>5. MatchStreams(old, new) = last.at
  BY DEF MatchStreams, last, language, exact, start
<1> HIDE DEF last
<1> QED BY <1>4, <1>5 DEF Matching

-----------------------------------------------------------------------------
(* Capture.                                                                *)

\* An entry of a manifest, and a manifest.
IsEntry(e) == DOMAIN e = {"s", "processed", "sidecar", "re"} /\ IsStream(e.s)
IsManifest(m) == IsList(m) /\ \A i \in DOMAIN m : IsEntry(m[i])

\* Each original is somewhere.
Found(m) == \A i \in DOMAIN m : m[i].processed # 0 \/ m[i].sidecar # 0

IsPoint(q) == DOMAIN q = {"file", "sidecar", "manifest", "print"} /\ IsManifest(q.manifest)

\* What a capture from `input` starts from: the point it extends, or a manifest of
\* the input; and where it takes a stream that is lost.
Extended == CHOOSE p \in Extendable : TRUE
Base(input) == IF Extendable # {} THEN points[Extended].manifest ELSE Manifest(input)
Taken(input, i) ==
    LET from == Source(Base(input), i, Extendable # {})
    IN  IF from[1] = "file" THEN input[from[2]] ELSE sidecars[points[Extended].sidecar][from[2]]

\* The originals of a manifest are a file.
LEMMA OriginalsFit ==
    ASSUME NEW m, IsManifest(m)
    PROVE  /\ IsFile(Originals(m)) /\ DOMAIN Originals(m) = DOMAIN m
           /\ \A i \in DOMAIN m : Originals(m)[i] = m[i].s
<1>1. DOMAIN Originals(m) = DOMAIN m /\ \A i \in DOMAIN m : Originals(m)[i] = m[i].s
  BY DEF Originals
<1>2. PICK n \in Nat : DOMAIN m = 1 .. n
  BY DEF IsManifest, IsList
<1>3. IsList(Originals(m))
  BY <1>2 DEF Originals, IsList
<1> QED BY <1>1, <1>3 DEF IsFile, IsManifest, IsEntry

\* What a capture starts from is a manifest.
LEMMA BaseFits ==
    ASSUME NEW input, IsFile(input), \A p \in DOMAIN points : IsPoint(points[p])
    PROVE  IsManifest(Base(input))
<1>1. CASE Extendable # {}
  <2>1. Extended \in DOMAIN points
    BY <1>1 DEF Extended, Extendable, Existing
  <2> QED BY <1>1, <2>1 DEF Base, IsPoint
<1>2. CASE Extendable = {}
  <2>1. PICK n \in Nat : DOMAIN input = 1 .. n
    BY DEF IsFile, IsList
  <2>2. IsList(Manifest(input))
    BY <2>1 DEF Manifest, IsList
  <2>3. \A i \in DOMAIN Manifest(input) : IsEntry(Manifest(input)[i])
    BY DEF Manifest, IsEntry, IsFile
  <2> QED BY <1>2, <2>2, <2>3 DEF Base, IsManifest
<1> QED BY <1>1, <1>2

\* The sidecar lists the streams that are lost, and no others.
LEMMA SidecarOrderFits ==
    ASSUME NEW m, NEW lost \in SUBSET Nat, IsFiniteSet(lost)
    PROVE  LET order == SidecarOrder(m, lost)
           IN  /\ IsList(order)
               /\ \A n \in DOMAIN order : order[n] \in lost
               /\ \A i \in lost : \E n \in DOMAIN order : order[n] = i
<1> DEFINE fonts == {i \in lost : m[i].s.type = "attachment"}
           p == Ordered(lost \ fonts)
           q == Ordered(fonts)
<1>1. ASSUME NEW S \in SUBSET lost
      PROVE  /\ IsList(Ordered(S)) /\ \A n \in DOMAIN Ordered(S) : Ordered(S)[n] \in S
             /\ \A i \in S : \E n \in DOMAIN Ordered(S) : Ordered(S)[n] = i
  <2>1. S \in SUBSET Nat /\ IsFiniteSet(S)
    BY FS_Subset
  <2>2. Ordered(S) \in Seq(S)
        /\ \A i \in S : Rank(S, i) \in DOMAIN Ordered(S) /\ Ordered(S)[Rank(S, i)] = i
    BY <2>1, OrderedFits
  <2>3. IsList(Ordered(S))
    BY <2>2, SeqFits
  <2>4. \A n \in DOMAIN Ordered(S) : Ordered(S)[n] \in S
    BY <2>2
  <2> QED BY <2>2, <2>3, <2>4
<1>2. SidecarOrder(m, lost) = p \o q
  BY DEF SidecarOrder
<1>3. fonts \in SUBSET lost /\ lost \ fonts \in SUBSET lost /\ lost = (lost \ fonts) \cup fonts
  OBVIOUS
<1> HIDE DEF fonts
<1>4. /\ IsList(p) /\ \A n \in DOMAIN p : p[n] \in lost
      /\ \A i \in lost \ fonts : \E n \in DOMAIN p : p[n] = i
  BY <1>1, <1>3
<1>5. /\ IsList(q) /\ \A n \in DOMAIN q : q[n] \in lost
      /\ \A i \in fonts : \E n \in DOMAIN q : q[n] = i
  BY <1>1, <1>3
<1> HIDE DEF p, q
<1>6. JoinOf(p \o q, p, q)
  BY <1>4, <1>5, ConcatFits
<1>7. \A n \in DOMAIN (p \o q) : (p \o q)[n] \in lost
  BY <1>4, <1>5, <1>6 DEF JoinOf
<1>8. ASSUME NEW i \in lost PROVE \E n \in DOMAIN (p \o q) : (p \o q)[n] = i
  <2>1. CASE i \in fonts
    BY <1>5, <1>6, <2>1 DEF JoinOf
  <2>2. CASE i \notin fonts
    BY <1>4, <1>6, <2>2 DEF JoinOf
  <2> QED BY <2>1, <2>2
<1> QED BY <1>2, <1>6, <1>7, <1>8 DEF JoinOf

\* Annotating an entry says where its stream is, and no more.
LEMMA AnnotatedFits ==
    ASSUME NEW e, IsEntry(e), NEW re, NEW at, NEW slot
    PROVE  LET a == Annotated([e EXCEPT !.re = re], at, slot)
           IN  IsEntry(a) /\ a.s = e.s /\ a.processed = at /\ a.sidecar = slot
  BY DEF IsEntry, Annotated

\* A capture: each of the originals it starts from is where it was matched, or in
\* the new sidecar, taken from where it was.
CaptureOf(c, input, output) ==
    /\ IsManifest(c.manifest) /\ DOMAIN c.manifest = DOMAIN Base(input)
    /\ \A i \in DOMAIN c.manifest :
          /\ c.manifest[i].s = Base(input)[i].s
          /\ \/ /\ c.manifest[i].processed # 0 /\ c.manifest[i].sidecar = 0
                /\ c.manifest[i].processed = MatchStreams(Originals(Base(input)), output)[i]
             \/ /\ c.manifest[i].processed = 0 /\ c.manifest[i].sidecar # 0
                /\ c.manifest[i].sidecar \in DOMAIN c.streams
                /\ c.streams[c.manifest[i].sidecar] = Taken(input, i)
    /\ \A n \in DOMAIN c.streams : \E i \in DOMAIN c.manifest : c.streams[n] = Taken(input, i)

\* What Captured makes is a capture, under the name of the run.
LEMMA CapturedFits ==
    ASSUME NEW name, NEW input, NEW output, NEW reencoded, IsFile(input),
           \A p \in DOMAIN points : IsPoint(points[p])
    PROVE  /\ CaptureOf(Captured(name, input, output, reencoded), input, output)
           /\ Captured(name, input, output, reencoded).name = name
<1> DEFINE c == Captured(name, input, output, reencoded)
           extend == Extendable # {}
           m == Base(input)
           gone == Reencoded(m, extend, reencoded)
           match == MatchStreams(Originals(m), output)
           at == [i \in DOMAIN m |-> IF i \in gone THEN 0 ELSE match[i]]
           lost == {i \in DOMAIN m : at[i] = 0}
           order == SidecarOrder(m, lost)
           Slot(i) == IF i \in lost THEN CHOOSE n \in DOMAIN order : order[n] = i ELSE 0
<1>1. IsManifest(m)
  BY BaseFits
<1>2. /\ c.name = name
      /\ c.streams = [n \in DOMAIN order |-> Taken(input, order[n])]
      /\ c.manifest = [i \in DOMAIN m |->
                         Annotated([m[i] EXCEPT !.re = i \in gone], at[i], Slot(i))]
  BY DEF Captured, Base, Taken, Extended
<1>3. DOMAIN m \in SUBSET Nat /\ IsFiniteSet(DOMAIN m) /\ 0 \notin DOMAIN m
  <2>1. IsList(m)
    BY <1>1 DEF IsManifest
  <2> HIDE DEF m
  <2>2. DOMAIN m = 1 .. Len(m) /\ Len(m) \in Nat
    BY <2>1, ListFits
  <2>3. 0 \notin DOMAIN m
    BY <2>2
  <2>4. DOMAIN m \in SUBSET Nat /\ IsFiniteSet(DOMAIN m)
    BY <2>1, ListFits
  <2> QED BY <2>3, <2>4
<1> HIDE DEF m, gone
<1>4. lost \in SUBSET DOMAIN m /\ \A i \in DOMAIN m : i \in lost <=> at[i] = 0
  OBVIOUS
<1> HIDE DEF match
<1>5. \A i \in DOMAIN m : at[i] # 0 => at[i] = match[i]
  OBVIOUS
<1> HIDE DEF at, lost
<1>6. lost \in SUBSET Nat /\ IsFiniteSet(lost)
  BY <1>3, <1>4, FS_Subset
<1>7. /\ IsList(order)
      /\ \A n \in DOMAIN order : order[n] \in lost
      /\ \A i \in lost : \E n \in DOMAIN order : order[n] = i
  BY <1>6, SidecarOrderFits
<1> HIDE DEF order
<1>8. DOMAIN order \in SUBSET Nat /\ 0 \notin DOMAIN order
  <2>1. DOMAIN order = 1 .. Len(order) /\ Len(order) \in Nat
    BY <1>7, ListFits
  <2> QED BY <2>1
<1>9. ASSUME NEW i \in lost PROVE Slot(i) \in DOMAIN order /\ order[Slot(i)] = i
  <2>1. \E n \in DOMAIN order : order[n] = i
    BY <1>7
  <2> QED BY <2>1
<1>10. \A i \in DOMAIN m : i \notin lost => Slot(i) = 0
  OBVIOUS
<1> HIDE DEF Slot
<1>11. ASSUME NEW i \in DOMAIN m
       PROVE  /\ IsEntry(c.manifest[i]) /\ c.manifest[i].s = m[i].s
              /\ c.manifest[i].processed = at[i] /\ c.manifest[i].sidecar = Slot(i)
  <2>1. c.manifest[i] = Annotated([m[i] EXCEPT !.re = i \in gone], at[i], Slot(i))
    BY <1>2
  <2>2. IsEntry(m[i])
    BY <1>1 DEF IsManifest
  <2> HIDE DEF c
  <2> QED BY <2>1, <2>2, AnnotatedFits
<1>12. DOMAIN c.manifest = DOMAIN m /\ DOMAIN c.streams = DOMAIN order
       /\ \A n \in DOMAIN order : c.streams[n] = Taken(input, order[n])
  BY <1>2
<1>13. IsList(c.manifest)
  <2>1. PICK n \in Nat : DOMAIN m = 1 .. n
    BY <1>1 DEF IsManifest, IsList
  <2> QED BY <1>2, <2>1 DEF IsList
<1> HIDE DEF c
<1>14. IsManifest(c.manifest)
  BY <1>11, <1>12, <1>13 DEF IsManifest
<1>15. ASSUME NEW i \in DOMAIN c.manifest
       PROVE  /\ c.manifest[i].s = m[i].s
              /\ \/ /\ c.manifest[i].processed # 0 /\ c.manifest[i].sidecar = 0
                    /\ c.manifest[i].processed = match[i]
                 \/ /\ c.manifest[i].processed = 0 /\ c.manifest[i].sidecar # 0
                    /\ c.manifest[i].sidecar \in DOMAIN c.streams
                    /\ c.streams[c.manifest[i].sidecar] = Taken(input, i)
  <2>1. CASE i \in lost
    BY <1>4, <1>8, <1>9, <1>11, <1>12, <2>1
  <2>2. CASE i \notin lost
    BY <1>4, <1>5, <1>10, <1>11, <1>12, <2>2
  <2> QED BY <1>11, <1>12, <2>1, <2>2
<1>16. ASSUME NEW n \in DOMAIN c.streams
       PROVE  \E i \in DOMAIN c.manifest : c.streams[n] = Taken(input, i)
  BY <1>4, <1>7, <1>12
<1>17. c.name = name
  BY <1>2 DEF c
<1>18. CaptureOf(c, input, output)
  BY <1>12, <1>14, <1>15, <1>16 DEF CaptureOf, m, match
<1> QED BY <1>17, <1>18 DEF c

-----------------------------------------------------------------------------
(* Types.                                                                  *)

PointOK(q) ==
    /\ IsPoint(q) /\ Found(q.manifest)
    /\ q.file \in 0 .. media /\ q.print \in 1 .. used.stamps

PointsFit ==
    /\ DOMAIN points \in SUBSET Nat /\ IsFiniteSet(DOMAIN points)
    /\ \A p \in DOMAIN points : PointOK(points[p])

DiskTyped == IsFile(disk.streams) /\ disk.stamp \in 1 .. used.stamps

Counted ==
    /\ case \in Cases /\ media \in Nat
    /\ used \in [jobs : Nat, dropped : Nat, troubles : Nat, stamps : Nat]
    /\ used.jobs <= MaxJobs /\ used.dropped <= MaxDropped /\ used.troubles <= MaxTroubles

JobTyped ==
    \/ job = None
    \/ /\ DOMAIN job = {"pc", "kind", "name", "input", "output", "reencoded", "extend", "point"}
       /\ job.pc \in {"made", "captured", "swapped"}
       /\ IsFile(job.input.streams) /\ job.input.stamp \in 1 .. used.stamps
       /\ IsFile(job.output)
       /\ job.pc = "made" => job.point = {}
       /\ \A c \in job.point : IsManifest(c.manifest) /\ Found(c.manifest)

RevertTyped ==
    \/ revert = None
    \/ /\ DOMAIN revert = {"pc", "id", "output", "manifest", "stamp"}
       /\ revert.pc \in {"running", "swapped"}
       /\ IsFile(revert.output) /\ revert.stamp \in 1 .. used.stamps

OneAtATime == job = None \/ revert = None
ForgeTyped == forge \in {"none", "success", "undone", "undo_failed"}

TInv ==
    /\ PointsFit /\ DiskTyped /\ Counted /\ JobTyped /\ RevertTyped /\ OneAtATime /\ ForgeTyped

\* A file of a case is one.
LEMMA CaseFits == ASSUME NEW c \in Cases PROVE IsFile(c.file) /\ IsFile(c.other)
<1>1. ASSUME NEW file \in {c.file, c.other} PROVE IsFile(file)
  <2>1. file \in Seq(Range(file)) /\ \A i \in DOMAIN file : IsStream(file[i])
    BY CasesGiven
  <2>2. IsList(file)
    BY <2>1, SeqFits
  <2> QED BY <2>1, <2>2 DEF IsFile
<1> QED BY <1>1

\* The types hold at the start.
LEMMA TypeInit == Init => TInv
<1> SUFFICES ASSUME Init PROVE TInv
  OBVIOUS
<1>1. case \in Cases /\ disk.streams = case.file /\ disk.stamp = 1 /\ used.stamps = 1
  BY DEF Init
<1>2. DiskTyped
  BY <1>1, CaseFits DEF DiskTyped
<1>3. Counted
  BY BoundsGiven DEF Init, Counted
<1>4. PointsFit
  <2>1. DOMAIN points = {}
    BY DEF Init
  <2> QED BY <2>1, FS_EmptySet DEF PointsFit
<1> QED BY <1>2, <1>3, <1>4 DEF Init, TInv, JobTyped, RevertTyped, OneAtATime, ForgeTyped

\* Points that stay as they are stay points, whatever else is thrown away.
LEMMA PointsStay ==
    ASSUME TInv, Counted', media' >= media, used'.stamps >= used.stamps,
           \A p \in DOMAIN points' : p \in DOMAIN points /\ points'[p] = points[p]
    PROVE  PointsFit'
<1>1. ASSUME NEW p \in DOMAIN points' PROVE PointOK(points[p])'
  <2>1. p \in DOMAIN points /\ points'[p] = points[p]
    OBVIOUS
  <2>2. PointOK(points[p])
    BY <2>1 DEF TInv, PointsFit
  <2>3. media \in Nat /\ media' \in Nat /\ used.stamps \in Nat /\ used'.stamps \in Nat
    BY DEF TInv, Counted
  <2>4. points[p].file \in 0 .. media' /\ points[p].print \in 1 .. used'.stamps
    BY <2>2, <2>3 DEF PointOK
  <2> QED BY <2>1, <2>2, <2>4 DEF PointOK
<1>2. DOMAIN points' \in SUBSET DOMAIN points
  OBVIOUS
<1>3. DOMAIN points \in SUBSET Nat /\ IsFiniteSet(DOMAIN points)
  BY DEF TInv, PointsFit
<1>4. DOMAIN points' \in SUBSET Nat /\ IsFiniteSet(DOMAIN points')
  BY <1>2, <1>3, FS_Subset
<1> QED BY <1>1, <1>4 DEF PointsFit

\* So does a run under way that goes on, and a revert.
LEMMA JobStays ==
    ASSUME TInv, Counted', used'.stamps >= used.stamps, job' = job PROVE JobTyped'
<1>1. used.stamps \in Nat /\ used'.stamps \in Nat
  BY DEF TInv, Counted
<1>2. \A n \in 1 .. used.stamps : n \in 1 .. used'.stamps
  BY <1>1
<1> QED BY <1>2 DEF TInv, JobTyped

\* The revert under way stays well formed as stamps grow.
LEMMA RevertStays ==
    ASSUME TInv, Counted', used'.stamps >= used.stamps, revert' = revert PROVE RevertTyped'
<1>1. used.stamps \in Nat /\ used'.stamps \in Nat
  BY DEF TInv, Counted
<1>2. \A n \in 1 .. used.stamps : n \in 1 .. used'.stamps
  BY <1>1
<1> QED BY <1>2 DEF TInv, RevertTyped

\* Steps that touch neither the file nor what a run has made of it.
LEMMA TypeQuiet ==
    ASSUME TInv, Counted', used'.stamps = used.stamps, media' = media, disk' = disk,
           job' \in {job, None}, revert' \in {revert, None}, ForgeTyped',
           \A p \in DOMAIN points' : p \in DOMAIN points /\ points'[p] = points[p]
    PROVE  TInv'
<1>0. used.stamps \in Nat /\ media \in Nat
  BY DEF TInv, Counted
<1>1. PointsFit'
  BY <1>0, PointsStay
<1>2. DiskTyped'
  BY DEF TInv, DiskTyped
<1>3. JobTyped'
  <2>1. CASE job' = job
    BY <1>0, <2>1, JobStays
  <2>2. CASE job' = None
    BY <2>2 DEF JobTyped
  <2> QED BY <2>1, <2>2
<1>4. RevertTyped'
  <2>1. CASE revert' = revert
    BY <1>0, <2>1, RevertStays
  <2>2. CASE revert' = None
    BY <2>2 DEF RevertTyped
  <2> QED BY <2>1, <2>2
<1>5. OneAtATime'
  BY DEF TInv, OneAtATime
<1> QED BY <1>1, <1>2, <1>3, <1>4, <1>5 DEF TInv

\* Counting trouble, or a run, keeps the counts.
LEMMA TroubleFits ==
    ASSUME TInv, Trouble, case' = case, media' = media
    PROVE  Counted' /\ used'.stamps = used.stamps /\ used'.jobs = used.jobs
<1>1. used \in [jobs : Nat, dropped : Nat, troubles : Nat, stamps : Nat]
      /\ case \in Cases /\ media \in Nat
      /\ used.jobs <= MaxJobs /\ used.dropped <= MaxDropped /\ used.troubles <= MaxTroubles
  BY DEF TInv, Counted
<1>2. used.troubles < MaxTroubles /\ used' = [used EXCEPT !.troubles = @ + 1]
  BY DEF Trouble
<1>3. used' \in [jobs : Nat, dropped : Nat, troubles : Nat, stamps : Nat]
      /\ used'.jobs = used.jobs /\ used'.dropped = used.dropped
      /\ used'.troubles = used.troubles + 1 /\ used'.stamps = used.stamps
  BY <1>1, <1>2
<1>4. used'.troubles <= MaxTroubles
  <2>1. used.troubles \in Nat /\ MaxTroubles \in Nat
    BY <1>1, BoundsGiven
  <2> QED BY <1>2, <1>3, <2>1
<1> QED BY <1>1, <1>3, <1>4 DEF Counted

\* Counting a point that is thrown away keeps to the bound.
LEMMA DroppedFits ==
    ASSUME TInv, used.dropped < MaxDropped, used' = [used EXCEPT !.dropped = @ + 1],
           case' = case, media' = media
    PROVE  Counted' /\ used'.stamps = used.stamps /\ used'.jobs = used.jobs
<1>1. used \in [jobs : Nat, dropped : Nat, troubles : Nat, stamps : Nat]
      /\ case \in Cases /\ media \in Nat
      /\ used.jobs <= MaxJobs /\ used.dropped <= MaxDropped /\ used.troubles <= MaxTroubles
  BY DEF TInv, Counted
<1>2. used' \in [jobs : Nat, dropped : Nat, troubles : Nat, stamps : Nat]
      /\ used'.jobs = used.jobs /\ used'.dropped = used.dropped + 1
      /\ used'.troubles = used.troubles /\ used'.stamps = used.stamps
  BY <1>1
<1>3. used'.dropped <= MaxDropped
  <2>1. used.dropped \in Nat /\ MaxDropped \in Nat
    BY <1>1, BoundsGiven
  <2> QED BY <1>2, <2>1
<1> QED BY <1>1, <1>2, <1>3 DEF Counted

\* A run begins with the file it was given and a file it made.
LEMMA TypeBegin ==
    ASSUME TInv, NEW kind, NEW name, NEW output, NEW reencoded, IsFile(output),
           Begin(kind, name, output, reencoded)
    PROVE  TInv'
<1>1. used \in [jobs : Nat, dropped : Nat, troubles : Nat, stamps : Nat]
      /\ case \in Cases /\ media \in Nat
      /\ used.jobs <= MaxJobs /\ used.dropped <= MaxDropped /\ used.troubles <= MaxTroubles
  BY DEF TInv, Counted
<1>2. /\ job = None /\ revert = None /\ used.jobs < MaxJobs
      /\ used' = [used EXCEPT !.jobs = @ + 1]
      /\ job' = [pc |-> "made", kind |-> kind, name |-> name, input |-> disk,
                 output |-> output, reencoded |-> reencoded, extend |-> FALSE, point |-> {}]
      /\ UNCHANGED <<case, disk, media, points, sidecars, revert, forge, promised>>
  BY DEF Begin
<1>3. used' \in [jobs : Nat, dropped : Nat, troubles : Nat, stamps : Nat]
      /\ used'.jobs = used.jobs + 1 /\ used'.dropped = used.dropped
      /\ used'.troubles = used.troubles /\ used'.stamps = used.stamps
  BY <1>1, <1>2
<1>4. Counted'
  <2>1. used.jobs \in Nat /\ MaxJobs \in Nat
    BY <1>1, BoundsGiven
  <2>2. used'.jobs <= MaxJobs
    BY <1>2, <1>3, <2>1
  <2> QED BY <1>1, <1>2, <1>3, <2>2 DEF Counted
<1>5. PointsFit'
  <2>1. media' >= media /\ used'.stamps >= used.stamps
    BY <1>1, <1>2, <1>3
  <2> QED BY <1>2, <1>4, <2>1, PointsStay
<1>6. DiskTyped'
  BY <1>2, <1>3 DEF TInv, DiskTyped
<1>7. JobTyped'
  <2>1. /\ job'.pc = "made" /\ job'.point = {} /\ job'.input = disk /\ job'.output = output
        /\ DOMAIN job' = {"pc", "kind", "name", "input", "output", "reencoded", "extend", "point"}
    BY <1>2
  <2>2. IsFile(disk.streams) /\ disk.stamp \in 1 .. used'.stamps
    BY <1>3 DEF TInv, DiskTyped
  <2> QED BY <2>1, <2>2 DEF JobTyped
<1>8. RevertTyped' /\ OneAtATime'
  BY <1>2 DEF RevertTyped, OneAtATime
<1>9. ForgeTyped'
  BY <1>2 DEF TInv, ForgeTyped
<1> QED BY <1>4, <1>5, <1>6, <1>7, <1>8, <1>9 DEF TInv

\* A run begins, with an output made of the file.
Begun ==
    \E kind, name, output, reencoded, plan :
        /\ name \in Names(kind) /\ Begin(kind, name, output, reencoded)
        /\ plan.reencode \in {FALSE, case.reencode}
        /\ \A n \in DOMAIN output : Comes(output[n], disk.streams, plan)
        /\ Once(disk.streams) => Once(output)
        /\ kind = "undo" =>
              UndoOutcome(disk.streams) = "found" /\ output = Undone(disk.streams)

\* A plan re-encodes only if the case does.
LEMMA PlanFits ==
    ASSUME NEW streams, NEW plan \in Plans(streams)
    PROVE  plan.reencode \in {FALSE, case.reencode}
  BY DEF Plans

\* What is to be shown of a run for it to have begun.
LEMMA BegunFits ==
    ASSUME NEW kind, NEW name \in Names(kind), NEW output, NEW reencoded, NEW plan,
           Begin(kind, name, output, reencoded), plan.reencode \in {FALSE, case.reencode},
           \A n \in DOMAIN output : Comes(output[n], disk.streams, plan),
           Once(disk.streams) => Once(output),
           kind = "undo" => UndoOutcome(disk.streams) = "found" /\ output = Undone(disk.streams)
    PROVE  Begun
  BY DEF Begun

\* A run that begins is well formed, and is begun on the file as it is.
LEMMA TypeBegins ==
    ASSUME TInv, BeginQueueJob \/ BeginForgeAdd \/ BeginForgeUndo
    PROVE  TInv' /\ Begun
<1>1. IsFile(disk.streams)
  BY DEF TInv, DiskTyped
<1>2. CASE BeginQueueJob
  <2>0. PICK plan \in Plans(disk.streams), name \in Names("queue") :
            \E reencoded : Begin("queue", name, Remuxed(disk.streams, plan), reencoded)
    BY <1>2 DEF BeginQueueJob
  <2>1. PICK reencoded : Begin("queue", name, Remuxed(disk.streams, plan), reencoded)
    BY <2>0
  <2>2. IsFile(Remuxed(disk.streams, plan))
        /\ \A n \in DOMAIN Remuxed(disk.streams, plan) :
              Comes(Remuxed(disk.streams, plan)[n], disk.streams, plan)
    BY <1>1, RemuxedFits DEF Comes
  <2>3. plan \in Plans(disk.streams)
    OBVIOUS
  <2>4. plan.reencode \in {FALSE, case.reencode}
    BY <2>3, PlanFits
  <2>5. "queue" # "undo"
    OBVIOUS
  <2>6. Once(disk.streams) => Once(Remuxed(disk.streams, plan))
    BY <1>1, RemuxedOnce
  <2>7. Begun
    BY <2>1, <2>2, <2>4, <2>5, <2>6, BegunFits
  <2> QED BY <2>1, <2>2, <2>7, TypeBegin
<1>3. CASE BeginForgeAdd
  <2>1. PICK name \in Names("add") : Begin("add", name, Forged(disk.streams), {})
    BY <1>3 DEF BeginForgeAdd
  <2>2. IsFile(Forged(disk.streams))
        /\ \A n \in DOMAIN Forged(disk.streams) :
              Comes(Forged(disk.streams)[n], disk.streams, [reencode |-> FALSE])
    BY <1>1, <1>3, ForgedFits DEF BeginForgeAdd, Comes, Made
  <2>3. [reencode |-> FALSE].reencode = FALSE
    OBVIOUS
  <2>4. "add" # "undo"
    OBVIOUS
  <2>5. Once(disk.streams) => Once(Forged(disk.streams))
    BY <1>1, <1>3, ForgedOnce DEF BeginForgeAdd
  <2>6. Begun
    BY <2>1, <2>2, <2>3, <2>4, <2>5, BegunFits
  <2> QED BY <2>1, <2>2, <2>6, TypeBegin
<1>4. CASE BeginForgeUndo
  <2>1. PICK name \in Names("undo") : Begin("undo", name, Undone(disk.streams), {})
    BY <1>4 DEF BeginForgeUndo
  <2>2. /\ IsFile(Undone(disk.streams)) /\ UndoOutcome(disk.streams) = "found"
        /\ \A n \in DOMAIN Undone(disk.streams) :
              Comes(Undone(disk.streams)[n], disk.streams, [reencode |-> FALSE])
    BY <1>1, <1>4, UndoneFits DEF BeginForgeUndo, Comes, Made
  <2>3. [reencode |-> FALSE].reencode = FALSE
    OBVIOUS
  <2>4. Once(disk.streams) => Once(Undone(disk.streams))
    BY <1>1, UndoneOnce
  <2>5. Begun
    BY <2>1, <2>2, <2>3, <2>4, BegunFits
  <2> QED BY <2>1, <2>2, <2>5, TypeBegin
<1> QED BY <1>2, <1>3, <1>4

\* What a capture is, of the run's own file.
LEMMA CapturedOfFits ==
    ASSUME TInv, job # None
    PROVE  /\ CaptureOf(CapturedOf(job), job.input.streams, job.output)
           /\ CapturedOf(job).name = job.name
<1>1. IsFile(job.input.streams) /\ \A p \in DOMAIN points : IsPoint(points[p])
  BY DEF TInv, JobTyped, PointsFit, PointOK
<1> QED BY <1>1, CapturedFits DEF CapturedOf

\* Each original of a capture is in the output or in the sidecar.
LEMMA CaptureFound ==
    ASSUME NEW c, NEW input, NEW output, CaptureOf(c, input, output)
    PROVE  IsManifest(c.manifest) /\ Found(c.manifest)
  BY DEF CaptureOf, Found

\* Nor does a capture break the types,
LEMMA TypeCapture == ASSUME TInv, Capture PROVE TInv'
<1> DEFINE c == CapturedOf(job)
<1>1. job # None
  BY DEF Capture, None
<1>2. IsManifest(c.manifest) /\ Found(c.manifest)
  BY <1>1, CapturedOfFits, CaptureFound
<1>3. /\ job' = [job EXCEPT !.pc = "captured", !.extend = c.extend /\ ~c.fonts,
                            !.point = IF c.anything THEN {c} ELSE {}]
      /\ UNCHANGED <<case, disk, media, points, revert, forge, promised, used>>
  BY DEF Capture
<1> HIDE DEF c
<1>4. /\ DOMAIN job = {"pc", "kind", "name", "input", "output", "reencoded", "extend", "point"}
      /\ IsFile(job.input.streams) /\ job.input.stamp \in 1 .. used.stamps /\ IsFile(job.output)
  BY <1>1 DEF TInv, JobTyped
<1>5. /\ DOMAIN job' = {"pc", "kind", "name", "input", "output", "reencoded", "extend", "point"}
      /\ job'.input = job.input /\ job'.output = job.output
      /\ job'.pc = "captured" /\ job'.point = (IF c.anything THEN {c} ELSE {})
  BY <1>3, <1>4
<1>6. \A x \in job'.point : x = c
  BY <1>5
<1>7. JobTyped'
  BY <1>2, <1>3, <1>4, <1>5, <1>6 DEF JobTyped
<1>8. Counted' /\ DiskTyped' /\ ForgeTyped' /\ RevertTyped' /\ OneAtATime'
  BY <1>1, <1>3 DEF TInv, Counted, DiskTyped, ForgeTyped, RevertTyped, OneAtATime
<1>9. PointsFit'
  BY <1>3 DEF TInv, PointsFit, PointOK
<1> QED BY <1>7, <1>8, <1>9 DEF TInv

\* A run that goes on with its capture, or without one.
LEMMA TypeGoesOn ==
    ASSUME TInv, job # None, Counted', used'.stamps = used.stamps,
           UNCHANGED <<disk, media, points, revert, forge>>, DOMAIN job' = DOMAIN job,
           job'.pc \in {"captured", "swapped"}, job'.input = job.input, job'.output = job.output,
           job'.point \subseteq job.point
    PROVE  TInv'
<1>1. /\ DOMAIN job = {"pc", "kind", "name", "input", "output", "reencoded", "extend", "point"}
      /\ IsFile(job.input.streams) /\ job.input.stamp \in 1 .. used.stamps /\ IsFile(job.output)
      /\ \A c \in job.point : IsManifest(c.manifest) /\ Found(c.manifest)
  BY DEF TInv, JobTyped
<1>2. JobTyped'
  BY <1>1 DEF JobTyped
<1>3. DiskTyped' /\ ForgeTyped' /\ RevertTyped' /\ OneAtATime'
  BY DEF TInv, DiskTyped, ForgeTyped, RevertTyped, OneAtATime
<1>4. PointsFit'
  BY DEF TInv, PointsFit, PointOK
<1> QED BY <1>2, <1>3, <1>4 DEF TInv

\* A swap gives the file its new streams and a stamp that no point has.
LEMMA NewDiskFits ==
    ASSUME TInv, NEW streams, NewDisk(streams), case' = case, media' = media
    PROVE  /\ Counted' /\ used'.stamps = used.stamps + 1 /\ used'.jobs = used.jobs
           /\ disk'.streams = streams /\ disk'.stamp = used.stamps + 1
<1>1. used \in [jobs : Nat, dropped : Nat, troubles : Nat, stamps : Nat]
      /\ case \in Cases /\ media \in Nat
      /\ used.jobs <= MaxJobs /\ used.dropped <= MaxDropped /\ used.troubles <= MaxTroubles
  BY DEF TInv, Counted
<1>2. disk' = [streams |-> streams, stamp |-> used.stamps + 1]
      /\ used' = [used EXCEPT !.stamps = @ + 1]
  BY DEF NewDisk
<1>3. used' \in [jobs : Nat, dropped : Nat, troubles : Nat, stamps : Nat]
      /\ used'.jobs = used.jobs /\ used'.dropped = used.dropped
      /\ used'.troubles = used.troubles /\ used'.stamps = used.stamps + 1
  BY <1>1, <1>2
<1> QED BY <1>1, <1>2, <1>3 DEF Counted

\* nor a swap,
LEMMA TypeSwap == ASSUME TInv, Swap PROVE TInv'
<1>1. job # None /\ job.pc = "captured" /\ NewDisk(job.output)
      /\ job' = [job EXCEPT !.pc = "swapped"]
      /\ UNCHANGED <<case, media, points, sidecars, revert, forge>>
  BY DEF Swap, None
<1>2. Counted' /\ used'.stamps = used.stamps + 1 /\ disk'.streams = job.output
      /\ disk'.stamp = used.stamps + 1
  BY <1>1, NewDiskFits
<1>3. used.stamps \in Nat /\ media \in Nat
  BY DEF TInv, Counted
<1>4. PointsFit'
  <2>1. used'.stamps >= used.stamps /\ media' >= media
    BY <1>1, <1>2, <1>3
  <2> QED BY <1>1, <1>2, <2>1, PointsStay
<1>5. /\ DOMAIN job = {"pc", "kind", "name", "input", "output", "reencoded", "extend", "point"}
      /\ IsFile(job.input.streams) /\ job.input.stamp \in 1 .. used.stamps /\ IsFile(job.output)
      /\ \A c \in job.point : IsManifest(c.manifest) /\ Found(c.manifest)
  BY <1>1 DEF TInv, JobTyped
<1>6. DiskTyped'
  <2>1. disk'.stamp \in 1 .. used'.stamps
    BY <1>2, <1>3
  <2> QED BY <1>2, <1>5, <2>1 DEF DiskTyped
<1>7. JobTyped'
  <2>1. DOMAIN job' = DOMAIN job /\ job'.pc = "swapped" /\ job'.input = job.input
        /\ job'.output = job.output /\ job'.point = job.point
    BY <1>1, <1>5
  <2>2. job.input.stamp \in 1 .. used'.stamps
    BY <1>2, <1>3, <1>5
  <2> QED BY <1>5, <2>1, <2>2 DEF JobTyped
<1>8. RevertTyped' /\ OneAtATime' /\ ForgeTyped'
  <2>1. revert = None
    BY <1>1 DEF TInv, OneAtATime
  <2> QED BY <1>1, <2>1 DEF TInv, RevertTyped, OneAtATime, ForgeTyped
<1> QED BY <1>2, <1>4, <1>6, <1>7, <1>8 DEF TInv

\* The record writes the point the run captured, for the file as it left it.
LEMMA RecordWrites ==
    ASSUME TInv, Record, job.point # {}
    PROVE  \E c \in job.point, p \in Nat,
              file \in {media} \cup {points[x].file : x \in DOMAIN points} :
              /\ points' = With(points, p, [file |-> file, sidecar |-> c.name,
                                            manifest |-> c.manifest, print |-> disk.stamp])
              /\ sidecars' = Without(sidecars, Superseded(c))
<1> DEFINE c == CHOOSE x \in job.point : TRUE
           still == c.replaces \cap DOMAIN points
           p == IF still = {} THEN NewId ELSE Greatest(still)
           file == IF still = {} THEN media ELSE points[p].file
<1>1. c \in job.point
  OBVIOUS
<1>2. /\ points' = With(points, p, [file |-> file, sidecar |-> c.name,
                                    manifest |-> c.manifest, print |-> disk.stamp])
      /\ sidecars' = Without(sidecars, Superseded(c))
  BY DEF Record
<1>3. media \in Nat /\ DOMAIN points \in SUBSET Nat /\ IsFiniteSet(DOMAIN points)
  BY DEF TInv, Counted, PointsFit
<1>4. still \in SUBSET DOMAIN points
  OBVIOUS
<1> HIDE DEF c, still
<1>5. CASE still = {}
  <2>1. NewId \in Nat
    <3>1. CASE DOMAIN points = {}
      BY <3>1 DEF NewId
    <3>2. CASE DOMAIN points # {}
      <4>1. Greatest(DOMAIN points) \in DOMAIN points
        BY <1>3, <3>2, GreatestFits
      <4> QED BY <1>3, <3>2, <4>1 DEF NewId
    <3> QED BY <3>1, <3>2
  <2>2. p \in Nat /\ file = media
    BY <1>5, <2>1
  <2> HIDE DEF p, file
  <2> QED BY <1>1, <1>2, <2>2
<1>6. CASE still # {}
  <2>1. Greatest(still) \in still
    <3>1. still \in SUBSET Nat /\ IsFiniteSet(still)
      BY <1>3, <1>4, FS_Subset
    <3> QED BY <1>6, <3>1, GreatestFits
  <2>2. p \in DOMAIN points /\ file = points[p].file
    BY <1>4, <1>6, <2>1
  <2> HIDE DEF p, file
  <2> QED BY <1>1, <1>2, <1>3, <2>2
<1> QED BY <1>5, <1>6

\* nor a record: the point it writes is numbered, and describes the file.
LEMMA TypeRecord == ASSUME TInv, Record PROVE TInv'
<1>1. job # None /\ job.pc = "swapped" /\ job' = None /\ revert = None
      /\ UNCHANGED <<case, disk, media, revert, promised, used>>
  BY DEF Record, None, TInv, OneAtATime
<1>2. Counted' /\ DiskTyped' /\ JobTyped' /\ RevertTyped' /\ OneAtATime'
  BY <1>1 DEF TInv, Counted, DiskTyped, JobTyped, RevertTyped, OneAtATime
<1>3. ForgeTyped'
  <2>1. forge' \in {"success", "undone", forge}
    BY DEF Record
  <2> QED BY <2>1 DEF TInv, ForgeTyped
<1>4. CASE job.point = {}
  <2>1. points' = points
    BY <1>4 DEF Record
  <2>2. PointsFit'
    BY <1>1, <2>1 DEF TInv, PointsFit, PointOK
  <2> QED BY <1>2, <1>3, <2>2 DEF TInv
<1>5. CASE job.point # {}
  <2>0. PICK c \in job.point, p \in Nat,
             file \in {media} \cup {points[x].file : x \in DOMAIN points} :
            points' = With(points, p, [file |-> file, sidecar |-> c.name,
                                       manifest |-> c.manifest, print |-> disk.stamp])
    BY <1>5, RecordWrites
  <2>1. /\ file \in 0 .. media
        /\ points' = With(points, p, [file |-> file, sidecar |-> c.name,
                                      manifest |-> c.manifest, print |-> disk.stamp])
    <3>1. media \in Nat /\ \A x \in DOMAIN points : points[x].file \in 0 .. media
      BY DEF TInv, Counted, PointsFit, PointOK
    <3> QED BY <2>0, <3>1
  <2> DEFINE q == [file |-> file, sidecar |-> c.name, manifest |-> c.manifest,
                   print |-> disk.stamp]
  <2>2. IsManifest(c.manifest) /\ Found(c.manifest) /\ disk.stamp \in 1 .. used.stamps
    BY <1>1, <2>1 DEF TInv, JobTyped, DiskTyped
  <2>3. /\ DOMAIN q = {"file", "sidecar", "manifest", "print"}
        /\ q.manifest = c.manifest /\ q.file = file /\ q.print = disk.stamp
    OBVIOUS
  <2>4. DOMAIN points' = DOMAIN points \cup {p} /\ points'[p] = q
        /\ \A x \in DOMAIN points : x # p => points'[x] = points[x]
    BY <2>1 DEF With
  <2> HIDE DEF q
  <2>5. DOMAIN points' \in SUBSET Nat /\ IsFiniteSet(DOMAIN points')
    BY <2>4, FS_AddElement DEF TInv, PointsFit
  <2>6. ASSUME NEW x \in DOMAIN points' PROVE PointOK(points[x])'
    <3>1. CASE x = p
      BY <1>1, <2>1, <2>2, <2>3, <2>4, <3>1 DEF PointOK, IsPoint
    <3>2. CASE x # p
      <4>1. x \in DOMAIN points /\ points'[x] = points[x]
        BY <2>4, <3>2
      <4> QED BY <1>1, <4>1 DEF TInv, PointsFit, PointOK
    <3> QED BY <3>1, <3>2
  <2>7. PointsFit'
    BY <2>5, <2>6 DEF PointsFit
  <2> QED BY <1>2, <1>3, <2>7 DEF TInv
<1> QED BY <1>4, <1>5

\* A stream with the bytes of another keeps what is said of it.
Tagged(s, id, lossy) == [s EXCEPT !.id = id, !.lossy = lossy]

\* It is a stream, and looks as it did.
LEMMA TaggedFits ==
    ASSUME NEW s, IsStream(s), NEW id, NEW lossy
    PROVE  /\ IsStream(Tagged(s, id, lossy)) /\ Tagged(s, id, lossy).id = id
           /\ Tagged(s, id, lossy).lossy = lossy /\ Tagged(s, id, lossy).lang = s.lang
           /\ Agree(Tagged(s, id, lossy), s, PayloadKey)
  BY DEF Tagged, IsStream, Fields, Agree, PayloadKey

\* What a revert makes is a file, laid out as the original.
LEMMA RestoredFits ==
    ASSUME NEW p \in DOMAIN points, IsManifest(points[p].manifest)
    PROVE  /\ IsFile(Restored(p)) /\ DOMAIN Restored(p) = DOMAIN points[p].manifest
           /\ \A i \in DOMAIN points[p].manifest :
                 /\ Restored(p)[i].id = Located(p, i).id
                 /\ Restored(p)[i].lossy = Located(p, i).lossy
                 /\ Restored(p)[i].lang = points[p].manifest[i].s.lang
                 /\ Agree(Restored(p)[i], points[p].manifest[i].s, PayloadKey)
<1> DEFINE m == points[p].manifest
<1>1. PICK n \in Nat : DOMAIN m = 1 .. n
  BY DEF IsManifest, IsList
<1>2. /\ DOMAIN Restored(p) = DOMAIN m
      /\ \A i \in DOMAIN m : Restored(p)[i] =
            [m[i].s EXCEPT !.id = Located(p, i).id, !.lossy = Located(p, i).lossy]
  BY DEF Restored
<1>3. IsList(Restored(p))
  BY <1>1 DEF Restored, IsList
<1>4. ASSUME NEW i \in DOMAIN m
      PROVE  /\ IsStream(Restored(p)[i])
             /\ Restored(p)[i].id = Located(p, i).id
             /\ Restored(p)[i].lossy = Located(p, i).lossy
             /\ Restored(p)[i].lang = m[i].s.lang
             /\ Agree(Restored(p)[i], m[i].s, PayloadKey)
  <2>1. IsStream(m[i].s)
    BY DEF IsManifest, IsEntry
  <2> DEFINE s == m[i].s
             x == Located(p, i).id
             y == Located(p, i).lossy
             t == Restored(p)[i]
  <2>2. t = Tagged(s, x, y)
    BY <1>2 DEF Tagged
  <2>3. /\ IsStream(t) /\ t.id = x /\ t.lossy = y /\ t.lang = s.lang
        /\ Agree(t, s, PayloadKey)
    <3> HIDE DEF s, x, y, t
    <3> QED BY <2>1, <2>2, TaggedFits DEF s
  <2> QED BY <2>3
<1> QED BY <1>2, <1>3, <1>4 DEF IsFile

\* A revert makes a file,
LEMMA TypeStartRevert ==
    ASSUME TInv, NEW p \in DOMAIN points, StartRevert(p) PROVE TInv'
<1>1. /\ job = None
      /\ revert' = [pc |-> "running", id |-> p, output |-> Restored(p),
                    manifest |-> points[p].manifest, stamp |-> disk.stamp]
      /\ UNCHANGED <<case, disk, media, points, sidecars, job, forge, promised, used>>
  BY DEF StartRevert
<1>2. IsFile(Restored(p))
  BY RestoredFits DEF TInv, PointsFit, PointOK, IsPoint
<1>3. RevertTyped'
  <2>1. /\ DOMAIN revert' = {"pc", "id", "output", "manifest", "stamp"}
        /\ revert'.pc = "running" /\ revert'.output = Restored(p) /\ revert'.stamp = disk.stamp
    BY <1>1
  <2> QED BY <1>1, <1>2, <2>1 DEF TInv, DiskTyped, RevertTyped
<1>4. Counted' /\ DiskTyped' /\ ForgeTyped' /\ JobTyped' /\ OneAtATime'
  BY <1>1 DEF TInv, Counted, DiskTyped, ForgeTyped, JobTyped, OneAtATime
<1>5. PointsFit'
  BY <1>1 DEF TInv, PointsFit, PointOK
<1> QED BY <1>3, <1>4, <1>5 DEF TInv

\* and swaps it in.
LEMMA TypeSwapRevert == ASSUME TInv, SwapRevert PROVE TInv'
<1>1. /\ revert # None /\ revert.pc = "running" /\ NewDisk(revert.output)
      /\ revert' = [revert EXCEPT !.pc = "swapped"]
      /\ UNCHANGED <<case, media, points, sidecars, job, forge, promised>>
  BY DEF SwapRevert, None
<1>2. Counted' /\ used'.stamps = used.stamps + 1 /\ disk'.streams = revert.output
      /\ disk'.stamp = used.stamps + 1
  BY <1>1, NewDiskFits
<1>3. used.stamps \in Nat /\ media \in Nat
  BY DEF TInv, Counted
<1>4. PointsFit' /\ JobTyped'
  <2>1. used'.stamps >= used.stamps /\ media' >= media
    BY <1>1, <1>2, <1>3
  <2> QED BY <1>1, <1>2, <2>1, PointsStay, JobStays
<1>5. /\ DOMAIN revert = {"pc", "id", "output", "manifest", "stamp"}
      /\ IsFile(revert.output) /\ revert.stamp \in 1 .. used.stamps
  BY <1>1 DEF TInv, RevertTyped
<1>6. DiskTyped'
  <2>1. disk'.stamp \in 1 .. used'.stamps
    BY <1>2, <1>3
  <2> QED BY <1>2, <1>5, <2>1 DEF DiskTyped
<1>7. RevertTyped'
  <2>1. /\ DOMAIN revert' = DOMAIN revert /\ revert'.pc = "swapped"
        /\ revert'.output = revert.output /\ revert'.stamp = revert.stamp
    BY <1>1, <1>5
  <2>2. revert.stamp \in 1 .. used'.stamps
    BY <1>2, <1>3, <1>5
  <2> QED BY <1>5, <2>1, <2>2 DEF RevertTyped
<1>8. OneAtATime' /\ ForgeTyped'
  BY <1>1 DEF TInv, OneAtATime, ForgeTyped
<1> QED BY <1>2, <1>4, <1>6, <1>7, <1>8 DEF TInv

\* An upgrade is a file of the case.
LEMMA TypeReplaced == ASSUME TInv, Replaced PROVE TInv'
<1>1. /\ used.troubles < MaxTroubles
      /\ disk' = [streams |-> case.other, stamp |-> used.stamps + 1]
      /\ used' = [used EXCEPT !.troubles = @ + 1, !.stamps = @ + 1]
      /\ UNCHANGED <<case, media, points, sidecars, job, revert, forge>>
  BY DEF Replaced
<1>2. used \in [jobs : Nat, dropped : Nat, troubles : Nat, stamps : Nat]
      /\ case \in Cases /\ media \in Nat
      /\ used.jobs <= MaxJobs /\ used.dropped <= MaxDropped /\ used.troubles <= MaxTroubles
  BY DEF TInv, Counted
<1>3. used' \in [jobs : Nat, dropped : Nat, troubles : Nat, stamps : Nat]
      /\ used'.jobs = used.jobs /\ used'.dropped = used.dropped
      /\ used'.troubles = used.troubles + 1 /\ used'.stamps = used.stamps + 1
  <2>1. used' = [used EXCEPT !.troubles = used.troubles + 1, !.stamps = used.stamps + 1]
    BY <1>1
  <2>2. used.troubles + 1 \in Nat /\ used.stamps + 1 \in Nat
    BY <1>2
  <2> QED BY <1>2, <2>1, <2>2
<1>4. Counted'
  <2>1. used.troubles \in Nat /\ MaxTroubles \in Nat
    BY <1>2, BoundsGiven
  <2>2. used'.troubles <= MaxTroubles
    BY <1>1, <1>3, <2>1
  <2> QED BY <1>1, <1>2, <1>3, <2>2 DEF Counted
<1>5. PointsFit' /\ JobTyped' /\ RevertTyped'
  <2>1. used'.stamps >= used.stamps /\ media' >= media
    BY <1>1, <1>2, <1>3
  <2> QED BY <1>1, <1>4, <2>1, PointsStay, JobStays, RevertStays
<1>6. DiskTyped'
  <2>1. disk'.stamp \in 1 .. used'.stamps /\ disk'.streams = case.other
    BY <1>1, <1>2, <1>3
  <2>2. IsFile(case.other)
    BY <1>2, CaseFits
  <2> QED BY <2>1, <2>2 DEF DiskTyped
<1>7. OneAtATime' /\ ForgeTyped'
  BY <1>1 DEF TInv, OneAtATime, ForgeTyped
<1> QED BY <1>4, <1>5, <1>6, <1>7 DEF TInv

\* A rename detaches every point and changes nothing else of it.
LEMMA TypeRenamed == ASSUME TInv, Renamed PROVE TInv'
<1>1. /\ job = None /\ revert = None /\ Trouble /\ media' = media + 1
      /\ points' = [p \in DOMAIN points |-> [points[p] EXCEPT !.file = 0]]
      /\ forge' = "none" /\ UNCHANGED <<case, disk, sidecars, job, revert, promised>>
  BY DEF Renamed
<1>2. used \in [jobs : Nat, dropped : Nat, troubles : Nat, stamps : Nat]
      /\ case \in Cases /\ media \in Nat
      /\ used.jobs <= MaxJobs /\ used.dropped <= MaxDropped /\ used.troubles <= MaxTroubles
  BY DEF TInv, Counted
<1>3. Counted' /\ used'.stamps = used.stamps
  <2>1. used.troubles < MaxTroubles /\ used' = [used EXCEPT !.troubles = @ + 1]
    BY <1>1 DEF Trouble
  <2>2. used' \in [jobs : Nat, dropped : Nat, troubles : Nat, stamps : Nat]
        /\ used'.jobs = used.jobs /\ used'.dropped = used.dropped
        /\ used'.troubles = used.troubles + 1 /\ used'.stamps = used.stamps
    BY <1>2, <2>1
  <2>3. used.troubles \in Nat /\ MaxTroubles \in Nat
    BY <1>2, BoundsGiven
  <2>4. used'.troubles <= MaxTroubles /\ media' \in Nat
    BY <1>1, <1>2, <2>1, <2>2, <2>3
  <2> QED BY <1>1, <1>2, <2>2, <2>4 DEF Counted
<1>4. ASSUME NEW p \in DOMAIN points' PROVE PointOK(points[p])'
  <2>1. p \in DOMAIN points /\ points'[p] = [points[p] EXCEPT !.file = 0]
    BY <1>1
  <2>2. PointOK(points[p])
    BY <2>1 DEF TInv, PointsFit
  <2>3. /\ DOMAIN points'[p] = {"file", "sidecar", "manifest", "print"}
        /\ points'[p].file = 0 /\ points'[p].manifest = points[p].manifest
        /\ points'[p].print = points[p].print
    BY <2>1, <2>2 DEF PointOK, IsPoint
  <2>4. 0 \in 0 .. media'
    BY <1>1, <1>2
  <2> QED BY <1>3, <2>2, <2>3, <2>4 DEF PointOK, IsPoint
<1>5. PointsFit'
  BY <1>1, <1>4 DEF TInv, PointsFit
<1>6. DiskTyped' /\ JobTyped' /\ RevertTyped' /\ OneAtATime' /\ ForgeTyped'
  BY <1>1, <1>3 DEF TInv, DiskTyped, JobTyped, RevertTyped, OneAtATime, ForgeTyped
<1> QED BY <1>3, <1>5, <1>6 DEF TInv

\* What attaching a point leaves of it: each stream found again, or in the sidecar.
LEMMA AttachedFits ==
    ASSUME TInv, NEW p \in DOMAIN points, Attach(p)
    PROVE  LET old == points[p].manifest
               m == points'[p].manifest
               at == MatchStreams(Originals(old), disk.streams)
           IN  /\ points[p].print = disk.stamp /\ points[p].file = 0
               /\ DOMAIN points' = DOMAIN points
               /\ \A x \in DOMAIN points : x # p => points'[x] = points[x]
               /\ IsPoint(points'[p]) /\ points'[p].file = media
               /\ points'[p].print = points[p].print /\ points'[p].sidecar = points[p].sidecar
               /\ DOMAIN m = DOMAIN old
               /\ \A i \in DOMAIN m : /\ m[i].s = old[i].s /\ m[i].sidecar = old[i].sidecar
                                      /\ m[i].processed = at[i]
                                      /\ at[i] # 0 \/ m[i].sidecar # 0
<1> DEFINE old == points[p].manifest
           at == MatchStreams(Originals(old), disk.streams)
           new == [i \in DOMAIN old |-> [old[i] EXCEPT !.processed = at[i]]]
<1>1. /\ points[p].file = 0 /\ points[p].print = disk.stamp
      /\ \A i \in DOMAIN old : at[i] # 0 \/ old[i].sidecar # 0
      /\ points' = [points EXCEPT ![p].file = media, ![p].manifest = new]
  BY DEF Attach
<1>2. IsPoint(points[p])
  BY DEF TInv, PointsFit, PointOK
<1>3. /\ DOMAIN points' = DOMAIN points
      /\ \A x \in DOMAIN points : x # p => points'[x] = points[x]
      /\ points'[p] = [points[p] EXCEPT !.file = media, !.manifest = new]
  <2> HIDE DEF new, at
  <2> QED BY <1>1
<1>4. /\ DOMAIN points'[p] = {"file", "sidecar", "manifest", "print"}
      /\ points'[p].file = media /\ points'[p].manifest = new
      /\ points'[p].print = points[p].print /\ points'[p].sidecar = points[p].sidecar
  <2> HIDE DEF new, at
  <2> QED BY <1>2, <1>3 DEF IsPoint
<1> HIDE DEF at
<1>5. IsManifest(old)
  BY <1>2 DEF IsPoint
<1>6. ASSUME NEW i \in DOMAIN new
      PROVE  /\ IsEntry(new[i]) /\ new[i].s = old[i].s /\ new[i].sidecar = old[i].sidecar
             /\ new[i].processed = at[i] /\ i \in DOMAIN old
  <2>1. i \in DOMAIN old /\ new[i] = [old[i] EXCEPT !.processed = at[i]]
    OBVIOUS
  <2>2. IsEntry(old[i])
    BY <1>5, <2>1 DEF IsManifest
  <2> HIDE DEF new, old
  <2> QED BY <2>1, <2>2 DEF IsEntry
<1>7. IsList(new) /\ DOMAIN new = DOMAIN old
  <2>1. PICK n \in Nat : DOMAIN old = 1 .. n
    BY <1>5 DEF IsManifest, IsList
  <2> QED BY <2>1 DEF IsList
<1> HIDE DEF new
<1>8. IsPoint(points'[p])
  BY <1>4, <1>6, <1>7 DEF IsPoint, IsManifest
<1> QED BY <1>1, <1>3, <1>4, <1>6, <1>7, <1>8 DEF at

\* An attach finds each original again, or leaves the point alone.
LEMMA TypeAttach == ASSUME TInv, NEW p \in DOMAIN points, Attach(p) PROVE TInv'
<1>1. UNCHANGED <<case, disk, media, sidecars, job, revert, forge, promised, used>>
  BY DEF Attach
<1> DEFINE m == points'[p].manifest
<1>2. /\ DOMAIN points' = DOMAIN points
      /\ \A x \in DOMAIN points : x # p => points'[x] = points[x]
      /\ IsPoint(points'[p]) /\ points'[p].file = media /\ points'[p].print = points[p].print
      /\ \A i \in DOMAIN m : m[i].processed # 0 \/ m[i].sidecar # 0
  BY AttachedFits
<1>3. ASSUME NEW x \in DOMAIN points' PROVE PointOK(points[x])'
  <2>1. PointOK(points[x]) /\ media \in Nat
    BY <1>2 DEF TInv, PointsFit, Counted
  <2>2. CASE x = p
    <3>1. media \in 0 .. media
      BY <2>1
    <3> QED BY <1>1, <1>2, <2>1, <2>2, <3>1 DEF PointOK, Found
  <2>3. CASE x # p
    BY <1>1, <1>2, <2>1, <2>3 DEF PointOK
  <2> QED BY <2>2, <2>3
<1>4. PointsFit'
  BY <1>2, <1>3 DEF TInv, PointsFit
<1>5. Counted' /\ DiskTyped' /\ JobTyped' /\ RevertTyped' /\ OneAtATime' /\ ForgeTyped'
  BY <1>1 DEF TInv, Counted, DiskTyped, JobTyped, RevertTyped, OneAtATime, ForgeTyped
<1> QED BY <1>4, <1>5 DEF TInv

\* Each step that leaves the file and what a run made of it alone.
LEMMA TypeRest ==
    ASSUME TInv,
           \/ SettleForgeUndo \/ Fail \/ StopForChange \/ Cancel \/ Crash
           \/ RefuseRevert \/ EndRevert
           \/ \E doomed \in SUBSET DOMAIN points : Discard(doomed) \/ Sweep(doomed)
    PROVE  TInv'
<1> DEFINE Fewer(f, g) == \A p \in DOMAIN f : p \in DOMAIN g /\ f[p] = g[p]
<1>1. ASSUME NEW S PROVE Fewer(Without(points, S), points)
  BY DEF Without
<1>2. ForgeTyped /\ Counted /\ Fewer(points, points)
  BY DEF TInv
<1>3. ASSUME case' = case, media' = media, used' = used PROVE Counted'
  BY <1>2, <1>3 DEF Counted
<1>4. ASSUME forge' = forge PROVE ForgeTyped'
  BY <1>2, <1>4 DEF ForgeTyped
<1>5. CASE SettleForgeUndo
  <2>1. forge' \in {"undone", "undo_failed"}
        /\ UNCHANGED <<case, disk, media, points, sidecars, job, revert, promised, used>>
    BY <1>5 DEF SettleForgeUndo
  <2>2. ForgeTyped'
    BY <2>1 DEF ForgeTyped
  <2> QED BY <1>2, <1>3, <2>1, <2>2, TypeQuiet
<1>6. CASE Fail \/ Cancel
  <2>1. Trouble /\ job' = None /\ UNCHANGED <<case, disk, media, points, revert, forge>>
    BY <1>6 DEF Fail, Cancel
  <2>2. Counted' /\ used'.stamps = used.stamps
    BY <2>1, TroubleFits
  <2> QED BY <1>2, <1>4, <2>1, <2>2, TypeQuiet
<1>7. CASE StopForChange
  <2>1. job' = None /\ UNCHANGED <<case, disk, media, points, revert, forge, used>>
    BY <1>7 DEF StopForChange
  <2> QED BY <1>2, <1>3, <1>4, <2>1, TypeQuiet
<1>8. CASE Crash
  <2>1. Trouble /\ job' = None /\ revert' = None
        /\ UNCHANGED <<case, disk, media, points, forge>>
    BY <1>8 DEF Crash
  <2>2. Counted' /\ used'.stamps = used.stamps
    BY <2>1, TroubleFits
  <2> QED BY <1>2, <1>4, <2>1, <2>2, TypeQuiet
<1>9. CASE RefuseRevert
  <2>1. revert' = None /\ UNCHANGED <<case, disk, media, points, job, forge>>
        /\ (used' = used \/ Trouble)
    BY <1>9 DEF RefuseRevert
  <2>2. Counted' /\ used'.stamps = used.stamps
    BY <1>3, <2>1, TroubleFits
  <2> QED BY <1>2, <1>4, <2>1, <2>2, TypeQuiet
<1>10. CASE EndRevert
  <2>1. revert' = None /\ UNCHANGED <<case, disk, media, job, used>>
        /\ points' = Without(points, Existing) /\ forge' \in {forge, "undone"}
    BY <1>10 DEF EndRevert
  <2>2. ForgeTyped' /\ Counted'
    BY <1>2, <1>3, <2>1 DEF ForgeTyped
  <2>3. Fewer(points', points)
    BY <1>1, <2>1
  <2> QED BY <2>1, <2>2, <2>3, TypeQuiet
<1>11. ASSUME NEW doomed \in SUBSET DOMAIN points, Discard(doomed) \/ Sweep(doomed)
       PROVE  TInv'
  <2>1. /\ UNCHANGED <<case, disk, media, job, revert, forge>>
        /\ points' = Without(points, doomed)
        /\ \/ used' = used
           \/ used.dropped < MaxDropped /\ used' = [used EXCEPT !.dropped = @ + 1]
    BY <1>11 DEF Discard, Sweep
  <2>2. Counted' /\ used'.stamps = used.stamps
    BY <1>3, <2>1, DroppedFits
  <2>3. Fewer(points', points)
    BY <1>1, <2>1
  <2> QED BY <1>4, <2>1, <2>2, <2>3, TypeQuiet
<1> QED BY <1>5, <1>6, <1>7, <1>8, <1>9, <1>10, <1>11

\* A run that goes on without a point, or loses it.
LEMMA TypeWithout == ASSUME TInv, GoWithout \/ RecordFails PROVE TInv'
<1>1. /\ job # None /\ Trouble /\ UNCHANGED <<case, disk, media, points, revert, forge>>
      /\ \/ job' = [job EXCEPT !.pc = "captured"]
         \/ job.pc = "swapped" /\ job' = [job EXCEPT !.point = {}]
  BY DEF GoWithout, RecordFails, None
<1>2. DOMAIN job = {"pc", "kind", "name", "input", "output", "reencoded", "extend", "point"}
  BY <1>1 DEF TInv, JobTyped
<1>3. /\ DOMAIN job' = DOMAIN job /\ job'.pc \in {"captured", "swapped"}
      /\ job'.input = job.input /\ job'.output = job.output /\ job'.point \subseteq job.point
  BY <1>1, <1>2
<1>4. Counted' /\ used'.stamps = used.stamps
  BY <1>1, TroubleFits
<1> QED BY <1>1, <1>3, <1>4, TypeGoesOn

\* So no step breaks the types.
LEMMA TypeStep == TInv /\ [Next]_vars => TInv'
<1> SUFFICES ASSUME TInv, [Next]_vars PROVE TInv'
  OBVIOUS
<1>1. CASE Next
  <2>1. ASSUME NEW p \in DOMAIN points, StartRevert(p) \/ Attach(p) PROVE TInv'
    BY <2>1, TypeStartRevert, TypeAttach
  <2> QED BY <1>1, <2>1, TypeBegins, TypeRest, TypeCapture, TypeWithout, TypeSwap,
             TypeRecord,
             TypeSwapRevert, TypeReplaced, TypeRenamed DEF Next
<1>2. CASE UNCHANGED vars
  BY <1>2 DEF vars, TInv, PointsFit, PointOK, DiskTyped, Counted, JobTyped, RevertTyped,
             OneAtATime, ForgeTyped
<1> QED BY <1>1, <1>2

\* What a point says is what the file's history allows, in every reachable state:
\* each original is somewhere, and no run and revert are under way together.
THEOREM TypeCorrect == Spec => []TypeOK
<1>1. TInv => TypeOK
  BY DEF TInv, PointsFit, PointOK, Found, Counted, OneAtATime, ForgeTyped, TypeOK
<1> QED BY <1>1, TypeInit, TypeStep, PTL DEF Spec

-----------------------------------------------------------------------------
(* Where the streams of an original are.                                   *)

\* A stream is at its place, as far as the fields of `key` tell.
Held(streams, k, s, key) == k \in DOMAIN streams /\ Agree(streams[k], s, key)

\* A point: in its sidecar while that is there, in the file while it is the one
\* the point describes.
PointHolds(q, key) ==
    \A i \in DOMAIN q.manifest :
        /\ q.manifest[i].sidecar # 0 /\ q.sidecar \in DOMAIN sidecars =>
              Held(sidecars[q.sidecar], q.manifest[i].sidecar, q.manifest[i].s, key)
        /\ q.manifest[i].sidecar = 0 /\ q.print = disk.stamp =>
              Held(disk.streams, q.manifest[i].processed, q.manifest[i].s, key)

\* A capture: in the sidecar it wrote, or in the file its run is to leave.
CaptureHolds(c, output, key) ==
    /\ c.name \in DOMAIN sidecars => sidecars[c.name] = c.streams
    /\ \A i \in DOMAIN c.manifest :
          /\ c.manifest[i].sidecar # 0 =>
                Held(c.streams, c.manifest[i].sidecar, c.manifest[i].s, key)
          /\ c.manifest[i].sidecar = 0 =>
                Held(output, c.manifest[i].processed, c.manifest[i].s, key)

Holds(key) ==
    /\ \A p \in DOMAIN points : PointHolds(points[p], key)
    /\ job # None => \A c \in job.point : CaptureHolds(c, job.output, key)

\* What a capture, or an attach, is about to pair agrees on `key`.
PairsRight(key) ==
    /\ job.pc = "made" /\ ~Changed =>
          LET m == CapturedOf(job).manifest
          IN  \A i \in DOMAIN m :
                 m[i].sidecar = 0 => Held(job.output, m[i].processed, m[i].s, key)
    /\ \A p \in DOMAIN points : points[p].file = 0 /\ points[p].print = disk.stamp =>
          LET m == points[p].manifest
              at == MatchStreams(Originals(m), disk.streams)
          IN  \A i \in DOMAIN m : m[i].sidecar = 0 /\ at[i] # 0 =>
                 Held(disk.streams, at[i], m[i].s, key)

\* A point's sidecar is older than the run under way, whose own has its name.
NamesOlder ==
    /\ \A p \in DOMAIN points :
          /\ points[p].sidecar[2] \in Nat /\ points[p].sidecar[2] <= used.jobs
          /\ job # None => points[p].sidecar[2] < job.name[2]
    /\ job # None => job.name[2] = used.jobs /\ \A c \in job.point : c.name = job.name

\* A run that is let through has read the file as it is, or has just written it.
InputRead ==
    /\ job.pc \in {"made", "captured"} =>
          (job.kind # "queue" \/ job.input.stamp = disk.stamp => job.input = disk)
    /\ job.pc = "swapped" => disk.streams = job.output

\* Steps that only throw away, or let a run go on as it is.
Quiet ==
    /\ disk' = disk /\ used'.jobs = used.jobs /\ used'.stamps = used.stamps
    /\ \A p \in DOMAIN points' : p \in DOMAIN points /\ points'[p] = points[p]
    /\ \A n \in DOMAIN sidecars' : n \in DOMAIN sidecars /\ sidecars'[n] = sidecars[n]
    /\ \/ job' = None
       \/ /\ job # None /\ job'.name = job.name /\ job'.kind = job.kind
          /\ job'.input = job.input /\ job'.output = job.output
          /\ job'.point \subseteq job.point
          /\ job'.pc = job.pc \/ (job.pc = "made" /\ job'.pc = "captured")
    /\ revert' \in {revert, None}

\* Every step is quiet or one of these.
LEMMA StepFits ==
    ASSUME TInv, [Next]_vars
    PROVE  \/ Quiet \/ Begun \/ Capture \/ Swap \/ (Record /\ job.point # {}) \/ Replaced
           \/ SwapRevert \/ Renamed \/ \E p \in DOMAIN points : StartRevert(p) \/ Attach(p)
<1> DEFINE Fewer(f, g) == \A x \in DOMAIN f : x \in DOMAIN g /\ f[x] = g[x]
<1>1. ASSUME NEW f, NEW S PROVE Fewer(Without(f, S), f) /\ Fewer(f, f)
  BY DEF Without
<1>2. ASSUME Trouble, media' = media, case' = case
      PROVE  used'.stamps = used.stamps /\ used'.jobs = used.jobs
  BY <1>2, TroubleFits
<1>3. CASE UNCHANGED vars \/ SettleForgeUndo \/ StopForChange
  <2>1. /\ UNCHANGED <<disk, points, revert, used>> /\ job' \in {job, None}
        /\ sidecars' = sidecars \/ sidecars' = Without(sidecars, Leftover)
    BY <1>3 DEF vars, SettleForgeUndo, StopForChange
  <2>2. Fewer(sidecars', sidecars)
    BY <1>1, <2>1
  <2> QED BY <2>1, <2>2 DEF Quiet
<1>4. CASE Fail \/ Cancel \/ Crash
  <2>1. /\ Trouble /\ UNCHANGED <<case, disk, media, points>> /\ job' = None
        /\ revert' \in {revert, None}
        /\ sidecars' = sidecars \/ sidecars' = Without(sidecars, Leftover)
    BY <1>4 DEF Fail, Cancel, Crash
  <2>2. Fewer(sidecars', sidecars)
    BY <1>1, <2>1
  <2> QED BY <1>2, <2>1, <2>2 DEF Quiet
<1>5. CASE RefuseRevert
  <2>1. /\ used' = used \/ Trouble
        /\ UNCHANGED <<case, disk, media, points, sidecars, job>> /\ revert' = None
    BY <1>5 DEF RefuseRevert
  <2> QED BY <1>2, <2>1 DEF Quiet
<1>6. CASE EndRevert
  <2>1. /\ UNCHANGED <<disk, job, used>> /\ revert' = None
        /\ points' = Without(points, Existing)
        /\ \E S : sidecars' = Without(sidecars, S)
    BY <1>6 DEF EndRevert
  <2>2. Fewer(points', points) /\ Fewer(sidecars', sidecars)
    BY <1>1, <2>1
  <2> QED BY <2>1, <2>2 DEF Quiet
<1>7. ASSUME NEW doomed \in SUBSET DOMAIN points, Discard(doomed) \/ Sweep(doomed)
      PROVE  Quiet
  <2>1. /\ UNCHANGED <<case, media, disk, job, revert>> /\ points' = Without(points, doomed)
        /\ \E S : sidecars' = Without(sidecars, S)
        /\ \/ used' = used
           \/ used.dropped < MaxDropped /\ used' = [used EXCEPT !.dropped = @ + 1]
    BY <1>7 DEF Discard, Sweep
  <2>2. Fewer(points', points) /\ Fewer(sidecars', sidecars)
    BY <1>1, <2>1
  <2>3. used'.stamps = used.stamps /\ used'.jobs = used.jobs
    BY <2>1, DroppedFits
  <2> QED BY <2>1, <2>2, <2>3 DEF Quiet
<1>8. CASE GoWithout \/ RecordFails
  <2>1. /\ job # None /\ Trouble /\ UNCHANGED <<case, disk, media, points, revert>>
        /\ \/ job.pc = "made" /\ job' = [job EXCEPT !.pc = "captured"] /\ sidecars' = sidecars
           \/ job' = [job EXCEPT !.point = {}] /\ \E S : sidecars' = Without(sidecars, S)
    BY <1>8 DEF GoWithout, RecordFails, None
  <2>2. DOMAIN job = {"pc", "kind", "name", "input", "output", "reencoded", "extend", "point"}
    BY <2>1 DEF TInv, JobTyped
  <2>3. /\ job'.name = job.name /\ job'.kind = job.kind
        /\ job'.input = job.input /\ job'.output = job.output
        /\ job'.point \subseteq job.point
        /\ job'.pc = job.pc \/ (job.pc = "made" /\ job'.pc = "captured")
    BY <2>1, <2>2
  <2>4. Fewer(sidecars', sidecars)
    BY <1>1, <2>1
  <2> QED BY <1>2, <2>1, <2>3, <2>4 DEF Quiet
<1>9. CASE Record /\ job.point = {}
  <2>1. UNCHANGED <<disk, used, revert, points, sidecars>> /\ job' = None
    BY <1>9 DEF Record
  <2> QED BY <2>1 DEF Quiet
<1>10. CASE BeginQueueJob \/ BeginForgeAdd \/ BeginForgeUndo
  BY <1>10, TypeBegins
<1> QED BY <1>3, <1>4, <1>5, <1>6, <1>7, <1>8, <1>9, <1>10 DEF Next

\* What the steps that are not quiet do with the run, the points and the volume.
LEMMA CaptureDoes ==
    ASSUME TInv, Capture
    PROVE  LET c == CapturedOf(job)
           IN  /\ job # None /\ job.pc = "made" /\ ~Changed
               /\ UNCHANGED <<case, disk, media, points, revert, used>>
               /\ job'.pc = "captured" /\ job'.kind = job.kind /\ job'.name = job.name
               /\ job'.input = job.input /\ job'.output = job.output
               /\ promised' = promised /\ job'.extend = (c.extend /\ ~c.fonts)
               /\ \/ ~c.anything /\ job'.point = {} /\ sidecars' = sidecars
                  \/ job'.point = {c} /\ sidecars' = With(sidecars, c.name, c.streams)
<1> DEFINE c == CapturedOf(job)
<1>1. /\ job # None /\ job.pc = "made" /\ ~Changed
      /\ job' = [job EXCEPT !.pc = "captured", !.extend = c.extend /\ ~c.fonts,
                            !.point = IF c.anything THEN {c} ELSE {}]
      /\ sidecars' = IF c.anything THEN With(sidecars, c.name, c.streams) ELSE sidecars
      /\ UNCHANGED <<case, disk, media, points, revert, promised, used>>
  BY DEF Capture, None
<1> HIDE DEF c
<1>2. DOMAIN job = {"pc", "kind", "name", "input", "output", "reencoded", "extend", "point"}
  BY <1>1 DEF TInv, JobTyped
<1>3. /\ job'.pc = "captured" /\ job'.kind = job.kind /\ job'.name = job.name
      /\ job'.input = job.input /\ job'.output = job.output
      /\ job'.point = (IF c.anything THEN {c} ELSE {})
      /\ job'.extend = (c.extend /\ ~c.fonts)
  BY <1>1, <1>2
<1> QED BY <1>1, <1>3 DEF c

\* The output of the run becomes the file.
LEMMA SwapDoes ==
    ASSUME TInv, Swap
    PROVE  /\ job # None /\ job.pc = "captured" /\ ~Changed /\ revert' = revert
           /\ UNCHANGED <<case, media, points, sidecars>>
           /\ used'.jobs = used.jobs /\ disk'.streams = job.output
           /\ disk'.stamp = used.stamps + 1
           /\ job'.pc = "swapped" /\ job'.kind = job.kind /\ job'.name = job.name
           /\ job'.input = job.input /\ job'.output = job.output /\ job'.point = job.point
<1>1. /\ job # None /\ job.pc = "captured" /\ ~Changed /\ NewDisk(job.output)
      /\ job' = [job EXCEPT !.pc = "swapped"]
      /\ UNCHANGED <<case, media, points, sidecars, revert>>
  BY DEF Swap, None
<1>2. used'.jobs = used.jobs /\ disk'.streams = job.output /\ disk'.stamp = used.stamps + 1
  BY <1>1, NewDiskFits
<1>3. DOMAIN job = {"pc", "kind", "name", "input", "output", "reencoded", "extend", "point"}
  BY <1>1 DEF TInv, JobTyped
<1>4. /\ job'.pc = "swapped" /\ job'.kind = job.kind /\ job'.name = job.name
      /\ job'.input = job.input /\ job'.output = job.output /\ job'.point = job.point
  BY <1>1, <1>3
<1> QED BY <1>1, <1>2, <1>4

\* The file is changed, but not by a run.
LEMMA ElseDoes ==
    ASSUME TInv, Replaced \/ SwapRevert
    PROVE  /\ UNCHANGED <<case, media, points, sidecars, job>>
           /\ used'.jobs = used.jobs /\ disk'.stamp = used.stamps + 1
<1>1. CASE Replaced
  <2>1. used \in [jobs : Nat, dropped : Nat, troubles : Nat, stamps : Nat]
    BY DEF TInv, Counted
  <2>2. used' = [used EXCEPT !.troubles = @ + 1, !.stamps = @ + 1]
    BY <1>1 DEF Replaced
  <2>3. used'.jobs = used.jobs
    BY <2>1, <2>2
  <2> QED BY <1>1, <2>3 DEF Replaced
<1>2. CASE SwapRevert
  <2>1. NewDisk(revert.output) /\ UNCHANGED <<case, media, points, sidecars, job>>
    BY <1>2 DEF SwapRevert
  <2> QED BY <2>1, NewDiskFits
<1> QED BY <1>1, <1>2

\* The other steps leave the file alone.
LEMMA RestDoes ==
    ASSUME TInv, Renamed \/ \E p \in DOMAIN points : StartRevert(p) \/ Attach(p)
    PROVE  /\ UNCHANGED <<case, disk, sidecars, job>>
           /\ used'.jobs = used.jobs /\ DOMAIN points' = DOMAIN points
           /\ \A p \in DOMAIN points :
                 points'[p].sidecar = points[p].sidecar /\ points'[p].print = points[p].print
<1>1. \A p \in DOMAIN points : DOMAIN points[p] = {"file", "sidecar", "manifest", "print"}
  BY DEF TInv, PointsFit, PointOK, IsPoint
<1>2. CASE Renamed
  <2>1. /\ UNCHANGED <<case, disk, sidecars, job>> /\ Trouble /\ case' = case
        /\ points' = [p \in DOMAIN points |-> [points[p] EXCEPT !.file = 0]]
    BY <1>2 DEF Renamed
  <2>2. used \in [jobs : Nat, dropped : Nat, troubles : Nat, stamps : Nat]
    BY DEF TInv, Counted
  <2>3. used' = [used EXCEPT !.troubles = @ + 1]
    BY <2>1 DEF Trouble
  <2>4. used'.jobs = used.jobs
    BY <2>2, <2>3
  <2>5. ASSUME NEW p \in DOMAIN points
        PROVE  points'[p].sidecar = points[p].sidecar /\ points'[p].print = points[p].print
    BY <1>1, <2>1
  <2>6. DOMAIN points' = DOMAIN points
    BY <2>1
  <2> QED BY <2>1, <2>4, <2>5, <2>6
<1>3. ASSUME NEW p \in DOMAIN points, StartRevert(p)
      PROVE  UNCHANGED <<case, disk, sidecars, job, points, used>>
  BY <1>3 DEF StartRevert
<1>4. ASSUME NEW p \in DOMAIN points, Attach(p)
      PROVE  /\ UNCHANGED <<case, disk, sidecars, job, used>> /\ DOMAIN points' = DOMAIN points
             /\ \A x \in DOMAIN points :
                   points'[x].sidecar = points[x].sidecar /\ points'[x].print = points[x].print
  <2>1. UNCHANGED <<case, disk, sidecars, job, used>>
    BY <1>4 DEF Attach
  <2>2. /\ DOMAIN points' = DOMAIN points
        /\ \A x \in DOMAIN points : x # p => points'[x] = points[x]
        /\ points'[p].print = points[p].print /\ points'[p].sidecar = points[p].sidecar
    BY <1>4, AttachedFits
  <2> QED BY <2>1, <2>2
<1> QED BY <1>2, <1>3, <1>4

\* Names that do not come again put each sidecar before the run under way.
LEMMA NamesStep ==
    ASSUME ReusedIds = FALSE, TInv, NamesOlder, [Next]_vars PROVE NamesOlder'
<1>0. /\ used.jobs \in Nat
      /\ \A p \in DOMAIN points :
          /\ points[p].sidecar[2] \in Nat /\ points[p].sidecar[2] <= used.jobs
          /\ job # None => points[p].sidecar[2] < job.name[2]
      /\ job # None => job.name[2] = used.jobs /\ \A c \in job.point : c.name = job.name
  BY DEF NamesOlder, TInv, Counted
<1>1. CASE Quiet
  BY <1>0, <1>1 DEF Quiet, NamesOlder
<1>2. CASE Begun
  <2>1. PICK kind, name, output, reencoded :
            name \in Names(kind) /\ Begin(kind, name, output, reencoded)
    BY <1>2 DEF Begun
  <2>2. name[2] = used.jobs + 1
    BY <2>1 DEF Names
  <2>3. /\ points' = points /\ used' = [used EXCEPT !.jobs = @ + 1]
        /\ job' = [pc |-> "made", kind |-> kind, name |-> name, input |-> disk,
                   output |-> output, reencoded |-> reencoded,
                   extend |-> FALSE, point |-> {}]
    BY <2>1 DEF Begin
  <2>4. job'.name = name /\ job'.point = {}
    BY <2>3
  <2>5. used'.jobs = used.jobs + 1
    BY <2>3 DEF TInv, Counted
  <2>6. ASSUME NEW p \in DOMAIN points'
        PROVE  /\ points'[p].sidecar[2] \in Nat /\ points'[p].sidecar[2] <= used'.jobs
               /\ points'[p].sidecar[2] < job'.name[2]
    BY <1>0, <2>2, <2>3, <2>4, <2>5
  <2> QED BY <2>2, <2>4, <2>5, <2>6 DEF NamesOlder
<1>3. CASE Capture
  <2>1. CapturedOf(job).name = job.name
    BY <1>3, CaptureDoes, CapturedOfFits
  <2>2. /\ job # None /\ points' = points /\ used' = used /\ job'.name = job.name
        /\ job'.point = {} \/ job'.point = {CapturedOf(job)}
    BY <1>3, CaptureDoes
  <2>3. \A c \in job'.point : c.name = job.name
    BY <2>1, <2>2
  <2> QED BY <1>0, <2>2, <2>3 DEF NamesOlder
<1>4. CASE Swap
  BY <1>0, <1>4, SwapDoes DEF NamesOlder
<1>5. CASE Record /\ job.point # {}
  <2>1. PICK c \in job.point, p \in Nat,
             file \in {media} \cup {points[x].file : x \in DOMAIN points} :
            points' = With(points, p, [file |-> file, sidecar |-> c.name,
                                       manifest |-> c.manifest, print |-> disk.stamp])
    BY <1>5, RecordWrites
  <2>2. job # None /\ job' = None /\ used' = used
    BY <1>5 DEF Record, None
  <2>3. c.name[2] = used.jobs
    BY <1>0, <2>2
  <2>4. DOMAIN points' = DOMAIN points \cup {p} /\ points'[p].sidecar = c.name
        /\ \A x \in DOMAIN points : x # p => points'[x] = points[x]
    BY <2>1 DEF With
  <2>5. ASSUME NEW x \in DOMAIN points'
        PROVE  points'[x].sidecar[2] \in Nat /\ points'[x].sidecar[2] <= used'.jobs
    <3>1. CASE x = p
      BY <1>0, <2>2, <2>3, <2>4, <3>1
    <3>2. CASE x # p
      BY <1>0, <2>2, <2>4, <3>2
    <3> QED BY <3>1, <3>2
  <2> QED BY <2>2, <2>5 DEF NamesOlder
<1>6. CASE Replaced \/ SwapRevert
  BY <1>0, <1>6, ElseDoes DEF NamesOlder
<1>7. CASE Renamed \/ \E p \in DOMAIN points : StartRevert(p) \/ Attach(p)
  BY <1>0, <1>7, RestDoes DEF NamesOlder
<1> QED BY <1>1, <1>2, <1>3, <1>4, <1>5, <1>6, <1>7, StepFits

\* No upgrade goes unseen by a queue job, or lands under a forge run, or between
\* a swap and its record.
LEMMA ReadStep ==
    ASSUME Gaps = FALSE, TInv, InputRead, [Next]_vars PROVE InputRead'
<1>0. used.stamps \in Nat /\ (job # None => job.input.stamp \in 1 .. used.stamps)
  BY DEF TInv, Counted, JobTyped
<1>1. CASE Quiet
  BY <1>1 DEF Quiet, InputRead, None
<1>2. CASE Begun
  <2>1. PICK kind, name, output, reencoded : Begin(kind, name, output, reencoded)
    BY <1>2 DEF Begun
  <2>2. disk' = disk /\ job'.input = disk /\ job'.pc = "made"
    BY <2>1 DEF Begin
  <2> QED BY <2>2 DEF InputRead
<1>3. CASE Capture
  BY <1>3, CaptureDoes DEF InputRead
<1>4. CASE Swap
  BY <1>4, SwapDoes DEF InputRead
<1>5. CASE Record /\ job.point # {}
  BY <1>5 DEF Record, InputRead, None
<1>6. CASE Replaced
  <2>1. /\ job.pc \in {"made", "captured"} => job.kind = "queue"
        /\ job.pc # "swapped"
    BY <1>6 DEF Replaced
  <2>2. job' = job /\ disk'.stamp = used.stamps + 1
    BY <1>6, ElseDoes
  <2>3. job # None => job.input.stamp # disk'.stamp
    BY <1>0, <2>2
  <2> QED BY <2>1, <2>2, <2>3 DEF InputRead, None
<1>7. CASE SwapRevert
  <2>1. revert # None /\ job' = job
    BY <1>7 DEF SwapRevert, None
  <2>2. job = None
    BY <2>1 DEF TInv, OneAtATime
  <2> QED BY <2>1, <2>2 DEF InputRead, None
<1>8. CASE Renamed \/ \E p \in DOMAIN points : StartRevert(p) \/ Attach(p)
  BY <1>8, RestDoes DEF InputRead
<1> QED BY <1>1, <1>2, <1>3, <1>4, <1>5, <1>6, <1>7, <1>8, StepFits

\* A capture from the file as it is takes each stream that is lost from the file or
\* a sidecar, where its point had it.
LEMMA TakenAgrees ==
    ASSUME TInv, NEW key, Holds(key), NEW i \in DOMAIN Base(disk.streams)
    PROVE  /\ Agree(Taken(disk.streams, i), Base(disk.streams)[i].s, key)
           /\ \/ \E k \in DOMAIN disk.streams : Taken(disk.streams, i) = disk.streams[k]
              \/ \E n \in DOMAIN sidecars : \E k \in DOMAIN sidecars[n] :
                    Taken(disk.streams, i) = sidecars[n][k]
<1>1. CASE Extendable # {}
  <2>1. Extended \in Extendable
    BY <1>1 DEF Extended
  <2>2. /\ Extended \in DOMAIN points /\ points[Extended].print = disk.stamp
        /\ points[Extended].sidecar \in DOMAIN sidecars
    BY <2>1 DEF Extendable, Existing, Blocked
  <2> DEFINE q == points[Extended]
             e == q.manifest[i]
  <2>3. Base(disk.streams) = q.manifest
    BY <1>1 DEF Base
  <2>4. PointHolds(q, key) /\ (e.processed # 0 \/ e.sidecar # 0)
    BY <2>2, <2>3 DEF Holds, TInv, PointsFit, PointOK, Found
  <2>5. CASE e.sidecar # 0
    <3>1. Source(q.manifest, i, Extendable # {}) = <<"sidecar", e.sidecar>>
      BY <1>1, <2>5 DEF Source
    <3>2. Taken(disk.streams, i) = sidecars[q.sidecar][e.sidecar]
      BY <1>1, <2>3, <3>1 DEF Taken
    <3>3. Held(sidecars[q.sidecar], e.sidecar, e.s, key)
      BY <2>2, <2>3, <2>4, <2>5 DEF PointHolds
    <3> QED BY <2>2, <2>3, <3>2, <3>3 DEF Held
  <2>6. CASE e.sidecar = 0
    <3>1. Source(q.manifest, i, Extendable # {}) = <<"file", e.processed>>
      BY <2>4, <2>6 DEF Source
    <3>2. Taken(disk.streams, i) = disk.streams[e.processed]
      BY <1>1, <2>3, <3>1 DEF Taken
    <3>3. Held(disk.streams, e.processed, e.s, key)
      BY <2>2, <2>3, <2>4, <2>6 DEF PointHolds
    <3> QED BY <2>3, <3>2, <3>3 DEF Held
  <2> QED BY <2>5, <2>6
<1>2. CASE Extendable = {}
  <2>1. Base(disk.streams) = Manifest(disk.streams)
    BY <1>2 DEF Base
  <2>2. /\ i \in DOMAIN disk.streams /\ Manifest(disk.streams)[i].s = disk.streams[i]
        /\ Manifest(disk.streams)[i].processed = 0
    BY <2>1 DEF Manifest
  <2>3. Source(Manifest(disk.streams), i, Extendable # {}) = <<"file", i>>
    BY <1>2, <2>2 DEF Source
  <2>4. Taken(disk.streams, i) = disk.streams[i]
    BY <1>2, <2>1, <2>3 DEF Taken
  <2> QED BY <2>1, <2>2, <2>4 DEF Agree
<1> QED BY <1>1, <1>2

\* A capture that pairs what agrees holds what agrees.
LEMMA CaptureAgrees ==
    ASSUME TInv, InputRead, NEW key, Holds(key), PairsRight(key), Capture
    PROVE  LET c == CapturedOf(job)
           IN  \A i \in DOMAIN c.manifest :
                  /\ c.manifest[i].sidecar # 0 =>
                        Held(c.streams, c.manifest[i].sidecar, c.manifest[i].s, key)
                  /\ c.manifest[i].sidecar = 0 =>
                        Held(job.output, c.manifest[i].processed, c.manifest[i].s, key)
<1> DEFINE c == CapturedOf(job)
<1>1. job # None /\ job.pc = "made" /\ ~Changed
  BY CaptureDoes
<1>2. job.input = disk
  BY <1>1 DEF InputRead, Changed
<1>3. CaptureOf(c, disk.streams, job.output)
  BY <1>1, <1>2, CapturedOfFits
<1>4. \A i \in DOMAIN c.manifest :
         c.manifest[i].sidecar = 0 =>
             Held(job.output, c.manifest[i].processed, c.manifest[i].s, key)
  BY <1>1 DEF PairsRight
<1> HIDE DEF c
<1>5. ASSUME NEW i \in DOMAIN c.manifest, c.manifest[i].sidecar # 0
      PROVE  Held(c.streams, c.manifest[i].sidecar, c.manifest[i].s, key)
  <2>1. /\ i \in DOMAIN Base(disk.streams) /\ c.manifest[i].s = Base(disk.streams)[i].s
        /\ c.manifest[i].sidecar \in DOMAIN c.streams
        /\ c.streams[c.manifest[i].sidecar] = Taken(disk.streams, i)
    BY <1>3, <1>5 DEF CaptureOf
  <2> QED BY <2>1, TakenAgrees DEF Held
<1> QED BY <1>4, <1>5 DEF c

\* Pairing what agrees keeps every point, and every capture, agreeing.
LEMMA HoldsStep ==
    ASSUME TInv, NamesOlder, InputRead, NEW key, Holds(key), PairsRight(key), [Next]_vars
    PROVE  Holds(key)'
<1>0. /\ used.stamps \in Nat
      /\ \A p \in DOMAIN points : PointHolds(points[p], key) /\ points[p].print \in 1 .. used.stamps
      /\ job # None => \A c \in job.point : CaptureHolds(c, job.output, key)
  BY DEF Holds, TInv, Counted, PointsFit, PointOK
<1>1. CASE Quiet
  <2>1. ASSUME NEW p \in DOMAIN points' PROVE PointHolds(points[p], key)'
    <3>1. p \in DOMAIN points /\ points'[p] = points[p] /\ disk' = disk
          /\ \A n \in DOMAIN sidecars' : n \in DOMAIN sidecars /\ sidecars'[n] = sidecars[n]
      BY <1>1 DEF Quiet
    <3>2. PointHolds(points[p], key)
      BY <1>0, <3>1
    <3> QED BY <3>1, <3>2 DEF PointHolds
  <2>2. ASSUME job' # None, NEW c \in job'.point PROVE CaptureHolds(c, job.output, key)'
    <3>1. job # None /\ c \in job.point /\ job'.output = job.output
          /\ \A n \in DOMAIN sidecars' : n \in DOMAIN sidecars /\ sidecars'[n] = sidecars[n]
      BY <1>1, <2>2 DEF Quiet
    <3>2. CaptureHolds(c, job.output, key)
      BY <1>0, <3>1
    <3> QED BY <3>1, <3>2 DEF CaptureHolds
  <2> QED BY <2>1, <2>2 DEF Holds
<1>2. CASE Begun
  <2>1. PICK kind, name, output, reencoded : Begin(kind, name, output, reencoded)
    BY <1>2 DEF Begun
  <2>2. UNCHANGED <<disk, points, sidecars>> /\ job'.point = {}
    BY <2>1 DEF Begin
  <2>3. ASSUME NEW p \in DOMAIN points' PROVE PointHolds(points[p], key)'
    BY <1>0, <2>2 DEF PointHolds
  <2> QED BY <2>2, <2>3 DEF Holds
<1>3. CASE Capture
  <2> DEFINE c == CapturedOf(job)
  <2>1. /\ UNCHANGED <<disk, points>> /\ job # None /\ job'.output = job.output
        /\ \/ job'.point = {} /\ sidecars' = sidecars
           \/ job'.point = {c} /\ sidecars' = With(sidecars, c.name, c.streams)
    BY <1>3, CaptureDoes
  <2>2. \A i \in DOMAIN c.manifest :
           /\ c.manifest[i].sidecar # 0 =>
                 Held(c.streams, c.manifest[i].sidecar, c.manifest[i].s, key)
           /\ c.manifest[i].sidecar = 0 =>
                 Held(job.output, c.manifest[i].processed, c.manifest[i].s, key)
    BY <1>3, CaptureAgrees
  <2>3. c.name = job.name
    BY <2>1, CapturedOfFits
  <2>4. \A p \in DOMAIN points : points[p].sidecar # job.name
    BY <2>1 DEF NamesOlder
  <2> HIDE DEF c
  <2>5. ASSUME NEW p \in DOMAIN points' PROVE PointHolds(points[p], key)'
    <3>1. p \in DOMAIN points /\ points'[p] = points[p] /\ points[p].sidecar # c.name
      BY <2>1, <2>3, <2>4
    <3>2. points[p].sidecar \in DOMAIN sidecars' =>
              /\ points[p].sidecar \in DOMAIN sidecars
              /\ sidecars'[points[p].sidecar] = sidecars[points[p].sidecar]
      BY <2>1, <3>1 DEF With
    <3>3. PointHolds(points[p], key)
      BY <1>0, <3>1
    <3> QED BY <2>1, <3>1, <3>2, <3>3 DEF PointHolds
  <2>6. ASSUME NEW x \in job'.point PROVE CaptureHolds(x, job.output, key)'
    <3>1. x = c /\ sidecars'[c.name] = c.streams
      BY <2>1 DEF With
    <3> QED BY <2>1, <2>2, <3>1 DEF CaptureHolds
  <2> QED BY <2>5, <2>6 DEF Holds
<1>4. CASE Swap
  <2>1. /\ UNCHANGED <<points, sidecars>> /\ job # None /\ disk'.stamp = used.stamps + 1
        /\ job'.output = job.output /\ job'.point = job.point
    BY <1>4, SwapDoes
  <2>2. ASSUME NEW p \in DOMAIN points' PROVE PointHolds(points[p], key)'
    <3>1. PointHolds(points[p], key) /\ points[p].print # disk'.stamp /\ points'[p] = points[p]
      BY <1>0, <2>1
    <3> QED BY <2>1, <3>1 DEF PointHolds
  <2>3. ASSUME NEW c \in job'.point PROVE CaptureHolds(c, job.output, key)'
    BY <1>0, <2>1 DEF CaptureHolds
  <2> QED BY <2>2, <2>3 DEF Holds
<1>5. CASE Record /\ job.point # {}
  <2>1. PICK c \in job.point, p \in Nat,
             file \in {media} \cup {points[x].file : x \in DOMAIN points} :
            /\ points' = With(points, p, [file |-> file, sidecar |-> c.name,
                                          manifest |-> c.manifest, print |-> disk.stamp])
            /\ sidecars' = Without(sidecars, Superseded(c))
    BY <1>5, RecordWrites
  <2>2. job # None /\ job.pc = "swapped" /\ job' = None /\ disk' = disk
    BY <1>5 DEF Record, None
  <2>3. CaptureHolds(c, job.output, key) /\ disk.streams = job.output
    BY <1>0, <2>2 DEF InputRead
  <2>4. /\ DOMAIN points' = DOMAIN points \cup {p}
        /\ points'[p].sidecar = c.name /\ points'[p].manifest = c.manifest
        /\ \A x \in DOMAIN points : x # p => points'[x] = points[x]
    BY <2>1 DEF With
  <2>5. \A n \in DOMAIN sidecars' : n \in DOMAIN sidecars /\ sidecars'[n] = sidecars[n]
    BY <2>1 DEF Without
  <2>6. ASSUME NEW x \in DOMAIN points' PROVE PointHolds(points[x], key)'
    <3>1. CASE x = p
      <4>1. CaptureHolds(c, disk.streams, key)'
        BY <2>2, <2>3, <2>5 DEF CaptureHolds
      <4> QED BY <2>4, <3>1, <4>1 DEF CaptureHolds, PointHolds
    <3>2. CASE x # p
      <4>1. x \in DOMAIN points /\ points'[x] = points[x] /\ PointHolds(points[x], key)
        BY <1>0, <2>4, <3>2
      <4> QED BY <2>2, <2>5, <4>1 DEF PointHolds
    <3> QED BY <3>1, <3>2
  <2> QED BY <2>2, <2>6 DEF Holds
<1>6. CASE Replaced \/ SwapRevert
  <2>1. UNCHANGED <<points, sidecars, job>> /\ disk'.stamp = used.stamps + 1
    BY <1>6, ElseDoes
  <2>2. ASSUME NEW p \in DOMAIN points' PROVE PointHolds(points[p], key)'
    <3>1. PointHolds(points[p], key) /\ points[p].print # disk'.stamp /\ points'[p] = points[p]
      BY <1>0, <2>1
    <3> QED BY <2>1, <3>1 DEF PointHolds
  <2>3. ASSUME job' # None, NEW c \in job'.point PROVE CaptureHolds(c, job.output, key)'
    BY <1>0, <2>1, <2>3 DEF CaptureHolds
  <2> QED BY <2>2, <2>3 DEF Holds
<1>7. CASE Renamed \/ \E p \in DOMAIN points : StartRevert(p) \/ Attach(p)
  <2>1. /\ UNCHANGED <<disk, sidecars, job>> /\ DOMAIN points' = DOMAIN points
        /\ \A p \in DOMAIN points :
              points'[p].sidecar = points[p].sidecar /\ points'[p].print = points[p].print
    BY <1>7, RestDoes
  <2>2. ASSUME NEW p \in DOMAIN points,
               \/ points'[p].manifest = points[p].manifest
               \/ /\ points[p].print = disk.stamp /\ points[p].file = 0
                  /\ DOMAIN points'[p].manifest = DOMAIN points[p].manifest
                  /\ \A i \in DOMAIN points[p].manifest :
                        LET e == points[p].manifest[i]
                            new == points'[p].manifest[i]
                            at == MatchStreams(Originals(points[p].manifest), disk.streams)
                        IN  /\ new.s = e.s /\ new.sidecar = e.sidecar
                            /\ new.processed = at[i] /\ (at[i] # 0 \/ e.sidecar # 0)
        PROVE  PointHolds(points[p], key)'
    <3>1. PointHolds(points[p], key)
      BY <1>0
    <3>2. CASE points'[p].manifest = points[p].manifest
      BY <2>1, <3>1, <3>2 DEF PointHolds
    <3>3. CASE points'[p].manifest # points[p].manifest
      <4> DEFINE m == points[p].manifest
                 new == points'[p].manifest
                 at == MatchStreams(Originals(m), disk.streams)
      <4>1. /\ points[p].print = disk.stamp /\ points[p].file = 0 /\ DOMAIN new = DOMAIN m
            /\ \A i \in DOMAIN m : /\ new[i].s = m[i].s /\ new[i].sidecar = m[i].sidecar
                                   /\ new[i].processed = at[i] /\ (at[i] # 0 \/ m[i].sidecar # 0)
        BY <2>2, <3>3
      <4>2. \A i \in DOMAIN m : m[i].sidecar = 0 /\ at[i] # 0 =>
               Held(disk.streams, at[i], m[i].s, key)
        BY <4>1 DEF PairsRight
      <4> HIDE DEF at
      <4>3. ASSUME NEW i \in DOMAIN new
            PROVE  /\ new[i].sidecar # 0 /\ points[p].sidecar \in DOMAIN sidecars =>
                         Held(sidecars[points[p].sidecar], new[i].sidecar, new[i].s, key)
                   /\ new[i].sidecar = 0 =>
                         Held(disk.streams, new[i].processed, new[i].s, key)
        BY <3>1, <4>1, <4>2 DEF PointHolds
      <4> HIDE DEF m, new
      <4> QED BY <2>1, <4>3 DEF PointHolds, new
    <3> QED BY <3>2, <3>3
  <2>3. ASSUME NEW p \in DOMAIN points' PROVE PointHolds(points[p], key)'
    <3>1. CASE Renamed
      <4>1. points'[p] = [points[p] EXCEPT !.file = 0] /\ p \in DOMAIN points
        BY <2>1, <3>1 DEF Renamed
      <4>2. DOMAIN points[p] = {"file", "sidecar", "manifest", "print"}
        BY <4>1 DEF TInv, PointsFit, PointOK, IsPoint
      <4>3. points'[p].manifest = points[p].manifest
        BY <4>1, <4>2
      <4> QED BY <2>2, <4>1, <4>3
    <3>2. ASSUME NEW x \in DOMAIN points, StartRevert(x) PROVE PointHolds(points[p], key)'
      <4>1. points' = points
        BY <3>2 DEF StartRevert
      <4> QED BY <2>1, <2>2, <4>1
    <3>3. ASSUME NEW x \in DOMAIN points, Attach(x) PROVE PointHolds(points[p], key)'
      <4>1. CASE p # x
        BY <2>1, <2>2, <3>3, <4>1, AttachedFits
      <4>2. CASE p = x
        BY <2>1, <2>2, <3>3, <4>2, AttachedFits
      <4> QED BY <4>1, <4>2
    <3> QED BY <1>7, <3>1, <3>2, <3>3
  <2>4. ASSUME job' # None, NEW c \in job'.point PROVE CaptureHolds(c, job.output, key)'
    BY <1>0, <2>1, <2>4 DEF CaptureHolds
  <2> QED BY <2>3, <2>4 DEF Holds
<1> QED BY <1>1, <1>2, <1>3, <1>4, <1>5, <1>6, <1>7, StepFits

-----------------------------------------------------------------------------
(* Every place is there.                                                   *)

\* A pairing is always of streams of one type, codec and shape.
LEMMA PairsPayload == TInv => PairsRight(PayloadKey)
<1> SUFFICES ASSUME TInv PROVE PairsRight(PayloadKey)
  OBVIOUS
<1> DEFINE c == CapturedOf(job)
<1>1. ASSUME job.pc = "made", NEW i \in DOMAIN c.manifest, c.manifest[i].sidecar = 0
      PROVE  Held(job.output, c.manifest[i].processed, c.manifest[i].s, PayloadKey)
  <2> DEFINE input == job.input.streams
             m == Base(input)
             at == MatchStreams(Originals(m), job.output)
  <2>1. job # None
    BY <1>1 DEF None
  <2>2. IsFile(input) /\ IsFile(job.output) /\ \A p \in DOMAIN points : IsPoint(points[p])
    BY <2>1 DEF TInv, JobTyped, PointsFit, PointOK
  <2>3. CaptureOf(c, input, job.output)
    BY <2>1, CapturedOfFits
  <2>4. IsManifest(m)
    BY <2>2, BaseFits
  <2>5. /\ i \in DOMAIN m /\ c.manifest[i].s = m[i].s /\ c.manifest[i].processed # 0
        /\ c.manifest[i].processed = at[i]
    <3> HIDE DEF c
    <3> QED BY <1>1, <2>3 DEF CaptureOf
  <2> HIDE DEF c, m
  <2>6. IsFile(Originals(m)) /\ DOMAIN Originals(m) = DOMAIN m /\ Originals(m)[i] = m[i].s
    BY <2>4, <2>5, OriginalsFit
  <2>7. at[i] \in DOMAIN job.output /\ Agree(Originals(m)[i], job.output[at[i]], PayloadKey)
    BY <2>2, <2>5, <2>6, MatchesApart DEF IsFile
  <2> QED BY <2>5, <2>6, <2>7 DEF Held, Agree
<1>2. ASSUME NEW p \in DOMAIN points, NEW i \in DOMAIN points[p].manifest,
             MatchStreams(Originals(points[p].manifest), disk.streams)[i] # 0
      PROVE  Held(disk.streams, MatchStreams(Originals(points[p].manifest), disk.streams)[i],
                  points[p].manifest[i].s, PayloadKey)
  <2> DEFINE m == points[p].manifest
             at == MatchStreams(Originals(m), disk.streams)
  <2>1. IsManifest(m) /\ IsFile(disk.streams)
    BY DEF TInv, PointsFit, PointOK, IsPoint, DiskTyped
  <2>2. IsFile(Originals(m)) /\ DOMAIN Originals(m) = DOMAIN m /\ Originals(m)[i] = m[i].s
    BY <2>1, OriginalsFit
  <2> HIDE DEF m
  <2>3. at[i] \in DOMAIN disk.streams /\ Agree(Originals(m)[i], disk.streams[at[i]], PayloadKey)
    BY <1>2, <2>1, <2>2, MatchesApart DEF IsFile, m
  <2> QED BY <2>2, <2>3 DEF Held, Agree, m
<1> QED BY <1>1, <1>2 DEF PairsRight

\* The invariant of the steps, for what the pairing preserves.
Inv(key) == TInv /\ NamesOlder /\ InputRead /\ Holds(key)

\* It holds at the start, of every key,
LEMMA InvInit == ASSUME NEW key PROVE Init => Inv(key)
<1> SUFFICES ASSUME Init PROVE Inv(key)
  OBVIOUS
<1>1. TInv
  BY TypeInit
<1>2. DOMAIN points = {} /\ job = None
  BY DEF Init
<1> QED BY <1>1, <1>2 DEF Inv, NamesOlder, InputRead, Holds, None

\* and every step from a state whose pairs are right keeps it.
LEMMA InvStep ==
    ASSUME ReusedIds = FALSE, Gaps = FALSE, NEW key
    PROVE  Inv(key) /\ PairsRight(key) /\ [Next]_vars => Inv(key)'
<1> SUFFICES ASSUME Inv(key), PairsRight(key), [Next]_vars PROVE Inv(key)'
  OBVIOUS
<1>1. TInv /\ NamesOlder /\ InputRead /\ Holds(key)
  BY DEF Inv
<1> QED BY <1>1, TypeStep, NamesStep, ReadStep, HoldsStep DEF Inv

\* What a revert takes a stream from, as `build_restore_command` maps it.
PlacesHold ==
    \A p \in DOMAIN points : Offered(p) =>
        \A i \in DOMAIN points[p].manifest :
            LET e == points[p].manifest[i]
            IN  IF e.sidecar # 0
                THEN Held(sidecars[points[p].sidecar], e.sidecar, e.s, PayloadKey)
                ELSE Held(disk.streams, e.processed, e.s, PayloadKey)

\* A point that is not blocked has every original at its place.
LEMMA UnblockedHeld ==
    ASSUME NEW key, Holds(key), NEW p \in DOMAIN points, ~Blocked(p),
           NEW i \in DOMAIN points[p].manifest
    PROVE  LET e == points[p].manifest[i]
           IN  /\ points[p].sidecar \in DOMAIN sidecars
               /\ e.sidecar # 0 => Held(sidecars[points[p].sidecar], e.sidecar, e.s, key)
               /\ e.sidecar = 0 => Held(disk.streams, e.processed, e.s, key)
<1>1. points[p].sidecar \in DOMAIN sidecars /\ points[p].print = disk.stamp
  BY DEF Blocked
<1>2. PointHolds(points[p], key)
  BY DEF Holds
<1> QED BY <1>1, <1>2 DEF PointHolds

\* For every file and every history: a point that is offered names, for each of
\* the original's streams, one that is there, of its type, codec and shape, and a
\* revert never asks FFmpeg for a stream that is not.
THEOREM PlacesExist ==
    ASSUME ReusedIds = FALSE, Gaps = FALSE PROVE Spec => []PlacesHold
<1>1. Inv(PayloadKey) /\ [Next]_vars => Inv(PayloadKey)'
  BY InvStep, PairsPayload DEF Inv
<1>2. Inv(PayloadKey) => PlacesHold
  BY UnblockedHeld DEF Inv, PlacesHold, Offered
<1>3. Init => Inv(PayloadKey)
  BY InvInit
<1> QED BY <1>1, <1>2, <1>3, PTL DEF Spec

-----------------------------------------------------------------------------
(* A revert gives back the original.                                       *)

BytesKey == {"id", "lossy"}

\* The revert under way makes what its manifest says.
RevertMakes == revert # None => Real(revert.output) = Real(Originals(revert.manifest))

\* What the steps do with the revert.
LEMMA RevertDoes ==
    ASSUME TInv, [Next]_vars
    PROVE  \/ revert' \in {revert, None}
           \/ SwapRevert
           \/ \E p \in DOMAIN points : StartRevert(p)
<1>1. CASE Quiet
  BY <1>1 DEF Quiet
<1>2. CASE Begun
  BY <1>2 DEF Begun, Begin
<1>3. CASE Capture \/ Swap
  BY <1>3, CaptureDoes, SwapDoes
<1>4. CASE Record \/ Replaced \/ Renamed
  BY <1>4 DEF Record, Replaced, Renamed
<1>5. CASE \E p \in DOMAIN points : Attach(p)
  BY <1>5 DEF Attach
<1> QED BY <1>1, <1>2, <1>3, <1>4, <1>5, StepFits

\* The revert is swapped in as it was made.
LEMMA SwapRevertDoes ==
    ASSUME TInv, SwapRevert
    PROVE  /\ revert # None /\ disk'.streams = revert.output
           /\ revert'.output = revert.output /\ revert'.manifest = revert.manifest
           /\ revert'.stamp = revert.stamp /\ disk.stamp = revert.stamp
           /\ revert'.pc = "swapped"
<1>1. /\ revert # None /\ NewDisk(revert.output) /\ revert' = [revert EXCEPT !.pc = "swapped"]
      /\ disk.stamp = revert.stamp
  BY DEF SwapRevert, None
<1>2. DOMAIN revert = {"pc", "id", "output", "manifest", "stamp"}
  BY <1>1 DEF TInv, RevertTyped
<1>3. /\ revert'.output = revert.output /\ revert'.manifest = revert.manifest
      /\ revert'.pc = "swapped" /\ revert'.stamp = revert.stamp
  BY <1>1, <1>2
<1>4. disk'.streams = revert.output
  BY <1>1 DEF NewDisk
<1> QED BY <1>1, <1>3, <1>4

\* What is located is what the point holds.
LEMMA LocatedAgrees ==
    ASSUME NEW key, Holds(key), NEW p \in DOMAIN points, ~Blocked(p),
           NEW i \in DOMAIN points[p].manifest
    PROVE  /\ Agree(Located(p, i), points[p].manifest[i].s, key)
           /\ \/ \E k \in DOMAIN disk.streams : Located(p, i) = disk.streams[k]
              \/ \E n \in DOMAIN sidecars : \E k \in DOMAIN sidecars[n] :
                    Located(p, i) = sidecars[n][k]
<1> DEFINE e == points[p].manifest[i]
<1>1. /\ points[p].sidecar \in DOMAIN sidecars
      /\ e.sidecar # 0 => Held(sidecars[points[p].sidecar], e.sidecar, e.s, key)
      /\ e.sidecar = 0 => Held(disk.streams, e.processed, e.s, key)
  BY UnblockedHeld
<1>2. Located(p, i) = IF e.sidecar # 0 THEN sidecars[points[p].sidecar][e.sidecar]
                      ELSE disk.streams[e.processed]
  BY DEF Located
<1> HIDE DEF e
<1>3. CASE e.sidecar # 0
  BY <1>1, <1>2, <1>3 DEF Held, e
<1>4. CASE e.sidecar = 0
  BY <1>1, <1>2, <1>4 DEF Held, e
<1> QED BY <1>3, <1>4

\* So what a revert makes of a point is the original, byte for byte.
LEMMA RestoredReal ==
    ASSUME TInv, Holds(BytesKey), NEW p \in DOMAIN points, ~Blocked(p)
    PROVE  Real(Restored(p)) = Real(Originals(points[p].manifest))
<1> DEFINE m == points[p].manifest
<1>1. IsManifest(m)
  BY DEF TInv, PointsFit, PointOK, IsPoint
<1>2. /\ DOMAIN Restored(p) = DOMAIN m
      /\ \A i \in DOMAIN m : /\ Restored(p)[i].id = Located(p, i).id
                             /\ Restored(p)[i].lossy = Located(p, i).lossy
  BY <1>1, RestoredFits
<1>3. \A i \in DOMAIN m : Agree(Located(p, i), m[i].s, BytesKey)
  BY LocatedAgrees
<1>4. DOMAIN Originals(m) = DOMAIN m /\ \A i \in DOMAIN m : Originals(m)[i] = m[i].s
  BY <1>1, OriginalsFit
<1> HIDE DEF m
<1>5. ASSUME NEW i \in DOMAIN m
      PROVE  <<Restored(p)[i].id, Restored(p)[i].lossy>>
                 = <<Originals(m)[i].id, Originals(m)[i].lossy>>
  BY <1>2, <1>3, <1>4 DEF Agree, BytesKey
<1> QED BY <1>2, <1>4, <1>5 DEF Real, m

\* No step changes what the revert under way makes.
LEMMA RevertMakesStep ==
    ASSUME TInv, Holds(BytesKey), RevertMakes, [Next]_vars PROVE RevertMakes'
<1>1. CASE revert' \in {revert, None}
  BY <1>1 DEF RevertMakes
<1>2. CASE SwapRevert
  BY <1>2, SwapRevertDoes DEF RevertMakes
<1>3. ASSUME NEW p \in DOMAIN points, StartRevert(p) PROVE RevertMakes'
  <2>1. ~Blocked(p) /\ revert'.output = Restored(p) /\ revert'.manifest = points[p].manifest
    BY <1>3 DEF StartRevert, Offered
  <2> QED BY <2>1, RestoredReal DEF RevertMakes
<1> QED BY <1>1, <1>2, <1>3, RevertDoes

\* The step that swaps a revert in puts back what it made.
LEMMA SwapGivesBack ==
    ASSUME TInv, RevertMakes, [Next]_vars, revert.pc = "running", revert'.pc = "swapped"
    PROVE  Real(disk'.streams) = Real(Originals(revert.manifest))
<1>1. CASE revert' \in {revert, None}
  BY <1>1 DEF None
<1>2. CASE SwapRevert
  BY <1>2, SwapRevertDoes DEF RevertMakes
<1>3. CASE \E p \in DOMAIN points : StartRevert(p)
  BY <1>3 DEF StartRevert
<1> QED BY <1>1, <1>2, <1>3, RevertDoes

\* For every file, every history of jobs, forge runs, sweeps, renames and upgrades:
\* if what capture and attach pair by their looks is paired by its bytes, a revert
\* puts back the original, byte for byte and in its order.  So only a wrong pairing
\* of look-alikes can make a revert wrong.
THEOREM RevertIsRight ==
    ASSUME ReusedIds = FALSE, Gaps = FALSE
    PROVE  Spec /\ []PairsRight(BytesKey) => RevertGivesBack
<1> DEFINE All == Inv(BytesKey) /\ RevertMakes
<1>1. Init => All
  <2>1. Init => RevertMakes
    BY DEF Init, RevertMakes
  <2> QED BY <2>1, InvInit
<1>2. All /\ PairsRight(BytesKey) /\ [Next]_vars => All'
  BY InvStep, RevertMakesStep DEF Inv
<1>3. All /\ [Next]_vars =>
          [revert.pc = "running" /\ revert'.pc = "swapped"
              => Real(disk'.streams) = Real(Originals(revert.manifest))]_vars
  BY SwapGivesBack DEF Inv
<1> HIDE DEF All
<1> QED BY <1>1, <1>2, <1>3, PTL DEF Spec, RevertGivesBack

-----------------------------------------------------------------------------
(* An undo takes out the forged track.                                     *)

\* The release has no AC3 5.1 of its own.
NoOwnAc3 ==
    \A c \in Cases : \A file \in {c.file, c.other} : \A i \in DOMAIN file :
        ~(file[i].type = "audio" /\ Ac3Shape(file[i]))

\* Every AC3 5.1 track is one the forge made.
Own(s) == s.type = "audio" /\ Ac3Shape(s) => s.id = "forged"
Owned(streams) == \A i \in DOMAIN streams : Own(streams[i])

\* An undo leaves out only that.
UndoKeeps(input, output) ==
    \A i \in DOMAIN input : input[i].id = "forged" \/ \E n \in DOMAIN output : output[n] = input[i]

AllOwned ==
    /\ Owned(disk.streams)
    /\ \A n \in DOMAIN sidecars : Owned(sidecars[n])
    /\ job # None => /\ Owned(job.output)
                     /\ job.kind = "undo" => UndoKeeps(job.input.streams, job.output)
    /\ revert # None => Owned(revert.output)

\* No step makes an AC3 5.1 track but the forge.
LEMMA OwnedStep ==
    ASSUME NoOwnAc3, TInv, InputRead, Holds(PayloadKey), AllOwned, [Next]_vars
    PROVE  AllOwned'
<1>0. /\ Owned(disk.streams) /\ (\A n \in DOMAIN sidecars : Owned(sidecars[n]))
      /\ job # None => /\ Owned(job.output)
                       /\ job.kind = "undo" => UndoKeeps(job.input.streams, job.output)
      /\ revert # None => Owned(revert.output)
      /\ IsFile(disk.streams)
  BY DEF AllOwned, TInv, DiskTyped
<1>1. CASE Quiet
  BY <1>0, <1>1 DEF Quiet, AllOwned
<1>2. CASE Begun
  <2>0. PICK kind, name, output, reencoded, plan :
            /\ Begin(kind, name, output, reencoded)
            /\ \A n \in DOMAIN output : Comes(output[n], disk.streams, plan)
            /\ kind = "undo" =>
                  UndoOutcome(disk.streams) = "found" /\ output = Undone(disk.streams)
    BY <1>2 DEF Begun
  <2>1. /\ UNCHANGED <<disk, sidecars, revert>>
        /\ job'.kind = kind /\ job'.input = disk /\ job'.output = output
    BY <2>0 DEF Begin
  <2>2. ASSUME NEW n \in DOMAIN output PROVE Own(output[n])
    <3>1. CASE IsForged(output[n])
      BY <3>1 DEF IsForged, Own
    <3>2. ASSUME NEW i \in DOMAIN disk.streams, Made(output[n], disk.streams[i], plan)
          PROVE  Own(output[n])
      <4>1. IsStream(disk.streams[i]) /\ Own(disk.streams[i])
        BY <1>0 DEF IsFile, Owned
      <4>2. /\ output[n].type = disk.streams[i].type /\ output[n].id = disk.streams[i].id
            /\ output[n].shape = disk.streams[i].shape
            /\ output[n].codec \in {disk.streams[i].codec, "aac", "mov_text"}
        BY <3>2, <4>1, MadeFits
      <4> QED BY <4>1, <4>2 DEF Own, Ac3Shape
    <3> QED BY <2>0, <3>1, <3>2 DEF Comes
  <2>3. ASSUME kind = "undo" PROVE UndoKeeps(disk.streams, output)
    <3>1. \A i \in DOMAIN disk.streams :
             \/ disk.streams[i].type = "audio" /\ Ac3Shape(disk.streams[i])
             \/ \E n \in DOMAIN output : output[n] = disk.streams[i]
      BY <1>0, <2>0, <2>3, UndoneFits
    <3> QED BY <1>0, <3>1 DEF UndoKeeps, Owned, Own
  <2> QED BY <1>0, <2>1, <2>2, <2>3 DEF AllOwned, Owned
<1>3. CASE Capture
  <2> DEFINE c == CapturedOf(job)
  <2>1. /\ UNCHANGED <<disk, points, revert>> /\ job # None /\ job.pc = "made" /\ ~Changed
        /\ job'.kind = job.kind /\ job'.input = job.input /\ job'.output = job.output
        /\ sidecars' = sidecars \/ sidecars' = With(sidecars, c.name, c.streams)
    BY <1>3, CaptureDoes
  <2>2. job.input = disk
    BY <2>1 DEF InputRead, Changed
  <2>3. CaptureOf(c, disk.streams, job.output)
    BY <2>1, <2>2, CapturedOfFits
  <2> HIDE DEF c
  <2>4. ASSUME NEW n \in DOMAIN c.streams PROVE Own(c.streams[n])
    <3>1. PICK i \in DOMAIN Base(disk.streams) : c.streams[n] = Taken(disk.streams, i)
      BY <2>3 DEF CaptureOf
    <3>2. \/ \E k \in DOMAIN disk.streams : c.streams[n] = disk.streams[k]
          \/ \E x \in DOMAIN sidecars : \E k \in DOMAIN sidecars[x] :
                c.streams[n] = sidecars[x][k]
      BY <3>1, TakenAgrees
    <3> QED BY <1>0, <3>2 DEF Owned
  <2>5. ASSUME NEW n \in DOMAIN sidecars' PROVE Owned(sidecars'[n])
    BY <1>0, <2>1, <2>4 DEF With, Owned
  <2> QED BY <1>0, <2>1, <2>5 DEF AllOwned
<1>4. CASE Swap
  BY <1>0, <1>4, SwapDoes DEF AllOwned
<1>5. CASE Record /\ job.point # {}
  <2>1. PICK c \in job.point : sidecars' = Without(sidecars, Superseded(c))
    BY <1>5, RecordWrites
  <2>2. job' = None /\ UNCHANGED <<disk, revert>>
    BY <1>5 DEF Record
  <2> QED BY <1>0, <2>1, <2>2 DEF AllOwned, Without
<1>6. CASE Replaced
  <2>1. /\ disk'.streams = case.other /\ case \in Cases
        /\ UNCHANGED <<sidecars, job, revert>>
    BY <1>6 DEF Replaced, TInv, Counted
  <2>2. Owned(case.other)
    BY <2>1 DEF NoOwnAc3, Owned, Own
  <2> QED BY <1>0, <2>1, <2>2 DEF AllOwned
<1>7. CASE SwapRevert
  BY <1>0, <1>7, ElseDoes, SwapRevertDoes DEF AllOwned
<1>8. CASE Renamed \/ \E p \in DOMAIN points : Attach(p)
  <2>1. UNCHANGED <<disk, sidecars, job, revert>>
    BY <1>8 DEF Renamed, Attach
  <2> QED BY <1>0, <2>1 DEF AllOwned
<1>9. ASSUME NEW p \in DOMAIN points, StartRevert(p) PROVE AllOwned'
  <2>1. /\ ~Blocked(p) /\ UNCHANGED <<disk, sidecars, job>>
        /\ revert'.output = Restored(p)
    BY <1>9 DEF StartRevert, Offered
  <2>2. IsManifest(points[p].manifest)
    BY DEF TInv, PointsFit, PointOK, IsPoint
  <2>3. ASSUME NEW i \in DOMAIN Restored(p) PROVE Own(Restored(p)[i])
    <3> DEFINE s == points[p].manifest[i].s
               t == Located(p, i)
               u == Restored(p)[i]
    <3>1. i \in DOMAIN points[p].manifest /\ u.id = t.id /\ Agree(u, s, PayloadKey)
      BY <2>2, RestoredFits
    <3>2. /\ Agree(t, s, PayloadKey)
          /\ \/ \E k \in DOMAIN disk.streams : t = disk.streams[k]
             \/ \E n \in DOMAIN sidecars : \E k \in DOMAIN sidecars[n] : t = sidecars[n][k]
      BY <2>1, <3>1, LocatedAgrees
    <3> HIDE DEF s, t, u
    <3>3. Own(t)
      BY <1>0, <3>2 DEF Owned
    <3>4. Own(u)
      BY <3>1, <3>2, <3>3 DEF Own, Ac3Shape, Agree, PayloadKey
    <3> QED BY <3>4 DEF u
  <2> QED BY <1>0, <2>1, <2>3 DEF AllOwned, Owned
<1> QED BY <1>1, <1>2, <1>3, <1>4, <1>5, <1>6, <1>7, <1>8, <1>9, StepFits

\* The step that swaps an undo in loses the forged track and nothing else.
LEMMA SwapTakesForged ==
    ASSUME TInv, InputRead, AllOwned, [Next]_vars,
           job.pc = "captured", job.kind = "undo", job'.pc = "swapped"
    PROVE  \A s \in Range(disk.streams) \ Range(disk'.streams) : s.id = "forged"
<1>1. CASE Swap
  <2>1. job # None /\ disk'.streams = job.output
    BY <1>1, SwapDoes
  <2>2. job.input = disk
    BY DEF InputRead
  <2>3. UndoKeeps(disk.streams, disk'.streams)
    BY <2>1, <2>2 DEF AllOwned
  <2> QED BY <2>3 DEF UndoKeeps, Range
<1>2. CASE Quiet
  BY <1>2 DEF Quiet, None
<1>3. CASE Begun
  BY <1>3 DEF Begun, Begin, None
<1>4. CASE Capture
  BY <1>4 DEF Capture
<1>5. CASE Record
  BY <1>5 DEF Record
<1>6. CASE Replaced \/ SwapRevert
  BY <1>6, ElseDoes
<1>7. CASE Renamed \/ \E p \in DOMAIN points : StartRevert(p) \/ Attach(p)
  BY <1>7, RestDoes
<1> QED BY <1>1, <1>2, <1>3, <1>4, <1>5, <1>6, <1>7, StepFits

\* For every file without an AC3 5.1 track of its own, however often it is forged,
\* remuxed, reverted and forged again: an undo takes out the track the forge made.
\* (With one of its own the run on OwnAc3 shows the undo take that instead.)
THEOREM UndoTakesForged ==
    ASSUME ReusedIds = FALSE, Gaps = FALSE, NoOwnAc3
    PROVE  Spec => UndoRemovesForged
<1> DEFINE All == Inv(PayloadKey) /\ AllOwned
<1>1. Init => All
  <2>1. Init => AllOwned
    BY DEF Init, AllOwned, NoOwnAc3, Owned, Own
  <2> QED BY <2>1, InvInit
<1>2. All /\ [Next]_vars => All'
  BY InvStep, PairsPayload, OwnedStep DEF Inv
<1>3. All /\ [Next]_vars =>
          [job.pc = "captured" /\ job.kind = "undo" /\ job'.pc = "swapped"
              => \A s \in Range(disk.streams) \ Range(disk'.streams) : s.id = "forged"]_vars
  BY SwapTakesForged DEF Inv
<1> HIDE DEF All
<1> QED BY <1>1, <1>2, <1>3, PTL DEF Spec, UndoRemovesForged

-----------------------------------------------------------------------------
(* What was promised is kept.                                              *)

SameAs(m) == promised = <<>> \/ Real(promised) = Real(Originals(m))
InFile(f) == promised = <<>> \/ Range(Real(promised)) \subseteq Range(Real(f))

SidecarsApart ==
    \A p, q \in DOMAIN points : points[p].sidecar = points[q].sidecar => p = q

\* A point that describes the file is for what is promised, and has its sidecar.
PointPromised(q) ==
    /\ q.file \in {0, media}
    /\ q.print = disk.stamp => SameAs(q.manifest) /\ q.sidecar \in DOMAIN sidecars

PointsPromised == \A p \in DOMAIN points : PointPromised(points[p])

\* What a run is to leave promised.
JobPromised ==
    job # None =>
        /\ job.pc = "made" => ~job.extend
        /\ job.pc # "made" => \A c \in job.point : c.name \in DOMAIN sidecars
        /\ job.pc = "captured" /\ job.input = disk =>
              /\ job.extend => /\ \A c \in job.point : SameAs(c.manifest)
                               /\ job.point = {} => InFile(job.output)
              /\ ~job.extend => \A c \in job.point :
                                   Real(Originals(c.manifest)) = Real(job.input.streams)
        /\ job.pc = "swapped" =>
              /\ \A c \in job.point : SameAs(c.manifest)
              /\ job.point = {} => InFile(disk.streams)
              /\ \A p \in DOMAIN points : points[p].print # disk.stamp

RevertPromised ==
    revert # None =>
        /\ revert.pc = "running" /\ revert.stamp = disk.stamp => SameAs(revert.manifest)
        /\ revert.pc = "swapped" => InFile(disk.streams)

FilePromised ==
    job.pc # "swapped" =>
        InFile(disk.streams) \/ \E p \in DOMAIN points : points[p].print = disk.stamp

Promised ==
    SidecarsApart /\ PointsPromised /\ JobPromised /\ RevertPromised /\ FilePromised

\* A capture extends the point that describes the file, if there is one, and has
\* nothing to keep if it neither holds a track nor gives up fonts.
LEMMA CapturedSays ==
    ASSUME TInv, job # None
    PROVE  LET c == CapturedOf(job)
           IN  /\ c.extend = (Extendable # {}) /\ ~(c.anything /\ c.fonts)
               /\ ~c.anything /\ ~c.fonts =>
                     \A i \in DOMAIN c.manifest : c.manifest[i].sidecar = 0
<1> DEFINE input == job.input.streams
           c == CapturedOf(job)
           extend == Extendable # {}
           m == Base(input)
           gone == Reencoded(m, extend, job.reencoded)
           match == MatchStreams(Originals(m), job.output)
           at == [i \in DOMAIN m |-> IF i \in gone THEN 0 ELSE match[i]]
           lost == {i \in DOMAIN m : at[i] = 0}
           order == SidecarOrder(m, lost)
           Slot(i) == IF i \in lost THEN CHOOSE n \in DOMAIN order : order[n] = i ELSE 0
<1>1. IsManifest(m)
  BY BaseFits DEF TInv, JobTyped, PointsFit, PointOK
<1>2. /\ c.extend = extend
      /\ c.anything = \E i \in lost : m[i].s.type # "attachment"
      /\ c.fonts = (lost # {} /\ \A i \in lost : m[i].s.type = "attachment")
      /\ c.manifest = [i \in DOMAIN m |->
                         Annotated([m[i] EXCEPT !.re = i \in gone], at[i], Slot(i))]
  BY DEF CapturedOf, Captured, Base, Extended
<1> HIDE DEF m, gone, match
<1>3. (~c.anything /\ ~c.fonts => lost = {}) /\ ~(c.anything /\ c.fonts)
  <2> HIDE DEF c, lost
  <2> QED BY <1>2
<1> HIDE DEF at
<1>4. ASSUME lost = {}, NEW i \in DOMAIN c.manifest PROVE c.manifest[i].sidecar = 0
  <2>1. i \in DOMAIN m
    BY <1>2
  <2>2. Slot(i) = 0
    BY <1>4
  <2> HIDE DEF Slot, lost
  <2>3. c.manifest[i] = Annotated([m[i] EXCEPT !.re = i \in gone], at[i], Slot(i))
    BY <1>2, <2>1
  <2>4. IsEntry(m[i])
    BY <1>1, <2>1 DEF IsManifest
  <2> HIDE DEF c
  <2> QED BY <2>2, <2>3, <2>4, AnnotatedFits
<1> HIDE DEF c, lost
<1> QED BY <1>2, <1>3, <1>4 DEF c

\* Originals that are all in a file are promised by it.
LEMMA HeldInFile ==
    ASSUME NEW m, IsManifest(m), NEW f, SameAs(m),
           \A i \in DOMAIN m : Held(f, m[i].processed, m[i].s, BytesKey)
    PROVE  InFile(f)
<1>1. DOMAIN Originals(m) = DOMAIN m /\ \A i \in DOMAIN m : Originals(m)[i] = m[i].s
  BY OriginalsFit
<1>2. ASSUME NEW i \in DOMAIN m PROVE Real(Originals(m))[i] \in Range(Real(f))
  <2> DEFINE k == m[i].processed
  <2>1. k \in DOMAIN f /\ f[k].id = m[i].s.id /\ f[k].lossy = m[i].s.lossy
    BY DEF Held, Agree, BytesKey
  <2>2. Real(Originals(m))[i] = <<m[i].s.id, m[i].s.lossy>>
    BY <1>1 DEF Real
  <2>3. Real(f)[k] = <<f[k].id, f[k].lossy>> /\ k \in DOMAIN Real(f)
    BY <2>1 DEF Real
  <2> QED BY <2>1, <2>2, <2>3 DEF Range
<1>3. DOMAIN Real(Originals(m)) = DOMAIN m
  BY <1>1 DEF Real
<1>4. Range(Real(Originals(m))) \subseteq Range(Real(f))
  BY <1>2, <1>3 DEF Range
<1> QED BY <1>4 DEF SameAs, InFile

\* A file is in itself.
LEMMA AllInFile == ASSUME NEW f, Real(promised) = Real(f) PROVE InFile(f)
  BY DEF InFile

\* Steps that leave the file alone, and throw away no more than they own up to.
LEMMA PromisedQuiet ==
    ASSUME TInv, Promised, disk' = disk, media' = media,
           \A p \in DOMAIN points' :
              /\ p \in DOMAIN points /\ points'[p] = points[p]
              /\ points[p].sidecar \in DOMAIN sidecars => points[p].sidecar \in DOMAIN sidecars',
           \/ promised' \in {promised, <<>>}
           \/ job.pc = "swapped" /\ job' = None /\ promised' = disk.streams,
           \A p \in DOMAIN points : points[p].print = disk.stamp =>
              p \in DOMAIN points' \/ promised' = <<>> \/ InFile(disk.streams),
           \/ job' = job /\ \A c \in job.point :
                 job.pc # "made" /\ c.name \in DOMAIN sidecars => c.name \in DOMAIN sidecars'
           \/ job' = None /\ (job.pc = "swapped" => job.point = {} \/ promised' = disk.streams),
           revert' \in {revert, None}
    PROVE  Promised'
<1>0. /\ SidecarsApart /\ PointsPromised /\ JobPromised /\ RevertPromised /\ FilePromised
      /\ None.pc = "none"
  BY DEF Promised, None
<1>1. SidecarsApart'
  BY <1>0 DEF SidecarsApart
<1>2. job.pc = "swapped" => job # None /\ revert = None
                            /\ \A p \in DOMAIN points : points[p].print # disk.stamp
  BY <1>0 DEF JobPromised, TInv, OneAtATime
<1>3. ASSUME promised' \in {promised, <<>>}, NEW m PROVE SameAs(m) => SameAs(m)'
  BY <1>3 DEF SameAs
<1>4. ASSUME promised' \in {promised, <<>>}, NEW f PROVE InFile(f) => InFile(f)'
  BY <1>4 DEF InFile
<1>5. promised' = disk.streams => InFile(disk.streams)'
  BY DEF InFile
<1>6. PointsPromised'
  <2>1. ASSUME NEW p \in DOMAIN points' PROVE PointPromised(points[p])'
    <3>1. PointPromised(points[p]) /\ points'[p] = points[p] /\ p \in DOMAIN points
      BY <1>0 DEF PointsPromised
    <3>2. CASE points[p].print = disk.stamp
      <4>1. promised' \in {promised, <<>>}
        BY <1>2, <3>1, <3>2
      <4>2. SameAs(points[p].manifest)'
        BY <1>3, <3>1, <3>2, <4>1 DEF PointPromised
      <4> QED BY <3>1, <3>2, <4>2 DEF PointPromised
    <3>3. CASE points[p].print # disk.stamp
      BY <3>1, <3>3 DEF PointPromised
    <3> QED BY <3>2, <3>3
  <2> QED BY <2>1 DEF PointsPromised
<1>7. JobPromised'
  <2>1. CASE job' = None
    BY <2>1 DEF JobPromised
  <2>2. CASE job' = job /\ job # None
    <3>1. promised' \in {promised, <<>>}
      BY <2>2
    <3>2. \A c \in job.point : SameAs(c.manifest) => SameAs(c.manifest)'
      BY <1>3, <3>1
    <3>3. (InFile(job.output) => InFile(job.output)')
          /\ (InFile(disk.streams) => InFile(disk.streams)')
      BY <1>4, <3>1, <2>2
    <3> QED BY <1>0, <2>2, <3>2, <3>3 DEF JobPromised
  <2> QED BY <2>1, <2>2
<1>8. RevertPromised'
  <2>1. CASE revert' = None
    BY <2>1 DEF RevertPromised
  <2>2. CASE revert' = revert /\ revert # None
    <3>1. promised' \in {promised, <<>>}
      BY <1>2, <2>2
    <3>2. (SameAs(revert.manifest) => SameAs(revert.manifest)')
          /\ (InFile(disk.streams) => InFile(disk.streams)')
      BY <1>3, <1>4, <2>2, <3>1
    <3> QED BY <1>0, <2>2, <3>2 DEF RevertPromised
  <2> QED BY <2>1, <2>2
<1>9. FilePromised'
  <2>1. CASE promised' = <<>>
    BY <2>1 DEF FilePromised, InFile
  <2>2. CASE promised' = disk.streams
    BY <1>5, <2>2 DEF FilePromised
  <2>3. CASE promised' = promised
    <3>1. InFile(disk.streams) => InFile(disk.streams)'
      BY <1>4, <2>3
    <3>2. CASE job.pc # "swapped"
      BY <1>0, <2>3, <3>1, <3>2 DEF FilePromised, InFile
    <3>3. CASE job.pc = "swapped" /\ job' = None
      BY <1>0, <1>2, <1>5, <3>1, <3>3 DEF FilePromised, JobPromised
    <3>4. CASE job.pc = "swapped" /\ job' = job
      BY <3>4 DEF FilePromised
    <3> QED BY <3>2, <3>3, <3>4
  <2> QED BY <2>1, <2>2, <2>3
<1> QED BY <1>1, <1>6, <1>7, <1>8, <1>9 DEF Promised

\* A quiet step is one of these.
LEMMA PromisedRest ==
    ASSUME TInv, NamesOlder, Promised,
           \/ UNCHANGED vars \/ SettleForgeUndo \/ Fail \/ StopForChange \/ Cancel \/ Crash
           \/ RefuseRevert \/ EndRevert \/ (Record /\ job.point = {})
           \/ \E doomed \in SUBSET DOMAIN points : Discard(doomed) \/ Sweep(doomed)
    PROVE  Promised'
<1>0. /\ SidecarsApart /\ PointsPromised /\ JobPromised /\ RevertPromised /\ FilePromised
      /\ None.pc = "none"
  BY DEF Promised, None
<1>1. CASE UNCHANGED vars \/ SettleForgeUndo \/ RefuseRevert
  BY <1>1, PromisedQuiet DEF vars, SettleForgeUndo, RefuseRevert
<1>2. CASE Record /\ job.point = {}
  <2>1. UNCHANGED <<disk, media, points, sidecars, promised, revert>> /\ job' = None
    BY <1>2 DEF Record
  <2> QED BY <1>2, <2>1, PromisedQuiet
<1>3. CASE Fail \/ StopForChange \/ Cancel
  <2>1. /\ UNCHANGED <<disk, media, points, promised, revert>> /\ job' = None
        /\ job.pc \in {"made", "captured"} /\ job # None
        /\ sidecars' \in {sidecars, Without(sidecars, Leftover)}
    BY <1>3 DEF Fail, StopForChange, Cancel, None
  <2>2. ASSUME NEW p \in DOMAIN points, points[p].sidecar \in DOMAIN sidecars
        PROVE  points[p].sidecar \in DOMAIN sidecars'
    <3>1. points[p].sidecar # job.name /\ \A n \in Leftover : n = job.name
      BY <2>1 DEF NamesOlder, Leftover
    <3> QED BY <2>1, <2>2, <3>1 DEF Without
  <2> QED BY <2>1, <2>2, PromisedQuiet
<1>4. CASE Crash
  <2>1. /\ UNCHANGED <<disk, media, points, sidecars>> /\ job' = None /\ revert' = None
        /\ promised' = IF job.pc = "swapped" THEN disk.streams ELSE promised
    BY <1>4 DEF Crash
  <2> QED BY <2>1, PromisedQuiet
<1>5. CASE EndRevert
  <2>1. /\ UNCHANGED <<disk, media, job, promised>> /\ revert' = None /\ revert # None
        /\ revert.pc = "swapped" /\ points' = Without(points, Existing)
        /\ sidecars' = Without(sidecars, {points[p].sidecar : p \in Existing})
    BY <1>5 DEF EndRevert, None
  <2>2. InFile(disk.streams) /\ job = None
    BY <1>0, <2>1 DEF RevertPromised, TInv, OneAtATime
  <2>3. ASSUME NEW p \in DOMAIN points'
        PROVE  /\ p \in DOMAIN points /\ points'[p] = points[p]
               /\ points[p].sidecar \in DOMAIN sidecars => points[p].sidecar \in DOMAIN sidecars'
    <3>1. /\ p \in DOMAIN points \ Existing /\ points'[p] = points[p]
          /\ Existing \in SUBSET DOMAIN points
      BY <2>1 DEF Without, Existing
    <3>2. \A x \in Existing : points[x].sidecar # points[p].sidecar
      BY <1>0, <3>1 DEF SidecarsApart
    <3> QED BY <2>1, <3>1, <3>2 DEF Without
  <2> QED BY <1>0, <2>1, <2>2, <2>3, PromisedQuiet
<1>6. ASSUME NEW doomed \in SUBSET DOMAIN points, Discard(doomed) \/ Sweep(doomed)
      PROVE  Promised'
  <2>1. /\ UNCHANGED <<disk, media, job, revert>> /\ points' = Without(points, doomed)
        /\ promised' = IF \E p \in doomed : points[p].print = disk.stamp THEN <<>> ELSE promised
        /\ \/ sidecars' = Without(sidecars, {points[p].sidecar : p \in doomed})
           \/ sidecars' = Without(sidecars, {points[p].sidecar : p \in doomed} \cup Orphans(doomed))
    BY <1>6 DEF Discard, Sweep, Forget
  <2>2. ASSUME NEW p \in DOMAIN points'
        PROVE  /\ p \in DOMAIN points /\ points'[p] = points[p]
               /\ points[p].sidecar \in DOMAIN sidecars => points[p].sidecar \in DOMAIN sidecars'
    <3>1. p \in DOMAIN points \ doomed /\ points'[p] = points[p]
      BY <2>1 DEF Without
    <3>2. \A x \in doomed : points[x].sidecar # points[p].sidecar
      BY <1>0, <3>1 DEF SidecarsApart
    <3>3. points[p].sidecar \notin Orphans(doomed)
      BY <3>1 DEF Orphans
    <3> QED BY <2>1, <3>1, <3>2, <3>3 DEF Without
  <2>3. \A p \in DOMAIN points : points[p].print = disk.stamp =>
            p \in DOMAIN points' \/ promised' = <<>>
    BY <2>1 DEF Without
  <2>4. ASSUME job # None, job.pc # "made", NEW c \in job.point, c.name \in DOMAIN sidecars
        PROVE  c.name \in DOMAIN sidecars'
    <3>1. c.name = job.name /\ \A p \in doomed : points[p].sidecar # c.name
      BY <2>4 DEF NamesOlder
    <3>2. c.name \notin Orphans(doomed)
      <4>1. job.pc \in {"captured", "swapped"}
        BY <2>4 DEF TInv, JobTyped
      <4> QED BY <2>4, <4>1 DEF Orphans, Young
    <3> QED BY <2>1, <2>4, <3>1, <3>2 DEF Without
  <2>5. job # None \/ job' = None
    BY <2>1
  <2>6. job = None => job.pc # "swapped"
    BY <1>0
  <2> QED BY <2>1, <2>2, <2>3, <2>4, <2>5, <2>6, PromisedQuiet
<1> QED BY <1>1, <1>2, <1>3, <1>4, <1>5, <1>6

\* The file is another now, with a stamp that no point has.
LEMMA PromisedNewDisk ==
    ASSUME TInv, Promised, disk'.stamp = used.stamps + 1, UNCHANGED <<media, points, sidecars>>,
           JobPromised', RevertPromised', FilePromised'
    PROVE  Promised'
<1>1. SidecarsApart /\ PointsPromised /\ used.stamps \in Nat
      /\ \A p \in DOMAIN points : points[p].print \in 1 .. used.stamps
  BY DEF Promised, TInv, Counted, PointsFit, PointOK
<1>2. SidecarsApart'
  BY <1>1 DEF SidecarsApart
<1>3. ASSUME NEW p \in DOMAIN points' PROVE PointPromised(points[p])'
  <2>1. PointPromised(points[p]) /\ points[p].print # disk'.stamp /\ points'[p] = points[p]
    BY <1>1 DEF PointsPromised
  <2> QED BY <2>1 DEF PointPromised
<1>4. PointsPromised'
  BY <1>3 DEF PointsPromised
<1> QED BY <1>2, <1>4 DEF Promised

\* What a capture has, of the point it extends or of the file.
LEMMA CapturedPromised ==
    ASSUME TInv, InputRead, Holds(BytesKey), PairsRight(BytesKey), Promised, Capture
    PROVE  LET c == CapturedOf(job)
           IN  /\ c.extend => SameAs(c.manifest)
               /\ ~c.extend => Real(Originals(c.manifest)) = Real(disk.streams)
               /\ ~c.anything /\ ~c.fonts /\ c.extend => InFile(job.output)
               /\ job.input = disk
<1> DEFINE c == CapturedOf(job)
           m == Base(disk.streams)
<1>1. job # None /\ job.pc = "made" /\ ~Changed
  BY CaptureDoes
<1>2. job.input = disk
  BY <1>1 DEF InputRead, Changed
<1>3. CaptureOf(c, disk.streams, job.output)
  BY <1>1, <1>2, CapturedOfFits
<1>4. /\ c.extend = (Extendable # {})
      /\ ~c.anything /\ ~c.fonts => \A i \in DOMAIN c.manifest : c.manifest[i].sidecar = 0
  BY <1>1, CapturedSays
<1>5. \A i \in DOMAIN c.manifest :
         c.manifest[i].sidecar = 0 =>
             Held(job.output, c.manifest[i].processed, c.manifest[i].s, BytesKey)
  BY <1>1 DEF PairsRight
<1> HIDE DEF c
<1>6. IsManifest(c.manifest) /\ Originals(c.manifest) = Originals(m)
  BY <1>3 DEF CaptureOf, Originals
<1>7. ASSUME c.extend PROVE SameAs(c.manifest)
  <2>1. Extended \in Extendable
    BY <1>4, <1>7 DEF Extended
  <2>2. Extended \in DOMAIN points /\ points[Extended].print = disk.stamp
    BY <2>1 DEF Extendable, Existing, Blocked
  <2>3. SameAs(points[Extended].manifest)
    BY <2>2 DEF Promised, PointsPromised, PointPromised
  <2>4. m = points[Extended].manifest
    BY <1>4, <1>7 DEF Base
  <2> QED BY <1>6, <2>3, <2>4 DEF SameAs
<1>8. ASSUME ~c.extend PROVE Real(Originals(c.manifest)) = Real(disk.streams)
  <2>1. m = Manifest(disk.streams)
    BY <1>4, <1>8 DEF Base
  <2>2. DOMAIN Originals(m) = DOMAIN disk.streams
        /\ \A i \in DOMAIN disk.streams : Originals(m)[i] = disk.streams[i]
    BY <2>1 DEF Originals, Manifest
  <2> HIDE DEF m
  <2> QED BY <1>6, <2>2 DEF Real
<1>9. ASSUME ~c.anything, ~c.fonts, c.extend PROVE InFile(job.output)
  BY <1>4, <1>5, <1>6, <1>7, <1>9, HeldInFile
<1> QED BY <1>2, <1>7, <1>8, <1>9 DEF c

\* Pairing what agrees keeps what was promised.
LEMMA PromisedStep ==
    ASSUME Gaps = FALSE, TInv, NamesOlder, InputRead, Holds(BytesKey), PairsRight(BytesKey),
           RevertMakes, Promised, [Next]_vars
    PROVE  Promised'
<1>0. /\ SidecarsApart /\ PointsPromised /\ JobPromised /\ RevertPromised /\ FilePromised
      /\ None.pc = "none" /\ used.stamps \in Nat
  BY DEF Promised, None, TInv, Counted
<1>1. CASE BeginQueueJob \/ BeginForgeAdd \/ BeginForgeUndo
  <2>1. PICK kind, name, output, reencoded : Begin(kind, name, output, reencoded)
    BY <1>1, TypeBegins DEF Begun
  <2>2. /\ UNCHANGED <<disk, media, points, sidecars, revert, promised>> /\ job = None
        /\ job'.pc = "made" /\ job'.extend = FALSE
    BY <2>1 DEF Begin
  <2>3. SidecarsApart' /\ PointsPromised' /\ RevertPromised'
    BY <1>0, <2>2 DEF SidecarsApart, PointsPromised, PointPromised, RevertPromised,
       SameAs, InFile
  <2>4. JobPromised' /\ FilePromised'
    BY <1>0, <2>2 DEF JobPromised, FilePromised, InFile
  <2> QED BY <2>3, <2>4 DEF Promised
<1>2. CASE Capture
  <2> DEFINE c == CapturedOf(job)
  <2>1. /\ job # None /\ UNCHANGED <<disk, media, points, revert, promised>>
        /\ job.pc = "made" /\ job'.pc = "captured"
        /\ job'.input = job.input /\ job'.output = job.output
        /\ job'.extend = (c.extend /\ ~c.fonts)
        /\ \/ ~c.anything /\ job'.point = {} /\ sidecars' = sidecars
           \/ job'.point = {c} /\ sidecars' = With(sidecars, c.name, c.streams)
    BY <1>2, CaptureDoes
  <2>2. /\ c.extend => SameAs(c.manifest)
        /\ ~c.extend => Real(Originals(c.manifest)) = Real(disk.streams)
        /\ ~c.anything /\ ~c.fonts /\ c.extend => InFile(job.output)
        /\ job.input = disk
    BY <1>2, CapturedPromised
  <2> HIDE DEF c
  <2>3. /\ SidecarsApart' /\ RevertPromised' /\ FilePromised'
    BY <1>0, <2>1 DEF SidecarsApart, RevertPromised, FilePromised, SameAs, InFile
  <2>4. DOMAIN sidecars \subseteq DOMAIN sidecars'
    BY <2>1 DEF With
  <2>5. PointsPromised'
    BY <1>0, <2>1, <2>4 DEF PointsPromised, PointPromised, SameAs
  <2>6. \A x \in job'.point : x = c /\ c.name \in DOMAIN sidecars'
    BY <2>1 DEF With
  <2>7. ASSUME job'.extend
        PROVE  /\ \A x \in job'.point : SameAs(x.manifest)'
               /\ job'.point = {} => InFile(job.output)'
    <3>1. c.extend /\ ~c.fonts
      BY <2>1, <2>7
    <3>2. ASSUME NEW x \in job'.point PROVE SameAs(x.manifest)'
      BY <2>1, <2>2, <2>6, <3>1 DEF SameAs
    <3>3. job'.point = {} => ~c.anything
      BY <2>1
    <3>4. job'.point = {} => InFile(job.output)'
      BY <2>1, <2>2, <3>1, <3>3 DEF InFile
    <3> QED BY <3>2, <3>4
  <2>8. ASSUME ~job'.extend, NEW x \in job'.point
        PROVE  Real(Originals(x.manifest)) = Real(job'.input.streams)
    <3>1. x = c /\ (c.extend => c.fonts)
      BY <2>1, <2>6, <2>8
    <3>2. ~c.fonts
      <4>1. c.anything /\ ~(c.anything /\ c.fonts)
        BY <1>2, <2>1, <2>8, CapturedSays DEF Capture, c
      <4> QED BY <4>1
    <3> QED BY <2>1, <2>2, <3>1, <3>2
  <2>9. JobPromised'
    BY <2>1, <2>6, <2>7, <2>8 DEF JobPromised
  <2> QED BY <2>3, <2>5, <2>9 DEF Promised
<1>3. CASE GoWithout
  <2>1. /\ job # None /\ job.pc = "made" /\ job' = [job EXCEPT !.pc = "captured"]
        /\ UNCHANGED <<disk, media, points, sidecars, revert, promised>>
    BY <1>3 DEF GoWithout, None
  <2>2. job.point = {}
        /\ DOMAIN job = {"pc", "kind", "name", "input", "output", "reencoded", "extend", "point"}
    BY <2>1 DEF TInv, JobTyped
  <2>3. job'.point = {} /\ job'.pc = "captured" /\ job'.extend = job.extend
    BY <2>1, <2>2
  <2>4. ~job.extend
    BY <1>0, <2>1 DEF JobPromised
  <2>5. SidecarsApart' /\ PointsPromised' /\ RevertPromised' /\ FilePromised'
    BY <1>0, <2>1, <2>3 DEF SidecarsApart, PointsPromised, PointPromised, RevertPromised,
       FilePromised, SameAs, InFile
  <2>6. JobPromised'
    BY <2>3, <2>4 DEF JobPromised
  <2> QED BY <2>5, <2>6 DEF Promised
<1>4. CASE Swap
  <2>1. /\ job # None /\ job.pc = "captured" /\ ~Changed /\ revert' = revert
        /\ UNCHANGED <<media, points, sidecars>>
        /\ disk'.streams = job.output /\ disk'.stamp = used.stamps + 1
        /\ job'.pc = "swapped" /\ job'.output = job.output /\ job'.point = job.point
    BY <1>4, SwapDoes
  <2>2. job.input = disk
    BY <2>1 DEF InputRead, Changed
  <2>3. promised' = Promise
    BY <1>4 DEF Swap
  <2>4. \A c \in job.point : SameAs(c.manifest)'
    <3>1. CASE job.extend
      <4>1. promised' = promised
        BY <2>3, <3>1 DEF Promise
      <4> QED BY <1>0, <2>1, <2>2, <3>1, <4>1 DEF JobPromised, SameAs
    <3>2. CASE ~job.extend /\ job.point # {}
      <4>1. promised' = job.input.streams
        BY <2>3, <3>2 DEF Promise
      <4> QED BY <1>0, <2>1, <2>2, <3>2, <4>1 DEF JobPromised, SameAs
    <3> QED BY <3>1, <3>2
  <2>5. ASSUME job.point = {} PROVE InFile(disk.streams)'
    <3>1. CASE job.extend
      <4>1. promised' = promised
        BY <2>3, <3>1 DEF Promise
      <4>2. InFile(job.output)
        BY <1>0, <2>1, <2>2, <2>5, <3>1 DEF JobPromised
      <4> QED BY <2>1, <4>1, <4>2 DEF InFile
    <3>2. CASE ~job.extend
      <4>1. promised' = job.output
        BY <2>3, <2>5, <3>2 DEF Promise
      <4> QED BY <2>1, <4>1 DEF InFile
    <3> QED BY <3>1, <3>2
  <2>6. \A p \in DOMAIN points' : points'[p].print # disk'.stamp
    BY <1>0, <2>1 DEF TInv, PointsFit, PointOK
  <2>7. \A c \in job.point : c.name \in DOMAIN sidecars'
    BY <1>0, <2>1 DEF JobPromised
  <2>8. JobPromised'
    BY <2>1, <2>4, <2>5, <2>6, <2>7 DEF JobPromised
  <2>9. RevertPromised' /\ FilePromised'
    BY <2>1 DEF RevertPromised, FilePromised, TInv, OneAtATime
  <2> QED BY <2>1, <2>8, <2>9, PromisedNewDisk
<1>5. CASE Record /\ job.point # {}
  <2>1. PICK c \in job.point, p \in Nat,
             file \in {media} \cup {points[x].file : x \in DOMAIN points} :
            /\ points' = With(points, p, [file |-> file, sidecar |-> c.name,
                                          manifest |-> c.manifest, print |-> disk.stamp])
            /\ sidecars' = Without(sidecars, Superseded(c))
    BY <1>5, RecordWrites
  <2>2. /\ job # None /\ job.pc = "swapped" /\ job' = None /\ revert = None
        /\ UNCHANGED <<disk, media, promised, revert>>
    BY <1>5 DEF Record, None, TInv, OneAtATime
  <2>3. /\ c.name = job.name /\ SameAs(c.manifest) /\ c.name \in DOMAIN sidecars
        /\ \A x \in DOMAIN points : points[x].sidecar # c.name /\ points[x].print # disk.stamp
    BY <1>0, <2>2 DEF NamesOlder, JobPromised
  <2>4. /\ DOMAIN points' = DOMAIN points \cup {p}
        /\ points'[p].file = file /\ points'[p].sidecar = c.name
        /\ points'[p].manifest = c.manifest /\ points'[p].print = disk.stamp
        /\ \A x \in DOMAIN points : x # p => points'[x] = points[x]
    BY <2>1 DEF With
  <2>5. c.name \in DOMAIN sidecars'
    BY <2>1, <2>3 DEF Without, Superseded
  <2>6. file \in {0, media}
    BY <1>0, <2>1 DEF PointsPromised, PointPromised
  <2>7. ASSUME NEW x \in DOMAIN points' PROVE PointPromised(points[x])'
    <3>1. CASE x = p
      BY <2>2, <2>3, <2>4, <2>5, <2>6, <3>1 DEF PointPromised, SameAs
    <3>2. CASE x # p
      <4>1. x \in DOMAIN points /\ points'[x] = points[x] /\ PointPromised(points[x])
        BY <1>0, <2>4, <3>2 DEF PointsPromised
      <4> QED BY <2>2, <2>3, <4>1 DEF PointPromised
    <3> QED BY <3>1, <3>2
  <2>8. SidecarsApart'
    <3>1. ASSUME NEW x \in DOMAIN points', NEW y \in DOMAIN points',
                 points'[x].sidecar = points'[y].sidecar
          PROVE  x = y
      BY <1>0, <2>3, <2>4, <3>1 DEF SidecarsApart
    <3> QED BY <3>1 DEF SidecarsApart
  <2>9. JobPromised' /\ RevertPromised' /\ FilePromised'
    BY <2>2, <2>4 DEF JobPromised, RevertPromised, FilePromised
  <2> QED BY <2>7, <2>8, <2>9 DEF Promised, PointsPromised
<1>6. CASE RecordFails
  <2>1. /\ job # None /\ job.pc = "swapped" /\ job' = [job EXCEPT !.point = {}]
        /\ promised' = disk.streams /\ UNCHANGED <<disk, media, points, revert>>
        /\ revert = None
    BY <1>6 DEF RecordFails, None, TInv, OneAtATime
  <2>2. DOMAIN job = {"pc", "kind", "name", "input", "output", "reencoded", "extend", "point"}
    BY <2>1 DEF TInv, JobTyped
  <2>3. job'.point = {} /\ job'.pc = "swapped"
    BY <2>1, <2>2
  <2>4. \A p \in DOMAIN points : points[p].print # disk.stamp
    BY <1>0, <2>1 DEF JobPromised
  <2>5. SidecarsApart' /\ PointsPromised'
    BY <1>0, <2>1, <2>4 DEF SidecarsApart, PointsPromised, PointPromised
  <2>6. JobPromised' /\ RevertPromised' /\ FilePromised'
    BY <2>1, <2>3, <2>4 DEF JobPromised, RevertPromised, FilePromised, InFile
  <2> QED BY <2>5, <2>6 DEF Promised
<1>7. CASE Replaced
  <2>1. UNCHANGED <<media, points, sidecars, job, revert>> /\ disk'.stamp = used.stamps + 1
        /\ promised' = disk'.streams /\ job.pc # "swapped"
    BY <1>7, ElseDoes DEF Replaced
  <2>2. InFile(disk.streams)'
    BY <2>1 DEF InFile
  <2>3. job # None => job.input # disk'
    BY <1>0, <2>1 DEF TInv, JobTyped
  <2>4. JobPromised' /\ FilePromised'
    BY <1>0, <2>1, <2>2, <2>3 DEF JobPromised, FilePromised
  <2>5. revert # None => revert.stamp # disk'.stamp
    BY <1>0, <2>1 DEF TInv, RevertTyped
  <2>6. RevertPromised'
    BY <2>1, <2>2, <2>5 DEF RevertPromised
  <2> QED BY <2>1, <2>4, <2>6, PromisedNewDisk
<1>8. CASE SwapRevert
  <2>1. /\ UNCHANGED <<media, points, sidecars, job>> /\ disk'.stamp = used.stamps + 1
        /\ revert # None /\ disk'.streams = revert.output /\ disk.stamp = revert.stamp
        /\ revert'.pc = "swapped" /\ job = None
    BY <1>8, ElseDoes, SwapRevertDoes DEF TInv, OneAtATime
  <2>2. promised' = promised /\ revert.pc = "running"
    BY <1>8 DEF SwapRevert
  <2>3. SameAs(revert.manifest) /\ Real(disk'.streams) = Real(Originals(revert.manifest))
    BY <1>0, <2>1, <2>2 DEF RevertPromised, RevertMakes
  <2>4. InFile(disk.streams)'
    BY <2>2, <2>3 DEF SameAs, InFile
  <2>5. JobPromised' /\ FilePromised' /\ RevertPromised'
    BY <2>1, <2>4 DEF JobPromised, FilePromised, RevertPromised
  <2> QED BY <2>1, <2>5, PromisedNewDisk
<1>9. CASE Renamed
  <2>1. /\ job = None /\ revert = None /\ UNCHANGED <<disk, sidecars, job, revert, promised>>
        /\ points' = [p \in DOMAIN points |-> [points[p] EXCEPT !.file = 0]]
    BY <1>9 DEF Renamed
  <2>2. ASSUME NEW p \in DOMAIN points
        PROVE  /\ points'[p].file = 0 /\ points'[p].sidecar = points[p].sidecar
               /\ points'[p].manifest = points[p].manifest /\ points'[p].print = points[p].print
    <3>1. DOMAIN points[p] = {"file", "sidecar", "manifest", "print"}
      BY DEF TInv, PointsFit, PointOK, IsPoint
    <3> QED BY <2>1, <3>1
  <2>3. DOMAIN points' = DOMAIN points
    BY <2>1
  <2>4. SidecarsApart' /\ PointsPromised'
    BY <1>0, <2>1, <2>2, <2>3 DEF SidecarsApart, PointsPromised, PointPromised, SameAs
  <2>5. JobPromised' /\ RevertPromised'
    BY <2>1 DEF JobPromised, RevertPromised
  <2>6. FilePromised'
    BY <1>0, <2>1, <2>2, <2>3 DEF FilePromised, InFile
  <2> QED BY <2>4, <2>5, <2>6 DEF Promised
<1>10. ASSUME NEW p \in DOMAIN points, StartRevert(p) PROVE Promised'
  <2>1. /\ job = None /\ points[p].print = disk.stamp
        /\ revert' = [pc |-> "running", id |-> p, output |-> Restored(p),
                      manifest |-> points[p].manifest, stamp |-> disk.stamp]
        /\ UNCHANGED <<disk, media, points, sidecars, job, promised>>
    BY <1>10 DEF StartRevert, Offered, Blocked
  <2>2. revert'.pc = "running" /\ revert'.manifest = points[p].manifest
    BY <2>1
  <2>3. SameAs(points[p].manifest)
    BY <1>0, <2>1 DEF PointsPromised, PointPromised
  <2>4. RevertPromised'
    BY <2>1, <2>2, <2>3 DEF RevertPromised, SameAs
  <2>5. SidecarsApart' /\ PointsPromised' /\ JobPromised' /\ FilePromised'
    BY <1>0, <2>1 DEF SidecarsApart, PointsPromised, PointPromised, JobPromised,
       FilePromised,
       SameAs, InFile
  <2> QED BY <2>4, <2>5 DEF Promised
<1>11. ASSUME NEW p \in DOMAIN points, Attach(p) PROVE Promised'
  <2>1. UNCHANGED <<disk, media, sidecars, job, revert, promised>>
    BY <1>11 DEF Attach
  <2> DEFINE old == points[p].manifest
             m == points'[p].manifest
  <2>2. /\ DOMAIN points' = DOMAIN points
        /\ \A x \in DOMAIN points : x # p => points'[x] = points[x]
        /\ points'[p].file = media
        /\ points'[p].print = points[p].print /\ points'[p].sidecar = points[p].sidecar
        /\ DOMAIN m = DOMAIN old /\ \A i \in DOMAIN m : m[i].s = old[i].s
    BY <1>11, AttachedFits
  <2>3. Originals(m) = Originals(old)
    BY <2>2 DEF Originals
  <2> HIDE DEF m, old
  <2>4. ASSUME NEW x \in DOMAIN points' PROVE PointPromised(points[x])'
    <3>1. PointPromised(points[x]) /\ x \in DOMAIN points
      BY <1>0, <2>2 DEF PointsPromised
    <3>2. CASE x = p
      BY <2>1, <2>2, <2>3, <3>1, <3>2 DEF PointPromised, SameAs, m, old
    <3>3. CASE x # p
      BY <2>1, <2>2, <3>1, <3>3 DEF PointPromised, SameAs
    <3> QED BY <3>2, <3>3
  <2>5. \A x \in DOMAIN points : /\ points'[x].print = points[x].print
                                 /\ points'[x].sidecar = points[x].sidecar
    BY <2>2
  <2>6. SidecarsApart'
    BY <1>0, <2>2, <2>5 DEF SidecarsApart
  <2>7. JobPromised'
    BY <1>0, <2>1, <2>2, <2>5 DEF JobPromised, SameAs, InFile
  <2>8. RevertPromised' /\ FilePromised'
    BY <1>0, <2>1, <2>2, <2>5 DEF RevertPromised, FilePromised, SameAs, InFile
  <2> QED BY <2>4, <2>6, <2>7, <2>8 DEF Promised, PointsPromised
<1> QED BY <1>1, <1>2, <1>3, <1>4, <1>5, <1>6, <1>7, <1>8, <1>9, <1>10, <1>11,
           PromisedRest DEF Next

\* For every file and every history: if what capture and attach pair by their looks
\* is paired by its bytes, what runs took from the file can be got back for as long
\* as its point is not thrown away, through failures, crashes, upgrades and renames.
THEOREM OriginalIsKept ==
    ASSUME ReusedIds = FALSE, Gaps = FALSE
    PROVE  Spec /\ []PairsRight(BytesKey) => []OriginalKept
<1> DEFINE All == Inv(BytesKey) /\ RevertMakes /\ Promised
<1>1. Init => All
  <2>1. ASSUME Init PROVE RevertMakes /\ Promised
    <3>1. /\ DOMAIN points = {} /\ job = None /\ revert = None
          /\ promised = disk.streams
      BY <2>1 DEF Init
    <3> QED BY <3>1 DEF RevertMakes, Promised, SidecarsApart, PointsPromised, JobPromised,
            RevertPromised, FilePromised, InFile
  <2> QED BY <2>1, InvInit
<1>2. All /\ PairsRight(BytesKey) /\ [Next]_vars => All'
  BY InvStep, RevertMakesStep, PromisedStep DEF Inv
<1>3. All => OriginalKept
  <2> SUFFICES ASSUME All, job.pc # "swapped", promised # <<>>,
                      ~(Range(Real(promised)) \subseteq Range(Real(disk.streams)))
               PROVE  \E p \in DOMAIN points :
                         /\ points[p].file \in {0, media} /\ ~Blocked(p)
                         /\ Real(Restored(p)) = Real(promised)
    BY DEF OriginalKept
  <2>1. PICK p \in DOMAIN points : points[p].print = disk.stamp
    BY DEF Promised, FilePromised, InFile
  <2>2. /\ points[p].file \in {0, media} /\ points[p].sidecar \in DOMAIN sidecars
        /\ Real(promised) = Real(Originals(points[p].manifest))
    BY <2>1 DEF Promised, PointsPromised, PointPromised, SameAs
  <2>3. ~Blocked(p)
    BY <2>1, <2>2 DEF Blocked
  <2>4. Real(Restored(p)) = Real(Originals(points[p].manifest))
    BY <2>3, RestoredReal DEF Inv
  <2> QED BY <2>2, <2>3, <2>4
<1> HIDE DEF All
<1> QED BY <1>1, <1>2, <1>3, PTL DEF Spec

-----------------------------------------------------------------------------
(* Files whose tracks can be told apart.                                   *)

\* What a codec and a language may become: an MP4 turns SubRip to mov_text, and a
\* track without a language is tagged English.
Coded(codec) == IF codec = "mov_text" THEN "subrip" ELSE codec
Spoken(lang) == IF lang = "und" THEN "eng" ELSE lang

\* Two tracks that may come to look alike.
Alike(s, t) ==
    /\ s.type = t.type /\ s.shape = t.shape /\ Coded(s.codec) = Coded(t.codec)
    /\ Coded(s.codec) = "subrip" \/ Spoken(s.lang) = Spoken(t.lang)

\* In no file of the case do two; and nothing is re-encoded, since a re-encode can
\* come to look like a track that was dropped.
ToldApart ==
    \A c \in Cases : c.reencode = FALSE /\ \A file \in {c.file, c.other} :
        /\ \A i \in DOMAIN file : file[i].id # "forged" /\ file[i].lossy = FALSE
        /\ \A i, j \in DOMAIN file : i # j =>
              file[i].id # file[j].id /\ ~Alike(file[i], file[j])

\* A file found on disk, of such a case and without an AC3 5.1 track.
Plain(f) ==
    /\ \A i \in DOMAIN f : ~(f[i].type = "audio" /\ Ac3Shape(f[i]))
    /\ \A i \in DOMAIN f : f[i].id # "forged" /\ f[i].lossy = FALSE
    /\ \A i, j \in DOMAIN f : i # j => f[i].id # f[j].id /\ ~Alike(f[i], f[j])

\* A stream descends from one of the file's, or from the forge.
Kin(t, s) ==
    /\ t.id = s.id /\ t.type = s.type /\ t.shape = s.shape /\ t.lossy = FALSE
    /\ t.codec = s.codec \/ (s.codec = "subrip" /\ t.codec = "mov_text")
    /\ t.lang = s.lang \/ (s.lang = "und" /\ t.lang = "eng")
Descends(t, f) == IsForged(t) \/ \E i \in DOMAIN f : Kin(t, f[i])
Sourced(streams, f) == Once(streams) /\ \A n \in DOMAIN streams : Descends(streams[n], f)

\* Each stream of one is of an original of the other.
Covers(old, new) ==
    \A n \in DOMAIN new : new[n].id = "forged" \/ \E i \in DOMAIN old : old[i].id = new[n].id

\* Two streams of one look are of one original, or of two whose languages differ.
LEMMA LookOfKin ==
    ASSUME NEW f, Plain(f), NEW s, NEW t, Descends(s, f), Descends(t, f),
           Agree(s, t, PayloadKey), s.id # t.id
    PROVE  \E i, j \in DOMAIN f :
              /\ Kin(s, f[i]) /\ Kin(t, f[j]) /\ i # j
              /\ f[i].type = f[j].type /\ f[i].shape = f[j].shape
              /\ Coded(f[i].codec) = Coded(f[j].codec)
              /\ Coded(f[i].codec) # "subrip" /\ Spoken(f[i].lang) # Spoken(f[j].lang)
<1>1. s.type = t.type /\ s.codec = t.codec /\ s.shape = t.shape
  BY DEF Agree, PayloadKey
<1>2. ASSUME NEW x, NEW y, IsForged(x), Descends(y, f), x.type = y.type, x.codec = y.codec,
             x.shape = y.shape
      PROVE  x.id = y.id
  <2>1. CASE IsForged(y)
    BY <1>2, <2>1 DEF IsForged
  <2>2. ASSUME NEW i \in DOMAIN f, Kin(y, f[i]) PROVE FALSE
    <3>1. y.type = "audio" /\ y.codec = "ac3" /\ y.shape = 6
      BY <1>2 DEF IsForged, Ac3Shape
    <3>2. f[i].type = "audio" /\ Ac3Shape(f[i])
      BY <2>2, <3>1 DEF Kin, Ac3Shape
    <3> QED BY <3>2 DEF Plain
  <2> QED BY <1>2, <2>1, <2>2 DEF Descends
<1>3. PICK i \in DOMAIN f : Kin(s, f[i])
  BY <1>1, <1>2 DEF Descends
<1>4. PICK j \in DOMAIN f : Kin(t, f[j])
  BY <1>1, <1>2 DEF Descends
<1>5. /\ i # j /\ f[i].type = f[j].type /\ f[i].shape = f[j].shape
      /\ Coded(f[i].codec) = Coded(f[j].codec)
  <2>1. /\ s.id = f[i].id /\ t.id = f[j].id
        /\ f[i].type = f[j].type /\ f[i].shape = f[j].shape
    BY <1>1, <1>3, <1>4 DEF Kin
  <2>2. Coded(s.codec) = Coded(f[i].codec) /\ Coded(t.codec) = Coded(f[j].codec)
    BY <1>3, <1>4 DEF Kin, Coded
  <2> QED BY <1>1, <2>1, <2>2
<1>6. ~Alike(f[i], f[j])
  BY <1>5 DEF Plain
<1>7. Coded(f[i].codec) # "subrip" /\ Spoken(f[i].lang) # Spoken(f[j].lang)
  BY <1>5, <1>6 DEF Alike
<1> QED BY <1>3, <1>4, <1>5, <1>7

\* Of one language too, they are of one original.
LEMMA SameLanguage ==
    ASSUME NEW f, Plain(f), NEW s, NEW t, Descends(s, f), Descends(t, f),
           Agree(s, t, LanguageKey)
    PROVE  s.id = t.id
<1> SUFFICES ASSUME s.id # t.id PROVE FALSE
  OBVIOUS
<1>1. Agree(s, t, PayloadKey) /\ s.lang = t.lang
  BY DEF Agree, LanguageKey, PayloadKey
<1>2. PICK i \in DOMAIN f, j \in DOMAIN f :
          Kin(s, f[i]) /\ Kin(t, f[j]) /\ Spoken(f[i].lang) # Spoken(f[j].lang)
  BY <1>1, LookOfKin
<1>3. Spoken(s.lang) = Spoken(f[i].lang) /\ Spoken(t.lang) = Spoken(f[j].lang)
  BY <1>2 DEF Kin, Spoken
<1> QED BY <1>1, <1>2, <1>3

\* So far each original has only its own, and of what is left nothing is of an
\* original that is done with.
Rightly(m, old, new) ==
    /\ \A i \in DOMAIN old : m.at[i] # 0 => new[m.at[i]].id = old[i].id
    /\ \A i \in DOMAIN old \ m.left : \A j \in m.remaining :
          new[j].id = old[i].id => new[j].id = "forged"

\* A pass that goes by language keeps it so, and leaves no two alike.
LEMMA LanguagePass ==
    ASSUME NEW f, Plain(f), NEW old, NEW new, Sourced(old, f), Sourced(new, f),
           IsList(old), IsList(new), NEW m, Matching(m, old, new), Rightly(m, old, new),
           NEW key, LanguageKey \subseteq key
    PROVE  LET r == PairPass(key, old, new, m)
           IN  /\ Rightly(r, old, new)
               /\ \A i \in r.left : \A j \in r.remaining : ~Agree(new[j], old[i], key)
<1> DEFINE Twins(i) == {j \in m.left : Agree(old[j], old[i], key)}
           Candidates(i) == {j \in m.remaining : Agree(new[j], old[i], key)}
           settled == {i \in m.left : Candidates(i) # {}}
           Paired(i) == IF Cardinality(Candidates(i)) >= Cardinality(Twins(i))
                        THEN Ordered(Candidates(i))[Rank(Twins(i), i)] ELSE 0
           consumed == UNION {IF Paired(i) = 0 THEN Candidates(i) ELSE {Paired(i)} : i \in settled}
           r == PairPass(key, old, new, m)
<1>1. /\ r.at = [i \in DOMAIN m.at |-> IF i \in settled THEN Paired(i) ELSE m.at[i]]
      /\ r.left = m.left \ settled /\ r.remaining = m.remaining \ consumed
  BY DEF PairPass
<1>2. /\ DOMAIN m.at = DOMAIN old /\ m.left \in SUBSET DOMAIN old
      /\ m.remaining \in SUBSET DOMAIN new
  BY DEF Matching
<1>3. ASSUME NEW i \in settled, Paired(i) # 0
      PROVE  Paired(i) \in Candidates(i)
  <2>1. i \in Twins(i) /\ Twins(i) \in SUBSET DOMAIN old /\ Candidates(i) \in SUBSET DOMAIN new
    BY <1>2 DEF Agree
  <2>2. /\ Twins(i) \in SUBSET Nat /\ IsFiniteSet(Twins(i))
        /\ Candidates(i) \in SUBSET Nat /\ IsFiniteSet(Candidates(i))
    <3> HIDE DEF Twins, Candidates
    <3> QED BY <2>1, ListFits, FS_Subset
  <2>3. Cardinality(Candidates(i)) >= Cardinality(Twins(i))
        /\ Paired(i) = Ordered(Candidates(i))[Rank(Twins(i), i)]
    BY <1>3
  <2> HIDE DEF Twins, Candidates, Paired, settled
  <2> QED BY <2>1, <2>2, <2>3, PlaceFits
<1>4. ASSUME NEW i \in DOMAIN old, NEW j \in Candidates(i)
      PROVE  j \in DOMAIN new /\ new[j].id = old[i].id
  <2>1. j \in DOMAIN new /\ Agree(new[j], old[i], LanguageKey)
    BY <1>2 DEF Agree
  <2>2. Descends(new[j], f) /\ Descends(old[i], f)
    BY <2>1 DEF Sourced
  <2> QED BY <2>1, <2>2, SameLanguage
<1>5. \A i \in settled : i \in m.left /\ Candidates(i) # {} /\ Candidates(i) \in SUBSET m.remaining
  OBVIOUS
<1>6. \A i \in settled : IF Paired(i) = 0 THEN Candidates(i) \subseteq consumed
                         ELSE Paired(i) \in consumed
  OBVIOUS
<1>7. \A i \in m.left \ settled : \A j \in m.remaining : ~Agree(new[j], old[i], key)
  OBVIOUS
<1> HIDE DEF Twins, Candidates, settled, Paired, consumed, r
<1>8. ASSUME NEW i \in DOMAIN old, r.at[i] # 0 PROVE new[r.at[i]].id = old[i].id
  <2>1. CASE i \in settled
    BY <1>1, <1>2, <1>3, <1>4, <1>8, <2>1
  <2>2. CASE i \notin settled
    BY <1>1, <1>2, <1>8, <2>2 DEF Rightly
  <2> QED BY <2>1, <2>2
<1>9. ASSUME NEW i \in DOMAIN old \ r.left, NEW j \in r.remaining, new[j].id = old[i].id,
             new[j].id # "forged"
      PROVE  FALSE
  <2>1. j \in m.remaining /\ j \notin consumed /\ j \in DOMAIN new
    BY <1>1, <1>2
  <2>2. CASE i \notin m.left
    BY <1>9, <2>1, <2>2 DEF Rightly
  <2>3. CASE i \in settled
    <3>1. ASSUME NEW k \in Candidates(i) PROVE k = j
      <4>1. k \in DOMAIN new /\ new[k].id = new[j].id
        BY <1>4, <1>9
      <4> QED BY <1>9, <2>1, <4>1 DEF Sourced, Once
    <3> QED BY <1>3, <1>5, <1>6, <2>1, <2>3, <3>1
  <2> QED BY <1>1, <2>2, <2>3
<1>10. \A i \in r.left : \A j \in r.remaining : ~Agree(new[j], old[i], key)
  BY <1>1, <1>7
<1> QED BY <1>8, <1>9, <1>10 DEF Rightly, r

\* Two members make two.
LEMMA TwoOf ==
    ASSUME NEW S, IsFiniteSet(S), NEW x \in S, NEW y \in S, x # y
    PROVE  Cardinality(S) \in Nat /\ Cardinality(S) > 1
<1>1. IsFiniteSet({x}) /\ Cardinality({x}) = 1
  BY FS_Singleton
<1>2. {x} \in SUBSET S /\ {x} # S
  OBVIOUS
<1>3. Cardinality(S) \in Nat
  BY FS_CardinalityType
<1>4. Cardinality({x}) <= Cardinality(S) /\ Cardinality({x}) # Cardinality(S)
  BY <1>2, FS_Subset
<1> QED BY <1>1, <1>3, <1>4

\* What is left after that can only be tagged since; and of one look there is one.
LEMMA PayloadPass ==
    ASSUME NEW f, Plain(f), NEW old, NEW new, Sourced(old, f), Sourced(new, f),
           IsList(old), IsList(new), Covers(old, new),
           NEW m, Matching(m, old, new), Rightly(m, old, new),
           \A i \in m.left : \A j \in m.remaining : ~Agree(new[j], old[i], LanguageKey)
    PROVE  LET r == PairPass(PayloadKey, old, new, m)
           IN  \A i \in DOMAIN old : r.at[i] # 0 => new[r.at[i]].id = old[i].id
<1> DEFINE Twins(i) == {j \in m.left : Agree(old[j], old[i], PayloadKey)}
           Candidates(i) == {j \in m.remaining : Agree(new[j], old[i], PayloadKey)}
           settled == {i \in m.left : Candidates(i) # {}}
           Paired(i) == IF Cardinality(Candidates(i)) >= Cardinality(Twins(i))
                        THEN Ordered(Candidates(i))[Rank(Twins(i), i)] ELSE 0
           r == PairPass(PayloadKey, old, new, m)
<1>1. r.at = [i \in DOMAIN m.at |-> IF i \in settled THEN Paired(i) ELSE m.at[i]]
  BY DEF PairPass
<1>2. /\ DOMAIN m.at = DOMAIN old /\ m.left \in SUBSET DOMAIN old
      /\ m.remaining \in SUBSET DOMAIN new
  BY DEF Matching
<1>3. ASSUME NEW i \in settled, Paired(i) # 0
      PROVE  /\ Paired(i) \in Candidates(i) /\ IsFiniteSet(Twins(i)) /\ i \in Twins(i)
             /\ Cardinality(Candidates(i)) >= Cardinality(Twins(i))
  <2>1. i \in Twins(i) /\ Twins(i) \in SUBSET DOMAIN old /\ Candidates(i) \in SUBSET DOMAIN new
    BY <1>2 DEF Agree
  <2>2. /\ Twins(i) \in SUBSET Nat /\ IsFiniteSet(Twins(i))
        /\ Candidates(i) \in SUBSET Nat /\ IsFiniteSet(Candidates(i))
    <3> HIDE DEF Twins, Candidates
    <3> QED BY <2>1, ListFits, FS_Subset
  <2>3. Cardinality(Candidates(i)) >= Cardinality(Twins(i))
        /\ Paired(i) = Ordered(Candidates(i))[Rank(Twins(i), i)]
    BY <1>3
  <2> HIDE DEF Twins, Candidates, Paired, settled
  <2> QED BY <2>1, <2>2, <2>3, PlaceFits
<1>4. \A i \in settled : i \in m.left
  OBVIOUS
<1> HIDE DEF settled, Paired, r
<1>5. ASSUME NEW i \in settled, Paired(i) # 0, new[Paired(i)].id # old[i].id PROVE FALSE
  <2> DEFINE j == Paired(i)
             Of(k, z) == /\ Kin(new[k], f[z]) /\ f[z].type = old[i].type
                         /\ f[z].shape = old[i].shape /\ f[z].codec = old[i].codec
                         /\ f[z].lang = "und"
  <2>1. j \in Candidates(i) /\ i \in Twins(i) /\ i \in DOMAIN old
    BY <1>2, <1>3, <1>4, <1>5
  <2>2. \A k \in Candidates(i) : k \in m.remaining /\ k \in DOMAIN new
                                 /\ Agree(new[k], old[i], PayloadKey)
    BY <1>2
  <2>3. \A h \in m.left : Agree(old[h], old[i], PayloadKey) => h \in Twins(i)
    OBVIOUS
  <2> HIDE DEF Candidates, Twins, j
  <2>4. PICK x \in DOMAIN f : Kin(old[i], f[x]) /\ Coded(f[x].codec) # "subrip"
    <3>1. Descends(new[j], f) /\ Descends(old[i], f) /\ Agree(old[i], new[j], PayloadKey)
      BY <2>1, <2>2 DEF Sourced, Agree
    <3>2. new[j].id # old[i].id
      BY <1>5 DEF j
    <3> QED BY <3>1, <3>2, LookOfKin
  <2>5. f[x].codec = old[i].codec /\ Coded(old[i].codec) # "subrip"
    BY <2>4 DEF Kin, Coded
  <2>6. ASSUME NEW k \in Candidates(i)
        PROVE  /\ \E z \in DOMAIN f : Of(k, z)
               /\ \E h \in Twins(i) : old[h].id = new[k].id
               /\ new[k].id # "forged"
    <3>1. /\ k \in m.remaining /\ k \in DOMAIN new /\ Agree(new[k], old[i], PayloadKey)
          /\ Descends(new[k], f) /\ Descends(old[i], f)
      BY <2>1, <2>2 DEF Sourced
    <3>2. new[k].id # "forged"
      <4>1. CASE new[k].id = old[i].id
        BY <2>4, <4>1 DEF Kin, Plain
      <4>2. CASE new[k].id # old[i].id
        <5>1. PICK y \in DOMAIN f : Kin(new[k], f[y])
          BY <3>1, <4>2, LookOfKin
        <5> QED BY <5>1 DEF Kin, Plain
      <4> QED BY <4>1, <4>2
    <3>3. PICK z \in DOMAIN f : Kin(new[k], f[z])
      BY <3>1, <3>2 DEF Descends, IsForged
    <3>4. PICK h \in DOMAIN old : old[h].id = new[k].id
      BY <3>1, <3>2 DEF Covers
    <3>5. h \in m.left
      BY <3>1, <3>2, <3>4 DEF Rightly
    <3>6. PICK y \in DOMAIN f : Kin(old[h], f[y])
      BY <3>2, <3>4 DEF Sourced, Descends, IsForged
    <3>7. y = z
      BY <3>3, <3>4, <3>6 DEF Kin, Plain
    <3>8. /\ f[z].type = old[i].type /\ f[z].shape = old[i].shape
          /\ new[k].codec = old[i].codec
      BY <3>1, <3>3 DEF Kin, Agree, PayloadKey
    <3>9. f[z].codec = old[i].codec
      BY <2>5, <3>3, <3>8 DEF Kin, Coded
    <3>10. old[h].type = old[i].type /\ old[h].shape = old[i].shape /\ old[h].codec = old[i].codec
      BY <2>5, <3>6, <3>7, <3>8, <3>9 DEF Kin, Coded
    <3>11. h \in Twins(i)
      BY <2>3, <3>5, <3>10 DEF Agree, PayloadKey
    <3>12. f[z].lang = "und"
      <4>1. ~Agree(new[k], old[h], LanguageKey)
        BY <3>1, <3>5
      <4>2. new[k].lang # old[h].lang
        BY <3>3, <3>8, <3>10, <4>1 DEF Agree, LanguageKey, PayloadKey, Kin
      <4> QED BY <3>3, <3>6, <3>7, <4>2 DEF Kin
    <3> QED BY <3>2, <3>3, <3>4, <3>8, <3>9, <3>11, <3>12
  <2>7. ASSUME NEW k \in Candidates(i) PROVE k = j
    <3>1. PICK z \in DOMAIN f : Of(k, z)
      BY <2>6
    <3>2. PICK y \in DOMAIN f : Of(j, y)
      BY <2>1, <2>6
    <3>3. z = y
      BY <3>1, <3>2 DEF Plain, Alike
    <3>4. new[k].id = new[j].id /\ new[k].id # "forged"
      BY <2>6, <3>1, <3>2, <3>3 DEF Kin
    <3> QED BY <2>1, <2>2, <3>4 DEF Sourced, Once
  <2>8. Candidates(i) = {j}
    BY <2>1, <2>7
  <2>9. Cardinality(Candidates(i)) = 1
    BY <2>8, FS_Singleton
  <2>10. PICK h \in Twins(i) : old[h].id = new[j].id
    BY <2>1, <2>6
  <2>11. h # i
    BY <1>5, <2>10 DEF j
  <2>12. Cardinality(Twins(i)) \in Nat /\ Cardinality(Twins(i)) > 1
    BY <1>3, <1>5, <2>1, <2>10, <2>11, TwoOf
  <2> QED BY <1>3, <1>5, <2>9, <2>12
<1>6. ASSUME NEW i \in DOMAIN old, r.at[i] # 0 PROVE new[r.at[i]].id = old[i].id
  <2>1. CASE i \in settled
    BY <1>1, <1>2, <1>5, <1>6, <2>1
  <2>2. CASE i \notin settled
    BY <1>1, <1>2, <1>6, <2>2 DEF Rightly
  <2> QED BY <2>1, <2>2
<1> QED BY <1>6 DEF r

\* Between two files of one such file as found, that every stream is paired with its
\* own, by its bytes.
THEOREM MatchesRight ==
    ASSUME NEW f, Plain(f), NEW old, NEW new, Sourced(old, f), Sourced(new, f),
           IsList(old), IsList(new), Covers(old, new)
    PROVE  LET at == MatchStreams(old, new)
           IN  \A i \in DOMAIN old : at[i] # 0 => Agree(new[at[i]], old[i], BytesKey)
<1> DEFINE start == [at |-> [i \in DOMAIN old |-> 0],
                     left |-> DOMAIN old, remaining |-> DOMAIN new]
           exact == PairPass(FullKey, old, new, start)
           language == PairPass(LanguageKey, old, new, exact)
           last == PairPass(PayloadKey, old, new, language)
<1>1. Matching(start, old, new) /\ Rightly(start, old, new)
  BY DEF Matching, Rightly
<1> HIDE DEF start
<1>2. Matching(exact, old, new)
  BY <1>1, PassFits DEF FullKey, LanguageKey
<1>3. LanguageKey \subseteq FullKey
  BY DEF FullKey
<1>4. Rightly(exact, old, new)
  BY <1>1, <1>3, LanguagePass
<1> HIDE DEF exact
<1>5. Matching(language, old, new)
  BY <1>2, PassFits DEF LanguageKey
<1>6. /\ Rightly(language, old, new)
      /\ \A i \in language.left : \A j \in language.remaining : ~Agree(new[j], old[i], LanguageKey)
  BY <1>2, <1>4, LanguagePass
<1> HIDE DEF language
<1>7. \A i \in DOMAIN old : last.at[i] # 0 => new[last.at[i]].id = old[i].id
  BY <1>5, <1>6, PayloadPass
<1>8. MatchStreams(old, new) = last.at
  BY DEF MatchStreams, last, language, exact, start
<1>9. ASSUME NEW i \in DOMAIN old, last.at[i] # 0 PROVE last.at[i] \in DOMAIN new
  BY <1>8, <1>9, MatchesApart
<1> HIDE DEF last
<1>10. \A n \in DOMAIN old : old[n].lossy = FALSE
  BY DEF Sourced, Descends, IsForged, Kin
<1>11. \A n \in DOMAIN new : new[n].lossy = FALSE
  BY DEF Sourced, Descends, IsForged, Kin
<1> QED BY <1>7, <1>8, <1>9, <1>10, <1>11 DEF Agree, BytesKey

-----------------------------------------------------------------------------
(* Where the streams come from.                                            *)

\* A run is let through: it has read the file as it is, or has just written it.
Reads == job.pc = "swapped" \/ job.kind # "queue" \/ job.input.stamp = disk.stamp

\* Everything that says something of the file on disk descends from one file as
\* found, `f`, and a point that describes it has all that is left of that.
Lineage(f) ==
    /\ Sourced(disk.streams, f)
    /\ \A p \in DOMAIN points : points[p].print = disk.stamp =>
          /\ Sourced(Originals(points[p].manifest), f)
          /\ Covers(Originals(points[p].manifest), disk.streams)
    /\ job # None => (Reads =>
          /\ Sourced(job.output, f) /\ Covers(disk.streams, job.output)
          /\ \A c \in job.point : /\ Sourced(Originals(c.manifest), f)
                                  /\ Covers(Originals(c.manifest), job.output))
    /\ revert # None => (revert.stamp = disk.stamp => Sourced(revert.output, f))

OneLine == \E c \in Cases : c = case /\ \E f \in {c.file, c.other} : Lineage(f)

\* A file of such a case is plain, and its own source.
LEMMA PlainFits ==
    ASSUME ToldApart, NoOwnAc3, NEW c \in Cases, NEW f \in {c.file, c.other}
    PROVE  Plain(f) /\ Sourced(f, f)
<1>1. Plain(f)
  BY DEF ToldApart, NoOwnAc3, Plain
<1>2. \A n \in DOMAIN f : Kin(f[n], f[n])
  BY <1>1 DEF Plain, Kin
<1>3. Once(f)
  BY <1>1 DEF Plain, Once
<1> QED BY <1>1, <1>2, <1>3 DEF Sourced, Descends

\* A remux makes a stream's kin of it; so what a run makes descends from the same.
LEMMA MadeDescends ==
    ASSUME NEW f, NEW s, IsStream(s), Descends(s, f), NEW plan, plan.reencode = FALSE,
           NEW t, Made(t, s, plan)
    PROVE  Descends(t, f) /\ t.id = s.id
<1>0. s.lossy = FALSE
  BY DEF Descends, IsForged, Kin
<1>1. /\ IsStream(t) /\ t.type = s.type /\ t.id = s.id /\ t.shape = s.shape
      /\ t.lang = s.lang \/ (s.lang = "und" /\ t.lang = "eng")
  BY MadeFits
<1>2. /\ t.codec = s.codec \/ (s.codec = "subrip" /\ t.codec = "mov_text")
      /\ t.lossy = FALSE
  BY <1>0, MadeCopies
<1>3. CASE IsForged(s)
  BY <1>1, <1>2, <1>3 DEF IsForged, Ac3Shape, Descends
<1>4. ASSUME NEW i \in DOMAIN f, Kin(s, f[i]) PROVE Kin(t, f[i])
  BY <1>1, <1>2, <1>4 DEF Kin
<1> QED BY <1>1, <1>3, <1>4 DEF Descends

\* What a run makes of a file descends from what the file does.
LEMMA OutputSourced ==
    ASSUME NEW f, NEW input, IsFile(input), Sourced(input, f), NEW plan, plan.reencode = FALSE,
           NEW output, Once(output), \A n \in DOMAIN output : Comes(output[n], input, plan)
    PROVE  Sourced(output, f) /\ Covers(input, output)
<1>1. ASSUME NEW n \in DOMAIN output
      PROVE  /\ Descends(output[n], f)
             /\ output[n].id = "forged" \/ \E i \in DOMAIN input : input[i].id = output[n].id
  <2>1. CASE IsForged(output[n])
    BY <2>1 DEF Descends, IsForged
  <2>2. ASSUME NEW i \in DOMAIN input, Made(output[n], input[i], plan)
        PROVE  Descends(output[n], f) /\ output[n].id = input[i].id
    <3>1. IsStream(input[i]) /\ Descends(input[i], f)
      BY DEF IsFile, Sourced
    <3> QED BY <2>2, <3>1, MadeDescends
  <2> QED BY <2>1, <2>2 DEF Comes
<1> QED BY <1>1 DEF Sourced, Covers

\* Of the file itself, or of a chain of two, everything is covered.
LEMMA CoversFits ==
    ASSUME NEW a, NEW b, NEW c
    PROVE  Covers(a, a) /\ (Covers(a, b) /\ Covers(b, c) => Covers(a, c))
  BY DEF Covers

\* What is said of streams matters to neither, but for the originals themselves.
LEMMA SameSource ==
    ASSUME NEW a, NEW b, DOMAIN a = DOMAIN b, NEW f, Sourced(a, f),
           \A i \in DOMAIN a : /\ IsStream(a[i]) /\ IsStream(b[i])
                               /\ Agree(a[i], b[i], PayloadKey) /\ a[i].lang = b[i].lang
                               /\ Agree(a[i], b[i], BytesKey)
    PROVE  Sourced(b, f)
<1>1. \A i \in DOMAIN a :
          /\ a[i].type = b[i].type /\ a[i].codec = b[i].codec /\ a[i].shape = b[i].shape
          /\ a[i].lang = b[i].lang /\ a[i].id = b[i].id /\ a[i].lossy = b[i].lossy
  BY DEF Agree, PayloadKey, BytesKey
<1>2. Once(b)
  BY <1>1 DEF Sourced, Once
<1>3. ASSUME NEW i \in DOMAIN b PROVE Descends(b[i], f)
  <2>1. CASE IsForged(a[i])
    BY <1>1, <2>1 DEF IsForged, Ac3Shape, Descends
  <2>2. ASSUME NEW k \in DOMAIN f, Kin(a[i], f[k]) PROVE Kin(b[i], f[k])
    BY <1>1, <2>2 DEF Kin
  <2> QED BY <2>1, <2>2 DEF Sourced, Descends
<1> QED BY <1>2, <1>3 DEF Sourced

\* What a capture from the file as it is starts from.
LEMMA BaseSourced ==
    ASSUME TInv, NEW f, Lineage(f)
    PROVE  LET old == Originals(Base(disk.streams))
           IN  Sourced(old, f) /\ Covers(old, disk.streams)
<1>1. CASE Extendable # {}
  <2>1. Extended \in Extendable
    BY <1>1 DEF Extended
  <2>2. Extended \in DOMAIN points /\ points[Extended].print = disk.stamp
    BY <2>1 DEF Extendable, Existing, Blocked
  <2> QED BY <1>1, <2>2 DEF Base, Lineage
<1>2. CASE Extendable = {}
  <2> DEFINE old == Originals(Manifest(disk.streams))
  <2>1. DOMAIN old = DOMAIN disk.streams /\ \A i \in DOMAIN old : old[i] = disk.streams[i]
    BY DEF Originals, Manifest
  <2>2. Sourced(disk.streams, f)
    BY DEF Lineage
  <2> HIDE DEF old
  <2>3. Sourced(old, f) /\ Covers(old, disk.streams)
    BY <2>1, <2>2 DEF Sourced, Once, Covers
  <2> QED BY <1>2, <2>3 DEF Base, old
<1> QED BY <1>1, <1>2

\* So what capture and attach pair is paired by its bytes.
LEMMA LinePairs ==
    ASSUME TInv, InputRead, NEW f, Plain(f), Lineage(f)
    PROVE  PairsRight(BytesKey)
<1> DEFINE c == CapturedOf(job)
<1>0. PairsRight(PayloadKey)
  BY PairsPayload
<1>1. ASSUME job.pc = "made", ~Changed, NEW i \in DOMAIN c.manifest, c.manifest[i].sidecar = 0
      PROVE  Held(job.output, c.manifest[i].processed, c.manifest[i].s, BytesKey)
  <2> DEFINE m == Base(disk.streams)
             at == MatchStreams(Originals(m), job.output)
  <2>1. job # None /\ Reads
    BY <1>1 DEF None, Changed, Reads
  <2>2. job.input = disk
    BY <1>1 DEF InputRead, Changed
  <2>3. IsFile(disk.streams) /\ IsFile(job.output) /\ \A p \in DOMAIN points : IsPoint(points[p])
    BY <2>1 DEF TInv, JobTyped, PointsFit, PointOK, DiskTyped
  <2>4. CaptureOf(c, disk.streams, job.output)
    BY <2>1, <2>2, CapturedOfFits
  <2>5. IsManifest(m)
    BY <2>3, BaseFits
  <2>6. /\ i \in DOMAIN m /\ c.manifest[i].s = m[i].s /\ c.manifest[i].processed # 0
        /\ c.manifest[i].processed = at[i]
    <3> HIDE DEF c
    <3> QED BY <1>1, <2>4 DEF CaptureOf
  <2>7. c.manifest[i].processed \in DOMAIN job.output
    BY <1>0, <1>1 DEF PairsRight, Held
  <2>8. /\ Sourced(Originals(m), f) /\ Covers(Originals(m), disk.streams)
        /\ Sourced(job.output, f) /\ Covers(disk.streams, job.output)
    BY <2>1, BaseSourced DEF Lineage
  <2> HIDE DEF c, m
  <2>9. IsFile(Originals(m)) /\ DOMAIN Originals(m) = DOMAIN m /\ Originals(m)[i] = m[i].s
    BY <2>5, <2>6, OriginalsFit
  <2>10. Covers(Originals(m), job.output)
    BY <2>8, CoversFits
  <2>11. Agree(job.output[at[i]], Originals(m)[i], BytesKey)
    BY <2>3, <2>6, <2>8, <2>9, <2>10, MatchesRight DEF IsFile
  <2> QED BY <2>6, <2>7, <2>9, <2>11 DEF Held
<1>2. ASSUME NEW p \in DOMAIN points, points[p].file = 0, points[p].print = disk.stamp,
             NEW i \in DOMAIN points[p].manifest, points[p].manifest[i].sidecar = 0,
             MatchStreams(Originals(points[p].manifest), disk.streams)[i] # 0
      PROVE  Held(disk.streams, MatchStreams(Originals(points[p].manifest), disk.streams)[i],
                  points[p].manifest[i].s, BytesKey)
  <2> DEFINE m == points[p].manifest
             at == MatchStreams(Originals(m), disk.streams)
  <2>1. IsManifest(m) /\ IsFile(disk.streams)
    BY DEF TInv, PointsFit, PointOK, IsPoint, DiskTyped
  <2>2. at[i] \in DOMAIN disk.streams
    BY <1>0, <1>2 DEF PairsRight, Held
  <2>3. /\ Sourced(Originals(m), f) /\ Covers(Originals(m), disk.streams)
        /\ Sourced(disk.streams, f)
    BY <1>2 DEF Lineage
  <2>4. IsFile(Originals(m)) /\ DOMAIN Originals(m) = DOMAIN m /\ Originals(m)[i] = m[i].s
    BY <2>1, OriginalsFit
  <2> HIDE DEF m
  <2>5. Agree(disk.streams[at[i]], Originals(m)[i], BytesKey)
    BY <1>2, <2>1, <2>3, <2>4, MatchesRight DEF IsFile, m
  <2> QED BY <2>2, <2>4, <2>5 DEF Held, m
<1> QED BY <1>1, <1>2 DEF PairsRight

\* No step changes the case.
LEMMA CaseStays == [Next]_vars => case' = case
<1> SUFFICES ASSUME [Next]_vars PROVE case' = case
  OBVIOUS
<1>1. CASE BeginQueueJob \/ BeginForgeAdd \/ BeginForgeUndo
  BY <1>1 DEF BeginQueueJob, BeginForgeAdd, BeginForgeUndo, Begin
<1>2. CASE SettleForgeUndo \/ Capture \/ GoWithout \/ Fail \/ StopForChange \/ Cancel
  BY <1>2 DEF SettleForgeUndo, Capture, GoWithout, Fail, StopForChange, Cancel
<1>3. CASE Swap \/ Record \/ RecordFails \/ Crash
  BY <1>3 DEF Swap, Record, RecordFails, Crash
<1>4. CASE SwapRevert \/ RefuseRevert \/ EndRevert \/ Replaced \/ Renamed
  BY <1>4 DEF SwapRevert, RefuseRevert, EndRevert, Replaced, Renamed
<1>5. CASE \E p \in DOMAIN points : StartRevert(p) \/ Attach(p)
  BY <1>5 DEF StartRevert, Attach
<1>6. CASE \E doomed \in SUBSET DOMAIN points : Discard(doomed) \/ Sweep(doomed)
  BY <1>6 DEF Discard, Sweep
<1>7. CASE UNCHANGED vars
  BY <1>7 DEF vars
<1> QED BY <1>1, <1>2, <1>3, <1>4, <1>5, <1>6, <1>7 DEF Next

\* A stamp that is new is no point's, and no run's.
LEMMA NewStamp ==
    ASSUME TInv, disk'.stamp = used.stamps + 1
    PROVE  /\ \A p \in DOMAIN points : points[p].print # disk'.stamp
           /\ job # None => job.input.stamp # disk'.stamp
           /\ revert # None => revert.stamp # disk'.stamp
<1>1. used.stamps \in Nat
  BY DEF TInv, Counted
<1>2. \A p \in DOMAIN points : points[p].print \in 1 .. used.stamps
  BY DEF TInv, PointsFit, PointOK
<1>3. /\ job # None => job.input.stamp \in 1 .. used.stamps
      /\ revert # None => revert.stamp \in 1 .. used.stamps
  BY DEF TInv, JobTyped, RevertTyped
<1> QED BY <1>1, <1>2, <1>3

\* A rename or an attach leaves each point its originals.
LEMMA OriginalsStay ==
    ASSUME TInv, Renamed \/ \E p \in DOMAIN points : Attach(p)
    PROVE  /\ UNCHANGED <<disk, job, revert>> /\ DOMAIN points' = DOMAIN points
           /\ \A p \in DOMAIN points :
                 /\ points'[p].print = points[p].print
                 /\ Originals(points'[p].manifest) = Originals(points[p].manifest)
<1>0. \A p \in DOMAIN points :
          /\ DOMAIN points[p] = {"file", "sidecar", "manifest", "print"}
          /\ \A i \in DOMAIN points[p].manifest : IsEntry(points[p].manifest[i])
  BY DEF TInv, PointsFit, PointOK, IsPoint, IsManifest
<1>1. CASE Renamed
  <2>1. /\ UNCHANGED <<disk, job, revert>>
        /\ points' = [p \in DOMAIN points |-> [points[p] EXCEPT !.file = 0]]
    BY <1>1 DEF Renamed
  <2>2. \A p \in DOMAIN points :
            points'[p].print = points[p].print /\ points'[p].manifest = points[p].manifest
    BY <1>0, <2>1
  <2> QED BY <2>1, <2>2
<1>2. ASSUME NEW p \in DOMAIN points, Attach(p)
      PROVE  /\ UNCHANGED <<disk, job, revert>> /\ DOMAIN points' = DOMAIN points
             /\ \A x \in DOMAIN points :
                   /\ points'[x].print = points[x].print
                   /\ Originals(points'[x].manifest) = Originals(points[x].manifest)
  <2> DEFINE m == points[p].manifest
             at == MatchStreams(Originals(m), disk.streams)
             n == [i \in DOMAIN m |-> [m[i] EXCEPT !.processed = at[i]]]
  <2>1. /\ UNCHANGED <<disk, job, revert>>
        /\ points' = [points EXCEPT ![p].file = media,
                ![p].manifest = [i \in DOMAIN @ |-> [@[i] EXCEPT !.processed = at[i]]]]
    BY <1>2 DEF Attach
  <2>2. /\ DOMAIN points' = DOMAIN points
        /\ \A x \in DOMAIN points : x # p => points'[x] = points[x]
    BY <2>1
  <2>3. points'[p].print = points[p].print /\ points'[p].manifest = n
    BY <1>0, <2>1
  <2>4. DOMAIN n = DOMAIN m /\ \A i \in DOMAIN m : n[i].s = m[i].s
    BY <1>0 DEF IsEntry
  <2> HIDE DEF n, m
  <2>5. Originals(n) = Originals(m)
    BY <2>4 DEF Originals
  <2> QED BY <2>1, <2>2, <2>3, <2>5 DEF m
<1> QED BY <1>1, <1>2

\* A capture's originals are those it starts from.
LEMMA CaptureSourced ==
    ASSUME TInv, InputRead, job # None, job.pc = "made", ~Changed, NEW f, Lineage(f)
    PROVE  LET c == CapturedOf(job)
           IN  Sourced(Originals(c.manifest), f) /\ Covers(Originals(c.manifest), job.output)
<1> DEFINE c == CapturedOf(job)
           m == Base(disk.streams)
<1>1. job.input = disk /\ Reads
  BY DEF InputRead, Changed, Reads
<1>2. CaptureOf(c, disk.streams, job.output)
  BY <1>1, CapturedOfFits
<1>3. /\ Sourced(Originals(m), f) /\ Covers(Originals(m), disk.streams)
      /\ Covers(disk.streams, job.output)
  BY <1>1, BaseSourced DEF Lineage
<1> HIDE DEF c, m
<1>4. Originals(c.manifest) = Originals(m)
  BY <1>2 DEF CaptureOf, Originals, m
<1>5. Covers(Originals(m), job.output)
  BY <1>3, CoversFits
<1> QED BY <1>3, <1>4, <1>5 DEF c

\* A revert makes the originals of its point again, so its output is as they are.
LEMMA RestoredSourced ==
    ASSUME TInv, Holds(BytesKey), NEW p \in DOMAIN points, ~Blocked(p), NEW f, Lineage(f)
    PROVE  Sourced(Restored(p), f)
<1> DEFINE m == points[p].manifest
           a == Originals(m)
           b == Restored(p)
<1>1. IsManifest(m)
  BY DEF TInv, PointsFit, PointOK, IsPoint
<1>2. Sourced(a, f)
  BY DEF Blocked, Lineage
<1>3. IsFile(b) /\ DOMAIN b = DOMAIN m
      /\ \A i \in DOMAIN m : /\ b[i].id = Located(p, i).id /\ b[i].lossy = Located(p, i).lossy
                             /\ b[i].lang = m[i].s.lang /\ Agree(b[i], m[i].s, PayloadKey)
  BY <1>1, RestoredFits
<1>4. \A i \in DOMAIN m : Agree(Located(p, i), m[i].s, BytesKey)
  BY LocatedAgrees
<1>5. IsFile(a) /\ DOMAIN a = DOMAIN m /\ \A i \in DOMAIN m : a[i] = m[i].s
  BY <1>1, OriginalsFit
<1> HIDE DEF a, b, m
<1>6. ASSUME NEW i \in DOMAIN a
      PROVE  /\ IsStream(a[i]) /\ IsStream(b[i]) /\ a[i].lang = b[i].lang
             /\ Agree(a[i], b[i], PayloadKey) /\ Agree(a[i], b[i], BytesKey)
  BY <1>3, <1>4, <1>5 DEF IsFile, Agree, BytesKey
<1> QED BY <1>2, <1>3, <1>5, <1>6, SameSource DEF b

\* A run that begins works on the file as it is.
LEMMA LineBegins ==
    ASSUME ToldApart, NoOwnAc3, TInv, NEW f, Lineage(f), Begun PROVE Lineage(f)'
<1>1. PICK kind, name, output, reencoded, plan :
          /\ Begin(kind, name, output, reencoded) /\ plan.reencode \in {FALSE, case.reencode}
          /\ \A n \in DOMAIN output : Comes(output[n], disk.streams, plan)
          /\ Once(disk.streams) => Once(output)
  BY DEF Begun
<1>2. /\ UNCHANGED <<disk, points, revert>>
      /\ job'.output = output /\ job'.point = {}
  BY <1>1 DEF Begin
<1>3. plan.reencode = FALSE
  BY <1>1 DEF ToldApart, TInv, Counted
<1>4. Sourced(disk.streams, f) /\ Once(disk.streams) /\ IsFile(disk.streams)
  BY DEF Lineage, Sourced, TInv, DiskTyped
<1>5. Sourced(output, f) /\ Covers(disk.streams, output)
  BY <1>1, <1>3, <1>4, OutputSourced
<1> QED BY <1>2, <1>5 DEF Lineage

\* A swap puts what descends from `f` in the place of what did.
LEMMA LineSwaps ==
    ASSUME TInv, InputRead, NEW f, Lineage(f), Swap \/ SwapRevert PROVE Lineage(f)'
<1>1. CASE Swap
  <2>1. /\ job # None /\ Reads /\ UNCHANGED <<points, revert>>
        /\ disk'.streams = job.output /\ disk'.stamp = used.stamps + 1
        /\ job'.output = job.output /\ job'.point = job.point
    BY <1>1, SwapDoes DEF Changed, Reads
  <2>2. /\ \A p \in DOMAIN points : points[p].print # disk'.stamp
        /\ revert # None => revert.stamp # disk'.stamp
    BY <2>1, NewStamp
  <2>3. /\ Sourced(job.output, f) /\ Covers(job.output, job.output)
        /\ \A c \in job.point : /\ Sourced(Originals(c.manifest), f)
                                /\ Covers(Originals(c.manifest), job.output)
    BY <2>1, CoversFits DEF Lineage
  <2> QED BY <2>1, <2>2, <2>3 DEF Lineage
<1>2. CASE SwapRevert
  <2>1. /\ UNCHANGED <<points, job>> /\ disk'.stamp = used.stamps + 1
        /\ revert # None /\ disk'.streams = revert.output /\ revert'.stamp = revert.stamp
        /\ disk.stamp = revert.stamp
    BY <1>2, ElseDoes, SwapRevertDoes
  <2>2. job = None
    BY <2>1 DEF TInv, OneAtATime
  <2>3. /\ \A p \in DOMAIN points : points[p].print # disk'.stamp
        /\ revert'.stamp # disk'.stamp
    BY <2>1, NewStamp
  <2>4. Sourced(revert.output, f)
    BY <2>1 DEF Lineage
  <2> QED BY <2>1, <2>2, <2>3, <2>4 DEF Lineage
<1> QED BY <1>1, <1>2

\* What is recorded is the point of the run that wrote the file.
LEMMA LineRecords ==
    ASSUME TInv, InputRead, NEW f, Lineage(f), Record, job.point # {} PROVE Lineage(f)'
<1>1. PICK c \in job.point, p \in Nat,
           file \in {media} \cup {points[x].file : x \in DOMAIN points} :
          points' = With(points, p, [file |-> file, sidecar |-> c.name,
                                     manifest |-> c.manifest, print |-> disk.stamp])
  BY RecordWrites
<1>2. job # None /\ Reads /\ job' = None /\ UNCHANGED <<disk, revert>>
      /\ disk.streams = job.output
  BY DEF Record, None, Reads, InputRead
<1>3. /\ DOMAIN points' = DOMAIN points \cup {p} /\ points'[p].manifest = c.manifest
      /\ \A x \in DOMAIN points : x # p => points'[x] = points[x]
  BY <1>1 DEF With
<1>4. Sourced(Originals(c.manifest), f) /\ Covers(Originals(c.manifest), disk.streams)
  BY <1>2 DEF Lineage
<1>5. ASSUME NEW x \in DOMAIN points', points'[x].print = disk'.stamp
      PROVE  /\ Sourced(Originals(points'[x].manifest), f)
             /\ Covers(Originals(points'[x].manifest), disk.streams)
  <2>1. CASE x = p
    BY <1>3, <1>4, <2>1
  <2>2. CASE x # p
    BY <1>2, <1>3, <1>5, <2>2 DEF Lineage
  <2> QED BY <2>1, <2>2
<1> QED BY <1>2, <1>5 DEF Lineage

\* An upgrade begins a line of its own: nothing else is of the new file.
LEMMA LineReplaced ==
    ASSUME ToldApart, NoOwnAc3, Gaps = FALSE, TInv, Replaced,
           NEW c \in Cases, c = case
    PROVE  Lineage(c.other)'
<1>1. /\ job.pc \in {"made", "captured"} => job.kind = "queue"
      /\ job.pc # "swapped"
      /\ disk' = [streams |-> case.other, stamp |-> used.stamps + 1]
      /\ UNCHANGED <<points, job, revert>>
  BY DEF Replaced
<1>2. disk'.streams = c.other /\ disk'.stamp = used.stamps + 1
  BY <1>1
<1>3. Sourced(c.other, c.other)
  BY PlainFits
<1>4. /\ \A p \in DOMAIN points : points[p].print # disk'.stamp
      /\ job # None => job.input.stamp # disk'.stamp
      /\ revert # None => revert.stamp # disk'.stamp
  BY <1>2, NewStamp
<1>5. job # None => job.pc # "swapped" /\ job.kind = "queue"
  BY <1>1 DEF TInv, JobTyped
<1>6. job' # None => ~Reads'
  BY <1>1, <1>4, <1>5 DEF Reads
<1> QED BY <1>1, <1>2, <1>3, <1>4, <1>6 DEF Lineage

\* The other steps change nothing that a line is about.
LEMMA LineRest ==
    ASSUME TInv, InputRead, Holds(BytesKey), NEW f, Lineage(f),
           \/ Quiet \/ Capture \/ Renamed \/ \E p \in DOMAIN points : StartRevert(p) \/ Attach(p)
    PROVE  Lineage(f)'
<1>1. CASE Quiet
  <2>1. disk' = disk /\ revert' \in {revert, None}
        /\ \A p \in DOMAIN points' : p \in DOMAIN points /\ points'[p] = points[p]
    BY <1>1 DEF Quiet
  <2>2. CASE job' = None
    BY <2>1, <2>2 DEF Lineage
  <2>3. CASE job' # None
    <3>1. /\ job # None /\ job'.kind = job.kind /\ job'.input = job.input
          /\ job'.output = job.output /\ job'.point \subseteq job.point
          /\ job'.pc = job.pc \/ (job.pc = "made" /\ job'.pc = "captured")
      BY <1>1, <2>3 DEF Quiet
    <3>2. Reads' => Reads
      BY <2>1, <3>1 DEF Reads
    <3> QED BY <2>1, <3>1, <3>2 DEF Lineage
  <2> QED BY <2>2, <2>3
<1>2. CASE Capture
  <2> DEFINE c == CapturedOf(job)
  <2>1. /\ job # None /\ job.pc = "made" /\ ~Changed
        /\ UNCHANGED <<disk, points, revert>> /\ job'.output = job.output
        /\ job'.point = {} \/ job'.point = {c}
    BY <1>2, CaptureDoes
  <2>2. Sourced(Originals(c.manifest), f) /\ Covers(Originals(c.manifest), job.output)
    BY <2>1, CaptureSourced
  <2> HIDE DEF c
  <2>3. Sourced(job.output, f) /\ Covers(disk.streams, job.output)
    BY <2>1 DEF Lineage, Reads, Changed
  <2> QED BY <2>1, <2>2, <2>3 DEF Lineage
<1>3. CASE Renamed \/ \E p \in DOMAIN points : Attach(p)
  <2>1. /\ UNCHANGED <<disk, job, revert>> /\ DOMAIN points' = DOMAIN points
        /\ \A p \in DOMAIN points :
              /\ points'[p].print = points[p].print
              /\ Originals(points'[p].manifest) = Originals(points[p].manifest)
    BY <1>3, OriginalsStay
  <2>2. Reads' <=> Reads
    BY <2>1 DEF Reads
  <2> QED BY <2>1, <2>2 DEF Lineage
<1>4. ASSUME NEW p \in DOMAIN points, StartRevert(p) PROVE Lineage(f)'
  <2>1. /\ ~Blocked(p) /\ UNCHANGED <<disk, points, job>> /\ job = None
        /\ revert'.output = Restored(p)
    BY <1>4 DEF StartRevert, Offered
  <2>2. Sourced(Restored(p), f)
    BY <2>1, RestoredSourced
  <2> QED BY <2>1, <2>2 DEF Lineage
<1> QED BY <1>1, <1>2, <1>3, <1>4

\* So there is one line in every state, if an upgrade may have changed which.
LEMMA LineStep ==
    ASSUME ToldApart, NoOwnAc3, Gaps = FALSE, TInv, InputRead, Holds(BytesKey), OneLine,
           [Next]_vars
    PROVE  OneLine'
<1>0. PICK c \in Cases : c = case /\ \E f \in {c.file, c.other} : Lineage(f)
  BY DEF OneLine
<1>1. PICK f \in {c.file, c.other} : Lineage(f)
  BY <1>0
<1>2. c = case'
  BY <1>0, CaseStays
<1>3. Lineage(f)' \/ Lineage(c.other)'
  <2>1. CASE Begun
    BY <1>1, <2>1, LineBegins
  <2>2. CASE Swap \/ SwapRevert
    BY <1>1, <2>2, LineSwaps
  <2>3. CASE Record /\ job.point # {}
    BY <1>1, <2>3, LineRecords
  <2>4. CASE Replaced
    BY <1>0, <2>4, LineReplaced
  <2>5. CASE Quiet \/ Capture \/ Renamed \/ \E p \in DOMAIN points : StartRevert(p) \/ Attach(p)
    BY <1>1, <2>5, LineRest
  <2> QED BY <2>1, <2>2, <2>3, <2>4, <2>5, StepFits
<1> QED BY <1>2, <1>3 DEF OneLine

\* It begins with the file as found.
LEMMA LineInit == ASSUME ToldApart, NoOwnAc3, Init PROVE OneLine
<1>1. /\ case \in Cases /\ disk.streams = case.file /\ DOMAIN points = {}
      /\ job = None /\ revert = None
  BY DEF Init
<1>2. PICK c \in Cases : c = case
  BY <1>1
<1>3. Sourced(c.file, c.file)
  BY PlainFits
<1>4. Lineage(c.file)
  BY <1>1, <1>2, <1>3 DEF Lineage
<1> QED BY <1>2, <1>4 DEF OneLine

\* Files whose tracks can be told apart, by what ffprobe says of them and whatever
\* the runs make of that: what is paired is paired by its bytes.
THEOREM PairingIsRight ==
    ASSUME ReusedIds = FALSE, Gaps = FALSE, NoOwnAc3, ToldApart
    PROVE  Spec => []PairsRight(BytesKey)
<1> DEFINE All == Inv(BytesKey) /\ OneLine
<1>1. Init => All
  BY InvInit, LineInit
<1>2. All => PairsRight(BytesKey)
  <2> SUFFICES ASSUME All PROVE PairsRight(BytesKey)
    OBVIOUS
  <2>0. PICK c \in Cases : \E f \in {c.file, c.other} : Lineage(f)
    BY DEF OneLine
  <2>1. PICK f \in {c.file, c.other} : Lineage(f)
    BY <2>0
  <2>2. Plain(f)
    BY PlainFits
  <2> QED BY <2>1, <2>2, LinePairs DEF Inv
<1>3. All /\ [Next]_vars => All'
  BY <1>2, InvStep, LineStep DEF Inv
<1> HIDE DEF All
<1> QED BY <1>1, <1>2, <1>3, PTL DEF Spec

\* For such files a revert always puts back the original, byte for byte and in its
\* order, whatever happened to the file since.
THEOREM PlainRevertIsRight ==
    ASSUME ReusedIds = FALSE, Gaps = FALSE, NoOwnAc3, ToldApart
    PROVE  Spec => RevertGivesBack
  BY PairingIsRight, RevertIsRight, PTL

\* And what runs took from the file is in it, or can be got back, in every state.
THEOREM PlainOriginalIsKept ==
    ASSUME ReusedIds = FALSE, Gaps = FALSE, NoOwnAc3, ToldApart
    PROVE  Spec => []OriginalKept
  BY PairingIsRight, OriginalIsKept, PTL

=============================================================================
