-------------------------- MODULE VancCodecsProofs --------------------------
(***************************************************************************)
(* Proofs about VancCodecs: whatever a codec makes of a struct, a line of  *)
(* v210 carries its frame, in any of the three formats and for any number  *)
(* of samples behind the last whole group of six.                          *)
(***************************************************************************)
EXTENDS VancCodecs, TLAPS, SequenceTheorems, WellFoundedInduction

(* Recursion over the naturals *)

Less == {ss \in Nat \X Nat : ss[1] < ss[2]}

\* A set of naturals with 0 and all successors is the set of all naturals.
LEMMA InductiveSet ==
  ASSUME NEW T \in SUBSET Nat, 0 \in T, \A n \in T : n + 1 \in T
  PROVE  T = Nat
<1> SUFFICES ASSUME Nat \ T # {} PROVE FALSE
  OBVIOUS
<1>1. IsWellFoundedOn(Less, Nat)
  BY NatLessThanWellFounded DEF OpToRel, Less
<1>2. Nat \ T \in SUBSET Nat /\ Nat \ T # {}
  OBVIOUS
<1>3. PICK n \in Nat \ T : \A m \in Nat \ T : ~(<<m, n>> \in Less)
  BY <1>1, <1>2, WFMin
<1>4. n # 0 /\ n - 1 \in Nat /\ n - 1 < n
  BY <1>3
<1>5. n - 1 \in T
  BY <1>3, <1>4 DEF Less
<1>6. (n - 1) + 1 \in T
  BY <1>5
<1> QED BY <1>3, <1>6

----------------------------------------------------------------------------
(* Sequences one after the other                                           *)

\* What has been joined after each of the first n sequences.
IsJoined(f, n, seqs, S) ==
  /\ f \in [0 .. n -> Seq(S)] /\ f[0] = <<>>
  /\ \A k \in 1 .. n : f[k] = f[k - 1] \o seqs[k]

LEMMA JoinedExists ==
  ASSUME NEW S, NEW seqs \in Seq(Seq(S))
  PROVE  \E f : IsJoined(f, Len(seqs), seqs, S)
<1> DEFINE N == Len(seqs)
           T == {m \in Nat : m <= N => \E f : IsJoined(f, m, seqs, S)}
<1>0. N \in Nat /\ \A k \in 1 .. N : seqs[k] \in Seq(S)
  BY ElementOfSeq
<1> HIDE DEF N
<1>1. 0 \in T
  <2>1. IsJoined([k \in 0 .. 0 |-> <<>>], 0, seqs, S)
    BY DEF IsJoined
  <2> QED BY <2>1
<1>2. ASSUME NEW m \in T PROVE m + 1 \in T
  <2>0. m \in Nat
    OBVIOUS
  <2> SUFFICES ASSUME m + 1 <= N PROVE \E f : IsJoined(f, m + 1, seqs, S)
    BY <2>0
  <2>1. PICK f : IsJoined(f, m, seqs, S)
    BY <1>0, <2>0
  <2> DEFINE h == [k \in 0 .. m + 1 |-> IF k <= m THEN f[k] ELSE f[m] \o seqs[m + 1]]
  <2>2. f[m] \in Seq(S) /\ seqs[m + 1] \in Seq(S)
    BY <1>0, <2>0, <2>1 DEF IsJoined
  <2>3. f[m] \o seqs[m + 1] \in Seq(S)
    BY <2>2
  <2>4. h \in [0 .. m + 1 -> Seq(S)] /\ h[0] = <<>>
    BY <2>0, <2>1, <2>3 DEF IsJoined
  <2>5. ASSUME NEW k \in 1 .. m + 1 PROVE h[k] = h[k - 1] \o seqs[k]
    <3>1. h[k - 1] = f[k - 1] /\ (k <= m => h[k] = f[k] /\ k \in 1 .. m)
      BY <2>0
    <3>2. k = m + 1 => h[k] = f[m] \o seqs[m + 1] /\ k - 1 = m
      <4>1. m + 1 \in 0 .. m + 1 /\ ~(m + 1 <= m)
        BY <2>0
      <4>2. h[m + 1] = f[m] \o seqs[m + 1]
        BY <4>1, Zenon
      <4> QED BY <2>0, <4>2
    <3>3. k <= m \/ k = m + 1
      BY <2>0
    <3> HIDE DEF h
    <3> QED BY <2>1, <3>1, <3>2, <3>3 DEF IsJoined
  <2> HIDE DEF h
  <2> QED BY <2>4, <2>5 DEF IsJoined
<1>3. T \in SUBSET Nat
  OBVIOUS
<1> HIDE DEF T
<1>4. N \in T
  BY <1>0, <1>1, <1>2, <1>3, InductiveSet
<1>5. \E f : IsJoined(f, N, seqs, S)
  BY <1>0, <1>4 DEF T
<1> QED BY <1>5 DEF N

LEMMA FlattenIsJoined ==
  ASSUME NEW S, NEW seqs \in Seq(Seq(S)), NEW f, IsJoined(f, Len(seqs), seqs, S)
  PROVE  FlattenSeq(seqs) = f[Len(seqs)]
<1> DEFINE N == Len(seqs)
           F(g) == [i \in 1 .. N |-> IF i = 1 THEN seqs[i] ELSE g[i - 1] \o seqs[i]]
           z == [i \in 1 .. N |-> f[i]]
           flat == CHOOSE g : g = F(g)
<1>0. N \in Nat /\ \A k \in 1 .. N : seqs[k] \in Seq(S)
  BY ElementOfSeq
<1>1. FlattenSeq(seqs) = IF N = 0 THEN seqs ELSE flat[N]
  BY DEF FlattenSeq
<1>2. CASE N = 0
  <2>1. seqs = <<>>
    BY <1>2
  <2> QED BY <1>1, <1>2, <2>1 DEF IsJoined
<1>3. CASE N # 0
  <2>1. f[1] = seqs[1]
    <3>1. 1 \in 1 .. N
      BY <1>0, <1>3
    <3>2. \A k \in 1 .. N : f[k] = f[k - 1] \o seqs[k]
      BY DEF IsJoined
    <3>3. f[1] = <<>> \o seqs[1]
      <4> HIDE DEF N
      <4>1. f[1] = f[1 - 1] \o seqs[1]
        BY <3>1, <3>2, Zenon
      <4>2. 1 - 1 = 0 /\ f[0] = <<>>
        BY DEF IsJoined
      <4> QED BY <4>1, <4>2
    <3>4. seqs[1] \in Seq(S)
      BY <1>0, <3>1
    <3> HIDE DEF N
    <3> QED BY <3>3, <3>4
  <2>2. \A i \in 1 .. N : z[i] = IF i = 1 THEN seqs[i] ELSE z[i - 1] \o seqs[i]
    <3> SUFFICES ASSUME NEW i \in 1 .. N
                 PROVE  z[i] = IF i = 1 THEN seqs[i] ELSE z[i - 1] \o seqs[i]
      OBVIOUS
    <3>1. f[i] = f[i - 1] \o seqs[i]
      BY DEF IsJoined
    <3>2. i # 1 => z[i - 1] = f[i - 1]
      BY <1>0
    <3> QED BY <2>1, <3>1, <3>2
  <2>3. z = F(z)
    BY <2>2
  <2> HIDE DEF F, z
  <2>4. flat = F(flat)
    BY <2>3, Zenon
  <2> HIDE DEF flat
  <2>5. \A i \in 1 .. N : flat[i] = IF i = 1 THEN seqs[i] ELSE flat[i - 1] \o seqs[i]
    BY <2>4 DEF F
  <2> HIDE DEF N
  <2> DEFINE T == {m \in Nat : m + 1 <= N => flat[m + 1] = f[m + 1]}
  <2>6. 0 \in T
    BY <1>0, <1>3, <2>1, <2>5
  <2>7. ASSUME NEW m \in T PROVE m + 1 \in T
    <3>0. m \in Nat
      OBVIOUS
    <3> SUFFICES ASSUME m + 2 <= N PROVE flat[m + 2] = f[m + 2]
      BY <1>0, <3>0
    <3>1. m + 2 \in 1 .. N /\ m + 2 # 1 /\ (m + 2) - 1 = m + 1 /\ m + 1 <= N
      BY <1>0, <3>0
    <3>2. flat[m + 2] = flat[m + 1] \o seqs[m + 2]
      BY <2>5, <3>1
    <3>3. f[m + 2] = f[m + 1] \o seqs[m + 2]
      BY <3>1 DEF IsJoined, N
    <3> QED BY <3>1, <3>2, <3>3
  <2>8. T \in SUBSET Nat
    OBVIOUS
  <2> HIDE DEF T
  <2>9. N - 1 \in T
    <3>1. T = Nat
      BY <2>6, <2>7, <2>8, InductiveSet
    <3> QED BY <1>0, <1>3, <3>1
  <2>10. flat[N] = f[N]
    BY <1>0, <1>3, <2>9 DEF T
  <2> QED BY <1>1, <1>3, <2>10 DEF N
<1> QED BY <1>2, <1>3

\* Joined sequences are a sequence.
LEMMA FlattenType ==
  ASSUME NEW S, NEW seqs \in Seq(Seq(S))
  PROVE  FlattenSeq(seqs) \in Seq(S)
<1>1. PICK f : IsJoined(f, Len(seqs), seqs, S)
  BY JoinedExists
<1>2. Len(seqs) \in 0 .. Len(seqs)
  OBVIOUS
<1> QED BY <1>1, <1>2, FlattenIsJoined DEF IsJoined

\* Of sequences of equal length, three or four, each has its place.
LEMMA FlattenEqual ==
  ASSUME NEW S, NEW seqs \in Seq(Seq(S)), NEW m \in {3, 4},
         \A k \in 1 .. Len(seqs) : Len(seqs[k]) = m
  PROVE  /\ Len(FlattenSeq(seqs)) = m * Len(seqs)
         /\ \A k \in 0 .. Len(seqs) - 1 : \A j \in 1 .. m :
              FlattenSeq(seqs)[m * k + j] = seqs[k + 1][j]
<1>1. PICK f : IsJoined(f, Len(seqs), seqs, S)
  BY JoinedExists
<1> DEFINE N == Len(seqs)
           Ok(n) == /\ f[n] \in Seq(S) /\ Len(f[n]) = m * n
                    /\ \A k \in 0 .. n - 1 : \A j \in 1 .. m : f[n][m * k + j] = seqs[k + 1][j]
           T == {n \in Nat : n <= N => Ok(n)}
<1>0. N \in Nat /\ \A k \in 1 .. N : seqs[k] \in Seq(S) /\ Len(seqs[k]) = m
  BY ElementOfSeq
<1>2. f[0] = <<>> /\ f \in [0 .. N -> Seq(S)] /\ \A k \in 1 .. N : f[k] = f[k - 1] \o seqs[k]
  BY <1>1 DEF IsJoined
<1> HIDE DEF N
<1>3. 0 \in T
  <2>1. f[0] \in Seq(S) /\ Len(f[0]) = 0
    BY <1>2
  <2>2. m * 0 = 0 /\ \A k : k \notin 0 .. 0 - 1
    OBVIOUS
  <2>3. Ok(0)
    BY <2>1, <2>2
  <2> QED BY <2>3
<1>4. ASSUME NEW n \in T PROVE n + 1 \in T
  <2>0. n \in Nat
    OBVIOUS
  <2> SUFFICES ASSUME n + 1 <= N PROVE Ok(n + 1)
    BY <1>0, <2>0
  <2>1. n <= N /\ n + 1 \in 1 .. N /\ (n + 1) - 1 = n
    BY <1>0, <2>0
  <2>a. Ok(n)
    BY <2>1
  <2> DEFINE a == f[n]
             b == seqs[n + 1]
             c == f[n + 1]
  <2>2. a \in Seq(S) /\ b \in Seq(S) /\ Len(a) = m * n /\ Len(b) = m
    BY <1>0, <2>1, <2>a
  <2>3. c = a \o b
    BY <1>2, <2>1
  <2>4. \A k \in 0 .. n - 1 : \A j \in 1 .. m : a[m * k + j] = seqs[k + 1][j]
    BY <2>a
  <2> HIDE DEF a, b, c
  <2>5. c \in Seq(S) /\ Len(c) = m * n + m /\ m * n + m = m * (n + 1)
    BY <2>0, <2>2, <2>3
  <2>6. ASSUME NEW k \in 0 .. (n + 1) - 1, NEW j \in 1 .. m
        PROVE  c[m * k + j] = seqs[k + 1][j]
    <3>1. CASE k < n
      <4>1. m * k + j \in 1 .. m * n
        <5>0. k \in Nat /\ n \in Nat /\ k + 1 <= n /\ j \in Nat /\ 1 <= j /\ j <= m
          BY <2>0, <3>1
        <5>1. m = 3 => m * k + j \in 1 .. m * n
          BY <5>0
        <5>2. m = 4 => m * k + j \in 1 .. m * n
          BY <5>0
        <5> QED BY <5>1, <5>2
      <4>2. c[m * k + j] = a[m * k + j]
        BY <2>2, <2>3, <4>1, SMTT(30)
      <4>3. k \in 0 .. n - 1
        BY <2>0, <3>1
      <4> QED BY <2>4, <4>2, <4>3
    <3>2. CASE k = n
      <4>1. c[m * n + j] = b[j]
        <5>1. m * n \in Nat
          BY <2>0
        <5> QED BY <2>2, <2>3, <5>1, SMTT(30)
      <4> QED BY <3>2, <4>1 DEF b
    <3> QED BY <2>0, <3>1, <3>2
  <2> QED BY <2>5, <2>6 DEF c
<1>5. T \in SUBSET Nat
  OBVIOUS
<1> HIDE DEF T
<1>6. N \in T
  BY <1>0, <1>3, <1>4, <1>5, InductiveSet
<1>7. N <= N => Ok(N)
  BY <1>6 DEF T
<1>8. FlattenSeq(seqs) = f[N]
  BY <1>1, FlattenIsJoined DEF N
<1> HIDE DEF Ok
<1>9. Ok(N)
  BY <1>0, <1>7
<1> QED BY <1>8, <1>9 DEF N, Ok

----------------------------------------------------------------------------
(* Lists: what a codec writes, of whatever values                          *)

IsList(s) == \E n \in Nat : s = [k \in 1 .. n |-> s[k]]

LEMMA ListFacts ==
  ASSUME NEW s, IsList(s)
  PROVE  /\ Len(s) \in Nat /\ DOMAIN s = 1 .. Len(s) /\ s = [k \in 1 .. Len(s) |-> s[k]]
         /\ s \in Seq({s[k] : k \in 1 .. Len(s)})
<1>1. PICK n \in Nat : s = [k \in 1 .. n |-> s[k]]
  BY DEF IsList
<1>2. s \in Seq({s[k] : k \in 1 .. n}) /\ DOMAIN s = 1 .. n
  BY <1>1
<1>3. Len(s) = n
  BY <1>2
<1> QED BY <1>1, <1>2, <1>3

LEMMA SeqIsList ==
  ASSUME NEW S, NEW s \in Seq(S)
  PROVE  IsList(s)
<1>1. Len(s) \in Nat /\ s = [k \in 1 .. Len(s) |-> s[k]]
  OBVIOUS
<1> QED BY <1>1 DEF IsList

LEMMA ListOfLength ==
  ASSUME NEW n \in Nat, NEW s, s = [k \in 1 .. n |-> s[k]]
  PROVE  IsList(s) /\ Len(s) = n
<1>1. IsList(s)
  BY DEF IsList
<1>2. DOMAIN s = 1 .. n
  OBVIOUS
<1> QED BY <1>1, <1>2, ListFacts

LEMMA ListConcat ==
  ASSUME NEW s, NEW t, IsList(s), IsList(t)
  PROVE  IsList(s \o t) /\ Len(s \o t) = Len(s) + Len(t)
<1> DEFINE S == {s[k] : k \in 1 .. Len(s)}
           T == {t[k] : k \in 1 .. Len(t)}
<1>1. s \in Seq(S) /\ t \in Seq(T)
  BY ListFacts
<1> HIDE DEF S, T
<1>2. s \in Seq(S \cup T) /\ t \in Seq(S \cup T)
  BY <1>1
<1>3. s \o t \in Seq(S \cup T) /\ Len(s \o t) = Len(s) + Len(t)
  BY <1>2
<1> QED BY <1>3, SeqIsList

LEMMA ListFlatten ==
  ASSUME NEW n \in Nat, NEW seqs, seqs = [k \in 1 .. n |-> seqs[k]],
         \A k \in 1 .. n : IsList(seqs[k])
  PROVE  IsList(FlattenSeq(seqs))
<1> DEFINE S == UNION {{seqs[k][j] : j \in 1 .. Len(seqs[k])} : k \in 1 .. n}
<1>1. ASSUME NEW k \in 1 .. n PROVE seqs[k] \in Seq(S)
  <2> DEFINE R == {seqs[k][j] : j \in 1 .. Len(seqs[k])}
  <2>1. seqs[k] \in Seq(R)
    BY ListFacts
  <2>2. R \subseteq S
    OBVIOUS
  <2> HIDE DEF R, S
  <2> QED BY <2>1, <2>2
<1> HIDE DEF S
<1>2. seqs \in [1 .. n -> Seq(S)]
  BY <1>1
<1>3. seqs \in Seq(Seq(S))
  BY <1>2, SeqDef
<1> QED BY <1>3, FlattenType, SeqIsList

LEMMA ListPacked ==
  ASSUME NEW bits, IsList(bits)
  PROVE  IsList(Packed(bits))
<1>1. Len(bits) \in Nat
  BY ListFacts
<1>2. PICK m \in Nat : m = (Len(bits) + 7) \div 8
  BY <1>1
<1> DEFINE p == Packed(bits)
<1>3. p = [k \in 1 .. m |-> p[k]]
  BY <1>2 DEF Packed
<1> HIDE DEF p
<1>4. IsList(p)
  BY <1>3 DEF IsList
<1> QED BY <1>4 DEF p

LEMMA ListBits ==
  ASSUME NEW v, NEW width \in Nat
  PROVE  IsList(Bits(v, width))
<1> DEFINE b == Bits(v, width)
<1>1. b = [k \in 1 .. width |-> b[k]]
  BY DEF Bits
<1> HIDE DEF b
<1>2. IsList(b)
  BY <1>1 DEF IsList
<1> QED BY <1>2 DEF b

LEMMA ListWrite ==
  ASSUME NEW fields, IsList(fields), \A k \in 1 .. Len(fields) : fields[k][2] \in Nat
  PROVE  IsList(Write(fields))
<1> DEFINE seqs == [k \in DOMAIN fields |-> Bits(fields[k][1], fields[k][2])]
<1>1. PICK n \in Nat : n = Len(fields) /\ DOMAIN fields = 1 .. n
  BY ListFacts
<1>2. \A k \in 1 .. n : IsList(seqs[k])
  BY <1>1, ListBits
<1>3. seqs = [k \in 1 .. n |-> seqs[k]]
  BY <1>1
<1>4. Write(fields) = FlattenSeq(seqs)
  BY DEF Write
<1> HIDE DEF seqs
<1> QED BY <1>2, <1>3, <1>4, ListFlatten

LEMMA ListWriteBytes ==
  ASSUME NEW bytes, Len(bytes) \in Nat
  PROVE  IsList(WriteBytes(bytes))
<1> DEFINE b == WriteBytes(bytes)
<1>1. PICK n \in Nat : n = 8 * Len(bytes)
  OBVIOUS
<1>2. b = [k \in 1 .. n |-> b[k]]
  BY <1>1 DEF WriteBytes
<1> HIDE DEF b
<1>3. IsList(b)
  BY <1>2 DEF IsList
<1> QED BY <1>3 DEF b

\* The codecs of fixed layout.
LEMMA Eia608List ==
  ASSUME NEW pkt
  PROVE  IsList(klvanc_convert_EIA_608_to_packetBytes(pkt))
<1> DEFINE f == << <<IF pkt.field = 0 THEN 1 ELSE 0, 1>>, <<0, 2>>, <<pkt.line_offset, 5>>,
                  <<pkt.cc_data_1, 8>>, <<pkt.cc_data_2, 8>> >>
<1>1. f = [k \in 1 .. 5 |-> f[k]] /\ \A k \in 1 .. 5 : f[k][2] \in Nat
  OBVIOUS
<1> HIDE DEF f
<1>2. IsList(f) /\ Len(f) = 5
  BY <1>1, ListOfLength
<1>3. IsList(Packed(Write(f)))
  BY <1>1, <1>2, ListWrite, ListPacked
<1> QED BY <1>3 DEF f, klvanc_convert_EIA_608_to_packetBytes

\* Fields one after the other.
LEMMA FieldsConcat ==
  ASSUME NEW f, IsList(f), \A k \in 1 .. Len(f) : f[k][2] \in Nat,
         NEW g, IsList(g), \A k \in 1 .. Len(g) : g[k][2] \in Nat
  PROVE  IsList(f \o g) /\ \A k \in 1 .. Len(f \o g) : (f \o g)[k][2] \in Nat
<1> DEFINE F == {f[k] : k \in 1 .. Len(f)}
           G == {g[k] : k \in 1 .. Len(g)}
           h == f \o g
<1>1. f \in Seq(F) /\ g \in Seq(G)
  BY ListFacts
<1>2. \A x \in F \cup G : x[2] \in Nat
  OBVIOUS
<1> HIDE DEF F, G
<1>3. f \in Seq(F \cup G) /\ g \in Seq(F \cup G)
  BY <1>1
<1>4. h \in Seq(F \cup G)
  BY <1>3
<1>5. IsList(h)
  BY ListConcat
<1> HIDE DEF h
<1>6. \A k \in 1 .. Len(h) : h[k] \in F \cup G
  BY <1>4, ElementOfSeq
<1> QED BY <1>2, <1>5, <1>6 DEF h

LEMMA CounterList ==
  ASSUME NEW pkt
  PROVE  IsList(CounterBytes(pkt))
<1> DEFINE f == << <<pkt.counter, 64>> >>
<1>1. f = [k \in 1 .. 1 |-> f[k]] /\ \A k \in 1 .. 1 : f[k][2] \in Nat
  OBVIOUS
<1> HIDE DEF f
<1>2. IsList(f) /\ Len(f) = 1
  BY <1>1, ListOfLength
<1>3. IsList(Packed(Write(f)))
  BY <1>1, <1>2, ListWrite, ListPacked
<1> QED BY <1>3 DEF f, CounterBytes

LEMMA TimeCodeList ==
  ASSUME NEW pkt
  PROVE  IsList(klvanc_convert_SMPTE_12_2_to_packetBytes(pkt))
<1> DEFINE b == klvanc_convert_SMPTE_12_2_to_packetBytes(pkt)
<1>1. CASE IsTimeCode(pkt.dbb1)
  <2>1. b = [k \in 1 .. 16 |-> b[k]]
    BY <1>1 DEF klvanc_convert_SMPTE_12_2_to_packetBytes
  <2> HIDE DEF b
  <2>2. IsList(b)
    BY <2>1 DEF IsList
  <2> QED BY <2>2 DEF b
<1>2. CASE ~IsTimeCode(pkt.dbb1)
  <2>1. b = <<>> /\ <<>> = [k \in 1 .. 0 |-> <<>>[k]]
    BY <1>2 DEF klvanc_convert_SMPTE_12_2_to_packetBytes
  <2> HIDE DEF b
  <2>2. IsList(b)
    BY <2>1 DEF IsList
  <2> QED BY <2>2 DEF b
<1> QED BY <1>1, <1>2

LEMMA AfdList ==
  ASSUME NEW pkt
  PROVE  IsList(klvanc_convert_AFD_to_packetBytes(pkt))
<1> DEFINE f == << <<pkt.afd * 8 + (IF pkt.aspectRatio = ASPECT_16x9 THEN 4 ELSE 0), 8>>,
                  <<0, 16>>, <<pkt.barDataFlags * 16, 8>> >>
           g == CASE pkt.barDataFlags = BARS_TOPBOTTOM -> << <<pkt.top, 16>>, <<pkt.bottom, 16>> >>
                  [] pkt.barDataFlags = BARS_LEFTRIGHT -> << <<pkt.left, 16>>, <<pkt.right, 16>> >>
                  [] OTHER                             -> << <<0, 16>>, <<0, 16>> >>
<1>1. f = [k \in 1 .. 3 |-> f[k]] /\ \A k \in 1 .. 3 : f[k][2] \in Nat
  OBVIOUS
<1>2. g = [k \in 1 .. 2 |-> g[k]] /\ \A k \in 1 .. 2 : g[k][2] \in Nat
  <2>1. CASE pkt.barDataFlags = BARS_TOPBOTTOM
    BY <2>1
  <2>2. CASE pkt.barDataFlags = BARS_LEFTRIGHT
    BY <2>2 DEF BARS_LEFTRIGHT, BARS_TOPBOTTOM
  <2>3. CASE pkt.barDataFlags # BARS_TOPBOTTOM /\ pkt.barDataFlags # BARS_LEFTRIGHT
    BY <2>3
  <2> QED BY <2>1, <2>2, <2>3
<1>3. klvanc_convert_AFD_to_packetBytes(pkt) = Packed(Write(f \o g))
  BY Zenon DEF klvanc_convert_AFD_to_packetBytes
<1> HIDE DEF f, g
<1>4. IsList(f) /\ Len(f) = 3 /\ IsList(g) /\ Len(g) = 2
  BY <1>1, <1>2, ListOfLength
<1>5. IsList(f \o g) /\ \A k \in 1 .. Len(f \o g) : (f \o g)[k][2] \in Nat
  BY <1>1, <1>2, <1>4, FieldsConcat
<1>7. IsList(Packed(Write(f \o g)))
  BY <1>5, ListWrite, ListPacked
<1> QED BY <1>3, <1>7

LEMMA EmptyList == IsList(<<>>)
<1>1. <<>> = [k \in 1 .. 0 |-> <<>>[k]]
  OBVIOUS
<1> QED BY <1>1 DEF IsList

LEMMA SdpList ==
  ASSUME NEW pkt \in SdpPackets
  PROVE  IsList(SdpBytes(pkt))
<1> DEFINE used == {k \in 1 .. 5 : pkt.descriptors[k] # NoDescriptor}
           a == <<81, 21, 13 + 45 * Cardinality(used), pkt.format_code>>
           b == [k \in 1 .. 5 |-> pkt.descriptors[k].field * 128 + pkt.descriptors[k].line]
           c == [k \in 1 .. 5 |-> pkt.descriptors[k].data]
           d == <<116, pkt.sequence_counter \div 256, pkt.sequence_counter % 256, 0>>
<1>0. SdpBytes(pkt) = a \o b \o FlattenSeq(c) \o d
  BY DEF SdpBytes
<1>1. a = [k \in 1 .. 4 |-> a[k]]
  OBVIOUS
<1>2. b = [k \in 1 .. 5 |-> b[k]]
  OBVIOUS
<1>3. c = [k \in 1 .. 5 |-> c[k]] /\ \A k \in 1 .. 5 : c[k] \in Seq(Byte)
  BY ArraysAssumption
<1>4. d = [k \in 1 .. 4 |-> d[k]]
  OBVIOUS
<1> HIDE DEF a, b, c, d
<1>5. IsList(a) /\ IsList(b) /\ IsList(d)
  BY <1>1, <1>2, <1>4, ListOfLength
<1>6. IsList(FlattenSeq(c))
  BY <1>3, ListFlatten, SeqIsList
<1>7. IsList(a \o b \o FlattenSeq(c) \o d)
  BY <1>5, <1>6, ListConcat
<1> QED BY <1>0, <1>7

LEMMA FrameList ==
  ASSUME NEW f, f.frame_length \in Byte
  PROVE  IsList(FrameBytes(f))
<1> DEFINE s1 == << <<f.data.primaries, 96>>, <<f.data.white_point_x, 16>>,
                    <<f.data.white_point_y, 16>>, <<f.data.max_display_mastering_luminance, 32>>,
                    <<f.data.min_display_mastering_luminance, 32>> >>
           s2 == << <<f.data.max_content_light_level, 16>>,
                    <<f.data.max_pic_average_light_level, 16>> >>
           s3 == [k \in 1 .. f.frame_length - 2 |-> 7]
           head == <<f.frame_type, f.frame_length, 137, f.frame_length - 2>>
           data == CASE f.frame_type = KLVANC_HDR_STATIC1 -> Packed(Write(s1))
                     [] f.frame_type = KLVANC_HDR_STATIC2 -> Packed(Write(s2))
                     [] OTHER -> s3
<1>1. FrameBytes(f) = head \o data
  BY Zenon DEF FrameBytes
<1>2. s1 = [k \in 1 .. 5 |-> s1[k]] /\ \A k \in 1 .. 5 : s1[k][2] \in Nat
  OBVIOUS
<1>3. s2 = [k \in 1 .. 2 |-> s2[k]] /\ \A k \in 1 .. 2 : s2[k][2] \in Nat
  OBVIOUS
<1>4. head = [k \in 1 .. 4 |-> head[k]]
  OBVIOUS
<1>5. IsList(s3)
  <2>1. CASE f.frame_length >= 2
    <3>1. PICK n \in Nat : n = f.frame_length - 2
      BY <2>1 DEF Byte
    <3>2. s3 = [k \in 1 .. n |-> s3[k]]
      BY <3>1
    <3> HIDE DEF s3
    <3> QED BY <3>2 DEF IsList
  <2>2. CASE f.frame_length < 2
    <3>1. f.frame_length - 2 < 1 /\ f.frame_length - 2 \in Int
      BY <2>2 DEF Byte
    <3>2. 1 .. f.frame_length - 2 = 1 .. 0
      BY <3>1
    <3>3. s3 = [k \in 1 .. 0 |-> s3[k]]
      BY <3>2
    <3> HIDE DEF s3
    <3> QED BY <3>3 DEF IsList
  <2> HIDE DEF s3
  <2>3. f.frame_length \in Int
    BY DEF Byte
  <2> QED BY <2>1, <2>2, <2>3
<1> HIDE DEF s1, s2, s3, head
<1>6. IsList(s1) /\ Len(s1) = 5 /\ IsList(s2) /\ Len(s2) = 2 /\ IsList(head)
  BY <1>2, <1>3, <1>4, ListOfLength
<1>7. IsList(Packed(Write(s1))) /\ IsList(Packed(Write(s2)))
  BY <1>2, <1>3, <1>6, ListWrite, ListPacked
<1>8. IsList(data)
  BY <1>5, <1>7
<1> HIDE DEF data
<1>9. IsList(head \o data)
  BY <1>6, <1>8, ListConcat
<1> QED BY <1>1, <1>9

LEMMA HdrList ==
  ASSUME NEW pkt \in HdrPackets
  PROVE  IsList(S2108Bytes(pkt))
<1> DEFINE c == [k \in DOMAIN pkt.frames |-> FrameBytes(pkt.frames[k])]
<1>1. PICK n \in Nat : DOMAIN pkt.frames = 1 .. n
  <2>1. PICK n \in 0 .. MAX_S2108_1_FRAMES : DOMAIN pkt.frames = 1 .. n
    BY ArraysAssumption, Zenon
  <2> QED BY <2>1 DEF MAX_S2108_1_FRAMES
<1>2. \A k \in 1 .. n : pkt.frames[k].frame_length \in Byte
  BY <1>1, ArraysAssumption
<1>3. c = [k \in 1 .. n |-> c[k]] /\ \A k \in 1 .. n : IsList(c[k])
  BY <1>1, <1>2, FrameList
<1> HIDE DEF c
<1>4. IsList(FlattenSeq(c))
  BY <1>3, ListFlatten
<1> QED BY <1>4 DEF c, S2108Bytes

\* Some fields of fixed widths.
LEMMA FixedList ==
  ASSUME NEW n \in Nat, NEW f, f = [k \in 1 .. n |-> f[k]], \A k \in 1 .. n : f[k][2] \in Nat
  PROVE  IsList(Write(f))
<1>1. IsList(f) /\ Len(f) = n
  BY ListOfLength
<1> QED BY <1>1, ListWrite

LEMMA HeaderList ==
  ASSUME NEW h
  PROVE  IsList(WriteHeader(h))
<1> DEFINE f == << <<h.cdp_identifier, 16>>, <<0, 8>>, <<h.cdp_frame_rate, 4>>, <<15, 4>>,
           <<h.time_code_present, 1>>, <<h.ccdata_present, 1>>, <<h.svcinfo_present, 1>>,
           <<h.svc_info_start, 1>>, <<h.svc_info_change, 1>>, <<h.svc_info_complete, 1>>,
           <<h.caption_service_active, 1>>, <<1, 1>>, <<h.cdp_hdr_sequence_cntr, 16>> >>
<1>1. f = [k \in 1 .. 13 |-> f[k]] /\ \A k \in 1 .. 13 : f[k][2] \in Nat
  OBVIOUS
<1> HIDE DEF f
<1>2. IsList(Write(f))
  BY <1>1, FixedList
<1> QED BY <1>2 DEF f, WriteHeader

LEMMA TimeCodeSectionList ==
  ASSUME NEW tc
  PROVE  IsList(WriteTimeCode(tc))
<1> DEFINE f == << <<tc.time_code_section_id, 8>>, <<3, 2>>, <<tc.tc_10hrs, 2>>, <<tc.tc_1hrs, 4>>,
           <<1, 1>>, <<tc.tc_10min, 3>>, <<tc.tc_1min, 4>>, <<tc.tc_field_flag, 1>>,
           <<tc.tc_10sec, 3>>, <<tc.tc_1sec, 4>>, <<1, 1>>, <<tc.tc_10fr, 3>>, <<tc.tc_1fr, 4>> >>
<1>1. f = [k \in 1 .. 13 |-> f[k]] /\ \A k \in 1 .. 13 : f[k][2] \in Nat
  OBVIOUS
<1> HIDE DEF f
<1>2. IsList(Write(f))
  BY <1>1, FixedList
<1> QED BY <1>2 DEF f, WriteTimeCode

LEMMA CaptionsList ==
  ASSUME NEW d, NEW S, d.cc \in Seq(S)
  PROVE  IsList(WriteCaptions(d))
<1> DEFINE f == << <<d.ccdata_id, 8>>, <<7, 3>>, <<Len(d.cc), 5>> >>
           g(c) == << <<31, 5>>, <<c.cc_valid, 1>>, <<c.cc_type, 2>>, <<c.cc_data_1, 8>>, <<c.cc_data_2, 8>> >>
           e == [k \in DOMAIN d.cc |-> Write(g(d.cc[k]))]
<1>1. WriteCaptions(d) = Write(f) \o FlattenSeq(e)
  BY DEF WriteCaptions
<1>2. f = [k \in 1 .. 3 |-> f[k]] /\ \A k \in 1 .. 3 : f[k][2] \in Nat
  OBVIOUS
<1>3. ASSUME NEW c PROVE IsList(Write(g(c)))
  <2>1. g(c) = [k \in 1 .. 5 |-> g(c)[k]] /\ \A k \in 1 .. 5 : g(c)[k][2] \in Nat
    OBVIOUS
  <2> HIDE DEF g
  <2> QED BY <2>1, FixedList
<1> HIDE DEF f, g
<1>4. Len(d.cc) \in Nat /\ e = [k \in 1 .. Len(d.cc) |-> e[k]] /\ \A k \in 1 .. Len(d.cc) : IsList(e[k])
  BY <1>3
<1> HIDE DEF e
<1>5. IsList(FlattenSeq(e)) /\ IsList(Write(f))
  BY <1>2, <1>4, FixedList, ListFlatten
<1> QED BY <1>1, <1>5, ListConcat

LEMMA ServicesList ==
  ASSUME NEW s, NEW S, s.svc \in Seq(S), \A x \in S : Len(x.svc_data_byte) \in Nat
  PROVE  IsList(WriteServices(s))
<1> DEFINE f == << <<s.ccsvcinfo_id, 8>>, <<1, 1>>, <<s.svc_info_start, 1>>, <<s.svc_info_change, 1>>,
                   <<s.svc_info_complete, 1>>, <<Len(s.svc), 4>> >>
           g(x) == << <<7, 3>>, <<x.caption_service_number, 5>> >>
           e == [k \in DOMAIN s.svc |-> Write(g(s.svc[k])) \o WriteBytes(s.svc[k].svc_data_byte)]
<1>1. WriteServices(s) = Write(f) \o FlattenSeq(e)
  BY DEF WriteServices
<1>2. f = [k \in 1 .. 6 |-> f[k]] /\ \A k \in 1 .. 6 : f[k][2] \in Nat
  OBVIOUS
<1>3. ASSUME NEW x PROVE IsList(Write(g(x)))
  <2>1. g(x) = [k \in 1 .. 2 |-> g(x)[k]] /\ \A k \in 1 .. 2 : g(x)[k][2] \in Nat
    OBVIOUS
  <2> HIDE DEF g
  <2> QED BY <2>1, FixedList
<1> HIDE DEF f, g
<1>4. Len(s.svc) \in Nat /\ DOMAIN s.svc = 1 .. Len(s.svc) /\ \A k \in 1 .. Len(s.svc) : s.svc[k] \in S
  BY ElementOfSeq
<1>5. \A k \in 1 .. Len(s.svc) : IsList(WriteBytes(s.svc[k].svc_data_byte))
  BY <1>4, ListWriteBytes
<1>6. \A k \in 1 .. Len(s.svc) : IsList(e[k])
  BY <1>3, <1>4, <1>5, ListConcat
<1>7. e = [k \in 1 .. Len(s.svc) |-> e[k]]
  BY <1>4
<1> HIDE DEF e
<1>8. IsList(FlattenSeq(e)) /\ IsList(Write(f))
  BY <1>2, <1>4, <1>6, <1>7, FixedList, ListFlatten
<1> QED BY <1>1, <1>8, ListConcat

LEMMA FooterList ==
  ASSUME NEW p
  PROVE  IsList(WriteFooter(p))
<1> DEFINE f == << <<p.cdp_footer_id, 8>>, <<p.cdp_ftr_sequence_cntr, 16>>, <<0, 8>> >>
<1>1. f = [k \in 1 .. 3 |-> f[k]] /\ \A k \in 1 .. 3 : f[k][2] \in Nat
  OBVIOUS
<1> HIDE DEF f
<1>2. IsList(Write(f))
  BY <1>1, FixedList
<1> QED BY <1>2 DEF f, WriteFooter

\* A changed member leaves a list a list.
LEMMA ExceptList ==
  ASSUME NEW s, IsList(s), NEW n, NEW v
  PROVE  IsList([s EXCEPT ![n] = v])
<1> DEFINE t == [s EXCEPT ![n] = v]
<1>1. PICK m \in Nat : s = [k \in 1 .. m |-> s[k]]
  BY DEF IsList
<1>2. t = [k \in 1 .. m |-> t[k]]
  BY <1>1
<1> HIDE DEF t
<1>3. IsList(t)
  BY <1>2 DEF IsList
<1> QED BY <1>3 DEF t

CaptionServices == [caption_service_number : Byte, svc_data_byte : Seq(Byte)]

LEMMA CdpList ==
  ASSUME NEW pkt, NEW S, pkt.ccdata.cc \in Seq(S), pkt.ccsvc.svc \in Seq(CaptionServices)
  PROVE  IsList(klvanc_convert_EIA_708B_to_packetBytes(pkt))
<1> DEFINE h == pkt.header
           a == WriteHeader(h)
           b == IF h.time_code_present = 1 /\ pkt.tc.time_code_section_id = 113 THEN WriteTimeCode(pkt.tc) ELSE <<>>
           c == IF h.ccdata_present = 1 /\ pkt.ccdata.ccdata_id = 114 THEN WriteCaptions(pkt.ccdata) ELSE <<>>
           d == IF h.svcinfo_present = 1 /\ pkt.ccsvc.ccsvcinfo_id = 115 THEN WriteServices(pkt.ccsvc) ELSE <<>>
           e == WriteFooter(pkt.footer)
           bytes == Packed(a \o b \o c \o d \o e)
           n == Len(bytes)
           sized == [bytes EXCEPT ![3] = n % 256]
           all == [sized EXCEPT ![n] = (256 - ByteSum(sized, n - 1)) % 256]
<1>1. \A x \in CaptionServices : Len(x.svc_data_byte) \in Nat
  BY DEF CaptionServices
<1>2. IsList(a) /\ IsList(b) /\ IsList(c) /\ IsList(e)
  BY HeaderList, TimeCodeSectionList, CaptionsList, FooterList, EmptyList
<1>3. IsList(WriteServices(pkt.ccsvc))
  BY <1>1, ServicesList
<1>4. IsList(d)
  BY <1>3, EmptyList
<1>5. all = klvanc_convert_EIA_708B_to_packetBytes(pkt)
  BY Zenon DEF klvanc_convert_EIA_708B_to_packetBytes
<1> HIDE DEF a, b, c, d, e
<1>6. IsList(a \o b \o c \o d \o e)
  BY <1>2, <1>4, ListConcat
<1>7. IsList(bytes)
  BY <1>6, ListPacked
<1> HIDE DEF bytes, n
<1>8. IsList(sized)
  BY <1>7, ExceptList, ZenonT(40)
<1> HIDE DEF sized
<1>9. IsList(all)
  BY <1>8, ExceptList, ZenonT(40)
<1> QED BY <1>5, <1>9

LEMMA SpliceRequestList ==
  ASSUME NEW d
  PROVE  IsList(gen_splice_request_data(d))
<1> DEFINE f == << <<d.splice_insert_type, 8>>, <<d.splice_event_id, 32>>, <<d.unique_program_id, 16>>,
           <<d.pre_roll_time, 16>>, <<d.brk_duration, 16>>, <<d.avail_num, 8>>,
           <<d.avails_expected, 8>>, <<d.auto_return_flag, 8>> >>
<1>1. f = [k \in 1 .. 8 |-> f[k]] /\ \A k \in 1 .. 8 : f[k][2] \in Nat
  OBVIOUS
<1> HIDE DEF f
<1>2. IsList(Write(f))
  BY <1>1, FixedList
<1> QED BY <1>2 DEF f, gen_splice_request_data

LEMMA TimeSignalList ==
  ASSUME NEW d
  PROVE  IsList(gen_time_signal_request_data(d))
<1> DEFINE f == << <<d.pre_roll_time, 16>> >>
<1>1. f = [k \in 1 .. 1 |-> f[k]] /\ \A k \in 1 .. 1 : f[k][2] \in Nat
  OBVIOUS
<1> HIDE DEF f
<1>2. IsList(Write(f))
  BY <1>1, FixedList
<1> QED BY <1>2 DEF f, gen_time_signal_request_data

LEMMA TierList ==
  ASSUME NEW d
  PROVE  IsList(gen_tier_data(d))
<1> DEFINE f == << <<d.tier_data % 4096, 16>> >>
<1>1. f = [k \in 1 .. 1 |-> f[k]] /\ \A k \in 1 .. 1 : f[k][2] \in Nat
  OBVIOUS
<1> HIDE DEF f
<1>2. IsList(Write(f))
  BY <1>1, FixedList
<1> QED BY <1>2 DEF f, gen_tier_data

LEMMA TimeDescriptorList ==
  ASSUME NEW d
  PROVE  IsList(gen_time_descriptor(d))
<1> DEFINE f == << <<d.TAI_seconds, 48>>, <<d.TAI_ns, 32>>, <<d.UTC_offset, 16>> >>
<1>1. f = [k \in 1 .. 3 |-> f[k]] /\ \A k \in 1 .. 3 : f[k][2] \in Nat
  OBVIOUS
<1> HIDE DEF f
<1>2. IsList(Write(f))
  BY <1>1, FixedList
<1> QED BY <1>2 DEF f, gen_time_descriptor

LEMMA DescriptorList ==
  ASSUME NEW d, d.descriptor_bytes \in Seq(Byte)
  PROVE  IsList(gen_descriptor_request_data(d))
<1> DEFINE f == << <<d.descriptor_count, 8>> >>
<1>1. f = [k \in 1 .. 1 |-> f[k]] /\ \A k \in 1 .. 1 : f[k][2] \in Nat
  OBVIOUS
<1>2. gen_descriptor_request_data(d) = Write(f) \o WriteBytes(d.descriptor_bytes)
  BY Zenon DEF gen_descriptor_request_data
<1> HIDE DEF f
<1>3. IsList(Write(f))
  BY <1>1, FixedList
<1>4. IsList(WriteBytes(d.descriptor_bytes))
  BY ListWriteBytes
<1> QED BY <1>2, <1>3, <1>4, ListConcat

LEMMA DtmfList ==
  ASSUME NEW d, d.dtmf_char \in Seq(Byte)
  PROVE  IsList(gen_dtmf_request_data(d))
<1> DEFINE f == << <<d.pre_roll_time, 8>>, <<d.dtmf_length, 8>> >>
<1>1. f = [k \in 1 .. 2 |-> f[k]] /\ \A k \in 1 .. 2 : f[k][2] \in Nat
  OBVIOUS
<1>2. gen_dtmf_request_data(d) = Write(f) \o WriteBytes(d.dtmf_char)
  BY Zenon DEF gen_dtmf_request_data
<1> HIDE DEF f
<1>3. IsList(Write(f))
  BY <1>1, FixedList
<1>4. IsList(WriteBytes(d.dtmf_char))
  BY ListWriteBytes
<1> QED BY <1>2, <1>3, <1>4, ListConcat

LEMMA ProprietaryList ==
  ASSUME NEW d, d.proprietary_data \in Seq(Byte)
  PROVE  IsList(gen_proprietary_command_request_data(d))
<1> DEFINE f == << <<d.proprietary_id, 32>>, <<d.proprietary_command, 8>> >>
<1>1. f = [k \in 1 .. 2 |-> f[k]] /\ \A k \in 1 .. 2 : f[k][2] \in Nat
  OBVIOUS
<1>2. gen_proprietary_command_request_data(d) = Write(f) \o WriteBytes(d.proprietary_data)
  BY Zenon DEF gen_proprietary_command_request_data
<1> HIDE DEF f
<1>3. IsList(Write(f))
  BY <1>1, FixedList
<1>4. IsList(WriteBytes(d.proprietary_data))
  BY ListWriteBytes
<1> QED BY <1>2, <1>3, <1>4, ListConcat

LEMMA AvailList ==
  ASSUME NEW d, d.num_provider_avails \in Byte
  PROVE  IsList(gen_avail_request_data(d))
<1> DEFINE f == << <<d.num_provider_avails, 8>> >>
           g == [k \in 1 .. d.num_provider_avails |-> <<d.provider_avail_id[k], 32>>]
<1>1. PICK n \in Nat : n = d.num_provider_avails
  BY SMTT(30) DEF Byte
<1>2. f = [k \in 1 .. 1 |-> f[k]] /\ \A k \in 1 .. 1 : f[k][2] \in Nat
  OBVIOUS
<1>3. g = [k \in 1 .. n |-> g[k]] /\ \A k \in 1 .. n : g[k][2] \in Nat
  BY <1>1
<1>4. gen_avail_request_data(d) = Write(f \o g)
  BY Zenon DEF gen_avail_request_data
<1> HIDE DEF f, g
<1>5. IsList(f) /\ Len(f) = 1 /\ IsList(g) /\ Len(g) = n
  BY <1>2, <1>3, ListOfLength
<1>6. IsList(f \o g) /\ \A k \in 1 .. Len(f \o g) : (f \o g)[k][2] \in Nat
  BY <1>2, <1>3, <1>5, FieldsConcat
<1> QED BY <1>4, <1>6, ListWrite

LEMMA SegmentationList ==
  ASSUME NEW d, d.upid \in Seq(Byte)
  PROVE  IsList(gen_segmentation_request_data(d))
<1> DEFINE f == << <<d.event_id, 32>>, <<d.event_cancel_indicator, 8>>, <<d.duration, 16>>,
           <<d.upid_type, 8>>, <<d.upid_length, 8>> >>
           g == [k \in 1 .. 9 |-> <<d.rest[k], 8>>]
<1>1. f = [k \in 1 .. 5 |-> f[k]] /\ \A k \in 1 .. 5 : f[k][2] \in Nat
  OBVIOUS
<1>2. g = [k \in 1 .. 9 |-> g[k]] /\ \A k \in 1 .. 9 : g[k][2] \in Nat
  OBVIOUS
<1>3. gen_segmentation_request_data(d) = Write(f) \o WriteBytes(d.upid) \o Write(g)
  BY Zenon DEF gen_segmentation_request_data
<1> HIDE DEF f, g
<1>4. IsList(Write(f)) /\ IsList(Write(g))
  BY <1>1, <1>2, FixedList
<1>5. IsList(WriteBytes(d.upid))
  BY ListWriteBytes
<1> QED BY <1>3, <1>4, <1>5, ListConcat

LEMMA OperationList ==
  ASSUME NEW op \in Operations, op.opID \in Known
  PROVE  IsList(Encoded(op))
<1> USE DEF MO_SPLICE_REQUEST_DATA, MO_SPLICE_NULL_REQUEST_DATA, MO_TIME_SIGNAL_REQUEST_DATA,
      MO_INSERT_DESCRIPTOR_REQUEST_DATA, MO_INSERT_DTMF_REQUEST_DATA,
      MO_INSERT_AVAIL_DESCRIPTOR_REQUEST_DATA, MO_INSERT_SEGMENTATION_REQUEST_DATA,
      MO_PROPRIETARY_COMMAND_REQUEST_DATA, MO_INSERT_TIER_DATA, MO_INSERT_TIME_DESCRIPTOR
<1>1. CASE op.opID = MO_SPLICE_REQUEST_DATA
  BY <1>1, SpliceRequestList DEF Encoded
<1>2. CASE op.opID = MO_SPLICE_NULL_REQUEST_DATA
  BY <1>2, EmptyList DEF Encoded, gen_splice_null_request_data
<1>3. CASE op.opID = MO_TIME_SIGNAL_REQUEST_DATA
  BY <1>3, TimeSignalList DEF Encoded
<1>4. CASE op.opID = MO_INSERT_DESCRIPTOR_REQUEST_DATA
  BY <1>4, ArraysAssumption, DescriptorList DEF Encoded
<1>5. CASE op.opID = MO_INSERT_DTMF_REQUEST_DATA
  BY <1>5, ArraysAssumption, DtmfList DEF Encoded
<1>6. CASE op.opID = MO_INSERT_AVAIL_DESCRIPTOR_REQUEST_DATA
  BY <1>6, ArraysAssumption, AvailList DEF Encoded
<1>7. CASE op.opID = MO_INSERT_SEGMENTATION_REQUEST_DATA
  BY <1>7, ArraysAssumption, SegmentationList DEF Encoded
<1>8. CASE op.opID = MO_PROPRIETARY_COMMAND_REQUEST_DATA
  BY <1>8, ArraysAssumption, ProprietaryList DEF Encoded
<1>9. CASE op.opID = MO_INSERT_TIER_DATA
  BY <1>9, TierList DEF Encoded
<1>10. CASE op.opID = MO_INSERT_TIME_DESCRIPTOR
  BY <1>10, TimeDescriptorList DEF Encoded
<1> QED BY <1>1, <1>2, <1>3, <1>4, <1>5, <1>6, <1>7, <1>8, <1>9, <1>10 DEF Known

LEMMA TimestampList ==
  ASSUME NEW ts
  PROVE  IsList(GenTimestamp(ts))
<1> DEFINE f0 == << <<ts.time_type, 8>> >>
           f1 == << <<ts.time.UTC_seconds, 32>>, <<ts.time.UTC_microseconds, 16>> >>
           f2 == << <<ts.time.hours, 8>>, <<ts.time.minutes, 8>>, <<ts.time.seconds, 8>>, <<ts.time.frames, 8>> >>
           f3 == << <<ts.time.GPI_number, 8>>, <<ts.time.GPI_edge, 8>> >>
           g == CASE ts.time_type = 1 -> Write(f1)
                  [] ts.time_type = 2 -> Write(f2)
                  [] ts.time_type = 3 -> Write(f3)
                  [] OTHER            -> <<>>
<1>1. /\ f0 = [k \in 1 .. 1 |-> f0[k]] /\ \A k \in 1 .. 1 : f0[k][2] \in Nat
      /\ f1 = [k \in 1 .. 2 |-> f1[k]] /\ \A k \in 1 .. 2 : f1[k][2] \in Nat
      /\ f2 = [k \in 1 .. 4 |-> f2[k]] /\ \A k \in 1 .. 4 : f2[k][2] \in Nat
      /\ f3 = [k \in 1 .. 2 |-> f3[k]] /\ \A k \in 1 .. 2 : f3[k][2] \in Nat
  OBVIOUS
<1>2. GenTimestamp(ts) = Write(f0) \o g
  BY Zenon DEF GenTimestamp
<1> HIDE DEF f0, f1, f2, f3
<1>3. IsList(Write(f0)) /\ IsList(Write(f1)) /\ IsList(Write(f2)) /\ IsList(Write(f3))
  BY <1>1, FixedList
<1>4. IsList(g)
  BY <1>3, EmptyList
<1> HIDE DEF g
<1> QED BY <1>2, <1>3, <1>4, ListConcat

LEMMA MessageList ==
  ASSUME NEW pkt, pkt.ops \in Seq(Operations)
  PROVE  IsList(Payload("scte104", pkt))
<1> DEFINE m == pkt.mo_msg
           body(op) == Packed(Encoded(op))
           f(op) == << <<op.opID, 16>>, <<Len(body(op)), 16>> >>
           WriteOp(op) == Write(f(op)) \o WriteBytes(body(op))
           e == [k \in DOMAIN pkt.ops |->
                           IF pkt.ops[k].opID \in Known THEN WriteOp(pkt.ops[k]) ELSE <<>>]
           h == << <<65535, 16>>, <<m.messageSize, 16>>, <<m.protocol_version, 8>>,
                               <<m.AS_index, 8>>, <<m.message_number, 8>>, <<m.DPI_PID_index, 16>>,
                               <<m.SCTE35_protocol_version, 8>> >>
           c == << <<Len(pkt.ops), 8>> >>
           bytes == Packed(Write(h) \o GenTimestamp(pkt.timestamp) \o Write(c) \o FlattenSeq(e))
           all == [bytes EXCEPT ![3] = Len(bytes) \div 256, ![4] = Len(bytes) % 256]
<1>1. all = klvanc_convert_SCTE_104_to_packetBytes(pkt)
  BY DEF klvanc_convert_SCTE_104_to_packetBytes
<1>2. ASSUME NEW op PROVE IsList(Write(f(op)))
  <2>1. f(op) = [k \in 1 .. 2 |-> f(op)[k]] /\ \A k \in 1 .. 2 : f(op)[k][2] \in Nat
    OBVIOUS
  <2> HIDE DEF f
  <2> QED BY <2>1, FixedList
<1>3. ASSUME NEW op \in Operations, op.opID \in Known PROVE IsList(WriteOp(op))
  <2>1. IsList(body(op))
    BY <1>3, OperationList, ListPacked
  <2>2. IsList(WriteBytes(body(op)))
    BY <2>1, ListFacts, ListWriteBytes
  <2> HIDE DEF f, body
  <2> QED BY <1>2, <2>2, ListConcat
<1>4. /\ h = [k \in 1 .. 7 |-> h[k]] /\ \A k \in 1 .. 7 : h[k][2] \in Nat
      /\ c = [k \in 1 .. 1 |-> c[k]] /\ \A k \in 1 .. 1 : c[k][2] \in Nat
  OBVIOUS
<1> HIDE DEF f, body, WriteOp, h, c
<1>5. /\ Len(pkt.ops) \in Nat /\ DOMAIN pkt.ops = 1 .. Len(pkt.ops)
      /\ \A k \in 1 .. Len(pkt.ops) : pkt.ops[k] \in Operations
  BY ElementOfSeq
<1>6. \A k \in 1 .. Len(pkt.ops) : IsList(e[k])
  BY <1>3, <1>5, EmptyList
<1>7. e = [k \in 1 .. Len(pkt.ops) |-> e[k]]
  BY <1>5
<1> HIDE DEF e
<1>8. IsList(FlattenSeq(e)) /\ IsList(Write(h)) /\ IsList(Write(c)) /\ IsList(GenTimestamp(pkt.timestamp))
  BY <1>4, <1>5, <1>6, <1>7, FixedList, ListFlatten, TimestampList
<1>9. IsList(Write(h) \o GenTimestamp(pkt.timestamp) \o Write(c) \o FlattenSeq(e))
  BY <1>8, ListConcat
<1>10. IsList(bytes)
  BY <1>9, ListPacked
<1> HIDE DEF bytes
<1>11. IsList(all)
  <2>1. IsList([bytes EXCEPT ![3] = Len(bytes) \div 256])
    BY <1>10, ExceptList, ZenonT(40)
  <2>2. all = [[bytes EXCEPT ![3] = Len(bytes) \div 256] EXCEPT ![4] = Len(bytes) % 256]
    OBVIOUS
  <2> QED BY <2>1, <2>2, ExceptList, ZenonT(40)
<1> HIDE DEF all
<1>12. <<8>> = [k \in 1 .. 1 |-> <<8>>[k]]
  OBVIOUS
<1>13. IsList(<<8>> \o all)
  BY <1>11, <1>12, ListOfLength, ListConcat
<1>14. Payload("scte104", pkt) \in {<<>>, <<8>> \o all}
  BY <1>1 DEF Payload, klvanc_convert_SCTE_104_packetbytes_to_SMPTE_2010
<1>15. IsList(<<>>)
  <2>1. <<>> = [k \in 1 .. 0 |-> <<>>[k]]
    OBVIOUS
  <2> QED BY <2>1, ListOfLength
<1> QED BY <1>13, <1>14, <1>15

----------------------------------------------------------------------------
(* Words of v210                                                           *)

Triples(S) == [1 .. 3 -> S]

LEMMA TriplesAreSeqs ==
  ASSUME NEW S
  PROVE  \A t \in Triples(S) : t \in Seq(S) /\ Len(t) = 3
<1>1. \A t \in [1 .. 3 -> S] : t \in Seq(S)
  <2>1. \A n \in Nat : \A t \in [1 .. n -> S] : t \in Seq(S)
    OBVIOUS
  <2> QED BY <2>1
<1>2. \A t \in [1 .. 3 -> S] : t \in Seq(S) => Len(t) = 3
  OBVIOUS
<1> QED BY <1>1, <1>2 DEF Triples

\* The samples of words of v210, the words filled up to whole groups.
LEMMA SamplesOf ==
  ASSUME NEW S, Blank \in S, Black \in S, NEW words \in Seq(Triples(S))
  PROVE  /\ Samples(Group(words)) \in Seq(S)
         /\ Len(Samples(Group(words))) >= 3 * Len(words)
         /\ \A k \in 0 .. Len(words) - 1 : \A j \in 1 .. 3 :
              Samples(Group(words))[3 * k + j] = words[k + 1][j]
<1> DEFINE n == Len(words)
           pad == [k \in 1 .. (4 - (n % 4)) % 4 |-> <<Blank, Black, Blank>>]
           all == words \o pad
<1>1. n \in Nat /\ (4 - (n % 4)) % 4 \in Nat
  <2> HIDE DEF n
  <2>1. n \in Nat
    BY DEF n
  <2> QED BY <2>1
<1>2. <<Blank, Black, Blank>> \in Triples(S)
  BY DEF Triples
<1>3. pad \in Seq(Triples(S))
  BY <1>1, <1>2
<1>4. Group(words) = all
  BY DEF Group
<1> HIDE DEF pad
<1>5. all \in Seq(Triples(S)) /\ Len(all) >= n /\ \A k \in 1 .. n : all[k] = words[k]
  BY <1>1, <1>3
<1> HIDE DEF all, n
<1>6. \A k \in 1 .. Len(all) : all[k] \in Seq(S) /\ Len(all[k]) = 3
  BY <1>5, TriplesAreSeqs, ElementOfSeq
<1>7. Triples(S) \subseteq Seq(S)
  BY TriplesAreSeqs
<1>8. all \in Seq(Seq(S))
  BY <1>5, <1>7
<1>9. 3 \in {3, 4}
  OBVIOUS
<1> DEFINE smp == FlattenSeq(all)
<1>10. smp \in Seq(S)
  BY <1>8, FlattenType
<1>11. Len(smp) = 3 * Len(all)
       /\ \A k \in 0 .. Len(all) - 1 : \A j \in 1 .. 3 : smp[3 * k + j] = all[k + 1][j]
  BY <1>6, <1>8, <1>9, FlattenEqual, SMTT(30)
<1>12. Len(all) \in Nat
  BY <1>8
<1>13. Samples(Group(words)) = smp
  BY <1>4 DEF Samples
<1> HIDE DEF smp
<1>14. Len(smp) >= 3 * n
  BY <1>1, <1>5, <1>11, <1>12
<1>15. ASSUME NEW k \in 0 .. n - 1, NEW j \in 1 .. 3 PROVE smp[3 * k + j] = words[k + 1][j]
  <2>1. k \in 0 .. Len(all) - 1 /\ k + 1 \in 1 .. n
    BY <1>1, <1>5, <1>12
  <2> QED BY <1>5, <1>11, <2>1
<1> QED BY <1>10, <1>13, <1>14, <1>15 DEF n

\* The words of an incomplete group.
LEMMA FewWords ==
  ASSUME NEW T, NEW p \in Seq(T), NEW q \in Seq(T), NEW r \in Seq(T), NEW s \in Seq(T),
         NEW j, j = p \o q \o r \o s
  PROVE  /\ j \in Seq(T) /\ Len(j) = Len(p) + Len(q) + Len(r) + Len(s)
         /\ Len(p) = 1 => j[1] = p[1]
         /\ Len(p) = 1 /\ Len(q) = 1 => j[2] = q[1]
         /\ Len(p) = 1 /\ Len(q) = 1 /\ Len(r) = 1 => j[3] = r[1]
<1>1. p \o q \in Seq(T) /\ Len(p \o q) = Len(p) + Len(q)
      /\ (Len(p) = 1 => (p \o q)[1] = p[1])
      /\ (Len(p) = 1 /\ Len(q) = 1 => (p \o q)[2] = q[1])
  OBVIOUS
<1> DEFINE a == p \o q
<1> HIDE DEF a
<1>2. a \o r \in Seq(T) /\ Len(a \o r) = Len(a) + Len(r) /\ \A k \in 1 .. Len(a) : (a \o r)[k] = a[k]
      /\ (Len(a) = 2 /\ Len(r) = 1 => (a \o r)[3] = r[1])
  BY <1>1 DEF a
<1> DEFINE b == a \o r
<1> HIDE DEF b
<1>3. b \o s \in Seq(T) /\ Len(b \o s) = Len(b) + Len(s) /\ \A k \in 1 .. Len(b) : (b \o s)[k] = b[k]
  BY <1>2 DEF b
<1>4. Len(p) \in Nat /\ Len(q) \in Nat /\ Len(r) \in Nat /\ Len(s) \in Nat
  OBVIOUS
<1> QED BY <1>1, <1>2, <1>3, <1>4, SMTT(30) DEF a, b

\* The samples behind the last whole group, and their words.
RestOf(src, w, rest, S) == \A k \in 0 .. 4 : k < rest => src[w + k + 1] \in S
TailOf(t, src, w, rest, S) ==
  /\ t \in Seq(Triples(S))
  /\ Len(t) = IF rest < 2 THEN rest ELSE IF rest = 2 THEN 2 ELSE rest - 1
  /\ rest > 1 => t[1][2] = src[w + 1] /\ t[2][1] = src[w + 2]
  /\ rest > 3 => t[2][3] = src[w + 3] /\ t[3][2] = src[w + 4]

LEMMA TailWords ==
  ASSUME NEW S, Blank \in S, Black \in S, NEW w \in Nat, NEW rest \in 0 .. 5, NEW src,
         RestOf(src, w, rest, S)
  PROVE  TailOf(Tail6(src, w, rest), src, w, rest, S)
<1> DEFINE T == Triples(S)
           s(k) == src[w + k + 1]
           a == <<Blank, s(0), Blank>>
           b == <<s(1), Blank, s(2)>>
           c == <<s(1), Blank, Black>>
           d == <<Blank, s(3), Blank>>
           e == <<s(4), Blank, Black>>
           p1 == IF rest > 0 THEN <<a>> ELSE <<>>
           p2 == IF rest > 2 THEN <<b>> ELSE IF rest > 1 THEN <<c>> ELSE <<>>
           p3 == IF rest > 3 THEN <<d>> ELSE <<>>
           p4 == IF rest > 4 THEN <<e>> ELSE <<>>
           t == Tail6(src, w, rest)
<1>1. t = p1 \o p2 \o p3 \o p4
  BY Zenon DEF Tail6
<1>2. /\ rest > 0 => a \in T
      /\ rest > 2 => b \in T
      /\ rest > 1 => c \in T
      /\ rest > 3 => d \in T
      /\ rest > 4 => e \in T
  <2>1. /\ rest > 0 => s(0) \in S
        /\ rest > 1 => s(1) \in S
        /\ rest > 2 => s(2) \in S
        /\ rest > 3 => s(3) \in S
        /\ rest > 4 => s(4) \in S
    BY DEF RestOf
  <2> HIDE DEF s
  <2> QED BY <2>1 DEF Triples
<1>3. a[2] = src[w + 1] /\ b[1] = src[w + 2] /\ c[1] = src[w + 2] /\ b[3] = src[w + 3] /\ d[2] = src[w + 4]
  OBVIOUS
<1> HIDE DEF a, b, c, d, e, T
<1>4. p1 \in Seq(T) /\ p2 \in Seq(T) /\ p3 \in Seq(T) /\ p4 \in Seq(T)
  BY <1>2
<1>5. /\ Len(p1) = IF rest > 0 THEN 1 ELSE 0
      /\ Len(p2) = IF rest > 1 THEN 1 ELSE 0
      /\ Len(p3) = IF rest > 3 THEN 1 ELSE 0
      /\ Len(p4) = IF rest > 4 THEN 1 ELSE 0
  OBVIOUS
<1>6. /\ rest > 0 => p1[1] = a
      /\ rest > 2 => p2[1] = b
      /\ rest = 2 => p2[1] = c
      /\ rest > 3 => p3[1] = d
  OBVIOUS
<1> HIDE DEF p1, p2, p3, p4, t
<1>7. /\ t \in Seq(T) /\ Len(t) = Len(p1) + Len(p2) + Len(p3) + Len(p4)
      /\ Len(p1) = 1 => t[1] = p1[1]
      /\ Len(p1) = 1 /\ Len(p2) = 1 => t[2] = p2[1]
      /\ Len(p1) = 1 /\ Len(p2) = 1 /\ Len(p3) = 1 => t[3] = p3[1]
  BY <1>1, <1>4, FewWords, SMTT(30)
<1>8. Len(t) = IF rest < 2 THEN rest ELSE IF rest = 2 THEN 2 ELSE rest - 1
  BY <1>5, <1>7
<1>9. rest > 1 => t[1][2] = src[w + 1] /\ t[2][1] = src[w + 2]
  BY <1>3, <1>5, <1>6, <1>7
<1>10. rest > 3 => t[2][3] = src[w + 3] /\ t[3][2] = src[w + 4]
  BY <1>3, <1>5, <1>6, <1>7
<1> QED BY <1>7, <1>8, <1>9, <1>10 DEF T, TailOf, t

\* The words of a line of luma: a group for every six samples, and the rest.
LEMMA LumaWords ==
  ASSUME NEW S, Blank \in S, Black \in S, NEW width \in Nat, NEW src \in [1 .. width -> S]
  PROVE  LET words == klvanc_y10_to_v210(src, width)
             len == width \div 6
             rest == width % 6
         IN  /\ words \in Seq(Triples(S))
             /\ Len(words) = 4 * len + (IF rest < 2 THEN rest ELSE IF rest = 2 THEN 2 ELSE rest - 1)
             /\ \A g \in 0 .. len - 1 :
                  /\ words[4 * g + 1][2] = src[6 * g + 1] /\ words[4 * g + 2][1] = src[6 * g + 2]
                  /\ words[4 * g + 2][3] = src[6 * g + 3] /\ words[4 * g + 3][2] = src[6 * g + 4]
                  /\ words[4 * g + 4][1] = src[6 * g + 5] /\ words[4 * g + 4][3] = src[6 * g + 6]
             /\ rest > 1 => words[4 * len + 1][2] = src[6 * len + 1] /\ words[4 * len + 2][1] = src[6 * len + 2]
             /\ rest > 3 => words[4 * len + 2][3] = src[6 * len + 3] /\ words[4 * len + 3][2] = src[6 * len + 4]
<1> DEFINE group(w) == LET s(k) == src[6 * w + k + 1]
                  IN << <<Blank, s(0), Blank>>, <<s(1), Blank, s(2)>>,
                        <<Blank, s(3), Blank>>, <<s(4), Blank, s(5)>> >>
           len == width \div 6
           rest == width % 6
           c == [w \in 1 .. len |-> group(w - 1)]
           t == Tail6(src, 6 * len, rest)
           flat == FlattenSeq(c)
<1>1. klvanc_y10_to_v210(src, width) = flat \o t
  BY DEF klvanc_y10_to_v210
<1>2. len \in Nat /\ rest \in 0 .. 5 /\ width = 6 * len + rest
  OBVIOUS
<1> DEFINE tl == IF rest < 2 THEN rest ELSE IF rest = 2 THEN 2 ELSE rest - 1
<1> HIDE DEF len, rest
<1>3. ASSUME NEW w \in 0 .. len - 1
      PROVE  /\ group(w) \in Seq(Triples(S)) /\ Len(group(w)) = 4
             /\ group(w)[1][2] = src[6 * w + 1] /\ group(w)[2][1] = src[6 * w + 2]
             /\ group(w)[2][3] = src[6 * w + 3] /\ group(w)[3][2] = src[6 * w + 4]
             /\ group(w)[4][1] = src[6 * w + 5] /\ group(w)[4][3] = src[6 * w + 6]
  <2>1. \A k \in 0 .. 5 : src[6 * w + k + 1] \in S
    BY <1>2
  <2> QED BY <2>1 DEF Triples
<1>4. t \in Seq(Triples(S)) /\ Len(t) = tl
      /\ (rest > 1 => t[1][2] = src[6 * len + 1] /\ t[2][1] = src[6 * len + 2])
      /\ (rest > 3 => t[2][3] = src[6 * len + 3] /\ t[3][2] = src[6 * len + 4])
  <2>1. \A k \in 0 .. 4 : k < rest => src[6 * len + k + 1] \in S
    BY <1>2
  <2>2. 6 * len \in Nat
    BY <1>2
  <2> DEFINE w == 6 * len
  <2>3. RestOf(src, w, rest, S)
    BY <2>1 DEF RestOf
  <2>4. w \in Nat /\ rest \in 0 .. 5
    BY <1>2
  <2>5. t = Tail6(src, w, rest)
    OBVIOUS
  <2> HIDE DEF w, t
  <2>6. TailOf(t, src, w, rest, S)
    BY <2>3, <2>4, <2>5, TailWords
  <2> QED BY <2>6 DEF w, tl, TailOf
<1>5. c \in Seq(Seq(Triples(S))) /\ Len(c) = len /\ \A k \in 1 .. len : Len(c[k]) = 4
  <2>1. \A k \in 1 .. len : k - 1 \in 0 .. len - 1
    BY <1>2
  <2> HIDE DEF group
  <2>2. \A k \in 1 .. len : c[k] \in Seq(Triples(S)) /\ Len(c[k]) = 4
    BY <1>3, <2>1
  <2>3. c \in [1 .. len -> Seq(Triples(S))]
    BY <2>2
  <2>4. c \in Seq(Seq(Triples(S))) /\ Len(c) = len
    BY <1>2, <2>3, SeqDef
  <2> QED BY <2>2, <2>4
<1>6. \A k \in 0 .. len - 1 : c[k + 1] = group(k)
  BY <1>2
<1> HIDE DEF group, c, t
<1>7. 4 \in {3, 4}
  OBVIOUS
<1>8. flat \in Seq(Triples(S))
  BY <1>5, FlattenType
<1>9. Len(flat) = 4 * len /\ \A k \in 0 .. len - 1 : \A j \in 1 .. 4 : flat[4 * k + j] = c[k + 1][j]
  <2>1. \A k \in 1 .. Len(c) : Len(c[k]) = 4
    BY <1>5
  <2>2. Len(flat) = 4 * Len(c)
        /\ \A k \in 0 .. Len(c) - 1 : \A j \in 1 .. 4 : flat[4 * k + j] = c[k + 1][j]
    BY <1>5, <1>7, <2>1, FlattenEqual, ZenonT(40)
  <2> QED BY <1>5, <2>2
<1> HIDE DEF flat
<1>a. tl \in Nat /\ (rest > 1 => tl >= 2) /\ (rest > 3 => tl >= 3)
  BY <1>2
<1> HIDE DEF tl
<1>10. flat \o t \in Seq(Triples(S)) /\ Len(flat \o t) = 4 * len + tl
  <2>1. flat \o t \in Seq(Triples(S)) /\ Len(flat \o t) = Len(flat) + Len(t)
    BY <1>4, <1>8, SMTT(30)
  <2> QED BY <1>4, <1>9, <2>1
<1>11. \A k \in 1 .. 4 * len : (flat \o t)[k] = flat[k]
  BY <1>2, <1>4, <1>8, <1>9
<1>12. \A k \in 1 .. tl : (flat \o t)[4 * len + k] = t[k]
  BY <1>2, <1>4, <1>8, <1>9, <1>a, SMTT(30)
<1> DEFINE words == flat \o t
<1> HIDE DEF words
<1>13. ASSUME NEW g \in 0 .. len - 1, NEW j \in 1 .. 4 PROVE words[4 * g + j] = group(g)[j]
  <2>1. 4 * g + j \in 1 .. 4 * len
    BY <1>2
  <2> QED BY <1>6, <1>9, <1>11, <2>1 DEF words
<1>14. \A g \in 0 .. len - 1 :
                  /\ words[4 * g + 1][2] = src[6 * g + 1] /\ words[4 * g + 2][1] = src[6 * g + 2]
                  /\ words[4 * g + 2][3] = src[6 * g + 3] /\ words[4 * g + 3][2] = src[6 * g + 4]
                  /\ words[4 * g + 4][1] = src[6 * g + 5] /\ words[4 * g + 4][3] = src[6 * g + 6]
  BY <1>3, <1>13, SMTT(30)
<1>15. rest > 1 => words[4 * len + 1][2] = src[6 * len + 1] /\ words[4 * len + 2][1] = src[6 * len + 2]
  <2>1. ASSUME rest > 1 PROVE words[4 * len + 1] = t[1] /\ words[4 * len + 2] = t[2]
    <3>1. 1 \in 1 .. tl /\ 2 \in 1 .. tl
      BY <1>a, <2>1
    <3> QED BY <1>12, <3>1, Zenon DEF words
  <2> QED BY <1>4, <2>1
<1>16. rest > 3 => words[4 * len + 2][3] = src[6 * len + 3] /\ words[4 * len + 3][2] = src[6 * len + 4]
  <2>1. ASSUME rest > 3 PROVE words[4 * len + 2] = t[2] /\ words[4 * len + 3] = t[3]
    <3>1. 2 \in 1 .. tl /\ 3 \in 1 .. tl
      BY <1>2, <1>a, <2>1
    <3> QED BY <1>12, <3>1, Zenon DEF words
  <2> QED BY <1>4, <2>1
<1> QED BY <1>1, <1>10, <1>14, <1>15, <1>16, ZenonT(40) DEF words, len, rest, tl


\* Each of the samples that LumaSamples names is found twelve to a group.
Kept(rest) == IF rest > 3 THEN 4 ELSE IF rest > 1 THEN 2 ELSE 0

LEMMA LumaSamples ==
  ASSUME NEW S, Blank \in S, Black \in S, NEW width \in Nat, NEW src \in [1 .. width -> S],
         NEW k \in 1 .. 6 * (width \div 6) + Kept(width % 6)
  PROVE  Samples(Group(klvanc_y10_to_v210(src, width)))[2 * k] = src[k]
<1> DEFINE words == klvanc_y10_to_v210(src, width)
           len == width \div 6
           rest == width % 6
           smp == Samples(Group(words))
           g == (k - 1) \div 6
           r == (k - 1) % 6
<1>1. len \in Nat /\ rest \in 0 .. 5
  OBVIOUS
<1>2. /\ words \in Seq(Triples(S))
      /\ Len(words) = 4 * len + (IF rest < 2 THEN rest ELSE IF rest = 2 THEN 2 ELSE rest - 1)
      /\ \A h \in 0 .. len - 1 :
           /\ words[4 * h + 1][2] = src[6 * h + 1] /\ words[4 * h + 2][1] = src[6 * h + 2]
           /\ words[4 * h + 2][3] = src[6 * h + 3] /\ words[4 * h + 3][2] = src[6 * h + 4]
           /\ words[4 * h + 4][1] = src[6 * h + 5] /\ words[4 * h + 4][3] = src[6 * h + 6]
      /\ rest > 1 => words[4 * len + 1][2] = src[6 * len + 1] /\ words[4 * len + 2][1] = src[6 * len + 2]
      /\ rest > 3 => words[4 * len + 2][3] = src[6 * len + 3] /\ words[4 * len + 3][2] = src[6 * len + 4]
  BY LumaWords, ZenonT(40)
<1> HIDE DEF words
<1>3. \A q \in 0 .. Len(words) - 1 : \A j \in 1 .. 3 : smp[3 * q + j] = words[q + 1][j]
  BY <1>2, SamplesOf, ZenonT(40)
<1> HIDE DEF smp
<1>4. k \in 1 .. 6 * len + Kept(rest)
  OBVIOUS
<1> HIDE DEF len, rest
<1>5. k \in Nat /\ g \in Nat /\ r \in 0 .. 5 /\ k = 6 * g + r + 1
  BY <1>1, <1>4 DEF Kept
<1> HIDE DEF g, r
<1>6. g < len \/ (g = len /\ r < Kept(rest))
  BY <1>1, <1>4, <1>5 DEF Kept
<1>7. \A w \in 1 .. Len(words) : \A j \in 1 .. 3 : 2 * k = 3 * (w - 1) + j => smp[2 * k] = words[w][j]
  <2> SUFFICES ASSUME NEW w \in 1 .. Len(words), NEW j \in 1 .. 3, 2 * k = 3 * (w - 1) + j
               PROVE  smp[2 * k] = words[w][j]
    OBVIOUS
  <2>1. Len(words) \in Nat
    BY <1>2
  <2>2. w - 1 \in 0 .. Len(words) - 1 /\ (w - 1) + 1 = w
    BY <2>1
  <2>3. smp[3 * (w - 1) + j] = words[(w - 1) + 1][j]
    BY <1>3, <2>2
  <2> QED BY <2>2, <2>3
<1>8. CASE g < len
  <2>1. g \in 0 .. len - 1 /\ Len(words) \in Nat /\ Len(words) >= 4 * g + 4
    BY <1>1, <1>2, <1>5, <1>8
  <2>2. /\ words[4 * g + 1][2] = src[6 * g + 1] /\ words[4 * g + 2][1] = src[6 * g + 2]
        /\ words[4 * g + 2][3] = src[6 * g + 3] /\ words[4 * g + 3][2] = src[6 * g + 4]
        /\ words[4 * g + 4][1] = src[6 * g + 5] /\ words[4 * g + 4][3] = src[6 * g + 6]
    BY <1>2, <2>1
  <2>3. ASSUME r = 0 PROVE smp[2 * k] = src[k]
    <3> DEFINE v == 4 * g + 1
    <3>1. v \in 1 .. Len(words) /\ 2 * k = 3 * (v - 1) + 2 /\ 2 \in 1 .. 3 /\ k = 6 * g + 1
      BY <1>5, <2>1, <2>3
    <3>2. words[v][2] = src[6 * g + 1]
      BY <2>2
    <3> HIDE DEF v
    <3> QED BY <1>7, <3>1, <3>2
  <2>4. ASSUME r = 1 PROVE smp[2 * k] = src[k]
    <3> DEFINE v == 4 * g + 2
    <3>1. v \in 1 .. Len(words) /\ 2 * k = 3 * (v - 1) + 1 /\ 1 \in 1 .. 3 /\ k = 6 * g + 2
      BY <1>5, <2>1, <2>4
    <3>2. words[v][1] = src[6 * g + 2]
      BY <2>2
    <3> HIDE DEF v
    <3> QED BY <1>7, <3>1, <3>2
  <2>5. ASSUME r = 2 PROVE smp[2 * k] = src[k]
    <3> DEFINE v == 4 * g + 2
    <3>1. v \in 1 .. Len(words) /\ 2 * k = 3 * (v - 1) + 3 /\ 3 \in 1 .. 3 /\ k = 6 * g + 3
      BY <1>5, <2>1, <2>5
    <3>2. words[v][3] = src[6 * g + 3]
      BY <2>2
    <3> HIDE DEF v
    <3> QED BY <1>7, <3>1, <3>2
  <2>6. ASSUME r = 3 PROVE smp[2 * k] = src[k]
    <3> DEFINE v == 4 * g + 3
    <3>1. v \in 1 .. Len(words) /\ 2 * k = 3 * (v - 1) + 2 /\ 2 \in 1 .. 3 /\ k = 6 * g + 4
      BY <1>5, <2>1, <2>6
    <3>2. words[v][2] = src[6 * g + 4]
      BY <2>2
    <3> HIDE DEF v
    <3> QED BY <1>7, <3>1, <3>2
  <2>7. ASSUME r = 4 PROVE smp[2 * k] = src[k]
    <3> DEFINE v == 4 * g + 4
    <3>1. v \in 1 .. Len(words) /\ 2 * k = 3 * (v - 1) + 1 /\ 1 \in 1 .. 3 /\ k = 6 * g + 5
      BY <1>5, <2>1, <2>7
    <3>2. words[v][1] = src[6 * g + 5]
      BY <2>2
    <3> HIDE DEF v
    <3> QED BY <1>7, <3>1, <3>2
  <2>8. ASSUME r = 5 PROVE smp[2 * k] = src[k]
    <3> DEFINE v == 4 * g + 4
    <3>1. v \in 1 .. Len(words) /\ 2 * k = 3 * (v - 1) + 3 /\ 3 \in 1 .. 3 /\ k = 6 * g + 6
      BY <1>5, <2>1, <2>8
    <3>2. words[v][3] = src[6 * g + 6]
      BY <2>2
    <3> HIDE DEF v
    <3> QED BY <1>7, <3>1, <3>2
  <2>9. r = 0 \/ r = 1 \/ r = 2 \/ r = 3 \/ r = 4 \/ r = 5
    BY <1>5
  <2> QED BY <2>3, <2>4, <2>5, <2>6, <2>7, <2>8, <2>9, Zenon DEF smp, words
<1>9. CASE g = len /\ r < Kept(rest)
  <2>1. /\ rest > 1 /\ Len(words) \in Nat /\ Len(words) >= 4 * g + 2
        /\ r \in 0 .. 3
        /\ r > 1 => rest > 3 /\ Len(words) >= 4 * g + 3
    BY <1>1, <1>2, <1>5, <1>9 DEF Kept
  <2>2. words[4 * g + 1][2] = src[6 * g + 1] /\ words[4 * g + 2][1] = src[6 * g + 2]
    BY <1>2, <1>9, <2>1
  <2>3. r > 1 => words[4 * g + 2][3] = src[6 * g + 3] /\ words[4 * g + 3][2] = src[6 * g + 4]
    BY <1>2, <1>9, <2>1
  <2>4. ASSUME r = 0 PROVE smp[2 * k] = src[k]
    <3> DEFINE v == 4 * g + 1
    <3>1. v \in 1 .. Len(words) /\ 2 * k = 3 * (v - 1) + 2 /\ 2 \in 1 .. 3 /\ k = 6 * g + 1
      BY <1>5, <2>1, <2>4
    <3>2. words[v][2] = src[6 * g + 1]
      BY <2>2
    <3> HIDE DEF v
    <3> QED BY <1>7, <3>1, <3>2
  <2>5. ASSUME r = 1 PROVE smp[2 * k] = src[k]
    <3> DEFINE v == 4 * g + 2
    <3>1. v \in 1 .. Len(words) /\ 2 * k = 3 * (v - 1) + 1 /\ 1 \in 1 .. 3 /\ k = 6 * g + 2
      BY <1>5, <2>1, <2>5
    <3>2. words[v][1] = src[6 * g + 2]
      BY <2>2
    <3> HIDE DEF v
    <3> QED BY <1>7, <3>1, <3>2
  <2>6. ASSUME r = 2 PROVE smp[2 * k] = src[k]
    <3> DEFINE v == 4 * g + 2
    <3>1. v \in 1 .. Len(words) /\ 2 * k = 3 * (v - 1) + 3 /\ 3 \in 1 .. 3 /\ k = 6 * g + 3
      BY <1>5, <2>1, <2>6
    <3>2. words[v][3] = src[6 * g + 3]
      BY <2>3, <2>6
    <3> HIDE DEF v
    <3> QED BY <1>7, <3>1, <3>2
  <2>7. ASSUME r = 3 PROVE smp[2 * k] = src[k]
    <3> DEFINE v == 4 * g + 3
    <3>1. v \in 1 .. Len(words) /\ 2 * k = 3 * (v - 1) + 2 /\ 2 \in 1 .. 3 /\ k = 6 * g + 4
      BY <1>5, <2>1, <2>7
    <3>2. words[v][2] = src[6 * g + 4]
      BY <2>3, <2>7
    <3> HIDE DEF v
    <3> QED BY <1>7, <3>1, <3>2
  <2>8. r = 0 \/ r = 1 \/ r = 2 \/ r = 3
    BY <2>1
  <2> QED BY <2>4, <2>5, <2>6, <2>7, <2>8, Zenon DEF smp, words
<1> QED BY <1>6, <1>8, <1>9

\* The samples of a line whose words are filled one sample after the other.
LEMMA UyvySamples ==
  ASSUME NEW S, Blank \in S, Black \in S, NEW width \in Nat, NEW src \in [1 .. width -> S],
         NEW k \in 1 .. width
  PROVE  Samples(Group(klvanc_uyvy_to_v210(src, width)))[k] = src[k]
<1> DEFINE s(i) == IF i <= width THEN src[i] ELSE IF i % 2 = 1 THEN Blank ELSE Black
           n == (width + 2) \div 3
           words == [w \in 1 .. n |-> <<s(3 * w - 2), s(3 * w - 1), s(3 * w)>>]
           smp == Samples(Group(words))
           q == (k - 1) \div 3
           j == ((k - 1) % 3) + 1
<1>1. klvanc_uyvy_to_v210(src, width) = words
  BY DEF klvanc_uyvy_to_v210
<1>2. n \in Nat
  OBVIOUS
<1>3. q \in 0 .. n - 1 /\ j \in 1 .. 3 /\ k = 3 * q + j
  OBVIOUS
<1>4. \A i \in Nat \ {0} : s(i) \in S
  OBVIOUS
<1>5. s(k) = src[k]
  OBVIOUS
<1> HIDE DEF s, n, q, j
<1>6. \A w \in 1 .. n : words[w] \in Triples(S)
  <2> SUFFICES ASSUME NEW w \in 1 .. n PROVE <<s(3 * w - 2), s(3 * w - 1), s(3 * w)>> \in Triples(S)
    OBVIOUS
  <2>1. s(3 * w - 2) \in S /\ s(3 * w - 1) \in S /\ s(3 * w) \in S
    BY <1>2, <1>4
  <2> QED BY <2>1 DEF Triples
<1>7. words \in Seq(Triples(S)) /\ Len(words) = n
  <2>1. words \in [1 .. n -> Triples(S)]
    BY <1>6
  <2> QED BY <1>2, <2>1, SeqDef
<1>8. words[q + 1][j] = s(k)
  <2>1. q + 1 \in 1 .. n
    BY <1>2, <1>3
  <2>2. words[q + 1] = <<s(3 * (q + 1) - 2), s(3 * (q + 1) - 1), s(3 * (q + 1))>>
    BY <2>1
  <2> HIDE DEF words
  <2>3. 3 * (q + 1) - 2 = 3 * q + 1 /\ 3 * (q + 1) - 1 = 3 * q + 2 /\ 3 * (q + 1) = 3 * q + 3
    BY <1>2, <1>3
  <2> QED BY <1>3, <2>2, <2>3, SMTT(30)
<1> HIDE DEF words
<1>9. \A p \in 0 .. Len(words) - 1 : \A i \in 1 .. 3 : smp[3 * p + i] = words[p + 1][i]
  BY <1>7, SamplesOf
<1> HIDE DEF smp
<1>10. smp[k] = words[q + 1][j]
  BY <1>3, <1>7, <1>9
<1> QED BY <1>1, <1>5, <1>8, <1>10 DEF smp

----------------------------------------------------------------------------
(* A line and back                                                         *)

LEMMA WidthFits ==
  ASSUME NEW n \in Nat, NEW rest \in 0 .. 5
  PROVE  /\ Width(n, rest) \in Nat /\ Width(n, rest) % 6 = rest
         /\ Width(n, rest) >= n /\ Width(n, rest) <= n + 5
<1> DEFINE q == n \div 6
           r == n % 6
           v == IF r <= rest THEN 6 * q + rest ELSE 6 * (q + 1) + rest
<1>1. q \in Nat /\ r \in 0 .. 5 /\ n = 6 * q + r
  OBVIOUS
<1> HIDE DEF q, r
<1>2. v \in n .. n + 5
  BY <1>1
<1>3. v % 6 = rest
  <2>1. \A a \in Nat : (6 * a + rest) % 6 = rest
    OBVIOUS
  <2>2. q \in Nat /\ q + 1 \in Nat
    BY <1>1
  <2> QED BY <2>1, <2>2
<1> HIDE DEF v
<1>4. \E w \in n .. n + 5 : w % 6 = rest
  BY <1>2, <1>3
<1>5. Width(n, rest) \in n .. n + 5 /\ Width(n, rest) % 6 = rest
  BY <1>4 DEF Width
<1> QED BY <1>5

\* A frame has seven words more than its payload.
LEMMA FramedList ==
  ASSUME NEW c, NEW bytes, IsList(bytes)
  PROVE  IsList(Framed(c, bytes)) /\ Len(Framed(c, bytes)) = Len(bytes) + 7
<1> DEFINE did == Did[c][1]
           sdid == Did[c][2]
           body == [k \in 1 .. Len(bytes) + 3 |->
                 WithParity(IF k = 1 THEN did ELSE IF k = 2 THEN sdid
                            ELSE IF k = 3 THEN Len(bytes) ELSE bytes[k - 3])]
           a == <<0, 1023, 1023>>
           z == <<klvanc_checksum_calculate(body)>>
<1>1. Framed(c, bytes) = a \o body \o z
  BY Zenon DEF Framed, klvanc_sdi_create_payload
<1>2. Len(bytes) \in Nat
  BY ListFacts
<1>3. Len(bytes) + 3 \in Nat /\ body = [k \in 1 .. Len(bytes) + 3 |-> body[k]]
  BY <1>2
<1>4. a = [k \in 1 .. 3 |-> a[k]] /\ z = [k \in 1 .. 1 |-> z[k]]
  OBVIOUS
<1> HIDE DEF a, body, z
<1>5. IsList(a) /\ Len(a) = 3 /\ IsList(z) /\ Len(z) = 1
  BY <1>4, ListOfLength
<1>6. IsList(body) /\ Len(body) = Len(bytes) + 3
  BY <1>3, ListOfLength
<1>7. IsList(a \o body) /\ Len(a \o body) = Len(bytes) + 6
  <2>1. IsList(a \o body) /\ Len(a \o body) = Len(a) + Len(body)
    BY <1>5, <1>6, ListConcat
  <2> QED BY <1>2, <1>5, <1>6, <2>1
<1>8. IsList(a \o body \o z) /\ Len(a \o body \o z) = Len(bytes) + 7
  <2>1. IsList((a \o body) \o z) /\ Len((a \o body) \o z) = Len(a \o body) + Len(z)
    BY <1>5, <1>7, ListConcat
  <2> QED BY <1>2, <1>5, <1>7, <2>1
<1> QED BY <1>1, <1>8

\* The samples of a line hold the words sent, then black.
LEMMA SamplesSent ==
  ASSUME NEW sent, IsList(sent), NEW width \in Nat
  PROVE  LET ten == Samples10(sent, width)
             S == {ten[k] : k \in 1 .. width} \cup {Blank, Black}
         IN  /\ ten \in [1 .. width -> S] /\ Blank \in S /\ Black \in S
             /\ \A k \in 1 .. width : k <= Len(sent) => ten[k] = sent[k]
BY DEF Samples10

LEMMA WholeGroups ==
  ASSUME NEW n \in Nat
  PROVE  n = 6 * (n \div 6) + (n % 6) /\ n % 6 \in 0 .. 5
OBVIOUS

\* klvanc_v210_line_to_nv20_c at an even width.
LEMMA Nv20Arrives ==
  ASSUME NEW sent, IsList(sent), NEW width \in Nat, (width % 6) % 2 = 0,
         NEW l \in klvanc_v210_line_to_nv20_c(
                     Group(klvanc_y10_to_v210(Samples10(sent, width), width)), 6 * width, width)
  PROVE  DOMAIN l = 1 .. width /\ \A k \in 1 .. width : k <= Len(sent) => l[k] = sent[k]
<1> DEFINE ten == Samples10(sent, width)
           S == {ten[k] : k \in 1 .. width} \cup {Blank, Black}
           smp == Samples(Group(klvanc_y10_to_v210(ten, width)))
           m == 6 * (width \div 6) + Kept(width % 6)
<1>1. /\ ten \in [1 .. width -> S] /\ Blank \in S /\ Black \in S
      /\ \A k \in 1 .. width : k <= Len(sent) => ten[k] = sent[k]
  BY SamplesSent
<1>2. l = [k \in 1 .. m |-> smp[2 * k]]
  BY DEF klvanc_v210_line_to_nv20_c, Luma, Kept
<1> HIDE DEF ten, S
<1>3. m = width
  <2>1. width = 6 * (width \div 6) + (width % 6) /\ width % 6 \in 0 .. 5
    BY WholeGroups
  <2>2. width % 6 \in {0, 2, 4}
    BY <2>1
  <2> QED BY <2>1, <2>2 DEF Kept
<1>4. \A k \in 1 .. m : smp[2 * k] = ten[k]
  BY <1>1, LumaSamples
<1> HIDE DEF smp, m
<1> QED BY <1>1, <1>2, <1>3, <1>4

\* klvanc_v210_planar_unpack_c.
LEMMA PlanarArrives ==
  ASSUME NEW sent, IsList(sent), NEW width \in Nat, NEW l,
         l = klvanc_v210_planar_unpack_c(
               Group(klvanc_y10_to_v210(Samples10(sent, width), width)), width).y
  PROVE  /\ DOMAIN l = 1 .. 6 * (width \div 6)
         /\ \A k \in 1 .. 6 * (width \div 6) : k <= Len(sent) => l[k] = sent[k]
<1> DEFINE ten == Samples10(sent, width)
           S == {ten[k] : k \in 1 .. width} \cup {Blank, Black}
           smp == Samples(Group(klvanc_y10_to_v210(ten, width)))
           m == 6 * (width \div 6)
<1>1. /\ ten \in [1 .. width -> S] /\ Blank \in S /\ Black \in S
      /\ \A k \in 1 .. width : k <= Len(sent) => ten[k] = sent[k]
  BY SamplesSent
<1>2. l = [k \in 1 .. m |-> smp[2 * k]]
  BY DEF klvanc_v210_planar_unpack_c
<1> HIDE DEF ten, S
<1>3. m \in Nat /\ m <= width /\ \A k \in 1 .. m : k \in 1 .. m + Kept(width % 6)
  BY DEF Kept
<1>4. \A k \in 1 .. m : smp[2 * k] = ten[k]
  BY <1>1, <1>3, LumaSamples
<1> HIDE DEF smp, m
<1>5. DOMAIN l = 1 .. m /\ \A k \in 1 .. m : k <= Len(sent) => l[k] = sent[k]
  BY <1>1, <1>2, <1>3, <1>4
<1> QED BY <1>5 DEF m

\* klvanc_v210_line_to_uyvy_c, for as many pixels as cover the width.
LEMMA UyvyArrives ==
  ASSUME NEW sent, IsList(sent), NEW width \in Nat, NEW l,
         l = SubSeq(klvanc_v210_line_to_uyvy_c(
                      Group(klvanc_uyvy_to_v210(Samples10(sent, width), width)), (width + 1) \div 2), 1, width)
  PROVE  /\ DOMAIN l = 1 .. width /\ l = [k \in DOMAIN l |-> l[k]]
         /\ \A k \in 1 .. width : k <= Len(sent) => l[k] = sent[k]
<1> DEFINE ten == Samples10(sent, width)
           S == {ten[k] : k \in 1 .. width} \cup {Blank, Black}
           smp == Samples(Group(klvanc_uyvy_to_v210(ten, width)))
           m == 12 * (((width + 1) \div 2 + 5) \div 6)
<1>1. /\ ten \in [1 .. width -> S] /\ Blank \in S /\ Black \in S
      /\ \A k \in 1 .. width : k <= Len(sent) => ten[k] = sent[k]
  BY SamplesSent
<1>2. l = SubSeq(SubSeq(smp, 1, m), 1, width)
  BY DEF klvanc_v210_line_to_uyvy_c
<1> HIDE DEF ten, S
<1>3. m \in Nat /\ m >= width
  OBVIOUS
<1>4. \A k \in 1 .. width : smp[k] = ten[k]
  BY <1>1, UyvySamples
<1> HIDE DEF smp, m
<1>5. l = [k \in 1 .. width |-> smp[k]]
  <2>1. SubSeq(smp, 1, m) = [k \in 1 .. m |-> smp[k]]
    BY <1>3
  <2> DEFINE t == [k \in 1 .. m |-> smp[k]]
  <2>2. SubSeq(t, 1, width) = [k \in 1 .. width |-> t[k]]
    BY <1>3
  <2> QED BY <1>2, <1>3, <2>1, <2>2
<1>6. DOMAIN l = 1 .. width /\ l = [k \in DOMAIN l |-> l[k]]
  BY <1>5
<1> QED BY <1>1, <1>4, <1>5, <1>6

\* A line that arrives begins with the frame that was sent; only whole groups of
\* it on the planar path.
Begins(l, sent, p) ==
  LET n == IF p = "planar" /\ Len(l) < Len(sent) THEN Len(l) ELSE Len(sent)
  IN  SubSeq(l, 1, n) = SubSeq(sent, 1, n) /\ n > Len(sent) - 6

LEMMA SameBeginning ==
  ASSUME NEW sent, IsList(sent), NEW p, NEW m \in Nat, NEW l,
         DOMAIN l = 1 .. m, l = [k \in DOMAIN l |-> l[k]],
         \A k \in 1 .. m : k <= Len(sent) => l[k] = sent[k],
         m > Len(sent) - 6, p # "planar" => m >= Len(sent)
  PROVE  Begins(l, sent, p)
<1> DEFINE n == IF p = "planar" /\ Len(l) < Len(sent) THEN Len(l) ELSE Len(sent)
<1>1. Len(sent) \in Nat
  BY ListFacts
<1>2. Len(l) = m
  <2>1. IsList(l) /\ Len(l) = m
    BY ListOfLength
  <2> QED BY <2>1
<1>3. n \in Nat /\ n <= m /\ n <= Len(sent) /\ n > Len(sent) - 6
  BY <1>1, <1>2
<1> HIDE DEF n
<1>4. SubSeq(l, 1, n) = [k \in 1 .. n |-> l[k]] /\ SubSeq(sent, 1, n) = [k \in 1 .. n |-> sent[k]]
  BY <1>3
<1>5. \A k \in 1 .. n : l[k] = sent[k]
  BY <1>1, <1>3
<1>6. SubSeq(l, 1, n) = SubSeq(sent, 1, n)
  BY <1>4, <1>5
<1> QED BY <1>3, <1>6 DEF n, Begins

\* The line that carries a frame, and the lines the converters make of it.
SentLine(sent, p, width) ==
  [width |-> width,
   v210  |-> IF p = "uyvy" THEN klvanc_uyvy_to_v210(Samples10(sent, width), width)
                           ELSE klvanc_y10_to_v210(Samples10(sent, width), width)]

LEMMA LineReturns ==
  ASSUME NEW sent, IsList(sent), NEW rest \in 0 .. 5, rest % 2 = 0, NEW p, NEW ln, NEW l,
         ln = SentLine(sent, p, Width(Len(sent), rest)),
         \/ p = "nv20" /\ l \in klvanc_v210_line_to_nv20_c(Group(ln.v210), 6 * ln.width, ln.width)
         \/ p = "planar" /\ l = klvanc_v210_planar_unpack_c(Group(ln.v210), ln.width).y
         \/ p = "uyvy" /\ l = SubSeq(klvanc_v210_line_to_uyvy_c(Group(ln.v210), (ln.width + 1) \div 2), 1, ln.width)
  PROVE  Begins(l, sent, p)
<1> DEFINE w == Width(Len(sent), rest)
<1>1. Len(sent) \in Nat
  BY ListFacts
<1>2. w \in Nat /\ w % 6 = rest /\ w >= Len(sent)
  BY <1>1, WidthFits
<1>3. ln.width = w /\ ln.v210 = IF p = "uyvy" THEN klvanc_uyvy_to_v210(Samples10(sent, w), w)
                                ELSE klvanc_y10_to_v210(Samples10(sent, w), w)
  BY DEF SentLine
<1> HIDE DEF w
<1>4. CASE p = "nv20"
  <2>1. l \in klvanc_v210_line_to_nv20_c(Group(klvanc_y10_to_v210(Samples10(sent, w), w)), 6 * w, w)
    BY <1>3, <1>4
  <2>2. DOMAIN l = 1 .. w /\ \A k \in 1 .. w : k <= Len(sent) => l[k] = sent[k]
    BY <1>2, <2>1, Nv20Arrives, ZenonT(40)
  <2>3. l = [k \in DOMAIN l |-> l[k]]
    BY <2>1 DEF klvanc_v210_line_to_nv20_c, Luma
  <2>4. w > Len(sent) - 6
    BY <1>1, <1>2
  <2> QED BY <1>2, <2>2, <2>3, <2>4, SameBeginning
<1>5. CASE p = "planar"
  <2> DEFINE m == 6 * (w \div 6)
  <2>1. l = klvanc_v210_planar_unpack_c(Group(klvanc_y10_to_v210(Samples10(sent, w), w)), w).y
    BY <1>3, <1>5
  <2>2. DOMAIN l = 1 .. m /\ \A k \in 1 .. m : k <= Len(sent) => l[k] = sent[k]
    BY <1>2, <2>1, PlanarArrives, SMTT(30)
  <2>3. l = [k \in DOMAIN l |-> l[k]]
    BY <2>1 DEF klvanc_v210_planar_unpack_c
  <2>4. m \in Nat /\ m > Len(sent) - 6
    BY <1>1, <1>2, WholeGroups
  <2> HIDE DEF m
  <2> QED BY <1>5, <2>2, <2>3, <2>4, SameBeginning
<1>6. CASE p = "uyvy"
  <2>1. l = SubSeq(klvanc_v210_line_to_uyvy_c(Group(klvanc_uyvy_to_v210(Samples10(sent, w), w)), (w + 1) \div 2), 1, w)
    BY <1>3, <1>6
  <2>2. DOMAIN l = 1 .. w /\ \A k \in 1 .. w : k <= Len(sent) => l[k] = sent[k]
    BY <1>2, <2>1, UyvyArrives, SMTT(30)
  <2>3. l = [k \in DOMAIN l |-> l[k]]
    BY <1>2, <2>1, UyvyArrives
  <2>4. w > Len(sent) - 6
    BY <1>1, <1>2
  <2> QED BY <1>2, <2>2, <2>3, <2>4, SameBeginning
<1> QED BY <1>4, <1>5, <1>6

----------------------------------------------------------------------------
(* The invariant                                                           *)

\* A struct whose arrays are arrays, as an application builds it.
Caption708 == [cc_valid : Byte, cc_type : Byte, cc_data_1 : Byte, cc_data_2 : Byte]

Built(c, pkt) ==
  /\ c \in DOMAIN Did
  /\ c = "scte104" => "ops" \in DOMAIN pkt /\ pkt.ops \in Seq(Operations)
  /\ c = "eia708" => /\ {"ccdata", "ccsvc"} \subseteq DOMAIN pkt
                     /\ "cc" \in DOMAIN pkt.ccdata /\ pkt.ccdata.cc \in Seq(Caption708)
                     /\ "svc" \in DOMAIN pkt.ccsvc /\ pkt.ccsvc.svc \in Seq(CaptionServices)
  /\ c = "sdp" => pkt \in SdpPackets
  /\ c = "s2108" => pkt \in HdrPackets

LEMMA PayloadList ==
  ASSUME NEW c, NEW pkt, Built(c, pkt)
  PROVE  IsList(Payload(c, pkt))
<1>1. CASE c = "scte104"
  BY <1>1, MessageList DEF Built
<1>2. CASE c = "eia708"
  <2>1. IsList(klvanc_convert_EIA_708B_to_packetBytes(pkt))
    BY <1>2, CdpList DEF Built
  <2> QED BY <1>2, <2>1 DEF Payload
<1>3. CASE c = "eia608"
  BY <1>3, Eia608List DEF Payload
<1>4. CASE c = "smpte12_2"
  BY <1>4, TimeCodeList DEF Payload
<1>5. CASE c = "afd"
  BY <1>5, AfdList DEF Payload
<1>6. CASE c = "counter"
  BY <1>6, CounterList DEF Payload
<1>7. CASE c = "sdp"
  BY <1>7, SdpList DEF Payload, Built
<1>8. CASE c = "s2108"
  BY <1>8, HdrList DEF Payload, Built
<1>9. c \in {"counter", "afd", "scte104", "smpte12_2", "s2108", "eia708", "eia608", "sdp"}
  BY DEF Built, Did
<1> QED BY <1>1, <1>2, <1>3, <1>4, <1>5, <1>6, <1>7, <1>8, <1>9

\* How far a packet has come, and what is then in line.
BuildInv == stage = "build" => Built(codec, app)
CutInv ==
  /\ stage \in {"idle", "build"} => cut = 0
  /\ stage \in {"framed", "carried", "arrived"} =>
       /\ IsList(Payload(codec, app)) /\ cut \in Nat /\ cut <= Len(Payload(codec, app))
FramedInv == stage = "framed" => line = SentWords
CarriedInv ==
  stage = "carried" => \E rest \in Rests : line = SentLine(SentWords, path, Width(Len(SentWords), rest))

CarryInv == BuildInv /\ CutInv /\ FramedInv /\ CarriedInv /\ LineCarries

LEMMA SentIsList ==
  ASSUME stage \in {"framed", "carried", "arrived"}, CutInv
  PROVE  IsList(SentWords)
<1> DEFINE bytes == Payload(codec, app)
           kept == SubSeq(bytes, 1, Len(bytes) - cut)
<1>1. IsList(bytes) /\ cut \in Nat /\ cut <= Len(bytes)
  BY DEF CutInv
<1> HIDE DEF bytes
<1>2. Len(bytes) \in Nat
  BY <1>1, ListFacts
<1>3. kept = [k \in 1 .. Len(bytes) - cut |-> kept[k]] /\ Len(bytes) - cut \in Nat
  BY <1>1, <1>2
<1> HIDE DEF kept
<1>4. IsList(kept)
  BY <1>3, ListOfLength
<1>5. IsList(Framed(codec, kept))
  BY <1>4, FramedList
<1> QED BY <1>5 DEF SentWords, kept, bytes

LEMMA CreatedIsBuilt == \A c \in DOMAIN Created : Built(c, Created[c])
<1> SUFFICES ASSUME NEW c \in DOMAIN Created PROVE Built(c, Created[c])
  OBVIOUS
<1>1. c \in {"counter", "afd", "scte104", "smpte12_2", "eia708", "eia608"}
  BY DEF Created
<1>2. c \in DOMAIN Did
  BY <1>1 DEF Did
<1>3. CASE c = "scte104"
  <2>1. "ops" \in DOMAIN Created[c] /\ Created[c].ops = <<>>
    BY <1>3 DEF Created, klvanc_alloc_SCTE_104
  <2> QED BY <1>2, <1>3, <2>1 DEF Built
<1>4. CASE c = "eia708"
  <2> DEFINE pkt == klvanc_create_eia708_cdp
  <2>1. Created[c] = pkt
    BY <1>4 DEF Created
  <2>2. /\ {"ccdata", "ccsvc"} \subseteq DOMAIN pkt
        /\ "cc" \in DOMAIN pkt.ccdata /\ pkt.ccdata.cc = <<>>
        /\ "svc" \in DOMAIN pkt.ccsvc /\ pkt.ccsvc.svc = <<>>
    BY DEF klvanc_create_eia708_cdp, NoServices
  <2> QED BY <1>2, <1>4, <2>1, <2>2 DEF Built
<1> QED BY <1>1, <1>2, <1>3, <1>4 DEF Built

\* A step of the application leaves a struct that is built.
BuildStep == stage' = "build" /\ Built(codec', app') /\ UNCHANGED cut

LEMMA StartBuilds ==
  ASSUME stage = "idle",
         (\E c \in DOMAIN Created : Create(c)) \/ (\E pkt \in SdpPackets : Supply("sdp", pkt))
           \/ (\E pkt \in HdrPackets : Supply("s2108", pkt)) \/ FromST370
  PROVE  BuildStep
<1> USE DEF BuildStep
<1>1. ASSUME NEW c \in DOMAIN Created, Create(c) PROVE BuildStep
  BY <1>1, CreatedIsBuilt DEF Create
<1>2. ASSUME NEW pkt \in SdpPackets, Supply("sdp", pkt) PROVE BuildStep
  BY <1>2 DEF Supply, Built, Did
<1>3. ASSUME NEW pkt \in HdrPackets, Supply("s2108", pkt) PROVE BuildStep
  BY <1>3 DEF Supply, Built, Did
<1>4. ASSUME FromST370 PROVE BuildStep
  BY <1>4 DEF FromST370, Supply, Built, Did
<1> QED BY <1>1, <1>2, <1>3, <1>4

LEMMA FillBuilds ==
  ASSUME NEW pkt, stage = "build", Fill(pkt), Built(codec, pkt)
  PROVE  BuildStep
BY DEF Fill, BuildStep

LEMMA MessageBuilds ==
  ASSUME BuildInv, SetTimestamp \/ AddOperation
  PROVE  BuildStep
<1>1. stage = "build" /\ codec = "scte104" /\ "ops" \in DOMAIN app /\ app.ops \in Seq(Operations)
  BY DEF SetTimestamp, AddOperation, Building, BuildInv, Built
<1>2. \A pkt : "ops" \in DOMAIN pkt /\ pkt.ops \in Seq(Operations) => Built(codec, pkt)
  BY <1>1 DEF Built, Did
<1>3. CASE SetTimestamp
  <2>1. PICK ts \in Timestamps : Fill([app EXCEPT !.timestamp = ts])
    BY <1>3 DEF SetTimestamp
  <2> DEFINE pkt == [app EXCEPT !.timestamp = ts]
  <2>2. "ops" \in DOMAIN pkt /\ pkt.ops = app.ops
    BY <1>1
  <2> HIDE DEF pkt
  <2>3. Built(codec, pkt)
    BY <1>1, <1>2, <2>2
  <2> QED BY <1>1, <2>1, <2>3, FillBuilds DEF pkt
<1>4. CASE AddOperation
  <2>1. PICK op \in Operations : Fill([app EXCEPT !.ops = Append(@, op)])
    BY <1>4 DEF AddOperation, klvanc_SCTE_104_Add_MOM_Op
  <2> DEFINE pkt == [app EXCEPT !.ops = Append(@, op)]
  <2>2. "ops" \in DOMAIN pkt /\ pkt.ops = Append(app.ops, op)
    BY <1>1
  <2>3. Append(app.ops, op) \in Seq(Operations)
    BY <1>1
  <2> HIDE DEF pkt
  <2>4. Built(codec, pkt)
    BY <1>2, <2>2, <2>3
  <2> QED BY <1>1, <2>1, <2>4, FillBuilds DEF pkt
<1> QED BY <1>3, <1>4

LEMMA CaptionBuilds ==
  ASSUME BuildInv, SetFramerate \/ SetSections \/ Finalize
  PROVE  BuildStep
<1> DEFINE Arrays(pkt) == /\ {"ccdata", "ccsvc"} \subseteq DOMAIN pkt
                          /\ "cc" \in DOMAIN pkt.ccdata /\ pkt.ccdata.cc \in Seq(Caption708)
                          /\ "svc" \in DOMAIN pkt.ccsvc /\ pkt.ccsvc.svc \in Seq(CaptionServices)
<1>1. stage = "build" /\ codec = "eia708" /\ Arrays(app)
  <2>1. Building("eia708")
    <3>1. SetFramerate => Building("eia708")
      BY Zenon DEF SetFramerate
    <3>2. SetSections => Building("eia708")
      BY Zenon DEF SetSections
    <3>3. Finalize => Building("eia708")
      BY DEF Finalize
    <3> QED BY <3>1, <3>2, <3>3
  <2> QED BY <2>1 DEF Building, BuildInv, Built
<1>2. \A pkt : Arrays(pkt) => Built(codec, pkt)
  BY <1>1 DEF Built, Did
<1>3. ASSUME NEW pkt, {"ccdata", "ccsvc"} \subseteq DOMAIN pkt, pkt.ccdata = app.ccdata, pkt.ccsvc = app.ccsvc
      PROVE  Built(codec, pkt)
  BY <1>1, <1>2, <1>3
<1>4. CASE SetFramerate
  <2>1. PICK code : Fill([app EXCEPT !.header.cdp_frame_rate = code])
    BY <1>4 DEF SetFramerate, klvanc_set_framerate_EIA_708B
  <2> DEFINE pkt == [app EXCEPT !.header.cdp_frame_rate = code]
  <2>2. {"ccdata", "ccsvc"} \subseteq DOMAIN pkt /\ pkt.ccdata = app.ccdata /\ pkt.ccsvc = app.ccsvc
    BY <1>1
  <2> HIDE DEF pkt
  <2>3. Built(codec, pkt)
    BY <1>3, <2>2
  <2> QED BY <1>1, <2>1, <2>3, FillBuilds DEF pkt
<1>5. CASE SetSections
  <2>1. PICK s \in CdpParts :
          Fill([app EXCEPT !.header = [@ EXCEPT !.time_code_present = s.flags[1],
                                              !.ccdata_present = s.flags[2], !.svcinfo_present = s.flags[3]],
                         !.tc = s.tc, !.ccdata.cc = s.cc, !.ccsvc.svc = s.svc])
    BY <1>5, Zenon DEF SetSections
  <2> DEFINE pkt == [app EXCEPT !.header = [@ EXCEPT !.time_code_present = s.flags[1],
                                              !.ccdata_present = s.flags[2], !.svcinfo_present = s.flags[3]],
                         !.tc = s.tc, !.ccdata.cc = s.cc, !.ccsvc.svc = s.svc]
  <2>2. /\ {"ccdata", "ccsvc"} \subseteq DOMAIN pkt
        /\ pkt.ccdata = [app.ccdata EXCEPT !.cc = s.cc]
        /\ pkt.ccsvc = [app.ccsvc EXCEPT !.svc = s.svc]
    BY <1>1
  <2>3. s.cc \in Seq(Caption708) /\ s.svc \in Seq(CaptionServices)
    BY ArraysAssumption DEF Caption708, CaptionServices
  <2> HIDE DEF pkt
  <2>4. /\ "cc" \in DOMAIN pkt.ccdata /\ pkt.ccdata.cc = s.cc
        /\ "svc" \in DOMAIN pkt.ccsvc /\ pkt.ccsvc.svc = s.svc
    BY <1>1, <2>2
  <2>5. Built(codec, pkt)
    BY <1>2, <2>2, <2>3, <2>4
  <2> QED BY <1>1, <2>1, <2>5, FillBuilds DEF pkt
<1>6. CASE Finalize
  <2>1. PICK n \in {1, 65535} : Fill(klvanc_finalize_EIA_708B(app, n))
    BY <1>6 DEF Finalize
  <2> DEFINE pkt == klvanc_finalize_EIA_708B(app, n)
  <2>2. {"ccdata", "ccsvc"} \subseteq DOMAIN pkt /\ pkt.ccdata = app.ccdata /\ pkt.ccsvc = app.ccsvc
    BY <1>1 DEF klvanc_finalize_EIA_708B
  <2> HIDE DEF pkt
  <2>3. Built(codec, pkt)
    BY <1>3, <2>2
  <2> QED BY <1>1, <2>1, <2>3, FillBuilds DEF pkt
<1> QED BY <1>4, <1>5, <1>6

LEMMA OthersBuild ==
  ASSUME SetCaption \/ SetTime \/ SetCounter \/ SetBars \/ SetAfd
  PROVE  BuildStep
<1>1. stage = "build" /\ codec \in {"eia608", "smpte12_2", "counter", "afd"}
  BY DEF SetCaption, SetTime, SetCounter, SetBars, SetAfd, Building
<1>2. \A pkt : Built(codec, pkt)
  BY <1>1 DEF Built, Did
<1>3. \E pkt : Fill(pkt)
  BY DEF SetCaption, SetTime, SetCounter, SetBars, SetAfd
<1> QED BY <1>1, <1>2, <1>3, FillBuilds

LEMMA BuildCarries ==
  ASSUME CarryInv, stage \in {"idle", "build"}, BuildStep
  PROVE  CarryInv'
<1>1. stage' = "build" /\ cut' = 0
  BY DEF CarryInv, CutInv, BuildStep
<1>2. BuildInv'
  BY DEF BuildInv, BuildStep
<1>3. CutInv'
  BY <1>1 DEF CutInv
<1>4. FramedInv' /\ CarriedInv' /\ LineCarries'
  BY <1>1 DEF FramedInv, CarriedInv, LineCarries
<1> QED BY <1>2, <1>3, <1>4 DEF CarryInv

LEMMA ToWordsCarries ==
  ASSUME CarryInv, ToWords
  PROVE  CarryInv'
<1> DEFINE bytes == Payload(codec, app)
<1>1. /\ stage = "build" /\ stage' \in {"refused", "framed"}
      /\ stage' = "framed" => line' = Framed(codec, bytes)
      /\ codec' = codec /\ app' = app /\ cut' = cut
  <2>1. CASE bytes = <<>>
    BY <2>1 DEF ToWords
  <2>2. CASE bytes # <<>>
    BY <2>2 DEF ToWords
  <2> QED BY <2>1, <2>2
<1>2. IsList(bytes) /\ cut = 0
  BY <1>1, PayloadList DEF CarryInv, BuildInv, CutInv
<1>3. Len(bytes) \in Nat /\ SubSeq(bytes, 1, Len(bytes) - cut) = bytes
  <2> HIDE DEF bytes
  <2>1. Len(bytes) \in Nat /\ bytes = [k \in 1 .. Len(bytes) |-> bytes[k]]
    BY <1>2, ListFacts
  <2>2. Len(bytes) - cut = Len(bytes)
    BY <1>2, <2>1
  <2>3. SubSeq(bytes, 1, Len(bytes)) = [k \in 1 .. Len(bytes) |-> bytes[k]]
    BY <2>1
  <2> QED BY <2>1, <2>2, <2>3
<1>4. SentWords' = Framed(codec, bytes)
  BY <1>1, <1>3 DEF SentWords
<1>5. BuildInv' /\ CarriedInv' /\ LineCarries'
  BY <1>1 DEF BuildInv, CarriedInv, LineCarries
<1>6. CutInv'
  <2>1. Payload(codec', app') = bytes
    BY <1>1
  <2> QED BY <1>1, <1>2, <1>3, <2>1 DEF CutInv
<1>7. FramedInv'
  BY <1>1, <1>4 DEF FramedInv
<1> QED BY <1>5, <1>6, <1>7 DEF CarryInv

LEMMA ShortenCarries ==
  ASSUME CarryInv, Shorten
  PROVE  CarryInv'
<1> DEFINE bytes == Payload(codec, app)
<1>1. PICK k \in Cuts : k < Len(bytes) /\ cut' = k /\ line' = Framed(codec, SubSeq(bytes, 1, Len(bytes) - k))
  BY DEF Shorten
<1>2. stage = "framed" /\ stage' = "framed" /\ codec' = codec /\ app' = app
  BY DEF Shorten
<1>3. IsList(bytes)
  BY <1>2 DEF CarryInv, CutInv
<1>4. k \in Nat /\ k <= Len(bytes)
  BY <1>1, <1>3, CodecsAssumption, ListFacts
<1>5. CutInv'
  <2>1. Payload(codec', app') = bytes
    BY <1>2
  <2> QED BY <1>1, <1>2, <1>3, <1>4, <2>1 DEF CutInv
<1>6. FramedInv'
  BY <1>1, <1>2 DEF FramedInv, SentWords
<1>7. BuildInv' /\ CarriedInv' /\ LineCarries'
  BY <1>2 DEF BuildInv, CarriedInv, LineCarries
<1> QED BY <1>5, <1>6, <1>7 DEF CarryInv

LEMMA ToLineCarries ==
  ASSUME CarryInv, ToLine
  PROVE  CarryInv'
<1>1. stage = "framed" /\ stage' = "carried" /\ codec' = codec /\ app' = app /\ cut' = cut
  BY DEF ToLine
<1>2. line = SentWords /\ SentWords' = SentWords
  BY <1>1 DEF CarryInv, FramedInv, SentWords
<1>3. CutInv'
  <2>1. Payload(codec', app') = Payload(codec, app)
    BY <1>1
  <2> QED BY <1>1, <2>1 DEF CarryInv, CutInv
<1>4. CarriedInv'
  <2>1. PICK p \in {"nv20", "planar", "uyvy"}, rest \in Rests :
          /\ path' = p
          /\ line' = SentLine(line, p, Width(Len(line), rest))
    BY DEF ToLine, SentLine
  <2>2. line' = SentLine(SentWords', path', Width(Len(SentWords'), rest))
    BY <1>2, <2>1
  <2> QED BY <2>2 DEF CarriedInv
<1>5. BuildInv' /\ FramedInv' /\ LineCarries'
  BY <1>1 DEF BuildInv, FramedInv, LineCarries
<1> QED BY <1>3, <1>4, <1>5 DEF CarryInv

LEMMA FromLineCarries ==
  ASSUME EvenWidths, CarryInv, FromLine
  PROVE  CarryInv'
<1>1. stage = "carried" /\ stage' = "arrived" /\ codec' = codec /\ app' = app /\ cut' = cut /\ path' = path
  BY DEF FromLine
<1>2. SentWords' = SentWords /\ IsList(SentWords)
  BY <1>1, SentIsList DEF CarryInv, SentWords
<1>3. PICK rest \in Rests : line = SentLine(SentWords, path, Width(Len(SentWords), rest))
  BY <1>1 DEF CarryInv, CarriedInv
<1>4. rest \in 0 .. 5 /\ rest % 2 = 0
  BY CodecsAssumption DEF EvenWidths
<1>5. \/ path = "nv20" /\ line' \in klvanc_v210_line_to_nv20_c(Group(line.v210), 6 * line.width, line.width)
      \/ path = "planar" /\ line' = klvanc_v210_planar_unpack_c(Group(line.v210), line.width).y
      \/ path = "uyvy" /\ line' = SubSeq(klvanc_v210_line_to_uyvy_c(Group(line.v210), (line.width + 1) \div 2), 1, line.width)
  BY DEF FromLine
<1>6. Begins(line', SentWords, path)
  BY <1>2, <1>3, <1>4, <1>5, LineReturns
<1>7. LineCarries'
  BY <1>1, <1>2, <1>6 DEF LineCarries, Begins
<1>8. CutInv'
  <2>1. Payload(codec', app') = Payload(codec, app)
    BY <1>1
  <2> QED BY <1>1, <2>1 DEF CarryInv, CutInv
<1>9. BuildInv' /\ FramedInv' /\ CarriedInv'
  BY <1>1 DEF BuildInv, FramedInv, CarriedInv
<1> QED BY <1>7, <1>8, <1>9 DEF CarryInv

LEMMA CarryStep ==
  ASSUME EvenWidths, CarryInv, [Next]_vars
  PROVE  CarryInv'
<1>1. CASE (\E c \in DOMAIN Created : Create(c)) \/ (\E pkt \in SdpPackets : Supply("sdp", pkt))
           \/ (\E pkt \in HdrPackets : Supply("s2108", pkt)) \/ FromST370
  <2>1. stage = "idle"
    BY <1>1 DEF Create, Supply, FromST370
  <2> QED BY <1>1, <2>1, StartBuilds, BuildCarries
<1>2. CASE SetTimestamp \/ AddOperation
  <2>1. stage = "build"
    BY <1>2 DEF SetTimestamp, AddOperation, Building
  <2> QED BY <1>2, <2>1, MessageBuilds, BuildCarries DEF CarryInv
<1>3. CASE SetFramerate \/ SetSections \/ Finalize
  <2>1. stage = "build"
    <3>1. SetFramerate => Building("eia708")
      BY Zenon DEF SetFramerate
    <3>2. SetSections => Building("eia708")
      BY Zenon DEF SetSections
    <3>3. Finalize => Building("eia708")
      BY DEF Finalize
    <3> QED BY <1>3, <3>1, <3>2, <3>3 DEF Building
  <2> QED BY <1>3, <2>1, CaptionBuilds, BuildCarries DEF CarryInv
<1>4. CASE SetCaption \/ SetTime \/ SetCounter \/ SetBars \/ SetAfd
  <2>1. stage = "build"
    BY <1>4 DEF SetCaption, SetTime, SetCounter, SetBars, SetAfd, Building
  <2> QED BY <1>4, <2>1, OthersBuild, BuildCarries
<1>5. CASE ToWords
  BY <1>5, ToWordsCarries
<1>6. CASE Shorten
  BY <1>6, ShortenCarries
<1>7. CASE ToLine
  BY <1>7, ToLineCarries
<1>8. CASE FromLine
  BY <1>8, FromLineCarries
<1>9. CASE Receive \/ Relay
  <2>1. stage' \in {"received", "relayed"}
    <3>1. Receive => stage' = "received"
      BY Zenon DEF Receive
    <3>2. Relay => stage' = "relayed"
      BY Zenon DEF Relay
    <3> QED BY <1>9, <3>1, <3>2
  <2> QED BY <2>1 DEF CarryInv, BuildInv, CutInv, FramedInv, CarriedInv, LineCarries
<1>10. CASE UNCHANGED vars
  <2>1. SentWords' = SentWords
    BY <1>10 DEF vars, SentWords
  <2> QED BY <1>10, <2>1 DEF vars, CarryInv, BuildInv, CutInv, FramedInv, CarriedInv, LineCarries
<1> QED BY <1>1, <1>2, <1>3, <1>4, <1>5, <1>6, <1>7, <1>8, <1>9, <1>10 DEF Next

\* At every even width the words that come off a line of v210 are those of the
\* frame that was put on it: whatever struct an application built, through the
\* nv20, planar and uyvy converters, with any incomplete group at the end; the
\* planar converter stops at the last whole group.  (At an odd width
\* klvanc_v210_line_to_nv20_c leaves out the last sample.)
THEOREM LineArrives == EvenWidths => (Spec => []LineCarries)
<1> SUFFICES ASSUME EvenWidths PROVE Spec => []LineCarries
  OBVIOUS
<1>1. Init => CarryInv
  BY DEF Init, CarryInv, BuildInv, CutInv, FramedInv, CarriedInv, LineCarries
<1>2. CarryInv /\ [Next]_vars => CarryInv'
  BY CarryStep
<1>3. CarryInv => LineCarries
  BY DEF CarryInv
<1> QED BY <1>1, <1>2, <1>3, PTL DEF Spec

=============================================================================
