-------------------------- MODULE ReplyReaderProofs -------------------------
(***************************************************************************)
(* Proofs about ReplyReader: the stream of any forest, type correctness,   *)
(* and what becomes of the objects a reader creates.                       *)
(***************************************************************************)
EXTENDS ReplyReader, WellFoundedInduction, SequenceTheorems, TLAPS

-----------------------------------------------------------------------------
(***************************************************************************)
(* Induction: a set of natural numbers that is not empty has a least one,  *)
(* so a claim that fails somewhere has a first place where it fails.       *)
(***************************************************************************)
LEMMA Least ==
    ASSUME NEW T \in SUBSET Nat, T # {}
    PROVE  \E x \in T : \A y \in T : x <= y
<1>1. PICK x \in T : \A y \in T : ~ (<<y, x>> \in OpToRel(<, Nat))
  BY NatLessThanWellFounded, WFMin
<1>2. ASSUME NEW y \in T PROVE x <= y
  <2>1. <<y, x>> \notin {ss \in Nat \X Nat : ss[1] < ss[2]} BY <1>1 DEF OpToRel
  <2>2. x \in Nat /\ y \in Nat OBVIOUS
  <2>3. ~(y < x) BY <2>1, <2>2
  <2> QED BY <2>2, <2>3
<1> QED BY <1>2

-----------------------------------------------------------------------------
(***************************************************************************)
(* FlattenSeq, by the lengths of what comes before each of its parts.      *)
(***************************************************************************)
IsFlat(g, seqs, n) ==
    g = [i \in 1 .. n |-> IF i = 1 THEN seqs[i] ELSE g[i-1] \o seqs[i]]
Flat(seqs) == CHOOSE g : g = [i \in 1 .. Len(seqs) |->
                                 IF i = 1 THEN seqs[i] ELSE g[i-1] \o seqs[i]]

LEMMA FlatExists ==
    ASSUME NEW seqs, NEW n \in Nat
    PROVE  \E g : IsFlat(g, seqs, n)
<1> DEFINE T == {m \in Nat : ~ \E g : IsFlat(g, seqs, m)}
<1>1. SUFFICES T = {} OBVIOUS
<1>2. SUFFICES ASSUME T # {} PROVE FALSE OBVIOUS
<1>3. PICK m \in T : \A y \in T : m <= y BY <1>2, Least
<1>4. CASE m = 0
  <2> DEFINE g == [i \in 1 .. 0 |-> seqs[i]]
  <2>1. \A i \in 1 .. 0 : seqs[i] = IF i = 1 THEN seqs[i] ELSE g[i-1] \o seqs[i]
    OBVIOUS
  <2>2. g = [i \in 1 .. 0 |-> IF i = 1 THEN seqs[i] ELSE g[i-1] \o seqs[i]]
    BY <2>1, Zenon
  <2>3. IsFlat(g, seqs, 0) BY <2>2 DEF IsFlat
  <2> QED BY <1>3, <1>4, <2>3
<1>5. CASE m > 0
  <2>1. m - 1 \in Nat /\ m - 1 \notin T /\ m \in Nat BY <1>3, <1>5
  <2>2. PICK h : IsFlat(h, seqs, m - 1) BY <2>1
  <2> DEFINE g == [i \in 1 .. m |-> IF i = 1 THEN seqs[i] ELSE h[i-1] \o seqs[i]]
  <2>3. ASSUME NEW i \in 1 .. m - 1 PROVE g[i] = h[i]
    <3>1. g[i] = IF i = 1 THEN seqs[i] ELSE h[i-1] \o seqs[i] BY <2>1
    <3> QED BY <2>2, <3>1 DEF IsFlat
  <2>4. ASSUME NEW i \in 1 .. m, i # 1 PROVE g[i-1] = h[i-1]
    <3>1. i - 1 \in 1 .. m - 1 BY <2>1, <2>4
    <3> QED BY <3>1, <2>3
  <2> HIDE DEF g
  <2>5. g = [i \in 1 .. m |-> IF i = 1 THEN seqs[i] ELSE g[i-1] \o seqs[i]]
    BY <2>4 DEF g
  <2>6. IsFlat(g, seqs, m) BY <2>5 DEF IsFlat
  <2> QED BY <1>3, <2>6
<1> QED BY <1>3, <1>4, <1>5

LEMMA FlatUnfolds ==
    ASSUME NEW seqs, Len(seqs) \in Nat
    PROVE  IsFlat(Flat(seqs), seqs, Len(seqs))
  BY FlatExists DEF IsFlat, Flat

\* What the first i parts flatten to.
FlatTo(seqs, i) == IF i = 0 THEN <<>> ELSE Flat(seqs)[i]
Off(seqs, i) == Len(FlatTo(seqs, i))

LEMMA FlatToStep ==
    ASSUME NEW S, NEW seqs \in Seq(Seq(S)), NEW i \in 1 .. Len(seqs)
    PROVE  /\ seqs[i] \in Seq(S)
           /\ i = 1 => FlatTo(seqs, i) = seqs[i] /\ FlatTo(seqs, i - 1) = <<>>
           /\ i # 1 => FlatTo(seqs, i) = FlatTo(seqs, i - 1) \o seqs[i]
<1>1. IsFlat(Flat(seqs), seqs, Len(seqs)) BY FlatUnfolds, LenProperties
<1>2. Flat(seqs)[i] = IF i = 1 THEN seqs[i] ELSE Flat(seqs)[i-1] \o seqs[i]
  BY <1>1 DEF IsFlat
<1>3. seqs[i] \in Seq(S) BY ElementOfSeq
<1>4. CASE i = 1
  <2>1. FlatTo(seqs, i) = seqs[i] BY <1>2, <1>4 DEF FlatTo
  <2>2. FlatTo(seqs, i - 1) = <<>> BY <1>4 DEF FlatTo
  <2> QED BY <1>3, <1>4, <2>1, <2>2
<1>5. CASE i # 1
  <2>1. i # 0 /\ i - 1 # 0 BY <1>5
  <2> QED BY <1>2, <1>3, <1>5, <2>1 DEF FlatTo
<1> QED BY <1>4, <1>5

LEMMA FlatToType ==
    ASSUME NEW S, NEW seqs \in Seq(Seq(S)), NEW i \in 0 .. Len(seqs)
    PROVE  /\ FlatTo(seqs, i) \in Seq(S) /\ Off(seqs, i) \in Nat
           /\ i > 0 => Off(seqs, i) = Off(seqs, i - 1) + Len(seqs[i])
<1> DEFINE T == {m \in Nat : m <= Len(seqs) /\ FlatTo(seqs, m) \notin Seq(S)}
<1>1. ASSUME T # {} PROVE FALSE
  <2>1. PICK m \in T : \A y \in T : m <= y BY <1>1, Least
  <2>2. m # 0
    <3>1. FlatTo(seqs, 0) = <<>> /\ <<>> \in Seq(S) BY DEF FlatTo
    <3> QED BY <2>1, <3>1
  <2>3. m \in 1 .. Len(seqs) /\ m - 1 \notin T /\ m - 1 \in Nat BY <2>1, <2>2, LenProperties
  <2>4. FlatTo(seqs, m - 1) \in Seq(S) BY <2>3, LenProperties
  <2>5. FlatTo(seqs, m) \in Seq(S)
    <3>1. CASE m = 1 BY ZenonT(60), <2>3, <3>1, FlatToStep
    <3>2. CASE m # 1
      <4>1. FlatTo(seqs, m) = FlatTo(seqs, m - 1) \o seqs[m] /\ seqs[m] \in Seq(S)
        BY <2>3, <3>2, FlatToStep
      <4> QED BY <2>4, <4>1, ConcatProperties
    <3> QED BY <3>1, <3>2
  <2> QED BY <2>1, <2>5
<1>2. \A m \in 0 .. Len(seqs) : FlatTo(seqs, m) \in Seq(S) BY <1>1
<1>3. ASSUME i > 0 PROVE Off(seqs, i) = Off(seqs, i - 1) + Len(seqs[i])
  <2>1. i \in 1 .. Len(seqs) /\ i - 1 \in 0 .. Len(seqs) BY <1>3, LenProperties
  <2>2. FlatTo(seqs, i - 1) \in Seq(S) BY <1>2, <2>1
  <2>3. seqs[i] \in Seq(S) /\ Len(seqs[i]) \in Nat BY <2>1, FlatToStep, LenProperties
  <2>4. CASE i = 1
    <3>1. FlatTo(seqs, i) = seqs[i] /\ FlatTo(seqs, i - 1) = <<>>
      BY <2>1, <2>4, FlatToStep
    <3>2. Off(seqs, i) = Len(seqs[i]) /\ Off(seqs, i - 1) = 0 BY <3>1 DEF Off
    <3> QED BY <2>3, <3>2
  <2>5. CASE i # 1
    <3>1. FlatTo(seqs, i) = FlatTo(seqs, i - 1) \o seqs[i] BY <2>1, <2>5, FlatToStep
    <3> QED BY <2>2, <2>3, <3>1, ConcatProperties DEF Off
  <2> QED BY <2>4, <2>5
<1> QED BY <1>2, <1>3, LenProperties DEF Off

LEMMA FlattenIsFlatTo ==
    ASSUME NEW S, NEW seqs \in Seq(Seq(S))
    PROVE  FlattenSeq(seqs) = FlatTo(seqs, Len(seqs)) /\ FlattenSeq(seqs) \in Seq(S)
<1>1. CASE Len(seqs) = 0
  <2>1. seqs = <<>> BY <1>1, EmptySeq
  <2> QED BY <1>1, <2>1 DEF FlattenSeq, FlatTo
<1>2. CASE Len(seqs) # 0
  <2>1. FlattenSeq(seqs) = Flat(seqs)[Len(seqs)] BY <1>2 DEF FlattenSeq, Flat
  <2>2. FlatTo(seqs, Len(seqs)) = Flat(seqs)[Len(seqs)] BY <1>2 DEF FlatTo
  <2>3. Len(seqs) \in 0 .. Len(seqs) BY LenProperties
  <2> QED BY <2>1, <2>2, <2>3, FlatToType
<1> QED BY <1>1, <1>2

\* What was flattened stays in front of what follows.
LEMMA FlatToStays ==
    ASSUME NEW S, NEW seqs \in Seq(Seq(S)), NEW n \in 0 .. Len(seqs), NEW i \in 0 .. n
    PROVE  /\ Off(seqs, i) <= Off(seqs, n)
           /\ \A p \in 1 .. Off(seqs, i) : FlatTo(seqs, n)[p] = FlatTo(seqs, i)[p]
<1> DEFINE Stays(m) == /\ Off(seqs, i) <= Off(seqs, m)
                       /\ \A p \in 1 .. Off(seqs, i) : FlatTo(seqs, m)[p] = FlatTo(seqs, i)[p]
           T == {m \in Nat : m >= i /\ m <= Len(seqs) /\ ~Stays(m)}
<1>0. Len(seqs) \in Nat BY LenProperties
<1>1. ASSUME T # {} PROVE FALSE
  <2>1. PICK m \in T : \A y \in T : m <= y BY <1>1, Least
  <2>2. Stays(i)
    <3>1. Off(seqs, i) \in Nat BY <1>0, FlatToType
    <3> QED BY <3>1
  <2>3. m # i BY <2>1, <2>2
  <2>4. m \in 1 .. Len(seqs) /\ m - 1 \in 0 .. Len(seqs) /\ m - 1 \notin T /\ m - 1 >= i
    BY <1>0, <2>1, <2>3
  <2>5. Stays(m - 1) BY <1>0, <2>4
  <2>6. /\ Off(seqs, m) = Off(seqs, m - 1) + Len(seqs[m])
        /\ Off(seqs, m) \in Nat /\ Off(seqs, m - 1) \in Nat /\ Off(seqs, i) \in Nat
        /\ FlatTo(seqs, m - 1) \in Seq(S) /\ seqs[m] \in Seq(S) /\ Len(seqs[m]) \in Nat
    <3>1. m > 0 /\ m \in 0 .. Len(seqs) /\ i \in 0 .. Len(seqs) BY <1>0, <2>4
    <3>2. seqs[m] \in Seq(S) BY <2>4, ElementOfSeq
    <3> QED BY <2>4, <3>1, <3>2, FlatToType, LenProperties
  <2>7. ASSUME NEW p \in 1 .. Off(seqs, i) PROVE FlatTo(seqs, m)[p] = FlatTo(seqs, i)[p]
    <3>1. FlatTo(seqs, m - 1)[p] = FlatTo(seqs, i)[p] /\ p \in 1 .. Off(seqs, m - 1)
      BY <2>5, <2>6
    <3>2. CASE m = 1
      <4>1. FlatTo(seqs, m - 1) = <<>> BY <2>4, <3>2, FlatToStep
      <4>2. Len(<<>>) = 0 OBVIOUS
      <4>3. Off(seqs, m - 1) = 0 BY <4>1, <4>2 DEF Off
      <4> QED BY <3>1, <4>3
    <3>3. CASE m # 1
      <4>1. FlatTo(seqs, m) = FlatTo(seqs, m - 1) \o seqs[m] BY <2>4, <3>3, FlatToStep
      <4>2. (FlatTo(seqs, m - 1) \o seqs[m])[p] = FlatTo(seqs, m - 1)[p]
        BY <2>6, <3>1, ConcatProperties DEF Off
      <4> QED BY <3>1, <4>1, <4>2
    <3> QED BY <3>2, <3>3
  <2>8. Stays(m) BY <2>5, <2>6, <2>7
  <2> QED BY <2>1, <2>8
<1>2. n \in Nat /\ n >= i /\ n <= Len(seqs) BY <1>0
<1>3. Stays(n) BY <1>1, <1>2
<1> QED BY <1>3

\* The parts, where they lie in the whole.
LEMMA FlattenPart ==
    ASSUME NEW S, NEW seqs \in Seq(Seq(S)), NEW i \in 1 .. Len(seqs)
    PROVE  /\ Off(seqs, i - 1) \in Nat /\ Len(seqs[i]) \in Nat
           /\ Off(seqs, i) = Off(seqs, i - 1) + Len(seqs[i])
           /\ Off(seqs, i) <= Len(FlattenSeq(seqs))
           /\ \A p \in 1 .. Len(seqs[i]) : FlattenSeq(seqs)[Off(seqs, i - 1) + p] = seqs[i][p]
<1>1. Len(seqs) \in Nat /\ i > 0 /\ i \in 0 .. Len(seqs) /\ i - 1 \in 0 .. Len(seqs)
      /\ Len(seqs) \in 0 .. Len(seqs) /\ i \in 0 .. Len(seqs)
  BY LenProperties
<1>2. seqs[i] \in Seq(S) /\ Len(seqs[i]) \in Nat BY ElementOfSeq, LenProperties
<1>3. /\ Off(seqs, i) = Off(seqs, i - 1) + Len(seqs[i])
      /\ Off(seqs, i) \in Nat /\ Off(seqs, i - 1) \in Nat
      /\ FlatTo(seqs, i - 1) \in Seq(S)
  BY <1>1, FlatToType
<1>4. FlattenSeq(seqs) = FlatTo(seqs, Len(seqs)) BY FlattenIsFlatTo
<1>5. /\ Off(seqs, i) <= Off(seqs, Len(seqs))
      /\ \A p \in 1 .. Off(seqs, i) : FlattenSeq(seqs)[p] = FlatTo(seqs, i)[p]
  BY SMTT(30), <1>1, <1>4, FlatToStays
<1>6. ASSUME NEW p \in 1 .. Len(seqs[i])
      PROVE  FlattenSeq(seqs)[Off(seqs, i - 1) + p] = seqs[i][p]
  <2>1. Off(seqs, i - 1) + p \in 1 .. Off(seqs, i) BY SMTT(30), <1>2, <1>3
  <2>2. FlattenSeq(seqs)[Off(seqs, i - 1) + p] = FlatTo(seqs, i)[Off(seqs, i - 1) + p]
    BY <1>5, <2>1
  <2>3. CASE i = 1
    <3>1. FlatTo(seqs, i) = seqs[i] /\ FlatTo(seqs, i - 1) = <<>> BY <2>3, FlatToStep
    <3>2. Off(seqs, i - 1) = 0 BY <3>1 DEF Off
    <3> QED BY <2>2, <3>1, <3>2
  <2>4. CASE i # 1
    <3>1. FlatTo(seqs, i) = FlatTo(seqs, i - 1) \o seqs[i] BY <2>4, FlatToStep
    <3>2. (FlatTo(seqs, i - 1) \o seqs[i])[Off(seqs, i - 1) + p] = seqs[i][p]
      <4> DEFINE q == Off(seqs, i - 1) + p
                 f == FlatTo(seqs, i - 1)
      <4>2. q - Len(f) = p /\ ~(q <= Len(f)) /\ q \in 1 .. Len(f) + Len(seqs[i])
            /\ f \in Seq(S)
        BY <1>2, <1>3 DEF Off
      <4> HIDE DEF q, f
      <4>3. (f \o seqs[i])[q] = seqs[i][p]
        BY <1>2, <4>2, ConcatProperties
      <4> QED BY <4>3 DEF q, f
    <3> QED BY <2>2, <3>1, <3>2
  <2> QED BY <2>3, <2>4
<1> QED BY <1>2, <1>3, <1>4, <1>5, <1>6 DEF Off

LEMMA FlattenLength ==
    ASSUME NEW S, NEW seqs \in Seq(Seq(S))
    PROVE  Len(FlattenSeq(seqs)) = Off(seqs, Len(seqs))
  BY FlattenIsFlatTo DEF Off

-----------------------------------------------------------------------------
(***************************************************************************)
(* Encode: every reply is finite, so the recursion ends.                   *)
(***************************************************************************)
CellType == [k : {"+", "-", ":", "$", "*", "@", "line", "body", "NUL"},
             v : Nat \cup {-1}]

Body(t, g) == Own(t) \o FlattenSeq([k \in DOMAIN t.elems |-> g[t.elems[k]]])

\* h encodes the replies in D, which has the elements of its members.
Encodes(D, h) ==
    /\ D \subseteq Trees
    /\ \A t \in D : \A k \in DOMAIN t.elems : t.elems[k] \in D
    /\ h = [t \in D |-> Body(t, h)]

LEMMA TreeType ==
    ASSUME NEW t \in Trees
    PROVE  /\ t.type \in TreeTypes /\ t.v \in Nat /\ t.elems \in Seq(Trees)
           /\ DOMAIN t.elems = 1 .. Len(t.elems) /\ Len(t.elems) \in Nat
           /\ \A k \in DOMAIN t.elems : t.elems[k] \in Trees
           /\ t = [type |-> t.type, v |-> t.v, elems |-> t.elems]
<1>1. t \in [type : TreeTypes, v : Nat, elems : Seq(Trees)] BY ReaderAssumption
<1>2. t.type \in TreeTypes /\ t.v \in Nat /\ t.elems \in Seq(Trees) BY <1>1
<1>3. t = [type |-> t.type, v |-> t.v, elems |-> t.elems] BY <1>1
<1> QED BY <1>2, <1>3, ElementOfSeq, LenProperties

LEMMA EncodesAgree ==
    ASSUME NEW D, NEW h, Encodes(D, h), NEW E, NEW g, Encodes(E, g)
    PROVE  \A t \in D \cap E : h[t] = g[t]
<1> DEFINE T == {t \in D \cap E : h[t] # g[t]}
<1> SUFFICES ASSUME T # {} PROVE FALSE OBVIOUS
<1>1. T \in SUBSET Trees BY DEF Encodes
<1>2. PICK t \in T : \A k \in DOMAIN t.elems : t.elems[k] \notin T
  BY <1>1, ReaderAssumption
<1>3. \A k \in DOMAIN t.elems : h[t.elems[k]] = g[t.elems[k]]
  BY <1>2 DEF Encodes
<1>4. [k \in DOMAIN t.elems |-> h[t.elems[k]]] = [k \in DOMAIN t.elems |-> g[t.elems[k]]]
  BY <1>3
<1>5. h[t] = Body(t, h) /\ g[t] = Body(t, g) BY <1>2 DEF Encodes
<1> QED BY <1>2, <1>4, <1>5 DEF Body

Encodable == {t \in Trees : \E p : t \in p[1] /\ Encodes(p[1], p[2])}
Proof(t)  == CHOOSE p : t \in p[1] /\ Encodes(p[1], p[2])
Encoding  == [t \in Encodable |-> Proof(t)[2][t]]

LEMMA EncodingEncodes == Encodes(Encodable, Encoding)
<1>1. \A t \in Encodable : t \in Proof(t)[1] /\ Encodes(Proof(t)[1], Proof(t)[2])
  BY DEF Encodable, Proof
<1>2. ASSUME NEW t \in Encodable, NEW k \in DOMAIN t.elems
      PROVE  /\ t.elems[k] \in Encodable
             /\ Encoding[t.elems[k]] = Proof(t)[2][t.elems[k]]
  <2> DEFINE x == t.elems[k]
  <2>1. x \in Proof(t)[1] /\ x \in Trees BY <1>1 DEF Encodes
  <2>2. x \in Encodable BY <1>1, <2>1 DEF Encodable
  <2>3. Proof(x)[2][x] = Proof(t)[2][x] BY <1>1, <2>1, <2>2, EncodesAgree
  <2> QED BY <2>2, <2>3 DEF Encoding
<1>3. ASSUME NEW t \in Encodable PROVE Encoding[t] = Body(t, Encoding)
  <2>1. Proof(t)[2][t] = Body(t, Proof(t)[2]) BY <1>1 DEF Encodes
  <2>2. [k \in DOMAIN t.elems |-> Proof(t)[2][t.elems[k]]]
            = [k \in DOMAIN t.elems |-> Encoding[t.elems[k]]]
    BY <1>2
  <2>3. Encoding[t] = Proof(t)[2][t] BY DEF Encoding
  <2> QED BY <2>1, <2>2, <2>3 DEF Body
<1>4. Encoding = [t \in Encodable |-> Body(t, Encoding)]
  <2>1. Encoding = [t \in Encodable |-> Encoding[t]] BY DEF Encoding
  <2> QED BY <1>3, <2>1
<1> QED BY <1>2, <1>4 DEF Encodes, Encodable

LEMMA AllEncodable == Encodable = Trees
<1> DEFINE T == Trees \ Encodable
<1> SUFFICES ASSUME T # {} PROVE FALSE BY DEF Encodable
<1>1. PICK t \in T : \A k \in DOMAIN t.elems : t.elems[k] \notin T
  BY ReaderAssumption
<1>2. \A k \in DOMAIN t.elems : t.elems[k] \in Encodable BY <1>1, TreeType
<1> DEFINE D == Encodable \cup {t}
           h == [x \in D |-> Body(x, Encoding)]
<1>3. \A x \in Encodable : h[x] = Encoding[x] BY EncodingEncodes DEF Encodes
<1>4. D \subseteq Trees /\ \A x \in D : \A k \in DOMAIN x.elems : x.elems[k] \in Encodable
  BY <1>2, EncodingEncodes DEF Encodes, Encodable
<1>5. ASSUME NEW x \in D PROVE Body(x, Encoding) = Body(x, h)
  <2> HIDE DEF h
  <2>1. [k \in DOMAIN x.elems |-> Encoding[x.elems[k]]] = [k \in DOMAIN x.elems |-> h[x.elems[k]]]
    BY <1>3, <1>4
  <2> QED BY <2>1 DEF Body
<1>6. h = [x \in D |-> Body(x, h)] BY <1>5
<1>7. Encodes(D, h)
  <2> HIDE DEF h
  <2> QED BY <1>4, <1>6 DEF Encodes
<1> HIDE DEF h, D
<1>8. t \in <<D, h>>[1] /\ Encodes(<<D, h>>[1], <<D, h>>[2]) BY <1>7 DEF D
<1>9. t \in Encodable BY <1>8 DEF Encodable
<1> QED BY <1>1, <1>9

LEMMA EncodeUnfolds ==
    ASSUME NEW t \in Trees
    PROVE  Encode[t] = Own(t) \o FlattenSeq([k \in DOMAIN t.elems |-> Encode[t.elems[k]]])
<1>1. Encoding = [x \in Trees |-> Own(x) \o FlattenSeq([k \in DOMAIN x.elems |-> Encoding[x.elems[k]]])]
  BY EncodingEncodes, AllEncodable DEF Encodes, Body
<1>2. Encode = [x \in Trees |-> Own(x) \o FlattenSeq([k \in DOMAIN x.elems |-> Encode[x.elems[k]]])]
  BY <1>1 DEF Encode
<1> QED BY <1>2

\* The encodings of a sequence of replies.
Encodings(f) == [k \in DOMAIN f |-> Encode[f[k]]]

LEMMA OwnType ==
    ASSUME NEW t \in Trees
    PROVE  Own(t) \in Seq(CellType) /\ Len(Own(t)) \in 1 .. 3
<1>0. t.type \in TreeTypes /\ t.v \in Nat /\ Len(t.elems) \in Nat BY TreeType
<1>1. \A k \in {"+", "-", ":", "$", "*", "@", "line", "body", "NUL"},
        v \in Nat \cup {-1} :
         Cell(k, v) \in CellType
  BY DEF Cell, CellType
<1> HIDE DEF CellType
<1>2. CASE t.type \in {"status", "error", "integer"}
  <2>1. Own(t) = <<Cell(Byte[t.type], 0), Cell("line", t.v)>> BY <1>2 DEF Own
  <2>2. Byte[t.type] \in {"+", "-", ":"} BY <1>2 DEF Byte
  <2>3. Cell(Byte[t.type], 0) \in CellType /\ Cell("line", t.v) \in CellType
    BY <1>0, <1>1, <2>2
  <2> QED BY <2>1, <2>3
<1>3. CASE t.type = "string"
  <2>1. Own(t) = <<Cell("$", 0), Cell("line", 1), Cell("body", t.v)>> BY <1>3 DEF Own
  <2>2. Cell("$", 0) \in CellType /\ Cell("line", 1) \in CellType /\ Cell("body", t.v) \in CellType
    BY <1>0, <1>1
  <2> QED BY <2>1, <2>2
<1>4. CASE t.type = "nil"
  <2>1. Own(t) = <<Cell(IF t.v = 0 THEN "$" ELSE "*", 0), Cell("line", -1)>> BY <1>4 DEF Own
  <2>2. Cell(IF t.v = 0 THEN "$" ELSE "*", 0) \in CellType /\ Cell("line", -1) \in CellType
    BY <1>1
  <2> QED BY <2>1, <2>2
<1>5. CASE t.type = "array"
  <2>1. Own(t) = <<Cell("*", 0), Cell("line", Len(t.elems))>> BY <1>5 DEF Own
  <2>2. Cell("*", 0) \in CellType /\ Cell("line", Len(t.elems)) \in CellType BY <1>0, <1>1
  <2> QED BY <2>1, <2>2
<1>6. CASE t.type = "bad"
  <2>1. Own(t) = <<Cell("@", 0)>> BY <1>6 DEF Own
  <2>2. Cell("@", 0) \in CellType BY <1>1
  <2> QED BY <2>1, <2>2
<1> QED BY <1>0, <1>2, <1>3, <1>4, <1>5, <1>6 DEF TreeTypes

LEMMA EncodeType ==
    /\ \A t \in Trees : Encode[t] \in Seq(CellType)
    /\ \A f \in Seq(Trees) : Encodings(f) \in Seq(Seq(CellType)) /\ Len(Encodings(f)) = Len(f)
<1> DEFINE T == {t \in Trees : Encode[t] \notin Seq(CellType)}
<1>1. ASSUME T # {} PROVE FALSE
  <2>1. PICK t \in T : \A k \in DOMAIN t.elems : t.elems[k] \notin T
    BY <1>1, ReaderAssumption
  <2> DEFINE es == [k \in DOMAIN t.elems |-> Encode[t.elems[k]]]
  <2>2. \A k \in DOMAIN t.elems : Encode[t.elems[k]] \in Seq(CellType) BY <2>1, TreeType
  <2>3. es \in Seq(Seq(CellType))
    <3>1. DOMAIN t.elems = 1 .. Len(t.elems) /\ Len(t.elems) \in Nat BY TreeType
    <3> QED BY <2>2, <3>1
  <2>4. FlattenSeq(es) \in Seq(CellType) BY <2>3, FlattenIsFlatTo
  <2>5. Own(t) \in Seq(CellType) BY OwnType
  <2>6. Encode[t] = Own(t) \o FlattenSeq(es) BY EncodeUnfolds
  <2> HIDE DEF es
  <2> QED BY ZenonT(60), <2>1, <2>4, <2>5, <2>6, ConcatProperties
<1>2. \A t \in Trees : Encode[t] \in Seq(CellType) BY <1>1
<1>3. ASSUME NEW f \in Seq(Trees)
      PROVE  Encodings(f) \in Seq(Seq(CellType)) /\ Len(Encodings(f)) = Len(f)
  <2>1. DOMAIN f = 1 .. Len(f) /\ Len(f) \in Nat /\ \A k \in DOMAIN f : f[k] \in Trees
    BY ElementOfSeq, LenProperties
  <2>2. \A k \in 1 .. Len(f) : Encode[f[k]] \in Seq(CellType) BY <1>2, <2>1
  <2>3. [k \in 1 .. Len(f) |-> Encode[f[k]]] \in Seq(Seq(CellType)) BY <2>1, <2>2
  <2> QED BY <2>1, <2>3 DEF Encodings
<1> QED BY <1>2, <1>3

LEMMA StreamType ==
    ASSUME NEW f \in Forests
    PROVE  Stream(f) \in Seq(CellType) /\ Stream(f) = FlattenSeq(Encodings(f))
<1>1. f \in Seq(Trees) BY ReaderAssumption
<1> QED BY <1>1, EncodeType, FlattenIsFlatTo DEF Stream, Encodings

-----------------------------------------------------------------------------
(***************************************************************************)
(* The inductive invariant.                                                *)
(***************************************************************************)
TaskType == [type : TreeTypes \cup {"none"}, elements : Int, idx : Int,
             obj : Int, parent : Int]
ObjectType == [type : TreeTypes, v : Int, elems : Seq(Nat)]

\* An error has emptied the buffer and left len.
Stale == /\ buf = <<>> /\ pos = 0 /\ error # "none"
         /\ ridx \in {-1, 0} /\ (ridx = 0 => rstack[0].type = "none")

RType ==
    /\ forest \in Forests /\ fed \in 0 .. Len(Stream(forest)) /\ fn \in Functions[forest]
    /\ error \in {"none", "type byte", "depth"}
    /\ buf \in Seq(CellType) /\ len \in Nat /\ pos \in 0 .. len
    /\ len = Len(buf) \/ Stale
    /\ pc = "idle" => pos = 0
    /\ ridx \in -1 .. 2 /\ rstack \in [0 .. 2 -> TaskType]
    /\ \A i \in 0 .. 2 : /\ rstack[i].parent \in -1 .. i - 1
                         /\ rstack[i].obj \in -5 .. Len(heap)
    /\ heap \in Seq(ObjectType) /\ reply \in -5 .. Len(heap)
    /\ freed \subseteq 1 .. Len(heap) /\ given \subseteq 1 .. Len(heap)
    /\ pc \in {"idle", "parsing", "destroyed", "crashed"}
    /\ result \in {"none", "reply", "error"}

\* Object o of h has n elements: element j + 1 is x and those behind it are
\* not there yet.
Filled(h, o, n, j, x) ==
    /\ o \in 1 .. Len(h) /\ Len(h[o].elems) = n
    /\ \A k \in j + 2 .. n : h[o].elems[k] = 0
    /\ h[o].elems[j + 1] = x

\* The array at rstack[i] is being filled.
Level(i) ==
    /\ rstack[i].type = "array" /\ rstack[i].elements > 0
    /\ rstack[i + 1].idx \in 0 .. rstack[i].elements - 1
    /\ rstack[i + 1].parent = i
    /\ fn = "NULL" => rstack[i].obj = Code("array")
    /\ fn = "default" =>
          Filled(heap, rstack[i].obj, rstack[i].elements, rstack[i + 1].idx,
                 IF i + 1 = ridx THEN 0 ELSE rstack[i + 1].obj)

Levels ==
    /\ ridx = 0 => reply = 0
    /\ ridx = -1 /\ pc = "idle" => reply = 0
    /\ ridx > 0 => reply = rstack[0].obj
    /\ \A i \in {0, 1} : i < ridx => Level(i)
    /\ ridx >= 0 => rstack[0].parent = -1
    /\ fn = "NULL" => reply <= 0
    /\ fn = "default" => reply >= 0

\* An object only names objects that were made after it.
Acyclic == \A o \in 1 .. Len(heap) : \A k \in 1 .. Len(heap[o].elems) :
              heap[o].elems[k] = 0 \/ heap[o].elems[k] \in o + 1 .. Len(heap)

Failed == error # "none" /\ ridx = -1 /\ pc = "parsing"

Kept ==
    /\ error = "none" /\ pc # "destroyed" =>
          freed = {} /\ 1 .. Len(heap) = given \cup Below(reply)
    /\ pc \in {"idle", "parsing"} /\ ~Failed => Below(reply) \cap (freed \cup given) = {}
    /\ freed \cap given = {}

MInv == RType /\ Levels /\ Acyclic /\ Kept

-----------------------------------------------------------------------------
(***************************************************************************)
(* A new object, and what is below the reply then.                         *)
(***************************************************************************)
Named(h, o)   == {h[o].elems[k] : k \in DOMAIN h[o].elems}
AllNamed(h, S) == UNION {Named(h, o) : o \in S}
KidsIn(h, S)  == AllNamed(h, S) \ {0}
BelowIn(h, o) == IF o <= 0 THEN {}
                 ELSE {o} \cup KidsIn(h, {o}) \cup KidsIn(h, KidsIn(h, {o}))
AcyclicIn(h) == \A o \in 1 .. Len(h) : \A k \in 1 .. Len(h[o].elems) :
                   h[o].elems[k] = 0 \/ h[o].elems[k] \in o + 1 .. Len(h)

\* g is h with one more object, which is empty and is element j of object up.
Adds(h, g, up, j) ==
    /\ Len(g) = Len(h) + 1
    /\ \A o \in 1 .. Len(h) :
         /\ g[o].type = h[o].type /\ g[o].v = h[o].v
         /\ Len(g[o].elems) = Len(h[o].elems)
         /\ \A k \in 1 .. Len(h[o].elems) :
              g[o].elems[k] = IF o = up /\ k = j THEN Len(h) + 1 ELSE h[o].elems[k]
    /\ \A k \in 1 .. Len(g[Len(g)].elems) : g[Len(g)].elems[k] = 0
    /\ up \in 1 .. Len(h) => j \in 1 .. Len(h[up].elems) /\ h[up].elems[j] = 0

LEMMA ObjectElems ==
    ASSUME NEW h \in Seq(ObjectType), NEW o \in 1 .. Len(h)
    PROVE  /\ h[o].elems \in Seq(Nat) /\ DOMAIN h[o].elems = 1 .. Len(h[o].elems)
           /\ Len(h[o].elems) \in Nat
           /\ h[o] \in ObjectType
<1>1. h[o] \in ObjectType BY ElementOfSeq
<1>2. h[o].elems \in Seq(Nat) BY <1>1 DEF ObjectType
<1> QED BY <1>1, <1>2, LenProperties

LEMMA KidsOf ==
    ASSUME NEW h \in Seq(ObjectType), NEW S \in SUBSET (1 .. Len(h)), AcyclicIn(h)
    PROVE  /\ \A x : x \in KidsIn(h, S) <=>
                /\ x # 0
                /\ \E o \in S : \E k \in 1 .. Len(h[o].elems) : x = h[o].elems[k]
           /\ KidsIn(h, S) \subseteq 1 .. Len(h)
<1>1. \A o \in S : DOMAIN h[o].elems = 1 .. Len(h[o].elems) BY ObjectElems
<1>2. ASSUME NEW x
      PROVE  x \in KidsIn(h, S) <=>
                /\ x # 0
                /\ \E o \in S : \E k \in 1 .. Len(h[o].elems) : x = h[o].elems[k]
  <2>1. \A o \in S : x \in Named(h, o)
                       <=> \E k \in 1 .. Len(h[o].elems) : x = h[o].elems[k]
    BY <1>1 DEF Named
  <2>2. x \in AllNamed(h, S) <=> \E o \in S : x \in Named(h, o) BY Zenon DEF AllNamed
  <2> QED BY <2>1, <2>2 DEF KidsIn
<1>3. ASSUME NEW x \in KidsIn(h, S) PROVE x \in 1 .. Len(h)
  <2>1. PICK o, k : o \in S /\ k \in 1 .. Len(h[o].elems) /\ x = h[o].elems[k] /\ x # 0 BY <1>2
  <2>2. x \in o + 1 .. Len(h) /\ o \in 1 .. Len(h) BY <2>1 DEF AcyclicIn
  <2> QED BY <2>2, LenProperties
<1> QED BY <1>2, <1>3

LEMMA AddsAcyclic ==
    ASSUME NEW h \in Seq(ObjectType), NEW g \in Seq(ObjectType), NEW up \in Int, NEW j \in Int,
           Adds(h, g, up, j), AcyclicIn(h)
    PROVE  AcyclicIn(g)
<1>1. Len(h) \in Nat /\ Len(g) = Len(h) + 1 BY LenProperties DEF Adds
<1> SUFFICES ASSUME NEW o \in 1 .. Len(g), NEW k \in 1 .. Len(g[o].elems)
             PROVE  g[o].elems[k] = 0 \/ g[o].elems[k] \in o + 1 .. Len(g)
  BY DEF AcyclicIn
<1>2. CASE o = Len(g) BY <1>2 DEF Adds
<1>3. CASE o \in 1 .. Len(h)
  <2>1. k \in 1 .. Len(h[o].elems) BY <1>3 DEF Adds
  <2>2. g[o].elems[k] = IF o = up /\ k = j THEN Len(h) + 1 ELSE h[o].elems[k]
    BY <1>3, <2>1 DEF Adds
  <2>3. h[o].elems[k] = 0 \/ h[o].elems[k] \in o + 1 .. Len(h)
    BY <1>3, <2>1 DEF AcyclicIn
  <2> QED BY <1>1, <1>3, <2>2, <2>3
<1> QED BY <1>1, <1>2, <1>3

LEMMA AddsKids ==
    ASSUME NEW h \in Seq(ObjectType), NEW g \in Seq(ObjectType), NEW up \in Int, NEW j \in Int,
           Adds(h, g, up, j), AcyclicIn(h), NEW S \in SUBSET (1 .. Len(h))
    PROVE  /\ \A x : x \in KidsIn(g, S) <=>
                       x \in KidsIn(h, S) \/ (up \in S /\ x = Len(h) + 1)
           /\ KidsIn(g, S \cup {Len(h) + 1}) = KidsIn(g, S)
<1>0. Len(h) \in Nat /\ Len(g) = Len(h) + 1
  <2>1. Len(g) = Len(h) + 1 BY DEF Adds
  <2> QED BY <2>1, LenProperties
<1>1. AcyclicIn(g) /\ Len(h) \in Nat /\ Len(g) = Len(h) + 1
  BY <1>0, AddsAcyclic
<1>2. S \in SUBSET (1 .. Len(g)) /\ S \cup {Len(h) + 1} \in SUBSET (1 .. Len(g))
  <2>1. 1 .. Len(h) \subseteq 1 .. Len(g) /\ Len(h) + 1 \in 1 .. Len(g) BY <1>0
  <2> QED BY <2>1
<1>3. \A x : x \in KidsIn(g, S) <=>
                /\ x # 0
                /\ \E o \in S : \E k \in 1 .. Len(g[o].elems) : x = g[o].elems[k]
  BY <1>1, <1>2, KidsOf
<1>4. \A x : x \in KidsIn(h, S) <=>
                /\ x # 0
                /\ \E o \in S : \E k \in 1 .. Len(h[o].elems) : x = h[o].elems[k]
  BY KidsOf
<1>5. \A x : x \in KidsIn(g, S \cup {Len(h) + 1}) <=>
                /\ x # 0
                /\ \E o \in S \cup {Len(h) + 1} : \E k \in 1 .. Len(g[o].elems) : x = g[o].elems[k]
  BY <1>1, <1>2, KidsOf
<1>6. ASSUME NEW x \in KidsIn(g, S)
      PROVE  x \in KidsIn(h, S) \/ (up \in S /\ x = Len(h) + 1)
  <2>1. PICK o, k : o \in S /\ k \in 1 .. Len(g[o].elems) /\ x = g[o].elems[k] /\ x # 0 BY <1>3
  <2>2. /\ k \in 1 .. Len(h[o].elems)
        /\ x = IF o = up /\ k = j THEN Len(h) + 1 ELSE h[o].elems[k]
    BY <2>1 DEF Adds
  <2> QED BY <1>4, <2>1, <2>2
<1>7. ASSUME NEW x \in KidsIn(h, S) PROVE x \in KidsIn(g, S)
  <2>1. PICK o, k : o \in S /\ k \in 1 .. Len(h[o].elems) /\ x = h[o].elems[k] /\ x # 0 BY <1>4
  <2>2. /\ k \in 1 .. Len(g[o].elems) /\ ~(o = up /\ k = j)
        /\ g[o].elems[k] = h[o].elems[k]
    BY <2>1 DEF Adds
  <2> QED BY <1>3, <2>1, <2>2
<1>8. up \in S => Len(h) + 1 \in KidsIn(g, S)
  <2> SUFFICES ASSUME up \in S PROVE Len(h) + 1 \in KidsIn(g, S) OBVIOUS
  <2>1. /\ j \in 1 .. Len(g[up].elems) /\ g[up].elems[j] = Len(h) + 1
    BY DEF Adds
  <2> QED BY <1>1, <1>3, <2>1
<1>9. ASSUME NEW x \in KidsIn(g, S \cup {Len(h) + 1}) PROVE x \in KidsIn(g, S)
  <2>1. PICK o, k : o \in S \cup {Len(h) + 1} /\ k \in 1 .. Len(g[o].elems) /\ x = g[o].elems[k] /\ x # 0
    BY <1>5
  <2>2. o # Len(g) BY <2>1 DEF Adds
  <2> QED BY <1>1, <1>3, <2>1, <2>2
<1>10. KidsIn(g, S) \subseteq KidsIn(g, S \cup {Len(h) + 1}) BY <1>3, <1>5
<1>11. \A x : x \in KidsIn(g, S) <=> x \in KidsIn(h, S) \/ (up \in S /\ x = Len(h) + 1)
  BY <1>6, <1>7, <1>8
<1>12. KidsIn(g, S \cup {Len(h) + 1}) = KidsIn(g, S) BY <1>9, <1>10
<1> QED BY <1>11, <1>12

\* Objects that are no parent of the new one keep their kids.
LEMMA AddsElsewhere ==
    ASSUME NEW h \in Seq(ObjectType), NEW g \in Seq(ObjectType), NEW up \in Int, NEW j \in Int,
           Adds(h, g, up, j), AcyclicIn(h), NEW S \in SUBSET (1 .. Len(h)), up \notin S
    PROVE  /\ KidsIn(g, S) = KidsIn(h, S)
           /\ KidsIn(g, S \cup {Len(h) + 1}) = KidsIn(h, S)
<1>1. \A x : x \in KidsIn(g, S) <=> x \in KidsIn(h, S) \/ (up \in S /\ x = Len(h) + 1)
  BY AddsKids
<1>2. KidsIn(g, S \cup {Len(h) + 1}) = KidsIn(g, S) BY AddsKids
<1> QED BY <1>1, <1>2

LEMMA AddsThere ==
    ASSUME NEW h \in Seq(ObjectType), NEW g \in Seq(ObjectType), NEW up \in Int, NEW j \in Int,
           Adds(h, g, up, j), AcyclicIn(h), NEW S \in SUBSET (1 .. Len(h)), up \in S
    PROVE  KidsIn(g, S) = KidsIn(h, S) \cup {Len(h) + 1}
<1>1. /\ \A x : x \in KidsIn(g, S) <=> x \in KidsIn(h, S) \/ (up \in S /\ x = Len(h) + 1)
      /\ KidsIn(g, S \cup {Len(h) + 1}) = KidsIn(g, S)
  BY AddsKids
<1> QED BY <1>1

LEMMA AddsBelow ==
    ASSUME NEW h \in Seq(ObjectType), NEW g \in Seq(ObjectType), NEW up \in Int, NEW j \in Int,
           Adds(h, g, up, j), AcyclicIn(h), NEW r \in 1 .. Len(h),
           up = r \/ up \in KidsIn(h, {r})
    PROVE  BelowIn(g, r) = BelowIn(h, r) \cup {Len(h) + 1}
<1>1. {r} \in SUBSET (1 .. Len(h)) /\ Len(h) \in Nat /\ ~(r <= 0) BY LenProperties
<1> DEFINE K == KidsIn(h, {r})
<1>2. /\ K \in SUBSET (1 .. Len(h))
      /\ \A x \in K : \E k \in 1 .. Len(h[r].elems) : x = h[r].elems[k] /\ x # 0
  BY <1>1, KidsOf
<1>3. r \notin K
  <2> SUFFICES ASSUME r \in K PROVE FALSE OBVIOUS
  <2>1. PICK k \in 1 .. Len(h[r].elems) : r = h[r].elems[k] BY <1>2
  <2>2. r # 0 /\ (h[r].elems[k] = 0 \/ h[r].elems[k] \in r + 1 .. Len(h))
    BY <2>1 DEF AcyclicIn
  <2> QED BY <1>1, <2>1, <2>2
<1> HIDE DEF K
<1>4. BelowIn(h, r) = {r} \cup K \cup KidsIn(h, K) BY <1>1 DEF BelowIn, K
<1>5. BelowIn(g, r) = {r} \cup KidsIn(g, {r}) \cup KidsIn(g, KidsIn(g, {r}))
  BY <1>1 DEF BelowIn
<1>6. CASE up = r
  <2>1. KidsIn(g, {r}) = K \cup {Len(h) + 1} BY <1>1, <1>6, AddsThere DEF K
  <2>2. KidsIn(g, K \cup {Len(h) + 1}) = KidsIn(h, K)
    <3>1. up \notin K BY <1>3, <1>6
    <3>2. \A S \in SUBSET (1 .. Len(h)) : up \notin S =>
             KidsIn(g, S) = KidsIn(h, S) /\ KidsIn(g, S \cup {Len(h) + 1}) = KidsIn(h, S)
      BY AddsElsewhere
    <3>3. K \in SUBSET (1 .. Len(h)) BY <1>2
    <3> QED BY <3>1, <3>2, <3>3
  <2> QED BY <1>4, <1>5, <2>1, <2>2
<1>7. CASE up \in K
  <2>1. KidsIn(g, {r}) = K
    <3>1. up \notin {r} BY <1>3, <1>7
    <3> QED BY ZenonT(60), <1>1, <3>1, AddsElsewhere DEF K
  <2>2. KidsIn(g, K) = KidsIn(h, K) \cup {Len(h) + 1} BY <1>2, <1>7, AddsThere
  <2> QED BY <1>4, <1>5, <2>1, <2>2
<1> QED BY <1>6, <1>7 DEF K

LEMMA BelowType ==
    ASSUME NEW h \in Seq(ObjectType), AcyclicIn(h), NEW r \in Int, r <= Len(h)
    PROVE  BelowIn(h, r) \subseteq 1 .. Len(h)
<1>1. CASE r <= 0 BY <1>1 DEF BelowIn
<1>2. CASE r > 0
  <2>1. {r} \in SUBSET (1 .. Len(h)) /\ ~(r <= 0) BY <1>2, LenProperties
  <2>2. KidsIn(h, {r}) \in SUBSET (1 .. Len(h)) BY <2>1, KidsOf
  <2>3. KidsIn(h, KidsIn(h, {r})) \in SUBSET (1 .. Len(h)) BY <2>2, KidsOf
  <2> QED BY <2>1, <2>2, <2>3 DEF BelowIn
<1> QED BY <1>1, <1>2

LEMMA BelowNew ==
    ASSUME NEW h \in Seq(ObjectType), NEW g \in Seq(ObjectType), NEW j \in Int,
           Adds(h, g, 0, j), AcyclicIn(h)
    PROVE  BelowIn(g, Len(h) + 1) = {Len(h) + 1}
<1>1. Len(h) \in Nat /\ ~(Len(h) + 1 <= 0) BY LenProperties
<1> DEFINE none == {}
<1>2. none \in SUBSET (1 .. Len(h)) /\ 0 \notin none OBVIOUS
<1>3. KidsIn(h, none) = {} BY DEF KidsIn, AllNamed
<1>4. none \cup {Len(h) + 1} = {Len(h) + 1} OBVIOUS
<1> HIDE DEF none
<1>5. KidsIn(g, none \cup {Len(h) + 1}) = KidsIn(h, none) BY <1>2, AddsElsewhere
<1>6. KidsIn(g, {Len(h) + 1}) = {} BY <1>3, <1>4, <1>5
<1>7. KidsIn(g, {}) = {} BY DEF KidsIn, AllNamed
<1> QED BY <1>1, <1>6, <1>7 DEF BelowIn

LEMMA AddsFilled ==
    ASSUME NEW h \in Seq(ObjectType), NEW g \in Seq(ObjectType), NEW up \in Int, NEW a \in Int,
           Adds(h, g, up, a), NEW o \in Int, NEW n \in Nat, NEW j \in 0 .. n - 1, NEW x,
           Filled(h, o, n, j, x)
    PROVE  /\ o # up => Filled(g, o, n, j, x)
           /\ o = up /\ a = j + 1 => Filled(g, o, n, j, Len(h) + 1)
<1>1. Len(h) \in Nat /\ Len(g) = Len(h) + 1 BY LenProperties DEF Adds
<1>2. /\ o \in 1 .. Len(h) /\ Len(h[o].elems) = n
      /\ \A k \in j + 2 .. n : h[o].elems[k] = 0
      /\ h[o].elems[j + 1] = x
  BY DEF Filled
<1>3. /\ Len(g[o].elems) = Len(h[o].elems)
      /\ \A k \in 1 .. Len(h[o].elems) :
           g[o].elems[k] = IF o = up /\ k = a THEN Len(h) + 1 ELSE h[o].elems[k]
  BY <1>2 DEF Adds
<1>4. o \in 1 .. Len(g) /\ Len(g[o].elems) = n BY <1>1, <1>2, <1>3
<1>5. j + 1 \in 1 .. n /\ \A k \in j + 2 .. n : k \in 1 .. n /\ k # j + 1 OBVIOUS
<1>6. CASE o # up
  <2>1. \A k \in 1 .. n : g[o].elems[k] = h[o].elems[k] BY <1>2, <1>3, <1>6
  <2> QED BY <1>2, <1>4, <1>5, <1>6, <2>1 DEF Filled
<1>7. CASE o = up /\ a = j + 1
  <2>1. g[o].elems[j + 1] = Len(h) + 1 BY <1>2, <1>3, <1>5, <1>7
  <2>2. \A k \in j + 2 .. n : g[o].elems[k] = 0 BY <1>2, <1>3, <1>5, <1>7
  <2> QED BY <1>4, <1>7, <2>1, <2>2 DEF Filled
<1> QED BY <1>6, <1>7

\* The heap of the state.
LEMMA HeapBelow ==
    /\ \A S : Kids(S) = KidsIn(heap, S)
    /\ \A o : Below(o) = BelowIn(heap, o) /\ Below(o)' = BelowIn(heap', o)
    /\ Acyclic <=> AcyclicIn(heap)
    /\ Acyclic' <=> AcyclicIn(heap')
<1>1. ASSUME NEW S PROVE Kids(S) = KidsIn(heap, S) BY Zenon DEF Kids, KidsIn, AllNamed, Named
<1>2. ASSUME NEW S PROVE Kids(S)' = KidsIn(heap', S) BY Zenon DEF Kids, KidsIn, AllNamed, Named
<1>3. \A o : Below(o) = BelowIn(heap, o) BY <1>1 DEF Below, BelowIn
<1>4. \A o : Below(o)' = BelowIn(heap', o) BY <1>2 DEF Below, BelowIn
<1> QED BY <1>1, <1>3, <1>4 DEF Acyclic, AcyclicIn

LEMMA CodeType ==
    \A type \in TreeTypes \ {"bad"} : Code(type) \in -5 .. 0 /\ (type = "array" => Code(type) = -2)
BY DEF TreeTypes, Code

LEMMA CreateAdds ==
    ASSUME heap \in Seq(ObjectType), fn # "NULL", rstack \in [0 .. 2 -> TaskType], ridx \in 0 .. 2,
           NEW up \in Int, up = (IF cur.parent = -1 THEN 0 ELSE rstack[cur.parent].obj),
           up \in 1 .. Len(heap) => Filled(heap, up, Len(heap[up].elems), cur.idx, 0)
                                    /\ cur.idx \in 0 .. Len(heap[up].elems) - 1,
           NEW type \in TreeTypes, NEW v \in Int, NEW n \in Nat, Create(type, v, n)
    PROVE  /\ heap' \in Seq(ObjectType) /\ Adds(heap, heap', up, cur.idx + 1)
           /\ Len(heap') = Len(heap) + 1
           /\ heap'[Len(heap')].type = type /\ heap'[Len(heap')].v = v
           /\ Len(heap'[Len(heap')].elems) = n
           /\ \A k \in 1 .. n : heap'[Len(heap')].elems[k] = 0
<1> DEFINE new == [type |-> type, v |-> v, elems |-> [k \in 1 .. n |-> 0]]
           with == [heap[up] EXCEPT !.elems[cur.idx + 1] = Len(heap) + 1]
           old == [o \in DOMAIN heap |-> IF o = up
                     THEN [heap[o] EXCEPT !.elems[cur.idx + 1] = Len(heap) + 1]
                     ELSE heap[o]]
<1>1. heap' = Append(old, new) BY DEF Create
<1>2. DOMAIN heap = 1 .. Len(heap) /\ Len(heap) \in Nat BY LenProperties
<1>3. new \in ObjectType
  <2>1. [k \in 1 .. n |-> 0] \in Seq(Nat) OBVIOUS
  <2> QED BY <2>1 DEF ObjectType
<1>4. /\ Len(new.elems) = n /\ \A k \in 1 .. n : new.elems[k] = 0
      /\ new.type = type /\ new.v = v
  OBVIOUS
<1>5. ASSUME up \in 1 .. Len(heap)
      PROVE  /\ with \in ObjectType /\ Len(with.elems) = Len(heap[up].elems)
             /\ with.type = heap[up].type /\ with.v = heap[up].v
             /\ \A k \in 1 .. Len(heap[up].elems) :
                  with.elems[k] = IF k = cur.idx + 1 THEN Len(heap) + 1 ELSE heap[up].elems[k]
  <2>1. heap[up] \in ObjectType /\ heap[up].elems \in Seq(Nat) BY <1>5, ObjectElems
  <2> DEFINE es == heap[up].elems
             fs == [es EXCEPT ![cur.idx + 1] = Len(heap) + 1]
  <2>2. es \in Seq(Nat) BY <2>1
  <2>3. fs \in Seq(Nat) /\ Len(fs) = Len(es)
        /\ \A k \in 1 .. Len(es) : fs[k] = IF k = cur.idx + 1 THEN Len(heap) + 1 ELSE es[k]
    <3> HIDE DEF es
    <3>1. es \in [1 .. Len(es) -> Nat] /\ Len(es) \in Nat /\ Len(heap) + 1 \in Nat
      BY <1>2, <2>2, LenProperties
    <3>2. fs \in [1 .. Len(es) -> Nat] BY <3>1
    <3>3. Len(fs) = Len(es) BY <3>1, <3>2
    <3> QED BY <3>1, <3>2, <3>3
  <2>4. with = [heap[up] EXCEPT !.elems = fs] OBVIOUS
  <2>5. with.elems = fs /\ with \in ObjectType /\ with.type = heap[up].type /\ with.v = heap[up].v
    <3> HIDE DEF fs, with
    <3>1. heap[up] \in [type : TreeTypes, v : Int, elems : Seq(Nat)] BY <2>1 DEF ObjectType
    <3>2. fs \in Seq(Nat) BY <2>3
    <3>3. with.elems = fs /\ with.type = heap[up].type /\ with.v = heap[up].v BY <2>4, <3>1
    <3>4. with \in [type : TreeTypes, v : Int, elems : Seq(Nat)] BY <2>4, <3>1, <3>2
    <3> QED BY <3>3, <3>4 DEF ObjectType
  <2> HIDE DEF with, fs
  <2> QED BY <2>3, <2>5
<1>6. \A o \in 1 .. Len(heap) : heap[o] \in ObjectType BY ElementOfSeq
<1>7. \A o \in 1 .. Len(heap) : old[o] = IF o = up THEN with ELSE heap[o]
  BY <1>2, Zenon
<1>8. old \in Seq(ObjectType) /\ Len(old) = Len(heap)
  <2>1. \A o \in 1 .. Len(heap) : old[o] \in ObjectType
    <3> HIDE DEF with, old
    <3> QED BY <1>5, <1>6, <1>7
  <2>2. old \in [1 .. Len(heap) -> ObjectType]
    <3> DEFINE F(o) == IF o = up
                     THEN [heap[o] EXCEPT !.elems[cur.idx + 1] = Len(heap) + 1]
                     ELSE heap[o]
    <3>1. old = [o \in 1 .. Len(heap) |-> F(o)] BY <1>2, Zenon
    <3> HIDE DEF F, old
    <3>2. \A o \in 1 .. Len(heap) : F(o) \in ObjectType BY <2>1, <3>1
    <3> QED BY <3>1, <3>2
  <2> HIDE DEF old
  <2>3. old \in Seq(ObjectType) BY SMTT(30), <1>2, <2>2
  <2>4. DOMAIN old = 1 .. Len(heap) BY <2>2
  <2> QED BY <1>2, <2>3, <2>4, LenProperties
<1> HIDE DEF new, old, with
<1>9. /\ heap' \in Seq(ObjectType) /\ Len(heap') = Len(heap) + 1
      /\ \A o \in 1 .. Len(heap) : heap'[o] = old[o]
      /\ heap'[Len(heap) + 1] = new
  BY <1>1, <1>3, <1>8, AppendProperties
<1>10. \A o \in 1 .. Len(heap) :
         /\ heap'[o].type = heap[o].type /\ heap'[o].v = heap[o].v
         /\ Len(heap'[o].elems) = Len(heap[o].elems)
         /\ \A k \in 1 .. Len(heap[o].elems) :
              heap'[o].elems[k] = IF o = up /\ k = cur.idx + 1 THEN Len(heap) + 1 ELSE heap[o].elems[k]
  <2> TAKE o \in 1 .. Len(heap)
  <2>1. heap'[o] = IF o = up THEN with ELSE heap[o] BY <1>7, <1>9
  <2>2. CASE o = up BY ZenonT(60), <1>5, <2>1, <2>2
  <2>3. CASE o # up BY <2>1, <2>3
  <2> QED BY <2>2, <2>3
<1>11. up \in 1 .. Len(heap) =>
          cur.idx + 1 \in 1 .. Len(heap[up].elems) /\ heap[up].elems[cur.idx + 1] = 0
  <2> SUFFICES ASSUME up \in 1 .. Len(heap)
               PROVE  cur.idx + 1 \in 1 .. Len(heap[up].elems) /\ heap[up].elems[cur.idx + 1] = 0
    OBVIOUS
  <2> DEFINE size == Len(heap[up].elems)
  <2>1. size \in Nat BY ObjectElems
  <2>2. Filled(heap, up, size, cur.idx, 0) /\ cur.idx \in 0 .. size - 1 OBVIOUS
  <2>3. heap[up].elems[cur.idx + 1] = 0 BY <2>2 DEF Filled
  <2> HIDE DEF size
  <2>4. cur.idx + 1 \in 1 .. size BY <2>1, <2>2
  <2> QED BY <2>3, <2>4 DEF size
<1> QED BY ZenonT(60), <1>4, <1>9, <1>10, <1>11 DEF Adds

\* What an item has done before it moves on: its object is in its parent, and
\* still everything there is was handed out or is below the reply.
Placed(obj) ==
    /\ heap' \in Seq(ObjectType) /\ Len(heap) <= Len(heap') /\ AcyclicIn(heap')
    /\ obj \in -5 .. Len(heap')
    /\ reply' \in -5 .. Len(heap') /\ reply' = IF ridx = 0 THEN obj ELSE reply
    /\ fn = "NULL" => reply' <= 0
    /\ fn # "NULL" => reply' >= 0
    /\ fn # "NULL" => \A i \in {0, 1} : i < ridx =>
          Filled(heap', rstack[i].obj, rstack[i].elements, rstack[i + 1].idx,
                 IF i + 1 = ridx THEN obj ELSE rstack[i + 1].obj)
    /\ error = "none" => freed = {} /\ 1 .. Len(heap') = given \cup BelowIn(heap', reply')
    /\ BelowIn(heap', reply') \cap (freed \cup given) = {}

LEMMA CreatePlaces ==
    ASSUME MInv, pc = "parsing", ridx \in 0 .. 2,
           NEW type \in TreeTypes \ {"bad"}, NEW v \in Int, NEW n \in Nat,
           Create(type, v, n), SetReply(Obj(type))
    PROVE  /\ Placed(Obj(type))
           /\ fn # "NULL" => /\ Obj(type) = Len(heap') /\ Len(heap'[Len(heap')].elems) = n
                             /\ \A k \in 1 .. n : heap'[Len(heap')].elems[k] = 0
                             /\ heap'[Len(heap')].type = type /\ heap'[Len(heap')].v = v
                             /\ \E up \in Int, j \in Int : Adds(heap, heap', up, j)
<1>1. RType /\ Levels /\ Acyclic /\ Kept BY DEF MInv
<1>2. /\ heap \in Seq(ObjectType) /\ Len(heap) \in Nat /\ rstack \in [0 .. 2 -> TaskType]
      /\ reply \in -5 .. Len(heap) /\ freed \subseteq 1 .. Len(heap) /\ given \subseteq 1 .. Len(heap)
      /\ \A i \in 0 .. 2 : rstack[i].obj \in -5 .. Len(heap)
  BY <1>1, LenProperties DEF RType
<1>3. AcyclicIn(heap) BY <1>1, HeapBelow
<1>4. /\ error = "none" => freed = {} /\ 1 .. Len(heap) = given \cup BelowIn(heap, reply)
      /\ BelowIn(heap, reply) \cap (freed \cup given) = {}
  BY <1>1, HeapBelow DEF Kept, Failed
<1>5. Code(type) \in -5 .. 0 BY CodeType
<1>6. reply' = IF ridx = 0 THEN Obj(type) ELSE reply BY DEF SetReply
<1>7. CASE fn = "NULL"
  <2>1. heap' = heap /\ Obj(type) = Code(type) BY <1>7 DEF Create, Obj
  <2>2. reply <= 0 BY <1>1, <1>7 DEF Levels
  <2>3. reply' \in -5 .. 0 BY <1>2, <1>5, <1>6, <2>1, <2>2
  <2>4. BelowIn(heap, reply) = {} /\ BelowIn(heap', reply') = {}
    BY <2>2, <2>3 DEF BelowIn
  <2> QED BY SMTT(30), <1>2, <1>3, <1>4, <1>5, <1>6, <1>7, <2>1, <2>3, <2>4 DEF Placed
<1>8. CASE fn # "NULL"
  <2> DEFINE up == IF cur.parent = -1 THEN 0 ELSE rstack[cur.parent].obj
             new == Len(heap) + 1
  <2>0. fn = "default"
    <3>1. forest \in Forests /\ fn \in Functions[forest] BY <1>1 DEF RType
    <3>2. Functions[forest] \in SUBSET {"default", "NULL"} BY <3>1, ReaderAssumption
    <3> QED BY <1>8, <3>1, <3>2
  <2>1. \A i \in {0, 1} : i < ridx =>
           /\ rstack[i + 1].parent = i /\ rstack[i].elements \in Nat
           /\ rstack[i + 1].idx \in 0 .. rstack[i].elements - 1
           /\ rstack[i].obj \in 1 .. Len(heap)
           /\ Filled(heap, rstack[i].obj, rstack[i].elements, rstack[i + 1].idx,
                     IF i + 1 = ridx THEN 0 ELSE rstack[i + 1].obj)
           /\ Len(heap[rstack[i].obj].elems) = rstack[i].elements
    <3> SUFFICES ASSUME NEW i \in {0, 1}, i < ridx
                 PROVE /\ rstack[i + 1].parent = i /\ rstack[i].elements \in Nat
                       /\ rstack[i + 1].idx \in 0 .. rstack[i].elements - 1
                       /\ rstack[i].obj \in 1 .. Len(heap)
                       /\ Filled(heap, rstack[i].obj, rstack[i].elements, rstack[i + 1].idx,
                                 IF i + 1 = ridx THEN 0 ELSE rstack[i + 1].obj)
                       /\ Len(heap[rstack[i].obj].elems) = rstack[i].elements
      OBVIOUS
    <3>1. Level(i) BY <1>1 DEF Levels
    <3>2. rstack[i].elements \in Int
      <4>1. rstack[i] \in TaskType BY <1>2
      <4> QED BY <4>1 DEF TaskType
    <3>3. Filled(heap, rstack[i].obj, rstack[i].elements, rstack[i + 1].idx,
                 IF i + 1 = ridx THEN 0 ELSE rstack[i + 1].obj)
      BY <2>0, <3>1 DEF Level
    <3>4. rstack[i].obj \in 1 .. Len(heap) /\ Len(heap[rstack[i].obj].elems) = rstack[i].elements
      BY <3>3 DEF Filled
    <3> QED BY <3>1, <3>2, <3>3, <3>4 DEF Level
  <2>2. /\ ridx = 0 => up = 0 /\ reply = 0
        /\ ridx > 0 => cur.parent = ridx - 1 /\ up = rstack[ridx - 1].obj
                       /\ reply = rstack[0].obj /\ reply \in 1 .. Len(heap)
    <3>1. ridx = 0 => cur.parent = -1 /\ reply = 0 BY <1>1 DEF Levels, cur
    <3>2. ridx > 0 => cur.parent = ridx - 1 BY <2>1 DEF cur
    <3>3. ridx > 0 => reply = rstack[0].obj /\ rstack[0].obj \in 1 .. Len(heap)
      BY <1>1, <2>1 DEF Levels
    <3> QED BY <3>1, <3>2, <3>3
  <2>3. up \in Int
    <3>1. ridx > 0 => ridx - 1 \in 0 .. 2 OBVIOUS
    <3> QED BY <1>2, <2>2, <3>1
  <2>4. up \in 1 .. Len(heap) => Filled(heap, up, Len(heap[up].elems), cur.idx, 0)
                                 /\ cur.idx \in 0 .. Len(heap[up].elems) - 1
    <3> SUFFICES ASSUME up \in 1 .. Len(heap)
                 PROVE  Filled(heap, up, Len(heap[up].elems), cur.idx, 0)
                        /\ cur.idx \in 0 .. Len(heap[up].elems) - 1
      OBVIOUS
    <3>1. ridx > 0 /\ ridx - 1 \in {0, 1} /\ ridx - 1 + 1 = ridx BY <2>2
    <3>2. up = rstack[ridx - 1].obj /\ cur = rstack[ridx] BY <2>2, <3>1 DEF cur
    <3> HIDE DEF up
    <3>3. PICK i \in {0, 1} : i + 1 = ridx /\ i < ridx /\ i = ridx - 1 BY <3>1
    <3>4. /\ Filled(heap, rstack[i].obj, rstack[i].elements, rstack[i + 1].idx, 0)
          /\ Len(heap[rstack[i].obj].elems) = rstack[i].elements
          /\ rstack[i + 1].idx \in 0 .. rstack[i].elements - 1
      BY <2>1, <3>3
    <3>5. up = rstack[i].obj /\ cur.idx = rstack[i + 1].idx BY <3>2, <3>3
    <3> QED BY <3>4, <3>5
  <2>5. type \in TreeTypes OBVIOUS
  <2>6. /\ heap' \in Seq(ObjectType) /\ Adds(heap, heap', up, cur.idx + 1)
        /\ Len(heap') = Len(heap) + 1
        /\ heap'[Len(heap')].type = type /\ heap'[Len(heap')].v = v
        /\ Len(heap'[Len(heap')].elems) = n
        /\ \A k \in 1 .. n : heap'[Len(heap')].elems[k] = 0
    <3>1. up = (IF cur.parent = -1 THEN 0 ELSE rstack[cur.parent].obj) OBVIOUS
    <3> HIDE DEF up
    <3>2. rstack \in [0 .. 2 -> TaskType] /\ heap \in Seq(ObjectType) BY <1>2
    <3>3. \A u \in Int :
             /\ u = (IF cur.parent = -1 THEN 0 ELSE rstack[cur.parent].obj)
             /\ u \in 1 .. Len(heap) => Filled(heap, u, Len(heap[u].elems), cur.idx, 0)
                                        /\ cur.idx \in 0 .. Len(heap[u].elems) - 1
             => /\ heap' \in Seq(ObjectType) /\ Adds(heap, heap', u, cur.idx + 1)
                /\ Len(heap') = Len(heap) + 1
                /\ heap'[Len(heap')].type = type /\ heap'[Len(heap')].v = v
                /\ Len(heap'[Len(heap')].elems) = n
                /\ \A k \in 1 .. n : heap'[Len(heap')].elems[k] = 0
      BY <1>8, <2>5, <3>2, CreateAdds
    <3> QED BY <2>3, <2>4, <3>1, <3>3
  <2>7. Obj(type) = Len(heap') BY <1>8, <2>6 DEF Obj
  <2>8. cur.idx + 1 \in Int
    <3>1. rstack[ridx] \in TaskType BY <1>2
    <3> QED BY <3>1 DEF TaskType, cur
  <2> HIDE DEF up
  <2>9. AcyclicIn(heap') BY <1>2, <1>3, <2>3, <2>6, <2>8, AddsAcyclic
  <2>10. BelowIn(heap', reply') = BelowIn(heap, reply) \cup {Len(heap')}
    <3>1. CASE ridx = 0
      <4>1. up = 0 /\ reply = 0 /\ reply' = Len(heap) + 1 BY <1>6, <2>2, <2>6, <2>7, <3>1
      <4>2. BelowIn(heap', Len(heap) + 1) = {Len(heap) + 1}
        BY <1>2, <1>3, <2>6, <2>8, <4>1, BelowNew
      <4>3. BelowIn(heap, reply) = {} BY <4>1 DEF BelowIn
      <4> QED BY <2>6, <4>1, <4>2, <4>3
    <3>2. CASE ridx > 0
      <4>1. reply \in 1 .. Len(heap) /\ reply' = reply BY <1>6, <2>2, <3>2
      <4>2. up = reply \/ up \in KidsIn(heap, {reply})
        <5>1. CASE ridx = 1 BY <2>2, <5>1
        <5>2. CASE ridx = 2
          <6>1. Filled(heap, rstack[0].obj, rstack[0].elements, rstack[1].idx, rstack[1].obj)
            <7>1. /\ 0 \in {0, 1} /\ 0 < ridx /\ 0 + 1 = 1 /\ 1 # ridx BY <5>2
            <7> QED BY <2>1, <7>1
          <6>2. /\ heap[reply].elems[rstack[1].idx + 1] = up
                /\ rstack[1].idx + 1 \in 1 .. Len(heap[reply].elems)
            <7>1. up = rstack[1].obj /\ reply = rstack[0].obj BY <2>2, <5>2
            <7>2. rstack[1].idx \in 0 .. rstack[0].elements - 1 /\ rstack[0].elements \in Nat
              <8>1. /\ 0 \in {0, 1} /\ 0 < ridx /\ 0 + 1 = 1 BY <5>2
              <8> QED BY <2>1, <8>1
            <7> QED BY <6>1, <7>1, <7>2 DEF Filled
          <6>3. up # 0
            <7>1. 1 \in {0, 1} /\ 1 < ridx BY <5>2
            <7>2. rstack[1].obj \in 1 .. Len(heap) BY <2>1, <7>1
            <7> QED BY <2>2, <5>2, <7>2
          <6>4. {reply} \in SUBSET (1 .. Len(heap)) BY <4>1
          <6>5. \A x : x \in KidsIn(heap, {reply}) <=>
                  /\ x # 0
                  /\ \E o \in {reply} : \E k \in 1 .. Len(heap[o].elems) : x = heap[o].elems[k]
            BY <1>2, <1>3, <6>4, KidsOf
          <6> QED BY <6>2, <6>3, <6>5
        <5> QED BY <3>2, <5>1, <5>2
      <4> QED BY ZenonT(60), <1>2, <1>3, <2>3, <2>6, <2>8, <4>1, <4>2, AddsBelow
    <3> QED BY <3>1, <3>2
  <2>11. ASSUME NEW i \in {0, 1}, i < ridx
         PROVE  Filled(heap', rstack[i].obj, rstack[i].elements, rstack[i + 1].idx,
                       IF i + 1 = ridx THEN Obj(type) ELSE rstack[i + 1].obj)
    <3>1. CASE i + 1 = ridx
      <4>1. up = rstack[i].obj /\ cur.idx = rstack[i + 1].idx BY <2>2, <3>1 DEF cur
      <4>2. Filled(heap, rstack[i].obj, rstack[i].elements, rstack[i + 1].idx, 0)
        BY <2>1, <2>11, <3>1
      <4>3. Filled(heap', rstack[i].obj, rstack[i].elements, rstack[i + 1].idx, Len(heap) + 1)
        <5> DEFINE o == rstack[i].obj
                   m == rstack[i].elements
                   j == rstack[i + 1].idx
        <5>1. o \in Int /\ m \in Nat /\ j \in 0 .. m - 1 /\ o = up /\ cur.idx + 1 = j + 1
          BY <2>1, <2>3, <2>11, <4>1
        <5>2. Filled(heap, o, m, j, 0) BY <4>2
        <5> HIDE DEF o, m, j
        <5>3. Filled(heap', o, m, j, Len(heap) + 1)
          BY <1>2, <2>3, <2>6, <2>8, <5>1, <5>2, AddsFilled
        <5> QED BY <5>3 DEF o, m, j
      <4> QED BY <2>6, <2>7, <3>1, <4>3
    <3>2. CASE i + 1 # ridx
      <4>1. i = 0 /\ ridx = 2 BY <2>11, <3>2
      <4>2. Filled(heap, rstack[0].obj, rstack[0].elements, rstack[1].idx, rstack[1].obj)
        <5>1. /\ 0 \in {0, 1} /\ 0 < ridx /\ 0 + 1 = 1 /\ 1 # ridx BY <4>1
        <5> QED BY <2>1, <5>1
      <4>3. /\ rstack[0].obj \in 1 .. Len(heap) /\ rstack[1].idx \in 0 .. rstack[0].elements - 1
            /\ rstack[0].elements \in Nat /\ rstack[1].obj \in 1 .. Len(heap)
            /\ Len(heap[rstack[0].obj].elems) = rstack[0].elements
        <5>1. /\ 0 \in {0, 1} /\ 0 < ridx /\ 0 + 1 = 1 /\ 1 \in {0, 1} /\ 1 < ridx BY <4>1
        <5> QED BY <2>1, <5>1
      <4>4. rstack[0].obj # up
        <5>1. heap[rstack[0].obj].elems[rstack[1].idx + 1] = rstack[1].obj BY <4>2 DEF Filled
        <5>2. rstack[1].idx + 1 \in 1 .. Len(heap[rstack[0].obj].elems) BY SMTT(30), <4>3
        <5>3. rstack[1].obj \in rstack[0].obj + 1 .. Len(heap)
          <6> DEFINE o == rstack[0].obj
                     k == rstack[1].idx + 1
          <6>1. o \in 1 .. Len(heap) /\ k \in 1 .. Len(heap[o].elems) BY <4>3, <5>2
          <6>2. heap[o].elems[k] = rstack[1].obj BY <5>1
          <6> HIDE DEF o, k
          <6>3. rstack[1].obj \in o + 1 .. Len(heap)
            <7>1. heap[o].elems[k] = 0 \/ heap[o].elems[k] \in o + 1 .. Len(heap)
              BY <1>3, <6>1 DEF AcyclicIn
            <7>2. rstack[1].obj # 0 BY <4>3
            <7> QED BY <6>2, <7>1, <7>2
          <6> QED BY <6>3 DEF o
        <5>4. up = rstack[1].obj BY <2>2, <4>1
        <5> QED BY <4>3, <5>3, <5>4
      <4>5. Filled(heap', rstack[0].obj, rstack[0].elements, rstack[1].idx, rstack[1].obj)
        <5> DEFINE o == rstack[0].obj
                   m == rstack[0].elements
                   j == rstack[1].idx
                   x == rstack[1].obj
        <5>1. o \in Int /\ m \in Nat /\ j \in 0 .. m - 1 /\ o # up BY <4>3, <4>4
        <5>2. Filled(heap, o, m, j, x) BY <4>2
        <5> HIDE DEF o, m, j, x
        <5>3. Filled(heap', o, m, j, x)
          BY <1>2, <2>3, <2>6, <2>8, <5>1, <5>2, AddsFilled
        <5> QED BY <5>3 DEF o, m, j, x
      <4> QED BY <4>1, <4>5
    <3> QED BY <3>1, <3>2
  <2>12. /\ reply' \in -5 .. Len(heap') /\ reply' >= 0 /\ Len(heap) <= Len(heap')
         /\ Obj(type) \in -5 .. Len(heap')
    BY <1>2, <1>6, <2>2, <2>6, <2>7
  <2>13. 1 .. Len(heap') = (1 .. Len(heap)) \cup {Len(heap')} /\ Len(heap') \notin 1 .. Len(heap)
    BY <1>2, <2>6
  <2>14. /\ error = "none" => freed = {} /\ 1 .. Len(heap') = given \cup BelowIn(heap', reply')
         /\ BelowIn(heap', reply') \cap (freed \cup given) = {}
    BY <1>2, <1>4, <2>10, <2>13
  <2>15. Placed(Obj(type)) BY <1>6, <1>8, <2>6, <2>9, <2>11, <2>12, <2>14 DEF Placed
  <2>16. \E u \in Int, j \in Int : Adds(heap, heap', u, j) BY <2>3, <2>6, <2>8
  <2> QED BY <2>6, <2>7, <2>15, <2>16
<1> QED BY <1>7, <1>8

\* What the end of an item leaves of the reader.
Steady == /\ pos' \in 0 .. len /\ UNCHANGED <<error, buf, len, freed, pc>> /\ Unmoved

LEMMA ItemCommon ==
    ASSUME MInv, pc = "parsing", ridx \in 0 .. 2, cur.type # "none", NEW obj, Placed(obj), Steady,
           ridx' \in -1 .. 2, rstack' \in [0 .. 2 -> TaskType],
           \A i \in 0 .. 2 : /\ rstack'[i].parent \in -1 .. i - 1
                             /\ rstack'[i].obj \in -5 .. Len(heap')
    PROVE  RType' /\ Acyclic' /\ Kept'
<1>1. RType /\ Kept BY DEF MInv
<1>2. len' = Len(buf')
  <2>1. ~Stale BY DEF Stale, cur
  <2> QED BY <1>1, <2>1 DEF RType, Steady
<1>3. /\ heap' \in Seq(ObjectType) /\ reply' \in -5 .. Len(heap')
      /\ freed' \subseteq 1 .. Len(heap') /\ given' \subseteq 1 .. Len(heap')
  <2>1. Len(heap) \in Nat /\ Len(heap') \in Nat /\ Len(heap) <= Len(heap')
    BY <1>1, LenProperties DEF RType, Placed
  <2>2. freed' = freed /\ given' = given BY DEF Steady, Unmoved, callerVars
  <2>3. freed \subseteq 1 .. Len(heap) /\ given \subseteq 1 .. Len(heap) BY <1>1 DEF RType
  <2>4. 1 .. Len(heap) \subseteq 1 .. Len(heap') BY <2>1
  <2> QED BY <2>2, <2>3, <2>4 DEF Placed
<1>4. RType'
  <2>1. /\ forest' = forest /\ fed' = fed /\ fn' = fn /\ result' = result
        /\ error' = error /\ buf' = buf /\ len' = len /\ pc' = pc
    BY DEF Steady, Unmoved, callerVars
  <2>2. pc' # "idle" /\ pos' \in 0 .. len' BY <2>1 DEF Steady
  <2> QED BY <1>1, <1>2, <1>3, <2>1, <2>2 DEF RType
<1>5. Acyclic' BY HeapBelow DEF Placed
<1>6. Kept'
  <2>1. Below(reply)' = BelowIn(heap', reply') BY HeapBelow
  <2>2. freed' = freed /\ given' = given /\ error' = error BY DEF Steady, Unmoved, callerVars
  <2> QED BY <1>1, <2>1, <2>2 DEF Kept, Placed
<1> QED BY <1>4, <1>5, <1>6

Renewed(r) == [type |-> "none", elements |-> -1, idx |-> r.idx + 1, obj |-> r.obj,
               parent |-> r.parent]

LEMMA RenewedType ==
    ASSUME NEW r \in TaskType
    PROVE  /\ Renewed(r) \in TaskType
           /\ Renewed(r).type = "none" /\ Renewed(r).idx = r.idx + 1
           /\ Renewed(r).parent = r.parent /\ Renewed(r).obj = r.obj
<1>1. r.idx \in Int /\ r.obj \in Int /\ r.parent \in Int BY DEF TaskType
<1> QED BY <1>1 DEF TaskType, Renewed

LEMMA MoveStep ==
    ASSUME rstack \in [0 .. 2 -> TaskType], ridx \in 0 .. 2, MoveToNextTask(rstack)
    PROVE  \/ ridx' = -1 /\ rstack' = rstack
           \/ \E t \in 1 .. ridx :
                /\ ridx' = t /\ rstack[t].idx # rstack[t - 1].elements - 1
                /\ rstack' \in [0 .. 2 -> TaskType]
                /\ \A i \in 0 .. 2 : i # t => rstack'[i] = rstack[i]
                /\ rstack'[t].type = "none" /\ rstack'[t].idx = rstack[t].idx + 1
                /\ rstack'[t].parent = rstack[t].parent /\ rstack'[t].obj = rstack[t].obj
<1> DEFINE left == {i \in 0 .. ridx : i = 0 \/ rstack[i].idx # rstack[i-1].elements - 1}
           top == CHOOSE i \in left : \A j \in left : j <= i
           moved == [rstack EXCEPT ![top].type = "none", ![top].elements = -1,
                                   ![top].idx = @ + 1]
<1>1. \E i \in left : \A j \in left : j <= i
  <2>1. 0 \in left OBVIOUS
  <2>2. CASE 2 \in left BY <2>2
  <2>3. CASE 2 \notin left /\ 1 \in left BY <2>3
  <2>4. CASE 2 \notin left /\ 1 \notin left BY <2>1, <2>4
  <2> QED BY <2>2, <2>3, <2>4
<1>2. top \in left BY <1>1
<1>3. IF top = 0 THEN ridx' = -1 /\ rstack' = rstack ELSE ridx' = top /\ rstack' = moved
  BY DEF MoveToNextTask
<1>4. CASE top = 0 BY <1>3, <1>4
<1>5. CASE top # 0
  <2>2. ridx' = top /\ rstack' = moved BY <1>3, <1>5
  <2> HIDE DEF top
  <2>1. top \in 1 .. ridx /\ rstack[top].idx # rstack[top - 1].elements - 1 BY <1>2, <1>5
  <2>3. rstack[top] \in TaskType BY <2>1
  <2> DEFINE task == Renewed(rstack[top])
  <2>4. /\ task \in TaskType /\ task.type = "none" /\ task.idx = rstack[top].idx + 1
        /\ task.parent = rstack[top].parent /\ task.obj = rstack[top].obj
    BY <2>3, RenewedType
  <2>5. \A i \in 0 .. 2 : rstack'[i] = IF i = top THEN task ELSE rstack[i]
    BY <2>1, <2>2, <2>3 DEF Renewed, TaskType
  <2>6. rstack' = [i \in 0 .. 2 |-> rstack'[i]]
    <3>1. rstack = [i \in 0 .. 2 |-> rstack[i]] OBVIOUS
    <3> QED BY <2>2, <3>1
  <2> HIDE DEF task, moved
  <2>7. \A i \in 0 .. 2 : rstack'[i] \in TaskType BY <2>4, <2>5
  <2>8. /\ rstack' \in [0 .. 2 -> TaskType] /\ rstack'[top] = task
        /\ \A i \in 0 .. 2 : i # top => rstack'[i] = rstack[i]
    BY <2>1, <2>5, <2>6, <2>7
  <2> QED BY <2>1, <2>2, <2>4, <2>8
<1> QED BY <1>4, <1>5

LEMMA ItemDone ==
    ASSUME MInv, pc = "parsing", ridx \in 0 .. 2, cur.type # "none",
           NEW obj, Placed(obj), Steady, MoveToNextTask(rstack)
    PROVE  MInv'
<1>1. RType /\ Levels BY DEF MInv
<1>2. /\ rstack \in [0 .. 2 -> TaskType] /\ Len(heap) \in Nat /\ Len(heap') \in Nat
      /\ Len(heap) <= Len(heap')
      /\ \A i \in 0 .. 2 : rstack[i].parent \in -1 .. i - 1 /\ rstack[i].obj \in -5 .. Len(heap)
  BY <1>1, LenProperties DEF RType, Placed
<1>3. \A i \in 0 .. 2 : rstack[i].obj \in -5 .. Len(heap') BY <1>2
<1>4. pc' = "parsing" /\ fn' = fn BY DEF Steady, Unmoved
<1>5. fn = "NULL" => reply' <= 0 BY DEF Placed
<1>6. fn # "NULL" => reply' >= 0 BY DEF Placed
<1>7. CASE ridx' = -1 /\ rstack' = rstack
  <2>1. RType' /\ Acyclic' /\ Kept'
    BY <1>2, <1>3, <1>7, ItemCommon
  <2>2. Levels'
    <3>1. \A i \in {0, 1} : ~(i < ridx') BY <1>7
    <3> QED BY <1>4, <1>5, <1>6, <1>7, <3>1 DEF Levels
  <2> QED BY <2>1, <2>2 DEF MInv
<1>8. ASSUME NEW t \in 1 .. ridx,
             ridx' = t, rstack[t].idx # rstack[t - 1].elements - 1,
             rstack' \in [0 .. 2 -> TaskType],
             \A i \in 0 .. 2 : i # t => rstack'[i] = rstack[i],
             rstack'[t].type = "none", rstack'[t].idx = rstack[t].idx + 1,
             rstack'[t].parent = rstack[t].parent, rstack'[t].obj = rstack[t].obj
      PROVE  MInv'
  <2>0. t \in 0 .. 2 OBVIOUS
  <2>1. \A i \in 0 .. 2 : rstack'[i].parent = rstack[i].parent /\ rstack'[i].obj = rstack[i].obj
    BY <1>8
  <2>2. RType' /\ Acyclic' /\ Kept'
    <3>1. \A i \in 0 .. 2 : /\ rstack'[i].parent \in -1 .. i - 1
                            /\ rstack'[i].obj \in -5 .. Len(heap')
      BY <1>2, <1>3, <2>1
    <3>2. ridx' \in -1 .. 2 BY <1>8, <2>0
    <3> QED BY <1>8, <3>1, <3>2, ItemCommon
  <2>3. ASSUME NEW i \in {0, 1}, i < t PROVE Level(i)'
    <3> DEFINE o == rstack[i].obj
               n == rstack[i].elements
               j == rstack[i + 1].idx
    <3>1. i < ridx /\ i \in 0 .. 2 /\ i + 1 \in 0 .. 2 /\ i # t BY <2>3
    <3>2. Level(i) BY <1>1, <3>1 DEF Levels
    <3>3. o \in Int /\ n \in Int /\ n > 0 /\ j \in 0 .. n - 1 /\ rstack[i].type = "array"
          /\ rstack[i + 1].parent = i
      <4>1. rstack[i] \in TaskType BY <1>2, <3>1
      <4> QED BY <3>2, <4>1 DEF Level, TaskType
    <3>4. rstack'[i] = rstack[i] BY <1>8, <3>1
    <3>5. rstack'[i + 1].parent = i BY <2>1, <3>1, <3>3
    <3>6. fn = "NULL" => rstack[i].obj = Code("array") BY <3>2 DEF Level
    <3>7. fn # "NULL" => Filled(heap', o, n, j, IF i + 1 = ridx THEN obj ELSE rstack[i + 1].obj)
      BY <3>1 DEF Placed
    <3>8. CASE i + 1 = t
      <4>1. rstack'[i + 1].idx = j + 1 /\ j # n - 1
        <5>1. t - 1 = i BY <3>8
        <5> QED BY <1>8, <3>8, <5>1
      <4>2. fn # "NULL" => Filled(heap', o, n, j + 1, 0)
        <5> SUFFICES ASSUME fn # "NULL" PROVE Filled(heap', o, n, j + 1, 0) OBVIOUS
        <5>1. /\ o \in 1 .. Len(heap') /\ Len(heap'[o].elems) = n
              /\ \A k \in j + 2 .. n : heap'[o].elems[k] = 0
          BY <3>7 DEF Filled
        <5> HIDE DEF o, n, j
        <5>2. j + 2 \in j + 2 .. n /\ j + 1 + 1 = j + 2 /\ \A k \in j + 1 + 2 .. n : k \in j + 2 .. n
          BY <3>3, <4>1
        <5>3. heap'[o].elems[j + 1 + 1] = 0 /\ \A k \in j + 1 + 2 .. n : heap'[o].elems[k] = 0
          BY <5>1, <5>2
        <5> QED BY <5>1, <5>3 DEF Filled
      <4>3. j + 1 \in 0 .. n - 1 BY <3>3, <4>1
      <4>4. fn' # "NULL" => Filled(heap', rstack'[i].obj, rstack'[i].elements, rstack'[i + 1].idx,
                                   IF i + 1 = ridx' THEN 0 ELSE rstack'[i + 1].obj)
        BY <1>4, <1>8, <3>4, <3>8, <4>1, <4>2
      <4>5. fn' = "default" => fn' # "NULL" OBVIOUS
      <4>6. rstack'[i + 1].idx \in 0 .. rstack'[i].elements - 1 BY <3>4, <4>1, <4>3
      <4> QED BY <1>4, <3>3, <3>4, <3>5, <3>6, <4>4, <4>5, <4>6 DEF Level
    <3>9. CASE i + 1 # t
      <4>1. rstack'[i + 1] = rstack[i + 1] /\ i + 1 # ridx BY <1>8, <2>3, <3>1, <3>9
      <4>2. fn' # "NULL" => Filled(heap', rstack'[i].obj, rstack'[i].elements, rstack'[i + 1].idx,
                                   IF i + 1 = ridx' THEN 0 ELSE rstack'[i + 1].obj)
        BY <1>4, <1>8, <3>4, <3>7, <3>9, <4>1
      <4>3. fn' = "default" => fn' # "NULL" OBVIOUS
      <4> QED BY <1>4, <3>3, <3>4, <3>5, <3>6, <4>1, <4>2, <4>3 DEF Level
    <3> QED BY <3>8, <3>9
  <2>4. ridx > 0 /\ reply' = reply /\ reply = rstack[0].obj /\ rstack[0].parent = -1
    BY <1>1 DEF Placed, Levels
  <2>5. Levels'
    <3>1. rstack'[0].obj = rstack[0].obj /\ rstack'[0].parent = -1 BY <2>1, <2>4
    <3> QED BY <1>4, <1>5, <1>6, <1>8, <2>3, <2>4, <3>1 DEF Levels
  <2> QED BY <2>2, <2>5 DEF MInv
<1> QED BY <1>2, <1>7, <1>8, MoveStep

LEMMA PushStep ==
    ASSUME rstack \in [0 .. 2 -> TaskType], ridx \in {0, 1}, NEW n \in Int,
           Obj("array") \in Int, PushTask(n)
    PROVE  /\ ridx' = ridx + 1 /\ rstack' \in [0 .. 2 -> TaskType]
           /\ rstack'[ridx].type = rstack[ridx].type /\ rstack'[ridx].elements = n
           /\ rstack'[ridx].obj = Obj("array")
           /\ rstack'[ridx].idx = rstack[ridx].idx /\ rstack'[ridx].parent = rstack[ridx].parent
           /\ rstack'[ridx + 1] = Task(0, ridx)
           /\ \A i \in 0 .. 2 : i # ridx /\ i # ridx + 1 => rstack'[i] = rstack[i]
<1> DEFINE obj == Obj("array")
<1>0. ridx' = ridx + 1 BY DEF PushTask
<1>9. obj \in Int OBVIOUS
<1> HIDE DEF obj
<1> DEFINE old == rstack[ridx]
           task == [old EXCEPT !.elements = n, !.obj = obj]
           st == [rstack EXCEPT ![ridx] = task, ![ridx + 1] = Task(0, ridx)]
<1>1. old \in TaskType OBVIOUS
<1>2. Task(0, ridx) \in TaskType BY DEF Task, TaskType
<1>3. rstack' = st BY DEF PushTask, obj
<1>4. /\ task \in TaskType /\ task.type = old.type /\ task.elements = n /\ task.obj = obj
      /\ task.idx = old.idx /\ task.parent = old.parent
  <2> HIDE DEF old
  <2> QED BY <1>1, <1>9 DEF TaskType
<1> HIDE DEF task
<1>5. ridx \in 0 .. 2 /\ ridx + 1 \in 0 .. 2 /\ ridx # ridx + 1 OBVIOUS
<1>6. st \in [0 .. 2 -> TaskType] BY <1>2, <1>4, <1>5
<1>7. /\ st[ridx] = task /\ st[ridx + 1] = Task(0, ridx)
      /\ \A i \in 0 .. 2 : i # ridx /\ i # ridx + 1 => st[i] = rstack[i]
  BY <1>2, <1>5
<1> HIDE DEF st
<1> QED BY <1>0, <1>3, <1>4, <1>6, <1>7 DEF obj

LEMMA ItemPushed ==
    ASSUME MInv, pc = "parsing", ridx \in {0, 1}, cur.type = "array", NEW n \in Nat, n > 0,
           Placed(Obj("array")), Steady, PushTask(n),
           fn # "NULL" => /\ Obj("array") = Len(heap') /\ Len(heap'[Len(heap')].elems) = n
                          /\ \A k \in 1 .. n : heap'[Len(heap')].elems[k] = 0
    PROVE  MInv'
<1> DEFINE obj == Obj("array")
<1>1. RType /\ Levels BY DEF MInv
<1>2. /\ rstack \in [0 .. 2 -> TaskType] /\ Len(heap) \in Nat /\ Len(heap') \in Nat
      /\ Len(heap) <= Len(heap')
      /\ \A i \in 0 .. 2 : rstack[i].parent \in -1 .. i - 1 /\ rstack[i].obj \in -5 .. Len(heap)
  BY <1>1, LenProperties DEF RType, Placed
<1>3. pc' = "parsing" /\ fn' = fn BY DEF Steady, Unmoved
<1>4. obj \in -5 .. Len(heap') BY DEF Placed
<1>5. ridx' = ridx + 1 BY DEF PushTask
<1>6. /\ rstack' \in [0 .. 2 -> TaskType]
      /\ rstack'[ridx].type = "array" /\ rstack'[ridx].elements = n /\ rstack'[ridx].obj = obj
      /\ rstack'[ridx].idx = rstack[ridx].idx /\ rstack'[ridx].parent = rstack[ridx].parent
      /\ rstack'[ridx + 1] = Task(0, ridx)
      /\ \A i \in 0 .. 2 : i # ridx /\ i # ridx + 1 => rstack'[i] = rstack[i]
  <2>1. n \in Int /\ Obj("array") \in Int BY <1>4
  <2> QED BY <1>2, <2>1, PushStep DEF cur
<1> HIDE DEF obj
<1>7. /\ rstack'[ridx + 1].parent = ridx /\ rstack'[ridx + 1].idx = 0
      /\ rstack'[ridx + 1].obj = 0
  BY <1>6 DEF Task
<1>8. RType' /\ Acyclic' /\ Kept'
  <2>1. ASSUME NEW i \in 0 .. 2
        PROVE  rstack'[i].parent \in -1 .. i - 1 /\ rstack'[i].obj \in -5 .. Len(heap')
    <3>1. CASE i = ridx BY <1>2, <1>4, <1>6, <3>1
    <3>2. CASE i = ridx + 1 BY <1>2, <1>7, <3>2
    <3>3. CASE i # ridx /\ i # ridx + 1 BY <1>2, <1>6, <3>3
    <3> QED BY <3>1, <3>2, <3>3
  <2>2. ridx \in 0 .. 2 /\ cur.type # "none" /\ ridx' \in -1 .. 2 BY <1>5
  <2> QED BY <1>6, <2>1, <2>2, ItemCommon
<1>9. fn # "NULL" => Filled(heap', obj, n, 0, 0)
  <2> SUFFICES ASSUME fn # "NULL" PROVE Filled(heap', Len(heap'), n, 0, 0) BY DEF obj
  <2>1. Len(heap') \in 1 .. Len(heap')
    <3>1. Len(heap') > 0 BY <1>2 DEF Obj, obj
    <3> QED BY <1>2, <3>1
  <2>2. 0 + 1 \in 1 .. n /\ \A k \in 0 + 2 .. n : k \in 1 .. n OBVIOUS
  <2> QED BY <2>1, <2>2 DEF Filled, obj
<1>10. fn = "NULL" => obj = Code("array") BY DEF obj, Obj
<1>11. ASSUME NEW i \in {0, 1}, i < ridx' PROVE Level(i)'
  <2>1. fn' = "default" => fn # "NULL" BY <1>3
  <2>2. CASE i = ridx
    <3>1. rstack'[i + 1].parent = i /\ rstack'[i + 1].idx = 0 /\ i + 1 = ridx' BY <1>5, <1>7, <2>2
    <3>2. rstack'[i].type = "array" /\ rstack'[i].elements = n /\ rstack'[i].obj = obj
      BY <1>6, <2>2
    <3> QED BY <1>3, <1>9, <1>10, <2>1, <3>1, <3>2 DEF Level
  <2>3. CASE i # ridx
    <3>1. i = 0 /\ ridx = 1 /\ ridx' = 2 BY <1>5, <1>11, <2>3
    <3>2. Level(0) BY <1>1, <3>1 DEF Levels
    <3>3. rstack'[0] = rstack[0] BY <1>6, <3>1
    <3>4. /\ rstack'[1].idx = rstack[1].idx /\ rstack'[1].parent = rstack[1].parent
          /\ rstack'[1].obj = obj
      BY <1>6, <3>1
    <3>5. fn # "NULL" => Filled(heap', rstack[0].obj, rstack[0].elements, rstack[1].idx, obj)
      <4>1. 0 \in {0, 1} /\ 0 < ridx /\ 0 + 1 = ridx BY <3>1
      <4> QED BY <4>1 DEF Placed, obj
    <3>6. 0 + 1 = 1 /\ 1 # ridx' BY <3>1
    <3>7. Level(0)' BY <1>3, <2>1, <3>2, <3>3, <3>4, <3>5, <3>6 DEF Level
    <3> QED BY <3>1, <3>7
  <2> QED BY <2>2, <2>3
<1>12. Levels'
  <2>1. reply' = rstack'[0].obj
    <3>1. CASE ridx = 0 BY <1>6, <3>1 DEF Placed, obj
    <3>2. CASE ridx = 1
      <4>1. reply = rstack[0].obj /\ reply' = reply BY <1>1, <3>2 DEF Levels, Placed
      <4> QED BY <1>6, <3>2, <4>1
    <3> QED BY <3>1, <3>2
  <2>2. rstack'[0].parent = -1
    <3>1. rstack[0].parent = -1 BY <1>1 DEF Levels
    <3>2. CASE ridx = 0 BY <1>6, <3>1, <3>2
    <3>3. CASE ridx = 1 BY <1>6, <3>1, <3>3
    <3> QED BY <3>2, <3>3
  <2>3. /\ fn' = "NULL" => reply' <= 0
        /\ fn' = "default" => reply' >= 0
    BY <1>3 DEF Placed
  <2> QED BY <1>3, <1>5, <1>11, <2>1, <2>2, <2>3 DEF Levels
<1> QED BY <1>8, <1>12 DEF MInv

-----------------------------------------------------------------------------
(***************************************************************************)
(* The steps.                                                              *)
(***************************************************************************)
LEMMA FunctionSets ==
    ASSUME MInv
    PROVE  fn \in {"default", "NULL"} /\ Stream(forest) \in Seq(CellType)
<1>1. forest \in Forests /\ fn \in Functions[forest] BY DEF MInv, RType
<1>2. Functions[forest] \in SUBSET {"default", "NULL"} BY <1>1, ReaderAssumption
<1> QED BY <1>1, <1>2, StreamType

LEMMA StreamStays == ASSUME UNCHANGED forest PROVE Stream(forest)' = Stream(forest)
BY DEF Stream

\* Steps that leave the objects and the stack alone.
LEMMA Untouched ==
    ASSUME MInv, UNCHANGED <<rstack, ridx, heapVars, reply, fn, error, given>>,
           pc' = pc \/ (pc = "idle" /\ pc' = "parsing" /\ ridx # -1)
    PROVE  Levels' /\ Acyclic' /\ Kept'
<1>1. heap' = heap /\ freed' = freed BY DEF heapVars
<1>2. Levels /\ Acyclic /\ Kept BY DEF MInv
<1>3. \A i \in {0, 1} : Level(i)' <=> Level(i) BY <1>1 DEF Level, Filled
<1>4. Levels' BY <1>2, <1>3 DEF Levels
<1>5. Acyclic' BY <1>1, <1>2 DEF Acyclic
<1>6. Below(reply)' = Below(reply) BY <1>1, HeapBelow
<1>7. Kept' BY <1>1, <1>2, <1>6 DEF Kept, Failed
<1> QED BY <1>4, <1>5, <1>7

LEMMA StepFeed == ASSUME MInv, Feed PROVE MInv'
<1>1. RType BY DEF MInv
<1>2. /\ UNCHANGED <<forest, fn, error, reply, pos, rstack, ridx, heap, freed,
                     emitted, given, result, pc>>
      /\ pc = "idle"
  BY DEF Feed, heapVars, callerVars
<1>3. Levels' /\ Acyclic' /\ Kept'
  <2>1. UNCHANGED <<rstack, ridx, heapVars, reply, fn, error, given>> /\ pc' = pc
    BY <1>2 DEF heapVars
  <2> QED BY <2>1, Untouched
<1>4. PICK n \in fed + 1 .. Len(Stream(forest)) :
         /\ buf' = buf \o SubSeq(Stream(forest), fed + 1, n)
         /\ len' = Len(buf') /\ fed' = n
  BY DEF Feed
<1>5. Stream(forest) \in Seq(CellType) /\ Len(Stream(forest)) \in Nat
  BY FunctionSets, LenProperties
<1>6. fed \in Nat /\ n \in 0 .. Len(Stream(forest))
  <2>1. fed \in 0 .. Len(Stream(forest)) BY <1>1 DEF RType
  <2> QED BY <1>5, <2>1
<1>7. SubSeq(Stream(forest), fed + 1, n) \in Seq(CellType)
  <2> DEFINE s == Stream(forest)
  <2> HIDE DEF s
  <2>1. s \in Seq(CellType) /\ fed + 1 \in 1 .. Len(s) + 1 /\ n \in 0 .. Len(s) BY <1>5, <1>6 DEF s
  <2>2. SubSeq(s, fed + 1, n) \in Seq(CellType) BY <1>6, <2>1
  <2> QED BY <2>2 DEF s
<1>8. buf' \in Seq(CellType) BY <1>1, <1>4, <1>7, ConcatProperties DEF RType
<1>9. len' \in Nat /\ pos' \in 0 .. len' /\ len' = Len(buf')
  <2>1. pos = 0 BY <1>1, <1>2 DEF RType
  <2> QED BY <1>2, <1>4, <1>8, <2>1, LenProperties
<1>10. fed' \in 0 .. Len(Stream(forest)) BY <1>4, <1>6
<1>11. RType'
  <2>1. Stream(forest)' = Stream(forest) BY <1>2, StreamStays
  <2> QED BY <1>1, <1>2, <1>8, <1>9, <1>10, <2>1 DEF RType
<1> QED BY <1>3, <1>11 DEF MInv

\* An object of a reply is there as soon as an array of it is being filled.
LEMMA NoReplyYet == ASSUME MInv, reply = 0 PROVE ~(ridx > 0)
<1> SUFFICES ASSUME ridx > 0 PROVE FALSE OBVIOUS
<1>0. 0 < ridx /\ 0 \in {0, 1} OBVIOUS
<1>1. Level(0) /\ rstack[0].obj = 0 BY <1>0 DEF MInv, Levels
<1>2. CASE fn = "NULL"
  <2>1. Code("array") = -2 BY DEF Code
  <2> QED BY <1>1, <1>2, <2>1 DEF Level
<1>3. CASE fn = "default"
  <2>1. rstack[0].obj \in 1 .. Len(heap) BY <1>1, <1>3 DEF Level, Filled
  <2> QED BY <1>1, <2>1
<1> QED BY <1>2, <1>3, FunctionSets

LEMMA StepSetFunctions == ASSUME MInv, SetFunctions PROVE MInv'
<1>1. RType /\ Levels /\ Acyclic /\ Kept BY DEF MInv
<1>2. /\ UNCHANGED <<forest, fed, error, reply, buf, pos, len, rstack, ridx, heap, freed,
                     emitted, given, result, pc>>
      /\ pc = "idle" /\ reply = 0 /\ fn' \in Functions[forest]
  BY DEF SetFunctions, readerVars, heapVars, callerVars
<1>3. Stream(forest)' = Stream(forest) BY <1>2, StreamStays
<1>4. RType'
  <2>1. Stale' = Stale BY <1>2 DEF Stale
  <2>2. fn' \in Functions[forest'] BY <1>2
  <2> QED BY <1>1, <1>2, <1>3, <2>1, <2>2 DEF RType
<1>5. ~(ridx > 0) BY <1>2, NoReplyYet
<1>6. Levels'
  <2>1. \A i \in {0, 1} : ~(i < ridx')
    <3>1. ridx \in -1 .. 2 BY <1>1 DEF RType
    <3> QED BY <1>2, <1>5, <3>1
  <2>2. ~(ridx' > 0) BY <1>2, <1>5
  <2> QED BY <1>1, <1>2, <2>1, <2>2 DEF Levels
<1>7. Acyclic' BY <1>1, <1>2 DEF Acyclic
<1>8. Below(reply)' = Below(reply) BY <1>2, HeapBelow
<1>9. Kept' BY <1>1, <1>2, <1>8 DEF Kept, Failed
<1> QED BY <1>4, <1>6, <1>7, <1>9 DEF MInv

\* What is below the reply are objects.
LEMMA BelowReply == ASSUME MInv PROVE Below(reply) \subseteq 1 .. Len(heap)
<1>1. heap \in Seq(ObjectType) /\ reply \in -5 .. Len(heap) /\ Acyclic BY DEF MInv, RType
<1>2. AcyclicIn(heap) /\ Below(reply) = BelowIn(heap, reply) BY <1>1, HeapBelow
<1>3. reply \in Int /\ reply <= Len(heap)
  <2>1. Len(heap) \in Nat BY <1>1, LenProperties
  <2> QED BY <1>1, <2>1
<1> QED BY <1>1, <1>2, <1>3, BelowType

LEMMA StepDestroy == ASSUME MInv, Destroy PROVE MInv'
<1>1. RType /\ Levels /\ Acyclic /\ Kept BY DEF MInv
<1>2. /\ UNCHANGED <<forest, fed, fn, error, reply, buf, pos, len, rstack, ridx, heap,
                     emitted, given, result>>
      /\ pc = "idle" /\ pc' = "destroyed"
      /\ freed' = freed \/ freed' = freed \cup Below(reply)
  BY DEF Destroy, FreeReply, readerVars, callerVars
<1>3. Stream(forest)' = Stream(forest) BY <1>2, StreamStays
<1>4. freed' \subseteq 1 .. Len(heap) BY <1>1, <1>2, BelowReply DEF RType
<1>5. RType'
  <2>1. Stale' = Stale BY <1>2 DEF Stale
  <2> QED BY <1>1, <1>2, <1>3, <1>4, <2>1 DEF RType
<1>6. \A i \in {0, 1} : Level(i)' <=> Level(i) BY <1>2 DEF Level, Filled
<1>7. Levels' BY <1>1, <1>2, <1>6 DEF Levels
<1>8. Acyclic' BY <1>1, <1>2 DEF Acyclic
<1>9. Kept'
  <2>1. Below(reply) \cap given = {} /\ freed \cap given = {} BY <1>1, <1>2 DEF Kept, Failed
  <2> QED BY <1>2, <2>1 DEF Kept
<1> QED BY <1>5, <1>7, <1>8, <1>9 DEF MInv

LEMMA StepGetReply == ASSUME MInv, GetReply PROVE MInv'
<1>1. RType /\ Levels /\ Acyclic /\ Kept BY DEF MInv
<1>2. /\ UNCHANGED <<forest, fed, fn, error, reply, buf, pos, len, heap, freed, emitted, given>>
      /\ pc = "idle"
  BY DEF GetReply, heapVars
<1>3. Stream(forest)' = Stream(forest) BY <1>2, StreamStays
<1>4. CASE len = 0
  <2>1. UNCHANGED <<rstack, ridx, pc>> /\ result' = "none" BY <1>4 DEF GetReply
  <2>2. RType' BY <1>1, <1>2, <1>3, <2>1 DEF RType, Stale
  <2>3. Levels' /\ Acyclic' /\ Kept' BY <1>2, <2>1, Untouched DEF heapVars
  <2> QED BY <2>2, <2>3 DEF MInv
<1>5. CASE len # 0 /\ ridx # -1
  <2>1. UNCHANGED <<rstack, ridx, result>> /\ pc' = "parsing" BY <1>5 DEF GetReply
  <2>2. RType' BY <1>1, <1>2, <1>3, <2>1 DEF RType, Stale
  <2>3. Levels' /\ Acyclic' /\ Kept' BY <1>2, <1>5, <2>1, Untouched DEF heapVars
  <2> QED BY <2>2, <2>3 DEF MInv
<1>6. CASE len # 0 /\ ridx = -1
  <2>1. /\ UNCHANGED result /\ pc' = "parsing" /\ ridx' = 0
        /\ rstack' = [rstack EXCEPT ![0] = Task(-1, -1)]
    BY <1>6 DEF GetReply
  <2>2. reply = 0 BY <1>1, <1>2, <1>6 DEF Levels
  <2>3. /\ Task(-1, -1) \in TaskType /\ Task(-1, -1).type = "none"
        /\ Task(-1, -1).obj = 0 /\ Task(-1, -1).parent = -1
    BY DEF Task, TaskType
  <2>4. /\ rstack' \in [0 .. 2 -> TaskType]
        /\ rstack'[0] = Task(-1, -1) /\ \A i \in 0 .. 2 : i # 0 => rstack'[i] = rstack[i]
    <3>1. rstack \in [0 .. 2 -> TaskType] BY <1>1 DEF RType
    <3> QED BY <2>1, <2>3, <3>1
  <2>5. \A i \in 0 .. 2 : /\ rstack'[i].parent \in -1 .. i - 1
                          /\ rstack'[i].obj \in -5 .. Len(heap')
    <3>1. Len(heap) \in Nat BY <1>1, LenProperties DEF RType
    <3>2. \A i \in 0 .. 2 : /\ rstack[i].parent \in -1 .. i - 1
                            /\ rstack[i].obj \in -5 .. Len(heap)
      BY <1>1 DEF RType
    <3> QED BY <1>2, <2>3, <2>4, <3>1, <3>2
  <2>6. len' = Len(buf') \/ Stale' BY <1>1, <1>2, <2>1, <2>3, <2>4 DEF RType, Stale
  <2>7. ridx' \in -1 .. 2 BY <2>1
  <2>8. RType' BY <1>1, <1>2, <1>3, <2>1, <2>4, <2>5, <2>6, <2>7 DEF RType
  <2>9. Levels'
    <3>1. rstack'[0].parent = -1 BY <2>3, <2>4
    <3>2. \A i \in {0, 1} : ~(i < ridx') BY <2>1
    <3> QED BY <1>2, <2>1, <2>2, <3>1, <3>2 DEF Levels
  <2>10. Acyclic' BY <1>1, <1>2 DEF Acyclic
  <2>11. Below(reply)' = Below(reply) BY <1>2, HeapBelow
  <2>12. Kept' BY <1>1, <1>2, <2>1, <2>11 DEF Kept, Failed
  <2> QED BY <2>8, <2>9, <2>10, <2>12 DEF MInv
<1> QED BY <1>4, <1>5, <1>6

AnyError == SetError("type byte") \/ SetError("depth")

LEMMA StepError ==
    ASSUME MInv, pc = "parsing", ridx \in 0 .. 2,
           AnyError,
           UNCHANGED <<reply, len, rstack, heap>>, Unmoved
    PROVE  MInv' /\ (error = "none" => 1 .. Len(heap') = given' \cup freed')
<1>1. RType /\ Levels /\ Acyclic /\ Kept BY DEF MInv
<1>2. /\ UNCHANGED <<forest, fed, fn, reply, len, rstack, heap, emitted, given, result>>
      /\ pos' = 0 /\ ridx' = -1
  BY DEF AnyError, SetError, Unmoved, callerVars
<1>13. error' # "none" BY DEF AnyError, SetError
<1>14. error' \in {"none", "type byte", "depth"} BY DEF AnyError, SetError
<1>12. buf' = <<>> BY DEF AnyError, SetError
<1>3. \/ pc' = "crashed" /\ freed' = freed /\ fn = "NULL"
      \/ pc' = pc /\ freed' = freed \cup Below(reply)
  BY DEF AnyError, SetError
<1>4. Stream(forest)' = Stream(forest) BY <1>2, StreamStays
<1>5. freed' \subseteq 1 .. Len(heap) BY <1>1, <1>3, BelowReply DEF RType
<1>6. RType'
  <2>1. buf' \in Seq(CellType) /\ pos' \in 0 .. len' /\ len' \in Nat /\ error' # "none"
    <3>1. <<>> \in Seq(CellType) OBVIOUS
    <3>2. len \in Nat BY <1>1 DEF RType
    <3> QED BY <1>2, <1>12, <1>13, <3>1, <3>2
  <2>2. Stale' BY <1>2, <1>12, <1>13, <2>1 DEF Stale
  <2>3. pc' \in {"parsing", "crashed"} BY <1>3
  <2>4. /\ forest' \in Forests /\ fed' \in 0 .. Len(Stream(forest)') /\ fn' \in Functions[forest']
    BY <1>1, <1>2, <1>4 DEF RType
  <2>5. /\ ridx' \in -1 .. 2 /\ rstack' \in [0 .. 2 -> TaskType]
        /\ \A i \in 0 .. 2 : /\ rstack'[i].parent \in -1 .. i - 1
                             /\ rstack'[i].obj \in -5 .. Len(heap')
        /\ heap' \in Seq(ObjectType) /\ reply' \in -5 .. Len(heap')
    <3>1. /\ rstack \in [0 .. 2 -> TaskType]
          /\ \A i \in 0 .. 2 : /\ rstack[i].parent \in -1 .. i - 1
                               /\ rstack[i].obj \in -5 .. Len(heap)
          /\ heap \in Seq(ObjectType) /\ reply \in -5 .. Len(heap)
      BY <1>1 DEF RType
    <3> QED BY <1>2, <3>1
  <2>6. freed' \subseteq 1 .. Len(heap') /\ given' \subseteq 1 .. Len(heap')
    BY <1>1, <1>2, <1>5 DEF RType
  <2>7. result' \in {"none", "reply", "error"} BY <1>1, <1>2 DEF RType
  <2>8. pc' \in {"idle", "parsing", "destroyed", "crashed"} /\ pc' # "idle" BY <2>3
  <2> QED BY <1>14, <2>1, <2>2, <2>4, <2>5, <2>6, <2>7, <2>8, Zenon DEF RType
<1>7. Levels'
  <2>1. \A i \in {0, 1} : ~(i < ridx') BY <1>2
  <2>2. ridx' # 0 /\ ~(ridx' > 0) /\ ~(ridx' >= 0) /\ pc' # "idle" BY <1>2, <1>3
  <2> QED BY <1>1, <1>2, <2>1, <2>2 DEF Levels
<1>8. Acyclic' BY <1>1, <1>2 DEF Acyclic
<1>9. Below(reply) \cap (freed \cup given) = {} /\ freed \cap given = {}
  BY <1>1 DEF Kept, Failed
<1>10. Kept'
  <2>1. error' # "none" BY <1>13
  <2>2. pc' \in {"idle", "parsing"} => Failed' BY <1>2, <1>3, <2>1 DEF Failed
  <2>3. freed' \cap given' = {} BY <1>2, <1>3, <1>9
  <2> QED BY <2>1, <2>2, <2>3 DEF Kept
<1>11. error = "none" => 1 .. Len(heap') = given' \cup freed'
  <2> SUFFICES ASSUME error = "none" PROVE 1 .. Len(heap) = given \cup freed' BY <1>2
  <2>1. 1 .. Len(heap) = given \cup Below(reply) /\ freed = {} BY <1>1 DEF Kept
  <2>2. fn = "NULL" => Below(reply) = {} BY <1>1 DEF Levels, Below
  <2> QED BY <1>3, <2>1, <2>2
<1> QED BY <1>6, <1>7, <1>8, <1>10, <1>11 DEF MInv

LEMMA StepReadType ==
    ASSUME MInv, ReadType
    PROVE  /\ MInv'
           /\ error = "none" /\ error' # "none" => 1 .. Len(heap') = given' \cup freed'
<1>1. RType /\ Levels /\ Acyclic /\ Kept BY DEF MInv
<1>2. pc = "parsing" /\ ridx \in 0 .. 2 /\ cur.type = "none" /\ pos + 1 <= len
  <2>1. ridx \in -1 .. 2 /\ pos \in 0 .. len /\ len \in Nat BY <1>1 DEF RType
  <2>2. pc = "parsing" /\ ridx >= 0 /\ cur.type = "none" /\ Has(1) BY DEF ReadType
  <2> QED BY <2>1, <2>2 DEF Has
<1>3. CASE SetError("type byte") /\ UNCHANGED rstack
  <2>1. UNCHANGED <<reply, len, rstack, heap>> /\ Unmoved BY <1>3 DEF ReadType
  <2> QED BY <1>2, <1>3, <2>1, StepError DEF AnyError
<1>4. ASSUME NEW type \in DOMAIN Byte \ {"bad"}, CellAt(pos + 1).k = Byte[type],
             rstack' = [rstack EXCEPT ![ridx].type = type], pos' = pos + 1,
             UNCHANGED <<error, buf, ridx, freed, pc>>
      PROVE  MInv' /\ error' = error
  <2>1. UNCHANGED <<forest, fed, fn, reply, len, heap, emitted, given, result>>
    BY DEF ReadType, Unmoved, callerVars
  <2>2. Stream(forest)' = Stream(forest) BY <2>1, StreamStays
  <2>3. type \in TreeTypes /\ type # "bad" /\ Byte[type] # "NUL" BY DEF Byte, TreeTypes
  <2>4. ~Stale
    <3> SUFFICES ASSUME Stale PROVE FALSE OBVIOUS
    <3>1. Len(buf) = 0 /\ pos = 0 BY DEF Stale
    <3>2. CellAt(pos + 1) = Cell("NUL", 0) BY <3>1 DEF CellAt
    <3> QED BY <1>4, <2>3, <3>2 DEF Cell
  <2>5. rstack \in [0 .. 2 -> TaskType] /\ rstack[ridx] \in TaskType BY <1>1, <1>2 DEF RType
  <2>6. /\ rstack' \in [0 .. 2 -> TaskType]
        /\ \A i \in 0 .. 2 : /\ rstack'[i].idx = rstack[i].idx /\ rstack'[i].parent = rstack[i].parent
                             /\ rstack'[i].obj = rstack[i].obj
                             /\ rstack'[i].elements = rstack[i].elements
        /\ \A i \in 0 .. 2 : i # ridx => rstack'[i] = rstack[i]
    <3> DEFINE old == rstack[ridx]
               task == [old EXCEPT !.type = type]
    <3>1. rstack' = [rstack EXCEPT ![ridx] = task] BY <1>4
    <3>2. /\ task \in TaskType /\ task.idx = old.idx /\ task.parent = old.parent
          /\ task.obj = old.obj /\ task.elements = old.elements
      <4> HIDE DEF old
      <4>1. old \in TaskType BY <2>5 DEF old
      <4> QED BY <2>3, <4>1 DEF TaskType
    <3> HIDE DEF task
    <3> QED BY <1>2, <2>5, <3>1, <3>2
  <2>7. RType'
    <3>1. len' = Len(buf') /\ pos' \in 0 .. len' /\ pc' # "idle"
      <4>1. len = Len(buf) /\ pos \in 0 .. len /\ len \in Nat BY <1>1, <2>4 DEF RType
      <4> QED BY <1>2, <1>4, <2>1, <4>1
    <3>2. \A i \in 0 .. 2 : /\ rstack'[i].parent \in -1 .. i - 1
                            /\ rstack'[i].obj \in -5 .. Len(heap')
      <4>1. \A i \in 0 .. 2 : /\ rstack[i].parent \in -1 .. i - 1
                              /\ rstack[i].obj \in -5 .. Len(heap)
        BY <1>1 DEF RType
      <4> QED BY <2>1, <2>6, <4>1
    <3> QED BY <1>1, <1>4, <2>1, <2>2, <2>6, <3>1, <3>2 DEF RType
  <2>8. ASSUME NEW i \in {0, 1}, i < ridx PROVE Level(i)'
    <3>1. Level(i) BY <1>1, <2>8 DEF Levels
    <3>2. rstack'[i] = rstack[i] /\ rstack'[i + 1].idx = rstack[i + 1].idx
          /\ rstack'[i + 1].parent = rstack[i + 1].parent /\ rstack'[i + 1].obj = rstack[i + 1].obj
      BY <2>6, <2>8
    <3> QED BY <1>4, <2>1, <3>1, <3>2 DEF Level, Filled
  <2>9. Levels'
    <3>1. rstack'[0].obj = rstack[0].obj /\ rstack'[0].parent = rstack[0].parent BY <2>6
    <3> QED BY <1>1, <1>4, <2>1, <2>8, <3>1 DEF Levels
  <2>10. Acyclic' BY <1>1, <2>1 DEF Acyclic
  <2>11. Below(reply)' = Below(reply) BY <2>1, HeapBelow
  <2>12. Kept' BY <1>1, <1>4, <2>1, <2>11 DEF Kept, Failed
  <2> QED BY <1>4, <2>7, <2>9, <2>10, <2>12 DEF MInv
<1> QED BY <1>3, <1>4 DEF ReadType

\* The cell at the cursor, of a reader that has one.
LEMMA CellThere ==
    ASSUME MInv, ridx \in 0 .. 2, cur.type # "none", NEW k \in 1 .. 2, Has(k)
    PROVE  CellAt(pos + k) \in CellType /\ pos + k \in 0 .. len /\ CellAt(pos + k) = buf[pos + k]
<1>1. RType BY DEF MInv
<1>2. ~Stale BY DEF Stale, cur
<1>3. len = Len(buf) /\ pos \in 0 .. len /\ len \in Nat /\ buf \in Seq(CellType)
  BY <1>1, <1>2 DEF RType
<1>4. pos + k \in 1 .. Len(buf) BY <1>3 DEF Has
<1> QED BY <1>3, <1>4, ElementOfSeq DEF CellAt

LEMMA StepLineItem == ASSUME MInv, LineItem PROVE MInv' /\ error' = error
<1>1. RType BY DEF MInv
<1>2. /\ pc = "parsing" /\ ridx \in 0 .. 2 /\ cur.type \in {"status", "error", "integer"}
      /\ Has(1) /\ pos' = pos + 1
  <2>1. ridx \in -1 .. 2 BY <1>1 DEF RType
  <2> QED BY <2>1 DEF LineItem
<1>3. cur.type # "none" /\ cur.type \in TreeTypes \ {"bad"} BY <1>2 DEF TreeTypes
<1>4. CellAt(pos + 1) \in CellType /\ pos + 1 \in 0 .. len BY <1>2, <1>3, CellThere
<1>5. CellAt(pos + 1).v \in Int BY <1>4 DEF CellType
<1>6. Create(cur.type, CellAt(pos + 1).v, 0) /\ SetReply(Obj(cur.type)) BY DEF LineItem
<1>7. Placed(Obj(cur.type)) BY <1>2, <1>3, <1>5, <1>6, CreatePlaces
<1>8. Steady /\ error' = error BY <1>2, <1>4 DEF LineItem, Steady
<1> QED BY <1>2, <1>3, <1>7, <1>8, ItemDone DEF LineItem

LEMMA StepBulkItem == ASSUME MInv, BulkItem PROVE MInv' /\ error' = error
<1>1. RType BY DEF MInv
<1>2. /\ pc = "parsing" /\ ridx \in 0 .. 2 /\ cur.type = "string"
      /\ Has(1) /\ Has(BulkLength) /\ pos' = pos + BulkLength
  <2>1. ridx \in -1 .. 2 BY <1>1 DEF RType
  <2> QED BY <2>1 DEF BulkItem
<1>3. BulkLength \in {1, 2} BY DEF BulkLength
<1>4. pos + BulkLength \in 0 .. len BY <1>2, <1>3, CellThere
<1>5. Steady /\ error' = error BY <1>2, <1>4 DEF BulkItem, Steady
<1>6. CASE CellAt(pos + 1).v < 0
  <2>1. Create("nil", 0, 0) /\ SetReply(Obj("nil")) BY <1>6 DEF BulkItem
  <2>2. "nil" \in TreeTypes \ {"bad"} /\ 0 \in Int /\ 0 \in Nat BY DEF TreeTypes
  <2>3. Placed(Obj("nil")) BY <1>2, <2>1, <2>2, CreatePlaces
  <2> QED BY <1>2, <1>5, <2>3, ItemDone DEF BulkItem
<1>7. CASE ~(CellAt(pos + 1).v < 0)
  <2>1. Create("string", CellAt(pos + 2).v, 0) /\ SetReply(Obj("string")) BY <1>7 DEF BulkItem
  <2>2. "string" \in TreeTypes \ {"bad"} /\ 0 \in Nat BY DEF TreeTypes
  <2>3. CellAt(pos + 2) \in CellType
    <3>1. Has(2) BY <1>2, <1>7 DEF BulkLength
    <3> QED BY <1>2, <3>1, CellThere
  <2>4. CellAt(pos + 2).v \in Int BY <2>3 DEF CellType
  <2>5. Placed(Obj("string")) BY <1>2, <2>1, <2>2, <2>4, CreatePlaces
  <2> QED BY <1>2, <1>5, <2>5, ItemDone DEF BulkItem
<1> QED BY <1>6, <1>7

LEMMA StepMultiBulkItem == ASSUME MInv, MultiBulkItem PROVE MInv' /\ error' = error
<1> DEFINE n == CellAt(pos + 1).v
<1>1. /\ pc = "parsing" /\ ridx \in {0, 1} /\ ridx \in 0 .. 2 /\ cur.type = "array" /\ Has(1)
      /\ cur.type # "none" /\ pos' = pos + 1
  BY DEF MultiBulkItem
<1>2. CellAt(pos + 1) \in CellType /\ pos + 1 \in 0 .. len BY <1>1, CellThere
<1>3. n \in Nat \cup {-1} BY <1>2 DEF CellType
<1>4. Steady /\ error' = error BY <1>1, <1>2 DEF MultiBulkItem, Steady
<1>5. "nil" \in TreeTypes \ {"bad"} /\ "array" \in TreeTypes \ {"bad"} BY DEF TreeTypes
<1>6. CASE n = -1
  <2>1. Create("nil", 1, 0) /\ SetReply(Obj("nil")) /\ MoveToNextTask(rstack)
    BY <1>6 DEF MultiBulkItem
  <2>2. 1 \in Int /\ 0 \in Nat OBVIOUS
  <2>3. Placed(Obj("nil")) BY <1>1, <1>5, <2>1, <2>2, CreatePlaces
  <2> QED BY <1>1, <1>4, <2>1, <2>3, ItemDone
<1>7. CASE n # -1
  <2>1. /\ Create("array", 0, n) /\ SetReply(Obj("array"))
        /\ IF n > 0 THEN PushTask(n) ELSE MoveToNextTask(rstack)
    BY <1>7 DEF MultiBulkItem
  <2>2. 0 \in Int /\ n \in Nat BY <1>3, <1>7
  <2> HIDE DEF n
  <2>3. /\ Placed(Obj("array"))
        /\ fn # "NULL" => /\ Obj("array") = Len(heap') /\ Len(heap'[Len(heap')].elems) = n
                          /\ \A k \in 1 .. n : heap'[Len(heap')].elems[k] = 0
    BY <1>1, <1>5, <2>1, <2>2, CreatePlaces
  <2>4. CASE n > 0
    <3>1. PushTask(n) BY <2>1, <2>4
    <3> QED BY <1>1, <1>4, <2>2, <2>3, <2>4, <3>1, ItemPushed
  <2>5. CASE ~(n > 0)
    <3>1. MoveToNextTask(rstack) BY <2>1, <2>5
    <3> QED BY <1>1, <1>4, <2>3, <3>1, ItemDone
  <2> QED BY <2>4, <2>5
<1> QED BY <1>6, <1>7

LEMMA StepTooDeep ==
    ASSUME MInv, TooDeep
    PROVE  MInv' /\ (error = "none" => 1 .. Len(heap') = given' \cup freed')
<1>1. /\ pc = "parsing" /\ ridx \in 0 .. 2 /\ SetError("depth")
      /\ UNCHANGED <<reply, len, rstack, heap>> /\ Unmoved
  BY DEF TooDeep
<1> QED BY <1>1, StepError DEF AnyError

LEMMA StepFinish == ASSUME MInv, Finish PROVE MInv' /\ error' = error
<1>1. RType /\ Levels /\ Acyclic /\ Kept BY DEF MInv
<1>2. /\ pc = "parsing" /\ pc' = "idle"
      /\ buf' = SubSeq(buf, pos + 1, Len(buf)) /\ pos' = 0
      /\ len' = IF pos > 0 THEN Len(buf) - pos ELSE len
      /\ UNCHANGED <<forest, fed, fn, error, rstack, ridx, heap, freed>>
      /\ IF ridx = -1 THEN Emit ELSE result' = "none" /\ UNCHANGED <<reply, emitted, given>>
  BY DEF Finish, DiscardConsumed, heapVars
<1>3. Stream(forest)' = Stream(forest) BY <1>2, StreamStays
<1>4. \/ reply' = 0 /\ given' = given /\ ridx = -1 /\ result' \in {"error", "none"}
         /\ (error # "none" \/ reply = 0)
      \/ reply' = 0 /\ given' = given \cup Below(reply) /\ ridx = -1 /\ result' = "reply"
         /\ error = "none"
      \/ reply' = reply /\ given' = given /\ ridx # -1 /\ result' = "none"
  BY <1>2 DEF Emit
<1>5. buf \in Seq(CellType) /\ Len(buf) \in Nat /\ pos \in 0 .. len /\ len \in Nat
      /\ (len = Len(buf) \/ Stale)
  BY <1>1, LenProperties DEF RType
<1>6. buf' \in Seq(CellType) /\ len' \in Nat /\ (len' = Len(buf') \/ Stale')
  <2>1. CASE len = Len(buf)
    <3>1. pos + 1 \in 1 .. Len(buf) + 1 /\ Len(buf) \in 0 .. Len(buf) BY <1>5, <2>1
    <3>2. buf' \in Seq(CellType) /\ Len(buf') = Len(buf) - pos
      BY <1>2, <1>5, <2>1, <3>1
    <3> QED BY <1>2, <1>5, <2>1, <3>2
  <2>2. CASE Stale
    <3>1. buf = <<>> /\ pos = 0 BY <2>2 DEF Stale
    <3>2. buf' = <<>> BY <1>2, <3>1
    <3>3. len' = len BY <1>2, <3>1
    <3> QED BY <1>2, <1>5, <2>2, <3>2, <3>3 DEF Stale
  <2> QED BY <1>5, <2>1, <2>2
<1>7. given' \subseteq 1 .. Len(heap) BY <1>1, <1>4, BelowReply DEF RType
<1>8. RType'
  <2>1. reply' \in -5 .. Len(heap') /\ result' \in {"none", "reply", "error"}
    <3>1. Len(heap) \in Nat /\ reply \in -5 .. Len(heap) BY <1>1, LenProperties DEF RType
    <3> QED BY <1>2, <1>4, <3>1
  <2>2. pos' \in 0 .. len' BY <1>2, <1>6
  <2> QED BY <1>1, <1>2, <1>3, <1>6, <1>7, <2>1, <2>2 DEF RType
<1>9. \A i \in {0, 1} : Level(i)' <=> Level(i) BY <1>2 DEF Level, Filled
<1>10. Levels' BY <1>1, <1>2, <1>4, <1>9 DEF Levels
<1>11. Acyclic' BY <1>1, <1>2 DEF Acyclic
<1>12. \A o : Below(o)' = Below(o) BY <1>2, HeapBelow
<1>13. Below(0) = {} BY DEF Below
<1>14. Below(reply)' = BelowIn(heap, reply') BY <1>2, HeapBelow
<1>15. Kept'
  <2>0. BelowIn(heap, 0) = {} /\ BelowIn(heap, reply) = Below(reply)
    <3>1. BelowIn(heap, 0) = {} BY DEF BelowIn
    <3> QED BY <3>1, HeapBelow
  <2>1. CASE reply' = 0 /\ given' = given /\ (error # "none" \/ reply = 0)
    <3>1. Below(reply)' = {} BY <1>14, <2>0, <2>1
    <3>2. reply = 0 => Below(reply) = {} BY DEF Below
    <3> QED BY <1>1, <1>2, <2>1, <3>1, <3>2 DEF Kept
  <2>2. CASE reply' = 0 /\ given' = given \cup Below(reply) /\ error = "none"
    <3>1. Below(reply)' = {} BY <1>14, <2>0, <2>2
    <3>2. freed = {} /\ 1 .. Len(heap) = given \cup Below(reply) BY <1>1, <1>2, <2>2 DEF Kept
    <3> QED BY <1>2, <2>2, <3>1, <3>2 DEF Kept
  <2>3. CASE reply' = reply /\ given' = given /\ ridx # -1
    <3>1. Below(reply)' = Below(reply) BY <1>14, <2>0, <2>3
    <3> QED BY <1>1, <1>2, <2>3, <3>1 DEF Kept, Failed
  <2> QED BY <1>4, <2>1, <2>2, <2>3
<1> QED BY <1>2, <1>8, <1>10, <1>11, <1>15 DEF MInv

-----------------------------------------------------------------------------
(***************************************************************************)
(* The theorems.                                                           *)
(***************************************************************************)
LEMMA InitMInv == Init => MInv
<1> SUFFICES ASSUME Init PROVE MInv OBVIOUS
<1>1. /\ forest \in Forests /\ fed = 0 /\ fn \in Functions[forest]
      /\ error = "none" /\ reply = 0 /\ buf = <<>> /\ pos = 0 /\ len = 0
      /\ rstack = [i \in 0 .. 2 |-> Task(0, -1)] /\ ridx = -1
      /\ heap = <<>> /\ freed = {} /\ given = {} /\ result = "none" /\ pc = "idle"
  BY DEF Init
<1>2. Len(Stream(forest)) \in Nat BY <1>1, StreamType, LenProperties
<1>3. /\ Task(0, -1) \in TaskType /\ Task(0, -1).parent = -1 /\ Task(0, -1).obj = 0
  BY DEF Task, TaskType
<1>4. Len(heap) = 0 /\ heap \in Seq(ObjectType) /\ buf \in Seq(CellType) /\ Len(buf) = 0 BY <1>1
<1>5. \A i \in 0 .. 2 : rstack[i] = Task(0, -1) BY <1>1
<1>6. rstack \in [0 .. 2 -> TaskType] BY <1>1, <1>3
<1>7. \A i \in 0 .. 2 : rstack[i].parent \in -1 .. i - 1 /\ rstack[i].obj \in -5 .. Len(heap)
  BY <1>3, <1>4, <1>5
<1>8. RType
  <2>1. fed \in 0 .. Len(Stream(forest)) BY <1>1, <1>2
  <2>2. len \in Nat /\ pos \in 0 .. len /\ len = Len(buf) /\ reply \in -5 .. Len(heap)
        /\ ridx \in -1 .. 2
    BY <1>1, <1>4
  <2>3. freed \subseteq 1 .. Len(heap) /\ given \subseteq 1 .. Len(heap) BY <1>1
  <2> QED BY <1>1, <1>4, <1>6, <1>7, <2>1, <2>2, <2>3 DEF RType
<1>9. Levels
  <2>1. \A i \in {0, 1} : ~(i < ridx) BY <1>1
  <2>2. ridx # 0 /\ ~(ridx > 0) /\ ~(ridx >= 0) /\ reply <= 0 /\ reply >= 0 BY <1>1
  <2> QED BY <1>1, <2>1, <2>2 DEF Levels
<1>10. Acyclic BY <1>4 DEF Acyclic
<1>11. Kept
  <2>1. Below(reply) = {} BY <1>1 DEF Below
  <2>2. 1 .. Len(heap) = {} BY <1>4
  <2> QED BY <1>1, <2>1, <2>2 DEF Kept
<1> QED BY <1>8, <1>9, <1>10, <1>11 DEF MInv

LEMMA StepMInv == MInv /\ [Next]_vars => MInv'
<1> SUFFICES ASSUME MInv, [Next]_vars PROVE MInv' OBVIOUS
<1>1. CASE UNCHANGED vars
  <2>1. UNCHANGED <<forest, fed, fn, error, reply, buf, pos, len, rstack, ridx, heap, freed,
                    emitted, given, result, pc>>
    BY <1>1 DEF vars, readerVars, heapVars, callerVars
  <2>2. Levels' /\ Acyclic' /\ Kept' BY <2>1, Untouched DEF heapVars
  <2>3. RType
    BY DEF MInv
  <2>4. Stale' = Stale BY <2>1 DEF Stale
  <2>5. Stream(forest)' = Stream(forest) BY <2>1, StreamStays
  <2>6. RType' BY <2>1, <2>3, <2>4, <2>5 DEF RType
  <2> QED BY <2>2, <2>6 DEF MInv
<1>2. CASE Feed BY <1>2, StepFeed
<1>3. CASE SetFunctions BY <1>3, StepSetFunctions
<1>4. CASE Destroy BY <1>4, StepDestroy
<1>5. CASE GetReply BY <1>5, StepGetReply
<1>6. CASE ReadType BY <1>6, StepReadType
<1>7. CASE LineItem BY <1>7, StepLineItem
<1>8. CASE BulkItem BY <1>8, StepBulkItem
<1>9. CASE MultiBulkItem BY <1>9, StepMultiBulkItem
<1>10. CASE TooDeep BY <1>10, StepTooDeep
<1>11. CASE Finish BY <1>11, StepFinish
<1> QED
  BY <1>1, <1>2, <1>3, <1>4, <1>5, <1>6, <1>7, <1>8, <1>9, <1>10, <1>11 DEF Next

LEMMA SpecMInv == Spec => []MInv
BY InitMInv, StepMInv, PTL DEF Spec

\* Whatever the server sends, and in whatever pieces it arrives, the reader's
\* cursor stays in its buffer and its stack names objects there are.
THEOREM TypeCorrect == Spec => []TypeOK
<1>1. MInv => TypeOK
  <2> SUFFICES ASSUME MInv PROVE TypeOK OBVIOUS
  <2>1. RType BY DEF MInv
  <2>2. Len(buf) <= len
    <3>1. buf \in Seq(CellType) /\ len \in Nat /\ (len = Len(buf) \/ buf = <<>>)
      BY <2>1 DEF RType, Stale
    <3>2. Len(buf) \in Nat BY <3>1, LenProperties
    <3> QED BY <3>1, <3>2
  <2> QED BY <2>1, <2>2 DEF RType, TypeOK
<1> QED BY <1>1, SpecMInv, PTL

\* Until the reader meets an error or is destroyed, every object it created is
\* in the reply under construction or in one that was handed out.  At all times
\* nothing that was handed out is freed, and between calls nothing the reader
\* still names was freed or handed out, so that nothing is freed twice.
THEOREM ObjectsKept == Spec => []NothingLost
<1>1. MInv => NothingLost BY DEF MInv, Kept, Failed, NothingLost
<1> QED BY <1>1, SpecMInv, PTL

\* An error gives up whatever had been built of the reply it was met in.
THEOREM ErrorFrees == Spec => ErrorFreesAll
<1>1. MInv /\ [Next]_vars => [error = "none" /\ error' # "none" =>
                                 1 .. Len(heap') = given' \cup freed']_vars
  <2> SUFFICES ASSUME MInv, Next, error = "none", error' # "none"
               PROVE  1 .. Len(heap') = given' \cup freed'
    OBVIOUS
  <2>1. Feed \/ SetFunctions \/ Destroy \/ GetReply => error' = error
    BY DEF Feed, SetFunctions, Destroy, GetReply, readerVars
  <2>2. CASE ReadType BY <2>2, StepReadType
  <2>3. CASE TooDeep BY <2>3, StepTooDeep
  <2>4. LineItem \/ BulkItem \/ MultiBulkItem \/ Finish => error' = error
    BY StepLineItem, StepBulkItem, StepMultiBulkItem, StepFinish
  <2> QED BY <2>1, <2>2, <2>3, <2>4 DEF Next
<1> QED BY <1>1, SpecMInv, PTL DEF Spec, ErrorFreesAll

\* Once it has met an error the reader hands nothing out, however much more of
\* the stream it is fed, and never clears the error.
THEOREM ErrorLasts == Spec => ErrorIsFinal
<1>1. [Next]_vars => [error # "none" => error' # "none" /\ UNCHANGED <<emitted, given>>]_vars
  <2> SUFFICES ASSUME Next, error # "none"
               PROVE  error' # "none" /\ UNCHANGED <<emitted, given>>
    OBVIOUS
  <2>1. Feed \/ SetFunctions \/ Destroy => UNCHANGED <<error, emitted, given>>
    BY DEF Feed, SetFunctions, Destroy, callerVars, readerVars
  <2>2. GetReply => UNCHANGED <<error, emitted, given>> BY DEF GetReply
  <2>3. ReadType \/ TooDeep => error' # "none" /\ UNCHANGED <<emitted, given>>
    BY DEF ReadType, TooDeep, SetError, Unmoved, callerVars
  <2>4. LineItem \/ BulkItem \/ MultiBulkItem => UNCHANGED <<error, emitted, given>>
    BY DEF LineItem, BulkItem, MultiBulkItem, Unmoved, callerVars
  <2>5. Finish => UNCHANGED <<error, emitted, given>> BY DEF Finish, Emit
  <2> QED BY <2>1, <2>2, <2>3, <2>4, <2>5 DEF Next
<1> QED BY <1>1, PTL DEF Spec, ErrorIsFinal
=============================================================================
