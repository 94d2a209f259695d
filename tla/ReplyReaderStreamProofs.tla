----------------------- MODULE ReplyReaderStreamProofs ----------------------
(***************************************************************************)
(* Proofs that ReplyReader hands out the replies that were sent, as soon   *)
(* as they are whole, whatever pieces the stream arrives in.               *)
(***************************************************************************)
EXTENDS ReplyReaderProofs

-----------------------------------------------------------------------------
(***************************************************************************)
(* Where the encoding of a reply lies in a stream.                         *)
(***************************************************************************)
LEMMA OwnCells ==
    ASSUME NEW t \in Trees
    PROVE  /\ t.type # "bad" => Len(Own(t)) >= 2 /\ Own(t)[1].k = Byte[Kind(t)]
           /\ t.type = "bad" => Own(t)[1].k = "@"
           /\ t.type \in {"status", "error", "integer"} => Len(Own(t)) = 2 /\ Own(t)[2].v = t.v
           /\ t.type = "string" => /\ Len(Own(t)) = 3 /\ Own(t)[2].v = 1
                                   /\ Own(t)[3].v = t.v
           /\ t.type = "nil" => Len(Own(t)) = 2 /\ Own(t)[2].v = -1
           /\ t.type = "array" => Len(Own(t)) = 2 /\ Own(t)[2].v = Len(t.elems)
<1>0. t.type \in TreeTypes BY TreeType
<1>1. CASE t.type \in {"status", "error", "integer"}
  <2>1. Own(t) = <<Cell(Byte[t.type], 0), Cell("line", t.v)>> BY <1>1 DEF Own
  <2>2. Kind(t) = t.type BY <1>1 DEF Kind
  <2>3. /\ Len(Own(t)) = 2 /\ Own(t)[1] = Cell(Byte[t.type], 0) /\ Own(t)[2] = Cell("line", t.v)
    BY <2>1
  <2> QED BY <1>1, <2>2, <2>3 DEF Cell
<1>2. CASE t.type = "string"
  <2>1. Own(t) = <<Cell("$", 0), Cell("line", 1), Cell("body", t.v)>> BY <1>2 DEF Own
  <2>2. Byte[Kind(t)] = "$" BY <1>2 DEF Kind, Byte
  <2>3. /\ Len(Own(t)) = 3 /\ Own(t)[1] = Cell("$", 0) /\ Own(t)[2] = Cell("line", 1)
        /\ Own(t)[3] = Cell("body", t.v)
    BY <2>1
  <2> QED BY <1>2, <2>2, <2>3 DEF Cell
<1>3. CASE t.type = "nil"
  <2>1. Own(t) = <<Cell(IF t.v = 0 THEN "$" ELSE "*", 0), Cell("line", -1)>> BY <1>3 DEF Own
  <2>2. Byte[Kind(t)] = IF t.v = 0 THEN "$" ELSE "*" BY <1>3 DEF Kind, Byte
  <2>3. /\ Len(Own(t)) = 2 /\ Own(t)[1] = Cell(IF t.v = 0 THEN "$" ELSE "*", 0)
        /\ Own(t)[2] = Cell("line", -1)
    BY <2>1
  <2> QED BY <1>3, <2>2, <2>3 DEF Cell
<1>4. CASE t.type = "array"
  <2>1. Own(t) = <<Cell("*", 0), Cell("line", Len(t.elems))>> BY <1>4 DEF Own
  <2>2. Byte[Kind(t)] = "*" BY <1>4 DEF Kind, Byte
  <2>3. /\ Len(Own(t)) = 2 /\ Own(t)[1] = Cell("*", 0) /\ Own(t)[2] = Cell("line", Len(t.elems))
    BY <2>1
  <2> QED BY <1>4, <2>2, <2>3 DEF Cell
<1>5. CASE t.type = "bad"
  <2>1. Own(t) = <<Cell("@", 0)>> BY <1>5 DEF Own
  <2> QED BY <1>5, <2>1 DEF Cell
<1> QED BY <1>0, <1>1, <1>2, <1>3, <1>4, <1>5 DEF TreeTypes

Lies(s, t, b) ==
    /\ b \in Nat /\ b + Len(Encode[t]) <= Len(s)
    /\ \A p \in 1 .. Len(Encode[t]) : s[b + p] = Encode[t][p]

LEMMA EncodeLength ==
    ASSUME NEW t \in Trees
    PROVE  /\ Encodings(t.elems) \in Seq(Seq(CellType))
           /\ Len(Encodings(t.elems)) = Len(t.elems) /\ Len(t.elems) \in Nat
           /\ Encode[t] = Own(t) \o FlattenSeq(Encodings(t.elems))
           /\ FlattenSeq(Encodings(t.elems)) \in Seq(CellType)
           /\ Len(Encode[t]) = Len(Own(t)) + Off(Encodings(t.elems), Len(t.elems))
           /\ Off(Encodings(t.elems), Len(t.elems)) \in Nat
           /\ t.elems = <<>> => Len(Encode[t]) = Len(Own(t))
           /\ Len(Encode[t]) \in Nat
<1>1. t.elems \in Seq(Trees) /\ Len(t.elems) \in Nat BY TreeType
<1>2. Encodings(t.elems) \in Seq(Seq(CellType)) /\ Len(Encodings(t.elems)) = Len(t.elems)
  BY <1>1, EncodeType
<1>3. Encode[t] = Own(t) \o FlattenSeq(Encodings(t.elems)) BY EncodeUnfolds DEF Encodings
<1>4. FlattenSeq(Encodings(t.elems)) \in Seq(CellType)
      /\ Len(FlattenSeq(Encodings(t.elems))) = Off(Encodings(t.elems), Len(t.elems))
  BY <1>2, FlattenIsFlatTo, FlattenLength
<1>5. Own(t) \in Seq(CellType) /\ Len(Own(t)) \in Nat BY OwnType
<1>6. Len(Encode[t]) = Len(Own(t)) + Off(Encodings(t.elems), Len(t.elems))
  BY <1>3, <1>4, <1>5, ConcatProperties
<1>7. Off(Encodings(t.elems), Len(t.elems)) \in Nat BY <1>4, LenProperties
<1>8. t.elems = <<>> => Off(Encodings(t.elems), Len(t.elems)) = 0
  <2>1. Len(<<>>) = 0 OBVIOUS
  <2> QED BY <2>1 DEF Off, FlatTo
<1> QED BY <1>1, <1>2, <1>3, <1>4, <1>5, <1>6, <1>7, <1>8

\* The cells of the reply itself.
LEMMA LiesOwn ==
    ASSUME NEW s \in Seq(CellType), NEW t \in Trees, NEW b, Lies(s, t, b)
    PROVE  /\ b \in Nat /\ b + Len(Own(t)) <= b + Len(Encode[t])
           /\ b + Len(Encode[t]) <= Len(s)
           /\ \A p \in 1 .. Len(Own(t)) : s[b + p] = Own(t)[p]
<1>1. /\ Encode[t] = Own(t) \o FlattenSeq(Encodings(t.elems))
      /\ FlattenSeq(Encodings(t.elems)) \in Seq(CellType)
      /\ Len(Encode[t]) = Len(Own(t)) + Off(Encodings(t.elems), Len(t.elems))
      /\ Off(Encodings(t.elems), Len(t.elems)) \in Nat
  BY EncodeLength
<1>2. Own(t) \in Seq(CellType) /\ Len(Own(t)) \in Nat BY OwnType
<1>3. \A p \in 1 .. Len(Own(t)) : Encode[t][p] = Own(t)[p] /\ p \in 1 .. Len(Encode[t])
  <2> HIDE DEF Off
  <2>1. \A p \in 1 .. Len(Own(t)) :
           (Own(t) \o FlattenSeq(Encodings(t.elems)))[p] = Own(t)[p]
    BY <1>1, <1>2, ConcatProperties
  <2> QED BY <1>1, <1>2, <2>1
<1> QED BY <1>1, <1>2, <1>3 DEF Lies

\* The encodings of the elements follow those of their array's own cells.
LEMMA LiesElem ==
    ASSUME NEW s \in Seq(CellType), NEW t \in Trees, NEW b, Lies(s, t, b),
           t.type = "array", NEW k \in 1 .. Len(t.elems)
    PROVE  /\ Lies(s, t.elems[k], b + 2 + Off(Encodings(t.elems), k - 1))
           /\ t.elems[k] \in Trees
           /\ b + 2 + Off(Encodings(t.elems), k - 1) + Len(Encode[t.elems[k]])
                = b + 2 + Off(Encodings(t.elems), k)
           /\ b + 2 + Off(Encodings(t.elems), k) <= b + Len(Encode[t])
           /\ b + 2 + Off(Encodings(t.elems), Len(t.elems)) = b + Len(Encode[t])
           /\ Off(Encodings(t.elems), 0) = 0
<1> DEFINE E == Encodings(t.elems)
           x == t.elems[k]
           a == Off(E, k - 1)
<1>1. /\ E \in Seq(Seq(CellType)) /\ Len(E) = Len(t.elems) /\ Len(t.elems) \in Nat
      /\ Encode[t] = Own(t) \o FlattenSeq(E)
      /\ FlattenSeq(E) \in Seq(CellType)
      /\ Len(Encode[t]) = Len(Own(t)) + Off(E, Len(t.elems)) /\ Off(E, Len(t.elems)) \in Nat
  BY EncodeLength
<1>2. Len(Own(t)) = 2 /\ Own(t) \in Seq(CellType) BY OwnCells, OwnType
<1>3. DOMAIN t.elems = 1 .. Len(t.elems) /\ x \in Trees BY TreeType
<1>4. E[k] = Encode[x] BY <1>3 DEF Encodings
<1>5. Off(E, 0) = 0
  <2>1. Len(<<>>) = 0 OBVIOUS
  <2> QED BY <2>1 DEF Off, FlatTo
<1>6. Len(FlattenSeq(E)) = Off(E, Len(t.elems)) BY <1>1, FlattenLength
<1> HIDE DEF E
<1>7. /\ a \in Nat /\ Len(E[k]) \in Nat /\ Off(E, k) = a + Len(E[k])
      /\ Off(E, k) <= Len(FlattenSeq(E))
      /\ \A p \in 1 .. Len(E[k]) : FlattenSeq(E)[a + p] = E[k][p]
  BY <1>1, FlattenPart
<1> HIDE DEF a, x
<1>8. b \in Nat /\ b + Len(Encode[t]) <= Len(s)
      /\ \A p \in 1 .. Len(Encode[t]) : s[b + p] = Encode[t][p]
  BY DEF Lies
<1>9. Len(s) \in Nat BY LenProperties
<1>10. ASSUME NEW p \in 1 .. Len(Encode[x]) PROVE s[b + 2 + a + p] = Encode[x][p]
  <2>1. p \in 1 .. Len(E[k]) BY <1>4
  <2>2. a + p \in 1 .. Len(FlattenSeq(E)) BY <1>7, <1>6, <1>1, <2>1
  <2>3. 2 + (a + p) \in 1 .. Len(Encode[t]) BY <1>1, <1>2, <1>6, <2>2
  <2>4. Encode[t][2 + (a + p)] = FlattenSeq(E)[a + p]
    <3> DEFINE q == 2 + (a + p)
               c == a + p
               o == Own(t)
               g == FlattenSeq(E)
    <3>1. q - Len(o) = c /\ ~(q <= Len(o)) /\ q \in 1 .. Len(o) + Len(g)
          /\ o \in Seq(CellType) /\ g \in Seq(CellType)
      BY <1>1, <1>2, <1>6, <1>7, <2>1, <2>2
    <3> HIDE DEF q, c, o, g
    <3>2. (o \o g)[q] = g[c] BY <3>1, ConcatProperties
    <3> QED BY <1>1, <3>2 DEF q, c, o, g
  <2>5. s[b + (2 + (a + p))] = Encode[t][2 + (a + p)] BY <1>8, <2>3
  <2>6. b + (2 + (a + p)) = b + 2 + a + p BY <1>7, <1>8, <2>1
  <2> QED BY <1>4, <1>7, <2>1, <2>4, <2>5, <2>6
<1>11. b + 2 + a \in Nat /\ b + 2 + a + Len(Encode[x]) = b + 2 + Off(E, k)
       /\ b + 2 + Off(E, k) <= b + Len(Encode[t])
       /\ b + 2 + Off(E, Len(t.elems)) = b + Len(Encode[t])
       /\ b + 2 + a + Len(Encode[x]) <= Len(s)
  <2> DEFINE ok == Off(E, k)
             on == Off(E, Len(t.elems))
             lt == Len(Encode[t])
             lx == Len(Encode[x])
  <2>1. /\ a \in Nat /\ lx \in Nat /\ ok = a + lx /\ ok <= on /\ on \in Nat /\ lt = 2 + on
        /\ b \in Nat /\ b + lt <= Len(s)
    BY <1>1, <1>2, <1>4, <1>6, <1>7, <1>8
  <2> HIDE DEF ok, on, lt, lx
  <2>2. /\ b + 2 + a \in Nat /\ b + 2 + a + lx = b + 2 + ok /\ b + 2 + ok <= b + lt
        /\ b + 2 + on = b + lt /\ b + 2 + a + lx <= Len(s)
    BY <1>9, <2>1
  <2> QED BY <2>2 DEF ok, on, lt, lx
<1>12. Lies(s, x, b + 2 + a) BY <1>10, <1>11 DEF Lies
<1> QED BY <1>3, <1>5, <1>11, <1>12 DEF a, x, E

\* The replies of a forest, one after another.
LEMMA LiesRoot ==
    ASSUME NEW f \in Forests, NEW k \in 1 .. Len(f)
    PROVE  /\ f[k] \in Trees /\ Lies(Stream(f), f[k], Off(Encodings(f), k - 1))
           /\ Off(Encodings(f), k - 1) + Len(Encode[f[k]]) = Off(Encodings(f), k)
           /\ Off(Encodings(f), k) <= Len(Stream(f))
<1>1. f \in Seq(Trees) BY ReaderAssumption
<1>2. Encodings(f) \in Seq(Seq(CellType)) /\ Len(Encodings(f)) = Len(f)
      /\ Stream(f) = FlattenSeq(Encodings(f))
  BY <1>1, EncodeType, StreamType
<1>3. f[k] \in Trees /\ Encodings(f)[k] = Encode[f[k]]
  <2>1. DOMAIN f = 1 .. Len(f) BY <1>1, LenProperties
  <2> QED BY <1>1, <2>1, ElementOfSeq DEF Encodings
<1> DEFINE E == Encodings(f)
<1> HIDE DEF E
<1>4. /\ Off(E, k - 1) \in Nat /\ Len(E[k]) \in Nat
      /\ Off(E, k) = Off(E, k - 1) + Len(E[k])
      /\ Off(E, k) <= Len(FlattenSeq(E))
      /\ \A p \in 1 .. Len(E[k]) : FlattenSeq(E)[Off(E, k - 1) + p] = E[k][p]
  BY SMTT(30), <1>2, FlattenPart DEF E
<1> QED BY <1>2, <1>3, <1>4 DEF Lies, E

LEMMA SameOff ==
    ASSUME NEW A \in Seq(Seq(CellType)), NEW B \in Seq(Seq(CellType)), NEW n \in Nat,
           n <= Len(A), n <= Len(B), \A i \in 1 .. n : A[i] = B[i]
    PROVE  Off(A, n) = Off(B, n)
<1> DEFINE T == {m \in Nat : m <= n /\ Off(A, m) # Off(B, m)}
<1>0. Len(A) \in Nat /\ Len(B) \in Nat BY LenProperties
<1>1. ASSUME T # {} PROVE FALSE
  <2>1. PICK m \in T : \A y \in T : m <= y BY <1>1, Least
  <2>2. m # 0
    <3>1. Off(A, 0) = Off(B, 0) BY DEF Off, FlatTo
    <3> QED BY <2>1, <3>1
  <2>3. m \in 1 .. n /\ m - 1 \in Nat /\ m - 1 \notin T BY <2>1, <2>2
  <2>4. Off(A, m - 1) = Off(B, m - 1) BY <2>3
  <2>5. m \in 0 .. Len(A) /\ m \in 0 .. Len(B) /\ m > 0 BY <1>0, <2>3
  <2>6. Off(A, m) = Off(A, m - 1) + Len(A[m]) /\ Off(B, m) = Off(B, m - 1) + Len(B[m])
    BY <2>5, FlatToType
  <2> QED BY <2>1, <2>3, <2>4, <2>6
<1> QED BY <1>1

LEMMA PrefixLength ==
    ASSUME NEW f \in Forests, NEW n \in 0 .. Len(f)
    PROVE  Len(Stream(SubSeq(f, 1, n))) = Off(Encodings(f), n)
<1>1. f \in Seq(Trees) /\ Len(f) \in Nat BY ReaderAssumption, LenProperties
<1> DEFINE g == SubSeq(f, 1, n)
<1>2. g \in Seq(Trees) /\ Len(g) = n /\ \A i \in 1 .. n : g[i] = f[i]
  BY <1>1, SubSeqProperties
<1> HIDE DEF g
<1>3. /\ Encodings(g) \in Seq(Seq(CellType)) /\ Len(Encodings(g)) = n
      /\ Encodings(f) \in Seq(Seq(CellType)) /\ Len(Encodings(f)) = Len(f)
  BY <1>1, <1>2, EncodeType
<1>4. \A i \in 1 .. n : Encodings(g)[i] = Encodings(f)[i]
  <2>1. DOMAIN g = 1 .. n /\ DOMAIN f = 1 .. Len(f) BY <1>1, <1>2, LenProperties
  <2> QED BY <1>1, <1>2, <2>1 DEF Encodings
<1>5. Off(Encodings(g), n) = Off(Encodings(f), n)
  <2> DEFINE A == Encodings(g)
             B == Encodings(f)
  <2>1. n \in Nat /\ n <= Len(A) /\ n <= Len(B) BY <1>1, <1>3
  <2>2. A \in Seq(Seq(CellType)) /\ B \in Seq(Seq(CellType)) /\ \A i \in 1 .. n : A[i] = B[i]
    BY <1>3, <1>4
  <2> HIDE DEF A, B
  <2>3. Off(A, n) = Off(B, n) BY <2>1, <2>2, SameOff
  <2> QED BY <2>3 DEF A, B
<1>6. Stream(g) = FlattenSeq(Encodings(g)) BY DEF Stream, Encodings
<1>7. Len(Stream(g)) = Off(Encodings(g), n) BY <1>3, <1>6, FlattenLength
<1> QED BY <1>5, <1>7 DEF g

-----------------------------------------------------------------------------
(***************************************************************************)
(* What objects stand for.                                                 *)
(***************************************************************************)
\* R pairs objects of h with the replies they stand for, elements included.
Matches(h, R) ==
    \A o \in 1 .. Len(h), t \in Trees : <<o, t>> \in R =>
       /\ h[o].type = t.type /\ h[o].v = t.v
       /\ Len(h[o].elems) = Len(t.elems)
       /\ \A k \in 1 .. Len(t.elems) : <<h[o].elems[k], t.elems[k]>> \in R

\* The complete objects of h, with what they stand for.
Stands(h) == UNION {R \in SUBSET ((1 .. Len(h)) \X Trees) : Matches(h, R)}

LEMMA InStands ==
    ASSUME NEW h, NEW R \in SUBSET ((1 .. Len(h)) \X Trees), Matches(h, R)
    PROVE  R \subseteq Stands(h)
  BY Zenon DEF Stands

LEMMA StandsMatches ==
    ASSUME NEW h
    PROVE  Stands(h) \in SUBSET ((1 .. Len(h)) \X Trees) /\ Matches(h, Stands(h))
<1>1. \A x \in Stands(h) : \E R \in SUBSET ((1 .. Len(h)) \X Trees) :
          Matches(h, R) /\ x \in R
  BY Zenon DEF Stands
<1>2. Stands(h) \in SUBSET ((1 .. Len(h)) \X Trees) BY <1>1
<1>3. ASSUME NEW o \in 1 .. Len(h), NEW t \in Trees, <<o, t>> \in Stands(h)
      PROVE  /\ h[o].type = t.type /\ h[o].v = t.v
             /\ Len(h[o].elems) = Len(t.elems)
             /\ \A k \in 1 .. Len(t.elems) : <<h[o].elems[k], t.elems[k]>> \in Stands(h)
  <2>1. PICK R \in SUBSET ((1 .. Len(h)) \X Trees) : Matches(h, R) /\ <<o, t>> \in R
    BY <1>1, <1>3
  <2>2. R \subseteq Stands(h) BY <2>1, InStands
  <2>3. /\ h[o].type = t.type /\ h[o].v = t.v
        /\ Len(h[o].elems) = Len(t.elems)
        /\ \A k \in 1 .. Len(t.elems) : <<h[o].elems[k], t.elems[k]>> \in R
    BY <2>1 DEF Matches
  <2> QED BY <2>2, <2>3
<1> QED BY <1>2, <1>3 DEF Matches

LEMMA StandsMore ==
    ASSUME NEW h, NEW o \in 1 .. Len(h), NEW t \in Trees,
           h[o].type = t.type, h[o].v = t.v, Len(h[o].elems) = Len(t.elems),
           \A k \in 1 .. Len(t.elems) : <<h[o].elems[k], t.elems[k]>> \in Stands(h)
    PROVE  <<o, t>> \in Stands(h)
<1> DEFINE R == Stands(h) \cup {<<o, t>>}
<1>1. Stands(h) \in SUBSET ((1 .. Len(h)) \X Trees) /\ Matches(h, Stands(h))
  BY StandsMatches
<1>2. R \in SUBSET ((1 .. Len(h)) \X Trees) BY <1>1
<1>3. ASSUME NEW p \in 1 .. Len(h), NEW u \in Trees, <<p, u>> \in R
      PROVE  /\ h[p].type = u.type /\ h[p].v = u.v
             /\ Len(h[p].elems) = Len(u.elems)
             /\ \A k \in 1 .. Len(u.elems) : <<h[p].elems[k], u.elems[k]>> \in R
  <2>1. CASE <<p, u>> \in Stands(h) BY <1>1, <2>1 DEF Matches
  <2>2. CASE <<p, u>> = <<o, t>>
    <3>1. p = o /\ u = t BY <2>2
    <3> QED BY <3>1
  <2> QED BY <1>3, <2>1, <2>2
<1> HIDE DEF R
<1>4. Matches(h, R) BY <1>3 DEF Matches
<1> QED BY <1>2, <1>4, InStands DEF R

\* A complete object stays what it is when another one is added: the parent of
\* the new one still misses the element it gets.
LEMMA StandsStay ==
    ASSUME NEW h \in Seq(ObjectType), NEW g \in Seq(ObjectType), NEW up \in Int, NEW j \in Int,
           Adds(h, g, up, j)
    PROVE  Stands(h) \subseteq Stands(g)
<1>1. Stands(h) \in SUBSET ((1 .. Len(h)) \X Trees) /\ Matches(h, Stands(h))
  BY StandsMatches
<1>2. Len(h) \in Nat /\ Len(g) = Len(h) + 1 BY LenProperties DEF Adds
<1>3. Stands(h) \in SUBSET ((1 .. Len(g)) \X Trees)
  <2>1. \A o \in 1 .. Len(h) : o \in 1 .. Len(g) BY <1>2
  <2> QED BY <1>1, <2>1
<1>4. ASSUME NEW o \in 1 .. Len(g), NEW t \in Trees, <<o, t>> \in Stands(h)
      PROVE  /\ g[o].type = t.type /\ g[o].v = t.v
             /\ Len(g[o].elems) = Len(t.elems)
             /\ \A k \in 1 .. Len(t.elems) : <<g[o].elems[k], t.elems[k]>> \in Stands(h)
  <2>1. o \in 1 .. Len(h) BY <1>1, <1>4
  <2>2. /\ h[o].type = t.type /\ h[o].v = t.v
        /\ Len(h[o].elems) = Len(t.elems)
        /\ \A k \in 1 .. Len(t.elems) : <<h[o].elems[k], t.elems[k]>> \in Stands(h)
    BY <1>1, <1>4, <2>1 DEF Matches
  <2>3. \A k \in 1 .. Len(t.elems) : h[o].elems[k] \in 1 .. Len(h) BY <1>1, <2>2
  <2>4. /\ g[o].type = h[o].type /\ g[o].v = h[o].v
        /\ Len(g[o].elems) = Len(h[o].elems)
        /\ \A k \in 1 .. Len(h[o].elems) :
             g[o].elems[k] = IF o = up /\ k = j THEN Len(h) + 1 ELSE h[o].elems[k]
        /\ up \in 1 .. Len(h) => j \in 1 .. Len(h[up].elems) /\ h[up].elems[j] = 0
    BY <2>1 DEF Adds
  <2>5. o # up
    <3> SUFFICES ASSUME o = up PROVE FALSE OBVIOUS
    <3>1. j \in 1 .. Len(t.elems) /\ h[o].elems[j] = 0 BY <2>1, <2>2, <2>4
    <3> QED BY <1>2, <2>3, <3>1
  <2> QED BY <2>2, <2>4, <2>5
<1>5. Matches(g, Stands(h)) BY <1>4 DEF Matches
<1> QED BY <1>3, <1>5, InStands

-----------------------------------------------------------------------------
(***************************************************************************)
(* The value of a complete object is the reply it stands for.              *)
(***************************************************************************)
ValueOf(h, g, i) ==
    [type |-> h[i].type, v |-> h[i].v,
     elems |-> [k \in DOMAIN h[i].elems |->
        IF h[i].elems[k] = 0 THEN Tree ELSE g[h[i].elems[k]]]]

\* g gives the values of the objects from n on.
IsValues(g, h, n) == g = [i \in n .. Len(h) |-> ValueOf(h, g, i)]

LEMMA ValuesOneMore ==
    ASSUME NEW h \in Seq(ObjectType), AcyclicIn(h), NEW n \in 1 .. Len(h), NEW g,
           IsValues(g, h, n + 1)
    PROVE  \E f : IsValues(f, h, n)
<1> DEFINE f == [i \in n .. Len(h) |-> IF i = n THEN ValueOf(h, g, n) ELSE g[i]]
<1>0. Len(h) \in Nat BY LenProperties
<1>1. ASSUME NEW i \in n .. Len(h) PROVE f[i] = ValueOf(h, f, i)
  <2>1. i \in 1 .. Len(h) /\ DOMAIN h[i].elems = 1 .. Len(h[i].elems) BY <1>0, ObjectElems
  <2>2. ASSUME NEW k \in DOMAIN h[i].elems, h[i].elems[k] # 0
        PROVE  f[h[i].elems[k]] = g[h[i].elems[k]]
    <3>1. h[i].elems[k] \in i + 1 .. Len(h) BY <2>1, <2>2 DEF AcyclicIn
    <3>2. h[i].elems[k] \in n .. Len(h) /\ h[i].elems[k] # n BY <1>0, <3>1
    <3> QED BY <3>2
  <2> HIDE DEF f
  <2>3. ValueOf(h, f, i) = ValueOf(h, g, i) BY <2>2 DEF ValueOf
  <2>4. CASE i = n BY <2>3, <2>4 DEF f
  <2>5. CASE i # n
    <3>1. i \in n + 1 .. Len(h) BY <1>0, <2>5
    <3>2. g[i] = ValueOf(h, g, i) BY <3>1 DEF IsValues
    <3> QED BY <2>3, <2>5, <3>2 DEF f
  <2> QED BY <2>4, <2>5
<1>2. f = [i \in n .. Len(h) |-> f[i]] OBVIOUS
<1> HIDE DEF f
<1>3. f = [i \in n .. Len(h) |-> ValueOf(h, f, i)] BY <1>1, <1>2
<1> QED BY <1>3 DEF IsValues

LEMMA ValuesExist ==
    ASSUME NEW h \in Seq(ObjectType), AcyclicIn(h)
    PROVE  \E g : IsValues(g, h, 1)
<1> DEFINE T == {j \in Nat : j <= Len(h) /\ ~ \E g : IsValues(g, h, Len(h) + 1 - j)}
<1>0. Len(h) \in Nat BY LenProperties
<1>1. ASSUME T # {} PROVE FALSE
  <2>1. PICK j \in T : \A y \in T : j <= y BY <1>1, Least
  <2>2. j # 0
    <3> DEFINE g == [i \in Len(h) + 1 .. Len(h) |-> 0]
    <3>1. g = [i \in Len(h) + 1 .. Len(h) |-> ValueOf(h, g, i)]
      <4>1. Len(h) + 1 .. Len(h) = {} BY <1>0
      <4> QED BY <4>1
    <3>2. \E x : IsValues(x, h, Len(h) + 1) BY <3>1 DEF IsValues
    <3>3. Len(h) + 1 - 0 = Len(h) + 1 BY <1>0
    <3> QED BY <2>1, <3>2, <3>3
  <2>3. j - 1 \in Nat /\ j - 1 \notin T /\ j - 1 <= Len(h) BY <1>0, <2>1, <2>2
  <2>4. PICK g : IsValues(g, h, Len(h) + 1 - (j - 1)) BY <2>3
  <2> DEFINE n == Len(h) + 1 - j
  <2>5. n \in 1 .. Len(h) /\ Len(h) + 1 - (j - 1) = n + 1 BY <1>0, <2>1, <2>2
  <2> HIDE DEF n
  <2>6. IsValues(g, h, n + 1) BY <2>4, <2>5
  <2>7. \E f : IsValues(f, h, n) BY <2>5, <2>6, ValuesOneMore
  <2> QED BY <2>1, <2>7 DEF n
<1>2. Len(h) \notin T BY <1>1
<1>3. Len(h) + 1 - Len(h) = 1 BY <1>0
<1> QED BY <1>0, <1>2, <1>3

Values == CHOOSE g : g = [i \in 1 .. Len(heap) |->
             [type |-> heap[i].type, v |-> heap[i].v,
              elems |-> [k \in DOMAIN heap[i].elems |->
                 IF heap[i].elems[k] = 0 THEN Tree ELSE g[heap[i].elems[k]]]]]

LEMMA ValuesUnfold ==
    ASSUME heap \in Seq(ObjectType), AcyclicIn(heap)
    PROVE  /\ \A i \in 1 .. Len(heap) : Values[i] = ValueOf(heap, Values, i)
           /\ \A o \in 1 .. Len(heap) : Value(o) = Values[o]
<1>1. \E g : IsValues(g, heap, 1) BY ValuesExist
<1>2. Values = CHOOSE g : IsValues(g, heap, 1) BY DEF Values, IsValues, ValueOf
<1>3. IsValues(Values, heap, 1) BY <1>1, <1>2
<1>4. \A i \in 1 .. Len(heap) : Values[i] = ValueOf(heap, Values, i) BY <1>3 DEF IsValues
<1>5. ASSUME NEW o \in 1 .. Len(heap) PROVE Value(o) = Values[o]
  <2>1. o > 0 BY LenProperties
  <2> QED BY <2>1 DEF Value, Values
<1> QED BY <1>4, <1>5

LEMMA StandsValue ==
    ASSUME heap \in Seq(ObjectType), AcyclicIn(heap), NEW o, NEW t, <<o, t>> \in Stands(heap)
    PROVE  Value(o) = t /\ o \in 1 .. Len(heap)
<1> DEFINE L == Len(heap)
           T == {j \in Nat : \E x \in 1 .. L, u \in Trees :
                    x = L - j /\ <<x, u>> \in Stands(heap) /\ Values[x] # u}
<1>0. L \in Nat BY LenProperties
<1>1. Stands(heap) \in SUBSET ((1 .. L) \X Trees) /\ Matches(heap, Stands(heap))
  BY StandsMatches
<1>2. ASSUME T # {} PROVE FALSE
  <2>1. PICK j \in T : \A y \in T : j <= y BY <1>2, Least
  <2>2. PICK x \in 1 .. L, u \in Trees :
                    x = L - j /\ <<x, u>> \in Stands(heap) /\ Values[x] # u
    BY <2>1
  <2>3. /\ heap[x].type = u.type /\ heap[x].v = u.v
        /\ Len(heap[x].elems) = Len(u.elems)
        /\ \A k \in 1 .. Len(u.elems) : <<heap[x].elems[k], u.elems[k]>> \in Stands(heap)
    BY <1>1, <2>2 DEF Matches
  <2>4. DOMAIN heap[x].elems = 1 .. Len(u.elems) /\ DOMAIN u.elems = 1 .. Len(u.elems)
        /\ u = [type |-> u.type, v |-> u.v, elems |-> u.elems] /\ u.elems \in Seq(Trees)
    BY <2>2, <2>3, ObjectElems, TreeType
  <2>5. ASSUME NEW k \in 1 .. Len(u.elems)
        PROVE  heap[x].elems[k] # 0 /\ Values[heap[x].elems[k]] = u.elems[k]
    <3> DEFINE y == heap[x].elems[k]
               w == u.elems[k]
    <3>1. <<y, w>> \in Stands(heap) /\ y \in 1 .. L /\ w \in Trees BY <1>1, <2>3
    <3>2. y \in x + 1 .. L
      <4>1. k \in 1 .. Len(heap[x].elems) BY <2>3
      <4>2. y = 0 \/ y \in x + 1 .. L BY <2>2, <4>1 DEF AcyclicIn
      <4> QED BY <3>1, <4>2
    <3> HIDE DEF y, w
    <3>3. L - y \in Nat /\ L - y < j /\ y = L - (L - y) BY <1>0, <2>1, <2>2, <3>1, <3>2
    <3>4. L - y \notin T
      <4> DEFINE q == L - y
      <4>1. q \in Nat /\ q < j /\ j \in Nat BY <2>1, <3>3
      <4> HIDE DEF q, T
      <4>2. q \notin T BY <2>1, <4>1
      <4> QED BY <4>2 DEF q
    <3>5. Values[y] = w BY <3>1, <3>3, <3>4
    <3> QED BY <1>0, <3>1, <3>5 DEF y, w
  <2>6. Values[x] = ValueOf(heap, Values, x) BY <2>2, ValuesUnfold
  <2>7. [k \in DOMAIN heap[x].elems |->
            IF heap[x].elems[k] = 0 THEN Tree ELSE Values[heap[x].elems[k]]] = u.elems
    <3>1. u.elems = [k \in 1 .. Len(u.elems) |-> u.elems[k]] BY <2>4
    <3> QED BY <2>4, <2>5, <3>1
  <2>8. Values[x] = u BY <2>3, <2>4, <2>6, <2>7 DEF ValueOf
  <2> QED BY <2>2, <2>8
<1>3. o \in 1 .. L /\ t \in Trees BY <1>1
<1>4. L - o \in Nat /\ o = L - (L - o) BY <1>0, <1>3
<1>5. L - o \notin T BY <1>2
<1> HIDE DEF L
<1>6. Values[o] = t BY <1>3, <1>4, <1>5
<1> QED BY <1>3, <1>6, ValuesUnfold DEF L

\* Without functions all that is left of a reply is its type.
LEMMA CodeValue ==
    ASSUME NEW type \in TreeTypes \ {"bad"}
    PROVE  /\ Value(Code(type)) = [type |-> type, v |-> 0, elems |-> <<>>]
           /\ type # "error" => Code(type) # 0
<1>1. \A x \in TreeTypes \ {"bad"} : Code(x) = Code(type) => x = type
  BY DEF TreeTypes, Code
<1>2. Code(type) <= 0 BY CodeType
<1>3. (CHOOSE t \in TreeTypes \ {"bad"} : Code(t) = Code(type)) = type BY <1>1
<1>4. type # "error" => Code(type) # 0 BY DEF TreeTypes, Code
<1>5. ~(Code(type) > 0)
  <2>1. Code(type) \in -5 .. 0 BY CodeType
  <2> QED BY <2>1
<1> HIDE DEF Code
<1> QED BY <1>3, <1>4, <1>5 DEF Value

-----------------------------------------------------------------------------
(***************************************************************************)
(* Where the reader is in the reply it parses.                             *)
(***************************************************************************)
\* The reply at level i of stack st, below the root r, and where it starts when
\* the root starts at b.
NodeAt(r, st, i) ==
    IF i = 0 THEN r
    ELSE IF i = 1 THEN r.elems[st[1].idx + 1]
    ELSE r.elems[st[1].idx + 1].elems[st[2].idx + 1]

ElemAt(t, k) == 2 + Off(Encodings(t.elems), k)

StartAt(r, b, st, i) ==
    IF i = 0 THEN b
    ELSE IF i = 1 THEN b + ElemAt(r, st[1].idx)
    ELSE b + ElemAt(r, st[1].idx) + ElemAt(r.elems[st[1].idx + 1], st[2].idx)

LEMMA NodeBelow ==
    ASSUME NEW r, NEW b, NEW st, NEW i \in {0, 1}
    PROVE  /\ NodeAt(r, st, i + 1) = NodeAt(r, st, i).elems[st[i + 1].idx + 1]
           /\ StartAt(r, b, st, i + 1)
                = StartAt(r, b, st, i) + ElemAt(NodeAt(r, st, i), st[i + 1].idx)
           /\ NodeAt(r, st, 0) = r /\ StartAt(r, b, st, 0) = b
<1> HIDE DEF ElemAt
<1>1. CASE i = 0 BY <1>1 DEF NodeAt, StartAt
<1>2. CASE i = 1 BY <1>2 DEF NodeAt, StartAt
<1> QED BY <1>1, <1>2

LEMMA NodeSame ==
    ASSUME NEW r, NEW b, NEW st, NEW su, NEW i \in 0 .. 2,
           \A j \in 1 .. i : su[j].idx = st[j].idx
    PROVE  NodeAt(r, su, i) = NodeAt(r, st, i) /\ StartAt(r, b, su, i) = StartAt(r, b, st, i)
<1> HIDE DEF ElemAt
<1>1. CASE i = 0 BY <1>1 DEF NodeAt, StartAt
<1>2. CASE i = 1
  <2>1. su[1].idx = st[1].idx BY <1>2
  <2> QED BY <1>2, <2>1 DEF NodeAt, StartAt
<1>3. CASE i = 2
  <2>1. su[1].idx = st[1].idx /\ su[2].idx = st[2].idx BY <1>3
  <2> QED BY <1>3, <2>1 DEF NodeAt, StartAt
<1> QED BY <1>1, <1>2, <1>3

\* The levels below n are arrays that have the element the next level is at.
Path(r, st, n) ==
    \A i \in {0, 1} : i < n =>
       /\ NodeAt(r, st, i).type = "array"
       /\ st[i + 1].idx \in 0 .. Len(NodeAt(r, st, i).elems) - 1

LEMMA PathDown ==
    ASSUME NEW s \in Seq(CellType), NEW r \in Trees, NEW b, Lies(s, r, b), NEW st,
           NEW n \in 0 .. 2, Path(r, st, n), NEW i \in {0, 1}, i < n,
           NodeAt(r, st, i) \in Trees, Lies(s, NodeAt(r, st, i), StartAt(r, b, st, i))
    PROVE  /\ NodeAt(r, st, i + 1) \in Trees
           /\ Lies(s, NodeAt(r, st, i + 1), StartAt(r, b, st, i + 1))
           /\ StartAt(r, b, st, i + 1) + Len(Encode[NodeAt(r, st, i + 1)])
                = StartAt(r, b, st, i) + ElemAt(NodeAt(r, st, i), st[i + 1].idx + 1)
           /\ StartAt(r, b, st, i + 1) + Len(Encode[NodeAt(r, st, i + 1)])
                <= StartAt(r, b, st, i) + Len(Encode[NodeAt(r, st, i)])
           /\ st[i + 1].idx = Len(NodeAt(r, st, i).elems) - 1 =>
                StartAt(r, b, st, i + 1) + Len(Encode[NodeAt(r, st, i + 1)])
                  = StartAt(r, b, st, i) + Len(Encode[NodeAt(r, st, i)])
<1> DEFINE t == NodeAt(r, st, i)
           a == StartAt(r, b, st, i)
           k == st[i + 1].idx + 1
<1>1. t.type = "array" /\ st[i + 1].idx \in 0 .. Len(t.elems) - 1 /\ Len(t.elems) \in Nat
  BY TreeType DEF Path
<1>2. k \in 1 .. Len(t.elems) /\ k - 1 = st[i + 1].idx BY SMTT(30), <1>1
<1>3. NodeAt(r, st, i + 1) = t.elems[k] /\ StartAt(r, b, st, i + 1) = a + ElemAt(t, k - 1)
  BY <1>2, NodeBelow
<1>4. t \in Trees /\ Lies(s, t, a) OBVIOUS
<1>9. a \in Nat BY <1>4 DEF Lies
<1>10. k = Len(t.elems) <=> st[i + 1].idx = Len(t.elems) - 1 BY <1>1, <1>2
<1> HIDE DEF t, a, k
<1>5. /\ Lies(s, t.elems[k], a + 2 + Off(Encodings(t.elems), k - 1))
      /\ t.elems[k] \in Trees
      /\ a + 2 + Off(Encodings(t.elems), k - 1) + Len(Encode[t.elems[k]])
           = a + 2 + Off(Encodings(t.elems), k)
      /\ a + 2 + Off(Encodings(t.elems), k) <= a + Len(Encode[t])
      /\ a + 2 + Off(Encodings(t.elems), Len(t.elems)) = a + Len(Encode[t])
  BY <1>1, <1>2, <1>4, LiesElem
<1>6. Off(Encodings(t.elems), k - 1) \in Nat /\ Off(Encodings(t.elems), k) \in Nat
  <2> DEFINE E == Encodings(t.elems)
  <2>1. E \in Seq(Seq(CellType)) /\ Len(E) = Len(t.elems) BY <1>4, EncodeLength
  <2>2. k - 1 \in 0 .. Len(E) /\ k \in 0 .. Len(E) BY <1>1, <1>2, <2>1
  <2> HIDE DEF E
  <2>3. Off(E, k - 1) \in Nat /\ Off(E, k) \in Nat BY <2>1, <2>2, FlatToType
  <2> QED BY <2>3 DEF E
<1>7. /\ a + ElemAt(t, k - 1) = a + 2 + Off(Encodings(t.elems), k - 1)
      /\ a + ElemAt(t, k) = a + 2 + Off(Encodings(t.elems), k)
  <2> DEFINE x == Off(Encodings(t.elems), k - 1)
             y == Off(Encodings(t.elems), k)
  <2> HIDE DEF x, y
  <2>1. a + (2 + x) = a + 2 + x /\ a + (2 + y) = a + 2 + y BY <1>6, <1>9 DEF x, y
  <2> QED BY <2>1 DEF x, y, ElemAt
<1>8. /\ NodeAt(r, st, i + 1) \in Trees
      /\ Lies(s, NodeAt(r, st, i + 1), StartAt(r, b, st, i + 1))
      /\ StartAt(r, b, st, i + 1) + Len(Encode[NodeAt(r, st, i + 1)]) = a + ElemAt(t, k)
      /\ a + ElemAt(t, k) <= a + Len(Encode[t])
      /\ k = Len(t.elems) => a + ElemAt(t, k) = a + Len(Encode[t])
  BY <1>3, <1>5, <1>7
<1> QED BY <1>8, <1>10 DEF t, a, k

LEMMA PathLies ==
    ASSUME NEW s \in Seq(CellType), NEW r \in Trees, NEW b, Lies(s, r, b), NEW st,
           NEW n \in 0 .. 2, Path(r, st, n), NEW i \in 0 .. n
    PROVE  /\ NodeAt(r, st, i) \in Trees
           /\ Lies(s, NodeAt(r, st, i), StartAt(r, b, st, i))
           /\ StartAt(r, b, st, i) + Len(Encode[NodeAt(r, st, i)]) <= b + Len(Encode[r])
<1> DEFINE N(j) == NodeAt(r, st, j)
           S(j) == StartAt(r, b, st, j)
           Good(j) == /\ N(j) \in Trees /\ Lies(s, N(j), S(j))
                      /\ S(j) + Len(Encode[N(j)]) <= b + Len(Encode[r])
<1>1. Good(0)
  <2>1. N(0) = r /\ S(0) = b BY NodeBelow
  <2>2. b \in Nat /\ Len(Encode[r]) \in Nat BY EncodeLength DEF Lies
  <2> QED BY <2>1, <2>2
<1>2. ASSUME NEW j \in {0, 1}, j < n, Good(j) PROVE Good(j + 1)
  <2>1. /\ N(j + 1) \in Trees /\ Lies(s, N(j + 1), S(j + 1))
        /\ S(j + 1) + Len(Encode[N(j + 1)]) <= S(j) + Len(Encode[N(j)])
    BY <1>2, PathDown
  <2>2. /\ S(j) \in Nat /\ S(j + 1) \in Nat /\ b \in Nat /\ Len(Encode[r]) \in Nat
        /\ Len(Encode[N(j)]) \in Nat /\ Len(Encode[N(j + 1)]) \in Nat
    BY <1>2, <2>1, EncodeLength DEF Lies
  <2> DEFINE x == S(j) + Len(Encode[N(j)])
             y == S(j + 1) + Len(Encode[N(j + 1)])
             z == b + Len(Encode[r])
  <2>3. x \in Nat /\ y \in Nat /\ z \in Nat
    <3> HIDE DEF N, S
    <3>1. \A m, l \in Nat : m + l \in Nat OBVIOUS
    <3> QED BY <2>2, <3>1
  <2>4. y <= x /\ x <= z BY <1>2, <2>1
  <2>5. y <= z
    <3> HIDE DEF x, y, z
    <3> QED BY <2>3, <2>4
  <2> QED BY <2>1, <2>5
<1> HIDE DEF Good
<1>3. 0 < n => Good(1) BY <1>1, <1>2
<1>4. 1 < n => Good(2)
  <2> SUFFICES ASSUME 1 < n PROVE Good(2) OBVIOUS
  <2>1. Good(1) /\ 1 + 1 = 2 BY <1>3
  <2> QED BY <1>2, <2>1
<1>5. Good(i) BY <1>1, <1>3, <1>4
<1> QED BY <1>5 DEF Good

-----------------------------------------------------------------------------
(***************************************************************************)
(* The inductive invariant: until an error, the reader is where the stream *)
(* says it is, and what it has built stands for what it has read.          *)
(***************************************************************************)
Told     == Len(emitted)
Root     == forest[Told + 1]
EndOf(n) == Off(Encodings(forest), n)
Consumed == fed - Len(buf) + pos

Node(i)  == NodeAt(Root, rstack, i)
Start(i) == StartAt(Root, EndOf(Told), rstack, i)

\* o is what function set f, with the objects of h, makes of the whole reply t.
Whole(f, h, o, t) ==
    /\ f = "NULL" => t.type # "bad" /\ o = Code(t.type)
    /\ f # "NULL" => <<o, t>> \in Stands(h)

\* Object o of h is array t so far, its first n elements.
Partly(h, o, t, n) ==
    /\ h[o].type = "array" /\ h[o].v = 0
    /\ \A k \in 1 .. n : <<h[o].elems[k], t.elems[k]>> \in Stands(h)

Following ==
    /\ Len(buf) <= fed
    /\ \A p \in 1 .. Len(buf) : buf[p] = Stream(forest)[fed - Len(buf) + p]

Between ==
    ridx = -1 =>
       /\ pc = "idle" => Consumed = EndOf(Told)
       /\ pc # "idle" => /\ Told < Len(forest) /\ Consumed = EndOf(Told + 1)
                         /\ Whole(fn, heap, reply, Root)

Branch(i) ==
    /\ Node(i).type = "array" /\ Len(Node(i).elems) = rstack[i].elements
    /\ fn # "NULL" => Partly(heap, rstack[i].obj, Node(i), rstack[i + 1].idx)

Within ==
    ridx >= 0 =>
       /\ Told < Len(forest)
       /\ \A i \in {0, 1} : i < ridx => Branch(i)
       /\ cur.type = "none" => Consumed = Start(ridx)
       /\ cur.type # "none" => /\ Consumed = Start(ridx) + 1
                               /\ cur.type = Kind(Node(ridx)) /\ Node(ridx).type # "bad"

Running == error = "none" /\ pc \in {"idle", "parsing"}
InStep  == Following /\ Between /\ Within

\* What the caller gets for a reply: the reply, or its type alone.
Handed == [fn : {"default", "NULL"},
           value : Trees \cup {[type |-> y, v |-> 0, elems |-> <<>>] : y \in TreeTypes}]

Sync == /\ emitted \in Seq(Handed) /\ RepliesAsSent
        /\ Running => InStep

\* Where the reader is there is a reply, and it ends before its root does.
LEMMA NodeThere ==
    ASSUME MInv, Told \in Nat, Within, ridx \in 0 .. 2
    PROVE  /\ Told \in Nat /\ Told + 1 \in 1 .. Len(forest) /\ Len(forest) \in Nat
           /\ Root \in Trees /\ Lies(Stream(forest), Root, EndOf(Told))
           /\ EndOf(Told) + Len(Encode[Root]) = EndOf(Told + 1)
           /\ Path(Root, rstack, ridx)
           /\ \A i \in 0 .. ridx :
                /\ Node(i) \in Trees /\ Lies(Stream(forest), Node(i), Start(i))
                /\ Start(i) + Len(Encode[Node(i)]) <= EndOf(Told + 1)
<1>1. forest \in Forests /\ forest \in Seq(Trees) /\ Len(forest) \in Nat
  <2>1. forest \in Forests BY DEF MInv, RType
  <2> QED BY <2>1, ReaderAssumption, LenProperties
<1>2. Told + 1 \in 1 .. Len(forest) /\ Told + 1 - 1 = Told BY <1>1 DEF Within
<1>3. /\ Root \in Trees /\ Lies(Stream(forest), Root, EndOf(Told))
      /\ EndOf(Told) + Len(Encode[Root]) = EndOf(Told + 1)
  <2> DEFINE k == Told + 1
  <2>1. k \in 1 .. Len(forest) /\ k - 1 = Told BY <1>2
  <2> HIDE DEF k
  <2>2. /\ forest[k] \in Trees /\ Lies(Stream(forest), forest[k], Off(Encodings(forest), k - 1))
        /\ Off(Encodings(forest), k - 1) + Len(Encode[forest[k]]) = Off(Encodings(forest), k)
    BY <1>1, <2>1, LiesRoot
  <2> QED BY <2>1, <2>2 DEF k, Root, EndOf
<1>4. Path(Root, rstack, ridx)
  <2> SUFFICES ASSUME NEW i \in {0, 1}, i < ridx
               PROVE  /\ Node(i).type = "array"
                      /\ rstack[i + 1].idx \in 0 .. Len(Node(i).elems) - 1
    BY DEF Path, Node
  <2>1. Level(i) BY DEF MInv, Levels
  <2>2. Branch(i) BY DEF Within
  <2> QED BY <2>1, <2>2 DEF Level, Branch
<1>5. Stream(forest) \in Seq(CellType) BY FunctionSets
<1>6. ASSUME NEW i \in 0 .. ridx
      PROVE  /\ Node(i) \in Trees /\ Lies(Stream(forest), Node(i), Start(i))
             /\ Start(i) + Len(Encode[Node(i)]) <= EndOf(Told + 1)
  <2> DEFINE s == Stream(forest)
             r == Root
             b == EndOf(Told)
  <2>1. s \in Seq(CellType) /\ r \in Trees /\ Lies(s, r, b) /\ Path(r, rstack, ridx)
    BY <1>3, <1>4, <1>5
  <2> HIDE DEF s, r, b
  <2>2. /\ NodeAt(r, rstack, i) \in Trees
        /\ Lies(s, NodeAt(r, rstack, i), StartAt(r, b, rstack, i))
        /\ StartAt(r, b, rstack, i) + Len(Encode[NodeAt(r, rstack, i)]) <= b + Len(Encode[r])
    BY <2>1, PathLies
  <2> QED BY <1>3, <2>2 DEF s, r, b, Node, Start
<1> QED BY <1>1, <1>2, <1>3, <1>4, <1>6

\* The cells in the buffer are those of the stream.
LEMMA CellIs ==
    ASSUME MInv, Following, error = "none", NEW k \in 1 .. 2, Has(k)
    PROVE  /\ CellAt(pos + k) = Stream(forest)[Consumed + k]
           /\ Consumed \in Nat /\ fed \in Nat /\ Consumed + k <= fed
<1>1. /\ len = Len(buf) /\ Len(buf) \in Nat /\ pos \in 0 .. len /\ fed \in Nat
      /\ Len(buf) <= fed
  <2>1. RType BY DEF MInv
  <2>2. ~Stale BY DEF Stale
  <2>3. Len(Stream(forest)) \in Nat BY FunctionSets, LenProperties
  <2> QED BY <2>1, <2>2, <2>3, LenProperties DEF RType, Following
<1>2. pos + k \in 1 .. Len(buf) BY <1>1 DEF Has
<1>3. CellAt(pos + k) = buf[pos + k] BY <1>2 DEF CellAt
<1>4. buf[pos + k] = Stream(forest)[fed - Len(buf) + (pos + k)] BY <1>2 DEF Following
<1>5. fed - Len(buf) + (pos + k) = Consumed + k BY <1>1 DEF Consumed
<1>6. Consumed \in Nat /\ Consumed + k <= fed BY <1>1, <1>2 DEF Consumed
<1> QED BY <1>1, <1>3, <1>4, <1>5, <1>6

\* The cell the reader is at is the next of the reply it is at.
LEMMA CellOf ==
    ASSUME MInv, Told \in Nat, Within, Following, error = "none", ridx \in 0 .. 2,
           NEW k \in 1 .. 2, Has(k), NEW c \in {0, 1}, Consumed = Start(ridx) + c,
           c + k <= Len(Own(Node(ridx)))
    PROVE  CellAt(pos + k) = Own(Node(ridx))[c + k]
<1>1. CellAt(pos + k) = Stream(forest)[Consumed + k] BY CellIs
<1>2. Node(ridx) \in Trees /\ Lies(Stream(forest), Node(ridx), Start(ridx))
  <2>1. ridx \in 0 .. ridx OBVIOUS
  <2> QED BY <2>1, NodeThere
<1>3. Stream(forest) \in Seq(CellType) BY FunctionSets
<1> DEFINE t == Node(ridx)
           b == Start(ridx)
           s == Stream(forest)
<1>4. b \in Nat BY <1>2 DEF Lies
<1>5. c + k \in 1 .. Len(Own(t)) /\ Consumed + k = b + (c + k)
  <2>1. Len(Own(t)) \in 1 .. 3 BY <1>2, OwnType
  <2> QED BY <1>4, <2>1
<1> HIDE DEF t, b, s
<1>6. \A p \in 1 .. Len(Own(t)) : s[b + p] = Own(t)[p]
  <2>1. s \in Seq(CellType) /\ t \in Trees /\ Lies(s, t, b) BY <1>2, <1>3 DEF s, t, b
  <2> QED BY <2>1, LiesOwn
<1> QED BY <1>1, <1>5, <1>6 DEF t, b, s

-----------------------------------------------------------------------------
(***************************************************************************)
(* A whole item, and the arrays that are whole with it.                    *)
(***************************************************************************)
\* The tasks that moveToNextTask drops did the last element of their array.
LEMMA MoveLast ==
    ASSUME rstack \in [0 .. 2 -> TaskType], ridx \in 0 .. 2, MoveToNextTask(rstack),
           NEW i \in 1 .. ridx, i > ridx'
    PROVE  rstack[i].idx = rstack[i - 1].elements - 1
<1> DEFINE left == {j \in 0 .. ridx : j = 0 \/ rstack[j].idx # rstack[j-1].elements - 1}
           top == CHOOSE j \in left : \A k \in left : k <= j
<1>1. \E j \in left : \A k \in left : k <= j
  <2>1. 0 \in left OBVIOUS
  <2>2. CASE 2 \in left BY <2>2
  <2>3. CASE 2 \notin left /\ 1 \in left BY <2>3
  <2>4. CASE 2 \notin left /\ 1 \notin left BY <2>1, <2>4
  <2> QED BY <2>2, <2>3, <2>4
<1>2. top \in left /\ \A k \in left : k <= top BY <1>1
<1>3. ridx' = IF top = 0 THEN -1 ELSE top BY DEF MoveToNextTask
<1> HIDE DEF top
<1>4. top \in 0 .. ridx BY <1>2
<1>5. i > top BY <1>3, <1>4
<1>6. i \notin left BY <1>2, <1>4, <1>5
<1> QED BY <1>6

\* What an array being filled has already stays.
LEMMA PartlyStays ==
    ASSUME MInv, Within, ridx \in 0 .. 2, fn # "NULL", heap' \in Seq(ObjectType),
           NEW up \in Int, NEW j \in Int, Adds(heap, heap', up, j),
           NEW i \in {0, 1}, i < ridx
    PROVE  Partly(heap', rstack[i].obj, Node(i), rstack[i + 1].idx)
<1> DEFINE o == rstack[i].obj
           m == rstack[i + 1].idx
<1>1. heap \in Seq(ObjectType) /\ Len(heap) \in Nat BY LenProperties DEF MInv, RType
<1>2. o \in 1 .. Len(heap) /\ Len(heap[o].elems) = rstack[i].elements
      /\ m \in 0 .. Len(heap[o].elems) - 1
  <2>1. Level(i) BY DEF MInv, Levels
  <2>2. fn = "default" BY FunctionSets
  <2> QED BY <2>1, <2>2 DEF Level, Filled
<1>3. Partly(heap, o, Node(i), m) BY DEF Within, Branch
<1>4. Stands(heap) \subseteq Stands(heap') BY <1>1, StandsStay
<1>5. /\ heap'[o].type = heap[o].type /\ heap'[o].v = heap[o].v
      /\ \A k \in 1 .. Len(heap[o].elems) :
           heap'[o].elems[k] = IF o = up /\ k = j THEN Len(heap) + 1 ELSE heap[o].elems[k]
      /\ up \in 1 .. Len(heap) => heap[up].elems[j] = 0
  BY <1>2 DEF Adds
<1> HIDE DEF o, m
<1>6. ASSUME NEW k \in 1 .. m PROVE <<heap'[o].elems[k], Node(i).elems[k]>> \in Stands(heap')
  <2>1. <<heap[o].elems[k], Node(i).elems[k]>> \in Stands(heap) BY <1>3 DEF Partly
  <2>2. heap[o].elems[k] # 0
    <3>1. Stands(heap) \in SUBSET ((1 .. Len(heap)) \X Trees) BY StandsMatches
    <3>2. heap[o].elems[k] \in 1 .. Len(heap) BY <2>1, <3>1
    <3> QED BY <1>1, <3>2
  <2>3. k \in 1 .. Len(heap[o].elems)
    <3>1. Len(heap[o].elems) \in Nat BY <1>1, <1>2, ObjectElems
    <3> QED BY <1>2, <3>1
  <2>4. ~(o = up /\ k = j) BY <1>2, <1>5, <2>2
  <2>5. heap'[o].elems[k] = heap[o].elems[k] BY <1>5, <2>3, <2>4
  <2> QED BY <1>4, <2>1, <2>5
<1>7. heap'[o].type = "array" /\ heap'[o].v = 0 BY <1>3, <1>5 DEF Partly
<1>8. Partly(heap', o, Node(i), m) BY <1>6, <1>7 DEF Partly
<1> QED BY <1>8 DEF o, m

\* The step gives the reply at level ridx, obj, and leaves the arrays it is in.
Filling ==
    fn # "NULL" => \A i \in {0, 1} : i < ridx =>
       Partly(heap', rstack[i].obj, Node(i), rstack[i + 1].idx)

At(obj, i) == IF i = ridx THEN obj ELSE rstack[i].obj

\* The step ends the reply at level i.
Ends(obj, i) ==
    /\ Whole(fn, heap', At(obj, i), Node(i))
    /\ Consumed' = Start(i) + Len(Encode[Node(i)])

LEMMA EndsUp ==
    ASSUME MInv, Told \in Nat, Within, ridx \in 0 .. 2, NEW obj, Placed(obj), Filling,
           NEW i \in {0, 1}, i < ridx, rstack[i + 1].idx = rstack[i].elements - 1,
           Ends(obj, i + 1)
    PROVE  Ends(obj, i)
<1> DEFINE t == Node(i)
           m == rstack[i + 1].idx
           o == rstack[i].obj
<1>1. Level(i) /\ Branch(i) BY DEF MInv, Levels, Within
<1>2. i \in 0 .. ridx /\ i + 1 \in 0 .. ridx /\ i # ridx OBVIOUS
<1>3. t \in Trees /\ t.type = "array" /\ t.v = 0 /\ Len(t.elems) \in Nat
  <2>1. t \in Trees /\ t.type = "array" BY <1>1, <1>2, NodeThere DEF Branch
  <2> QED BY <2>1, ReaderAssumption, TreeType
<1>4. m + 1 = Len(t.elems) /\ m \in Nat BY <1>1, <1>3 DEF Level, Branch
<1>5. Node(i + 1) = t.elems[m + 1] BY ZenonT(60), NodeBelow DEF Node
<1>6. Consumed' = Start(i) + Len(Encode[Node(i)])
  <2> DEFINE s == Stream(forest)
             r == Root
             b == EndOf(Told)
  <2>1. /\ s \in Seq(CellType) /\ r \in Trees /\ Lies(s, r, b) /\ Path(r, rstack, ridx)
        /\ NodeAt(r, rstack, i) \in Trees
        /\ Lies(s, NodeAt(r, rstack, i), StartAt(r, b, rstack, i))
    BY <1>2, NodeThere, FunctionSets DEF Node, Start
  <2>2. m = Len(NodeAt(r, rstack, i).elems) - 1 BY <1>3, <1>4 DEF Node
  <2> HIDE DEF s, r, b
  <2>3. StartAt(r, b, rstack, i + 1) + Len(Encode[NodeAt(r, rstack, i + 1)])
           = StartAt(r, b, rstack, i) + Len(Encode[NodeAt(r, rstack, i)])
    BY <2>1, <2>2, PathDown
  <2>4. Start(i + 1) + Len(Encode[Node(i + 1)]) = Start(i) + Len(Encode[Node(i)])
    BY <2>3 DEF r, b, Start, Node
  <2> QED BY <2>4 DEF Ends
<1>7. At(obj, i) = o BY <1>2 DEF At
<1>8. fn = "NULL" => o = Code(t.type)
  <2> SUFFICES ASSUME fn = "NULL" PROVE o = Code(t.type) OBVIOUS
  <2>1. o = Code("array") BY <1>1 DEF Level
  <2> QED BY <1>3, <2>1
<1>9. fn # "NULL" => <<o, t>> \in Stands(heap')
  <2> SUFFICES ASSUME fn # "NULL" PROVE <<o, t>> \in Stands(heap') OBVIOUS
  <2>1. Filled(heap', o, rstack[i].elements, m, IF i + 1 = ridx THEN obj ELSE rstack[i + 1].obj)
    BY DEF Placed
  <2>2. o \in 1 .. Len(heap') /\ Len(heap'[o].elems) = Len(t.elems)
        /\ heap'[o].elems[m + 1] = At(obj, i + 1)
    BY <1>1, <2>1 DEF Filled, Branch, At
  <2>3. Partly(heap', o, t, m) BY DEF Filling
  <2>4. <<At(obj, i + 1), t.elems[m + 1]>> \in Stands(heap') BY <1>5 DEF Ends, Whole
  <2> HIDE DEF o, t, m
  <2>5. ASSUME NEW k \in 1 .. Len(t.elems)
        PROVE  <<heap'[o].elems[k], t.elems[k]>> \in Stands(heap')
    <3>1. k \in 1 .. m \/ k = m + 1 BY <1>4
    <3> QED BY <2>2, <2>3, <2>4, <3>1 DEF Partly
  <2>6. heap'[o].type = t.type /\ heap'[o].v = t.v BY <1>3, <2>3 DEF Partly
  <2> QED BY <1>3, <2>2, <2>5, <2>6, StandsMore
<1> QED BY <1>3, <1>6, <1>7, <1>8, <1>9 DEF Ends, Whole

LEMMA EndsAll ==
    ASSUME MInv, Told \in Nat, Within, ridx \in 0 .. 2, NEW obj, Placed(obj), Filling,
           Ends(obj, ridx), NEW t \in 0 .. ridx,
           \A i \in 1 .. ridx : i > t => rstack[i].idx = rstack[i - 1].elements - 1
    PROVE  Ends(obj, t)
<1>1. ASSUME NEW i \in {0, 1}, i < ridx, i >= t, Ends(obj, i + 1) PROVE Ends(obj, i)
  <2>1. i + 1 \in 1 .. ridx /\ i + 1 > t /\ i + 1 - 1 = i BY <1>1
  <2>2. rstack[i + 1].idx = rstack[i].elements - 1 BY <2>1
  <2> QED BY <1>1, <2>2, EndsUp
<1>2. CASE t = ridx BY <1>2
<1>3. CASE t = 0 /\ ridx = 1
  <2>1. Ends(obj, 0 + 1) /\ 0 \in {0, 1} /\ 0 < ridx /\ 0 >= t BY <1>3
  <2>2. Ends(obj, 0) BY <1>1, <2>1
  <2> QED BY <1>3, <2>2
<1>4. CASE t = 1 /\ ridx = 2
  <2>1. Ends(obj, 1 + 1) /\ 1 \in {0, 1} /\ 1 < ridx /\ 1 >= t BY <1>4
  <2>2. Ends(obj, 1) BY <1>1, <2>1
  <2> QED BY <1>4, <2>2
<1>5. CASE t = 0 /\ ridx = 2
  <2>1. Ends(obj, 1 + 1) /\ 1 \in {0, 1} /\ 1 < ridx /\ 1 >= t BY <1>5
  <2>2. Ends(obj, 1) BY <1>1, <2>1
  <2>3. Ends(obj, 0 + 1) /\ 0 \in {0, 1} /\ 0 < ridx /\ 0 >= t BY <1>5, <2>2
  <2>4. Ends(obj, 0) BY <1>1, <2>3
  <2> QED BY <1>5, <2>4
<1> QED BY <1>2, <1>3, <1>4, <1>5

\* What items leave alone.
LEMMA SteadyFacts ==
    ASSUME Steady, Following
    PROVE  /\ UNCHANGED <<forest, fed, fn, error, buf, len, pc, emitted>>
           /\ Following' /\ Told' = Told /\ Root' = Root
           /\ EndOf(Told)' = EndOf(Told) /\ EndOf(Told + 1)' = EndOf(Told + 1)
           /\ Len(forest)' = Len(forest)
<1>1. UNCHANGED <<forest, fed, fn, error, buf, len, pc, emitted>>
  BY DEF Steady, Unmoved, callerVars
<1>2. Told' = Told /\ Root' = Root BY <1>1 DEF Told, Root
<1>3. EndOf(Told)' = EndOf(Told) /\ EndOf(Told + 1)' = EndOf(Told + 1)
  BY <1>1, <1>2 DEF EndOf, Encodings, Off, FlatTo, Flat
<1>4. Following' BY <1>1, StreamStays DEF Following
<1> QED BY <1>1, <1>2, <1>3, <1>4

LEMMA StartStep ==
    ASSUME UNCHANGED <<forest, emitted>>, NEW x, ridx' = x
    PROVE  Start(ridx)' = StartAt(Root, EndOf(Told), rstack', x)
<1>1. Told' = Told /\ Root' = Root BY DEF Told, Root
<1>2. EndOf(Told)' = EndOf(Told) BY <1>1 DEF EndOf, Encodings, Off, FlatTo, Flat
<1>3. Start(ridx)' = StartAt(Root', EndOf(Told)', rstack', x)
  BY DEF Start, StartAt, ElemAt, Off, FlatTo, Flat, Encodings
<1> QED BY <1>1, <1>2, <1>3

LEMMA ItemSynced ==
    ASSUME MInv, Told \in Nat, Following, Within, pc = "parsing", ridx \in 0 .. 2,
           NEW obj, Placed(obj), Filling, Ends(obj, ridx), Steady, MoveToNextTask(rstack)
    PROVE  InStep'
<1>1. RType /\ Levels BY DEF MInv
<1>2. rstack \in [0 .. 2 -> TaskType] BY <1>1 DEF RType
<1>3. /\ UNCHANGED <<forest, fed, fn, error, buf, len, pc, emitted>>
      /\ Following' /\ Told' = Told /\ Root' = Root
      /\ EndOf(Told)' = EndOf(Told) /\ EndOf(Told + 1)' = EndOf(Told + 1)
      /\ Len(forest)' = Len(forest)
  BY SteadyFacts
<1>4. Told < Len(forest) BY DEF Within
<1>5. CASE ridx' = -1 /\ rstack' = rstack
  <2>1. \A i \in 1 .. ridx : i > 0 => rstack[i].idx = rstack[i - 1].elements - 1
    BY <1>2, <1>5, MoveLast
  <2>2. 0 \in 0 .. ridx OBVIOUS
  <2>3. Ends(obj, 0) BY <2>1, <2>2, EndsAll
  <2>4. Node(0) = Root /\ Start(0) = EndOf(Told) BY NodeBelow DEF Node, Start
  <2>5. reply' = At(obj, 0)
    <3>1. ridx > 0 => reply = rstack[0].obj BY <1>1 DEF Levels
    <3> QED BY <3>1 DEF Placed, At
  <2>6. EndOf(Told) + Len(Encode[Root]) = EndOf(Told + 1) BY NodeThere
  <2>7. Consumed' = EndOf(Told + 1)' BY <1>3, <2>3, <2>4, <2>6 DEF Ends
  <2>8. Whole(fn, heap, reply, Root)'
    <3>1. Whole(fn, heap', reply', Root) BY <2>3, <2>4, <2>5 DEF Ends
    <3> QED BY <1>3, <3>1 DEF Whole, Stands, Matches
  <2>9. Between' BY <1>3, <1>4, <2>7, <2>8 DEF Between
  <2>10. Within' BY <1>5 DEF Within
  <2> QED BY <1>3, <2>9, <2>10 DEF InStep
<1>6. ASSUME NEW t \in 1 .. ridx,
             ridx' = t, rstack[t].idx # rstack[t - 1].elements - 1,
             rstack' \in [0 .. 2 -> TaskType],
             \A i \in 0 .. 2 : i # t => rstack'[i] = rstack[i],
             rstack'[t].type = "none", rstack'[t].idx = rstack[t].idx + 1,
             rstack'[t].parent = rstack[t].parent, rstack'[t].obj = rstack[t].obj
      PROVE  InStep'
  <2>1. \A i \in 1 .. ridx : i > t => rstack[i].idx = rstack[i - 1].elements - 1
    BY <1>2, <1>6, MoveLast
  <2>2. t \in 0 .. ridx /\ t - 1 \in {0, 1} /\ t - 1 < ridx /\ t - 1 + 1 = t /\ t \in 0 .. 2
    OBVIOUS
  <2>3. Ends(obj, t) BY <2>1, <2>2, EndsAll
  <2>4. ASSUME NEW i \in {0, 1}, i < t
        PROVE  NodeAt(Root, rstack', i) = Node(i) /\ StartAt(Root, EndOf(Told), rstack', i) = Start(i)
    <3>1. \A j \in 1 .. i : rstack'[j].idx = rstack[j].idx BY <1>6, <2>4
    <3>2. i \in 0 .. 2 OBVIOUS
    <3> QED BY <3>1, <3>2, NodeSame DEF Node, Start
  <2>5. \A i \in {0, 1} : i < t => Node(i)' = Node(i)
    <3>1. \A i \in {0, 1} : Node(i)' = NodeAt(Root, rstack', i)
      BY <1>3 DEF Node, NodeAt
    <3> QED BY <2>4, <3>1
  <2>6. ASSUME NEW i \in {0, 1}, i < t PROVE Branch(i)'
    <3> DEFINE o == rstack[i].obj
               m == rstack[i + 1].idx
               u == Node(i)
    <3>1. i < ridx /\ i # t /\ i \in 0 .. 2 /\ i + 1 \in 0 .. 2 BY <2>6
    <3>2. Branch(i) /\ Level(i) BY <1>1, <3>1 DEF Within, Levels
    <3>3. rstack'[i] = rstack[i] BY <1>6, <3>1
    <3>4. fn # "NULL" => Partly(heap', o, u, rstack'[i + 1].idx)
      <4> SUFFICES ASSUME fn # "NULL" PROVE Partly(heap', o, u, rstack'[i + 1].idx) OBVIOUS
      <4>1. Partly(heap', o, u, m) BY <3>1 DEF Filling
      <4>2. CASE i + 1 # t
        <5>1. rstack'[i + 1].idx = m BY <1>6, <3>1, <4>2
        <5> QED BY <4>1, <5>1
      <4>3. CASE i + 1 = t
        <5>1. rstack'[i + 1].idx = m + 1 BY <1>6, <4>3
        <5>2. heap'[o].elems[m + 1] = At(obj, i + 1)
          <6>1. Filled(heap', o, rstack[i].elements, m,
                       IF i + 1 = ridx THEN obj ELSE rstack[i + 1].obj)
            BY <3>1 DEF Placed
          <6> QED BY <6>1 DEF Filled, At
        <5>3. <<At(obj, i + 1), Node(i + 1)>> \in Stands(heap') BY <2>3, <4>3 DEF Ends, Whole
        <5>4. Node(i + 1) = u.elems[m + 1] BY NodeBelow DEF Node
        <5>5. m \in Nat BY <3>2 DEF Level
        <5> HIDE DEF o, u, m
        <5>6. \A k \in 1 .. m + 1 : k \in 1 .. m \/ k = m + 1 BY <5>5
        <5>7. Partly(heap', o, u, m + 1) BY <4>1, <5>2, <5>3, <5>4, <5>6 DEF Partly
        <5> QED BY <5>1, <5>7
      <4> QED BY <4>2, <4>3
    <3>5. Node(i)' = Node(i) BY <2>5, <2>6
    <3>6. Partly(heap, rstack[i].obj, Node(i), rstack[i + 1].idx)'
             <=> Partly(heap', o, u, rstack'[i + 1].idx)
      BY <3>3, <3>5 DEF Partly, Stands, Matches
    <3> QED BY <1>3, <3>2, <3>3, <3>4, <3>5, <3>6 DEF Branch
  <2>7. Consumed' = StartAt(Root, EndOf(Told), rstack', t)
    <3> DEFINE s == Stream(forest)
               r == Root
               b == EndOf(Told)
               i == t - 1
    <3>1. /\ s \in Seq(CellType) /\ r \in Trees /\ Lies(s, r, b) /\ Path(r, rstack, ridx)
          /\ NodeAt(r, rstack, i) \in Trees
          /\ Lies(s, NodeAt(r, rstack, i), StartAt(r, b, rstack, i))
      BY <2>2, NodeThere, FunctionSets DEF Node, Start
    <3>2. i \in {0, 1} /\ i < ridx /\ i + 1 = t /\ i < t BY <2>2
    <3>3. /\ NodeAt(r, rstack', i) = NodeAt(r, rstack, i)
          /\ StartAt(r, b, rstack', i) = StartAt(r, b, rstack, i)
      BY <2>4, <3>2 DEF Node, Start
    <3>4. rstack'[t].idx = rstack[t].idx + 1 BY <1>6
    <3>5. Consumed' = StartAt(r, b, rstack, t) + Len(Encode[NodeAt(r, rstack, t)])
      BY <2>3 DEF Ends, Start, Node
    <3> HIDE DEF s, r, b, i
    <3>6. StartAt(r, b, rstack, i + 1) + Len(Encode[NodeAt(r, rstack, i + 1)])
             = StartAt(r, b, rstack, i) + ElemAt(NodeAt(r, rstack, i), rstack[i + 1].idx + 1)
      BY <3>1, <3>2, PathDown
    <3>7. StartAt(r, b, rstack', i + 1)
             = StartAt(r, b, rstack', i) + ElemAt(NodeAt(r, rstack', i), rstack'[i + 1].idx)
      BY <3>2, NodeBelow
    <3>8. Consumed' = StartAt(r, b, rstack', t) BY <3>2, <3>3, <3>4, <3>5, <3>6, <3>7
    <3> QED BY <3>8 DEF r, b
  <2>8. Start(ridx)' = StartAt(Root, EndOf(Told), rstack', t)
    BY <1>3, <1>6, StartStep
  <2>9. cur' = rstack'[t] BY <1>6 DEF cur
  <2>10. Within'
    <3>1. Consumed' = Start(ridx)' /\ cur'.type = "none" BY <1>6, <2>7, <2>8, <2>9
    <3> QED BY <1>3, <1>4, <1>6, <2>6, <3>1 DEF Within
  <2>11. Between' BY <1>6 DEF Between
  <2> QED BY <1>3, <2>10, <2>11 DEF InStep
<1> QED BY <1>2, <1>5, <1>6, MoveStep

\* A new object leaves those that are being filled; when it has no elements it
\* stands for its reply at once.
LEMMA CreateFills ==
    ASSUME MInv, Within, pc = "parsing", ridx \in 0 .. 2,
           NEW type \in TreeTypes \ {"bad"}, NEW v \in Int, NEW n \in Nat,
           Create(type, v, n), SetReply(Obj(type))
    PROVE  Filling
<1> SUFFICES ASSUME fn # "NULL", NEW i \in {0, 1}, i < ridx
             PROVE  Partly(heap', rstack[i].obj, Node(i), rstack[i + 1].idx)
  BY DEF Filling
<1>1. PICK up \in Int, j \in Int : Adds(heap, heap', up, j) BY CreatePlaces
<1>2. heap' \in Seq(ObjectType) BY CreatePlaces DEF Placed
<1> QED BY <1>1, <1>2, PartlyStays

LEMMA CreateWhole ==
    ASSUME MInv, pc = "parsing", ridx \in 0 .. 2, NEW t \in Trees, t.elems = <<>>,
           t.type # "bad", Create(t.type, t.v, 0), SetReply(Obj(t.type))
    PROVE  Whole(fn, heap', Obj(t.type), t)
<1>1. t.type \in TreeTypes \ {"bad"} /\ t.v \in Int /\ 0 \in Nat BY TreeType
<1>2. fn = "NULL" => Obj(t.type) = Code(t.type) BY DEF Obj
<1>3. fn # "NULL" => <<Obj(t.type), t>> \in Stands(heap')
  <2> SUFFICES ASSUME fn # "NULL" PROVE <<Obj(t.type), t>> \in Stands(heap') OBVIOUS
  <2>1. /\ Obj(t.type) = Len(heap') /\ Len(heap'[Len(heap')].elems) = 0
        /\ heap'[Len(heap')].type = t.type /\ heap'[Len(heap')].v = t.v
        /\ \E up \in Int, j \in Int : Adds(heap, heap', up, j)
    BY <1>1, CreatePlaces
  <2>2. Len(heap') = Len(heap) + 1 /\ Len(heap) \in Nat
    BY <2>1, LenProperties DEF Adds, MInv, RType
  <2>3. Len(heap') \in 1 .. Len(heap') BY <2>2
  <2>4. Len(t.elems) = 0 OBVIOUS
  <2>5. \A k \in 1 .. Len(t.elems) :
           <<heap'[Len(heap')].elems[k], t.elems[k]>> \in Stands(heap')
    BY <2>4
  <2> QED BY <2>1, <2>3, <2>4, <2>5, StandsMore
<1> QED BY <1>2, <1>3 DEF Whole

\* An array with elements: they are read next.
LEMMA PushSynced ==
    ASSUME MInv, Told \in Nat, Following, Within, ridx \in {0, 1}, NEW n \in Nat, n > 0,
           Obj("array") \in Int, Filling, Steady, PushTask(n),
           Node(ridx).type = "array", Len(Node(ridx).elems) = n, Consumed' = Start(ridx) + 2,
           fn # "NULL" => heap'[Obj("array")].type = "array" /\ heap'[Obj("array")].v = 0
    PROVE  InStep'
<1> DEFINE obj == Obj("array")
<1>1. rstack \in [0 .. 2 -> TaskType] BY DEF MInv, RType
<1>2. /\ UNCHANGED <<forest, fed, fn, error, buf, len, pc, emitted>>
      /\ Following' /\ Told' = Told /\ Root' = Root
      /\ EndOf(Told)' = EndOf(Told) /\ EndOf(Told + 1)' = EndOf(Told + 1)
      /\ Len(forest)' = Len(forest)
  BY SteadyFacts
<1>3. Told < Len(forest) BY DEF Within
<1>4. /\ ridx' = ridx + 1 /\ rstack' \in [0 .. 2 -> TaskType]
      /\ rstack'[ridx].elements = n /\ rstack'[ridx].obj = obj
      /\ rstack'[ridx].idx = rstack[ridx].idx
      /\ rstack'[ridx + 1] = Task(0, ridx)
      /\ \A i \in 0 .. 2 : i # ridx /\ i # ridx + 1 => rstack'[i] = rstack[i]
  BY <1>1, PushStep
<1> HIDE DEF obj
<1>5. rstack'[ridx + 1].idx = 0 /\ rstack'[ridx + 1].type = "none" BY <1>4 DEF Task
<1>6. ASSUME NEW i \in 0 .. ridx
      PROVE  NodeAt(Root, rstack', i) = Node(i) /\ StartAt(Root, EndOf(Told), rstack', i) = Start(i)
  <2>1. \A j \in 1 .. i : rstack'[j].idx = rstack[j].idx
    <3> TAKE j \in 1 .. i
    <3>1. j = ridx \/ (j # ridx /\ j # ridx + 1 /\ j \in 0 .. 2) OBVIOUS
    <3> QED BY <1>4, <3>1
  <2>2. i \in 0 .. 2 OBVIOUS
  <2> QED BY <2>1, <2>2, NodeSame DEF Node, Start
<1>7. \A i \in 0 .. ridx : Node(i)' = Node(i)
  <2>1. \A i \in 0 .. ridx : Node(i)' = NodeAt(Root, rstack', i) BY <1>2 DEF Node, NodeAt
  <2> QED BY <1>6, <2>1
<1>8. ASSUME NEW i \in {0, 1}, i < ridx + 1 PROVE Branch(i)'
  <2>0. i \in 0 .. ridx BY <1>8
  <2>1. Node(i)' = Node(i) BY <1>7, <2>0
  <2>2. CASE i = ridx
    <3>1. Node(i).type = "array" /\ Len(Node(i).elems) = rstack'[i].elements BY <1>4, <2>2
    <3>2. fn # "NULL" => Partly(heap', rstack'[i].obj, Node(i), rstack'[i + 1].idx)
      <4>1. rstack'[i].obj = obj /\ rstack'[i + 1].idx = 0 BY <1>4, <1>5, <2>2
      <4>2. \A k \in 1 .. 0 : FALSE OBVIOUS
      <4> QED BY <4>1, <4>2 DEF Partly, obj
    <3>3. Partly(heap, rstack[i].obj, Node(i), rstack[i + 1].idx)'
             <=> Partly(heap', rstack'[i].obj, Node(i), rstack'[i + 1].idx)
      BY <2>1 DEF Partly, Stands, Matches
    <3> QED BY <1>2, <2>1, <3>1, <3>2, <3>3 DEF Branch
  <2>3. CASE i # ridx
    <3>1. i < ridx /\ i \in 0 .. 2 /\ i # ridx + 1 BY <1>8, <2>3
    <3>2. rstack'[i] = rstack[i] /\ rstack'[i + 1].idx = rstack[i + 1].idx
      <4>1. i + 1 = ridx BY <3>1
      <4> QED BY <1>4, <3>1, <4>1
    <3>3. Branch(i) BY <3>1 DEF Within
    <3>4. fn # "NULL" => Partly(heap', rstack[i].obj, Node(i), rstack'[i + 1].idx)
      BY <3>1, <3>2 DEF Filling
    <3>5. Partly(heap, rstack[i].obj, Node(i), rstack[i + 1].idx)'
             <=> Partly(heap', rstack[i].obj, Node(i), rstack'[i + 1].idx)
      BY <2>1, <3>2 DEF Partly, Stands, Matches
    <3> QED BY <1>2, <2>1, <3>2, <3>3, <3>4, <3>5 DEF Branch
  <2> QED BY <2>2, <2>3
<1>9. Consumed' = StartAt(Root, EndOf(Told), rstack', ridx + 1)
  <2> DEFINE b == EndOf(Told)
             r == Root
             u == Node(ridx)
             a == Start(ridx)
  <2>1. ridx \in 0 .. ridx OBVIOUS
  <2>2. NodeAt(r, rstack', ridx) = u /\ StartAt(r, b, rstack', ridx) = a BY <1>6, <2>1
  <2>3. a \in Nat
    <3>1. Lies(Stream(forest), Node(ridx), Start(ridx)) BY <2>1, NodeThere
    <3> QED BY <3>1 DEF Lies
  <2>4. Consumed' = a + 2 OBVIOUS
  <2> HIDE DEF b, r, u, a
  <2>5. StartAt(r, b, rstack', ridx + 1) = a + ElemAt(u, 0) BY <1>5, <2>2, NodeBelow
  <2>6. ElemAt(u, 0) = 2
    <3>1. Off(Encodings(u.elems), 0) = 0 BY DEF Off, FlatTo
    <3> QED BY <3>1 DEF ElemAt
  <2> QED BY <2>4, <2>5, <2>6 DEF b, r
<1>10. Start(ridx)' = StartAt(Root, EndOf(Told), rstack', ridx + 1)
  <2> DEFINE x == ridx + 1
  <2>1. ridx' = x BY <1>4
  <2> HIDE DEF x
  <2>2. Start(ridx)' = StartAt(Root, EndOf(Told), rstack', x)
    BY <1>2, <2>1, StartStep
  <2> QED BY <2>2 DEF x
<1>11. Within'
  <2>1. cur' = rstack'[ridx + 1] BY <1>4 DEF cur
  <2>2. \A i \in {0, 1} : i < ridx' => Branch(i)' BY <1>4, <1>8
  <2> QED BY <1>2, <1>3, <1>5, <1>9, <1>10, <2>1, <2>2 DEF Within
<1>12. Between'
  <2>1. ridx' # -1 BY <1>4
  <2> QED BY <2>1 DEF Between
<1> QED BY <1>2, <1>11, <1>12 DEF InStep

-----------------------------------------------------------------------------
(***************************************************************************)
(* The steps.                                                              *)
(***************************************************************************)
LEMMA ToldKept ==
    ASSUME Sync, UNCHANGED <<forest, emitted>>, Running' => InStep'
    PROVE  Sync'
BY DEF Sync, RepliesAsSent

LEMMA ToldType == ASSUME Sync PROVE Told \in Nat /\ Told <= Len(forest)
BY LenProperties DEF Sync, Told, RepliesAsSent

\* The objects and the places of the tasks stay.
LEMMA WithinSame ==
    ASSUME Within, ridx \in 0 .. 2, UNCHANGED <<forest, emitted, heap, ridx>>,
           fn' = fn \/ ridx = 0,
           \A i \in 0 .. 2 : /\ rstack'[i].idx = rstack[i].idx /\ rstack'[i].obj = rstack[i].obj
                             /\ rstack'[i].elements = rstack[i].elements
    PROVE  /\ \A i \in {0, 1} : i < ridx => Branch(i)'
           /\ Node(ridx)' = Node(ridx) /\ Start(ridx)' = Start(ridx)
           /\ Told' = Told /\ Len(forest)' = Len(forest)
<1>1. Root' = Root /\ Told' = Told BY DEF Root, Told
<1>2. ASSUME NEW i \in 0 .. 2
      PROVE  Node(i)' = Node(i) /\ StartAt(Root, EndOf(Told), rstack', i) = Start(i)
  <2>1. \A j \in 1 .. i : rstack'[j].idx = rstack[j].idx OBVIOUS
  <2>2. /\ NodeAt(Root, rstack', i) = Node(i)
        /\ StartAt(Root, EndOf(Told), rstack', i) = Start(i)
    BY <2>1, NodeSame DEF Node, Start
  <2>3. Node(i)' = NodeAt(Root, rstack', i) BY <1>1 DEF Node, NodeAt
  <2> QED BY <2>2, <2>3
<1>3. Start(ridx)' = Start(ridx)
  <2>1. ridx' = ridx OBVIOUS
  <2>2. Start(ridx)' = StartAt(Root, EndOf(Told), rstack', ridx) BY <2>1, StartStep
  <2> QED BY <1>2, <2>2
<1>4. Node(ridx)' = Node(ridx)
  <2>1. Node(ridx)' = NodeAt(Root, rstack', ridx) BY <1>1 DEF Node, NodeAt
  <2>2. \A j \in 1 .. ridx : rstack'[j].idx = rstack[j].idx OBVIOUS
  <2> QED BY <2>1, <2>2, NodeSame DEF Node
<1>5. ASSUME NEW i \in {0, 1}, i < ridx PROVE Branch(i)'
  <2>1. i \in 0 .. 2 /\ i + 1 \in 0 .. 2 OBVIOUS
  <2>2. Node(i)' = Node(i) BY <1>2, <2>1
  <2>3. Branch(i) BY <1>5 DEF Within
  <2>4. /\ rstack'[i].obj = rstack[i].obj /\ rstack'[i].elements = rstack[i].elements
        /\ rstack'[i + 1].idx = rstack[i + 1].idx
    BY <2>1
  <2>5. Partly(heap, rstack[i].obj, Node(i), rstack[i + 1].idx)'
           <=> Partly(heap, rstack[i].obj, Node(i), rstack[i + 1].idx)
    BY <2>2, <2>4 DEF Partly, Stands, Matches
  <2>6. fn' = fn BY <1>5
  <2> QED BY <2>2, <2>3, <2>4, <2>5, <2>6 DEF Branch
<1> QED BY <1>1, <1>3, <1>4, <1>5

LEMMA SyncReadType == ASSUME MInv, Sync, ReadType PROVE Sync'
<1>1. /\ pc = "parsing" /\ ridx \in 0 .. 2 /\ cur.type = "none" /\ Has(1)
      /\ UNCHANGED <<reply, len, heap, forest, fed, fn, emitted>>
  <2>1. ridx \in -1 .. 2 BY DEF MInv, RType
  <2>2. /\ pc = "parsing" /\ ridx >= 0 /\ cur.type = "none" /\ Has(1)
        /\ UNCHANGED <<reply, len, heap>> /\ Unmoved
    BY DEF ReadType
  <2>3. UNCHANGED <<reply, len, heap, forest, fed, fn, emitted>> BY <2>2 DEF Unmoved, callerVars
  <2> QED BY <2>1, <2>2, <2>3
<1>2. CASE SetError("type byte")
  <2>1. error' # "none" BY <1>2 DEF SetError
  <2> QED BY <1>1, <2>1, ToldKept DEF Running
<1>3. CASE \E type \in DOMAIN Byte \ {"bad"} :
              /\ CellAt(pos + 1).k = Byte[type]
              /\ rstack' = [rstack EXCEPT ![ridx].type = type]
              /\ pos' = pos + 1
              /\ UNCHANGED <<error, buf, ridx, freed, pc>>
  <2>1. PICK type \in DOMAIN Byte \ {"bad"} :
              /\ CellAt(pos + 1).k = Byte[type]
              /\ rstack' = [rstack EXCEPT ![ridx].type = type]
              /\ pos' = pos + 1
              /\ UNCHANGED <<error, buf, ridx, freed, pc>>
    BY <1>3
  <2>2. SUFFICES ASSUME error = "none" PROVE InStep'
    BY <1>1, <2>1, ToldKept DEF Running
  <2>3. Following /\ Within /\ Told \in Nat BY <1>1, <2>2, ToldType DEF Sync, Running, InStep
  <2> DEFINE t == Node(ridx)
  <2>4. t \in Trees
    <3>1. ridx \in 0 .. ridx BY <1>1
    <3> QED BY <1>1, <2>3, <3>1, NodeThere
  <2>5. Len(Own(t)) >= 1 /\ Len(Own(t)) \in Nat BY SMTT(30), <2>4, OwnType
  <2>6. Consumed = Start(ridx) BY <1>1, <2>3 DEF Within
  <2>7. CellAt(pos + 1) = Own(t)[1]
    <3>1. Consumed = Start(ridx) + 0
      <4>1. Consumed \in Nat BY <1>1, <2>2, <2>3, CellIs
      <4> QED BY <2>6, <4>1
    <3>2. 0 + 1 <= Len(Own(t)) /\ 0 \in {0, 1} /\ 1 \in 1 .. 2 /\ 0 + 1 = 1 BY <2>5
    <3> QED BY <1>1, <2>2, <2>3, <3>1, <3>2, CellOf
  <2>8. t.type # "bad" /\ type = Kind(t)
    <3>1. DOMAIN Byte = {"status", "error", "integer", "string", "array", "bad"} BY DEF Byte
    <3>2. \A x, y \in DOMAIN Byte \ {"bad"} : Byte[x] = Byte[y] => x = y BY DEF Byte
    <3>3. \A x \in DOMAIN Byte \ {"bad"} : Byte[x] # "@" BY DEF Byte
    <3>4. t.type # "bad" BY <2>1, <2>4, <2>7, <3>3, OwnCells
    <3>5. Byte[Kind(t)] = Byte[type] BY <2>1, <2>4, <2>7, <3>4, OwnCells
    <3>6. t.type \in TreeTypes BY <2>4, TreeType
    <3> HIDE DEF t
    <3>7. Kind(t) \in DOMAIN Byte \ {"bad"} BY <3>1, <3>4, <3>6 DEF Kind, TreeTypes
    <3> QED BY <2>1, <3>2, <3>4, <3>5, <3>7
  <2>9. \A i \in 0 .. 2 : /\ rstack'[i].idx = rstack[i].idx /\ rstack'[i].obj = rstack[i].obj
                          /\ rstack'[i].elements = rstack[i].elements
    <3>1. rstack \in [0 .. 2 -> TaskType] BY DEF MInv, RType
    <3> QED BY <1>1, <2>1, <3>1 DEF TaskType
  <2>10. cur'.type = Kind(t)
    <3>1. rstack \in [0 .. 2 -> TaskType] BY DEF MInv, RType
    <3>2. rstack'[ridx].type = type BY <1>1, <2>1, <3>1 DEF TaskType
    <3> QED BY <2>1, <2>8, <3>2 DEF cur
  <2>11. /\ \A i \in {0, 1} : i < ridx => Branch(i)'
         /\ Node(ridx)' = Node(ridx) /\ Start(ridx)' = Start(ridx)
         /\ Told' = Told /\ Len(forest)' = Len(forest)
    BY <1>1, <2>1, <2>3, <2>9, WithinSame
  <2>12. Consumed' = Start(ridx)' + 1
    <3>1. Consumed' = fed - Len(buf) + (pos + 1) BY <1>1, <2>1 DEF Consumed
    <3>2. fed \in Nat /\ Len(buf) \in Nat /\ pos \in Nat
      <4>1. fed \in Nat BY <1>1, <2>2, <2>3, CellIs
      <4>2. buf \in Seq(CellType) /\ pos \in 0 .. len BY DEF MInv, RType
      <4>3. Len(buf) \in Nat /\ pos \in Nat BY <4>2, LenProperties
      <4> QED BY <4>1, <4>3
    <3> QED BY <2>6, <2>11, <3>1, <3>2 DEF Consumed
  <2>13. cur'.type # "none"
    <3>1. type # "none" BY DEF Byte
    <3> QED BY <2>8, <2>10, <3>1
  <2>14. Within'
    <3>1. Told' < Len(forest)' BY <1>1, <2>3, <2>11 DEF Within
    <3> QED BY <1>1, <2>1, <2>8, <2>10, <2>11, <2>12, <2>13, <3>1 DEF Within
  <2>15. Following' BY <1>1, <2>1, <2>3, StreamStays DEF Following
  <2>16. Between' BY <1>1, <2>1 DEF Between
  <2> QED BY <2>14, <2>15, <2>16 DEF InStep
<1> QED BY <1>2, <1>3 DEF ReadType

\* The reader has the type of an item and its line.
LEMMA AtItem ==
    ASSUME MInv, Sync, error = "none", pc = "parsing", ridx \in 0 .. 2, cur.type # "none", Has(1)
    PROVE  /\ Following /\ Within /\ Told \in Nat
           /\ Node(ridx) \in Trees /\ Node(ridx).type # "bad" /\ cur.type = Kind(Node(ridx))
           /\ Consumed = Start(ridx) + 1 /\ Start(ridx) \in Nat
           /\ CellAt(pos + 1) = Own(Node(ridx))[2]
           /\ \A d \in Nat : pos' = pos + d /\ UNCHANGED <<fed, buf>> =>
                 Consumed' = Start(ridx) + 1 + d
<1>1. Following /\ Within /\ Told \in Nat BY ToldType DEF Sync, Running, InStep
<1> DEFINE t == Node(ridx)
<1>2. t \in Trees /\ Start(ridx) \in Nat
  <2>1. ridx \in 0 .. ridx OBVIOUS
  <2>2. t \in Trees /\ Lies(Stream(forest), t, Start(ridx)) BY <1>1, <2>1, NodeThere
  <2> QED BY <2>2 DEF Lies
<1>3. Consumed = Start(ridx) + 1 /\ cur.type = Kind(t) /\ t.type # "bad" BY <1>1 DEF Within
<1>4. 1 + 1 <= Len(Own(t)) BY <1>2, <1>3, OwnCells
<1>5. CellAt(pos + 1) = Own(t)[1 + 1] BY <1>1, <1>3, <1>4, CellOf
<1>6. fed \in Nat /\ Len(buf) \in Nat /\ pos \in Nat
  <2>1. fed \in Nat BY <1>1, CellIs
  <2>2. buf \in Seq(CellType) /\ pos \in 0 .. len BY DEF MInv, RType
  <2> QED BY <2>1, <2>2, LenProperties
<1>7. ASSUME NEW d \in Nat, pos' = pos + d, UNCHANGED <<fed, buf>>
      PROVE  Consumed' = Start(ridx) + 1 + d
  <2>1. Consumed' = fed - Len(buf) + (pos + d) BY <1>7 DEF Consumed
  <2>2. fed - Len(buf) + pos = Start(ridx) + 1 BY <1>3 DEF Consumed
  <2> DEFINE l == Len(buf)
             b == Start(ridx)
  <2> HIDE DEF l, b
  <2>3. fed - l + (pos + d) = fed - l + pos + d BY <1>6, <1>7 DEF l
  <2> QED BY <2>1, <2>2, <2>3 DEF l, b
<1> QED BY <1>1, <1>2, <1>3, <1>5, <1>7

\* An item without elements is whole.
LEMMA LeafSynced ==
    ASSUME MInv, Sync, error = "none", pc = "parsing", ridx \in 0 .. 2, cur.type # "none", Has(1),
           NEW type, type = Node(ridx).type, Create(type, Node(ridx).v, 0), SetReply(Obj(type)),
           Node(ridx).elems = <<>>, NEW d \in Nat, pos' = pos + d, 1 + d = Len(Own(Node(ridx))),
           Steady, MoveToNextTask(rstack)
    PROVE  Sync'
<1> DEFINE t == Node(ridx)
<1>1. /\ Following /\ Within /\ Told \in Nat /\ t \in Trees /\ t.type # "bad"
      /\ Start(ridx) \in Nat
  BY AtItem
<1>2. UNCHANGED <<forest, emitted, fed, buf>> BY DEF Steady, Unmoved, callerVars
<1>3. Consumed' = Start(ridx) + 1 + d BY <1>2, AtItem
<1>4. t.type \in TreeTypes \ {"bad"} /\ t.v \in Int /\ 0 \in Nat BY <1>1, TreeType
<1>5. Placed(Obj(type)) BY <1>4, CreatePlaces
<1>6. Filling BY <1>1, <1>4, CreateFills
<1>7. Whole(fn, heap', Obj(type), t) BY <1>1, CreateWhole
<1>8. Ends(Obj(type), ridx)
  <2>1. Len(Encode[t]) = Len(Own(t)) BY <1>1, EncodeLength
  <2>2. Start(ridx) + 1 + d = Start(ridx) + (1 + d) BY <1>1
  <2>3. Consumed' = Start(ridx) + Len(Encode[t]) BY <1>3, <2>1, <2>2
  <2> QED BY <1>7, <2>3 DEF Ends, At
<1>9. InStep' BY <1>1, <1>5, <1>6, <1>8, ItemSynced
<1> QED BY <1>2, <1>9, ToldKept

LEMMA SyncLineItem == ASSUME MInv, Sync, LineItem PROVE Sync'
<1>1. /\ pc = "parsing" /\ ridx \in 0 .. 2 /\ cur.type \in {"status", "error", "integer"}
      /\ Has(1) /\ pos' = pos + 1 /\ cur.type # "none"
  <2>1. ridx \in -1 .. 2 BY DEF MInv, RType
  <2> QED BY <2>1 DEF LineItem
<1>2. Steady /\ UNCHANGED <<error, forest, emitted>>
  <2>1. pos + 1 \in 0 .. len BY <1>1, CellThere
  <2> QED BY <1>1, <2>1 DEF LineItem, Steady, Unmoved, callerVars
<1>3. CASE error # "none" BY <1>2, <1>3, ToldKept DEF Running
<1>4. CASE error = "none"
  <2> DEFINE t == Node(ridx)
  <2>1. t \in Trees /\ cur.type = Kind(t) /\ CellAt(pos + 1) = Own(t)[2] BY <1>1, <1>4, AtItem
  <2>2. t.type = cur.type BY <1>1, <2>1 DEF Kind
  <2>3. Len(Own(t)) = 2 /\ CellAt(pos + 1).v = t.v BY <1>1, <2>1, <2>2, OwnCells
  <2>4. t.elems = <<>> BY <1>1, <2>1, <2>2, ReaderAssumption
  <2>5. Create(cur.type, t.v, 0) /\ SetReply(Obj(cur.type)) /\ MoveToNextTask(rstack)
    BY <2>3 DEF LineItem
  <2>6. 1 \in Nat /\ 1 + 1 = Len(Own(t)) BY <2>3
  <2> QED BY <1>1, <1>2, <1>4, <2>2, <2>4, <2>5, <2>6, LeafSynced
<1> QED BY <1>3, <1>4

LEMMA SyncBulkItem == ASSUME MInv, Sync, BulkItem PROVE Sync'
<1>1. /\ pc = "parsing" /\ ridx \in 0 .. 2 /\ cur.type = "string" /\ cur.type # "none"
      /\ Has(1) /\ Has(BulkLength) /\ pos' = pos + BulkLength
  <2>1. ridx \in -1 .. 2 BY DEF MInv, RType
  <2> QED BY <2>1 DEF BulkItem
<1>2. Steady /\ UNCHANGED <<error, forest, emitted>>
  <2>1. BulkLength \in {1, 2} BY DEF BulkLength
  <2>2. pos + BulkLength \in 0 .. len BY <1>1, <2>1, CellThere
  <2> QED BY <1>1, <2>2 DEF BulkItem, Steady, Unmoved, callerVars
<1>3. CASE error # "none" BY <1>2, <1>3, ToldKept DEF Running
<1>4. CASE error = "none"
  <2> DEFINE t == Node(ridx)
  <2>1. /\ t \in Trees /\ cur.type = Kind(t) /\ CellAt(pos + 1) = Own(t)[2] /\ t.type # "bad"
        /\ Following /\ Within /\ Told \in Nat /\ Consumed = Start(ridx) + 1
    BY <1>1, <1>4, AtItem
  <2>2. t.type = "string" \/ (t.type = "nil" /\ t.v = 0) BY <1>1, <2>1 DEF Kind
  <2>3. t.elems = <<>> BY <2>1, <2>2, ReaderAssumption
  <2>4. CASE t.type = "string"
    <3>1. Len(Own(t)) = 3 /\ Own(t)[2].v = 1 /\ Own(t)[3].v = t.v BY <2>1, <2>4, OwnCells
    <3>2. BulkLength = 2 /\ ~(CellAt(pos + 1).v < 0) BY <2>1, <3>1 DEF BulkLength
    <3>3. CellAt(pos + 2) = Own(t)[1 + 2]
      <4>1. Has(2) /\ 1 + 2 <= Len(Own(t)) BY <1>1, <3>1, <3>2
      <4> QED BY <1>1, <1>4, <2>1, <4>1, CellOf
    <3>4. CellAt(pos + 2).v = t.v BY <3>1, <3>3
    <3>5. Create("string", t.v, 0) /\ SetReply(Obj("string")) /\ MoveToNextTask(rstack)
      BY <3>2, <3>4 DEF BulkItem
    <3>6. 2 \in Nat /\ 1 + 2 = Len(Own(t)) /\ pos' = pos + 2 BY <1>1, <3>1, <3>2
    <3> QED BY <1>1, <1>2, <1>4, <2>3, <2>4, <3>5, <3>6, LeafSynced
  <2>5. CASE t.type = "nil" /\ t.v = 0
    <3>1. Len(Own(t)) = 2 /\ Own(t)[2].v = -1 BY <2>1, <2>5, OwnCells
    <3>2. BulkLength = 1 /\ CellAt(pos + 1).v < 0 BY <2>1, <3>1 DEF BulkLength
    <3>3. Create("nil", t.v, 0) /\ SetReply(Obj("nil")) /\ MoveToNextTask(rstack)
      BY <2>5, <3>2 DEF BulkItem
    <3>4. 1 \in Nat /\ 1 + 1 = Len(Own(t)) /\ pos' = pos + 1 BY <1>1, <3>1, <3>2
    <3> QED BY <1>1, <1>2, <1>4, <2>3, <2>5, <3>3, <3>4, LeafSynced
  <2> QED BY <2>2, <2>4, <2>5
<1> QED BY <1>3, <1>4

LEMMA SyncMultiBulkItem == ASSUME MInv, Sync, MultiBulkItem PROVE Sync'
<1>1. /\ pc = "parsing" /\ ridx \in {0, 1} /\ ridx \in 0 .. 2 /\ cur.type = "array" /\ Has(1)
      /\ cur.type # "none" /\ pos' = pos + 1
  BY DEF MultiBulkItem
<1>2. Steady /\ UNCHANGED <<error, forest, emitted, fed, buf>>
  <2>1. pos + 1 \in 0 .. len BY <1>1, CellThere
  <2> QED BY <1>1, <2>1 DEF MultiBulkItem, Steady, Unmoved, callerVars
<1>3. CASE error # "none" BY <1>2, <1>3, ToldKept DEF Running
<1>4. CASE error = "none"
  <2> DEFINE t == Node(ridx)
             n == Len(t.elems)
  <2>1. /\ t \in Trees /\ cur.type = Kind(t) /\ CellAt(pos + 1) = Own(t)[2] /\ t.type # "bad"
        /\ Following /\ Within /\ Told \in Nat /\ Consumed = Start(ridx) + 1
        /\ Start(ridx) \in Nat
    BY <1>1, <1>4, AtItem
  <2>2. t.type = "array" \/ (t.type = "nil" /\ t.v = 1)
    <3>1. t.type = "nil" => t.v \in {0, 1} BY <2>1, ReaderAssumption
    <3> QED BY <1>1, <2>1, <3>1 DEF Kind
  <2>3. 1 \in Nat /\ 1 + 1 = 2 OBVIOUS
  <2>4. CASE t.type = "nil" /\ t.v = 1
    <3>1. Len(Own(t)) = 2 /\ Own(t)[2].v = -1 BY <2>1, <2>4, OwnCells
    <3>2. Create("nil", t.v, 0) /\ SetReply(Obj("nil")) /\ MoveToNextTask(rstack)
      BY <2>1, <2>4, <3>1 DEF MultiBulkItem
    <3>3. t.elems = <<>> BY <2>1, <2>4, ReaderAssumption
    <3> QED BY <1>1, <1>2, <1>4, <2>3, <2>4, <3>1, <3>2, <3>3, LeafSynced
  <2>5. CASE t.type = "array"
    <3>1. Len(Own(t)) = 2 /\ Own(t)[2].v = n /\ n \in Nat /\ t.v = 0 /\ t.elems \in Seq(Trees)
      BY <2>1, <2>5, OwnCells, TreeType, ReaderAssumption
    <3>2. /\ Create("array", t.v, n) /\ SetReply(Obj("array"))
          /\ IF n > 0 THEN PushTask(n) ELSE MoveToNextTask(rstack)
      <4>1. CellAt(pos + 1).v = n /\ n # -1 BY <2>1, <3>1
      <4> HIDE DEF t, n
      <4> QED BY <3>1, <4>1 DEF MultiBulkItem
    <3>3. CASE n = 0
      <4>1. t.elems = <<>> BY <3>1, <3>3
      <4>2. Create("array", t.v, 0) /\ MoveToNextTask(rstack) BY <3>2, <3>3
      <4> QED BY <1>1, <1>2, <1>4, <2>3, <2>5, <3>1, <3>2, <4>1, <4>2, LeafSynced
    <3>4. CASE n > 0
      <4>1. "array" \in TreeTypes \ {"bad"} /\ t.v \in Int BY <3>1 DEF TreeTypes
      <4>2. Placed(Obj("array"))
        BY <1>1, <3>1, <3>2, <4>1, CreatePlaces
      <4>3. fn # "NULL" => heap'[Obj("array")].type = "array" /\ heap'[Obj("array")].v = 0
        BY <1>1, <3>1, <3>2, <4>1, CreatePlaces
      <4>4. Filling BY <1>1, <2>1, <3>1, <3>2, <4>1, CreateFills
      <4>5. Consumed' = Start(ridx) + 2
        <5>1. Consumed' = Start(ridx) + 1 + 1 BY <1>1, <1>2, <1>4, <2>3, AtItem
        <5> QED BY <2>1, <5>1
      <4>6. Obj("array") \in Int BY <4>2 DEF Placed
      <4>7. PushTask(n) BY <3>2, <3>4
      <4>8. InStep'
        BY <1>1, <1>2, <2>1, <2>5, <3>1, <3>4, <4>3, <4>4, <4>5, <4>6, <4>7, PushSynced
      <4> QED BY <1>2, <4>8, ToldKept
    <3> QED BY <3>1, <3>3, <3>4
  <2> QED BY <2>2, <2>4, <2>5
<1> QED BY <1>3, <1>4

LEMMA SyncTooDeep == ASSUME MInv, Sync, TooDeep PROVE Sync'
<1>1. error' # "none" /\ UNCHANGED <<forest, emitted>>
  BY DEF TooDeep, SetError, Unmoved, callerVars
<1> QED BY <1>1, ToldKept DEF Running

\* The caller's calls, and the end of one, leave the place of the reader.
LEMMA StaySynced ==
    ASSUME MInv, Between, Within, Following', Consumed' = Consumed,
           UNCHANGED <<forest, emitted, heap, rstack, ridx>>, fn' = fn \/ ridx <= 0,
           ridx = -1 => pc = "idle" /\ pc' = "idle"
    PROVE  InStep'
<1>1. ridx \in -1 .. 2 BY DEF MInv, RType
<1>2. Told' = Told /\ EndOf(Told)' = EndOf(Told)
  BY DEF Told, EndOf, Encodings, Off, FlatTo, Flat
<1>3. Between' BY <1>2 DEF Between
<1>4. Within'
  <2> SUFFICES ASSUME ridx \in 0 .. 2 PROVE Within' BY <1>1 DEF Within
  <2>1. cur' = cur BY DEF cur
  <2>2. fn' = fn \/ ridx = 0 OBVIOUS
  <2>3. /\ \A i \in {0, 1} : i < ridx => Branch(i)'
        /\ Node(ridx)' = Node(ridx) /\ Start(ridx)' = Start(ridx)
        /\ Told' = Told /\ Len(forest)' = Len(forest)
    BY <2>2, WithinSame
  <2>4. Within BY DEF Within
  <2> QED BY <2>1, <2>3, <2>4 DEF Within
<1> QED BY <1>3, <1>4 DEF InStep

LEMMA SyncFeed == ASSUME MInv, Sync, Feed PROVE Sync'
<1>1. /\ UNCHANGED <<forest, fn, error, pos, rstack, ridx, heap, emitted, pc>> /\ pc = "idle"
  BY DEF Feed, heapVars, callerVars
<1>2. PICK n \in fed + 1 .. Len(Stream(forest)) :
         /\ buf' = buf \o SubSeq(Stream(forest), fed + 1, n)
         /\ fed' = n
  BY DEF Feed
<1>3. SUFFICES ASSUME error = "none" PROVE InStep' BY <1>1, ToldKept DEF Running
<1>4. InStep BY <1>1, <1>3 DEF Sync, Running
<1> DEFINE s == Stream(forest)
<1>5. s \in Seq(CellType) /\ Len(s) \in Nat BY FunctionSets, LenProperties
<1>6. fed \in 0 .. Len(s) /\ fed \in Nat /\ n \in Nat /\ n >= fed + 1 /\ n <= Len(s)
  <2>1. fed \in 0 .. Len(s) BY DEF MInv, RType
  <2> QED BY <1>5, <2>1
<1>7. buf \in Seq(CellType) /\ Len(buf) \in Nat /\ pos \in Nat /\ Len(buf) <= fed
  <2>1. buf \in Seq(CellType) /\ pos \in 0 .. len BY DEF MInv, RType
  <2> QED BY <1>4, <2>1, LenProperties DEF InStep, Following
<1> HIDE DEF s
<1> DEFINE piece == SubSeq(s, fed + 1, n)
<1>8. /\ piece \in Seq(CellType) /\ Len(piece) = n - fed
      /\ \A p \in 1 .. n - fed : piece[p] = s[fed + p]
  <2>1. fed + 1 \in 1 .. Len(s) + 1 /\ n \in 0 .. Len(s) BY <1>5, <1>6
  <2>2. piece \in Seq(CellType) BY <1>5, <1>6, <2>1
  <2>3. Len(piece) = n - fed
    <3>1. Len(piece) = n - (fed + 1) + 1 BY <1>5, <1>6, <2>1
    <3> QED BY <1>6, <3>1
  <2>4. ASSUME NEW p \in 1 .. n - fed PROVE piece[p] = s[fed + p]
    <3>1. piece[p] = s[fed + 1 + p - 1] BY <1>5, <1>6, <2>1, <2>4
    <3>2. fed + 1 + p - 1 = fed + p BY <1>6
    <3> QED BY <3>1, <3>2
  <2> QED BY <2>2, <2>3, <2>4
<1>9. buf' = buf \o piece BY <1>2 DEF s
<1> HIDE DEF piece
<1>10. /\ Len(buf') = Len(buf) + (n - fed)
       /\ \A p \in 1 .. Len(buf) + (n - fed) :
            buf'[p] = IF p <= Len(buf) THEN buf[p] ELSE piece[p - Len(buf)]
  <2> DEFINE d == n - fed
             c == buf \o piece
  <2>1. d \in Nat /\ Len(piece) = d BY <1>6, <1>8
  <2>2. /\ Len(c) = Len(buf) + Len(piece)
        /\ \A p \in 1 .. Len(buf) + Len(piece) :
             c[p] = IF p <= Len(buf) THEN buf[p] ELSE piece[p - Len(buf)]
    BY <1>7, <1>8, ConcatProperties
  <2> HIDE DEF d, c
  <2>3. /\ Len(c) = Len(buf) + d
        /\ \A p \in 1 .. Len(buf) + d :
             c[p] = IF p <= Len(buf) THEN buf[p] ELSE piece[p - Len(buf)]
    BY <2>1, <2>2
  <2> QED BY <1>9, <2>3 DEF c, d
<1>11. n - Len(buf') = fed - Len(buf) /\ Len(buf') <= n BY <1>6, <1>7, <1>10
<1>12. Following'
  <2>1. ASSUME NEW p \in 1 .. Len(buf') PROVE buf'[p] = s[n - Len(buf') + p]
    <3>1. p \in 1 .. Len(buf) + (n - fed) BY <1>10
    <3>2. CASE p <= Len(buf)
      <4>1. p \in 1 .. Len(buf) BY <1>7, <3>2
      <4>2. buf[p] = s[fed - Len(buf) + p] BY <1>4, <4>1 DEF InStep, Following, s
      <4> QED BY <1>10, <1>11, <3>1, <3>2, <4>2
    <3>3. CASE ~(p <= Len(buf))
      <4>1. p - Len(buf) \in 1 .. n - fed BY <1>6, <1>7, <3>1, <3>3
      <4>2. piece[p - Len(buf)] = s[fed + (p - Len(buf))] BY <1>8, <4>1
      <4>3. fed + (p - Len(buf)) = fed - Len(buf) + p BY <1>6, <1>7, <3>1
      <4> QED BY <1>10, <1>11, <3>1, <3>3, <4>2, <4>3
    <3> QED BY <3>2, <3>3
  <2>2. Stream(forest)' = s BY <1>1, StreamStays DEF s
  <2> QED BY <1>2, <1>11, <2>1, <2>2 DEF Following
<1>13. Consumed' = Consumed BY <1>1, <1>2, <1>11 DEF Consumed
<1> QED BY <1>1, <1>4, <1>12, <1>13, StaySynced DEF InStep

LEMMA SyncSetFunctions == ASSUME MInv, Sync, SetFunctions PROVE Sync'
<1>1. /\ UNCHANGED <<forest, fed, error, buf, pos, rstack, ridx, heap, emitted, pc>>
      /\ pc = "idle" /\ reply = 0
  BY DEF SetFunctions, readerVars, heapVars, callerVars
<1>2. SUFFICES ASSUME error = "none" PROVE InStep' BY <1>1, ToldKept DEF Running
<1>3. InStep BY <1>1, <1>2 DEF Sync, Running
<1>4. ridx <= 0
  <2>1. ~(ridx > 0) BY <1>1, NoReplyYet
  <2>2. ridx \in -1 .. 2 BY DEF MInv, RType
  <2> QED BY <2>1, <2>2
<1>5. Following' BY <1>1, <1>3, StreamStays DEF InStep, Following
<1>6. Consumed' = Consumed BY <1>1 DEF Consumed
<1> QED BY <1>1, <1>3, <1>4, <1>5, <1>6, StaySynced DEF InStep

LEMMA SyncDestroy == ASSUME MInv, Sync, Destroy PROVE Sync'
<1>1. pc' = "destroyed" /\ UNCHANGED <<forest, emitted>>
  BY DEF Destroy, FreeReply, callerVars
<1> QED BY <1>1, ToldKept DEF Running

LEMMA SyncGetReply == ASSUME MInv, Sync, GetReply PROVE Sync'
<1>1. UNCHANGED <<forest, fed, fn, error, reply, buf, pos, heap, emitted>> /\ pc = "idle"
  BY DEF GetReply, heapVars
<1>2. SUFFICES ASSUME error = "none" PROVE InStep' BY <1>1, ToldKept DEF Running
<1>3. InStep BY <1>1, <1>2 DEF Sync, Running
<1>4. Following' BY <1>1, <1>3, StreamStays DEF InStep, Following
<1>5. Consumed' = Consumed BY <1>1 DEF Consumed
<1>6. CASE len = 0 \/ ridx # -1
  <2>1. UNCHANGED <<rstack, ridx>> /\ (ridx = -1 => pc' = "idle")
    BY <1>1, <1>6 DEF GetReply
  <2> QED BY <1>1, <1>3, <1>4, <1>5, <2>1, StaySynced DEF InStep
<1>7. CASE len # 0 /\ ridx = -1
  <2>1. ridx' = 0 /\ rstack' = [rstack EXCEPT ![0] = Task(-1, -1)] BY <1>7 DEF GetReply
  <2>2. cur'.type = "none"
    <3>1. rstack \in [0 .. 2 -> TaskType] BY DEF MInv, RType
    <3>2. rstack'[0] = Task(-1, -1) BY <2>1, <3>1
    <3> QED BY <2>1, <3>2 DEF cur, Task
  <2>3. Consumed = EndOf(Told) BY <1>1, <1>3, <1>7 DEF InStep, Between
  <2>4. /\ len = Len(buf) /\ len \in Nat /\ pos = 0 /\ fed \in 0 .. Len(Stream(forest))
        /\ Len(Stream(forest)) \in Nat
    <3>1. RType BY DEF MInv
    <3>2. ~Stale BY <1>2 DEF Stale
    <3> QED BY <1>1, <3>1, <3>2, FunctionSets, LenProperties DEF RType
  <2>5. forest \in Forests /\ forest \in Seq(Trees) /\ Len(forest) \in Nat
    <3>1. forest \in Forests BY DEF MInv, RType
    <3> QED BY <3>1, ReaderAssumption, LenProperties
  <2>6. Told < Len(forest)
    <3>1. Told \in Nat /\ Told <= Len(forest) BY ToldType
    <3>2. Consumed < Len(Stream(forest)) BY <1>7, <2>4 DEF Consumed
    <3>3. EndOf(Len(forest)) = Len(Stream(forest))
      <4>1. Encodings(forest) \in Seq(Seq(CellType)) /\ Len(Encodings(forest)) = Len(forest)
        BY <2>5, EncodeType
      <4>2. Stream(forest) = FlattenSeq(Encodings(forest)) BY <2>5, StreamType
      <4> QED BY <4>1, <4>2, FlattenLength DEF EndOf
    <3>4. Told # Len(forest) BY <2>3, <2>4, <3>2, <3>3
    <3> QED BY <2>5, <3>1, <3>4
  <2>7. Start(ridx)' = EndOf(Told)
    <3>1. Start(ridx)' = StartAt(Root, EndOf(Told), rstack', 0) BY <1>1, <2>1, StartStep
    <3> QED BY <3>1, NodeBelow
  <2>8. Told' = Told /\ Len(forest)' = Len(forest) BY <1>1 DEF Told
  <2>9. \A i \in {0, 1} : ~(i < ridx') BY <2>1
  <2>10. Within' BY <1>5, <2>1, <2>2, <2>3, <2>6, <2>7, <2>8, <2>9 DEF Within
  <2>11. Between' BY <2>1 DEF Between
  <2> QED BY <1>4, <2>10, <2>11 DEF InStep
<1> QED BY <1>6, <1>7

LEMMA HandsOut ==
    ASSUME MInv, Answerable, Told + 1 \in 1 .. Len(forest), Whole(fn, heap, reply, Root)
    PROVE  reply # 0 /\ Answer \in Handed /\ IsReply(Answer, Root)
<1>1. /\ forest \in Forests /\ fn \in Functions[forest] /\ heap \in Seq(ObjectType)
      /\ AcyclicIn(heap)
  BY HeapBelow DEF MInv, RType
<1>2. Root \in Trees /\ Told + 1 \in DOMAIN forest
  <2>1. forest \in Seq(Trees) BY <1>1, ReaderAssumption
  <2> QED BY <2>1, ElementOfSeq, LenProperties DEF Root
<1>3. CASE fn = "NULL"
  <2>1. Root.type # "error" BY <1>1, <1>2, <1>3 DEF Answerable, Root
  <2>2. Root.type \in TreeTypes \ {"bad"} BY <1>2, <1>3, TreeType DEF Whole
  <2>3. reply = Code(Root.type) BY <1>3 DEF Whole
  <2>4. reply # 0 /\ Value(reply) = [type |-> Root.type, v |-> 0, elems |-> <<>>]
    BY <2>1, <2>2, <2>3, CodeValue
  <2> QED BY <1>3, <2>2, <2>4 DEF Handed, IsReply, Answer
<1>4. CASE fn # "NULL"
  <2>1. <<reply, Root>> \in Stands(heap) BY <1>4 DEF Whole
  <2>2. Value(reply) = Root /\ reply \in 1 .. Len(heap) BY <1>1, <2>1, StandsValue
  <2>3. reply # 0 BY <1>1, <2>2, LenProperties
  <2>4. fn = "default" BY <1>1, <1>4, FunctionSets
  <2> QED BY <1>2, <2>2, <2>3, <2>4 DEF Handed, IsReply, Answer
<1> QED BY <1>3, <1>4

\* The rest of the buffer is the next of the stream.
LEMMA DiscardFollows ==
    ASSUME MInv, Following, error = "none", DiscardConsumed, UNCHANGED <<forest, fed>>
    PROVE  Following' /\ Consumed' = Consumed
<1> DEFINE s == Stream(forest)
<1>1. buf' = SubSeq(buf, pos + 1, Len(buf)) /\ pos' = 0 BY DEF DiscardConsumed
<1>2. /\ buf \in Seq(CellType) /\ len = Len(buf) /\ Len(buf) \in Nat /\ pos \in 0 .. Len(buf)
      /\ Len(buf) <= fed /\ fed \in Nat
  <2>1. RType BY DEF MInv
  <2>2. ~Stale BY DEF Stale
  <2>3. Len(Stream(forest)) \in Nat BY FunctionSets, LenProperties
  <2> QED BY <2>1, <2>2, <2>3, LenProperties DEF RType, Following
<1>3. Len(buf') = Len(buf) - pos /\ \A p \in 1 .. Len(buf) - pos : buf'[p] = buf[pos + p]
  <2>1. pos + 1 \in 1 .. Len(buf) + 1 /\ Len(buf) \in 0 .. Len(buf) /\ pos \in Nat BY <1>2
  <2>2. Len(buf') = Len(buf) - pos BY <1>1, <1>2, <2>1
  <2>3. ASSUME NEW p \in 1 .. Len(buf) - pos PROVE buf'[p] = buf[pos + p]
    <3>1. buf'[p] = buf[pos + 1 + p - 1] BY <1>1, <1>2, <2>1, <2>3
    <3>2. pos + 1 + p - 1 = pos + p BY <2>1
    <3> QED BY <3>1, <3>2
  <2> QED BY <2>2, <2>3
<1>4. Consumed' = Consumed
  <2>1. pos' = 0 /\ fed' = fed /\ Len(buf') = Len(buf) - pos BY <1>1, <1>3
  <2>2. fed - (Len(buf) - pos) + 0 = fed - Len(buf) + pos BY <1>2
  <2> QED BY <2>1, <2>2 DEF Consumed
<1>5. ASSUME NEW p \in 1 .. Len(buf') PROVE buf'[p] = s[fed - Len(buf') + p]
  <2>1. pos + p \in 1 .. Len(buf) BY <1>2, <1>3
  <2>2. buf[pos + p] = s[fed - Len(buf) + (pos + p)] BY <2>1 DEF Following
  <2>3. fed - Len(buf) + (pos + p) = fed - Len(buf') + p BY <1>2, <1>3
  <2> QED BY <1>2, <1>3, <2>2, <2>3
<1>6. Stream(forest)' = s BY StreamStays
<1>7. Len(buf') <= fed BY <1>2, <1>3
<1> QED BY <1>4, <1>5, <1>6, <1>7 DEF Following

LEMMA SyncFinish == ASSUME MInv, Answerable, Sync, Finish PROVE Sync'
<1>1. /\ pc = "parsing" /\ pc' = "idle" /\ DiscardConsumed
      /\ UNCHANGED <<forest, fed, fn, error, rstack, ridx, heap>>
      /\ IF ridx = -1 THEN Emit ELSE result' = "none" /\ UNCHANGED <<reply, emitted, given>>
  BY DEF Finish, heapVars
<1>2. CASE error # "none"
  <2>1. emitted' = emitted BY <1>1, <1>2 DEF Emit
  <2> QED BY <1>1, <1>2, <2>1, ToldKept DEF Running
<1>3. CASE error = "none" /\ ridx # -1
  <2>1. InStep BY <1>1, <1>3 DEF Sync, Running
  <2>2. Following' /\ Consumed' = Consumed BY <1>1, <1>3, <2>1, DiscardFollows DEF InStep
  <2>3. emitted' = emitted BY <1>1, <1>3
  <2>4. InStep' BY <1>1, <1>3, <2>1, <2>2, <2>3, StaySynced DEF InStep
  <2> QED BY <1>1, <2>3, <2>4, ToldKept
<1>4. CASE error = "none" /\ ridx = -1
  <2>1. InStep BY <1>1, <1>4 DEF Sync, Running
  <2>2. Following' /\ Consumed' = Consumed BY <1>1, <1>4, <2>1, DiscardFollows DEF InStep
  <2>3. Told < Len(forest) /\ Consumed = EndOf(Told + 1) /\ Whole(fn, heap, reply, Root)
    BY <1>1, <1>4, <2>1 DEF InStep, Between
  <2>4. Told \in Nat /\ Len(forest) \in Nat /\ Told + 1 \in 1 .. Len(forest)
    <3>1. forest \in Seq(Trees) BY ReaderAssumption DEF MInv, RType
    <3>2. Len(forest) \in Nat BY <3>1, LenProperties
    <3> QED BY <2>3, <3>2, ToldType
  <2>5. reply # 0 /\ Answer \in Handed /\ IsReply(Answer, Root)
    BY <2>3, <2>4, HandsOut
  <2>6. emitted' = Append(emitted, Answer) BY <1>1, <1>4, <2>5 DEF Emit
  <2> DEFINE x == Answer
             e == emitted
  <2>7. e \in Seq(Handed) /\ x \in Handed BY <2>5 DEF Sync
  <2> HIDE DEF x, e
  <2>8. /\ Append(e, x) \in Seq(Handed) /\ Len(Append(e, x)) = Len(e) + 1
        /\ Append(e, x)[Len(e) + 1] = x /\ \A k \in 1 .. Len(e) : Append(e, x)[k] = e[k]
    BY <2>7, AppendProperties
  <2>9. /\ emitted' \in Seq(Handed) /\ Len(emitted') = Told + 1
        /\ emitted'[Told + 1] = Answer /\ \A k \in 1 .. Told : emitted'[k] = emitted[k]
    BY <2>6, <2>8 DEF x, e, Told
  <2>10. RepliesAsSent'
    <3>1. DOMAIN emitted' = 1 .. Told + 1 /\ DOMAIN emitted = 1 .. Told
      BY <2>7, <2>9, LenProperties DEF e, Told
    <3>2. ASSUME NEW k \in 1 .. Told + 1 PROVE IsReply(emitted'[k], forest[k])
      <4>1. CASE k = Told + 1 BY <2>5, <2>9, <4>1 DEF Root
      <4>2. CASE k # Told + 1
        <5>1. k \in 1 .. Told BY <2>4, <4>2
        <5>2. IsReply(emitted[k], forest[k]) BY <3>1, <5>1 DEF Sync, RepliesAsSent
        <5> QED BY <2>9, <5>1, <5>2
      <4> QED BY <4>1, <4>2
    <3> QED BY <1>1, <2>4, <2>9, <3>1, <3>2 DEF RepliesAsSent, IsReply
  <2>11. Between'
    <3>1. Told' = Told + 1 BY <2>9 DEF Told
    <3>2. EndOf(Told)' = EndOf(Told + 1)
      BY <1>1, <3>1 DEF EndOf, Encodings, Off, FlatTo, Flat
    <3> QED BY <1>1, <2>2, <2>3, <3>2 DEF Between
  <2>12. Within' BY <1>1, <1>4 DEF Within
  <2> QED BY <2>2, <2>9, <2>10, <2>11, <2>12 DEF Sync, InStep
<1> QED BY <1>2, <1>3, <1>4

-----------------------------------------------------------------------------
(***************************************************************************)
(* The theorems.                                                           *)
(***************************************************************************)
LEMMA InitSync == Init => Sync
<1> SUFFICES ASSUME Init PROVE Sync OBVIOUS
<1>1. /\ forest \in Forests /\ fed = 0 /\ buf = <<>> /\ pos = 0 /\ ridx = -1
      /\ emitted = <<>> /\ pc = "idle"
  BY DEF Init
<1>2. emitted \in Seq(Handed) /\ Len(emitted) = 0 /\ Len(buf) = 0 /\ DOMAIN emitted = {}
  BY <1>1
<1>3. RepliesAsSent
  <2>1. Len(forest) \in Nat BY <1>1, ReaderAssumption, LenProperties
  <2> QED BY <1>2, <2>1 DEF RepliesAsSent
<1>4. Following
  <2>1. 1 .. 0 = {} OBVIOUS
  <2> QED BY <1>1, <1>2, <2>1 DEF Following
<1>5. Between
  <2>1. Consumed = 0
    <3>1. fed = 0 /\ Len(buf) = 0 /\ pos = 0 BY <1>1, <1>2
    <3>2. fed - Len(buf) + pos = 0 BY ONLY <3>1
    <3> QED BY <3>2 DEF Consumed
  <2>2. EndOf(0) = 0 BY DEF EndOf, Off, FlatTo
  <2> QED BY <1>1, <1>2, <2>1, <2>2 DEF Between, Told
<1>6. Within BY <1>1 DEF Within
<1> QED BY <1>2, <1>3, <1>4, <1>5, <1>6 DEF Sync, InStep

LEMMA StepSync == ASSUME Answerable, MInv, Sync, [Next]_vars PROVE Sync'
<1>1. CASE UNCHANGED vars
  <2>1. UNCHANGED <<forest, fed, fn, error, buf, pos, len, rstack, ridx, heap, reply,
                    emitted, pc>>
    BY <1>1 DEF vars, readerVars, heapVars, callerVars
  <2>2. SUFFICES ASSUME Running PROVE InStep' BY <2>1, ToldKept DEF Running
  <2>3. InStep BY <2>2 DEF Sync
  <2>4. Following' BY <2>1, <2>3, StreamStays DEF InStep, Following
  <2>5. Consumed' = Consumed BY <2>1 DEF Consumed
  <2>6. CASE ridx = -1
    <3>1. Told' = Told /\ Root' = Root BY <2>1 DEF Told, Root
    <3>2. EndOf(Told)' = EndOf(Told) /\ EndOf(Told + 1)' = EndOf(Told + 1)
      BY <2>1, <3>1 DEF EndOf, Encodings, Off, FlatTo, Flat
    <3>3. Whole(fn, heap, reply, Root)' <=> Whole(fn, heap, reply, Root)
      BY <2>1, <3>1 DEF Whole, Stands, Matches
    <3>4. Between' BY <2>1, <2>3, <2>5, <3>1, <3>2, <3>3 DEF InStep, Between
    <3>5. Within' BY <2>1, <2>6 DEF Within
    <3> QED BY <2>4, <3>4, <3>5 DEF InStep
  <2>7. CASE ridx # -1 BY <2>1, <2>3, <2>4, <2>5, <2>7, StaySynced DEF InStep
  <2> QED BY <2>6, <2>7
<1>2. CASE Feed BY <1>2, SyncFeed
<1>3. CASE SetFunctions BY <1>3, SyncSetFunctions
<1>4. CASE Destroy BY <1>4, SyncDestroy
<1>5. CASE GetReply BY <1>5, SyncGetReply
<1>6. CASE ReadType BY <1>6, SyncReadType
<1>7. CASE LineItem BY <1>7, SyncLineItem
<1>8. CASE BulkItem BY <1>8, SyncBulkItem
<1>9. CASE MultiBulkItem BY <1>9, SyncMultiBulkItem
<1>10. CASE TooDeep BY <1>10, SyncTooDeep
<1>11. CASE Finish BY <1>11, SyncFinish
<1> QED
  BY <1>1, <1>2, <1>3, <1>4, <1>5, <1>6, <1>7, <1>8, <1>9, <1>10, <1>11 DEF Next

LEMMA SpecSync == Answerable => (Spec => []Sync)
<1> SUFFICES ASSUME Answerable PROVE Spec => []Sync OBVIOUS
<1>1. MInv /\ Sync /\ [Next]_vars => Sync' BY StepSync
<1> QED BY <1>1, InitSync, SpecMInv, PTL DEF Spec

\* Whatever the pieces the stream arrives in, however its calls are spread over
\* them, the caller is handed the replies the server sent, whole and in order.
THEOREM RepliesArrive == Answerable => (Spec => []RepliesAsSent)
<1> SUFFICES ASSUME Answerable PROVE Spec => []RepliesAsSent OBVIOUS
<1>1. Sync => RepliesAsSent BY DEF Sync
<1> QED BY <1>1, SpecSync, PTL

\* A reader that cannot go on lacks a part of the reply it is in.
LEMMA StuckMisses ==
    ASSUME MInv, Sync, error = "none", pc = "parsing", ridx \in 0 .. 2, Stuck
    PROVE  fed < EndOf(Told + 1) /\ Told < Len(forest)
<1> DEFINE t == Node(ridx)
           b == Start(ridx)
           own == Len(Own(t))
           all == Len(Encode[t])
           end == EndOf(Told + 1)
<1>1. Following /\ Within /\ Told \in Nat /\ Told < Len(forest)
  BY ToldType DEF Sync, Running, InStep, Within
<1>2. t \in Trees /\ b \in Nat /\ b + all <= end
  <2>1. ridx \in 0 .. ridx OBVIOUS
  <2>2. t \in Trees /\ Lies(Stream(forest), t, b) /\ b + all <= end BY <1>1, <2>1, NodeThere
  <2> QED BY <2>2 DEF Lies
<1>3. own \in Nat /\ own >= 1 /\ all \in Nat /\ all >= own
  <2>1. Len(Own(t)) \in 1 .. 3 BY <1>2, OwnType
  <2>2. /\ all = own + Off(Encodings(t.elems), Len(t.elems)) /\ all \in Nat
        /\ Off(Encodings(t.elems), Len(t.elems)) \in Nat
    BY <1>2, EncodeLength
  <2> DEFINE rest == Off(Encodings(t.elems), Len(t.elems))
  <2>3. own \in Nat /\ own >= 1 BY <2>1
  <2> HIDE DEF own, all, rest
  <2>4. all = own + rest /\ all \in Nat /\ rest \in Nat BY <2>2 DEF rest
  <2> QED BY <2>3, <2>4
<1>4. /\ len = Len(buf) /\ len \in Nat /\ pos \in 0 .. len /\ fed \in Nat /\ Len(buf) <= fed
  <2>1. RType BY DEF MInv
  <2>2. ~Stale BY DEF Stale
  <2>3. Len(Stream(forest)) \in Nat BY FunctionSets, LenProperties
  <2> QED BY <1>1, <2>1, <2>2, <2>3, LenProperties DEF RType, Following
<1>5. end \in Nat
  <2>1. /\ Lies(Stream(forest), Root, EndOf(Told)) /\ Root \in Trees
        /\ EndOf(Told) + Len(Encode[Root]) = end
    BY <1>1, NodeThere
  <2>2. EndOf(Told) \in Nat /\ Len(Encode[Root]) \in Nat BY <2>1, EncodeLength DEF Lies
  <2> DEFINE x == EndOf(Told)
             y == Len(Encode[Root])
  <2> HIDE DEF x, y
  <2>3. x + y \in Nat BY <2>2 DEF x, y
  <2> QED BY <2>1, <2>3 DEF x, y
<1> SUFFICES ASSUME NEW d \in 0 .. own - 1, fed = b + d PROVE fed < EndOf(Told + 1)
  <2>1. CASE ~Has(1)
    <3>1. Consumed = fed BY <1>4, <2>1 DEF Has, Consumed
    <3>2. CASE cur.type = "none"
      <4>1. fed = b + 0 /\ 0 \in 0 .. own - 1 BY <1>1, <1>2, <1>3, <3>1, <3>2 DEF Within
      <4> QED BY <1>1, <4>1
    <3>3. CASE cur.type # "none"
      <4>1. fed = b + 1 /\ t.type # "bad" BY <1>1, <3>1, <3>3 DEF Within
      <4>2. own >= 2 BY <1>2, <4>1, OwnCells
      <4>3. 1 \in 0 .. own - 1 BY <1>3, <4>2
      <4> QED BY <1>1, <4>1, <4>3
    <3> QED BY <3>2, <3>3
  <2>2. CASE Has(1) /\ cur.type = "string" /\ ~Has(BulkLength)
    <3>1. /\ cur.type = Kind(t) /\ t.type # "bad" /\ Consumed = b + 1
          /\ CellAt(pos + 1) = Own(t)[2]
      BY <2>2, AtItem
    <3>2. t.type = "string"
      <4>1. t.type = "string" \/ t.type = "nil" BY <2>2, <3>1 DEF Kind
      <4>2. CASE t.type = "nil"
        <5>1. Own(t)[2].v = -1 BY <1>2, <4>2, OwnCells
        <5>2. BulkLength = 1 BY <3>1, <5>1 DEF BulkLength
        <5> QED BY <2>2, <5>2
      <4> QED BY <4>1, <4>2
    <3>3. own = 3 /\ Own(t)[2].v = 1 BY <1>2, <3>2, OwnCells
    <3>4. BulkLength = 2 BY <3>1, <3>3 DEF BulkLength
    <3>5. pos + 1 = len BY <1>4, <2>2, <3>4 DEF Has
    <3>6. fed = b + 2
      <4>1. fed - len + pos = b + 1 BY <1>4, <3>1 DEF Consumed
      <4> HIDE DEF b
      <4> QED BY <1>2, <1>4, <3>5, <4>1
    <3>7. 2 \in 0 .. own - 1 BY <3>3
    <3> QED BY <1>1, <3>6, <3>7
  <2>3. ridx >= 0 OBVIOUS
  <2> QED BY <2>1, <2>2, <2>3 DEF Stuck
<1> HIDE DEF b, own, all, end
<1>6. fed < end BY <1>2, <1>3, <1>4, <1>5
<1> QED BY <1>6 DEF end

\* Until an error, the caller that is told there is no reply yet has not fed a
\* whole one: no reply stays in the reader because of how the stream was cut.
THEOREM NoReplyHeldBack == Answerable => (Spec => AnswersPromptly)
<1> SUFFICES ASSUME Answerable PROVE Spec => AnswersPromptly OBVIOUS
<1>1. MInv /\ Sync /\ [Next]_vars => [HeldBack]_vars
  <2> SUFFICES ASSUME MInv, Sync, Next PROVE HeldBack OBVIOUS
  <2> SUFFICES ASSUME pc = "parsing", pc' = "idle", result' = "none", error' = "none",
                      Told # Len(forest)
               PROVE  ~Complete(Told + 1)
    BY DEF HeldBack, Told
  <2>1. Finish
    <3>1. ~(Feed \/ SetFunctions \/ Destroy \/ GetReply)
      BY DEF Feed, SetFunctions, Destroy, GetReply
    <3>2. ~ReadType
      <4> SUFFICES ASSUME ReadType PROVE FALSE OBVIOUS
      <4>1. UNCHANGED pc \/ SetError("type byte") BY DEF ReadType
      <4>2. SetError("type byte") => error' = "type byte" BY DEF SetError
      <4> QED BY <4>1, <4>2
    <3>3. ~(LineItem \/ BulkItem \/ MultiBulkItem) BY DEF LineItem, BulkItem, MultiBulkItem
    <3>4. ~TooDeep
      <4>1. TooDeep => error' = "depth" BY DEF TooDeep, SetError
      <4> QED BY <4>1
    <3> QED BY <3>1, <3>2, <3>3, <3>4 DEF Next
  <2>2. /\ Stuck /\ error = "none"
        /\ IF ridx = -1 THEN Emit ELSE result' = "none"
    BY <2>1 DEF Finish
  <2>3. Told \in Nat /\ Told <= Len(forest) BY ToldType
  <2>4. Len(forest) \in Nat /\ forest \in Forests
    <3>1. forest \in Forests BY DEF MInv, RType
    <3> QED BY <3>1, ReaderAssumption, LenProperties
  <2>5. ridx # -1
    <3> SUFFICES ASSUME ridx = -1 PROVE FALSE OBVIOUS
    <3>1. Whole(fn, heap, reply, Root) BY <2>2 DEF Sync, Running, InStep, Between
    <3>2. Told + 1 \in 1 .. Len(forest) BY <2>3, <2>4
    <3>3. reply # 0 BY <3>1, <3>2, HandsOut
    <3>4. result' = "reply" BY <2>2, <3>3 DEF Emit
    <3> QED BY <3>4
  <2>6. ridx \in 0 .. 2
    <3>1. ridx \in -1 .. 2 BY DEF MInv, RType
    <3> QED BY <2>5, <3>1
  <2>7. fed < EndOf(Told + 1) BY <2>2, <2>6, StuckMisses
  <2>8. Len(Stream(SubSeq(forest, 1, Told + 1))) = EndOf(Told + 1)
    <3> DEFINE n == Told + 1
    <3>1. n \in 0 .. Len(forest) BY <2>3, <2>4
    <3> HIDE DEF n
    <3>2. Len(Stream(SubSeq(forest, 1, n))) = Off(Encodings(forest), n)
      BY <2>4, <3>1, PrefixLength
    <3> QED BY <3>2 DEF n, EndOf
  <2>9. fed \in Nat
    <3>1. Len(Stream(forest)) \in Nat BY FunctionSets, LenProperties
    <3>2. fed \in 0 .. Len(Stream(forest)) BY DEF MInv, RType
    <3> QED BY <3>1, <3>2
  <2>10. EndOf(Told + 1) \in Nat
    <3>1. Encodings(forest) \in Seq(Seq(CellType)) /\ Len(Encodings(forest)) = Len(forest)
      BY <2>4, EncodeType, ReaderAssumption
    <3> DEFINE E == Encodings(forest)
               n == Told + 1
    <3>2. n \in 0 .. Len(E) BY <2>3, <2>4, <3>1
    <3> HIDE DEF E, n
    <3>3. Off(E, n) \in Nat BY <3>1, <3>2, FlatToType DEF E
    <3> QED BY <3>3 DEF E, n, EndOf
  <2>11. ~(EndOf(Told + 1) <= fed) BY <2>7, <2>9, <2>10
  <2> QED BY <2>8, <2>11 DEF Complete
<1> QED BY <1>1, SpecMInv, SpecSync, PTL DEF Spec, AnswersPromptly

-----------------------------------------------------------------------------
(***************************************************************************)
(* Readers without functions.                                              *)
(***************************************************************************)
LEMMA NodeReadable ==
    ASSUME MInv, Told \in Nat, Within, ridx \in 0 .. 2, Readable(Root)
    PROVE  Node(ridx).type # "bad" /\ (ridx = 2 => Kind(Node(ridx)) # "array")
<1>1. \A i \in {0, 1} : i < ridx =>
         rstack[i + 1].idx + 1 \in 1 .. Len(Node(i).elems)
  <2> TAKE i \in {0, 1}
  <2> HAVE i < ridx
  <2>1. rstack[i + 1].idx \in 0 .. Len(Node(i).elems) - 1
    BY NodeThere DEF Path, Node
  <2>2. Len(Node(i).elems) \in Nat
    <3>1. i \in 0 .. ridx OBVIOUS
    <3> QED BY <3>1, NodeThere, TreeType
  <2> QED BY <2>1, <2>2
<1>2. CASE ridx = 0 BY <1>2 DEF Node, NodeAt, Readable
<1>3. CASE ridx = 1
  <2>1. rstack[1].idx + 1 \in 1 .. Len(Root.elems)
    <3>1. 0 < ridx /\ 0 + 1 = 1 /\ Node(0) = Root BY <1>3 DEF Node, NodeAt
    <3> QED BY <1>1, <3>1
  <2> QED BY <1>3, <2>1 DEF Node, NodeAt, Readable
<1>4. CASE ridx = 2
  <2>1. rstack[1].idx + 1 \in 1 .. Len(Root.elems)
    <3>1. 0 < ridx /\ 0 + 1 = 1 /\ Node(0) = Root BY <1>4 DEF Node, NodeAt
    <3> QED BY <1>1, <3>1
  <2>2. rstack[2].idx + 1 \in 1 .. Len(Root.elems[rstack[1].idx + 1].elems)
    <3>1. 1 < ridx /\ 1 + 1 = 2 /\ Node(1) = Root.elems[rstack[1].idx + 1]
      BY <1>4 DEF Node, NodeAt
    <3> QED BY <1>1, <3>1
  <2>3. Node(ridx) = Root.elems[rstack[1].idx + 1].elems[rstack[2].idx + 1]
    BY <1>4 DEF Node, NodeAt
  <2> QED BY <2>1, <2>2, <2>3 DEF Readable
<1> QED BY <1>2, <1>3, <1>4

Unharmed == pc # "crashed" /\ ("NULL" \in Functions[forest] => error = "none")

LEMMA ErrorHarms ==
    ASSUME MInv, "NULL" \notin Functions[forest], Unharmed, pc = "parsing", AnyError, Unmoved
    PROVE  Unharmed'
<1>1. fn # "NULL" BY DEF MInv, RType
<1>2. pc' = pc BY <1>1 DEF AnyError, SetError
<1> QED BY <1>2 DEF Unmoved, Unharmed

LEMMA StepUnharmed ==
    ASSUME Errorless, MInv, Sync, Unharmed, [Next]_vars
    PROVE  Unharmed'
<1>1. ASSUME UNCHANGED forest, error' = error, pc' # "crashed" PROVE Unharmed'
  BY <1>1 DEF Unharmed
<1>2. ASSUME "NULL" \in Functions[forest], pc = "parsing", ridx \in 0 .. 2
      PROVE  /\ error = "none" /\ Within /\ Following /\ Told \in Nat
             /\ Node(ridx) \in Trees /\ Node(ridx).type # "bad"
             /\ (ridx = 2 => Kind(Node(ridx)) # "array")
  <2>1. error = "none" BY <1>2 DEF Unharmed
  <2>2. Within /\ Following /\ Told \in Nat
    BY <1>2, <2>1, ToldType DEF Sync, Running, InStep
  <2>3. forest \in Forests BY DEF MInv, RType
  <2>4. Told + 1 \in DOMAIN forest
    <3>1. DOMAIN forest = 1 .. Len(forest) BY <2>3, ReaderAssumption, LenProperties
    <3> QED BY <1>2, <2>2, <3>1, NodeThere
  <2>5. Readable(Root) BY <1>2, <2>3, <2>4 DEF Errorless, Root
  <2>6. Node(ridx) \in Trees
    <3>1. ridx \in 0 .. ridx BY <1>2
    <3> QED BY <1>2, <2>2, <3>1, NodeThere
  <2> QED BY <1>2, <2>1, <2>2, <2>5, <2>6, NodeReadable
<1>3. CASE UNCHANGED vars BY <1>3 DEF vars, readerVars, Unharmed
<1>4. CASE Feed \/ SetFunctions \/ Destroy \/ GetReply \/ LineItem \/ BulkItem \/ MultiBulkItem
           \/ Finish
  <2>1. UNCHANGED forest /\ error' = error
    BY <1>4 DEF Feed, SetFunctions, Destroy, GetReply, LineItem, BulkItem, MultiBulkItem, Finish,
                Unmoved, readerVars
  <2>2. pc' = pc \/ pc' \in {"destroyed", "parsing", "idle"}
    BY <1>4 DEF Feed, SetFunctions, Destroy, FreeReply, GetReply, LineItem, BulkItem,
                MultiBulkItem, Finish
  <2>3. pc' # "crashed" BY <2>2 DEF Unharmed
  <2> QED BY <1>1, <2>1, <2>3
<1>5. CASE ReadType
  <2>1. /\ pc = "parsing" /\ ridx \in 0 .. 2 /\ cur.type = "none" /\ Has(1) /\ Unmoved
    <3>1. ridx \in -1 .. 2 BY DEF MInv, RType
    <3>2. pc = "parsing" /\ ridx >= 0 /\ cur.type = "none" /\ Has(1) /\ Unmoved
      BY <1>5 DEF ReadType
    <3> QED BY <3>1, <3>2
  <2>2. CASE UNCHANGED <<error, pc>> BY <1>1, <2>1, <2>2 DEF Unmoved, Unharmed
  <2>3. CASE CellAt(pos + 1).k \notin TypeBytes /\ SetError("type byte")
    <3>1. "NULL" \notin Functions[forest]
      <4> SUFFICES ASSUME "NULL" \in Functions[forest] PROVE FALSE OBVIOUS
      <4> DEFINE t == Node(ridx)
      <4>1. /\ error = "none" /\ Within /\ Following /\ Told \in Nat
            /\ t \in Trees /\ t.type # "bad"
        BY <1>2, <2>1
      <4>2. Consumed = Start(ridx) + 0
        <5>1. Consumed = Start(ridx) BY <2>1, <4>1 DEF Within
        <5>2. Consumed \in Nat BY <2>1, <4>1, CellIs
        <5> QED BY <5>1, <5>2
      <4>3. 0 + 1 <= Len(Own(t)) /\ 0 \in {0, 1} /\ 1 \in 1 .. 2 /\ 0 + 1 = 1
        BY <4>1, OwnType
      <4>4. CellAt(pos + 1) = Own(t)[1] BY <2>1, <4>1, <4>2, <4>3, CellOf
      <4>5. CellAt(pos + 1).k = Byte[Kind(t)] BY <4>1, <4>4, OwnCells
      <4>6. t.type \in TreeTypes BY <4>1, TreeType
      <4> HIDE DEF t
      <4>7. Kind(t) \in {"status", "error", "integer", "string", "array"}
        BY <4>1, <4>6 DEF Kind, TreeTypes
      <4>8. Byte[Kind(t)] \in TypeBytes BY <4>7 DEF Byte, TypeBytes
      <4> QED BY <2>3, <4>5, <4>8
    <3> QED BY <2>1, <2>3, <3>1, ErrorHarms DEF AnyError
  <2>4. \/ UNCHANGED <<error, pc>>
        \/ CellAt(pos + 1).k \notin TypeBytes /\ SetError("type byte")
    BY <1>5 DEF ReadType
  <2> QED BY <2>2, <2>3, <2>4
<1>6. CASE TooDeep
  <2>1. /\ pc = "parsing" /\ ridx = 2 /\ ridx \in 0 .. 2 /\ cur.type = "array"
        /\ SetError("depth") /\ Unmoved
    BY <1>6 DEF TooDeep
  <2>2. "NULL" \notin Functions[forest]
    <3> SUFFICES ASSUME "NULL" \in Functions[forest] PROVE FALSE OBVIOUS
    <3>1. Within /\ Kind(Node(ridx)) # "array" BY <1>2, <2>1
    <3>2. cur.type = Kind(Node(ridx)) BY <2>1, <3>1 DEF Within
    <3> QED BY <2>1, <3>1, <3>2
  <2> QED BY <2>1, <2>2, ErrorHarms DEF AnyError
<1> QED BY <1>3, <1>4, <1>5, <1>6 DEF Next

\* A reader is not made to free an object through a function set it lacks, at
\* whatever point of a reply it is destroyed: that takes a protocol error.
THEOREM NeverCrashes == Answerable /\ Errorless => (Spec => []NoCrash)
<1> SUFFICES ASSUME Answerable, Errorless PROVE Spec => []NoCrash OBVIOUS
<1>1. Init => Unharmed BY DEF Init, Unharmed
<1>2. MInv /\ Sync /\ Unharmed /\ [Next]_vars => Unharmed' BY StepUnharmed
<1>3. Unharmed => NoCrash BY DEF Unharmed, NoCrash
<1> QED BY <1>1, <1>2, <1>3, SpecMInv, SpecSync, PTL DEF Spec
=============================================================================
