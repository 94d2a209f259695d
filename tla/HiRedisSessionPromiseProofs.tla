--------------------- MODULE HiRedisSessionPromiseProofs ---------------------
(***************************************************************************)
(* HiRedisSession implements CommandSession: for a script that keeps clear *)
(* of the patterns, over a connection that may be lost at any time, every  *)
(* step is one that CommandSession allows.                                 *)
(***************************************************************************)
EXTENDS HiRedisSessionProofs, WellFoundedInduction

(***************************************************************************)
(* FlattenSeq, one part at a time.                                         *)
(***************************************************************************)
LEMMA Least ==
    ASSUME NEW T \in SUBSET Nat, T # {}
    PROVE  \E x \in T : \A y \in T : x <= y
<1>1. PICK x \in T : \A y \in T : ~ (<<y, x>> \in OpToRel(<, Nat))
  BY NatLessThanWellFounded, WFMin
<1>2. ASSUME NEW y \in T PROVE x <= y
  <2>1. <<y, x>> \notin {ss \in Nat \X Nat : ss[1] < ss[2]} BY <1>1 DEF OpToRel
  <2>2. x \in Nat /\ y \in Nat OBVIOUS
  <2>3. ~(y < x) BY <2>1, <2>2
  <2> QED BY <2>2, <2>3
<1> QED BY <1>2

IsFlat(g, seqs, n) ==
    g = [i \in 1 .. n |-> IF i = 1 THEN seqs[i] ELSE g[i-1] \o seqs[i]]
Flat(seqs) == CHOOSE g : g = [i \in 1 .. Len(seqs) |->
                                 IF i = 1 THEN seqs[i] ELSE g[i-1] \o seqs[i]]

LEMMA FlatExists ==
    ASSUME NEW seqs, NEW n \in Nat
    PROVE  \E g : IsFlat(g, seqs, n)
<1> DEFINE T == {m \in Nat : ~ \E g : IsFlat(g, seqs, m)}
<1>1. SUFFICES ASSUME T # {} PROVE FALSE OBVIOUS
<1>2. PICK m \in T : \A y \in T : m <= y BY <1>1, Least
<1>3. CASE m = 0
  <2> DEFINE g == [i \in 1 .. 0 |-> seqs[i]]
  <2>1. g = [i \in 1 .. 0 |-> IF i = 1 THEN seqs[i] ELSE g[i-1] \o seqs[i]]
    BY 1 .. 0 = {}, Zenon
  <2>2. IsFlat(g, seqs, 0) BY <2>1 DEF IsFlat
  <2> QED BY <1>2, <1>3, <2>2
<1>4. CASE m > 0
  <2>1. m - 1 \in Nat /\ m - 1 \notin T /\ m \in Nat BY <1>2, <1>4
  <2>2. PICK h : IsFlat(h, seqs, m - 1) BY <2>1
  <2> DEFINE g == [i \in 1 .. m |-> IF i = 1 THEN seqs[i] ELSE h[i-1] \o seqs[i]]
  <2>3. ASSUME NEW i \in 1 .. m - 1 PROVE g[i] = h[i]
    <3>1. g[i] = IF i = 1 THEN seqs[i] ELSE h[i-1] \o seqs[i] BY <2>1
    <3> QED BY <2>2, <3>1 DEF IsFlat
  <2>4. ASSUME NEW i \in 1 .. m, i # 1 PROVE g[i-1] = h[i-1]
    <3>1. i - 1 \in 1 .. m - 1 BY <2>1, <2>4
    <3> QED BY <3>1, <2>3
  <2> HIDE DEF g
  <2>5. g = [i \in 1 .. m |-> IF i = 1 THEN seqs[i] ELSE g[i-1] \o seqs[i]]
    BY <2>4 DEF g
  <2>6. IsFlat(g, seqs, m) BY <2>5 DEF IsFlat
  <2> QED BY <1>2, <2>6
<1> QED BY <1>2, <1>3, <1>4

LEMMA FlatUnfolds ==
    ASSUME NEW seqs, Len(seqs) \in Nat
    PROVE  /\ \A i \in 1 .. Len(seqs) :
                 Flat(seqs)[i] = IF i = 1 THEN seqs[i] ELSE Flat(seqs)[i-1] \o seqs[i]
           /\ FlattenSeq(seqs) = IF Len(seqs) = 0 THEN seqs ELSE Flat(seqs)[Len(seqs)]
<1>1. IsFlat(Flat(seqs), seqs, Len(seqs)) BY FlatExists DEF IsFlat, Flat
<1>2. FlattenSeq(seqs) = IF Len(seqs) = 0 THEN seqs ELSE Flat(seqs)[Len(seqs)]
  BY DEF FlattenSeq, Flat
<1> QED BY <1>1, <1>2 DEF IsFlat

LEMMA FlattenAppend ==
    ASSUME NEW S, NEW w \in Seq(Seq(S)), NEW x \in Seq(S)
    PROVE  /\ FlattenSeq(w) \in Seq(S)
           /\ FlattenSeq(Append(w, x)) = FlattenSeq(w) \o x
<1> DEFINE n == Len(w)
           v == Append(w, x)
           g == Flat(w)
           h == Flat(v)
           T == {m \in Nat : m \in 1 .. n /\ ~(h[m] = g[m] /\ g[m] \in Seq(S))}
<1>1. /\ n \in Nat /\ Len(v) = n + 1 /\ v[n + 1] = x
      /\ \A i \in 1 .. n : v[i] = w[i] /\ w[i] \in Seq(S)
  BY LenProperties, AppendProperties, ElementOfSeq
<1>2. /\ \A i \in 1 .. n : g[i] = IF i = 1 THEN w[i] ELSE g[i-1] \o w[i]
      /\ \A i \in 1 .. n + 1 : h[i] = IF i = 1 THEN v[i] ELSE h[i-1] \o v[i]
      /\ FlattenSeq(w) = IF n = 0 THEN w ELSE g[n]
      /\ FlattenSeq(v) = h[n + 1]
  <2>1. n + 1 \in Nat /\ n + 1 # 0 BY <1>1
  <2> QED BY <1>1, <2>1, FlatUnfolds
<1> HIDE DEF n, v, g, h
<1>3. ASSUME T # {} PROVE FALSE
  <2>1. PICK m \in T : \A y \in T : m <= y BY <1>3, Least
  <2>2. m \in 1 .. n /\ m \in 1 .. n + 1 BY <1>1, <2>1
  <2>3. CASE m = 1 BY <1>1, <1>2, <2>1, <2>2, <2>3
  <2>4. CASE m # 1
    <3>1. m - 1 \in 1 .. n /\ m - 1 \notin T BY <1>1, <2>1, <2>2, <2>4
    <3>2. h[m - 1] = g[m - 1] /\ g[m - 1] \in Seq(S) BY <3>1
    <3>3. h[m] = g[m - 1] \o w[m] /\ g[m] = g[m - 1] \o w[m] /\ w[m] \in Seq(S)
      BY <1>1, <1>2, <2>2, <2>4, <3>2
    <3>4. g[m] \in Seq(S) BY <3>2, <3>3, ConcatProperties
    <3> QED BY <2>1, <3>3, <3>4
  <2> QED BY <2>3, <2>4
<1>4. \A m \in 1 .. n : h[m] = g[m] /\ g[m] \in Seq(S)
  <2>1. 1 .. n \subseteq Nat BY <1>1
  <2> QED BY <1>3, <2>1
<1>5. CASE n = 0
  <2>1. w = <<>> BY <1>5, EmptySeq DEF n
  <2>2. n + 1 = 1 /\ 1 \in 1 .. n + 1 /\ v[1] = x BY <1>1, <1>5
  <2>3. h[1] = x
    <3>1. h[1] = IF 1 = 1 THEN v[1] ELSE h[1-1] \o v[1] BY <1>2, <2>2
    <3> QED BY <2>2, <3>1
  <2>4. <<>> \o x = x /\ <<>> \in Seq(S) BY ConcatEmptySeq
  <2> QED BY <1>2, <1>5, <2>1, <2>2, <2>3, <2>4 DEF v
<1>6. CASE n # 0
  <2>1. n \in 1 .. n /\ n + 1 \in 1 .. n + 1 /\ n + 1 # 1 /\ n + 1 - 1 = n BY <1>1, <1>6
  <2>2. h[n + 1] = h[n] \o x
    <3>1. ASSUME NEW i \in 1 .. n + 1, i # 1 PROVE h[i] = h[i - 1] \o v[i]
      BY <1>2, <3>1, Zenon
    <3>2. PICK i \in 1 .. n + 1 : i = n + 1 BY <2>1
    <3>3. i # 1 /\ i - 1 = n BY <1>1, <1>6, <3>2
    <3>4. h[i] = h[i - 1] \o v[i] BY <3>1, <3>3
    <3>5. h[n + 1] = h[n] \o v[n + 1] BY <3>2, <3>3, <3>4, Zenon
    <3> QED BY <1>1, <3>5
  <2>3. h[n] = g[n] /\ g[n] \in Seq(S) BY <1>4, <2>1
  <2> QED BY <1>2, <1>6, <2>2, <2>3 DEF v
<1> QED BY <1>5, <1>6

LEMMA FlattenNone == FlattenSeq(<<>>) = <<>>
  BY DEF FlattenSeq

-----------------------------------------------------------------------------
(***************************************************************************)
(* What send() owes for a queue, one node at a time.                       *)
(***************************************************************************)
LEMMA OwedAppend ==
    ASSUME NEW s, NEW l, NEW q \in Seq(Node), NEW n \in Node
    PROVE  /\ Owed(s, l, Append(q, n)) = Owed(s, l, q) \o Wanted(s, l, n)
           /\ \E S : Owed(s, l, q) \in Seq(S) /\ Wanted(s, l, n) \in Seq(S)
<1> DEFINE W(k) == Wanted(s, l, k)
           S == {W(k)[1] : k \in Node}
           w == [k \in DOMAIN q |-> W(q[k])]
           v == [k \in DOMAIN Append(q, n) |-> W(Append(q, n)[k])]
<1>1. ASSUME NEW k \in Node PROVE W(k) \in Seq(S)
  <2>1. W(k)[1] \in S BY <1>1
  <2>2. W(k) = <<>> \/ W(k) = <<W(k)[1]>> BY DEF Wanted
  <2> HIDE DEF W, S
  <2>3. <<>> \in Seq(S) /\ <<W(k)[1]>> \in Seq(S) BY <2>1
  <2> QED BY <2>2, <2>3
<1> HIDE DEF W, S
<1>2. /\ DOMAIN q = 1 .. Len(q) /\ Len(q) \in Nat
      /\ Append(q, n) \in Seq(Node) /\ Len(Append(q, n)) = Len(q) + 1
      /\ Append(q, n)[Len(q) + 1] = n
      /\ \A k \in 1 .. Len(q) : Append(q, n)[k] = q[k] /\ q[k] \in Node
  BY LenProperties, AppendProperties, ElementOfSeq
<1>3. DOMAIN Append(q, n) = 1 .. Len(q) + 1 BY <1>2, LenProperties
<1>4. w \in Seq(Seq(S)) /\ Len(w) = Len(q)
  <2>1. \A k \in 1 .. Len(q) : W(q[k]) \in Seq(S) BY <1>1, <1>2
  <2>2. w \in [1 .. Len(q) -> Seq(S)] BY <1>2, <2>1
  <2> HIDE DEF w
  <2>3. w \in Seq(Seq(S)) BY <1>2, <2>2
  <2>4. DOMAIN w = 1 .. Len(q) BY <2>2
  <2> QED BY <1>2, <2>3, <2>4, LenProperties
<1>5. v = Append(w, W(n))
  <2>1. W(n) \in Seq(S) BY <1>1
  <2>2. /\ Append(w, W(n)) \in Seq(Seq(S)) /\ Len(Append(w, W(n))) = Len(q) + 1
        /\ Append(w, W(n))[Len(q) + 1] = W(n)
        /\ \A k \in 1 .. Len(q) : Append(w, W(n))[k] = w[k]
    BY <1>4, <2>1, AppendProperties
  <2>3. /\ DOMAIN Append(w, W(n)) = 1 .. Len(q) + 1
        /\ Append(w, W(n)) = [k \in DOMAIN Append(w, W(n)) |-> Append(w, W(n))[k]]
    BY <1>2, <2>2, LenProperties
  <2>4. ASSUME NEW k \in 1 .. Len(q) + 1 PROVE W(Append(q, n)[k]) = Append(w, W(n))[k]
    <3>1. CASE k = Len(q) + 1 BY <1>2, <2>2, <3>1
    <3>2. CASE k \in 1 .. Len(q) BY <1>2, <2>2, <3>2
    <3> QED BY <1>2, <3>1, <3>2
  <2> HIDE DEF w
  <2> QED BY <1>3, <2>3, <2>4
<1>6. /\ FlattenSeq(w) \in Seq(S)
      /\ FlattenSeq(Append(w, W(n))) = FlattenSeq(w) \o W(n)
  <2> HIDE DEF w
  <2> QED BY <1>1, <1>4, FlattenAppend
<1>7. Owed(s, l, q) = FlattenSeq(w) /\ Owed(s, l, Append(q, n)) = FlattenSeq(v)
  BY DEF Owed, W
<1>8. W(n) = Wanted(s, l, n) BY DEF W
<1> HIDE DEF w, v
<1> QED BY <1>1, <1>5, <1>6, <1>7, <1>8

LEMMA OwedSame ==
    ASSUME NEW s, NEW l, NEW t, NEW h, NEW q,
           \A k \in DOMAIN q : Wanted(t, h, q[k]) = Wanted(s, l, q[k])
    PROVE  Owed(t, h, q) = Owed(s, l, q)
<1>1. [k \in DOMAIN q |-> Wanted(t, h, q[k])] = [k \in DOMAIN q |-> Wanted(s, l, q[k])]
  OBVIOUS
<1> QED BY <1>1 DEF Owed

LEMMA OwedNone == ASSUME NEW s, NEW l PROVE Owed(s, l, <<>>) = <<>>
<1>1. [k \in DOMAIN <<>> |-> Wanted(s, l, <<>>[k])] = <<>> OBVIOUS
<1> QED BY <1>1, FlattenNone DEF Owed

\* Results that are delivered stay so when the next are appended.
LEMMA DeliversMore ==
    ASSUME NEW A, NEW B, NEW xs \in Seq(A), NEW ys \in Seq(A), NEW ws \in Seq(B),
           NEW os \in Seq(B), Promise!Delivers(xs, ws), Promise!Delivers(ys, os)
    PROVE  Promise!Delivers(xs \o ys, ws \o os)
<1>1. /\ Len(xs) \in Nat /\ Len(ys) \in Nat /\ Len(ws) = Len(xs) /\ Len(os) = Len(ys)
      /\ \A k \in 1 .. Len(xs) : Promise!Satisfies(xs[k], ws[k])
      /\ \A k \in 1 .. Len(ys) : Promise!Satisfies(ys[k], os[k])
  BY LenProperties DEF Promise!Delivers
<1>2. /\ Len(xs \o ys) = Len(xs) + Len(ys) /\ Len(ws \o os) = Len(xs) + Len(ys)
      /\ \A k \in 1 .. Len(xs) + Len(ys) :
            /\ (xs \o ys)[k] = IF k <= Len(xs) THEN xs[k] ELSE ys[k - Len(xs)]
            /\ (ws \o os)[k] = IF k <= Len(xs) THEN ws[k] ELSE os[k - Len(xs)]
  <2>1. /\ Len(xs \o ys) = Len(xs) + Len(ys)
        /\ \A k \in 1 .. Len(xs) + Len(ys) :
              (xs \o ys)[k] = IF k <= Len(xs) THEN xs[k] ELSE ys[k - Len(xs)]
    BY ConcatProperties
  <2>2. /\ Len(ws \o os) = Len(ws) + Len(os)
        /\ \A k \in 1 .. Len(ws) + Len(os) :
              (ws \o os)[k] = IF k <= Len(ws) THEN ws[k] ELSE os[k - Len(ws)]
    BY ConcatProperties
  <2> QED BY <1>1, <2>1, <2>2
<1>3. ASSUME NEW k \in 1 .. Len(xs) + Len(ys)
      PROVE  Promise!Satisfies((xs \o ys)[k], (ws \o os)[k])
  <2>1. CASE k <= Len(xs)
    <3>1. k \in 1 .. Len(xs) BY <1>1, <2>1
    <3> QED BY <1>1, <1>2, <2>1, <3>1
  <2>2. CASE ~(k <= Len(xs))
    <3>1. k - Len(xs) \in 1 .. Len(ys) BY <1>1, <2>2
    <3> QED BY <1>1, <1>2, <2>2, <3>1
  <2> QED BY <2>1, <2>2
<1> QED BY <1>2, <1>3 DEF Promise!Delivers

LEMMA DeliversNone == Promise!Delivers(<<>>, <<>>)
<1>1. Len(<<>>) = 0 /\ 1 .. 0 = {} OBVIOUS
<1> QED BY <1>1 DEF Promise!Delivers

-----------------------------------------------------------------------------
(***************************************************************************)
(* The numbers of the commands in a list.                                  *)
(***************************************************************************)
\* list has the commands of the transaction that ends with command n of s in
\* their order, and nothing but status nodes behind them.
Numbers(s, list, n) ==
    \A m \in 1 .. n : Tx(s, m, n) =>
        /\ \A k \in 1 .. n - m : list[k].of = m + k
        /\ \A k \in n - m + 1 .. Len(list) : s[list[k].of] = "MULTI"

LEMMA IdsNone == ASSUME NEW s PROVE IdsIn(s, <<>>) = <<>>
  BY DEF IdsIn

LEMMA IdsGrow ==
    ASSUME NEW s, NEW t, Grows(s, t), Len(s) \in Nat, NEW list \in Seq(Node),
           \A k \in 1 .. Len(list) : list[k].of \in 1 .. Len(s)
    PROVE  IdsIn(t, list) = IdsIn(s, list)
<1>1. \A k \in DOMAIN list : t[list[k].of] = s[list[k].of]
  BY LenProperties DEF Grows
<1>2. {j \in DOMAIN list : t[list[j].of] # "MULTI"}
        = {j \in DOMAIN list : s[list[j].of] # "MULTI"}
  BY <1>1
<1> QED BY <1>2 DEF IdsIn

LEMMA IdsStatus ==
    ASSUME NEW t, NEW list \in Seq(Node), NEW n \in Node, t[n.of] = "MULTI"
    PROVE  IdsIn(t, Append(list, n)) = IdsIn(t, list)
<1> DEFINE new == Append(list, n)
           own == {j \in DOMAIN list : t[list[j].of] # "MULTI"}
<1>1. /\ DOMAIN list = 1 .. Len(list) /\ Len(list) \in Nat
      /\ DOMAIN new = 1 .. Len(list) + 1 /\ new[Len(list) + 1] = n
      /\ \A k \in 1 .. Len(list) : new[k] = list[k]
  BY LenProperties, AppendProperties
<1> HIDE DEF new
<1>2. {j \in DOMAIN new : t[new[j].of] # "MULTI"} = own
  <2>1. ASSUME NEW j, j \in DOMAIN new /\ t[new[j].of] # "MULTI" PROVE j \in own
    <3>1. j # Len(list) + 1 BY <1>1, <2>1
    <3>2. j \in 1 .. Len(list) BY <1>1, <2>1, <3>1
    <3> QED BY <1>1, <2>1, <3>2
  <2>2. ASSUME NEW j \in own PROVE j \in DOMAIN new /\ t[new[j].of] # "MULTI"
    BY <1>1
  <2> QED BY <2>1, <2>2
<1>3. \A k \in own : new[k].of = list[k].of BY <1>1
<1>4. [k \in own |-> new[k].of] = [k \in own |-> list[k].of] BY <1>3
<1> HIDE DEF own
<1> QED BY <1>2, <1>4 DEF IdsIn, new, own

LEMMA IdsNumbers ==
    ASSUME NEW s, NEW list \in Seq(Node), NEW n \in Nat, NEW m \in 1 .. n, Tx(s, m, n),
           Numbers(s, list, n), Len(list) >= n - m
    PROVE  IdsIn(s, list) = [k \in 1 .. n - m |-> m + k]
<1>1. "MULTI" \notin Ops BY SessionAssumption DEF SessionAssumption, AllOps
<1>2. /\ \A k \in 1 .. n - m : list[k].of = m + k
      /\ \A k \in n - m + 1 .. Len(list) : s[list[k].of] = "MULTI"
  BY DEF Numbers
<1>3. DOMAIN list = 1 .. Len(list) /\ Len(list) \in Nat BY LenProperties
<1>4. \A k \in 1 .. n - m : s[list[k].of] # "MULTI"
  <2> TAKE k \in 1 .. n - m
  <2>1. m + k \in m + 1 .. n OBVIOUS
  <2>2. s[m + k] \in Ops BY <2>1 DEF Tx
  <2> QED BY <1>1, <1>2, <2>2
<1>5. {j \in DOMAIN list : s[list[j].of] # "MULTI"} = 1 .. n - m
  <2>1. ASSUME NEW j \in DOMAIN list, s[list[j].of] # "MULTI" PROVE j \in 1 .. n - m
    <3>1. ~(j \in n - m + 1 .. Len(list)) BY <1>2, <2>1
    <3>2. j \in 1 .. Len(list) BY <1>3
    <3> QED BY <1>3, <3>1, <3>2
  <2>2. 1 .. n - m \subseteq DOMAIN list BY <1>3
  <2> QED BY <1>4, <2>1, <2>2
<1> QED BY <1>2, <1>5 DEF IdsIn

LEMMA GrowsNumbers ==
    ASSUME NEW s, NEW t, Grows(s, t), Len(s) \in Nat, NEW n \in 0 .. Len(s),
           NEW list \in Seq(Node), \A k \in 1 .. Len(list) : list[k].of \in 1 .. Len(s),
           Numbers(s, list, n), Fits(s, list, n)
    PROVE  Numbers(t, list, n)
<1> SUFFICES ASSUME NEW m \in 1 .. n, Tx(t, m, n)
             PROVE  /\ \A k \in 1 .. n - m : list[k].of = m + k
                    /\ \A k \in n - m + 1 .. Len(list) : t[list[k].of] = "MULTI"
  BY DEF Numbers
<1>1. Tx(s, m, n) BY GrowsTx
<1>2. /\ \A k \in 1 .. n - m : list[k].of = m + k
      /\ \A k \in n - m + 1 .. Len(list) : s[list[k].of] = "MULTI"
  BY <1>1 DEF Numbers
<1>3. \A k \in 1 .. Len(list) : t[list[k].of] = s[list[k].of] BY DEF Grows
<1>4. n - m + 1 .. Len(list) \subseteq 1 .. Len(list) BY LenProperties
<1> QED BY <1>2, <1>3, <1>4

\* A status node behind them changes nothing.
LEMMA StatusNumbers ==
    ASSUME NEW t, NEW list \in Seq(Node), NEW node \in Node, t[node.of] = "MULTI",
           NEW n \in Nat, Numbers(t, list, n), Fits(t, list, n)
    PROVE  Numbers(t, Append(list, node), n)
<1> DEFINE new == Append(list, node)
<1>1. /\ Len(list) \in Nat /\ Len(new) = Len(list) + 1 /\ new[Len(list) + 1] = node
      /\ \A k \in 1 .. Len(list) : new[k] = list[k]
  BY LenProperties, AppendProperties
<1> HIDE DEF new
<1> SUFFICES ASSUME NEW m \in 1 .. n, Tx(t, m, n)
             PROVE  /\ \A k \in 1 .. n - m : new[k].of = m + k
                    /\ \A k \in n - m + 1 .. Len(new) : t[new[k].of] = "MULTI"
  BY DEF Numbers, new
<1>2. /\ \A k \in 1 .. n - m : list[k].of = m + k
      /\ \A k \in n - m + 1 .. Len(list) : t[list[k].of] = "MULTI"
      /\ Len(list) >= n - m
  BY DEF Numbers, Fits
<1>3. \A k \in 1 .. n - m : new[k] = list[k] BY SMTT(30), <1>1, <1>2
<1>4. ASSUME NEW k \in n - m + 1 .. Len(new) PROVE t[new[k].of] = "MULTI"
  <2>1. CASE k = Len(list) + 1 BY <1>1, <2>1
  <2>2. CASE k # Len(list) + 1
    <3>1. k \in n - m + 1 .. Len(list) /\ k \in 1 .. Len(list) BY <1>1, <2>2
    <3> QED BY <1>1, <1>2, <3>1
  <2> QED BY <2>1, <2>2
<1> QED BY <1>2, <1>3, <1>4

-----------------------------------------------------------------------------
(***************************************************************************)
(* The invariant of the refinement, for a connection that is up.           *)
(***************************************************************************)
NodesKnown == \A h \in 1 .. Len(lists) :
                 \A k \in 1 .. Len(lists[h]) : lists[h][k].of \in 1 .. issued

\* The list of a join node has the commands of its transaction, and no other
\* command is added to it.
JoinNumbers ==
    pipeline = 1 => \A k \in 1 .. Len(queue) : queue[k].list # 0 =>
        /\ Numbers(cmds, lists[queue[k].list], queue[k].of - 1)
        /\ mode = "TRANSACTION" => queue[k].list # head

HeadNumbers == mode = "TRANSACTION" => Numbers(cmds, ListAt(head), TxEnd)

\* What send() has so far is what it owes for the nodes it has passed.
SentSoFar ==
    pc = "send" => Promise!Delivers(out, Owed(cmds, lists, SubSeq(queue, 1, at - 1)))

GInv == NodesKnown /\ JoinNumbers /\ HeadNumbers /\ SentSoFar

\* A list is as it was, or has one status node more.
KeptList(h) ==
    \/ lists'[h] = lists[h]
    \/ \E n \in Node : /\ lists'[h] = Append(lists[h], n)
                       /\ n.of \in 1 .. issued' /\ cmds'[n.of] = "MULTI"

LEMMA KeptIds ==
    ASSUME TypeOK, NodesKnown, UNCHANGED cmds \/ OneMore,
           NEW h \in 1 .. Len(lists), KeptList(h)
    PROVE  /\ IdsIn(cmds', lists'[h]) = IdsIn(cmds, lists[h])
           /\ \A n \in 0 .. issued :
                 Numbers(cmds, lists[h], n) /\ Fits(cmds, lists[h], n)
                    => Numbers(cmds', lists'[h], n)
<1>1. /\ lists[h] \in Seq(Node) /\ Grows(cmds, cmds') /\ issued \in Nat
      /\ issued = Len(cmds)
      /\ \A k \in 1 .. Len(lists[h]) : lists[h][k].of \in 1 .. issued
  BY CommandsGrow, ElementOfSeq
     DEF TypeOK, SockType, QueueType, NodesKnown, issued
<1>2. IdsIn(cmds', lists[h]) = IdsIn(cmds, lists[h]) BY <1>1, IdsGrow
<1>3. ASSUME NEW n \in 0 .. issued, Numbers(cmds, lists[h], n), Fits(cmds, lists[h], n)
      PROVE  Numbers(cmds', lists[h], n) /\ Fits(cmds', lists[h], n)
  <2>1. Numbers(cmds', lists[h], n) BY <1>1, <1>3, GrowsNumbers
  <2>2. Len(lists[h]) \in Nat /\ Grows(lists[h], lists[h])
    BY <1>1, LenProperties DEF Grows
  <2> QED BY <1>1, <1>3, <2>1, <2>2, GrowsFits
<1>4. CASE lists'[h] = lists[h] BY <1>2, <1>3, <1>4
<1>5. ASSUME NEW n \in Node, lists'[h] = Append(lists[h], n), cmds'[n.of] = "MULTI"
      PROVE  /\ IdsIn(cmds', lists'[h]) = IdsIn(cmds, lists[h])
             /\ \A i \in 0 .. issued :
                   Numbers(cmds, lists[h], i) /\ Fits(cmds, lists[h], i)
                      => Numbers(cmds', lists'[h], i)
  <2>1. IdsIn(cmds', lists'[h]) = IdsIn(cmds, lists[h])
    BY <1>1, <1>2, <1>5, IdsStatus
  <2>2. ASSUME NEW i \in 0 .. issued, Numbers(cmds, lists[h], i), Fits(cmds, lists[h], i)
        PROVE  Numbers(cmds', lists'[h], i)
    <3>1. Numbers(cmds', lists[h], i) /\ Fits(cmds', lists[h], i) /\ i \in Nat
      BY <1>3, <2>2
    <3> QED BY <1>1, <1>5, <3>1, StatusNumbers
  <2> QED BY <2>1, <2>2
<1> QED BY <1>4, <1>5 DEF KeptList

\* A pipeline goes on owing what it owed.
LEMMA QueueSteady ==
    ASSUME TypeOK, NodesKnown, RightQueue, JoinNumbers, UNCHANGED cmds \/ OneMore,
           pipeline = 1,
           \A k \in 1 .. Len(queue) : queue[k].list # 0 => KeptList(queue[k].list)
    PROVE  /\ Owed(cmds', lists', queue) = Owed(cmds, lists, queue)
           /\ \A k \in 1 .. Len(queue) : queue[k].list # 0 =>
                 Numbers(cmds', lists'[queue[k].list], queue[k].of - 1)
<1>1. /\ DOMAIN queue = 1 .. Len(queue) /\ Len(queue) \in Nat /\ issued \in Nat
      /\ \A k \in 1 .. Len(queue) : queue[k].list \in 0 .. Len(lists)
  BY LenProperties, CommandsGrow DEF TypeOK, SockType, QueueType
<1>2. ASSUME NEW k \in 1 .. Len(queue), queue[k].list # 0
      PROVE  /\ IdsIn(cmds', lists'[queue[k].list]) = IdsIn(cmds, lists[queue[k].list])
             /\ Numbers(cmds', lists'[queue[k].list], queue[k].of - 1)
  <2> DEFINE h == queue[k].list
  <2>1. h \in 1 .. Len(lists) /\ KeptList(h) BY <1>1, <1>2
  <2>2. /\ queue[k].of - 1 \in 0 .. issued /\ Fits(cmds, lists[h], queue[k].of - 1)
    <3>1. /\ Len(queue) <= issued /\ queue[k].of = issued - Len(queue) + k
          /\ RightNode(cmds, lists, queue[k])
      BY DEF RightQueue
    <3>2. queue[k].of - 1 \in 0 .. issued BY <1>1, <3>1
    <3> QED BY <1>2, <3>1, <3>2 DEF RightNode
  <2>3. Numbers(cmds, lists[h], queue[k].of - 1) BY <1>2 DEF JoinNumbers
  <2> HIDE DEF h
  <2>4. /\ IdsIn(cmds', lists'[h]) = IdsIn(cmds, lists[h])
        /\ Numbers(cmds', lists'[h], queue[k].of - 1)
    BY <2>1, <2>2, <2>3, KeptIds
  <2> QED BY <2>4 DEF h
<1>3. \A k \in DOMAIN queue : Wanted(cmds', lists', queue[k]) = Wanted(cmds, lists, queue[k])
  <2> TAKE k \in DOMAIN queue
  <2>1. CASE queue[k].list = 0 BY <2>1 DEF Wanted
  <2>2. CASE queue[k].list # 0
    <3>1. IdsIn(cmds', lists'[queue[k].list]) = IdsIn(cmds, lists[queue[k].list])
      BY <1>1, <1>2, <2>2
    <3> QED BY <2>2, <3>1, Zenon DEF Wanted
  <2> QED BY <2>1, <2>2
<1>4. Owed(cmds', lists', queue) = Owed(cmds, lists, queue) BY <1>3, OwedSame
<1> QED BY <1>2, <1>4

\* ... and for the next node what that node wants.
LEMMA OwedMore ==
    ASSUME TypeOK, NEW n \in Node, queue' = Append(queue, n),
           Owed(cmds', lists', queue) = Owed(cmds, lists, queue)
    PROVE  /\ Wanted(cmds', lists', n) = <<>>
                 => Owed(cmds', lists', queue') = Owed(cmds, lists, queue)
           /\ \A w : Wanted(cmds', lists', n) = <<w>>
                 => Owed(cmds', lists', queue') = Append(Owed(cmds, lists, queue), w)
<1>1. queue \in Seq(Node) BY DEF TypeOK, SockType, QueueType
<1>2. PICK S : /\ Owed(cmds', lists', queue') = Owed(cmds, lists, queue) \o Wanted(cmds', lists', n)
               /\ Owed(cmds, lists, queue) \in Seq(S)
               /\ Wanted(cmds', lists', n) \in Seq(S)
  BY <1>1, OwedAppend
<1>3. CASE Wanted(cmds', lists', n) = <<>> BY <1>2, <1>3, ConcatEmptySeq
<1>4. ASSUME NEW w, Wanted(cmds', lists', n) = <<w>>
      PROVE  Owed(cmds', lists', queue') = Append(Owed(cmds, lists, queue), w)
  <2>1. w \in S
    <3>1. <<w>> \in Seq(S) BY <1>2, <1>4
    <3>2. Len(<<w>>) = 1 /\ <<w>>[1] = w OBVIOUS
    <3> HIDE <3>2
    <3> QED BY <3>1, <3>2, ElementOfSeq
  <2>2. Owed(cmds, lists, queue) \o <<w>> = Append(Owed(cmds, lists, queue), w)
    BY <1>2, <2>1, AppendIsConcat
  <2> QED BY <1>2, <1>4, <2>2
<1> QED BY <1>3, <1>4

-----------------------------------------------------------------------------
(***************************************************************************)
(* What CommandSession sees, before and after a step.                      *)
(***************************************************************************)
LEMMA UpState ==
    ASSUME sock = "open", link = "up"
    PROVE  /\ Phase = IF mode = "DIRECT"
                      THEN IF pipeline = 1 THEN "pipeline" ELSE "direct"
                      ELSE IF pipeline = 1 THEN "pipelinedMulti" ELSE "multi"
           /\ Busy = IF pc \in {"idle", "dead"} THEN "no"
                     ELSE IF pc \in {"skip", "tab"} THEN "exec" ELSE pc
           /\ Txn = IF mode = "TRANSACTION" THEN IdsIn(cmds, ListAt(head)) ELSE <<>>
           /\ Batch = IF pipeline = 1 THEN Owed(cmds, lists, queue) ELSE <<>>
<1>1. Usable /\ ~CutOff BY DEF Usable, CutOff
<1> QED BY <1>1, Zenon DEF Phase, Busy, Txn, Batch

LEMMA UpStateNext ==
    ASSUME sock' = "open", link' = "up"
    PROVE  /\ Phase' = IF mode' = "DIRECT"
                       THEN IF pipeline' = 1 THEN "pipeline" ELSE "direct"
                       ELSE IF pipeline' = 1 THEN "pipelinedMulti" ELSE "multi"
           /\ Busy' = IF pc' \in {"idle", "dead"} THEN "no"
                      ELSE IF pc' \in {"skip", "tab"} THEN "exec" ELSE pc'
           /\ Txn' = IF mode' = "TRANSACTION" THEN IdsIn(cmds', ListAt(head)') ELSE <<>>
           /\ Batch' = IF pipeline' = 1 THEN Owed(cmds', lists', queue') ELSE <<>>
<1>1. Usable' /\ ~CutOff' BY DEF Usable, CutOff
<1> QED BY <1>1, Zenon DEF Phase, Busy, Txn, Batch

LEMMA DownState ==
    ASSUME sock = "open", link = "down"
    PROVE  Phase = "lost" /\ Busy = "no" /\ Txn = <<>> /\ Batch = <<>>
  BY DEF Phase, Busy, Txn, Batch, Usable, CutOff

LEMMA DownStateNext ==
    ASSUME sock' = "open", link' = "down"
    PROVE  Phase' = "lost" /\ Busy' = "no" /\ Txn' = <<>> /\ Batch' = <<>>
  BY DEF Phase, Busy, Txn, Batch, Usable, CutOff

\* The step of HiRedisSession is one of CommandSession, or none.
Kept == [Promise!Next]_(Promise!vars)

\* Steps that CommandSession does not see.
LEMMA QuietKept ==
    ASSUME UNCHANGED <<sock, mode, pipeline, queue, lists, head, cmds, ret, link>>,
           pc' = pc \/ {pc, pc'} \subseteq {"skip", "tab"}
    PROVE  Kept
<1>1. UNCHANGED <<Phase, Txn, Batch, issued>>
  BY DEF Phase, Txn, Batch, Usable, CutOff, ListAt, issued
<1>2. UNCHANGED Busy
  <2>1. CutOff' = CutOff BY DEF CutOff
  <2> QED BY <2>1 DEF Busy
<1> QED BY <1>1, <1>2 DEF Kept, Promise!vars

LEMMA QuietG ==
    ASSUME GInv,
           UNCHANGED <<mode, pipeline, queue, lists, head, cmds, link>>,
           \/ pc' = pc /\ UNCHANGED <<at, out>>
           \/ {pc, pc'} \subseteq {"skip", "tab"}
    PROVE  GInv'
<1>1. issued' = issued /\ TxEnd' = TxEnd /\ ListAt(head)' = ListAt(head)
  BY DEF issued, TxEnd, ListAt
<1>2. NodesKnown' BY <1>1 DEF GInv, NodesKnown
<1>3. JoinNumbers' BY <1>1 DEF GInv, JoinNumbers
<1>4. HeadNumbers' BY <1>1 DEF GInv, HeadNumbers
<1>5. SentSoFar' BY DEF GInv, SentSoFar
<1> QED BY <1>2, <1>3, <1>4, <1>5 DEF GInv

LEMMA RefuseKept ==
    ASSUME pc = "idle", ret' = False,
           UNCHANGED <<sock, mode, pipeline, queue, lists, head, cmds, link, pc>>
    PROVE  Kept
<1>1. UNCHANGED <<Phase, Busy, Txn, Batch, issued>>
  BY DEF Phase, Busy, Txn, Batch, Usable, CutOff, ListAt, issued
<1>2. Busy = "no" BY DEF Busy
<1>3. Promise!Refuse
  BY <1>1, <1>2 DEF Promise!Refuse, Promise!Idle, False, Returned
<1> QED BY <1>3 DEF Kept, Promise!Next

LEMMA ConnectKept == ASSUME Connect PROVE Kept /\ GInv'
<1>1. Busy = "no" BY DEF Connect, Busy
<1>2. Phase' = "direct" /\ Busy' = "no" /\ Txn' = <<>> /\ Batch' = <<>>
  BY UpStateNext DEF Connect
<1>3. issued' = 0 BY DEF Connect, issued
<1>4. Promise!Connect
  BY <1>1, <1>2, <1>3 DEF Connect, Promise!Connect, Promise!Idle, True, Returned
<1>5. GInv'
  BY DEF Connect, GInv, NodesKnown, JoinNumbers, HeadNumbers, SentSoFar
<1> QED BY <1>4, <1>5 DEF Kept, Promise!Next

LEMMA CloseKept == ASSUME TypeOK, Close PROVE Kept
<1>1. pc = "idle" /\ sock = "open" /\ sock' = "freed" /\ UNCHANGED <<pc, cmds, link>>
      /\ ret' = True
  BY DEF Close, Begin
<1>2. Phase' = "closed" /\ Busy' = "no" /\ Txn' = <<>> /\ Batch' = <<>> /\ Busy = "no"
  <2>1. Phase' = "closed" BY <1>1 DEF Phase, CutOff
  <2>2. Txn' = <<>> /\ Batch' = <<>> BY <1>1 DEF Txn, Batch, Usable
  <2>3. Busy' = "no" /\ Busy = "no" BY <1>1, Zenon DEF Busy
  <2> QED BY <2>1, <2>2, <2>3
<1>3. Phase \notin {"none", "closed"}
  <2>1. CASE link = "up" BY <1>1, <2>1, UpState
  <2>2. CASE link = "down" BY <1>1, <2>2, DownState
  <2> QED BY <2>1, <2>2 DEF TypeOK, WireType
<1>4. issued' = issued BY <1>1 DEF issued
<1>5. Promise!Close
  BY <1>1, <1>2, <1>3, <1>4 DEF Promise!Close, Promise!Open, Promise!Idle, True, Returned
<1> QED BY <1>5 DEF Kept, Promise!Next

LEMMA LoseKept == ASSUME ServerCloses PROVE Kept
<1>1. sock = "open" /\ link = "up" /\ sock' = "open" /\ link' = "down"
      /\ UNCHANGED <<cmds, ret>>
  BY DEF ServerCloses, sockVars, callVars
<1>2. Phase' = "lost" /\ Busy' = "no" /\ Txn' = <<>> /\ Batch' = <<>>
  BY <1>1, DownStateNext
<1>3. Phase \notin {"none", "lost", "closed"} BY <1>1, UpState
<1>4. issued' = issued BY <1>1 DEF issued
<1>5. Promise!Lose BY <1>1, <1>2, <1>3, <1>4 DEF Promise!Lose
<1> QED BY <1>5 DEF Kept, Promise!Next

-----------------------------------------------------------------------------
(***************************************************************************)
(* Calls that send no command.                                             *)
(***************************************************************************)
LEMMA PipelineKept ==
    ASSUME IInv, FInv, GInv, Pipeline PROVE Kept /\ GInv'
<1>1. /\ pc = "idle" /\ sock = "open" /\ link = "up" /\ sock' = "open" /\ link' = "up"
      /\ UNCHANGED <<sock, mode, lists, head, pc, cmds, link, at, out>>
      /\ mode \in {"DIRECT", "TRANSACTION"} /\ pipeline \in {0, 1}
  BY DEF Pipeline, Begin, FInv, IInv, TypeOK, SockType
<1>2. /\ issued' = issued /\ TxEnd' = TxEnd /\ ListAt(head)' = ListAt(head)
  BY <1>1 DEF issued, TxEnd, ListAt
<1>3. NodesKnown' /\ HeadNumbers' /\ SentSoFar'
  BY <1>1, <1>2 DEF GInv, NodesKnown, HeadNumbers, SentSoFar
<1>4. CASE mode = "DIRECT" /\ pipeline = 0
  <2>1. pipeline' = 1 /\ queue' = <<>> /\ ret' = Self BY <1>4 DEF Pipeline
  <2>2. Phase = "direct" /\ Busy = "no" /\ Txn = <<>> /\ Batch = <<>>
    BY <1>1, <1>4, UpState
  <2>3. /\ Phase' = "pipeline" /\ Busy' = "no" /\ Txn' = <<>>
        /\ Batch' = Owed(cmds', lists', <<>>)
    BY <1>1, <1>4, <2>1, UpStateNext
  <2>4. Batch' = <<>> BY <2>3, OwedNone
  <2>5. Promise!Pipeline
    BY <1>2, <2>1, <2>2, <2>3, <2>4
       DEF Promise!Pipeline, Promise!Open, Promise!Idle, Promise!Chain, Self, Returned
  <2>6. JoinNumbers' BY <2>1 DEF JoinNumbers
  <2> QED BY <1>3, <2>5, <2>6 DEF Kept, Promise!Next, GInv
<1>5. CASE ~(mode = "DIRECT" /\ pipeline = 0)
  <2>1. UNCHANGED <<pipeline, queue>> /\ ret' = False BY <1>5 DEF Pipeline
  <2>2. Kept BY <1>1, <2>1, RefuseKept
  <2>3. JoinNumbers' BY <1>1, <2>1 DEF JoinNumbers, GInv
  <2> QED BY <1>3, <2>2, <2>3 DEF GInv
<1> QED BY <1>4, <1>5

LEMMA SendKept ==
    ASSUME IInv, FInv, GInv, Send PROVE Kept /\ GInv'
<1>1. /\ pc = "idle" /\ sock = "open" /\ link = "up" /\ sock' = "open" /\ link' = "up"
      /\ UNCHANGED <<mode, lists, head, queue, cmds>>
      /\ mode = "DIRECT" /\ pipeline = 1
  BY DEF Send, Begin, FInv
<1>2. issued' = issued BY <1>1 DEF issued
<1>3. NodesKnown' /\ HeadNumbers' /\ JoinNumbers'
  BY <1>1, <1>2 DEF GInv, NodesKnown, HeadNumbers, JoinNumbers
<1>4. /\ Phase = "pipeline" /\ Busy = "no" /\ Txn = <<>>
      /\ Batch = Owed(cmds, lists, queue)
  BY <1>1, UpState
<1>5. CASE queue = <<>>
  <2>1. pipeline' = 0 /\ pc' = "idle" /\ ret' = Returned("send", <<>>)
    BY <1>1, <1>5 DEF Send
  <2>2. Phase' = "direct" /\ Busy' = "no" /\ Txn' = <<>> /\ Batch' = <<>>
    BY <1>1, <2>1, UpStateNext
  <2>3. Batch = <<>> BY <1>4, <1>5, OwedNone
  <2>4. Promise!SendNothing
    BY <1>2, <1>4, <2>1, <2>2, <2>3
       DEF Promise!SendNothing, Promise!Open, Promise!Idle, Returned
  <2>5. SentSoFar' BY <2>1 DEF SentSoFar
  <2> QED BY <1>3, <2>4, <2>5 DEF Kept, Promise!Next, GInv
<1>6. CASE queue # <<>>
  <2>1. pc' = "send" /\ at' = 1 /\ out' = <<>> /\ UNCHANGED <<pipeline, ret>>
    BY <1>6 DEF Send
  <2>2. /\ Phase' = "pipeline" /\ Busy' = "send" /\ Txn' = <<>>
        /\ Batch' = Owed(cmds', lists', queue')
    BY <1>1, <2>1, UpStateNext
  <2>3. Batch' = Batch BY <1>1, <1>4, <2>2
  <2>4. Promise!Send
    BY <1>2, <1>4, <2>1, <2>2, <2>3
       DEF Promise!Send, Promise!Open, Promise!Idle, Promise!Wait
  <2>5. SubSeq(queue', 1, at' - 1) = <<>>
    <3>1. queue \in Seq(Node) BY DEF IInv, TypeOK, SockType, QueueType
    <3>2. SubSeq(queue, 1, 0) = <<>> BY <3>1, SubSeqEmpty
    <3> QED BY <1>1, <2>1, <3>2
  <2>6. SentSoFar' BY <2>1, <2>5, OwedNone, DeliversNone DEF SentSoFar
  <2> QED BY <1>3, <2>4, <2>6 DEF Kept, Promise!Next, GInv
<1> QED BY <1>5, <1>6

-----------------------------------------------------------------------------
(***************************************************************************)
(* Calls that send a command.                                              *)
(***************************************************************************)
\* What redis_enqueue does to the lists.
LEMMA OtherLists ==
    ASSUME SockType, NEW n \in Node, EnqueueInMulti(n)
    PROVE  /\ \A h \in 1 .. Len(lists) :
                 /\ h # head => lists'[h] = lists[h]
                 /\ h = head => lists'[h] = Append(lists[h], n)
           /\ Len(lists) \in Nat
           /\ head = 0 => Len(lists') = Len(lists) + 1 /\ lists'[Len(lists) + 1] = <<n>>
           /\ head # 0 => Len(lists') = Len(lists)
<1>1. lists \in Seq(Seq(Node)) /\ Len(lists) \in Nat /\ head \in 0 .. Len(lists)
  BY LenProperties DEF SockType, QueueType
<1>2. CASE head = 0
  <2>1. lists' = Append(lists, <<n>>) BY <1>2 DEF EnqueueInMulti
  <2>2. <<n>> \in Seq(Node) OBVIOUS
  <2>3. /\ Len(lists') = Len(lists) + 1 /\ lists'[Len(lists) + 1] = <<n>>
        /\ \A h \in 1 .. Len(lists) : lists'[h] = lists[h]
    BY <1>1, <2>1, <2>2, AppendProperties
  <2> QED BY <1>1, <1>2, <2>3
<1>3. CASE head # 0
  <2>1. lists' = [lists EXCEPT ![head] = Append(lists[head], n)]
    BY <1>3 DEF EnqueueInMulti
  <2>2. DOMAIN lists = 1 .. Len(lists) /\ head \in 1 .. Len(lists)
    BY <1>1, <1>3, LenProperties
  <2>3. Append(lists[head], n) \in Seq(Node)
    BY <1>1, <2>2, ElementOfSeq, AppendProperties
  <2>4. lists' \in Seq(Seq(Node)) /\ Len(lists') = Len(lists)
    BY <1>1, <2>1, <2>2, <2>3, ExceptSeq
  <2> QED BY <1>1, <1>3, <2>1, <2>2, <2>4
<1> QED BY <1>2, <1>3

\* A node more at the list at hand.
LEMMA NodesMore ==
    ASSUME TypeOK, NodesKnown, NEW n \in Node, EnqueueInMulti(n),
           issued' = issued + 1, n.of = issued + 1
    PROVE  NodesKnown'
<1>1. /\ SockType /\ issued \in Nat
      /\ \A h \in 1 .. Len(lists) : lists[h] \in Seq(Node)
  BY Counters, ElementOfSeq DEF TypeOK, SockType, QueueType
<1>2. SUFFICES ASSUME NEW h \in 1 .. Len(lists'), NEW k \in 1 .. Len(lists'[h])
               PROVE  lists'[h][k].of \in 1 .. issued + 1
  BY DEF NodesKnown
<1>3. CASE h \in 1 .. Len(lists) /\ h # head
  <2>1. lists'[h] = lists[h] BY <1>1, <1>3, OtherLists
  <2>2. lists[h][k].of \in 1 .. issued BY <1>3, <2>1 DEF NodesKnown
  <2> QED BY <1>1, <2>1, <2>2
<1>4. CASE h \in 1 .. Len(lists) /\ h = head
  <2>1. lists'[h] = Append(lists[h], n) BY <1>1, <1>4, OtherLists
  <2>2. /\ Len(lists[h]) \in Nat /\ Len(lists'[h]) = Len(lists[h]) + 1
        /\ lists'[h][Len(lists[h]) + 1] = n
        /\ \A i \in 1 .. Len(lists[h]) : lists'[h][i] = lists[h][i]
    BY <1>1, <1>4, <2>1, LenProperties, AppendProperties
  <2>3. CASE k \in 1 .. Len(lists[h])
    <3>1. lists[h][k].of \in 1 .. issued BY <1>4, <2>3 DEF NodesKnown
    <3> QED BY SMTT(30), <1>1, <2>2, <2>3, <3>1
  <2>4. CASE k = Len(lists[h]) + 1 BY <1>1, <2>2, <2>4
  <2> QED BY <2>2, <2>3, <2>4
<1>5. CASE h \notin 1 .. Len(lists)
  <2>1. h = Len(lists) + 1 /\ lists'[h] = <<n>> BY SMTT(30), <1>1, <1>5, OtherLists
  <2>2. k = 1 /\ lists'[h][k] = n BY <2>1
  <2> QED BY <1>1, <2>2
<1> QED BY <1>3, <1>4, <1>5

LEMMA CountUp ==
    ASSUME NEW m \in Nat, NEW a \in Nat
    PROVE  [k \in 1 .. a + 1 |-> m + k] = Append([k \in 1 .. a |-> m + k], m + a + 1)
<1> DEFINE f == [k \in 1 .. a |-> m + k]
<1>1. f \in Seq(Nat) /\ Len(f) = a
  <2>1. f \in [1 .. a -> Nat] OBVIOUS
  <2>2. DOMAIN f = 1 .. a OBVIOUS
  <2> HIDE DEF f
  <2>3. f \in Seq(Nat) BY <2>1
  <2> QED BY <2>2, <2>3, LenProperties
<1>2. \A k \in 1 .. a : f[k] = m + k OBVIOUS
<1> HIDE DEF f
<1>3. /\ Append(f, m + a + 1) \in Seq(Nat) /\ Len(Append(f, m + a + 1)) = a + 1
      /\ Append(f, m + a + 1)[a + 1] = m + a + 1
      /\ \A k \in 1 .. a : Append(f, m + a + 1)[k] = f[k]
  BY <1>1, AppendProperties
<1> DEFINE g == Append(f, m + a + 1)
<1>4. DOMAIN g = 1 .. a + 1 /\ g = [k \in DOMAIN g |-> g[k]] BY <1>3, LenProperties
<1>5. \A k \in 1 .. a + 1 : g[k] = m + k
  <2> TAKE k \in 1 .. a + 1
  <2>1. CASE k \in 1 .. a BY <1>2, <1>3, <2>1
  <2>2. CASE k = a + 1
    <3>1. m + k = m + a + 1 BY <2>2
    <3> QED BY <1>3, <2>2, <3>1
  <2> HIDE DEF g
  <2> QED BY <2>1, <2>2
<1> HIDE DEF g
<1>6. g = [k \in 1 .. a + 1 |-> m + k] BY <1>4, <1>5
<1> QED BY <1>6 DEF f, g

\* The open transaction gets one command more.
LEMMA TxnMore ==
    ASSUME TypeOK, WellFormed, RightList, HeadNumbers, mode = "TRANSACTION",
           pc = "idle", pc' = "idle", Opened(cmds, issued),
           NEW op \in Ops, AppendCommand(op), issued' = issued + 1,
           cmds'[issued + 1] = op, Grows(cmds, cmds'),
           NEW n \in Node, n.of = issued + 1, EnqueueInMulti(n),
           head' = IF head = 0 THEN Len(lists) + 1 ELSE head
    PROVE  /\ HeadNumbers'
           /\ IdsIn(cmds', ListAt(head)') = Append(IdsIn(cmds, ListAt(head)), issued + 1)
<1> DEFINE old == ListAt(head)
           new == Append(old, n)
<1>1. issued \in Nat /\ issued = Len(cmds) /\ TxEnd = issued /\ TxEnd' = issued + 1
  BY Counters DEF TxEnd, issued
<1>2. lists'[head'] = new /\ old \in Seq(Node)
  BY ListsGrow DEF TypeOK
<1>3. head' # 0 /\ ListAt(head)' = lists'[head']
  <2>1. head' # 0 BY LenProperties DEF TypeOK, SockType, QueueType
  <2> QED BY <2>1 DEF ListAt
<1>4. /\ new \in Seq(Node)
      /\ Len(old) \in Nat /\ Len(new) = Len(old) + 1 /\ new[Len(old) + 1] = n
      /\ \A k \in 1 .. Len(old) : new[k] = old[k]
  BY <1>2, LenProperties, AppendProperties
<1>5. /\ Numbers(cmds, old, issued)
      /\ \A m \in 1 .. issued : Tx(cmds, m, issued) => Len(old) = issued - m
  BY <1>1 DEF HeadNumbers, RightList
<1>6. ListAt(head)' = new BY <1>2, <1>3
<1> HIDE DEF old, new
<1>7. "MULTI" \notin Ops BY SessionAssumption DEF SessionAssumption, AllOps
<1>8. ASSUME NEW m \in 1 .. issued + 1, Tx(cmds', m, issued + 1)
      PROVE  /\ \A k \in 1 .. (issued + 1) - m : new[k].of = m + k
             /\ \A k \in (issued + 1) - m + 1 .. Len(new) : cmds'[new[k].of] = "MULTI"
  <2>1. m \in 1 .. issued /\ Tx(cmds', m, issued) BY <1>1, <1>7, <1>8, TxStep
  <2>2. Tx(cmds, m, issued) BY <1>1, <2>1, GrowsTx
  <2>3. Len(old) = issued - m /\ \A k \in 1 .. issued - m : old[k].of = m + k
    BY <1>5, <2>1, <2>2 DEF Numbers
  <2>4. ASSUME NEW k \in 1 .. (issued + 1) - m PROVE new[k].of = m + k
    <3>1. CASE k \in 1 .. issued - m BY <1>4, <2>3, <3>1
    <3>2. CASE k = (issued + 1) - m
      <4>0. issued \in Nat /\ m \in Nat /\ Len(old) = issued - m BY <1>1, <2>1, <2>3
      <4>1. k = Len(old) + 1 /\ m + k = issued + 1 BY <3>2, <4>0
      <4> QED BY <1>4, <4>1
    <3> QED BY <1>1, <2>1, <3>1, <3>2
  <2>5. (issued + 1) - m + 1 .. Len(new) = {}
    <3>1. Len(new) = issued - m + 1 BY <1>4, <2>3
    <3> QED BY <1>1, <2>1, <3>1
  <2> QED BY <2>4, <2>5
<1>9. Numbers(cmds', new, issued + 1) BY <1>8 DEF Numbers
<1>10. HeadNumbers' BY <1>1, <1>6, <1>9 DEF HeadNumbers
<1>11. PICK m \in 1 .. issued : Tx(cmds, m, issued) BY <1>1, OpenTx
<1>12. Tx(cmds', m, issued + 1)
  <2>1. Tx(cmds', m, issued) BY <1>1, <1>11, GrowsTx
  <2>2. \A j \in m + 1 .. issued + 1 : j \in m + 1 .. issued \/ j = issued + 1
    BY <1>1
  <2> QED BY <1>1, <2>1, <2>2 DEF Tx
<1>13. Len(old) = issued - m /\ Len(new) = (issued + 1) - m
  <2>1. Len(old) = issued - m BY <1>5, <1>11
  <2> QED BY <1>1, <1>4, <2>1
<1>14. IdsIn(cmds, old) = [k \in 1 .. issued - m |-> m + k]
  BY <1>1, <1>2, <1>5, <1>11, <1>13, IdsNumbers DEF old
<1>15. IdsIn(cmds', new) = [k \in 1 .. (issued + 1) - m |-> m + k]
  <2>1. issued + 1 \in Nat /\ m \in 1 .. issued + 1 /\ Len(new) >= (issued + 1) - m
    BY <1>1, <1>4, <1>13
  <2> QED BY <1>4, <1>9, <1>12, <2>1, IdsNumbers
<1>16. IdsIn(cmds', new) = Append(IdsIn(cmds, old), issued + 1)
  <2>1. issued - m \in Nat /\ issued - m + 1 = (issued + 1) - m /\ m + (issued - m) + 1 = issued + 1
    BY <1>1
  <2> QED BY <1>14, <1>15, <2>1, CountUp
<1> QED BY <1>6, <1>10, <1>16 DEF old

\* One node more in a pipeline.
LEMMA NodeMore ==
    ASSUME TypeOK, NodesKnown, RightQueue, JoinNumbers, OneMore,
           pipeline = 1, NEW n \in Node, queue' = Append(queue, n),
           \A k \in 1 .. Len(queue) : queue[k].list # 0 =>
               /\ KeptList(queue[k].list)
               /\ mode' = "TRANSACTION" => queue[k].list # head',
           n.list # 0 => /\ Numbers(cmds', lists'[n.list], n.of - 1)
                         /\ mode' # "TRANSACTION"
    PROVE  /\ JoinNumbers'
           /\ Wanted(cmds', lists', n) = <<>>
                 => Owed(cmds', lists', queue') = Owed(cmds, lists, queue)
           /\ \A w : Wanted(cmds', lists', n) = <<w>>
                 => Owed(cmds', lists', queue') = Append(Owed(cmds, lists, queue), w)
<1>1. /\ Owed(cmds', lists', queue) = Owed(cmds, lists, queue)
      /\ \A k \in 1 .. Len(queue) : queue[k].list # 0 =>
            Numbers(cmds', lists'[queue[k].list], queue[k].of - 1)
  BY QueueSteady
<1>2. /\ queue \in Seq(Node) /\ Len(queue) \in Nat /\ Len(queue') = Len(queue) + 1
      /\ queue'[Len(queue) + 1] = n
      /\ \A k \in 1 .. Len(queue) : queue'[k] = queue[k]
  BY LenProperties, AppendProperties DEF TypeOK, SockType, QueueType
<1>3. ASSUME NEW k \in 1 .. Len(queue'), queue'[k].list # 0
      PROVE  /\ Numbers(cmds', lists'[queue'[k].list], queue'[k].of - 1)
             /\ mode' = "TRANSACTION" => queue'[k].list # head'
  <2>1. CASE k \in 1 .. Len(queue) BY <1>1, <1>2, <1>3, <2>1
  <2>2. CASE k = Len(queue) + 1 BY <1>2, <1>3, <2>2
  <2> QED BY <1>2, <2>1, <2>2
<1>4. JoinNumbers' BY <1>3 DEF JoinNumbers
<1> QED BY <1>1, <1>4, OwedMore

\* What a call that sends a command can rely on.
LEMMA CallUp ==
    ASSUME IInv, FInv, GInv, Begin
    PROVE  /\ TypeOK /\ SockType /\ Rests /\ WellFormed /\ RightQueue /\ RightList
           /\ NodesKnown /\ JoinNumbers /\ HeadNumbers /\ parsed + Due = issued
           /\ pc = "idle" /\ sock = "open" /\ link = "up"
           /\ mode \in {"DIRECT", "TRANSACTION"} /\ pipeline \in {0, 1}
           /\ multi \in {0, 1} /\ head \in 0 .. Len(lists) /\ Len(lists) \in Nat
<1>1. pc = "idle" /\ sock = "open" BY DEF Begin
<1>2. Rests /\ parsed + Due = issued BY <1>1, UpInStep
<1> QED BY <1>1, <1>2, LenProperties
    DEF IInv, FInv, GInv, TypeOK, SockType, QueueType

\* Where no list changes.
LEMMA NoListMore ==
    ASSUME NodesKnown, UNCHANGED lists, issued' \in {issued, issued + 1}, issued \in Nat
    PROVE  NodesKnown' /\ \A h : KeptList(h)
<1>1. \A i \in 1 .. issued : i \in 1 .. issued' OBVIOUS
<1>2. NodesKnown' BY <1>1 DEF NodesKnown
<1> QED BY <1>2 DEF KeptList

LEMMA RunKept ==
    ASSUME Tidy, IInv, FInv, GInv, NEW op \in Ops, Run(op) PROVE Kept /\ GInv'
<1> DEFINE n == N(Fun[op], issued + 1)
           skip == N("skip", issued + 1)
<1>1. /\ AppendCommand(op) /\ Enqueue(n)
      /\ UNCHANGED <<sock, mode, pipeline, multi, at, out>>
      /\ IF pipeline = 0 /\ multi = 0 THEN pc' = "run" /\ UNCHANGED ret
                                      ELSE pc' = "idle" /\ ret' = Self
  BY DEF Run
<1>2. /\ TypeOK /\ SockType /\ Rests /\ WellFormed /\ RightQueue /\ RightList
      /\ NodesKnown /\ JoinNumbers /\ HeadNumbers
      /\ pc = "idle" /\ sock = "open" /\ link = "up"
      /\ mode \in {"DIRECT", "TRANSACTION"} /\ pipeline \in {0, 1}
      /\ multi \in {0, 1} /\ head \in 0 .. Len(lists) /\ Len(lists) \in Nat
  BY CallUp DEF Run
<1>3. op \in AllOps /\ op # "MULTI" /\ op # "EXEC" /\ Fun[op] \in Funs
  BY SessionAssumption DEF SessionAssumption, AllOps, Fun, Funs
<1>4. /\ OneMore /\ issued \in Nat /\ issued' = issued + 1 /\ issued = Len(cmds)
      /\ cmds'[issued + 1] = op /\ Grows(cmds, cmds')
      /\ UNCHANGED <<served, replies, link>>
  BY <1>1, <1>2, <1>3, Issues
<1>5. /\ n \in Node /\ n.list = 0 /\ n.of = issued + 1 /\ n.fun # "skip"
      /\ skip \in Node /\ skip.list = 0 /\ skip.of = issued + 1 /\ skip.fun = "skip"
  BY <1>3, <1>4, NoSkip DEF N, Node, Funs
<1> HIDE DEF n
<1>6. sock' = "open" /\ link' = "up" BY <1>1, <1>2, <1>4
<1>7. SentSoFar' BY <1>1 DEF SentSoFar
<1>8. CASE multi = 1
  <2>1. mode = "TRANSACTION" /\ Opened(cmds, issued) BY <1>2, <1>8 DEF Rests
  <2>2. /\ EnqueueInMulti(n) /\ pc' = "idle" /\ ret' = Self
        /\ head' = IF head = 0 THEN Len(lists) + 1 ELSE head
    BY <1>1, <1>8 DEF Enqueue
  <2>3. /\ HeadNumbers'
        /\ IdsIn(cmds', ListAt(head)') = Append(IdsIn(cmds, ListAt(head)), issued + 1)
    BY <1>1, <1>2, <1>4, <1>5, <2>1, <2>2, TxnMore
  <2>4. NodesKnown' BY <1>2, <1>4, <1>5, <2>2, NodesMore
  <2>5. pipeline = 1 => JoinNumbers' /\ Owed(cmds', lists', queue') = Owed(cmds, lists, queue)
    <3> SUFFICES ASSUME pipeline = 1
                 PROVE  JoinNumbers' /\ Owed(cmds', lists', queue') = Owed(cmds, lists, queue)
      OBVIOUS
    <3>1. queue' = Append(queue, skip) BY <1>5, <2>2 DEF EnqueueInMulti
    <3>2. ASSUME NEW k \in 1 .. Len(queue), queue[k].list # 0
          PROVE  KeptList(queue[k].list) /\ queue[k].list # head'
      <4>1. queue[k].list \in 1 .. Len(lists) BY <1>2, <3>2 DEF SockType, QueueType
      <4>2. queue[k].list # head BY <2>1, <3>2, <1>2 DEF JoinNumbers
      <4>3. lists'[queue[k].list] = lists[queue[k].list]
        BY <1>2, <1>5, <2>2, <4>1, <4>2, OtherLists
      <4> QED BY <1>2, <2>2, <4>1, <4>2, <4>3 DEF KeptList
    <3>3. Wanted(cmds', lists', skip) = <<>> BY <1>5 DEF Wanted
    <3> HIDE DEF skip
    <3> QED BY <1>2, <1>4, <1>5, <3>1, <3>2, <3>3, NodeMore
  <2>6. JoinNumbers'
    <3>1. CASE pipeline = 1 BY <2>5, <3>1
    <3>2. CASE pipeline = 0 BY <1>1, <3>2 DEF JoinNumbers
    <3> QED BY <1>2, <3>1, <3>2
  <2>7. /\ Phase \in {"multi", "pipelinedMulti"} /\ Busy = "no"
        /\ Txn = IdsIn(cmds, ListAt(head))
        /\ Batch = IF pipeline = 1 THEN Owed(cmds, lists, queue) ELSE <<>>
    BY <1>2, <2>1, UpState
  <2>8. /\ Phase' = Phase /\ Busy' = "no" /\ Txn' = IdsIn(cmds', ListAt(head)')
        /\ Batch' = IF pipeline = 1 THEN Owed(cmds', lists', queue') ELSE <<>>
    BY <1>1, <1>2, <1>6, <2>1, <2>2, UpState, UpStateNext
  <2>9. Txn' = Append(Txn, issued + 1) /\ Batch' = Batch BY <2>3, <2>5, <2>7, <2>8
  <2>10. Promise!Command
    BY <1>4, <2>2, <2>7, <2>8, <2>9
       DEF Promise!Command, Promise!Open, Promise!Idle, Promise!Chain, Self, Returned
  <2> QED BY <1>7, <2>3, <2>4, <2>6, <2>10 DEF Kept, Promise!Next, GInv
<1>9. CASE multi = 0
  <2>1. mode = "DIRECT" /\ mode' = "DIRECT" BY <1>1, <1>2, <1>9 DEF Rests
  <2>2. queue' = Append(queue, n) /\ UNCHANGED <<lists, head>>
    BY <1>1, <1>9 DEF Enqueue
  <2>3. NodesKnown' /\ \A h : KeptList(h) BY <1>2, <1>4, <2>2, NoListMore
  <2>4. HeadNumbers' BY <2>1 DEF HeadNumbers
  <2>5. CASE pipeline = 0
    <3>1. pc' = "run" /\ UNCHANGED ret BY <1>1, <1>9, <2>5
    <3>2. JoinNumbers' BY <1>1, <2>5 DEF JoinNumbers
    <3>3. Phase = "direct" /\ Busy = "no" /\ Txn = <<>> /\ Batch = <<>>
      BY <1>2, <2>1, <2>5, UpState
    <3>4. Phase' = "direct" /\ Busy' = "run" /\ Txn' = <<>> /\ Batch' = <<>>
      BY <1>1, <1>6, <2>1, <2>5, <3>1, UpStateNext
    <3>5. Promise!Command
      BY <1>4, <3>1, <3>3, <3>4
         DEF Promise!Command, Promise!Open, Promise!Idle, Promise!Wait
    <3> QED BY <1>7, <2>3, <2>4, <3>2, <3>5 DEF Kept, Promise!Next, GInv
  <2>6. CASE pipeline = 1
    <3>1. pc' = "idle" /\ ret' = Self BY <1>1, <2>6
    <3>2. Wanted(cmds', lists', n) = <<Promise!One(issued + 1)>>
      BY <1>5 DEF Wanted, Promise!One
    <3>3. JoinNumbers' /\ Owed(cmds', lists', queue')
                            = Append(Owed(cmds, lists, queue), Promise!One(issued + 1))
      BY <1>2, <1>4, <1>5, <2>1, <2>2, <2>3, <2>6, <3>2, NodeMore
    <3>4. /\ Phase = "pipeline" /\ Busy = "no" /\ Txn = <<>>
          /\ Batch = Owed(cmds, lists, queue)
      BY <1>2, <2>1, <2>6, UpState
    <3>5. /\ Phase' = "pipeline" /\ Busy' = "no" /\ Txn' = <<>>
          /\ Batch' = Owed(cmds', lists', queue')
      BY <1>1, <1>6, <2>1, <2>6, <3>1, UpStateNext
    <3>6. Batch' = Append(Batch, Promise!One(issued + 1)) BY <3>3, <3>4, <3>5
    <3>7. Promise!Command
      BY <1>4, <3>1, <3>4, <3>5, <3>6
         DEF Promise!Command, Promise!Open, Promise!Idle, Promise!Chain, Self, Returned
    <3> QED BY <1>7, <2>3, <2>4, <3>3, <3>7 DEF Kept, Promise!Next, GInv
  <2> QED BY <1>2, <2>5, <2>6
<1> QED BY <1>2, <1>8, <1>9

LEMMA MultiKept ==
    ASSUME Tidy, IInv, FInv, GInv, Multi PROVE Kept /\ GInv'
<1>1. /\ AppendCommand("MULTI") /\ mode = "DIRECT" /\ pipeline = 0 /\ pc' = "multi"
      /\ UNCHANGED <<sock, mode, pipeline, queue, lists, head, at, out, ret>>
  BY DEF Multi
<1>2. /\ TypeOK /\ Rests /\ NodesKnown /\ JoinNumbers
      /\ pc = "idle" /\ sock = "open" /\ link = "up"
  BY CallUp DEF Multi
<1>3. /\ issued \in Nat /\ issued' = issued + 1 /\ UNCHANGED link
  BY <1>1, <1>2, Issues DEF Rests
<1>4. NodesKnown' BY <1>1, <1>2, <1>3, NoListMore
<1>5. JoinNumbers' /\ HeadNumbers' /\ SentSoFar'
  BY <1>1 DEF JoinNumbers, HeadNumbers, SentSoFar
<1>6. Phase = "direct" /\ Busy = "no" /\ Txn = <<>> /\ Batch = <<>>
  BY <1>1, <1>2, UpState
<1>7. Phase' = "direct" /\ Busy' = "multi" /\ Txn' = <<>> /\ Batch' = <<>>
  BY <1>1, <1>2, <1>3, UpStateNext
<1>8. Promise!Multi
  BY <1>1, <1>3, <1>6, <1>7 DEF Promise!Multi, Promise!Open, Promise!Idle, Promise!Wait
<1> QED BY <1>4, <1>5, <1>8 DEF Kept, Promise!Next, GInv

\* A transaction that MULTI has just opened.
LEMMA NewNumbers ==
    ASSUME NEW n \in Nat, TxEnd' = n + 1, cmds'[n + 1] = "MULTI", ListAt(head)' = <<>>
    PROVE  HeadNumbers'
<1>1. ASSUME NEW m, Tx(cmds', m, n + 1) PROVE m = n + 1
  <2>1. "MULTI" \notin Ops BY SessionAssumption DEF SessionAssumption, AllOps
  <2> QED BY <1>1, <2>1, TxStep
<1>2. /\ n + 1 \in Nat /\ (n + 1) - (n + 1) = 0 /\ 1 .. 0 = {} /\ Len(<<>>) = 0
      /\ 0 + 1 .. 0 = {}
  OBVIOUS
<1>3. Numbers(cmds', <<>>, n + 1)
  <2> SUFFICES ASSUME NEW m \in 1 .. n + 1, Tx(cmds', m, n + 1)
               PROVE  /\ \A k \in 1 .. (n + 1) - m : <<>>[k].of = m + k
                      /\ \A k \in ((n + 1) - m) + 1 .. Len(<<>>) : cmds'[<<>>[k].of] = "MULTI"
    BY DEF Numbers
  <2>1. m = n + 1 BY <1>1
  <2> QED BY <1>2, <2>1
<1> QED BY <1>3 DEF HeadNumbers

LEMMA MultiPipelinedKept ==
    ASSUME Tidy, IInv, FInv, GInv, MultiPipelined PROVE Kept /\ GInv'
<1> DEFINE n == N("status", issued + 1)
           skip == N("skip", issued + 1)
<1>1. /\ AppendCommand("MULTI") /\ mode = "DIRECT" /\ pipeline = 1
      /\ EnqueueInMulti(n) /\ mode' = "TRANSACTION" /\ head' = 0 /\ ret' = Self
      /\ UNCHANGED <<sock, pipeline, pc, at, out>>
  BY DEF MultiPipelined, NewTransaction
<1>2. /\ TypeOK /\ SockType /\ Rests /\ RightQueue /\ NodesKnown /\ JoinNumbers
      /\ pc = "idle" /\ sock = "open" /\ link = "up"
      /\ head \in 0 .. Len(lists) /\ Len(lists) \in Nat
  BY CallUp DEF MultiPipelined
<1>3. /\ OneMore /\ issued \in Nat /\ issued' = issued + 1
      /\ cmds'[issued + 1] = "MULTI" /\ UNCHANGED link
  BY <1>1, <1>2, Issues DEF Rests
<1>4. /\ n \in Node /\ n.of = issued + 1
      /\ skip \in Node /\ skip.list = 0 /\ skip.of = issued + 1 /\ skip.fun = "skip"
  BY <1>3 DEF N, Node, Funs
<1> HIDE DEF n
<1>5. sock' = "open" /\ link' = "up" /\ pc' = "idle" BY <1>1, <1>2, <1>3
<1>6. SentSoFar' BY <1>5 DEF SentSoFar
<1>7. NodesKnown' BY <1>1, <1>2, <1>3, <1>4, NodesMore
<1>8. TxEnd' = issued + 1 /\ ListAt(head)' = <<>>
  BY <1>1, <1>3, <1>5 DEF TxEnd, ListAt
<1>9. HeadNumbers' BY <1>3, <1>8, NewNumbers
<1>10. JoinNumbers' /\ Owed(cmds', lists', queue') = Owed(cmds, lists, queue)
  <2>1. queue' = Append(queue, skip) BY <1>1, <1>4 DEF EnqueueInMulti
  <2>2. ASSUME NEW k \in 1 .. Len(queue), queue[k].list # 0
        PROVE  KeptList(queue[k].list) /\ queue[k].list # head'
    <3>1. queue[k].list \in 1 .. Len(lists) BY <1>2, <2>2 DEF SockType, QueueType
    <3>2. issued + 1 \in 1 .. issued' BY <1>3
    <3>3. CASE queue[k].list = head
      <4>1. lists'[queue[k].list] = Append(lists[queue[k].list], n)
        BY <1>1, <1>2, <1>4, <3>1, <3>3, OtherLists
      <4> QED BY <1>1, <1>3, <1>4, <2>2, <3>2, <4>1 DEF KeptList
    <3>4. CASE queue[k].list # head
      <4>1. lists'[queue[k].list] = lists[queue[k].list]
        BY <1>1, <1>2, <1>4, <3>1, <3>4, OtherLists
      <4> QED BY <1>1, <2>2, <4>1 DEF KeptList
    <3> QED BY <3>3, <3>4
  <2>3. Wanted(cmds', lists', skip) = <<>> BY <1>4 DEF Wanted
  <2> HIDE DEF skip
  <2> QED BY <1>1, <1>2, <1>3, <1>4, <2>1, <2>2, <2>3, NodeMore
<1>11. /\ Phase = "pipeline" /\ Busy = "no" /\ Txn = <<>>
       /\ Batch = Owed(cmds, lists, queue)
  BY <1>1, <1>2, UpState
<1>12. /\ Phase' = "pipelinedMulti" /\ Busy' = "no" /\ Txn' = IdsIn(cmds', <<>>)
       /\ Batch' = Owed(cmds', lists', queue')
  BY <1>1, <1>5, <1>8, UpStateNext
<1>13. Txn' = Txn /\ Batch' = Batch BY <1>10, <1>11, <1>12, IdsNone
<1>14. Promise!Multi
  BY <1>1, <1>3, <1>11, <1>12, <1>13
     DEF Promise!Multi, Promise!Open, Promise!Idle, Promise!Chain, Self, Returned
<1> QED BY <1>6, <1>7, <1>9, <1>10, <1>14 DEF Kept, Promise!Next, GInv

\* A command more leaves the open transaction as it was.
LEMMA HeadSteady ==
    ASSUME TypeOK, NodesKnown, HeadNumbers, RightList, mode = "TRANSACTION",
           pc = "idle", OneMore
    PROVE  /\ IdsIn(cmds', ListAt(head)) = IdsIn(cmds, ListAt(head))
           /\ Numbers(cmds', ListAt(head), issued)
<1>1. /\ ListAt(head) \in Seq(Node) /\ Grows(cmds, cmds') /\ issued \in Nat
      /\ issued = Len(cmds) /\ TxEnd = issued
  BY ListAtType, CommandsGrow DEF issued, TxEnd
<1>2. \A k \in 1 .. Len(ListAt(head)) : ListAt(head)[k].of \in 1 .. issued
  <2>1. CASE head = 0
    <3>1. ListAt(head) = <<>> BY <2>1 DEF ListAt
    <3> QED BY <3>1
  <2>2. CASE head # 0
    <3>1. head \in 1 .. Len(lists) /\ ListAt(head) = lists[head]
      BY <2>2, LenProperties DEF ListAt, TypeOK, SockType, QueueType
    <3> QED BY <3>1 DEF NodesKnown
  <2> QED BY <2>1, <2>2
<1>3. Numbers(cmds, ListAt(head), issued) /\ Fits(cmds, ListAt(head), issued)
  BY <1>1 DEF HeadNumbers, RightList
<1> QED BY <1>1, <1>2, <1>3, IdsGrow, GrowsNumbers

LEMMA ExecKept ==
    ASSUME Tidy, IInv, FInv, GInv, Exec PROVE Kept /\ GInv'
<1>1. /\ AppendCommand("EXEC") /\ mode = "TRANSACTION" /\ pipeline = 0
      /\ pc' \in {"skip", "tab"}
      /\ UNCHANGED <<sock, mode, pipeline, queue, lists, head, ret>>
  BY DEF Exec, ExecAllowed, Tidy, Patterns, sockVars
<1>2. /\ TypeOK /\ Rests /\ RightList /\ NodesKnown /\ HeadNumbers
      /\ pc = "idle" /\ sock = "open" /\ link = "up"
  BY CallUp DEF Exec
<1>3. /\ OneMore /\ issued \in Nat /\ issued' = issued + 1 /\ UNCHANGED link
  BY <1>1, <1>2, Issues DEF Rests
<1>4. NodesKnown' BY <1>1, <1>2, <1>3, NoListMore
<1>5. JoinNumbers' /\ SentSoFar' BY <1>1 DEF JoinNumbers, SentSoFar
<1>6. TxEnd' = issued /\ ListAt(head)' = ListAt(head)
  BY <1>1, <1>3 DEF TxEnd, ListAt
<1>7. /\ IdsIn(cmds', ListAt(head)) = IdsIn(cmds, ListAt(head))
      /\ Numbers(cmds', ListAt(head), issued)
  BY <1>1, <1>2, <1>3, HeadSteady
<1>8. HeadNumbers' BY <1>6, <1>7 DEF HeadNumbers
<1>9. Phase = "multi" /\ Busy = "no" /\ Txn = IdsIn(cmds, ListAt(head)) /\ Batch = <<>>
  BY <1>1, <1>2, UpState
<1>10. /\ Phase' = "multi" /\ Busy' = "exec" /\ Txn' = IdsIn(cmds', ListAt(head))
       /\ Batch' = <<>>
  BY <1>1, <1>2, <1>3, <1>6, UpStateNext
<1>11. Promise!Exec
  BY <1>1, <1>3, <1>7, <1>9, <1>10
     DEF Promise!Exec, Promise!Open, Promise!Idle, Promise!Wait
<1> QED BY <1>4, <1>5, <1>8, <1>11 DEF Kept, Promise!Next, GInv

LEMMA ExecPipelinedKept ==
    ASSUME Tidy, IInv, FInv, GInv, ExecPipelined PROVE Kept /\ GInv'
<1>1. /\ AppendCommand("EXEC") /\ mode = "TRANSACTION" /\ pipeline = 1 /\ head # 0
      /\ UNCHANGED <<sock, pipeline, lists, head, at, out>>
  BY DEF ExecPipelined, ExecAllowed, Tidy, Patterns
<1>2. /\ TypeOK /\ SockType /\ Rests /\ RightQueue /\ RightList
      /\ NodesKnown /\ JoinNumbers /\ HeadNumbers /\ parsed + Due = issued
      /\ pc = "idle" /\ sock = "open" /\ link = "up"
      /\ head \in 0 .. Len(lists) /\ Len(lists) \in Nat
  BY CallUp DEF ExecPipelined
<1>3. /\ OneMore /\ issued \in Nat /\ issued' = issued + 1 /\ UNCHANGED link
  BY <1>1, <1>2, Issues DEF Rests
<1>4. queue # <<>>
  <2>1. Due = Len(queue) BY <1>1, <1>2 DEF Due
  <2>2. parsed # issued /\ parsed \in Nat BY <1>1, <1>2, Counters DEF Rests
  <2> QED BY <1>2, <1>3, <2>1, <2>2
<1>5. /\ queue' = Append(queue, Join) /\ mode' = "DIRECT" /\ ret' = Self
      /\ pc' = "idle"
  BY <1>2, <1>4 DEF ExecPipelined
<1>6. sock' = "open" /\ link' = "up" BY <1>1, <1>2, <1>3
<1>7. HeadNumbers' /\ SentSoFar' BY <1>5 DEF HeadNumbers, SentSoFar
<1>8. NodesKnown' /\ \A h : KeptList(h) BY <1>1, <1>2, <1>3, NoListMore
<1>9. /\ IdsIn(cmds', lists'[head]) = IdsIn(cmds, ListAt(head))
      /\ Numbers(cmds', lists'[head], issued)
  <2>1. ListAt(head) = lists'[head] BY <1>1 DEF ListAt
  <2> QED BY <1>1, <1>2, <1>3, <2>1, HeadSteady
<1>10. /\ Join \in Node /\ Join.list = head /\ Join.of = issued + 1
       /\ Join.of - 1 = issued
  <2>1. head \in Nat BY <1>2
  <2> QED BY <1>3, <2>1 DEF Join, Node, Funs
<1>11. Wanted(cmds', lists', Join) = <<Promise!Tab(IdsIn(cmds, ListAt(head)))>>
  BY <1>1, <1>9, <1>10 DEF Wanted, Promise!Tab
<1>12. JoinNumbers' /\ Owed(cmds', lists', queue')
            = Append(Owed(cmds, lists, queue), Promise!Tab(IdsIn(cmds, ListAt(head))))
  BY <1>1, <1>2, <1>3, <1>5, <1>8, <1>9, <1>10, <1>11, NodeMore
<1>13. /\ Phase = "pipelinedMulti" /\ Busy = "no" /\ Txn = IdsIn(cmds, ListAt(head))
       /\ Batch = Owed(cmds, lists, queue)
  BY <1>1, <1>2, UpState
<1>14. /\ Phase' = "pipeline" /\ Busy' = "no" /\ Txn' = <<>>
       /\ Batch' = Owed(cmds', lists', queue')
  BY <1>1, <1>5, <1>6, UpStateNext
<1>15. Batch' = Append(Batch, Promise!Tab(Txn)) BY <1>12, <1>13, <1>14
<1>16. Promise!Exec
  BY <1>3, <1>5, <1>13, <1>14, <1>15
     DEF Promise!Exec, Promise!Open, Promise!Idle, Promise!Chain, Self, Returned
<1> QED BY <1>7, <1>8, <1>12, <1>16 DEF Kept, Promise!Next, GInv

-----------------------------------------------------------------------------
(***************************************************************************)
(* Replies.                                                                *)
(***************************************************************************)
\* In a call the connection is open.
LEMMA ReadUp ==
    ASSUME IInv, FInv, Reading, UNCHANGED sock, Received
    PROVE  /\ TypeOK /\ sock = "open" /\ link = "up" /\ sock' = "open" /\ link' = "up"
           /\ UNCHANGED cmds /\ issued' = issued /\ issued \in Nat
  BY Counters DEF IInv, FInv, Reading, Received, issued

\* A call that ends outside a pipeline and a transaction.
LEMMA EndG ==
    ASSUME GInv, UNCHANGED <<cmds, lists>>, pc' = "idle", pipeline' = 0, mode' = "DIRECT"
    PROVE  GInv'
  BY DEF GInv, NodesKnown, JoinNumbers, HeadNumbers, SentSoFar, issued

LEMMA RunReplyKept ==
    ASSUME Tidy, IInv, FInv, GInv, RunReply PROVE Kept /\ GInv'
<1>1. /\ pc' = "idle" /\ ret'.by = "run" /\ pipeline = 0 /\ mode = "DIRECT"
      /\ UNCHANGED <<mode, pipeline>>
  BY RunGives
<1>2. PICK x : ret'.items = <<x>> /\ x.of = issued BY RunGives
<1>3. pc = "run" /\ UNCHANGED lists /\ sock = "open" /\ link = "up"
      /\ sock' = "open" /\ link' = "up" /\ UNCHANGED cmds /\ issued' = issued
  BY ReadUp DEF RunReply, Reading
<1>4. Phase = "direct" /\ Busy = "run" /\ Txn = <<>> /\ Batch = <<>>
  BY <1>1, <1>3, UpState
<1>5. Phase' = "direct" /\ Busy' = "no" /\ Txn' = <<>> /\ Batch' = <<>>
  BY <1>1, <1>3, UpStateNext
<1>6. Promise!Delivers(ret'.items, <<Promise!One(issued)>>)
  BY <1>2 DEF Promise!Delivers, Promise!Satisfies, Promise!One
<1>7. Promise!Return BY <1>1, <1>3, <1>4, <1>5, <1>6 DEF Promise!Return
<1> QED BY <1>1, <1>3, <1>7, EndG DEF Kept, Promise!Next

LEMMA MultiReplyKept ==
    ASSUME Tidy, IInv, FInv, GInv, MultiReply PROVE Kept /\ GInv'
<1>1. /\ mode' = "TRANSACTION" /\ head' = 0 /\ pc' = "idle" /\ ret' = Self
      /\ issued - 1 \in Nat /\ cmds[issued] = "MULTI" /\ mode = "DIRECT"
      /\ pipeline = 0 /\ pipeline' = 0
  BY MultiGives DEF NewTransaction
<1>2. /\ pc = "multi" /\ UNCHANGED lists /\ sock = "open" /\ link = "up"
      /\ sock' = "open" /\ link' = "up" /\ UNCHANGED cmds
      /\ issued' = issued /\ issued \in Nat /\ issued - 1 + 1 = issued
  BY ReadUp DEF MultiReply, Reading
<1>3. TxEnd' = issued /\ ListAt(head)' = <<>> BY <1>1, <1>2 DEF TxEnd, ListAt
<1>4. HeadNumbers' BY <1>1, <1>2, <1>3, NewNumbers
<1>5. NodesKnown' /\ JoinNumbers' /\ SentSoFar'
  BY <1>1, <1>2 DEF GInv, NodesKnown, JoinNumbers, SentSoFar
<1>6. Phase = "direct" /\ Busy = "multi" /\ Txn = <<>> /\ Batch = <<>>
  BY <1>1, <1>2, UpState
<1>7. Phase' = "multi" /\ Busy' = "no" /\ Txn' = IdsIn(cmds', <<>>) /\ Batch' = <<>>
  BY <1>1, <1>2, <1>3, UpStateNext
<1>8. Promise!Return
  BY <1>1, <1>2, <1>6, <1>7, IdsNone DEF Promise!Return, Self, Returned
<1> QED BY <1>4, <1>5, <1>8 DEF Kept, Promise!Next, GInv

LEMMA SkipReplyKept ==
    ASSUME Tidy, IInv, FInv, GInv, SkipReply PROVE Kept /\ GInv'
<1>1. /\ {pc, pc'} \subseteq {"skip", "tab"}
      /\ UNCHANGED <<mode, pipeline, queue, head, out, ret>>
  BY SkipGives
<1>2. UNCHANGED <<sock, lists, cmds, link>> BY DEF SkipReply, Received
<1> QED BY <1>1, <1>2, QuietKept, QuietG

\* The array that exec() returns.
LEMMA ArrayDelivered ==
    ASSUME NEW xs \in Seq(Zval), NEW m \in Nat, NEW n \in Nat, m <= n,
           Numbered(xs, m, n), NEW ids, ids = [k \in 1 .. n - m |-> m + k]
    PROVE  Promise!Delivers(xs, [k \in DOMAIN ids |-> Promise!One(ids[k])])
<1> DEFINE wants == [k \in DOMAIN ids |-> Promise!One(ids[k])]
<1>1. DOMAIN ids = 1 .. n - m /\ n - m \in Nat OBVIOUS
<1>2. Len(xs) = n - m /\ Len(wants) = n - m
  <2>1. DOMAIN xs = 1 .. n - m BY DEF Numbered
  <2>2. Len(xs) \in Nat /\ DOMAIN xs = 1 .. Len(xs) BY LenProperties
  <2>5. Len(xs) \in 1 .. Len(xs) \/ Len(xs) = 0 BY <2>2
  <2>6. n - m \in 1 .. n - m \/ n - m = 0 BY <1>1
  <2>7. Len(xs) = n - m BY <1>1, <2>1, <2>2, <2>5, <2>6
  <2>3. wants = [k \in 1 .. n - m |-> Promise!One(ids[k])] BY <1>1
  <2>4. Len(wants) = n - m BY <1>1, <2>3
  <2> QED BY <2>7, <2>4
<1>3. ASSUME NEW k \in 1 .. n - m PROVE Promise!Satisfies(xs[k], wants[k])
  <2>1. xs[k].of = m + k /\ wants[k] = Promise!One(m + k) BY <1>1 DEF Numbered
  <2> HIDE DEF wants
  <2> QED BY <2>1 DEF Promise!Satisfies, Promise!One
<1> HIDE DEF wants
<1>4. Promise!Delivers(xs, wants) BY <1>2, <1>3 DEF Promise!Delivers
<1> QED BY <1>4 DEF wants

LEMMA TabReplyKept ==
    ASSUME Tidy, IInv, FInv, GInv, TypeOK', TabReply PROVE Kept /\ GInv'
<1>1. /\ pc' = "idle" /\ ret'.by = "exec" /\ pipeline = 0 /\ mode' = "DIRECT"
      /\ pipeline' = 0
  BY TabGives
<1>2. PICK m \in 1 .. issued - 1 :
          Tx(cmds, m, issued - 1) /\ Numbered(ret'.items, m, issued - 1)
  BY TabGives
<1>3. /\ pc = "tab" /\ UNCHANGED lists /\ TypeOK /\ sock = "open" /\ link = "up"
      /\ sock' = "open" /\ link' = "up" /\ UNCHANGED cmds
      /\ issued' = issued /\ issued \in Nat
  BY ReadUp DEF TabReply, Reading
<1>4. mode = "TRANSACTION" /\ TxEnd = issued - 1 BY <1>3 DEF FInv, ExecMode, TxEnd
<1>5. /\ Phase = "multi" /\ Busy = "exec" /\ Txn = IdsIn(cmds, ListAt(head))
      /\ Batch = <<>>
  BY <1>1, <1>3, <1>4, UpState
<1>6. Phase' = "direct" /\ Busy' = "no" /\ Txn' = <<>> /\ Batch' = <<>>
  BY <1>1, <1>3, UpStateNext
<1>7. IdsIn(cmds, ListAt(head)) = [k \in 1 .. (issued - 1) - m |-> m + k]
  <2>1. /\ ListAt(head) \in Seq(Node) /\ Numbers(cmds, ListAt(head), issued - 1)
        /\ Len(ListAt(head)) = (issued - 1) - m
    BY <1>2, <1>3, <1>4, ListAtType DEF GInv, HeadNumbers, FInv, RightList
  <2>2. /\ issued - 1 \in Nat /\ (issued - 1) - m \in Nat
        /\ Len(ListAt(head)) >= (issued - 1) - m
    BY <1>2, <1>3, <2>1
  <2> QED BY <1>2, <2>1, <2>2, IdsNumbers
<1>8. Promise!Delivers(ret'.items, [k \in DOMAIN Txn |-> Promise!One(Txn[k])])
  <2>1. ret'.items \in Seq(Zval) BY DEF TypeOK, CallType, Results
  <2>2. issued - 1 \in Nat /\ m \in Nat /\ m <= issued - 1 BY <1>2, <1>3
  <2>3. Txn = [k \in 1 .. (issued - 1) - m |-> m + k] BY <1>5, <1>7
  <2> DEFINE n == issued - 1
             xs == ret'.items
  <2>4. /\ xs \in Seq(Zval) /\ n \in Nat /\ m \in Nat /\ m <= n
        /\ Numbered(xs, m, n) /\ Txn = [k \in 1 .. n - m |-> m + k]
    BY <1>2, <2>1, <2>2, <2>3
  <2> HIDE DEF n, xs
  <2>5. Promise!Delivers(xs, [k \in DOMAIN Txn |-> Promise!One(Txn[k])])
    BY <2>4, ArrayDelivered
  <2> QED BY <2>5 DEF xs
<1>9. Promise!Return BY <1>1, <1>3, <1>5, <1>6, <1>8 DEF Promise!Return
<1> QED BY <1>1, <1>3, <1>9, EndG DEF Kept, Promise!Next

\* What send() makes of a reply is what it owes for the node.
LEMMA MadeDelivers ==
    ASSUME TypeOK, RightQueue, JoinNumbers, pipeline = 1, NEW k \in 1 .. Len(queue),
           NEW items, Made(queue[k], items)
    PROVE  Promise!Delivers(items, Wanted(cmds, lists, queue[k]))
<1> DEFINE n == queue[k]
<1>1. /\ n.list \in 0 .. Len(lists) /\ Len(lists) \in Nat /\ lists \in Seq(Seq(Node))
      /\ n.of = issued - Len(queue) + k /\ Len(queue) <= issued /\ Len(queue) \in Nat
      /\ issued \in Nat /\ RightNode(cmds, lists, n)
      /\ n.list # 0 => Numbers(cmds, lists[n.list], n.of - 1)
  BY Counters, LenProperties
     DEF TypeOK, SockType, QueueType, RightQueue, JoinNumbers
<1> HIDE DEF n
<1>2. CASE n.list # 0
  <2> DEFINE list == lists[n.list]
  <2>1. PICK x, m : /\ items = <<x>> /\ x.type = "array" /\ m \in 1 .. n.of - 1
                    /\ Tx(cmds, m, n.of - 1) /\ Numbered(x.elems, m, n.of - 1)
    BY <1>2 DEF Made, n
  <2>2. list \in Seq(Node) BY <1>1, <1>2, ElementOfSeq
  <2>3. Fits(cmds, list, n.of - 1) /\ Numbers(cmds, list, n.of - 1)
    BY <1>1, <1>2 DEF RightNode
  <2>4. n.of - 1 \in Nat
    <3>1. n.of - 1 >= 0 BY <1>1, <2>1
    <3> QED BY <1>1, <3>1
  <2> DEFINE i == n.of - 1
  <2> HIDE DEF i, list
  <2>5. /\ i \in Nat /\ m \in 1 .. i /\ Tx(cmds, m, i) /\ Numbered(x.elems, m, i)
        /\ Fits(cmds, list, i) /\ Numbers(cmds, list, i)
    BY <2>1, <2>3, <2>4 DEF i
  <2>6. IdsIn(cmds, list) = [j \in 1 .. i - m |-> m + j]
    <3>1. Len(list) >= i - m BY <2>5 DEF Fits
    <3> QED BY <2>2, <2>5, <3>1, IdsNumbers
  <2>7. [j \in DOMAIN x.elems |-> x.elems[j].of] = [j \in 1 .. i - m |-> m + j]
    BY <2>5 DEF Numbered
  <2>8. Wanted(cmds, lists, n) = <<Promise!Tab(IdsIn(cmds, list))>>
    BY <1>2 DEF Wanted, Promise!Tab, list
  <2>9. Promise!Satisfies(x, Promise!Tab(IdsIn(cmds, list)))
    BY <2>1, <2>6, <2>7 DEF Promise!Satisfies, Promise!Tab
  <2>10. Promise!Delivers(items, Wanted(cmds, lists, n))
    BY <2>1, <2>8, <2>9 DEF Promise!Delivers
  <2> QED BY <2>10 DEF n
<1>3. CASE n.list = 0 /\ n.fun = "skip"
  <2>1. items = <<>> /\ Wanted(cmds, lists, n) = <<>> BY <1>3 DEF Made, Wanted, n
  <2> QED BY <2>1, DeliversNone DEF n
<1>4. CASE n.list = 0 /\ n.fun # "skip"
  <2>1. PICK x : items = <<x>> /\ x.of = n.of BY <1>4 DEF Made, n
  <2>2. Wanted(cmds, lists, n) = <<Promise!One(n.of)>>
    BY <1>4 DEF Wanted, Promise!One
  <2>3. Promise!Satisfies(x, Promise!One(n.of))
    BY <2>1 DEF Promise!Satisfies, Promise!One
  <2>4. Promise!Delivers(items, Wanted(cmds, lists, n))
    BY <2>1, <2>2, <2>3 DEF Promise!Delivers
  <2> QED BY <2>4 DEF n
<1> QED BY <1>2, <1>3, <1>4

LEMMA NextNode ==
    ASSUME NEW q \in Seq(Node), NEW k \in 1 .. Len(q)
    PROVE  /\ SubSeq(q, 1, k) = Append(SubSeq(q, 1, k - 1), q[k])
           /\ SubSeq(q, 1, k - 1) \in Seq(Node) /\ q[k] \in Node
           /\ k = Len(q) => SubSeq(q, 1, k) = q
<1> DEFINE p == SubSeq(q, 1, k - 1)
           r == SubSeq(q, 1, k)
           s == Append(p, q[k])
<1>1. Len(q) \in Nat /\ k \in Nat /\ q[k] \in Node /\ DOMAIN q = 1 .. Len(q)
  BY LenProperties, ElementOfSeq
<1>2. /\ p \in Seq(Node) /\ Len(p) = k - 1
      /\ \A i \in 1 .. k - 1 : p[i] = q[i]
  BY <1>1, SubSeqProperties
<1>3. /\ r \in Seq(Node) /\ Len(r) = k
      /\ \A i \in 1 .. k : r[i] = q[i]
  BY <1>1, SubSeqProperties
<1> HIDE DEF p, r
<1>4. /\ s \in Seq(Node) /\ Len(s) = k /\ s[k] = q[k]
      /\ \A i \in 1 .. k - 1 : s[i] = p[i]
  <2>1. k - 1 + 1 = k BY <1>1
  <2> QED BY <1>1, <1>2, <2>1, AppendProperties
<1> HIDE DEF s
<1>5. \A i \in 1 .. k : r[i] = s[i]
  <2> TAKE i \in 1 .. k
  <2>1. i = k \/ i \in 1 .. k - 1 BY <1>1
  <2> QED BY <1>1, <1>2, <1>3, <1>4, <2>1
<1>6. r = s BY <1>3, <1>4, <1>5, SeqEqual
<1>7. k = Len(q) => r = q BY <1>3, SeqEqual
<1> QED BY <1>1, <1>2, <1>6, <1>7 DEF p, r, s

LEMMA SendReplyKept ==
    ASSUME Tidy, IInv, FInv, GInv, SendReply PROVE Kept /\ GInv'
<1> DEFINE S1 == SubSeq(queue, 1, at - 1)
           owes == Wanted(cmds, lists, queue[at])
<1>1. PICK items \in Seq(Zval) : SendNext(items) /\ Made(queue[at], items)
  BY SendGives
<1>2. /\ pc = "send" /\ UNCHANGED lists /\ TypeOK /\ sock = "open" /\ link = "up"
      /\ sock' = "open" /\ link' = "up" /\ UNCHANGED cmds
      /\ issued' = issued /\ mode = "DIRECT" /\ pipeline = 1
  <2>1. pc = "send" /\ Reading /\ Received /\ UNCHANGED <<sock, lists>>
    BY DEF SendReply, Reading
  <2>2. Reads BY SendGives
  <2> QED BY <2>1, <2>2, ReadUp DEF Reads
<1>3. /\ RightQueue /\ NodesKnown /\ JoinNumbers /\ HeadNumbers
      /\ Promise!Delivers(out, Owed(cmds, lists, S1))
  BY <1>2 DEF FInv, GInv, SentSoFar
<1>4. queue \in Seq(Node) /\ at \in 1 .. Len(queue) /\ out \in Seq(Zval)
  BY <1>2 DEF TypeOK, SockType, QueueType, CallType
<1>5. /\ SubSeq(queue, 1, at) = Append(S1, queue[at])
      /\ S1 \in Seq(Node) /\ queue[at] \in Node
      /\ at = Len(queue) => SubSeq(queue, 1, at) = queue
  BY <1>4, NextNode
<1> HIDE DEF S1
<1>6. Promise!Delivers(items, owes) BY <1>1, <1>2, <1>3, <1>4, MadeDelivers
<1> HIDE DEF owes
<1>7. Promise!Delivers(out \o items, Owed(cmds, lists, SubSeq(queue, 1, at)))
  <2>1. PICK S : /\ Owed(cmds, lists, SubSeq(queue, 1, at)) = Owed(cmds, lists, S1) \o owes
                 /\ Owed(cmds, lists, S1) \in Seq(S) /\ owes \in Seq(S)
    BY <1>5, OwedAppend DEF owes
  <2> QED BY <1>3, <1>4, <1>6, <2>1, DeliversMore
<1>8. CASE at = Len(queue)
  <2>1. /\ mode' = "DIRECT" /\ pipeline' = 0 /\ pc' = "idle"
        /\ ret' = Returned("send", out \o items)
    BY <1>1, <1>2, <1>8 DEF SendNext, Finish
  <2>2. ret'.by = "send" /\ ret'.items = out \o items BY <2>1 DEF Returned
  <2>3. /\ Phase = "pipeline" /\ Busy = "send" /\ Txn = <<>>
        /\ Batch = Owed(cmds, lists, queue)
    BY <1>2, UpState
  <2>4. Phase' = "direct" /\ Busy' = "no" /\ Txn' = <<>> /\ Batch' = <<>>
    BY <1>2, <2>1, UpStateNext
  <2>5. Promise!Delivers(ret'.items, Batch) BY <1>5, <1>7, <1>8, <2>2, <2>3
  <2>6. Promise!Return BY <1>2, <2>2, <2>3, <2>4, <2>5 DEF Promise!Return
  <2> QED BY <1>2, <2>1, <2>6, EndG DEF Kept, Promise!Next
<1>9. CASE at # Len(queue)
  <2>1. /\ at' = at + 1 /\ out' = out \o items
        /\ UNCHANGED <<mode, pipeline, queue, head, pc, ret>>
    BY <1>1, <1>9 DEF SendNext
  <2>2. Kept BY <1>2, <2>1, QuietKept
  <2>3. NodesKnown' /\ JoinNumbers' BY <1>2, <1>3, <2>1 DEF NodesKnown, JoinNumbers
  <2>4. HeadNumbers' BY <1>2, <2>1 DEF HeadNumbers
  <2>5. at' - 1 = at BY <1>4, <2>1
  <2>6. SentSoFar' BY <1>2, <1>7, <2>1, <2>5 DEF SentSoFar
  <2> QED BY <2>2, <2>3, <2>4, <2>6 DEF GInv
<1> QED BY <1>8, <1>9

-----------------------------------------------------------------------------
(***************************************************************************)
(* On a lost connection.                                                   *)
(***************************************************************************)
\* A direct call returns one value, of its own command or of none.
LEMMA RunLost ==
    ASSUME TypeOK, RunAnswered', RunReply
    PROVE  /\ issued' = issued
           /\ ret' # ret => /\ Len(ret'.items) = 1
                            /\ ret'.items[1].of \in {issued, 0}
<1> DEFINE fun == Fun[cmds[issued]]
<1>1. PICK z \in Zvals :
        \E o \in DirectOutcomes(fun, z) :
             IF o.end = "done"
             THEN /\ Finish("run", o.items)
                  /\ UNCHANGED <<mode, pipeline, multi, queue, head, at, out>>
             ELSE Die
  BY DEF RunReply
<1>2. PICK o \in DirectOutcomes(fun, z) :
             IF o.end = "done"
             THEN /\ Finish("run", o.items)
                  /\ UNCHANGED <<mode, pipeline, multi, queue, head, at, out>>
             ELSE Die
  BY <1>1
<1>3. issued' = issued BY DEF RunReply, Received, issued
<1>4. fun # "skip"
  <2>1. cmds[issued] \in AllOps BY DEF RunReply, TypeOK, WireType
  <2> QED BY <2>1 DEF AllOps, Fun
<1> DEFINE x == [z EXCEPT !.type = ValidType(fun, @)]
<1>5. Validated(fun, z) = <<x>> BY <1>4 DEF Validated
<1> HIDE DEF x, fun
<1>6. CASE o.end = "done"
  <2>1. o \in {Done(Validated(fun, z))}
    BY <1>2, <1>6 DEF DirectOutcomes, Outcomes, Fault
  <2>2. o.items = <<x>> BY <1>5, <2>1 DEF Done
  <2>3. pc' = "idle" /\ ret' = Returned("run", <<x>>) BY <1>2, <1>6, <2>2 DEF Finish
  <2>4. ret'.by = "run" /\ ret'.items = <<x>> BY <2>3 DEF Returned
  <2>5. ret'.items[1].of \in {issued, 0} BY <1>3, <2>3, <2>4 DEF RunAnswered
  <2> QED BY <1>3, <2>4, <2>5
<1>7. CASE o.end # "done" BY <1>2, <1>3, <1>7 DEF Die
<1> QED BY <1>6, <1>7

LEMMA DownKept ==
    ASSUME IInv, RunAnswered', sock = "open", link = "down", [Next]_vars,
           ~Connect, ~Close
    PROVE  Kept
<1>1. TypeOK /\ issued \in Nat BY Counters DEF IInv
<1>2. Phase = "lost" /\ Busy = "no" /\ Txn = <<>> /\ Batch = <<>> BY DownState
<1> DEFINE drifts == /\ sock' = "open" /\ link' = "down" /\ issued' \in {issued, issued + 1}
                     /\ ret' # ret /\ ret'.by = "run" =>
                            Len(ret'.items) = 1 /\ ret'.items[1].of \in {issued', 0}
<1>3. ASSUME drifts PROVE Kept
  <2>1. Phase' = "lost" /\ Busy' = "no" /\ Txn' = <<>> /\ Batch' = <<>>
    BY <1>3, DownStateNext
  <2>2. Promise!Drift BY <1>2, <1>3, <2>1 DEF Promise!Drift
  <2> QED BY <2>2 DEF Kept, Promise!Next
<1>4. Self.by # "run" /\ False.by # "run" /\ Returned("send", <<>>).by # "run"
  BY DEF Self, False, Returned
<1>5. ASSUME NEW c, AppendCommand(c)
      PROVE  issued' = issued + 1 /\ link' = "down"
  BY <1>1, <1>5, AppendProperties DEF AppendCommand, issued, TypeOK, WireType
<1>6. CASE ConnectFails \/ Pipeline \/ MultiRefused \/ SendRefused \/ Send
  <2>1. sock' = "open" /\ link' = "down" /\ UNCHANGED cmds
    BY <1>6 DEF ConnectFails, Pipeline, MultiRefused, SendRefused, Send, sockVars,
                wireVars
  <2>2. ret' \in {ret, Self, False, Returned("send", <<>>)}
    BY <1>6 DEF ConnectFails, Pipeline, MultiRefused, SendRefused, Send
  <2>3. drifts BY <1>4, <2>1, <2>2 DEF issued
  <2> QED BY <1>3, <2>3
<1>7. CASE Multi \/ MultiPipelined \/ Exec \/ ExecPipelined \/ \E op \in Ops : Run(op)
  <2>1. /\ sock' = "open" /\ ret' \in {ret, Self}
        /\ \E c : AppendCommand(c)
    BY <1>7, Zenon DEF Multi, MultiPipelined, Exec, ExecPipelined, Run, sockVars
  <2>2. drifts BY <1>4, <1>5, <2>1
  <2> QED BY <1>3, <2>2
<1>8. CASE Unconnected \/ UseAfterClose \/ Serve \/ ServerCloses
  BY <1>8 DEF Unconnected, UseAfterClose, Serve, ServerCloses
<1>9. CASE Flush \/ Fetch \/ UNCHANGED vars
  <2>1. sock' = "open" /\ link' = "down" /\ UNCHANGED <<cmds, ret>>
    BY <1>9 DEF Flush, Fetch, vars, sockVars, callVars, wireVars
  <2>2. drifts BY <2>1 DEF issued
  <2> QED BY <1>3, <2>2
<1>10. CASE RunReply
  <2>1. sock' = "open" /\ link' = "down" BY <1>10 DEF RunReply, Received
  <2>2. drifts BY <1>1, <1>10, <2>1, RunLost
  <2> QED BY <1>3, <2>2
<1>11. CASE MultiReply \/ SkipReply \/ TabReply \/ SendReply
  <2>1. sock' = "open" /\ link' = "down" /\ UNCHANGED cmds
    BY <1>11 DEF MultiReply, SkipReply, TabReply, SendReply, Received
  <2>2. ret' = ret \/ ret'.by # "run"
    <3>1. CASE MultiReply BY <1>4, <3>1 DEF MultiReply, Die
    <3>2. CASE SkipReply BY <3>2 DEF SkipReply, Die
    <3>3. CASE TabReply BY <3>3 DEF TabReply, Finish, Returned, Die
    <3>4. CASE SendReply BY <3>4 DEF SendReply, SendNext, Finish, Returned, Die
    <3> QED BY <1>11, <3>1, <3>2, <3>3, <3>4
  <2>3. drifts BY <2>1, <2>2 DEF issued
  <2> QED BY <1>3, <2>3
<1> HIDE DEF drifts
<1> QED BY <1>6, <1>7, <1>8, <1>9, <1>10, <1>11 DEF Next, Method, Progress

-----------------------------------------------------------------------------
(***************************************************************************)
(* Every step.                                                             *)
(***************************************************************************)
KInv == IInv /\ (link = "up" => FInv /\ GInv)

LEMMA RefusalKept ==
    ASSUME ConnectFails \/ Unconnected \/ MultiRefused \/ SendRefused
    PROVE  Kept /\ UNCHANGED link /\ (GInv => GInv')
<1>1. /\ pc = "idle" /\ ret' = False
      /\ UNCHANGED <<sock, mode, pipeline, queue, lists, head, cmds, link, pc, at, out>>
  BY DEF ConnectFails, Unconnected, MultiRefused, SendRefused, Begin, sockVars, wireVars
<1>2. Kept BY <1>1, RefuseKept
<1> QED BY <1>1, <1>2, QuietG

LEMMA UnseenKept ==
    ASSUME Flush \/ Fetch \/ Serve \/ UNCHANGED vars
    PROVE  Kept /\ UNCHANGED link /\ (GInv => GInv')
<1>1. UNCHANGED <<sock, mode, pipeline, queue, lists, head, cmds, ret, link, pc, at, out>>
  BY DEF Flush, Fetch, Serve, vars, sockVars, callVars, wireVars
<1>2. Kept BY <1>1, QuietKept
<1> QED BY <1>1, <1>2, QuietG

LEMMA UpKept ==
    ASSUME Tidy, IInv, IInv', FInv, GInv, [Next]_vars
    PROVE  Kept /\ (link' = "up" => GInv')
<1>1. TypeOK /\ TypeOK' BY DEF IInv
<1>2. CASE ConnectFails \/ Unconnected \/ MultiRefused \/ SendRefused
  BY <1>2, RefusalKept
<1>3. CASE Flush \/ Fetch \/ Serve \/ UNCHANGED vars BY <1>3, UnseenKept
<1>4. CASE Connect BY <1>4, ConnectKept
<1>5. CASE Close
  <2>1. UNCHANGED <<mode, pipeline, queue, lists, head, cmds, link, pc, at, out>>
    BY <1>5 DEF Close, Begin
  <2> QED BY <1>1, <1>5, <2>1, CloseKept, QuietG
<1>6. CASE UseAfterClose BY <1>6 DEF UseAfterClose, Tidy, Patterns
<1>7. CASE ServerCloses
  <2>1. link' = "down" BY <1>7 DEF ServerCloses
  <2> QED BY <1>7, <2>1, LoseKept
<1>8. CASE \E op \in Ops : Run(op) BY <1>8, RunKept
<1>9. CASE Pipeline \/ Send BY <1>9, PipelineKept, SendKept
<1>10. CASE Multi \/ MultiPipelined \/ Exec \/ ExecPipelined
  BY <1>10, MultiKept, MultiPipelinedKept, ExecKept, ExecPipelinedKept
<1>11. CASE RunReply \/ MultiReply \/ SkipReply \/ TabReply \/ SendReply
  BY <1>1, <1>11, RunReplyKept, MultiReplyKept, SkipReplyKept, TabReplyKept,
     SendReplyKept
<1> QED BY <1>2, <1>3, <1>4, <1>5, <1>6, <1>7, <1>8, <1>9, <1>10, <1>11
    DEF Next, Method, Progress

\* Only connect() ends the loss of a connection.
LEMMA StaysDown ==
    ASSUME link = "down", [Next]_vars, ~Connect PROVE link' = "down"
<1>1. CASE ConnectFails \/ Unconnected \/ MultiRefused \/ SendRefused
  BY <1>1, RefusalKept
<1>2. CASE Flush \/ Fetch \/ Serve \/ UNCHANGED vars BY <1>2, UnseenKept
<1>3. CASE Close \/ UseAfterClose \/ Pipeline \/ Send \/ ServerCloses
  BY <1>3 DEF Close, UseAfterClose, Pipeline, Send, ServerCloses, wireVars
<1>4. CASE Multi \/ MultiPipelined \/ Exec \/ ExecPipelined \/ \E op \in Ops : Run(op)
  BY <1>4, Zenon DEF Multi, MultiPipelined, Exec, ExecPipelined, Run, AppendCommand
<1>5. CASE RunReply \/ MultiReply \/ SkipReply \/ TabReply \/ SendReply
  BY <1>5, Zenon DEF RunReply, MultiReply, SkipReply, TabReply, SendReply, Received
<1> QED BY <1>1, <1>2, <1>3, <1>4, <1>5 DEF Next, Method, Progress

\* A step on an object that is not connected, or was closed.
LEMMA AwayKept ==
    ASSUME Tidy, IInv, sock # "open", [Next]_vars, ~Connect PROVE Kept
<1>1. pc \in {"idle", "dead"} /\ ~Reading /\ ~Begin
  BY DEF IInv, TypeOK, CallType, Reading, Begin
<1>2. CASE ConnectFails \/ Unconnected \/ MultiRefused \/ SendRefused
  BY <1>2, RefusalKept
<1>3. CASE Flush \/ Fetch \/ Serve \/ UNCHANGED vars BY <1>3, UnseenKept
<1>4. CASE UseAfterClose BY <1>4 DEF UseAfterClose, Tidy, Patterns
<1>5. CASE ServerCloses BY <1>5 DEF ServerCloses
<1>6. ~Close /\ ~Pipeline /\ ~Send /\ ~Multi /\ ~MultiPipelined /\ ~Exec /\ ~ExecPipelined
  BY <1>1, Zenon DEF Close, Pipeline, Send, Multi, MultiPipelined, Exec, ExecPipelined
<1>7. \A op \in Ops : ~Run(op) BY <1>1, Zenon DEF Run
<1>8. ~RunReply /\ ~MultiReply /\ ~SkipReply /\ ~TabReply /\ ~SendReply
  BY <1>1 DEF RunReply, MultiReply, SkipReply, TabReply, SendReply
<1> QED BY <1>2, <1>3, <1>4, <1>5, <1>6, <1>7, <1>8 DEF Next, Method, Progress

LEMMA NextK ==
    ASSUME Tidy, KInv, [Next]_vars PROVE KInv' /\ Kept
<1>1. IInv /\ IInv' /\ TypeOK /\ RunAnswered'
  <2>1. IInv /\ IInv' BY TidyCareful, NextIInv DEF KInv
  <2> QED BY <2>1 DEF IInv
<1>2. CASE link = "up"
  <2>1. FInv /\ GInv BY <1>2 DEF KInv
  <2>2. Kept /\ (link' = "up" => GInv') BY <1>1, <2>1, UpKept
  <2>3. link' = "up" => FInv'
    <3>1. link' = "up" => ~ServerCloses BY DEF ServerCloses
    <3> QED BY <1>1, <2>1, <3>1, NextF
  <2> QED BY <1>1, <2>2, <2>3 DEF KInv
<1>3. CASE link = "down" /\ Connect
  BY <1>1, <1>3, ConnectF, ConnectKept DEF KInv
<1>4. CASE link = "down" /\ ~Connect
  <2>1. link' = "down" BY <1>4, StaysDown
  <2>2. KInv' BY <1>1, <2>1 DEF KInv
  <2>3. CASE sock # "open" BY <1>1, <1>4, <2>2, <2>3, AwayKept
  <2>4. CASE sock = "open" /\ Close BY <1>1, <2>2, <2>4, CloseKept
  <2>5. CASE sock = "open" /\ ~Close BY <1>1, <1>4, <2>2, <2>5, DownKept
  <2> QED BY <2>3, <2>4, <2>5
<1> QED BY <1>1, <1>2, <1>3, <1>4 DEF TypeOK, WireType

LEMMA InitK == ASSUME Init PROVE KInv /\ Promise!Init
<1>1. IInv /\ FInv BY InitIInv, InitF
<1>2. issued = 0 BY DEF Init, issued
<1>3. GInv
  BY <1>2 DEF Init, GInv, NodesKnown, JoinNumbers, HeadNumbers, SentSoFar
<1>4. Phase = "none" /\ Busy = "no" /\ Txn = <<>> /\ Batch = <<>>
  <2>1. sock = "none" /\ pc = "idle" /\ ~Usable /\ ~CutOff
    BY DEF Init, Usable, CutOff
  <2>2. Phase = "none" BY <2>1 DEF Phase
  <2>3. Busy = "no" BY <2>1, Zenon DEF Busy
  <2>4. Txn = <<>> /\ Batch = <<>> BY <2>1 DEF Txn, Batch
  <2> QED BY <2>2, <2>3, <2>4
<1>5. Promise!Init BY <1>2, <1>4 DEF Init, Promise!Init, Self, Returned
<1> QED BY <1>1, <1>3, <1>5 DEF KInv

(***************************************************************************)
(* For a script that keeps clear of the patterns, however long it runs and *)
(* wherever the connection breaks, HiRedis implements CommandSession: a    *)
(* direct call returns the reply to its own command (macros.h: REDIS_RUN), *)
(* exec() one value for every command of the transaction and send() one    *)
(* for every command of the pipeline, with the array of a transaction in   *)
(* its place, all in the order of the calls (redis.c: exec, send;          *)
(* library.c: redis_enqueue); and once the connection is lost no direct    *)
(* call returns the reply to another command.                              *)
(***************************************************************************)
THEOREM PromisesKept == ASSUME Tidy PROVE Spec => KeepsPromise
<1>1. Init => KInv /\ Promise!Init BY InitK
<1>2. KInv /\ [Next]_vars => KInv' /\ [Promise!Next]_(Promise!vars)
  BY NextK DEF Kept
<1>3. Spec => []KInv BY <1>1, <1>2, PTL DEF Spec
<1> QED BY <1>1, <1>2, <1>3, PTL DEF Spec, KeepsPromise, Promise!Spec
=============================================================================
