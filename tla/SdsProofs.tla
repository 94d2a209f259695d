------------------------------ MODULE SdsProofs -----------------------------
(***************************************************************************)
(* What holds of the strings of Sds, for every set of texts that an int    *)
(* can count, every size of sdscatvprintf's first buffer, and every width  *)
(* of an int and of a size_t.                                              *)
(***************************************************************************)
EXTENDS Sds, FiniteSetTheorems, WellFoundedInduction, SequenceTheorems, TLAPS

-----------------------------------------------------------------------------
(***************************************************************************)
(* Least and greatest elements.                                            *)
(***************************************************************************)
LEMMA Least ==
    ASSUME NEW T \in SUBSET Nat, T # {}
    PROVE  \E x \in T : \A y \in T : x <= y
<1>1. PICK x \in T : \A y \in T : ~ (<<y, x>> \in OpToRel(<, Nat))
  BY NatLessThanWellFounded, WFMin
<1>2. ASSUME NEW y \in T PROVE x <= y
  <2>1. <<y, x>> \notin {ss \in Nat \X Nat : ss[1] < ss[2]} BY <1>1 DEF OpToRel
  <2>2. x \in Nat /\ y \in Nat OBVIOUS
  <2>3. ~(y < x) BY <2>1, <2>2
  <2> QED BY <2>2, <2>3
<1> QED BY <1>2

LEMMA MinOf ==
    ASSUME NEW T \in SUBSET Nat, T # {}
    PROVE  Min(T) \in T /\ \A y \in T : Min(T) <= y
  BY Least DEF Min

LEMMA MaxOf ==
    ASSUME NEW n \in Nat, NEW T \in SUBSET (0 .. n), T # {}
    PROVE  Max(T) \in T /\ \A y \in T : Max(T) >= y
<1> DEFINE U == {k \in Nat : n - k \in T}
<1>1. U # {}
  <2>1. PICK y \in T : TRUE OBVIOUS
  <2>2. n - y \in Nat /\ n - (n - y) = y OBVIOUS
  <2> QED BY <2>2
<1>2. PICK x \in U : \A y \in U : x <= y BY <1>1, Least
<1>3. ASSUME NEW y \in T PROVE n - x >= y
  <2>1. n - y \in Nat /\ n - (n - y) = y OBVIOUS
  <2>2. n - y \in U BY <2>1
  <2> QED BY <1>2, <2>2
<1>4. \E m \in T : \A y \in T : m >= y BY <1>2, <1>3
<1> QED BY <1>4 DEF Max

LEMMA MaxUpTo ==
    ASSUME NEW k \in Nat, k > 0
    PROVE  Max(1 .. k) = k /\ (1 .. k) \ {k} = 1 .. k - 1
<1>1. Max(1 .. k) \in 1 .. k /\ \A y \in 1 .. k : Max(1 .. k) >= y
  BY MaxOf, 1 .. k \in SUBSET (0 .. k), 1 .. k # {}
<1> QED BY <1>1

LEMMA MinOfTwo ==
    ASSUME NEW a \in Int, NEW b \in Int
    PROVE  Min({a, b}) = IF a <= b THEN a ELSE b
<1> DEFINE m == IF a <= b THEN a ELSE b
<1>1. m \in {a, b} /\ \A y \in {a, b} : m <= y OBVIOUS
<1>2. \A x \in {a, b} : (\A y \in {a, b} : x <= y) => x = m OBVIOUS
<1> HIDE DEF m
<1>3. Min({a, b}) = m BY <1>1, <1>2 DEF Min
<1> QED BY <1>3 DEF m

LEMMA MaxOfTwo ==
    ASSUME NEW a \in Int, NEW b \in Int
    PROVE  Max({a, b}) = IF a >= b THEN a ELSE b
<1> DEFINE m == IF a >= b THEN a ELSE b
<1>1. m \in {a, b} /\ \A y \in {a, b} : m >= y OBVIOUS
<1>2. \A x \in {a, b} : (\A y \in {a, b} : x >= y) => x = m OBVIOUS
<1> HIDE DEF m
<1>3. Max({a, b}) = m BY <1>1, <1>2 DEF Max
<1> QED BY <1>3 DEF m

-----------------------------------------------------------------------------
(***************************************************************************)
(* Folds.  The operators of the project are folded one at a time, each     *)
(* through a function "step" that does what the operator does.             *)
(***************************************************************************)
\* The equation of the function FoldLeft applies to DOMAIN seq = 1 .. n.
IsFold(g, n, base, step) ==
    g = [u \in SUBSET (1 .. n) |->
            IF u = {} THEN base ELSE step[<<g[u \ {Max(u)}], Max(u)>>]]

LEMMA FoldExists ==
    ASSUME NEW S, NEW base \in S, NEW n \in Nat, NEW step \in [S \X (1 .. n) -> S]
    PROVE  \E g \in [SUBSET (1 .. n) -> S] : IsFold(g, n, base, step)
<1> DEFINE Has(m) == \E g \in [SUBSET (1 .. m) -> S] : IsFold(g, m, base, step)
           T == {m \in Nat : m <= n /\ ~Has(m)}
<1>1. SUFFICES ASSUME ~Has(n) PROVE FALSE OBVIOUS
<1> HIDE DEF Has
<1>2. PICK m \in T : \A y \in T : m <= y
  <2>1. n \in T BY <1>1
  <2> QED BY <2>1, Least
<1>3. CASE m = 0
  <2> DEFINE g == [u \in SUBSET (1 .. 0) |-> base]
  <2>1. \A u \in SUBSET (1 .. 0) : u = {} OBVIOUS
  <2>2. g \in [SUBSET (1 .. 0) -> S] OBVIOUS
  <2>3. g = [u \in SUBSET (1 .. 0) |-> base] OBVIOUS
  <2> HIDE DEF g
  <2>4. \A u \in SUBSET (1 .. 0) :
            base = IF u = {} THEN base ELSE step[<<g[u \ {Max(u)}], Max(u)>>]
    BY <2>1, Zenon
  <2>5. g = [u \in SUBSET (1 .. 0) |->
                IF u = {} THEN base ELSE step[<<g[u \ {Max(u)}], Max(u)>>]]
    BY <2>3, <2>4, Zenon
  <2>6. IsFold(g, 0, base, step) BY <2>5, Zenon DEF IsFold
  <2>7. Has(0) BY <2>2, <2>6 DEF Has
  <2> QED BY <1>2, <1>3, <2>7
<1>4. CASE m > 0
  <2>1. m \in Nat /\ m <= n /\ m - 1 \in Nat /\ m - 1 \notin T BY <1>2, <1>4
  <2>2. PICK h \in [SUBSET (1 .. m - 1) -> S] : IsFold(h, m - 1, base, step)
    <3>1. Has(m - 1) BY <2>1
    <3> QED BY <3>1 DEF Has
  <2> DEFINE g == [u \in SUBSET (1 .. m) |->
                      IF m \in u THEN step[<<h[u \ {m}], m>>] ELSE h[u]]
  <2>3. \A u \in SUBSET (1 .. m) : u \ {m} \in SUBSET (1 .. m - 1)
    BY <2>1
  <2>4. \A u \in SUBSET (1 .. m) : m \notin u => u \in SUBSET (1 .. m - 1)
    BY <2>1
  <2>5. m \in 1 .. n BY <2>1
  <2>6. g \in [SUBSET (1 .. m) -> S]
    <3>1. ASSUME NEW u \in SUBSET (1 .. m)
          PROVE  (IF m \in u THEN step[<<h[u \ {m}], m>>] ELSE h[u]) \in S
      <4>1. h[u \ {m}] \in S BY <2>2, <2>3
      <4>2. <<h[u \ {m}], m>> \in S \X (1 .. n) BY <4>1, <2>5
      <4>3. m \notin u => h[u] \in S BY <2>2, <2>4
      <4> QED BY <4>2, <4>3
    <3> QED BY <3>1
  <2>7. ASSUME NEW u \in SUBSET (1 .. m)
        PROVE  g[u] = IF u = {} THEN base ELSE step[<<g[u \ {Max(u)}], Max(u)>>]
    <3>1. CASE m \in u
      <4>1. Max(u) = m
        <5>1. u \in SUBSET (0 .. m) /\ u # {} BY <2>1, <3>1
        <5>2. Max(u) \in u /\ Max(u) >= m BY <2>1, <3>1, <5>1, MaxOf
        <5>3. Max(u) \in 1 .. m BY <5>2
        <5> QED BY <2>1, <5>2, <5>3
      <4>2. g[u] = step[<<h[u \ {m}], m>>] BY <3>1
      <4>3. u \ {m} \in SUBSET (1 .. m) BY <2>1
      <4>4. g[u \ {m}] = h[u \ {m}] BY <4>3
      <4> QED BY <3>1, <4>1, <4>2, <4>4, Zenon
    <3>2. CASE m \notin u
      <4>1. u \in SUBSET (1 .. m - 1) BY <3>2, <2>4
      <4>2. g[u] = h[u] BY <3>2
      <4>3. h[u] = IF u = {} THEN base ELSE step[<<h[u \ {Max(u)}], Max(u)>>]
        BY <2>2, <4>1 DEF IsFold
      <4>4. u \ {Max(u)} \in SUBSET (1 .. m) /\ m \notin u \ {Max(u)} BY <3>2
      <4>5. g[u \ {Max(u)}] = h[u \ {Max(u)}] BY <4>4
      <4> QED BY <4>2, <4>3, <4>5, Zenon
    <3> QED BY <3>1, <3>2
  <2>8. IsFold(g, m, base, step)
    <3>1. g = [u \in SUBSET (1 .. m) |-> g[u]] OBVIOUS
    <3> HIDE DEF g
    <3>2. g = [u \in SUBSET (1 .. m) |->
                IF u = {} THEN base ELSE step[<<g[u \ {Max(u)}], Max(u)>>]]
      BY <2>7, <3>1, Zenon
    <3> QED BY <3>2, Zenon DEF IsFold
  <2> HIDE DEF g
  <2>9. Has(m) BY <2>6, <2>8 DEF Has
  <2> QED BY <1>2, <2>9
<1> QED BY <1>2, <1>3, <1>4

\* What iterates a step from base stays in the set the step stays in.
LEMMA FoldStays ==
    ASSUME NEW S, NEW n \in Nat, NEW it, it[1 .. 0] \in S,
           \A k \in 1 .. n : it[1 .. k - 1] \in S => it[1 .. k] \in S
    PROVE  \A k \in 0 .. n : it[1 .. k] \in S
<1> DEFINE T == {k \in Nat : k <= n /\ it[1 .. k] \notin S}
<1>1. ASSUME T # {} PROVE FALSE
  <2>1. PICK k \in T : \A y \in T : k <= y BY <1>1, Least
  <2>2. k # 0 BY <2>1
  <2>3. k \in 1 .. n /\ k - 1 \in Nat /\ k - 1 \notin T BY <2>1, <2>2
  <2>4. it[1 .. k - 1] \in S BY <2>3
  <2> QED BY <2>1, <2>3, <2>4
<1> QED BY <1>1

-----------------------------------------------------------------------------
(***************************************************************************)
(* Folds as sequences of intermediate results.                             *)
(***************************************************************************)
\* r goes from base through the elements of t.
IsTrace(r, base, step, t) ==
    /\ r[0] = base
    /\ \A k \in 1 .. Len(t) : r[k] = step[<<r[k - 1], t[k]>>]

\* The function that FoldLeft takes for t, with step for its operator.
IsStepwise(g, base, step, t) ==
    g = [u \in SUBSET (1 .. Len(t)) |->
            IF u = {} THEN base ELSE step[<<g[u \ {Max(u)}], t[Max(u)]>>]]

\* What is folded: steps that stay in S, over elements of E.
Foldable(S, E, base, step, t) == base \in S /\ step \in [S \X E -> S] /\ t \in Seq(E)

HasStepwise(S, E, base, step, t) ==
    \E g \in [SUBSET (1 .. Len(t)) -> S] :
        /\ IsStepwise(g, base, step, t)
        /\ \A u \in SUBSET (1 .. Len(t)) :
              u # {} => g[u \ {Max(u)}] \in S /\ t[Max(u)] \in E

LEMMA StepwiseExists ==
    ASSUME NEW S, NEW E, NEW base, NEW step, NEW t, Foldable(S, E, base, step, t)
    PROVE  HasStepwise(S, E, base, step, t)
<1> DEFINE n == Len(t)
           on == [p \in S \X (1 .. n) |-> step[<<p[1], t[p[2]]>>]]
<1>0. base \in S /\ step \in [S \X E -> S] /\ t \in Seq(E) BY DEF Foldable
<1>1. n \in Nat /\ \A k \in 1 .. n : t[k] \in E BY <1>0, ElementOfSeq, LenProperties
<1>2. on \in [S \X (1 .. n) -> S] BY <1>0, <1>1
<1>3. \A x \in S, k \in 1 .. n : on[<<x, k>>] = step[<<x, t[k]>>] OBVIOUS
<1> HIDE DEF on
<1>4. PICK h \in [SUBSET (1 .. n) -> S] : IsFold(h, n, base, on)
  <2> HIDE DEF n
  <2> QED BY <1>0, <1>1, <1>2, FoldExists
<1>5. ASSUME NEW u \in SUBSET (1 .. n), u # {}
      PROVE  h[u \ {Max(u)}] \in S /\ Max(u) \in 1 .. n
  <2> HIDE DEF n
  <2>1. u \in SUBSET (0 .. n) BY <1>1
  <2>2. Max(u) \in 1 .. n BY <1>1, <1>5, <2>1, MaxOf
  <2> QED BY <1>4, <2>2
<1>6. IsStepwise(h, base, step, t)
  <2>1. \A u \in SUBSET (1 .. n) : u # {} =>
            on[<<h[u \ {Max(u)}], Max(u)>>] = step[<<h[u \ {Max(u)}], t[Max(u)]>>]
    BY <1>3, <1>5
  <2>2. h = [u \in SUBSET (1 .. n) |->
                IF u = {} THEN base ELSE on[<<h[u \ {Max(u)}], Max(u)>>]]
    BY <1>4 DEF IsFold
  <2> QED BY <2>1, <2>2 DEF IsStepwise
<1>7. \A u \in SUBSET (1 .. n) : u # {} => h[u \ {Max(u)}] \in S /\ t[Max(u)] \in E
  BY <1>1, <1>5
<1> QED BY <1>4, <1>6, <1>7, Zenon DEF HasStepwise

\* What an operator that does what step does makes of 1 .. Len(t), element by
\* element.
HasTrace(S, base, step, t, end) ==
    \E r \in [0 .. Len(t) -> S] : IsTrace(r, base, step, t) /\ r[Len(t)] = end

LEMMA FoldTrace ==
    ASSUME NEW S, NEW E, NEW base, NEW step, NEW t, Foldable(S, E, base, step, t),
           NEW it, it[{}] = base,
           \A u \in SUBSET (1 .. Len(t)) :
               u # {} /\ it[u \ {Max(u)}] \in S /\ t[Max(u)] \in E =>
                   it[u] = step[<<it[u \ {Max(u)}], t[Max(u)]>>]
    PROVE  HasTrace(S, base, step, t, it[1 .. Len(t)])
<1> DEFINE n == Len(t)
<1>0. base \in S /\ step \in [S \X E -> S] /\ t \in Seq(E) BY DEF Foldable
<1>1. n \in Nat /\ \A k \in 1 .. n : t[k] \in E BY <1>0, ElementOfSeq, LenProperties
<1>2. ASSUME NEW k \in 1 .. n, it[1 .. k - 1] \in S
      PROVE  it[1 .. k] = step[<<it[1 .. k - 1], t[k]>>]
  <2> HIDE DEF n
  <2>0. k \in Nat /\ k > 0 /\ 1 \in 1 .. k BY <1>1
  <2>1. 1 .. k \in SUBSET (1 .. n) /\ 1 .. k # {}
    <3>1. k <= n BY <1>1
    <3>2. \A j \in 1 .. k : j \in 1 .. n BY <1>1, <2>0, <3>1
    <3> QED BY <2>0, <3>2
  <2>2. Max(1 .. k) = k /\ (1 .. k) \ {k} = 1 .. k - 1 BY <2>0, MaxUpTo
  <2>3. 1 .. k \in SUBSET (1 .. Len(t)) BY <2>1 DEF n
  <2>4. it[(1 .. k) \ {Max(1 .. k)}] \in S /\ t[Max(1 .. k)] \in E
    BY <1>1, <1>2, <2>2
  <2> DEFINE u == 1 .. k
  <2>5. u # {} /\ u \in SUBSET (1 .. Len(t)) /\ it[u \ {Max(u)}] \in S /\ t[Max(u)] \in E
    BY <2>1, <2>3, <2>4
  <2> HIDE DEF u
  <2>6. it[u] = step[<<it[u \ {Max(u)}], t[Max(u)]>>] BY <2>5
  <2> QED BY <2>2, <2>6 DEF u
<1>3. it[1 .. 0] = base
  <2>1. 1 .. 0 = {} OBVIOUS
  <2> QED BY <2>1
<1> HIDE DEF n
<1>4. \A k \in 1 .. n : it[1 .. k - 1] \in S => it[1 .. k] \in S
  BY <1>0, <1>1, <1>2
<1>5. \A k \in 0 .. n : it[1 .. k] \in S BY <1>0, <1>1, <1>3, <1>4, FoldStays
<1> DEFINE r == [k \in 0 .. n |-> it[1 .. k]]
<1>6. r \in [0 .. n -> S] /\ r[0] = base /\ r[n] = it[1 .. n] BY <1>1, <1>3, <1>5
<1>7. \A k \in 1 .. n : r[k] = step[<<r[k - 1], t[k]>>]
  <2>1. \A k \in 1 .. n : k \in 0 .. n /\ k - 1 \in 0 .. n BY <1>1
  <2> QED BY <1>2, <1>5, <2>1
<1> HIDE DEF r
<1>8. IsTrace(r, base, step, t) BY <1>6, <1>7 DEF IsTrace, n
<1> QED BY <1>6, <1>8 DEF n, HasTrace

\* Two traces of the same elements are the same, as far as both go.
LEMMA TracesAgree ==
    ASSUME NEW E, NEW base, NEW step, NEW t \in Seq(E), NEW u \in Seq(E), Len(t) <= Len(u),
           \A k \in 1 .. Len(t) : t[k] = u[k],
           NEW q, NEW r, IsTrace(q, base, step, t), IsTrace(r, base, step, u)
    PROVE  \A k \in 0 .. Len(t) : q[k] = r[k]
<1> DEFINE T == {k \in Nat : k <= Len(t) /\ q[k] # r[k]}
<1>0. Len(t) \in Nat /\ Len(u) \in Nat BY LenProperties
<1>1. ASSUME T # {} PROVE FALSE
  <2>1. PICK k \in T : \A y \in T : k <= y BY <1>1, Least
  <2>2. k # 0 BY <2>1 DEF IsTrace
  <2>3. k \in 1 .. Len(t) /\ k - 1 \in Nat /\ k - 1 \notin T /\ k \in 1 .. Len(u)
    BY <1>0, <2>1, <2>2
  <2>4. q[k - 1] = r[k - 1] BY <1>0, <2>3
  <2>5. q[k] = step[<<q[k - 1], t[k]>>] /\ r[k] = step[<<r[k - 1], u[k]>>] BY <2>3 DEF IsTrace
  <2> QED BY <2>1, <2>3, <2>4, <2>5
<1> QED BY <1>0, <1>1

LEMMA TraceGrows ==
    ASSUME NEW S, NEW E, NEW base, NEW step, NEW t \in Seq(E), NEW x \in E, NEW e, NEW f,
           HasTrace(S, base, step, t, e), HasTrace(S, base, step, Append(t, x), f)
    PROVE  e \in S /\ f = step[<<e, x>>]
<1> DEFINE n == Len(t)
           more == Append(t, x)
<1>1. n \in Nat /\ more \in Seq(E) /\ Len(more) = n + 1 /\ more[n + 1] = x
      /\ \A k \in 1 .. n : t[k] = more[k]
  BY AppendProperties, LenProperties
<1> HIDE DEF more
<1>2. PICK q \in [0 .. n -> S] : IsTrace(q, base, step, t) /\ q[n] = e
  BY Zenon DEF HasTrace
<1>3. PICK r \in [0 .. Len(more) -> S] : IsTrace(r, base, step, more) /\ r[Len(more)] = f
  BY Zenon DEF HasTrace, more
<1>4. q[n] = r[n]
  <2>1. Len(t) <= Len(more) /\ n \in 0 .. Len(t) BY <1>1
  <2> QED BY <1>1, <1>2, <1>3, <2>1, TracesAgree
<1>5. n \in 0 .. n BY <1>1
<1>6. r[n + 1] = step[<<r[n], x>>]
  <2>1. n + 1 \in 1 .. Len(more) /\ (n + 1) - 1 = n BY <1>1
  <2>2. r[n + 1] = step[<<r[(n + 1) - 1], more[n + 1]>>] BY <1>3, <2>1 DEF IsTrace
  <2> QED BY <1>1, <2>1, <2>2
<1> QED BY <1>1, <1>2, <1>3, <1>4, <1>5, <1>6

LEMMA TraceStarts ==
    ASSUME NEW S, NEW base, NEW step, NEW e, HasTrace(S, base, step, <<>>, e)
    PROVE  e = base
<1>1. PICK r : IsTrace(r, base, step, <<>>) /\ r[Len(<<>>)] = e BY Zenon DEF HasTrace
<1>2. Len(<<>>) = 0 OBVIOUS
<1> QED BY <1>1, <1>2 DEF IsTrace

\* c is a with b after it.
IsConcat(c, a, b) ==
    /\ Len(c) = Len(a) + Len(b)
    /\ \A i \in 1 .. Len(a) : c[i] = a[i]
    /\ \A i \in 1 .. Len(b) : c[Len(a) + i] = b[i]

LEMMA ConcatIs ==
    ASSUME NEW S, NEW a \in Seq(S), NEW b \in Seq(S)
    PROVE  a \o b \in Seq(S) /\ IsConcat(a \o b, a, b)
<1> DEFINE m == Len(a)
           n == Len(b)
<1>0. m \in Nat /\ n \in Nat BY LenProperties
<1>1. a \o b \in Seq(S) /\ Len(a \o b) = Len(a) + Len(b)
      /\ \A i \in 1 .. Len(a) + Len(b) :
            (a \o b)[i] = IF i <= Len(a) THEN a[i] ELSE b[i - Len(a)]
  BY ConcatProperties
<1> DEFINE c == a \o b
<1> HIDE DEF c
<1>2. c \in Seq(S) /\ Len(c) = m + n
      /\ \A i \in 1 .. m + n : c[i] = IF i <= m THEN a[i] ELSE b[i - m]
  BY <1>1 DEF c
<1> HIDE DEF m, n
<1>3. \A i \in 1 .. m : i \in 1 .. m + n /\ i <= m BY <1>0
<1>4. \A i \in 1 .. n : m + i \in 1 .. m + n /\ ~(m + i <= m) /\ (m + i) - m = i
  BY <1>0
<1>5. \A i \in 1 .. m : c[i] = a[i] BY <1>2, <1>3
<1>6. \A i \in 1 .. n : c[m + i] = b[i] BY <1>2, <1>4
<1> QED BY <1>2, <1>5, <1>6 DEF c, m, n, IsConcat

\* Short sequences.
LEMMA ListsOf ==
    ASSUME NEW S, NEW p \in S, NEW q \in S, NEW r \in S
    PROVE  /\ Append(Append(<<>>, p), q) = <<p, q>>
           /\ Append(Append(Append(<<>>, p), q), r) = <<p, q, r>>
           /\ <<>> \o <<p>> = <<p>> /\ <<p>> \o <<q>> = <<p, q>>
           /\ <<p>> # <<>> /\ <<p, q>> # <<>>
<1>1. Append(<<>>, p) = <<p>> OBVIOUS
<1>2. Append(<<p>>, q) = <<p, q>>
  <2> DEFINE a == Append(<<p>>, q)
             b == <<p, q>>
  <2>1. a \in Seq(S) /\ Len(a) = 2 /\ a[1] = p /\ a[2] = q OBVIOUS
  <2>2. b \in Seq(S) /\ Len(b) = 2 /\ b[1] = p /\ b[2] = q OBVIOUS
  <2> HIDE DEF a, b
  <2>3. \A k \in 1 .. 2 : k = 1 \/ k = 2 OBVIOUS
  <2>4. \A k \in 1 .. Len(a) : a[k] = b[k] BY <2>1, <2>2, <2>3
  <2>5. Len(a) = Len(b) BY <2>1, <2>2
  <2>6. a = b BY <2>1, <2>2, <2>4, <2>5, SeqEqual
  <2> QED BY <2>6 DEF a, b
<1>3. Append(<<p, q>>, r) = <<p, q, r>>
  <2> DEFINE a == Append(<<p, q>>, r)
             b == <<p, q, r>>
  <2>1. a \in Seq(S) /\ Len(a) = 3 /\ a[1] = p /\ a[2] = q /\ a[3] = r OBVIOUS
  <2>2. b \in Seq(S) /\ Len(b) = 3 /\ b[1] = p /\ b[2] = q /\ b[3] = r OBVIOUS
  <2> HIDE DEF a, b
  <2>3. \A k \in 1 .. 3 : k = 1 \/ k = 2 \/ k = 3 OBVIOUS
  <2>4. \A k \in 1 .. Len(a) : a[k] = b[k] BY <2>1, <2>2, <2>3
  <2>5. Len(a) = Len(b) BY <2>1, <2>2
  <2>6. a = b BY <2>1, <2>2, <2>4, <2>5, SeqEqual
  <2> QED BY <2>6 DEF a, b
<1>4. <<>> \o <<p>> = <<p>> OBVIOUS
<1>5. <<p>> \o <<q>> = <<p, q>>
  <2> DEFINE a == <<p>> \o <<q>>
             b == <<p, q>>
  <2>1. a \in Seq(S) /\ Len(a) = 2 /\ a[1] = p /\ a[2] = q OBVIOUS
  <2>2. b \in Seq(S) /\ Len(b) = 2 /\ b[1] = p /\ b[2] = q OBVIOUS
  <2> HIDE DEF a, b
  <2>3. \A k \in 1 .. 2 : k = 1 \/ k = 2 OBVIOUS
  <2>4. \A k \in 1 .. Len(a) : a[k] = b[k] BY <2>1, <2>2, <2>3
  <2>5. Len(a) = Len(b) BY <2>1, <2>2
  <2>6. a = b BY <2>1, <2>2, <2>4, <2>5, SeqEqual
  <2> QED BY <2>6 DEF a, b
<1>6. <<p>> # <<>> OBVIOUS
<1>7. <<p, q>> # <<>> OBVIOUS
<1> QED BY <1>1, <1>2, <1>3, <1>4, <1>5, <1>6, <1>7

\* From p, the elements of x lead to q.
Leads(S, E, step, p, x, q) == x \in Seq(E) /\ HasTrace(S, p, step, x, q)

LEMMA LeadsNothing ==
    ASSUME NEW S, NEW E, NEW step, NEW p \in S
    PROVE  Leads(S, E, step, p, <<>>, p)
<1> DEFINE none == <<>>
           r == [k \in 0 .. 0 |-> p]
<1>1. none \in Seq(E) /\ Len(none) = 0 OBVIOUS
<1>2. r \in [0 .. 0 -> S] /\ r[0] = p OBVIOUS
<1> HIDE DEF none, r
<1>3. \A k \in 1 .. Len(none) : r[k] = step[<<r[k - 1], none[k]>>] BY <1>1
<1>4. r \in [0 .. Len(none) -> S] /\ r[Len(none)] = p /\ IsTrace(r, p, step, none)
  BY <1>1, <1>2, <1>3, Zenon DEF IsTrace
<1>5. HasTrace(S, p, step, none, p) BY <1>4, Zenon DEF HasTrace
<1> QED BY <1>1, <1>5 DEF Leads, none

LEMMA LeadsEnds ==
    ASSUME NEW S, NEW E, NEW step, NEW p, NEW x, NEW q, Leads(S, E, step, p, x, q)
    PROVE  p \in S /\ q \in S
<1>1. x \in Seq(E) /\ HasTrace(S, p, step, x, q) BY DEF Leads
<1>2. PICK r \in [0 .. Len(x) -> S] : IsTrace(r, p, step, x) /\ r[Len(x)] = q
  BY <1>1, Zenon DEF HasTrace
<1>3. Len(x) \in Nat BY <1>1, LenProperties
<1>4. 0 \in 0 .. Len(x) /\ Len(x) \in 0 .. Len(x) BY <1>3
<1> QED BY <1>2, <1>4 DEF IsTrace

LEMMA LeadsConcat ==
    ASSUME NEW S, NEW E, NEW step, NEW p, NEW x, NEW q, NEW y, NEW z,
           Leads(S, E, step, p, x, q), Leads(S, E, step, q, y, z)
    PROVE  Leads(S, E, step, p, x \o y, z)
<1>1. /\ x \in Seq(E) /\ HasTrace(S, p, step, x, q)
      /\ y \in Seq(E) /\ HasTrace(S, q, step, y, z)
  BY DEF Leads
<1> DEFINE m == Len(x)
           n == Len(y)
           c == x \o y
<1>2. PICK r \in [0 .. m -> S] : IsTrace(r, p, step, x) /\ r[m] = q
  BY <1>1, Zenon DEF HasTrace
<1>3. PICK u \in [0 .. n -> S] : IsTrace(u, q, step, y) /\ u[n] = z
  BY <1>1, Zenon DEF HasTrace
<1>4. m \in Nat /\ n \in Nat BY <1>1, LenProperties
<1>5. c \in Seq(E) /\ IsConcat(c, x, y) BY <1>1, ConcatIs
<1>6. Len(c) = m + n /\ (\A i \in 1 .. m : c[i] = x[i]) /\ \A i \in 1 .. n : c[m + i] = y[i]
  BY <1>5 DEF IsConcat
<1>7. r[0] = p /\ \A k \in 1 .. m : r[k] = step[<<r[k - 1], x[k]>>] BY <1>2 DEF IsTrace
<1>8. u[0] = q /\ \A k \in 1 .. n : u[k] = step[<<u[k - 1], y[k]>>] BY <1>3 DEF IsTrace
<1> HIDE DEF m, n, c
<1> DEFINE w == [k \in 0 .. m + n |-> IF k <= m THEN r[k] ELSE u[k - m]]
<1>9. w \in [0 .. m + n -> S]
  <2>1. \A k \in 0 .. m + n : k <= m => r[k] \in S BY <1>2, <1>4
  <2>2. \A k \in 0 .. m + n : ~(k <= m) => u[k - m] \in S BY <1>3, <1>4
  <2> QED BY <2>1, <2>2
<1>10. /\ \A k \in 0 .. m : w[k] = r[k]
       /\ \A k \in 0 .. n : w[m + k] = u[k]
  <2>1. \A k \in 0 .. m : k \in 0 .. m + n /\ k <= m BY <1>4
  <2>2. \A k \in 1 .. n : m + k \in 0 .. m + n /\ ~(m + k <= m) /\ (m + k) - m = k BY <1>4
  <2>3. w[m + 0] = u[0] BY <1>2, <1>4, <1>8
  <2>4. \A k \in 0 .. n : k = 0 \/ k \in 1 .. n BY <1>4
  <2> QED BY <2>1, <2>2, <2>3, <2>4
<1> HIDE DEF w
<1>11. w[0] = p /\ w[m + n] = z
  <2>1. 0 \in 0 .. m /\ n \in 0 .. n BY <1>4
  <2> QED BY <1>3, <1>7, <1>10, <2>1
<1>12. ASSUME NEW k \in 1 .. m + n PROVE w[k] = step[<<w[k - 1], c[k]>>]
  <2>1. CASE k <= m
    <3>1. k \in 1 .. m /\ k \in 0 .. m /\ k - 1 \in 0 .. m BY <1>4, <2>1
    <3> QED BY <1>6, <1>7, <1>10, <3>1
  <2>2. CASE k > m
    <3> DEFINE j == k - m
    <3>1. j \in 1 .. n /\ j \in 0 .. n /\ j - 1 \in 0 .. n /\ m + j = k
      BY <1>4, <2>2
    <3>2. m + (j - 1) = k - 1 BY <1>4, <3>1
    <3> HIDE DEF j
    <3>3. w[m + j] = u[j] /\ w[m + (j - 1)] = u[j - 1] BY <1>10, <3>1
    <3>4. c[m + j] = y[j] /\ u[j] = step[<<u[j - 1], y[j]>>] BY <1>6, <1>8, <3>1
    <3> QED BY <3>1, <3>2, <3>3, <3>4
  <2> QED BY <1>4, <2>1, <2>2
<1>13. HasTrace(S, p, step, c, z)
  <2>1. IsTrace(w, p, step, c) BY <1>6, <1>11, <1>12 DEF IsTrace
  <2>2. w \in [0 .. Len(c) -> S] /\ w[Len(c)] = z BY <1>6, <1>9, <1>11
  <2> QED BY <2>1, <2>2, Zenon DEF HasTrace
<1> QED BY <1>5, <1>13 DEF Leads, c

LEMMA LeadsOne ==
    ASSUME NEW S, NEW E, NEW step \in [S \X E -> S], NEW q \in S, NEW c \in E
    PROVE  Leads(S, E, step, q, <<c>>, step[<<q, c>>])
<1> DEFINE x == <<c>>
           one == 1
           e == step[<<q, c>>]
           r == [k \in 0 .. one |-> IF k = 0 THEN q ELSE e]
<1>1. x \in Seq(E) /\ Len(x) = one /\ x[one] = c /\ one = 1 OBVIOUS
<1>2. e \in S /\ e = step[<<q, c>>] OBVIOUS
<1> HIDE DEF e, one, x
<1>3. r \in [0 .. one -> S] /\ r[0] = q /\ r[one] = e BY <1>1, <1>2
<1> HIDE DEF r
<1>4. \A k \in 1 .. Len(x) : r[k] = step[<<r[k - 1], x[k]>>]
  <2>1. \A k \in 1 .. Len(x) : k = 1 /\ k - 1 = 0 BY <1>1
  <2> QED BY <1>1, <1>2, <1>3, <2>1
<1>5. IsTrace(r, q, step, x) BY <1>3, <1>4 DEF IsTrace
<1>6. r \in [0 .. Len(x) -> S] /\ r[Len(x)] = e BY <1>1, <1>3
<1>7. HasTrace(S, q, step, x, e) BY <1>5, <1>6, Zenon DEF HasTrace
<1> QED BY <1>1, <1>7 DEF Leads, x, e

LEMMA LeadsNowhereElse ==
    ASSUME NEW S, NEW E, NEW step, NEW p, NEW x, NEW q, NEW z,
           Leads(S, E, step, p, x, q), Leads(S, E, step, p, x, z)
    PROVE  q = z
<1>1. x \in Seq(E) /\ HasTrace(S, p, step, x, q) /\ HasTrace(S, p, step, x, z)
  BY DEF Leads
<1>2. PICK r \in [0 .. Len(x) -> S] : IsTrace(r, p, step, x) /\ r[Len(x)] = q
  BY <1>1, Zenon DEF HasTrace
<1>3. PICK u \in [0 .. Len(x) -> S] : IsTrace(u, p, step, x) /\ u[Len(x)] = z
  BY <1>1, Zenon DEF HasTrace
<1>4. Len(x) \in Nat /\ Len(x) <= Len(x) /\ x \in Seq(E) BY <1>1, LenProperties
<1>5. \A k \in 0 .. Len(x) : r[k] = u[k] BY <1>2, <1>3, <1>4, TracesAgree
<1> QED BY <1>2, <1>3, <1>4, <1>5

-----------------------------------------------------------------------------
(***************************************************************************)
(* Memory.                                                                 *)
(***************************************************************************)
Byte == Chars \cup {JUNK, "%", "-", "cr", "$", "*",
                    "1", "2", "3", "4", "5", "6", "7", "8", "9"}
Text == Seq(Byte)

\* What a header says of room: an int that is too small for it wraps.
FreeOf(room) == IF room <= IntMax THEN room ELSE room - 2 * (IntMax + 1)

\* The bytes that were allocated, but for the terminator.
Size(sh) == Len(sh.buf) - 1

\* The strings of which HeaderSound holds.  A string is given twice the room
\* that is needed, which no int may be able to say.
SoundStrings == {sh \in [len : 0 .. IntMax, free : Int, buf : Text] :
                /\ Size(sh) \in sh.len .. 2 * IntMax
                /\ sh.free = FreeOf(Size(sh) - sh.len)
                /\ sh.buf[sh.len + 1] = NUL}

\* All that looks like a string.
Strings == [len : Int, free : Int, buf : Text]

LEMMA StringsAre ==
    ASSUME NEW sh \in SoundStrings
    PROVE  /\ sh.len \in Nat /\ sh.len <= IntMax /\ sh.free \in Int /\ sh.buf \in Text
           /\ Size(sh) \in Nat /\ sh.len <= Size(sh) /\ Size(sh) <= 2 * IntMax
           /\ Len(sh.buf) = Size(sh) + 1
           /\ sh.free = FreeOf(Size(sh) - sh.len)
           /\ sh.buf[sh.len + 1] = NUL
           /\ DOMAIN sh.buf = 1 .. Len(sh.buf)
           /\ \A k \in 1 .. Len(sh.buf) : sh.buf[k] \in Byte
           /\ sh = [len |-> sh.len, free |-> sh.free, buf |-> sh.buf]
<1>1. sh.len \in Nat /\ sh.len <= IntMax /\ sh.free \in Int /\ sh.buf \in Text
      /\ Size(sh) \in sh.len .. 2 * IntMax
      /\ sh.free = FreeOf(Size(sh) - sh.len)
      /\ sh.buf[sh.len + 1] = NUL
      /\ sh = [len |-> sh.len, free |-> sh.free, buf |-> sh.buf]
  BY SdsAssumption DEF SoundStrings
<1>2. Len(sh.buf) \in Nat /\ DOMAIN sh.buf = 1 .. Len(sh.buf)
      /\ \A k \in 1 .. Len(sh.buf) : sh.buf[k] \in Byte
  BY <1>1, LenProperties, ElementOfSeq DEF Text
<1>3. Len(sh.buf) = Size(sh) + 1 BY <1>2 DEF Size
<1>4. Size(sh) \in Nat /\ sh.len <= Size(sh) /\ Size(sh) <= 2 * IntMax
  BY <1>1, SdsAssumption
<1> QED BY <1>1, <1>2, <1>3, <1>4

LEMMA SoundIs ==
    ASSUME NEW len \in 0 .. IntMax, NEW free \in Int, NEW buf \in Text,
           Len(buf) - 1 \in len .. 2 * IntMax, free = FreeOf(Len(buf) - 1 - len),
           buf[len + 1] = NUL
    PROVE  [len |-> len, free |-> free, buf |-> buf] \in SoundStrings
  BY DEF SoundStrings, Size

LEMMA SoundIsString == SoundStrings \subseteq Strings
  BY SdsAssumption DEF SoundStrings, Strings

-----------------------------------------------------------------------------
(***************************************************************************)
(* Numbers.                                                                *)
(***************************************************************************)
LEMMA ModUnique ==
    ASSUME NEW x \in Int, NEW q \in Int, NEW M \in Nat, M > 0, NEW r \in 0 .. M - 1,
           x = M * q + r
    PROVE  x % M = r
<1>1. x % M \in 0 .. M - 1 /\ x = M * (x \div M) + (x % M) /\ x \div M \in Int OBVIOUS
<1> DEFINE p == x \div M
           y == x % M
<1>2. y \in 0 .. M - 1 /\ M * p + y = M * q + r /\ p \in Int BY <1>1
<1> HIDE DEF p, y
<1>3. M * (p - q) = r - y BY <1>2
<1>4. p - q \in Int /\ r - y \in Int /\ -M < r - y /\ r - y < M BY <1>2
<1>5. ~(p - q >= 1)
  <2>1. p - q >= 1 => M * (p - q) >= M BY <1>4
  <2> QED BY <1>3, <1>4, <2>1
<1>6. ~(p - q <= -1)
  <2>1. p - q <= -1 => M * (p - q) <= -M BY <1>4
  <2> QED BY <1>3, <1>4, <2>1
<1>7. p - q = 0 BY <1>4, <1>5, <1>6
<1>8. r - y = 0 BY <1>3, <1>7
<1> QED BY <1>2, <1>8 DEF y

LEMMA ModShift ==
    ASSUME NEW x \in Int, NEW y \in Int, NEW M \in Nat, M > 0, y % M = 0
    PROVE  (x + y) % M = x % M
<1> DEFINE q == x \div M
           p == y \div M
           r == x % M
<1>1. q \in Int /\ p \in Int /\ r \in 0 .. M - 1 /\ x = M * q + r /\ y = M * p + 0
  OBVIOUS
<1> HIDE DEF q, p, r
<1>2. q + p \in Int /\ x + y \in Int /\ x + y = M * (q + p) + r BY <1>1
<1>3. (x + y) % M = r BY <1>1, <1>2, ModUnique
<1> QED BY <1>3 DEF r

\* What is left of a number that wraps, and the numbers that wrap to the same.
LEMMA ToIntIs ==
    ASSUME NEW n \in Int
    PROVE  /\ ToInt(n) \in Ints
           /\ n \in Ints => ToInt(n) = n
           /\ ToInt(n - 2 * (IntMax + 1)) = ToInt(n)
           /\ ToInt(n + (SizeMax + 1)) = ToInt(n)
<1> DEFINE m == IntMax + 1
           M == 2 * m
           z == SizeMax + 1
<1>1. m \in Nat /\ m > 0 /\ M \in Nat /\ M > 0 /\ M = m + m BY SdsAssumption
<1>2. \A k \in Int : ToInt(k) = ((k + m) % M) - m
  <2>1. \A k \in Int : k + IntMax + 1 = k + m BY SdsAssumption
  <2> QED BY <2>1 DEF ToInt
<1>3. Ints = -m .. m - 1 BY SdsAssumption DEF Ints
<1>4. z \in Int /\ z % M = 0 BY SdsAssumption
<1> HIDE DEF m, z
<1> DEFINE x == n + m
<1>5. x \in Int /\ (n \in -m .. m - 1 => x \in 0 .. M - 1) /\ x - m = n BY <1>1
<1>6. n - M + m = x + (-M) /\ n + z + m = x + z /\ n - M \in Int /\ n + z \in Int
  BY <1>1, <1>4
<1> HIDE DEF M, x
<1>7. x % M \in 0 .. M - 1 /\ (x \in 0 .. M - 1 => x % M = x) BY <1>1, <1>5
<1>8. (-M) % M = 0 /\ -M \in Int
  <2>1. -M \in Int /\ -M = M * (-1) + 0 /\ 0 \in 0 .. M - 1 /\ -1 \in Int BY <1>1
  <2> QED BY <1>1, <2>1, ModUnique
<1>9. (x + (-M)) % M = x % M /\ (x + z) % M = x % M
  BY <1>1, <1>4, <1>5, <1>8, ModShift
<1>10. ToInt(n) = (x % M) - m BY <1>2 DEF x
<1>11. ToInt(n - M) = ToInt(n) /\ ToInt(n + z) = ToInt(n)
  BY <1>2, <1>6, <1>9, <1>10
<1>12. ToInt(n) \in Ints /\ (n \in Ints => ToInt(n) = n)
  BY <1>1, <1>3, <1>5, <1>7, <1>10
<1> QED BY <1>11, <1>12 DEF M, m, z

LEMMA FreeOfIs ==
    ASSUME NEW room \in 0 .. 2 * IntMax
    PROVE  /\ FreeOf(room) \in Ints
           /\ ToInt(room) = FreeOf(room)
           /\ ToInt(room - 2 * (IntMax + 1)) = FreeOf(room)
<1>1. room \in Int /\ IntMax \in Nat BY SdsAssumption
<1>2. ToInt(room - 2 * (IntMax + 1)) = ToInt(room) BY <1>1, ToIntIs
<1>3. CASE room <= IntMax
  <2>1. room \in Ints BY <1>1, <1>3 DEF Ints
  <2> QED BY <1>1, <1>2, <1>3, <2>1, ToIntIs DEF FreeOf
<1>4. CASE ~(room <= IntMax)
  <2> DEFINE n == room - 2 * (IntMax + 1)
  <2>1. n \in Ints /\ n \in Int BY <1>1, <1>4 DEF Ints
  <2> HIDE DEF n
  <2>2. ToInt(n) = n BY <2>1, ToIntIs
  <2> QED BY <1>2, <1>4, <2>1, <2>2 DEF FreeOf, n
<1> QED BY <1>3, <1>4

\* An int read as a size_t.
LEMMA ToSizeIs ==
    /\ SizeMax >= 2 * IntMax + 1
    /\ \A n \in Int : ToSize(n) \in Nat
    /\ \A n \in 0 .. SizeMax : ToSize(n) = n
    /\ \A n \in Ints : n < 0 => ToSize(n) = n + (SizeMax + 1)
<1> DEFINE M == 2 * (IntMax + 1)
           z == SizeMax + 1
<1>1. M \in Nat /\ M > 0 /\ z \in Nat /\ z > 0 /\ z % M = 0 BY SdsAssumption
<1>2. M = 2 * IntMax + 2 BY SdsAssumption
<1>3. z >= M
  <2> HIDE DEF M, z
  <2>1. z < M => z % M = z BY <1>1
  <2> QED BY <1>1, <2>1
<1>4. SizeMax >= 2 * IntMax + 1 BY <1>2, <1>3, SdsAssumption
<1>5. \A n \in Int : ToSize(n) = n % z BY DEF ToSize
<1>6. 0 .. SizeMax = 0 .. z - 1 BY SdsAssumption
<1>7. \A n \in Ints : n \in Int /\ (n < 0 => n + z \in 0 .. z - 1)
  BY <1>2, <1>3, SdsAssumption DEF Ints
<1> HIDE DEF M, z
<1>8. \A n \in Int : n % z \in Nat BY <1>1
<1>9. \A n \in 0 .. z - 1 : n % z = n BY <1>1
<1>10. ASSUME NEW n \in Ints, n < 0 PROVE n % z = n + z
  <2> DEFINE r == n + z
             q == -1
  <2>1. n \in Int /\ r \in 0 .. z - 1 /\ n = z * q + r /\ q \in Int
    BY <1>1, <1>7, <1>10
  <2> HIDE DEF r, q
  <2>2. n % z = r BY <1>1, <2>1, ModUnique
  <2> QED BY <2>2 DEF r
<1>11. \A n \in Int : ToSize(n) \in Nat BY <1>5, <1>8
<1>12. \A n \in 0 .. SizeMax : n \in Int BY SdsAssumption
<1>13. \A n \in 0 .. SizeMax : ToSize(n) = n BY <1>5, <1>6, <1>9, <1>12
<1>14. \A n \in Ints : n < 0 => ToSize(n) = n + z BY <1>5, <1>7, <1>10
<1> QED BY <1>4, <1>11, <1>13, <1>14 DEF z

\* What sdslen and sdsavail make of a header.
LEMMA SizesAre ==
    ASSUME NEW sh \in SoundStrings
    PROVE  /\ SLen(sh) = sh.len
           /\ LET room == Size(sh) - sh.len IN
              /\ room \in 0 .. 2 * IntMax
              /\ room <= IntMax => Avail(sh) = room
              /\ ~(room <= IntMax) => Avail(sh) \in Nat /\ Avail(sh) > IntMax
              /\ Avail(sh) \in Nat
<1> DEFINE room == Size(sh) - sh.len
<1>1. /\ sh.len \in Nat /\ sh.len <= IntMax /\ Size(sh) \in Nat /\ sh.len <= Size(sh)
      /\ Size(sh) <= 2 * IntMax /\ sh.free = FreeOf(room)
  BY StringsAre
<1>2. room \in 0 .. 2 * IntMax /\ IntMax \in Nat /\ SizeMax \in Nat BY <1>1, SdsAssumption
<1>3. SizeMax >= 2 * IntMax + 1 BY ToSizeIs
<1>4. SLen(sh) = sh.len
  <2>1. sh.len \in 0 .. SizeMax BY <1>1, <1>2, <1>3
  <2> QED BY <2>1, ToSizeIs DEF SLen
<1>5. CASE room <= IntMax
  <2>1. sh.free = room BY <1>1, <1>5 DEF FreeOf
  <2>2. room \in 0 .. SizeMax BY <1>2, <1>3
  <2> HIDE DEF room
  <2>3. Avail(sh) = room BY <2>1, <2>2, ToSizeIs DEF Avail
  <2> QED BY <1>2, <1>4, <1>5, <2>3 DEF room
<1>6. CASE ~(room <= IntMax)
  <2>1. sh.free = room - 2 * (IntMax + 1) BY <1>1, <1>6 DEF FreeOf
  <2>2. sh.free \in Ints /\ sh.free < 0 BY <1>2, <1>6, <2>1 DEF Ints
  <2>3. Avail(sh) = sh.free + (SizeMax + 1) BY <2>2, ToSizeIs DEF Avail
  <2> HIDE DEF room
  <2>4. Avail(sh) \in Nat /\ Avail(sh) > IntMax BY <1>2, <1>3, <1>6, <2>1, <2>3
  <2> QED BY <1>2, <1>4, <1>6, <2>4 DEF room
<1> QED BY <1>5, <1>6

-----------------------------------------------------------------------------
(***************************************************************************)
(* Copying.                                                                *)
(***************************************************************************)

LEMMA StrOf ==
    ASSUME NEW sh, sh.buf \in Text, sh.len \in Nat, sh.len <= Len(sh.buf)
    PROVE  /\ Str(sh) \in Text /\ Len(Str(sh)) = sh.len
           /\ \A k \in 1 .. sh.len : Str(sh)[k] = sh.buf[k]
<1>1. Len(sh.buf) \in Nat /\ \A k \in 1 .. sh.len : sh.buf[k] \in Byte
  BY ElementOfSeq, LenProperties DEF Text
<1>2. /\ SubSeq(sh.buf, 1, sh.len) \in Seq(Byte)
      /\ Len(SubSeq(sh.buf, 1, sh.len)) = IF 1 <= sh.len THEN sh.len - 1 + 1 ELSE 0
      /\ \A k \in 1 .. sh.len - 1 + 1 : SubSeq(sh.buf, 1, sh.len)[k] = sh.buf[1 + k - 1]
  BY <1>1, SubSeqProperties
<1>3. \A k \in 1 .. sh.len : k \in 1 .. sh.len - 1 + 1 /\ 1 + k - 1 = k BY <1>1
<1> QED BY <1>2, <1>3 DEF Str, Text

LEMMA CharsAreText == \A t \in Seq(Chars) : t \in Text
<1>1. Chars \subseteq Byte BY DEF Byte
<1> QED BY <1>1, SeqMonotonic DEF Text

LEMMA NulIsByte == NUL \in Chars /\ NUL \in Byte /\ JUNK \in Byte BY DEF Chars, Byte

LEMMA TextIs ==
    ASSUME NEW n \in Nat, NEW b, DOMAIN b = 1 .. n, b = [k \in 1 .. n |-> b[k]],
           \A k \in 1 .. n : b[k] \in Byte
    PROVE  b \in Text /\ Len(b) = n
  BY DEF Text

LEMMA CopiedTyped ==
    ASSUME NEW buf \in Text, NEW at \in Nat, NEW t \in Text
    PROVE  Copied(buf, at, t) \in Text
<1> DEFINE n == Max({Len(buf), at + Len(t)})
           c == Copied(buf, at, t)
<1>1. /\ Len(buf) \in Nat /\ Len(t) \in Nat /\ at + Len(t) \in Nat
      /\ DOMAIN t = 1 .. Len(t) /\ DOMAIN buf = 1 .. Len(buf)
      /\ \A k \in 1 .. Len(t) : t[k] \in Byte
      /\ \A k \in 1 .. Len(buf) : buf[k] \in Byte
  BY ElementOfSeq, LenProperties DEF Text
<1>2. n \in Nat BY <1>1, MaxOfTwo
<1> HIDE DEF n
<1>3. c = [k \in 1 .. n |-> IF k - at \in DOMAIN t THEN t[k - at]
                            ELSE IF k \in DOMAIN buf THEN buf[k] ELSE JUNK]
  BY DEF Copied, n
<1> HIDE DEF c
<1>4. \A k \in 1 .. n : c[k] \in Byte BY <1>1, <1>3, NulIsByte
<1>5. DOMAIN c = 1 .. n /\ c = [k \in 1 .. n |-> c[k]] BY <1>3
<1>6. c \in Text BY <1>2, <1>4, <1>5, TextIs
<1> QED BY <1>6 DEF c

LEMMA CopiedOf ==
    ASSUME NEW buf \in Text, NEW at \in Nat, NEW t \in Text, at + Len(t) <= Len(buf)
    PROVE  /\ Copied(buf, at, t) \in Text /\ Len(Copied(buf, at, t)) = Len(buf)
           /\ \A k \in 1 .. Len(buf) :
                 Copied(buf, at, t)[k] = IF k - at \in 1 .. Len(t) THEN t[k - at] ELSE buf[k]
<1>1. Len(buf) \in Nat /\ Len(t) \in Nat /\ DOMAIN t = 1 .. Len(t)
      /\ DOMAIN buf = 1 .. Len(buf)
  BY LenProperties DEF Text
<1>2. Max({Len(buf), at + Len(t)}) = Len(buf) BY <1>1, MaxOfTwo
<1>3. Copied(buf, at, t) = [k \in 1 .. Len(buf) |->
            IF k - at \in 1 .. Len(t) THEN t[k - at] ELSE buf[k]]
  BY <1>1, <1>2 DEF Copied
<1>4. \A k \in 1 .. Len(buf) :
         (IF k - at \in 1 .. Len(t) THEN t[k - at] ELSE buf[k]) \in Byte
  BY ElementOfSeq DEF Text
<1> QED BY <1>1, <1>3, <1>4 DEF Text

LEMMA HeaderTyped ==
    ASSUME NEW len \in Int, NEW free \in Int, NEW buf \in Text
    PROVE  Header(len, free, buf) \in Strings
<1> DEFINE b == [k \in DOMAIN buf |-> IF k > len + 1 THEN JUNK ELSE buf[k]]
<1>1. DOMAIN buf = 1 .. Len(buf) /\ Len(buf) \in Nat
      /\ \A k \in 1 .. Len(buf) : buf[k] \in Byte
  BY ElementOfSeq, LenProperties DEF Text
<1>2. \A k \in 1 .. Len(buf) : (IF k > len + 1 THEN JUNK ELSE buf[k]) \in Byte
  BY <1>1, NulIsByte
<1>3. b \in Text BY <1>1, <1>2 DEF Text
<1>4. Header(len, free, buf) = [len |-> ToInt(len), free |-> ToInt(free), buf |-> b]
  BY DEF Header
<1> HIDE DEF b
<1>5. ToInt(len) \in Int /\ ToInt(free) \in Int BY ToIntIs, SdsAssumption DEF Ints
<1> QED BY <1>3, <1>4, <1>5 DEF Strings

LEMMA HeaderOf ==
    ASSUME NEW len \in 0 .. IntMax, NEW free \in Int, NEW buf \in Text,
           Len(buf) - 1 \in len .. 2 * IntMax,
           ToInt(free) = FreeOf(Len(buf) - 1 - len), buf[len + 1] = NUL
    PROVE  /\ Header(len, free, buf) \in SoundStrings
           /\ Header(len, free, buf).len = len
           /\ \A k \in 1 .. len : Header(len, free, buf).buf[k] = buf[k]
<1> DEFINE b == [k \in DOMAIN buf |-> IF k > len + 1 THEN JUNK ELSE buf[k]]
           wrapped == ToInt(free)
<1>0. len \in Nat /\ IntMax \in Nat /\ len \in Ints BY SdsAssumption DEF Ints
<1>1. DOMAIN buf = 1 .. Len(buf) /\ Len(buf) \in Nat
      /\ \A k \in 1 .. Len(buf) : buf[k] \in Byte
  BY ElementOfSeq, LenProperties DEF Text
<1>2. len + 1 \in 1 .. Len(buf) BY <1>0, <1>1
<1>3. b \in Text /\ Len(b) = Len(buf) /\ \A k \in 1 .. len + 1 : b[k] = buf[k]
  <2>1. \A k \in 1 .. Len(buf) : (IF k > len + 1 THEN JUNK ELSE buf[k]) \in Byte
    BY <1>1, NulIsByte
  <2> QED BY <1>0, <1>1, <1>2, <2>1 DEF Text
<1>4. ToInt(len) = len BY <1>0, ToIntIs
<1>5. Header(len, free, buf) = [len |-> len, free |-> wrapped, buf |-> b]
  BY <1>4 DEF Header
<1>6. wrapped \in Int BY ToIntIs, SdsAssumption DEF Ints
<1> HIDE DEF b, wrapped
<1>7. b[len + 1] = NUL BY <1>0, <1>3
<1>8. Len(b) - 1 \in len .. 2 * IntMax /\ wrapped = FreeOf(Len(b) - 1 - len)
  BY <1>3 DEF wrapped
<1>9. [len |-> len, free |-> wrapped, buf |-> b] \in SoundStrings
  BY <1>3, <1>6, <1>7, <1>8, SoundIs
<1>10. \A k \in 1 .. len : b[k] = buf[k] BY <1>0, <1>3
<1> QED BY <1>5, <1>9, <1>10

LEMMA NewLenOf ==
    ASSUME NEW t \in Text, Len(t) <= IntMax
    PROVE  NewLen(t) \in SoundStrings /\ NewLen(t).len = Len(t) /\ Str(NewLen(t)) = t
<1> DEFINE n == Len(t)
           b == t \o <<NUL>>
<1>1. n \in Nat /\ <<NUL>> \in Seq(Byte) /\ Len(<<NUL>>) = 1 /\ <<NUL>>[1] = NUL
  BY LenProperties, NulIsByte DEF Text
<1>2. /\ b \in Text /\ Len(b) = n + 1
      /\ \A i \in 1 .. n + 1 : b[i] = IF i <= n THEN t[i] ELSE <<NUL>>[i - n]
  BY <1>1, ConcatProperties DEF Text
<1>a. IntMax \in Nat BY SdsAssumption
<1>3. n \in 0 .. IntMax /\ n \in Ints BY <1>1, <1>a DEF Ints
<1>4. NewLen(t) = [len |-> n, free |-> 0, buf |-> b] BY <1>3, <1>1, ToIntIs DEF NewLen
<1> HIDE DEF b, n
<1>5. n + 1 \in 1 .. n + 1 /\ ~(n + 1 <= n) /\ (n + 1) - n = 1 BY <1>1
<1>6. b[n + 1] = NUL BY <1>1, <1>2, <1>5
<1>7. Len(b) - 1 \in n .. 2 * IntMax /\ Len(b) - 1 - n = 0 BY <1>1, <1>2, <1>3, <1>a
<1>8. FreeOf(0) = 0 BY <1>a DEF FreeOf
<1>9. NewLen(t) \in SoundStrings BY <1>2, <1>3, <1>4, <1>6, <1>7, <1>8, SoundIs
<1>10. NewLen(t).len = n /\ NewLen(t).buf = b /\ n <= Len(b) BY <1>1, <1>2, <1>4
<1>11. /\ Str(NewLen(t)) \in Text /\ Len(Str(NewLen(t))) = n
       /\ \A k \in 1 .. n : Str(NewLen(t))[k] = b[k]
  BY <1>1, <1>2, <1>10, StrOf
<1>12. \A k \in 1 .. n : Str(NewLen(t))[k] = t[k] BY <1>1, <1>2, <1>11
<1>13. Str(NewLen(t)) = t BY <1>11, <1>12, SeqEqual DEF Text, n
<1> QED BY <1>9, <1>10, <1>13 DEF n

\* What sdsMakeRoomFor returns: room enough, and a header that says so.
Roomy(room, sh, n) ==
    /\ room.len = sh.len /\ SLen(room) = sh.len /\ room.buf \in Text
    /\ Size(room) \in sh.len + n .. 2 * IntMax
    /\ room.free = FreeOf(Size(room) - sh.len)
    /\ \A k \in 1 .. sh.len : room.buf[k] = sh.buf[k]

LEMMA RoomOf ==
    ASSUME NEW sh \in SoundStrings, NEW n \in Nat, sh.len + n <= IntMax
    PROVE  Roomy(MakeRoomFor(sh, n), sh, n)
<1> DEFINE newlen == 2 * (sh.len + n)
           j == Junk(newlen + 1 - Len(sh.buf))
<1>0. /\ sh.len \in Nat /\ sh.len <= IntMax /\ sh.buf \in Text
      /\ Size(sh) \in Nat /\ sh.len <= Size(sh) /\ Size(sh) <= 2 * IntMax
      /\ Len(sh.buf) = Size(sh) + 1 /\ sh.free = FreeOf(Size(sh) - sh.len)
      /\ sh = [len |-> sh.len, free |-> sh.free, buf |-> sh.buf]
  BY StringsAre
<1>a. SLen(sh) = sh.len /\ Avail(sh) \in Nat
      /\ (Size(sh) - sh.len <= IntMax => Avail(sh) = Size(sh) - sh.len)
      /\ (~(Size(sh) - sh.len <= IntMax) => Avail(sh) > IntMax)
  BY SizesAre
<1>b. IntMax \in Nat BY SdsAssumption
<1>1. CASE Avail(sh) >= n
  <2>1. MakeRoomFor(sh, n) = sh BY <1>1 DEF MakeRoomFor
  <2>2. Size(sh) \in sh.len + n .. 2 * IntMax BY <1>0, <1>a, <1>b, <1>1
  <2> QED BY <1>0, <1>a, <2>1, <2>2 DEF Roomy
<1>2. CASE ~(Avail(sh) >= n)
  <2>1. Size(sh) - sh.len < n BY <1>0, <1>a, <1>b, <1>2
  <2>2. newlen \in Nat /\ newlen <= 2 * IntMax /\ newlen >= sh.len + n
        /\ newlen - sh.len \in 0 .. 2 * IntMax /\ newlen + 1 - Len(sh.buf) \in Nat
    BY <1>0, <1>b, <2>1
  <2>3. ToSize(2 * (SLen(sh) + n)) = newlen
    <3>1. 2 * (SLen(sh) + n) = newlen BY <1>a
    <3>2. SizeMax \in Nat /\ SizeMax >= 2 * IntMax + 1 BY ToSizeIs, SdsAssumption
    <3>3. newlen \in Nat /\ newlen <= 2 * IntMax BY <2>2
    <3> HIDE DEF newlen
    <3>4. newlen \in 0 .. SizeMax BY <1>b, <3>2, <3>3
    <3> QED BY <3>1, <3>4, ToSizeIs
  <2>4. j \in Seq(Byte) /\ Len(j) = newlen + 1 - Len(sh.buf)
    BY <2>2, NulIsByte DEF Junk
  <2> DEFINE b == sh.buf \o j
             free == FreeOf(newlen - sh.len)
  <2>5. MakeRoomFor(sh, n) = [len |-> sh.len, free |-> ToInt(newlen - sh.len), buf |-> b]
    <3>1. MakeRoomFor(sh, n) = Grow(sh, newlen) BY <1>2, <2>3 DEF MakeRoomFor
    <3> HIDE DEF newlen
    <3>2. Grow(sh, newlen) = [sh EXCEPT !.free = ToInt(newlen - sh.len), !.buf = b]
      BY <1>a DEF Grow
    <3> HIDE DEF b
    <3> QED BY <1>0, <3>1, <3>2
  <2>6. ToInt(newlen - sh.len) = free
    <3> DEFINE r == newlen - sh.len
    <3>1. r \in 0 .. 2 * IntMax BY <2>2
    <3> HIDE DEF r
    <3>2. ToInt(r) = FreeOf(r) BY <3>1, FreeOfIs
    <3> QED BY <3>2 DEF r
  <2> HIDE DEF j, newlen
  <2>7. /\ b \in Text /\ Len(b) = Len(sh.buf) + Len(j)
        /\ \A i \in 1 .. Len(sh.buf) + Len(j) :
              b[i] = IF i <= Len(sh.buf) THEN sh.buf[i] ELSE j[i - Len(sh.buf)]
    BY <1>0, <2>4, ConcatProperties DEF Text
  <2> HIDE DEF b, free
  <2>8. Len(b) = newlen + 1
    <3>1. Len(sh.buf) \in Nat /\ newlen \in Nat BY <1>0, <2>2
    <3>2. Len(b) = Len(sh.buf) + (newlen + 1 - Len(sh.buf)) BY <2>4, <2>7
    <3> QED BY <3>1, <3>2
  <2>9. \A k \in 1 .. sh.len : b[k] = sh.buf[k]
    <3>1. Len(j) \in Nat /\ Len(sh.buf) \in Nat /\ sh.len <= Len(sh.buf) BY <1>0, <2>2, <2>4
    <3>2. \A k \in 1 .. sh.len : k \in 1 .. Len(sh.buf) + Len(j) /\ k <= Len(sh.buf)
      BY <1>0, <3>1
    <3> QED BY <2>7, <3>2
  <2> DEFINE room == MakeRoomFor(sh, n)
  <2>10. room.len = sh.len /\ room.free = free /\ room.buf = b BY <2>5, <2>6
  <2> HIDE DEF room
  <2>11. Size(room) = newlen BY <2>2, <2>8, <2>10 DEF Size
  <2>12. SLen(room) = sh.len BY <1>a, <2>10 DEF SLen
  <2>13. Size(room) \in sh.len + n .. 2 * IntMax BY <2>2, <2>11
  <2>14. room.free = FreeOf(Size(room) - sh.len) BY <2>10, <2>11 DEF free
  <2>15. Roomy(room, sh, n) BY <2>7, <2>9, <2>10, <2>12, <2>13, <2>14 DEF Roomy
  <2> QED BY <2>15 DEF room
<1> QED BY <1>1, <1>2

\* A text and its terminator are written to offset at.
LEMMA Written ==
    ASSUME NEW buf \in Text, NEW at \in Nat, NEW t \in Text, NEW free \in Int,
           at + Len(t) <= IntMax, Len(buf) - 1 \in at + Len(t) .. 2 * IntMax,
           ToInt(free) = FreeOf(Len(buf) - 1 - (at + Len(t))), NEW sh,
           sh = Header(at + Len(t), free, Copied(buf, at, Append(t, NUL)))
    PROVE  /\ sh \in SoundStrings /\ sh.len = at + Len(t)
           /\ Str(sh) = SubSeq(buf, 1, at) \o t
<1> DEFINE b == Copied(buf, at, Append(t, NUL))
           h == Header(at + Len(t), free, b)
           pre == SubSeq(buf, 1, at)
<1>1. Len(t) \in Nat /\ Len(buf) \in Nat /\ NUL \in Byte /\ at + Len(t) + 1 <= Len(buf)
  BY LenProperties, NulIsByte DEF Text
<1>2. /\ Append(t, NUL) \in Text /\ Len(Append(t, NUL)) = Len(t) + 1
      /\ Append(t, NUL)[Len(t) + 1] = NUL
      /\ \A k \in 1 .. Len(t) : Append(t, NUL)[k] = t[k]
  BY <1>1, AppendProperties DEF Text
<1>3. at + Len(Append(t, NUL)) <= Len(buf) BY <1>1, <1>2
<1>4. /\ b \in Text /\ Len(b) = Len(buf)
      /\ \A k \in 1 .. Len(buf) :
            b[k] = IF k - at \in 1 .. Len(Append(t, NUL)) THEN Append(t, NUL)[k - at] ELSE buf[k]
  BY <1>2, <1>3, CopiedOf
<1> HIDE DEF b
<1>5. b[at + Len(t) + 1] = NUL
  <2>1. /\ at + Len(t) + 1 \in 1 .. Len(buf) /\ at + Len(t) + 1 - at = Len(t) + 1
        /\ Len(t) + 1 \in 1 .. Len(Append(t, NUL))
    BY <1>1, <1>2
  <2> QED BY <1>2, <1>4, <2>1
<1>6. /\ h \in SoundStrings /\ h.len = at + Len(t)
      /\ \A k \in 1 .. at + Len(t) : h.buf[k] = b[k]
  <2> DEFINE len == at + Len(t)
  <2>1. len \in 0 .. IntMax /\ b[len + 1] = NUL BY <1>1, <1>5, SdsAssumption
  <2>2. Len(b) - 1 \in len .. 2 * IntMax /\ ToInt(free) = FreeOf(Len(b) - 1 - len)
    BY <1>4
  <2>3. h = Header(len, free, b) OBVIOUS
  <2>4. b \in Text /\ free \in Int BY <1>4
  <2> HIDE DEF len, h
  <2>5. /\ Header(len, free, b) \in SoundStrings /\ Header(len, free, b).len = len
        /\ \A k \in 1 .. len : Header(len, free, b).buf[k] = b[k]
    BY <2>1, <2>2, <2>4, HeaderOf
  <2> QED BY <2>3, <2>5 DEF len
<1> HIDE DEF h
<1>7. Str(h) \in Text /\ Len(Str(h)) = at + Len(t)
      /\ \A k \in 1 .. at + Len(t) : Str(h)[k] = h.buf[k]
  <2>1. h.buf \in Text /\ h.len \in Nat /\ h.len <= Len(h.buf)
    <3>1. h \in SoundStrings BY <1>6
    <3>2. h.len \in Nat /\ Size(h) \in Nat /\ h.len <= Size(h) /\ h.buf \in Text
          /\ Len(h.buf) = Size(h) + 1
      BY <3>1, StringsAre
    <3> QED BY <3>2
  <2>2. /\ Str(h) \in Text /\ Len(Str(h)) = h.len
        /\ \A k \in 1 .. h.len : Str(h)[k] = h.buf[k]
    BY <2>1, StrOf
  <2> QED BY <1>6, <2>2
<1>8. pre \in Text /\ Len(pre) = at /\ \A k \in 1 .. at : pre[k] = buf[k]
  <2>1. \A k \in 1 .. at : buf[k] \in Byte BY <1>1, ElementOfSeq DEF Text
  <2>2. /\ pre \in Seq(Byte) /\ Len(pre) = IF 1 <= at THEN at - 1 + 1 ELSE 0
        /\ \A k \in 1 .. at - 1 + 1 : pre[k] = buf[1 + k - 1]
    BY <2>1, SubSeqProperties
  <2>3. \A k \in 1 .. at : k \in 1 .. at - 1 + 1 /\ 1 + k - 1 = k OBVIOUS
  <2> QED BY <2>2, <2>3 DEF Text
<1> HIDE DEF pre
<1>9. /\ pre \o t \in Text /\ Len(pre \o t) = at + Len(t)
      /\ \A i \in 1 .. at + Len(t) : (pre \o t)[i] = IF i <= at THEN pre[i] ELSE t[i - at]
  BY <1>8, ConcatProperties DEF Text
<1>10. ASSUME NEW k \in 1 .. at + Len(t) PROVE Str(h)[k] = (pre \o t)[k]
  <2>1. Str(h)[k] = b[k] BY <1>6, <1>7
  <2>2. CASE k <= at
    <3>1. k \in 1 .. Len(buf) /\ ~(k - at \in 1 .. Len(Append(t, NUL))) BY <1>1, <1>2, <2>2
    <3>2. b[k] = buf[k] BY <1>4, <3>1
    <3>3. (pre \o t)[k] = buf[k] BY <1>8, <1>9, <2>2
    <3> QED BY <2>1, <3>2, <3>3
  <2>3. CASE ~(k <= at)
    <3>1. k \in 1 .. Len(buf) /\ k - at \in 1 .. Len(t)
          /\ k - at \in 1 .. Len(Append(t, NUL))
      BY <1>1, <1>2, <2>3
    <3>2. b[k] = t[k - at] BY <1>2, <1>4, <3>1
    <3>3. (pre \o t)[k] = t[k - at] BY <1>9, <2>3
    <3> QED BY <2>1, <3>2, <3>3
  <2> QED BY <2>2, <2>3
<1>11. Str(h) = pre \o t BY <1>7, <1>9, <1>10, SeqEqual DEF Text
<1>12. sh = h BY DEF h, b
<1> QED BY <1>6, <1>11, <1>12 DEF pre

LEMMA SamePrefix ==
    ASSUME NEW a \in Text, NEW b \in Text, NEW n \in Nat, n <= Len(a), n <= Len(b),
           \A k \in 1 .. n : a[k] = b[k]
    PROVE  SubSeq(a, 1, n) = SubSeq(b, 1, n)
<1> DEFINE x == SubSeq(a, 1, n)
           y == SubSeq(b, 1, n)
<1>1. /\ x \in Text /\ Len(x) = n /\ \A k \in 1 .. n : x[k] = a[k]
      /\ y \in Text /\ Len(y) = n /\ \A k \in 1 .. n : y[k] = b[k]
  <2>1. \A k \in 1 .. n : a[k] \in Byte /\ b[k] \in Byte
    BY ElementOfSeq, LenProperties DEF Text
  <2>2. /\ x \in Seq(Byte) /\ Len(x) = IF 1 <= n THEN n - 1 + 1 ELSE 0
        /\ \A k \in 1 .. n - 1 + 1 : x[k] = a[1 + k - 1]
    BY <2>1, SubSeqProperties
  <2>3. /\ y \in Seq(Byte) /\ Len(y) = IF 1 <= n THEN n - 1 + 1 ELSE 0
        /\ \A k \in 1 .. n - 1 + 1 : y[k] = b[1 + k - 1]
    BY <2>1, SubSeqProperties
  <2>4. \A k \in 1 .. n : k \in 1 .. n - 1 + 1 /\ 1 + k - 1 = k OBVIOUS
  <2> QED BY <2>2, <2>3, <2>4 DEF Text
<1> HIDE DEF x, y
<1>2. x = y BY <1>1, SeqEqual DEF Text
<1> QED BY <1>2 DEF x, y

LEMMA CatLenOf ==
    ASSUME NEW sh \in SoundStrings, NEW t \in Text, sh.len + Len(t) <= IntMax
    PROVE  /\ CatLen(sh, t) \in SoundStrings
           /\ CatLen(sh, t).len = sh.len + Len(t)
           /\ Str(CatLen(sh, t)) = Str(sh) \o t
<1> DEFINE room == MakeRoomFor(sh, Len(t))
           new == CatLen(sh, t)
           buf == room.buf
           at == sh.len
           n == Len(t)
           free == room.free - n
<1>1. n \in Nat /\ IntMax \in Nat BY LenProperties, SdsAssumption DEF Text
<1>2. Roomy(room, sh, n) BY <1>1, RoomOf
<1>3. SLen(sh) = at /\ at \in Nat /\ sh.buf \in Text /\ at <= Len(sh.buf)
  BY SizesAre, StringsAre
<1>4. new = Header(at + Len(t), free, Copied(buf, at, Append(t, NUL))) BY <1>3 DEF CatLen
<1>a. /\ room.len = at /\ buf \in Text /\ Size(room) \in at + n .. 2 * IntMax
      /\ room.free = FreeOf(Size(room) - at) /\ \A k \in 1 .. at : buf[k] = sh.buf[k]
  BY <1>2 DEF Roomy
<1>b. Len(buf) \in Nat /\ Size(room) = Len(buf) - 1
  BY <1>a, LenProperties DEF Text, Size
<1> HIDE DEF room, new, at, free
<1> DEFINE left == Len(buf) - 1 - (at + n)
<1>5. left \in 0 .. 2 * IntMax /\ free \in Int
      /\ (free = left \/ free = left - 2 * (IntMax + 1))
  <2>1. Size(room) - at = left + n BY <1>1, <1>3, <1>b
  <2>2. left \in 0 .. 2 * IntMax BY <1>1, <1>3, <1>a, <1>b
  <2> HIDE DEF left
  <2>3. room.free = FreeOf(left + n) BY <1>a, <2>1
  <2>4. room.free = left + n \/ room.free = (left + n) - 2 * (IntMax + 1)
    <3> DEFINE x == left + n
    <3>1. x \in Int BY <1>1, <2>2
    <3> HIDE DEF x
    <3>2. FreeOf(x) = x \/ FreeOf(x) = x - 2 * (IntMax + 1) BY DEF FreeOf
    <3> QED BY <2>3, <3>2 DEF x
  <2> QED BY <1>1, <2>2, <2>4 DEF free
<1>6. ToInt(free) = FreeOf(left)
  <2> HIDE DEF left
  <2> QED BY <1>5, FreeOfIs
<1>7. at + Len(t) <= IntMax /\ Len(buf) - 1 \in at + Len(t) .. 2 * IntMax
      /\ ToInt(free) = FreeOf(Len(buf) - 1 - (at + Len(t)))
  BY <1>a, <1>b, <1>6 DEF at
<1>8. /\ new \in SoundStrings /\ new.len = at + Len(t)
      /\ Str(new) = SubSeq(buf, 1, at) \o t
  <2>1. buf \in Text /\ at \in Nat /\ free \in Int BY <1>3, <1>5, <1>a
  <2> HIDE DEF buf
  <2> QED BY <2>1, <1>4, <1>7, Written
<1>9. SubSeq(buf, 1, at) = Str(sh)
  <2>1. at <= Len(buf) BY <1>1, <1>3, <1>a, <1>b
  <2> QED BY <1>3, <1>a, <2>1, SamePrefix DEF Str, at
<1> QED BY <1>8, <1>9 DEF new, at

\* free + len is the room allocated, or what is left of it in an int; a string
\* that is given more than an int can say is never taken for a small one.
LEMMA TotalIs ==
    ASSUME NEW sh, NEW size \in 0 .. 2 * IntMax, sh.len \in 0 .. IntMax, sh.len <= size,
           sh.free = FreeOf(size - sh.len)
    PROVE  /\ Total(sh) \in Nat
           /\ size <= IntMax => Total(sh) = size
           /\ ~(size <= IntMax) =>
                  Total(sh) = size - 2 * (IntMax + 1) + (SizeMax + 1) /\ Total(sh) > IntMax
<1> DEFINE sum == sh.free + sh.len
<1>1. IntMax \in Nat /\ SizeMax \in Nat /\ SizeMax >= 2 * IntMax + 1
  BY ToSizeIs, SdsAssumption
<1>2. size \in Int /\ sh.len \in Int /\ (sum = size \/ sum = size - 2 * (IntMax + 1))
  BY <1>1 DEF FreeOf
<1> HIDE DEF sum
<1>3. ToInt(sum) = FreeOf(size) BY <1>2, FreeOfIs
<1>4. Total(sh) = ToSize(FreeOf(size)) BY <1>3 DEF Total, sum
<1>5. CASE size <= IntMax
  <2>1. FreeOf(size) = size /\ size \in 0 .. SizeMax BY <1>1, <1>5 DEF FreeOf
  <2>2. Total(sh) = size BY <1>4, <2>1, ToSizeIs
  <2> QED BY <1>5, <2>2
<1>6. CASE ~(size <= IntMax)
  <2> DEFINE x == size - 2 * (IntMax + 1)
  <2>1. FreeOf(size) = x /\ x \in Ints /\ x < 0 BY <1>1, <1>2, <1>6 DEF FreeOf, Ints
  <2> HIDE DEF x
  <2>2. Total(sh) = x + (SizeMax + 1) BY <1>4, <2>1, ToSizeIs
  <2>3. Total(sh) = size - 2 * (IntMax + 1) + (SizeMax + 1) BY <2>2 DEF x
  <2>4. Total(sh) \in Nat /\ Total(sh) > IntMax BY <1>1, <1>2, <1>6, <2>3
  <2> QED BY <1>6, <2>3, <2>4
<1> QED BY <1>5, <1>6

LEMMA CpyLenOf ==
    ASSUME NEW sh \in SoundStrings, NEW t \in Text, Len(t) <= IntMax
    PROVE  /\ CpyLen(sh, t) \in SoundStrings /\ CpyLen(sh, t).len = Len(t)
           /\ Str(CpyLen(sh, t)) = t
<1> DEFINE n == Len(t)
           room == IF Total(sh) < n THEN MakeRoomFor(sh, ToSize(n - sh.len)) ELSE sh
           new == CpyLen(sh, t)
           buf == room.buf
           free == Total(room) - n
           size == Size(room)
<1>1. n \in Nat /\ n \in 0 .. IntMax /\ IntMax \in Nat /\ SizeMax \in Nat
      /\ SizeMax >= 2 * IntMax + 1
  BY LenProperties, ToSizeIs, SdsAssumption DEF Text
<1>2. /\ sh.len \in Nat /\ sh.len <= IntMax /\ sh.buf \in Text /\ Size(sh) \in Nat
      /\ sh.len <= Size(sh) /\ Size(sh) <= 2 * IntMax
      /\ sh.free = FreeOf(Size(sh) - sh.len)
  BY StringsAre
<1>3. /\ Total(sh) \in Nat /\ (Size(sh) <= IntMax => Total(sh) = Size(sh))
      /\ (~(Size(sh) <= IntMax) => Total(sh) > IntMax)
  BY <1>1, <1>2, TotalIs
<1>4. /\ room.len \in 0 .. IntMax /\ room.len <= size /\ buf \in Text
      /\ size \in n .. 2 * IntMax /\ room.free = FreeOf(size - room.len)
  <2>1. CASE Total(sh) < n
    <3>1. Size(sh) < n BY <1>1, <1>2, <1>3, <2>1
    <3>2. n - sh.len \in Nat /\ n - sh.len \in 0 .. SizeMax /\ sh.len + (n - sh.len) = n
      BY <1>1, <1>2, <3>1
    <3>3. ToSize(n - sh.len) = n - sh.len BY <3>2, ToSizeIs
    <3>4. Roomy(MakeRoomFor(sh, n - sh.len), sh, n - sh.len) BY <1>1, <3>2, RoomOf
    <3>5. room = MakeRoomFor(sh, n - sh.len) BY <2>1, <3>3
    <3> HIDE DEF room
    <3>6. /\ room.len = sh.len /\ room.buf \in Text
          /\ Size(room) \in sh.len + (n - sh.len) .. 2 * IntMax
          /\ room.free = FreeOf(Size(room) - sh.len)
      BY <3>4, <3>5 DEF Roomy
    <3>7. Size(room) \in n .. 2 * IntMax BY <3>2, <3>6
    <3>8. sh.len <= Size(room) BY <1>2, <3>1, <3>7
    <3> QED BY <1>1, <1>2, <3>6, <3>7, <3>8
  <2>2. CASE ~(Total(sh) < n)
    <3>1. room = sh BY <2>2
    <3>2. Size(sh) \in n .. 2 * IntMax BY <1>1, <1>2, <1>3, <2>2
    <3> HIDE DEF room
    <3> QED BY <1>1, <1>2, <3>1, <3>2
  <2> QED BY <2>1, <2>2
<1>5. new = Header(Len(t), free, Copied(buf, 0, Append(t, NUL))) BY DEF CpyLen
<1> HIDE DEF room, new
<1>6. size \in 0 .. 2 * IntMax /\ size = Len(buf) - 1 /\ Len(buf) \in Nat
  BY <1>1, <1>4, LenProperties DEF Size, Text
<1>7. /\ Total(room) \in Nat
      /\ Total(room) = size \/ Total(room) = size - 2 * (IntMax + 1) + (SizeMax + 1)
  BY <1>4, <1>6, TotalIs
<1> HIDE DEF size
<1> DEFINE left == size - n
<1>8. left \in 0 .. 2 * IntMax /\ free \in Int BY <1>1, <1>4, <1>7
<1>9. free = left \/ free = (left - 2 * (IntMax + 1)) + (SizeMax + 1)
  <2>1. free = Total(room) - n /\ left = size - n /\ size \in Int /\ n \in Int
    BY <1>1, <1>6
  <2> HIDE DEF free, left, n
  <2> QED BY <1>1, <1>7, <2>1
<1>10. ToInt(free) = FreeOf(left)
  <2> HIDE DEF left, free
  <2>1. left \in Int /\ left - 2 * (IntMax + 1) \in Int BY <1>1, <1>8
  <2>2. ToInt((left - 2 * (IntMax + 1)) + (SizeMax + 1)) = ToInt(left - 2 * (IntMax + 1))
    BY <2>1, ToIntIs
  <2> QED BY <1>8, <1>9, <2>2, FreeOfIs
<1> HIDE DEF free
<1>11. /\ 0 \in Nat /\ 0 + Len(t) = Len(t) /\ 0 + Len(t) <= IntMax
       /\ Len(buf) - 1 \in 0 + Len(t) .. 2 * IntMax
       /\ ToInt(free) = FreeOf(Len(buf) - 1 - (0 + Len(t)))
  BY <1>1, <1>4, <1>6, <1>10
<1>12. new = Header(0 + Len(t), free, Copied(buf, 0, Append(t, NUL))) BY <1>5, <1>11
<1>13. /\ new \in SoundStrings /\ new.len = 0 + Len(t)
       /\ Str(new) = SubSeq(buf, 1, 0) \o t
  <2> HIDE DEF buf
  <2> QED BY <1>4, <1>8, <1>11, <1>12, Written
<1>14. SubSeq(buf, 1, 0) = <<>> BY SubSeqEmpty
<1> QED BY <1>11, <1>13, <1>14, ConcatEmptySeq DEF Text, new

\* A prefix is a text.
LEMMA PrefixOf ==
    ASSUME NEW t \in Text, NEW n \in 0 .. Len(t)
    PROVE  /\ SubSeq(t, 1, n) \in Text /\ Len(SubSeq(t, 1, n)) = n
           /\ \A k \in 1 .. n : SubSeq(t, 1, n)[k] = t[k]
<1>1. \A k \in 1 .. n : t[k] \in Byte BY ElementOfSeq, LenProperties DEF Text
<1>2. /\ SubSeq(t, 1, n) \in Seq(Byte)
      /\ Len(SubSeq(t, 1, n)) = IF 1 <= n THEN n - 1 + 1 ELSE 0
      /\ \A k \in 1 .. n - 1 + 1 : SubSeq(t, 1, n)[k] = t[1 + k - 1]
  BY <1>1, SubSeqProperties
<1>3. \A k \in 1 .. n : k \in 1 .. n - 1 + 1 /\ 1 + k - 1 = k OBVIOUS
<1> QED BY <1>2, <1>3 DEF Text

\* A C string is all up to its first NUL.
LEMMA CStringOf ==
    ASSUME NEW t \in Text
    PROVE  \E n \in 0 .. Len(t) :
              /\ CString(t) = SubSeq(t, 1, n)
              /\ \A k \in 1 .. n : t[k] # NUL
              /\ n < Len(t) => t[n + 1] = NUL
<1> DEFINE ends == {k \in DOMAIN t : t[k] = NUL}
<1>1. Len(t) \in Nat /\ DOMAIN t = 1 .. Len(t) BY LenProperties DEF Text
<1>2. CASE ends = {}
  <2>1. CString(t) = t BY <1>2 DEF CString
  <2>2. t = SubSeq(t, 1, Len(t)) BY SubSeqFull DEF Text
  <2>3. \A k \in 1 .. Len(t) : t[k] # NUL BY <1>1, <1>2
  <2> DEFINE n == Len(t)
  <2>4. /\ n \in 0 .. Len(t) /\ CString(t) = SubSeq(t, 1, n)
        /\ \A k \in 1 .. n : t[k] # NUL
        /\ ~(n < Len(t))
    BY <1>1, <2>1, <2>2, <2>3
  <2> HIDE DEF n
  <2>5. \E x \in 0 .. Len(t) : /\ CString(t) = SubSeq(t, 1, x)
                               /\ \A k \in 1 .. x : t[k] # NUL
                               /\ x < Len(t) => t[x + 1] = NUL
    BY <2>4, Zenon
  <2> QED BY <2>5
<1>3. CASE ends # {}
  <2>1. CString(t) = SubSeq(t, 1, Min(ends) - 1) BY <1>3 DEF CString
  <2>2. Min(ends) \in ends /\ \A y \in ends : Min(ends) <= y
    BY <1>1, <1>3, MinOf, ends \in SUBSET Nat
  <2> DEFINE m == Min(ends)
  <2>3. m \in 1 .. Len(t) /\ t[m] = NUL BY <1>1, <2>2
  <2>4. \A k \in 1 .. m - 1 : t[k] # NUL
    <3>1. ASSUME NEW k \in 1 .. m - 1, t[k] = NUL PROVE FALSE
      <4>1. k \in ends BY <1>1, <2>3, <3>1
      <4>2. m <= k BY <4>1, <2>2
      <4> HIDE DEF m, ends
      <4> QED BY <2>3, <4>2
    <3> QED BY <3>1
  <2> HIDE DEF m
  <2>5. m - 1 \in 0 .. Len(t) /\ m - 1 + 1 = m BY <1>1, <2>3
  <2>6. CString(t) = SubSeq(t, 1, m - 1) BY <2>1 DEF m
  <2> DEFINE n == m - 1
  <2>7. /\ n \in 0 .. Len(t) /\ CString(t) = SubSeq(t, 1, n)
        /\ \A k \in 1 .. n : t[k] # NUL
        /\ t[n + 1] = NUL
    BY <2>3, <2>4, <2>5, <2>6
  <2> HIDE DEF n
  <2>8. \E x \in 0 .. Len(t) : /\ CString(t) = SubSeq(t, 1, x)
                               /\ \A k \in 1 .. x : t[k] # NUL
                               /\ x < Len(t) => t[x + 1] = NUL
    BY <2>7, Zenon
  <2> QED BY <2>8
<1> QED BY <1>2, <1>3

LEMMA CStringIsText ==
    ASSUME NEW t \in Text PROVE CString(t) \in Text
  BY CStringOf, PrefixOf

LEMMA NoNul ==
    ASSUME NEW t \in Text, \A k \in 1 .. Len(t) : t[k] # NUL
    PROVE  CString(t) = t
<1>1. DOMAIN t = 1 .. Len(t) BY LenProperties DEF Text
<1>2. {k \in DOMAIN t : t[k] = NUL} = {} BY <1>1
<1> QED BY <1>2 DEF CString

\* The sizes sdscatvprintf tries: the first one doubled again and again.
IsDoubled(f, n) == f = [k \in 0 .. n |-> IF k = 0 THEN PrintBuf ELSE 2 * f[k - 1]]

LEMMA DoubledExists ==
    ASSUME NEW n \in Nat
    PROVE  \E f : IsDoubled(f, n)
<1> DEFINE T == {m \in Nat : ~ \E f : IsDoubled(f, m)}
<1>1. ASSUME T # {} PROVE FALSE
  <2>1. PICK m \in T : \A y \in T : m <= y BY <1>1, Least
  <2>2. CASE m = 0
    <3> DEFINE f == [k \in 0 .. 0 |-> PrintBuf]
    <3>1. f = [k \in 0 .. 0 |-> PrintBuf] /\ \A k \in 0 .. 0 : k = 0 OBVIOUS
    <3> HIDE DEF f
    <3>2. \A k \in 0 .. 0 : PrintBuf = IF k = 0 THEN PrintBuf ELSE 2 * f[k - 1]
      BY <3>1, Zenon
    <3>3. IsDoubled(f, 0) BY <3>1, <3>2, Zenon DEF IsDoubled
    <3> QED BY <2>1, <2>2, <3>3
  <2>3. CASE m # 0
    <3>1. m \in Nat /\ m - 1 \in Nat /\ m - 1 \notin T BY <2>1, <2>3
    <3>2. PICK h : IsDoubled(h, m - 1) BY <3>1
    <3> DEFINE f == [k \in 0 .. m |-> IF k = 0 THEN PrintBuf ELSE 2 * h[k - 1]]
    <3>3. ASSUME NEW k \in 1 .. m PROVE f[k - 1] = h[k - 1]
      <4>1. k - 1 \in 0 .. m - 1 /\ k - 1 \in 0 .. m BY <3>1
      <4>2. f[k - 1] = IF k - 1 = 0 THEN PrintBuf ELSE 2 * h[k - 1 - 1] BY <4>1
      <4>3. h[k - 1] = IF k - 1 = 0 THEN PrintBuf ELSE 2 * h[k - 1 - 1]
        BY <3>2, <4>1 DEF IsDoubled
      <4> QED BY <4>2, <4>3
    <3>4. f = [k \in 0 .. m |-> IF k = 0 THEN PrintBuf ELSE 2 * h[k - 1]] OBVIOUS
    <3> HIDE DEF f
    <3>5. \A k \in 0 .. m : k # 0 => k \in 1 .. m BY <3>1
    <3>6. f = [k \in 0 .. m |-> IF k = 0 THEN PrintBuf ELSE 2 * f[k - 1]]
      BY <3>3, <3>4, <3>5
    <3>7. IsDoubled(f, m) BY <3>6, Zenon DEF IsDoubled
    <3> QED BY <2>1, <3>7
  <2> QED BY <2>2, <2>3
<1> QED BY <1>1

LEMMA DoubledGrows ==
    ASSUME NEW n \in Nat, NEW f, IsDoubled(f, n)
    PROVE  \A k \in 0 .. n : f[k] \in Nat /\ f[k] >= k + 2
<1> DEFINE T == {k \in Nat : k <= n /\ ~(f[k] \in Nat /\ f[k] >= k + 2)}
<1>1. ASSUME T # {} PROVE FALSE
  <2>1. PICK m \in T : \A y \in T : m <= y BY <1>1, Least
  <2>2. f[m] = IF m = 0 THEN PrintBuf ELSE 2 * f[m - 1] BY <2>1 DEF IsDoubled
  <2>3. m # 0 BY <2>1, <2>2, SdsAssumption
  <2>4. m \in Nat /\ m - 1 \in Nat /\ m - 1 \notin T /\ m - 1 <= n BY <2>1, <2>3
  <2>5. f[m - 1] \in Nat /\ f[m - 1] >= m - 1 + 2 BY <2>4
  <2>6. f[m] \in Nat /\ f[m] >= m + 2 BY <2>2, <2>3, <2>4, <2>5
  <2> QED BY <2>1, <2>6
<1> QED BY <1>1

LEMMA CatPrintfOf ==
    ASSUME NEW sh, NEW t \in Text
    PROVE  CatPrintf(sh, t) = CatLen(sh, CString(t))
<1> DEFINE buflen == CHOOSE f : f = [k \in 0 .. Len(t) |->
                                        IF k = 0 THEN PrintBuf ELSE 2 * f[k - 1]]
           sizes == {n \in {buflen[k] : k \in 0 .. Len(t)} : FitsPrintBuf(t, n)}
           text  == SubSeq(t, 1, Min({Len(t), Min(sizes) - 1}))
<1>1. Len(t) \in Nat BY LenProperties DEF Text
<1>2. CatPrintf(sh, t) = CatLen(sh, CString(text)) BY DEF CatPrintf
<1>3. IsDoubled(buflen, Len(t)) BY <1>1, DoubledExists DEF IsDoubled
<1> HIDE DEF buflen
<1>4. \A k \in 0 .. Len(t) : buflen[k] \in Nat /\ buflen[k] >= k + 2
  BY <1>1, <1>3, DoubledGrows
<1>5. sizes \in SUBSET Nat /\ buflen[Len(t)] \in sizes
  <2>1. FitsPrintBuf(t, buflen[Len(t)]) BY <1>1, <1>4 DEF FitsPrintBuf
  <2> QED BY <1>1, <1>4, <2>1
<1> DEFINE n == Min(sizes)
<1>6. n \in sizes BY <1>5, MinOf
<1>7. n \in Nat /\ n >= 2 /\ FitsPrintBuf(t, n)
  <2>1. PICK k \in 0 .. Len(t) : n = buflen[k] BY <1>6
  <2> QED BY <1>1, <1>4, <1>6, <2>1
<1> HIDE DEF sizes
<1>8. text = SubSeq(t, 1, IF Len(t) <= n - 1 THEN Len(t) ELSE n - 1)
  BY <1>1, <1>7, MinOfTwo
<1> HIDE DEF n, text
<1>9. CASE Len(t) <= n - 1
  <2>1. text = t BY <1>8, <1>9, SubSeqFull DEF Text
  <2> QED BY <1>2, <2>1
<1>10. CASE ~(Len(t) <= n - 1)
  <2>1. t[n - 1] = NUL /\ n - 1 \in 1 .. Len(t) BY <1>1, <1>7, <1>10 DEF FitsPrintBuf
  <2>2. text = SubSeq(t, 1, n - 1) BY <1>8, <1>10
  <2>3. /\ text \in Text /\ Len(text) = n - 1
        /\ \A k \in 1 .. n - 1 : text[k] = t[k]
    BY <1>7, <2>1, <2>2, PrefixOf
  <2>4. PICK a \in 0 .. Len(t) : /\ CString(t) = SubSeq(t, 1, a)
                                 /\ \A k \in 1 .. a : t[k] # NUL
                                 /\ a < Len(t) => t[a + 1] = NUL
    BY CStringOf
  <2>5. PICK b \in 0 .. Len(text) : /\ CString(text) = SubSeq(text, 1, b)
                                    /\ \A k \in 1 .. b : text[k] # NUL
                                    /\ b < Len(text) => text[b + 1] = NUL
    BY <2>3, CStringOf
  <2>6. a < n - 1 /\ b < n - 1
    <3>1. a < n - 1 BY <1>1, <1>7, <2>1, <2>4
    <3>2. n - 1 \in 1 .. n - 1 /\ text[n - 1] = NUL BY <1>7, <2>1, <2>3
    <3>3. b < n - 1 BY <1>7, <2>3, <2>5, <3>2
    <3> QED BY <3>1, <3>3
  <2>7. a \in Nat /\ b \in Nat /\ n - 1 \in Nat /\ a < Len(t) /\ b < Len(text)
        /\ a + 1 \in 1 .. n - 1 /\ b + 1 \in 1 .. n - 1
    BY <1>1, <1>7, <2>1, <2>3, <2>4, <2>5, <2>6
  <2>8. t[a + 1] = NUL /\ t[b + 1] = NUL BY <2>3, <2>4, <2>5, <2>7
  <2>9. a = b
    <3>1. ~(a < b)
      <4>1. a < b => a + 1 \in 1 .. b BY <2>7
      <4> QED BY <2>3, <2>5, <2>7, <2>8, <4>1
    <3>2. ~(b < a)
      <4>1. b < a => b + 1 \in 1 .. a BY <2>7
      <4> QED BY <2>4, <2>8, <4>1
    <3> QED BY <2>7, <3>1, <3>2
  <2>10. SubSeq(text, 1, b) = SubSeq(t, 1, a)
    <3>1. \A k \in 1 .. a : text[k] = t[k] BY <2>3, <2>7
    <3>2. a <= Len(text) /\ a <= Len(t) BY <1>1, <2>3, <2>7
    <3> QED BY <2>3, <2>7, <2>9, <3>1, <3>2, SamePrefix
  <2> QED BY <1>2, <2>4, <2>5, <2>10
<1> QED BY <1>9, <1>10

LEMMA CatPrintfIs ==
    ASSUME NEW sh \in SoundStrings, NEW t \in Text, sh.len + Len(t) <= IntMax
    PROVE  /\ CatPrintf(sh, t) \in SoundStrings
           /\ CatPrintf(sh, t).len <= sh.len + Len(t)
           /\ Str(CatPrintf(sh, t)) = Str(sh) \o CString(t)
<1> DEFINE c == CString(t)
<1>1. sh.len \in Nat /\ Len(t) \in Nat /\ IntMax \in Nat
  BY StringsAre, LenProperties, SdsAssumption DEF Text
<1>2. PICK n \in 0 .. Len(t) : c = SubSeq(t, 1, n) BY CStringOf
<1>3. c \in Text /\ Len(c) = n BY <1>2, PrefixOf
<1> HIDE DEF c
<1>4. CatPrintf(sh, t) = CatLen(sh, c) BY CatPrintfOf DEF c
<1>5. sh.len + Len(c) <= IntMax /\ sh.len + Len(c) <= sh.len + Len(t) BY <1>1, <1>3
<1>6. /\ CatLen(sh, c) \in SoundStrings /\ CatLen(sh, c).len = sh.len + Len(c)
      /\ Str(CatLen(sh, c)) = Str(sh) \o c
  BY <1>3, <1>5, CatLenOf
<1> QED BY <1>4, <1>5, <1>6 DEF c

\* Bytes in the middle of a string are moved to its front.
LEMMA ShrunkOf ==
    ASSUME NEW sh \in SoundStrings, NEW from \in Int, NEW newlen \in Nat, newlen <= sh.len
    PROVE  /\ Shrunk(sh, from, newlen) \in SoundStrings
           /\ Shrunk(sh, from, newlen).len = newlen
           /\ from >= 0 /\ from + newlen <= sh.len =>
                 \A k \in 1 .. newlen : Str(Shrunk(sh, from, newlen))[k] = Str(sh)[from + k]
<1> DEFINE b == [k \in DOMAIN sh.buf |->
                    IF k = newlen + 1 THEN NUL
                    ELSE IF k > newlen THEN sh.buf[k]
                    ELSE IF from + k \in DOMAIN sh.buf THEN sh.buf[from + k] ELSE JUNK]
           free == sh.free + (sh.len - newlen)
           left == Size(sh) - newlen
           new == Shrunk(sh, from, newlen)
<1>1. /\ sh.len \in Nat /\ sh.len <= IntMax /\ sh.free \in Int /\ sh.buf \in Text
      /\ Size(sh) \in Nat /\ sh.len <= Size(sh) /\ Size(sh) <= 2 * IntMax
      /\ Len(sh.buf) = Size(sh) + 1 /\ sh.free = FreeOf(Size(sh) - sh.len)
      /\ DOMAIN sh.buf = 1 .. Len(sh.buf)
      /\ \A k \in 1 .. Len(sh.buf) : sh.buf[k] \in Byte
  BY StringsAre
<1> DEFINE Inside == from >= 0 /\ from + newlen <= sh.len
<1>2. b \in Text /\ Len(b) = Len(sh.buf) /\ b[newlen + 1] = NUL
      /\ (Inside => \A k \in 1 .. newlen : b[k] = sh.buf[from + k])
  <2>1. \A k \in 1 .. Len(sh.buf) :
           (IF k = newlen + 1 THEN NUL
            ELSE IF k > newlen THEN sh.buf[k]
            ELSE IF from + k \in 1 .. Len(sh.buf) THEN sh.buf[from + k] ELSE JUNK) \in Byte
    BY <1>1, NulIsByte
  <2>2. b \in Text /\ Len(b) = Len(sh.buf)
    <3>1. b = [k \in 1 .. Len(sh.buf) |->
                  IF k = newlen + 1 THEN NUL
                  ELSE IF k > newlen THEN sh.buf[k]
                  ELSE IF from + k \in 1 .. Len(sh.buf) THEN sh.buf[from + k] ELSE JUNK]
      BY <1>1
    <3> HIDE DEF b
    <3>2. \A k \in 1 .. Len(sh.buf) : b[k] \in Byte BY <2>1, <3>1
    <3>3. DOMAIN b = 1 .. Len(sh.buf) /\ b = [k \in 1 .. Len(sh.buf) |-> b[k]] BY <3>1
    <3>4. Len(sh.buf) \in Nat BY <1>1
    <3> QED BY <3>2, <3>3, <3>4, TextIs
  <2>3. newlen + 1 \in 1 .. Len(sh.buf) BY <1>1
  <2>4. Inside => \A k \in 1 .. newlen :
                     k \in 1 .. Len(sh.buf) /\ from + k \in 1 .. Len(sh.buf)
                     /\ k # newlen + 1 /\ ~(k > newlen)
    BY <1>1
  <2>5. b[newlen + 1] = NUL BY <1>1, <2>3
  <2>6. ASSUME Inside, NEW k \in 1 .. newlen PROVE b[k] = sh.buf[from + k]
    BY <1>1, <2>4, <2>6
  <2> QED BY <2>2, <2>5, <2>6
<1>3. /\ left \in 0 .. 2 * IntMax /\ free \in Int /\ newlen \in 0 .. IntMax
      /\ Size(sh) \in newlen .. 2 * IntMax
  <2> DEFINE z == Size(sh)
             l == sh.len
  <2>1. z \in Nat /\ l \in Nat /\ newlen <= l /\ l <= z /\ z <= 2 * IntMax /\ l <= IntMax
    BY <1>1
  <2>2. IntMax \in Nat BY SdsAssumption
  <2>3. free \in Int BY <1>1
  <2> HIDE DEF z, l, free
  <2>4. newlen \in 0 .. IntMax /\ z \in newlen .. 2 * IntMax /\ z - newlen \in 0 .. 2 * IntMax
    BY <2>1, <2>2
  <2> QED BY <2>3, <2>4 DEF z
<1>a. free = left \/ free = left - 2 * (IntMax + 1)
  <2> DEFINE room == Size(sh) - sh.len
  <2>1. sh.free = room \/ sh.free = room - 2 * (IntMax + 1)
    <3>1. sh.free = FreeOf(room) BY <1>1
    <3> HIDE DEF room
    <3> QED BY <3>1 DEF FreeOf
  <2> DEFINE d == sh.len - newlen
  <2>2. room + d = left /\ free = sh.free + d /\ room \in Int /\ d \in Int BY <1>1
  <2>3. IntMax \in Nat BY SdsAssumption
  <2> HIDE DEF room, left, free, d
  <2> QED BY <2>1, <2>2, <2>3
<1>b. ToInt(free) = FreeOf(left)
  <2> HIDE DEF free, left
  <2> QED BY <1>3, <1>a, FreeOfIs
<1>4. new = Header(newlen, free, b) BY DEF Shrunk
<1>c. Len(sh.buf) - 1 - newlen = left BY <1>1
<1> HIDE DEF b, free, new, left
<1>5. /\ new \in SoundStrings /\ new.len = newlen
      /\ \A k \in 1 .. newlen : new.buf[k] = b[k]
  <2>1. b \in Text /\ b[newlen + 1] = NUL /\ Len(b) - 1 \in newlen .. 2 * IntMax
        /\ ToInt(free) = FreeOf(Len(b) - 1 - newlen)
    BY <1>1, <1>2, <1>3, <1>b, <1>c
  <2> HIDE DEF Inside
  <2> QED BY <1>3, <1>4, <2>1, HeaderOf
<1>6. \A k \in 1 .. newlen : Str(new)[k] = new.buf[k]
  <2>1. new.buf \in Text /\ new.len \in Nat /\ new.len <= Len(new.buf) BY <1>5, StringsAre
  <2> QED BY <1>5, <2>1, StrOf
<1>7. \A k \in 1 .. sh.len : Str(sh)[k] = sh.buf[k] BY <1>1, StrOf
<1>8. Inside => \A k \in 1 .. newlen : from + k \in 1 .. sh.len BY <1>1
<1>9. Inside => \A k \in 1 .. newlen : Str(new)[k] = Str(sh)[from + k]
  BY <1>2, <1>5, <1>6, <1>7, <1>8
<1> QED BY <1>5, <1>9 DEF new

LEMMA TrimOf ==
    ASSUME NEW sh \in SoundStrings, NEW cset
    PROVE  Trim(sh, cset) \in SoundStrings
<1> DEFINE kept == {k \in 1 .. sh.len : sh.buf[k] \notin cset \cup {NUL}}
<1>1. sh.len \in Nat /\ SLen(sh) = sh.len BY StringsAre, SizesAre
<1>2. CASE kept = {}
  <2>1. Trim(sh, cset) = Shrunk(sh, 0, 0) BY <1>1, <1>2 DEF Trim
  <2>2. 0 <= sh.len BY <1>1
  <2> QED BY <2>1, <2>2, ShrunkOf
<1>3. CASE kept # {}
  <2> DEFINE a == Min(kept)
             z == Max(kept)
             from == a - 1
             newlen == z - a + 1
  <2>1. Trim(sh, cset) = Shrunk(sh, from, newlen) BY <1>1, <1>3 DEF Trim
  <2>2. a \in kept /\ z \in kept /\ a <= z
    <3>1. kept \in SUBSET Nat /\ kept \in SUBSET (0 .. sh.len) BY <1>1
    <3> QED BY <1>1, <1>3, <3>1, MinOf, MaxOf
  <2>3. a \in 1 .. sh.len /\ z \in 1 .. sh.len BY <2>2
  <2> HIDE DEF kept, a, z
  <2>4. from \in Int /\ newlen \in Nat /\ newlen <= sh.len
    BY <1>1, <2>2, <2>3
  <2> HIDE DEF from, newlen
  <2> QED BY <2>1, <2>4, ShrunkOf
<1> QED BY <1>2, <1>3

\* The offsets sdsrange computes.
LEMMA FromEndIs ==
    ASSUME NEW n \in 0 .. IntMax, NEW i \in Ints
    PROVE  /\ FromEnd(i, n) \in Nat
           /\ FromEnd(i, n) = IF i >= 0 THEN i ELSE Max({0, n + i})
<1>1. i \in Int /\ n + i \in Int BY SdsAssumption DEF Ints
<1>2. i < 0 => n + i \in Ints BY <1>1, SdsAssumption DEF Ints
<1>3. i < 0 => ToInt(n + i) = n + i BY <1>1, <1>2, ToIntIs
<1>4. Max({0, n + i}) \in Nat BY <1>1, MaxOfTwo
<1> QED BY <1>1, <1>3, <1>4 DEF FromEnd

LEMMA ClampIs ==
    ASSUME NEW n \in 1 .. IntMax, NEW i \in Nat
    PROVE  /\ Clamp(i, n) \in 0 .. n - 1
           /\ Clamp(i, n) = IF i >= n THEN n - 1 ELSE i
<1>1. n \in Ints /\ n - 1 \in Ints /\ n \in Int /\ n - 1 \in Int BY SdsAssumption DEF Ints
<1>2. ToInt(n) = n /\ ToInt(n - 1) = n - 1 BY <1>1, ToIntIs
<1> QED BY <1>1, <1>2 DEF Clamp

LEMMA RangeOf ==
    ASSUME NEW sh \in SoundStrings, NEW i \in Ints, NEW j \in Ints
    PROVE  SdsRange(sh, i, j) \in SoundStrings
<1> DEFINE n == sh.len
           first == FromEnd(i, n)
           last  == FromEnd(j, n)
           from  == Clamp(first, n)
           to    == Clamp(last, n)
           newlen == IF from > to THEN 0 ELSE to - from + 1
<1>1. n \in Nat /\ n \in 0 .. IntMax /\ SLen(sh) = n BY StringsAre, SizesAre
<1>2. CASE n = 0
  <2>1. SdsRange(sh, i, j) = sh BY <1>2 DEF SdsRange
  <2> QED BY <2>1
<1>3. CASE n # 0 /\ first > last
  <2>1. SdsRange(sh, i, j) = Shrunk(sh, 0, 0) BY <1>1, <1>3 DEF SdsRange
  <2> QED BY <1>1, <2>1, ShrunkOf
<1>4. CASE n # 0 /\ ~(first > last)
  <2>1. SdsRange(sh, i, j) = Shrunk(sh, from, newlen) BY <1>1, <1>4 DEF SdsRange
  <2>2. first \in Nat /\ last \in Nat BY <1>1, FromEndIs
  <2> HIDE DEF first, last
  <2>3. n \in 1 .. IntMax BY <1>1, <1>4
  <2>4. from \in 0 .. n - 1 /\ to \in 0 .. n - 1 BY <2>2, <2>3, ClampIs
  <2> HIDE DEF from, to
  <2>5. newlen \in Nat /\ newlen <= n /\ from \in Int BY <1>1, <2>3, <2>4
  <2> HIDE DEF newlen
  <2>6. Shrunk(sh, from, newlen) \in SoundStrings BY <2>5, ShrunkOf DEF n
  <2> QED BY <2>1, <2>6
<1> QED BY <1>2, <1>3, <1>4

\* What is stored behind a NUL in the string is cut off.
LEMMA CutOf ==
    ASSUME NEW sh \in SoundStrings, NEW k \in 1 .. sh.len
    PROVE  UpdateLen([sh EXCEPT !.buf[k] = NUL]) \in SoundStrings
<1> DEFINE b == [sh.buf EXCEPT ![k] = NUL]
           cut == [len |-> sh.len, free |-> sh.free, buf |-> b]
           reallen == Len(CString(b))
<1>1. /\ sh.len \in Nat /\ sh.len <= IntMax /\ sh.free \in Int /\ sh.buf \in Text
      /\ Size(sh) \in Nat /\ sh.len <= Size(sh) /\ Size(sh) <= 2 * IntMax
      /\ Len(sh.buf) = Size(sh) + 1 /\ sh.free = FreeOf(Size(sh) - sh.len)
      /\ sh = [len |-> sh.len, free |-> sh.free, buf |-> sh.buf]
  BY StringsAre
<1>2. k \in 1 .. Len(sh.buf) BY <1>1
<1>3. b \in Text /\ Len(b) = Len(sh.buf) /\ b[k] = NUL
  BY <1>1, <1>2, NulIsByte, ExceptSeq DEF Text
<1>4. [sh EXCEPT !.buf[k] = NUL] = cut
  <2>1. [sh EXCEPT !.buf[k] = NUL] = [sh EXCEPT !.buf = b] OBVIOUS
  <2> HIDE DEF b
  <2> QED BY <1>1, <2>1
<1>5. UpdateLen(cut) = Header(ToInt(reallen), sh.free + (sh.len - ToInt(reallen)), b)
  BY DEF UpdateLen
<1> HIDE DEF b
<1>6. PICK n \in 0 .. Len(b) : /\ CString(b) = SubSeq(b, 1, n)
                               /\ \A x \in 1 .. n : b[x] # NUL
                               /\ n < Len(b) => b[n + 1] = NUL
  BY <1>3, CStringOf
<1>7. reallen = n BY <1>3, <1>6, PrefixOf
<1> HIDE DEF reallen
<1>8. n \in Nat /\ n < k /\ n <= sh.len /\ n < Len(b) BY <1>1, <1>2, <1>3, <1>6
<1>9. n \in 0 .. IntMax /\ ToInt(n) = n
  <2>1. IntMax \in Nat /\ n <= IntMax
    <3>1. sh.len \in Nat /\ sh.len <= IntMax /\ n \in Nat /\ n <= sh.len BY <1>1, <1>8
    <3>2. IntMax \in Nat BY SdsAssumption
    <3> QED BY <3>1, <3>2
  <2>2. n \in Ints /\ n \in 0 .. IntMax BY <1>8, <2>1 DEF Ints
  <2> QED BY <2>2, <1>8, ToIntIs
<1> DEFINE free == sh.free + (sh.len - n)
           left == Size(sh) - n
<1>a. IntMax \in Nat BY SdsAssumption
<1>10. left \in 0 .. 2 * IntMax /\ free \in Int
  <2>1. sh.free \in Int /\ sh.len \in Nat /\ n \in Nat /\ n <= sh.len
        /\ Size(sh) \in Nat /\ sh.len <= Size(sh) /\ Size(sh) <= 2 * IntMax
    BY <1>1, <1>8
  <2> QED BY <1>a, <2>1
<1>11. free = left \/ free = left - 2 * (IntMax + 1)
  <2> DEFINE room == Size(sh) - sh.len
  <2>1. sh.free = room \/ sh.free = room - 2 * (IntMax + 1)
    <3>1. sh.free = FreeOf(room) BY <1>1
    <3> HIDE DEF room
    <3> QED BY <3>1 DEF FreeOf
  <2> DEFINE d == sh.len - n
  <2>2. room + d = left /\ room \in Int /\ d \in Int BY <1>1, <1>8
  <2>3. free = sh.free + d OBVIOUS
  <2> HIDE DEF room, left, d, free
  <2> QED BY <1>a, <2>1, <2>2, <2>3
<1>12. UpdateLen(cut) = Header(n, free, b) BY <1>5, <1>7, <1>9
<1>13. ToInt(free) = FreeOf(left)
  <2> HIDE DEF free, left
  <2> QED BY <1>10, <1>11, FreeOfIs
<1>14. /\ Len(b) - 1 \in n .. 2 * IntMax /\ Len(b) - 1 - n = left /\ b[n + 1] = NUL
  BY <1>1, <1>3, <1>6, <1>8
<1> HIDE DEF free, left
<1>15. Header(n, free, b) \in SoundStrings BY <1>3, <1>9, <1>10, <1>13, <1>14, HeaderOf
<1> QED BY <1>4, <1>12, <1>15

LEMMA RecasedOf ==
    ASSUME NEW sh \in SoundStrings, NEW from \in Byte, NEW to \in Byte
    PROVE  Recased(sh, from, to) \in SoundStrings
<1> DEFINE b == [k \in DOMAIN sh.buf |->
                    IF k <= sh.len /\ sh.buf[k] = from THEN to ELSE sh.buf[k]]
<1>1. /\ sh.len \in Nat /\ sh.len <= IntMax /\ sh.free \in Int /\ sh.buf \in Text
      /\ Size(sh) \in Nat /\ sh.len <= Size(sh) /\ Size(sh) <= 2 * IntMax
      /\ Len(sh.buf) = Size(sh) + 1 /\ sh.free = FreeOf(Size(sh) - sh.len)
      /\ sh.buf[sh.len + 1] = NUL
      /\ DOMAIN sh.buf = 1 .. Len(sh.buf)
      /\ \A k \in 1 .. Len(sh.buf) : sh.buf[k] \in Byte
      /\ sh = [len |-> sh.len, free |-> sh.free, buf |-> sh.buf]
  BY StringsAre
<1>2. \A k \in 1 .. Len(sh.buf) :
         (IF k <= sh.len /\ sh.buf[k] = from THEN to ELSE sh.buf[k]) \in Byte
  BY <1>1
<1>3. b \in Text /\ Len(b) = Len(sh.buf)
  <2>1. b = [k \in 1 .. Len(sh.buf) |->
                IF k <= sh.len /\ sh.buf[k] = from THEN to ELSE sh.buf[k]]
    BY <1>1
  <2>2. DOMAIN b = 1 .. Len(sh.buf) /\ \A k \in 1 .. Len(sh.buf) : b[k] \in Byte
    BY <1>2, <2>1
  <2>3. Len(sh.buf) \in Nat BY <1>1
  <2>4. b = [k \in 1 .. Len(sh.buf) |-> b[k]] BY <2>1
  <2> HIDE DEF b
  <2> QED BY <2>2, <2>3, <2>4, TextIs
<1>4. sh.len + 1 \in 1 .. Len(sh.buf) BY <1>1
<1>5. b[sh.len + 1] = NUL BY <1>1, <1>4
<1>6. Recased(sh, from, to) = [len |-> sh.len, free |-> sh.free, buf |-> b]
  <2>1. Recased(sh, from, to) = [sh EXCEPT !.buf = b] BY DEF Recased
  <2> HIDE DEF b
  <2> QED BY <1>1, <2>1
<1> HIDE DEF b
<1>7. sh.len \in 0 .. IntMax /\ Len(b) - 1 \in sh.len .. 2 * IntMax
      /\ sh.free = FreeOf(Len(b) - 1 - sh.len)
  <2>1. IntMax \in Nat BY SdsAssumption
  <2>2. Len(b) - 1 = Size(sh) BY <1>1, <1>3
  <2>3. Size(sh) \in sh.len .. 2 * IntMax /\ sh.len \in 0 .. IntMax BY <1>1, <2>1
  <2> QED BY <1>1, <2>2, <2>3
<1> QED BY <1>1, <1>3, <1>5, <1>6, <1>7, SoundIs

-----------------------------------------------------------------------------
(***************************************************************************)
(* sdscatrepr.                                                             *)
(***************************************************************************)
LEMMA ShortTexts ==
    ASSUME NEW c \in Byte
    PROVE  /\ <<c>> \in Text /\ <<Slash, c>> \in Text /\ <<Slash>> \in Text
           /\ <<Slash, "x", "0", "0">> \in Text
<1>1. Slash \in Byte /\ "x" \in Byte /\ "0" \in Byte BY DEF Byte, Chars
<1> QED BY <1>1 DEF Text

LEMMA ShortLengths ==
    ASSUME NEW c
    PROVE  Len(<<c>>) = 1 /\ Len(<<Slash, c>>) = 2 /\ Len(<<Slash, "x", "0", "0">>) = 4
  OBVIOUS

LEMMA ReprCharOf ==
    ASSUME NEW sh \in SoundStrings, NEW c \in Byte, sh.len + 4 <= IntMax
    PROVE  ReprChar(sh, c) \in SoundStrings /\ ReprChar(sh, c).len <= sh.len + 4
<1> DEFINE Short(t) == CatPrintf(sh, t) \in SoundStrings /\ CatPrintf(sh, t).len <= sh.len + 4
<1>1. sh.len \in Nat /\ IntMax \in Nat BY StringsAre, SdsAssumption
<1>2. ASSUME NEW t \in Text, Len(t) \in 0 .. 4 PROVE Short(t)
  <2>1. sh.len + Len(t) <= IntMax /\ sh.len + Len(t) <= sh.len + 4
    <3> DEFINE n == Len(t)
               m == sh.len
    <3>1. n \in 0 .. 4 BY <1>2
    <3>2. m \in Nat /\ m + 4 <= IntMax /\ IntMax \in Nat BY <1>1
    <3> HIDE DEF n, m
    <3>3. m + n <= IntMax /\ m + n <= m + 4 BY <3>1, <3>2
    <3> QED BY <3>3 DEF n, m
  <2>2. CatPrintf(sh, t) \in SoundStrings /\ CatPrintf(sh, t).len <= sh.len + Len(t)
    BY <2>1, CatPrintfIs
  <2>3. CatPrintf(sh, t).len \in Nat BY <2>2, StringsAre
  <2> QED BY <1>1, <1>2, <2>1, <2>2, <2>3
<1>3. Short(<<Slash, c>>) /\ Short(<<c>>) /\ Short(<<Slash, "x", "0", "0">>)
  <2> HIDE DEF Short
  <2> QED BY <1>2, ShortTexts, ShortLengths
<1>4. CatLen(sh, <<Slash>>) \in SoundStrings /\ CatLen(sh, <<Slash>>).len <= sh.len + 4
  <2>1. sh.len + Len(<<Slash>>) <= IntMax /\ Len(<<Slash>>) = 1 BY <1>1, ShortLengths
  <2>2. CatLen(sh, <<Slash>>) \in SoundStrings /\ CatLen(sh, <<Slash>>).len = sh.len + 1
    BY <2>1, ShortTexts, CatLenOf
  <2> QED BY <1>1, <2>2
<1>5. CASE c \in {Slash, Quote} BY <1>3, <1>5 DEF ReprChar, Slash, Quote, NL
<1>6. CASE c = NL BY <1>4, <1>6 DEF ReprChar, Slash, Quote, NL
<1>7. CASE c \notin {Slash, Quote, NL} /\ IsPrint(c) BY <1>3, <1>7 DEF ReprChar
<1>8. CASE c \notin {Slash, Quote, NL} /\ ~IsPrint(c) BY <1>3, <1>8 DEF ReprChar
<1> QED BY <1>5, <1>6, <1>7, <1>8

\* Whatever its header says, what is appended to a string leaves one.
LEMMA CatLenTyped ==
    ASSUME NEW sh \in Strings, NEW t \in Text
    PROVE  CatLen(sh, t) \in Strings
<1> DEFINE room == MakeRoomFor(sh, Len(t))
           newlen == ToSize(2 * (SLen(sh) + Len(t)))
           j == Junk(newlen + 1 - Len(sh.buf))
<1>1. sh.len \in Int /\ sh.free \in Int /\ sh.buf \in Text
      /\ sh = [len |-> sh.len, free |-> sh.free, buf |-> sh.buf]
  BY DEF Strings
<1>2. Len(t) \in Nat /\ Len(sh.buf) \in Nat /\ SLen(sh) \in Nat
  BY <1>1, LenProperties, ToSizeIs DEF Text, SLen
<1>3. newlen \in Nat
  <2>1. 2 * (SLen(sh) + Len(t)) \in Int BY <1>2
  <2> QED BY <2>1, ToSizeIs
<1> HIDE DEF newlen
<1>4. j \in Text
  <2> DEFINE n == newlen + 1 - Len(sh.buf)
  <2>1. n \in Int BY <1>2, <1>3
  <2>2. j = [k \in 1 .. n |-> JUNK] BY DEF Junk
  <2> HIDE DEF n, j
  <2>3. CASE n >= 0
    <3>1. n \in Nat /\ DOMAIN j = 1 .. n /\ j = [k \in 1 .. n |-> j[k]]
          /\ \A k \in 1 .. n : j[k] \in Byte
      BY <2>1, <2>2, <2>3, NulIsByte
    <3> QED BY <3>1, TextIs
  <2>4. CASE ~(n >= 0)
    <3>1. 1 .. n = 1 .. 0 BY <2>1, <2>4
    <3>2. 0 \in Nat /\ DOMAIN j = 1 .. 0 /\ j = [k \in 1 .. 0 |-> j[k]]
          /\ \A k \in 1 .. 0 : j[k] \in Byte
      BY <2>2, <3>1, NulIsByte
    <3> QED BY <3>2, TextIs
  <2> QED BY <2>3, <2>4
<1>5. room.buf \in Text /\ room.free \in Int
  <2>1. CASE Avail(sh) >= Len(t) BY <1>1, <2>1 DEF MakeRoomFor
  <2>2. CASE ~(Avail(sh) >= Len(t))
    <3> DEFINE b == sh.buf \o j
               free == ToInt(newlen - SLen(sh))
    <3>1. room = Grow(sh, newlen) BY <2>2 DEF MakeRoomFor, newlen
    <3>2. room = [sh EXCEPT !.free = free, !.buf = b] BY <3>1 DEF Grow
    <3>3. b \in Text /\ free \in Int
      <4>1. b \in Text BY <1>1, <1>4, ConcatProperties DEF Text
      <4>2. newlen - SLen(sh) \in Int BY <1>2, <1>3
      <4>3. ToInt(newlen - SLen(sh)) \in Ints BY <4>2, ToIntIs
      <4> QED BY <4>1, <4>3, SdsAssumption DEF Ints
    <3> HIDE DEF b, free, room
    <3> QED BY <1>1, <3>2, <3>3
  <2> QED BY <2>1, <2>2
<1>6. Append(t, NUL) \in Text BY NulIsByte, AppendProperties DEF Text
<1> DEFINE len == SLen(sh) + Len(t)
           free == room.free - Len(t)
           b == Copied(room.buf, SLen(sh), Append(t, NUL))
<1>7. CatLen(sh, t) = Header(len, free, b) BY DEF CatLen
<1> HIDE DEF room
<1>8. len \in Int /\ free \in Int /\ b \in Text BY <1>2, <1>5, <1>6, CopiedTyped
<1> HIDE DEF len, free, b
<1> QED BY <1>7, <1>8, HeaderTyped

LEMMA ReprCharTyped ==
    ASSUME NEW sh \in Strings, NEW c \in Byte
    PROVE  ReprChar(sh, c) \in Strings
<1>0. ASSUME NEW t \in Text PROVE CatPrintf(sh, t) \in Strings
  BY <1>0, CatPrintfOf, CStringIsText, CatLenTyped
<1>1. /\ CatPrintf(sh, <<Slash, c>>) \in Strings /\ CatLen(sh, <<Slash>>) \in Strings
      /\ CatPrintf(sh, <<c>>) \in Strings
      /\ CatPrintf(sh, <<Slash, "x", "0", "0">>) \in Strings
  BY <1>0, ShortTexts, CatLenTyped
<1>2. CASE c \in {Slash, Quote} BY <1>1, <1>2 DEF ReprChar, Slash, Quote, NL
<1>3. CASE c = NL BY <1>1, <1>3 DEF ReprChar, Slash, Quote, NL
<1>4. CASE c \notin {Slash, Quote, NL} /\ IsPrint(c) BY <1>1, <1>4 DEF ReprChar
<1>5. CASE c \notin {Slash, Quote, NL} /\ ~IsPrint(c) BY <1>1, <1>5 DEF ReprChar
<1> QED BY <1>2, <1>3, <1>4, <1>5

\* The fold of ReprChar as a sequence of strings, each with one more character.
LEMMA ReprFold ==
    ASSUME NEW sh \in Strings, NEW t \in Text
    PROVE  \E r \in [0 .. Len(t) -> Strings] :
              /\ r[0] = sh
              /\ \A k \in 1 .. Len(t) : r[k] = ReprChar(r[k - 1], t[k])
              /\ r[Len(t)] = FoldLeft(ReprChar, sh, t)
<1> DEFINE n == Len(t)
           step == [p \in Strings \X (1 .. n) |-> ReprChar(p[1], t[p[2]])]
<1>1. n \in Nat /\ DOMAIN t = 1 .. n /\ \A k \in 1 .. n : t[k] \in Byte
  BY ElementOfSeq, LenProperties DEF Text
<1>2. step \in [Strings \X (1 .. n) -> Strings] BY <1>1, ReprCharTyped
<1>3. \A x \in Strings, k \in 1 .. n : step[<<x, k>>] = ReprChar(x, t[k]) OBVIOUS
<1> DEFINE it == CHOOSE f : f = [u \in SUBSET (1 .. n) |->
                    IF u = {} THEN sh ELSE ReprChar(f[u \ {Max(u)}], t[Max(u)])]
<1>4. FoldLeft(ReprChar, sh, t) = it[1 .. n]
  BY <1>1 DEF FoldLeft, MapThenFoldSet
<1> HIDE DEF step, n
<1>5. PICK g \in [SUBSET (1 .. n) -> Strings] : IsFold(g, n, sh, step)
  BY <1>1, <1>2, FoldExists
<1>6. g = [u \in SUBSET (1 .. n) |->
              IF u = {} THEN sh ELSE ReprChar(g[u \ {Max(u)}], t[Max(u)])]
  <2>1. ASSUME NEW u \in SUBSET (1 .. n), u # {}
        PROVE  step[<<g[u \ {Max(u)}], Max(u)>>] = ReprChar(g[u \ {Max(u)}], t[Max(u)])
    <3>1. u \in SUBSET (0 .. n) BY <1>1
    <3>2. Max(u) \in 1 .. n BY <1>1, <2>1, <3>1, MaxOf
    <3>3. g[u \ {Max(u)}] \in Strings BY <1>5
    <3> QED BY <1>3, <3>2, <3>3
  <2>2. g = [u \in SUBSET (1 .. n) |->
                IF u = {} THEN sh ELSE step[<<g[u \ {Max(u)}], Max(u)>>]]
    BY <1>5 DEF IsFold
  <2> QED BY <2>1, <2>2
<1>7. it = [u \in SUBSET (1 .. n) |->
               IF u = {} THEN sh ELSE ReprChar(it[u \ {Max(u)}], t[Max(u)])]
  BY <1>6
<1> HIDE DEF it
<1>8. it[1 .. 0] = sh
  <2>1. 1 .. 0 = {} OBVIOUS
  <2> QED BY <1>7, <2>1
<1>9. ASSUME NEW k \in 1 .. n PROVE it[1 .. k] = ReprChar(it[1 .. k - 1], t[k])
  <2>0. k \in Nat /\ k > 0 /\ 1 \in 1 .. k BY <1>1
  <2>1. k \in Nat /\ k > 0 /\ 1 .. k \in SUBSET (1 .. n) /\ 1 .. k # {}
    <3>1. k \in Nat /\ k > 0 /\ k <= n BY <1>1
    <3>2. \A j \in 1 .. k : j \in 1 .. n BY <1>1, <3>1
    <3> QED BY <2>0, <3>1, <3>2
  <2>2. Max(1 .. k) = k /\ (1 .. k) \ {k} = 1 .. k - 1 BY <2>1, MaxUpTo
  <2> QED BY <1>7, <2>1, <2>2
<1>10. \A k \in 0 .. n : it[1 .. k] \in Strings
  <2>1. \A k \in 1 .. n : it[1 .. k - 1] \in Strings => it[1 .. k] \in Strings
    BY <1>1, <1>9, ReprCharTyped
  <2> QED BY <1>1, <1>8, <2>1, FoldStays
<1> DEFINE r == [k \in 0 .. n |-> it[1 .. k]]
<1>11. r \in [0 .. n -> Strings] /\ r[0] = sh /\ r[n] = FoldLeft(ReprChar, sh, t)
  BY <1>1, <1>4, <1>8, <1>10 DEF n
<1>12. \A k \in 1 .. n : r[k] = ReprChar(r[k - 1], t[k])
  <2>1. \A k \in 1 .. n : k \in 0 .. n /\ k - 1 \in 0 .. n BY <1>1
  <2> QED BY <1>9, <2>1
<1> HIDE DEF r
<1> QED BY <1>11, <1>12 DEF n

\* A fold of ReprChar leaves a sound string if an int can count the outcome.
LEMMA ReprSound ==
    ASSUME NEW sh \in SoundStrings, NEW t \in Text, sh.len + 4 * Len(t) <= IntMax
    PROVE  \E r : /\ r[0] = sh
                  /\ \A k \in 0 .. Len(t) : r[k] \in SoundStrings /\ r[k].len <= sh.len + 4 * k
                  /\ \A k \in 1 .. Len(t) : r[k] = ReprChar(r[k - 1], t[k])
                  /\ r[Len(t)] = FoldLeft(ReprChar, sh, t)
<1>1. /\ sh \in Strings /\ sh.len \in Nat /\ Len(t) \in Nat /\ IntMax \in Nat
      /\ \A k \in 1 .. Len(t) : t[k] \in Byte
  BY SoundIsString, StringsAre, LenProperties, ElementOfSeq, SdsAssumption DEF Text
<1>2. PICK r \in [0 .. Len(t) -> Strings] :
         /\ r[0] = sh
         /\ \A k \in 1 .. Len(t) : r[k] = ReprChar(r[k - 1], t[k])
         /\ r[Len(t)] = FoldLeft(ReprChar, sh, t)
  BY <1>1, ReprFold
<1> DEFINE Fine(k) == r[k] \in SoundStrings /\ r[k].len <= sh.len + 4 * k
           T == {k \in Nat : k <= Len(t) /\ ~Fine(k)}
<1>3. ASSUME T # {} PROVE FALSE
  <2>1. PICK k \in T : \A y \in T : k <= y BY <1>3, Least
  <2>2. k # 0 BY <1>1, <1>2, <2>1
  <2>3. k \in 1 .. Len(t) /\ k - 1 \in Nat /\ k - 1 \notin T /\ k - 1 <= Len(t)
    BY <1>1, <2>1, <2>2
  <2>4. r[k - 1] \in SoundStrings /\ r[k - 1].len <= sh.len + 4 * (k - 1) BY <2>3
  <2> DEFINE q == r[k - 1]
  <2>5. q \in SoundStrings /\ q.len \in Nat BY <2>4, StringsAre
  <2>6. q.len + 4 <= IntMax /\ q.len + 4 <= sh.len + 4 * k
    <3> DEFINE w == q.len
               l == sh.len
               n == Len(t)
    <3>1. w \in Nat /\ w <= l + 4 * (k - 1) BY <2>4, <2>5
    <3>2. l \in Nat /\ n \in Nat /\ l + 4 * n <= IntMax /\ IntMax \in Nat BY <1>1
    <3>3. k \in Nat /\ 1 <= k /\ k <= n BY <1>1, <2>3
    <3> HIDE DEF q, w, l, n
    <3>4. w + 4 <= l + 4 * k BY <3>1, <3>2, <3>3
    <3>5. l + 4 * k <= l + 4 * n BY <3>2, <3>3
    <3>6. w + 4 <= IntMax BY <3>1, <3>2, <3>3, <3>4, <3>5
    <3> QED BY <3>4, <3>6 DEF w, l
  <2>7. r[k] = ReprChar(q, t[k]) /\ t[k] \in Byte BY <1>1, <1>2, <2>3
  <2> HIDE DEF q
  <2>8. r[k] \in SoundStrings /\ r[k].len <= q.len + 4 BY <2>5, <2>6, <2>7, ReprCharOf
  <2>9. r[k].len \in Nat BY <2>8, StringsAre
  <2>10. r[k].len <= sh.len + 4 * k
    <3> DEFINE w == r[k].len
               m == sh.len + 4 * k
    <3>1. w \in Nat /\ w <= q.len + 4 /\ q.len + 4 <= m BY <2>6, <2>8, <2>9
    <3>2. m \in Int BY <1>1, <2>3
    <3> HIDE DEF w, m
    <3>3. w <= m BY <2>5, <3>1, <3>2
    <3> QED BY <3>3 DEF w, m
  <2> QED BY <2>1, <2>8, <2>10
<1>4. \A k \in 0 .. Len(t) : Fine(k) BY <1>1, <1>3
<1> QED BY <1>2, <1>4

LEMMA CatReprOf ==
    ASSUME NEW sh \in SoundStrings, NEW t \in Text, sh.len + 4 * Len(t) + 2 <= IntMax
    PROVE  CatRepr(sh, t) \in SoundStrings
<1> DEFINE base == CatLen(sh, <<Quote>>)
<1>1. <<Quote>> \in Text /\ Len(<<Quote>>) = 1
  BY ShortTexts, Quote \in Byte DEF Byte, Chars
<1>2. sh.len \in Nat /\ Len(t) \in Nat /\ IntMax \in Nat
  BY StringsAre, LenProperties, SdsAssumption DEF Text
<1>3. sh.len + Len(<<Quote>>) <= IntMax BY <1>1, <1>2
<1>4. base \in SoundStrings /\ base.len = sh.len + 1 BY <1>1, <1>3, CatLenOf
<1> HIDE DEF base
<1>5. base.len + 4 * Len(t) <= IntMax BY <1>2, <1>4
<1>6. PICK r : /\ \A k \in 0 .. Len(t) : r[k] \in SoundStrings /\ r[k].len <= base.len + 4 * k
               /\ r[Len(t)] = FoldLeft(ReprChar, base, t)
  BY <1>4, <1>5, ReprSound
<1> DEFINE end == FoldLeft(ReprChar, base, t)
<1>7. Len(t) \in 0 .. Len(t) BY <1>2
<1>8. end \in SoundStrings /\ end.len <= base.len + 4 * Len(t) BY <1>6, <1>7
<1>9. CatRepr(sh, t) = CatLen(end, <<Quote>>) BY DEF CatRepr, base
<1> HIDE DEF end
<1>10. end.len \in Nat BY <1>8, StringsAre
<1>11. end.len + Len(<<Quote>>) <= IntMax BY <1>1, <1>2, <1>4, <1>8, <1>10
<1> QED BY <1>1, <1>8, <1>9, <1>11, CatLenOf

-----------------------------------------------------------------------------
(***************************************************************************)
(* The caller of it all.                                                   *)
(***************************************************************************)
LEMMA StringsSound == ASSUME s \in SoundStrings PROVE HeaderSound
<1> DEFINE room == Len(s.buf) - 1 - s.len
<1>1. /\ s.len \in Nat /\ s.len <= IntMax /\ Size(s) \in Nat /\ s.len <= Size(s)
      /\ Len(s.buf) = Size(s) + 1 /\ s.free = FreeOf(Size(s) - s.len)
      /\ s.buf[s.len + 1] = NUL
  BY StringsAre
<1>2. s.len \in 0 .. IntMax /\ room \in Nat /\ Size(s) - s.len = room
  BY <1>1, SdsAssumption
<1>3. s.free = FreeOf(room) BY <1>1, <1>2
<1>4. s.free = IF room <= IntMax THEN room ELSE room - 2 * (IntMax + 1)
  <2> HIDE DEF room
  <2> QED BY <1>3 DEF FreeOf
<1> QED BY <1>1, <1>2, <1>4 DEF HeaderSound

LEMMA PieceIsText == \A t \in Pieces : t \in Text /\ Len(t) \in Nat /\ Len(t) <= IntMax
<1>1. ASSUME NEW t \in Pieces PROVE t \in Text /\ Len(t) \in Nat /\ Len(t) <= IntMax
  <2>1. t \in Text /\ Len(t) <= MaxLen BY CharsAreText, SdsAssumption
  <2>2. Len(t) \in Nat BY <2>1, LenProperties DEF Text
  <2> QED BY <2>1, <2>2, SdsAssumption
<1> QED BY <1>1

LEMMA InitString == Init => s \in SoundStrings
<1>1. <<>> \in Text /\ Len(<<>>) = 0 /\ 0 <= IntMax BY SdsAssumption DEF Text
<1>2. NewLen(<<>>) \in SoundStrings BY <1>1, NewLenOf
<1> QED BY <1>2, PieceIsText, NewLenOf DEF Init

LEMMA NextString == ASSUME s \in SoundStrings, Next PROVE s' \in SoundStrings
<1>0. s.len \in Nat /\ s.len <= IntMax /\ IntMax \in Nat /\ MaxLen \in Nat /\ MaxLen <= IntMax
  BY StringsAre, SdsAssumption
<1>a. \A t \in Pieces : s.len + Len(t) <= MaxLen => s.len + Len(t) <= IntMax
  BY <1>0, PieceIsText
<1>1. ASSUME NEW t \in Pieces, Cat(t) PROVE s' \in SoundStrings
  BY <1>a, <1>1, PieceIsText, CatLenOf DEF Cat
<1>2. ASSUME NEW t \in Pieces, Printf(t) PROVE s' \in SoundStrings
  BY <1>a, <1>2, PieceIsText, CatPrintfIs DEF Printf
<1>3. ASSUME NEW t \in Pieces, Cpy(t) PROVE s' \in SoundStrings
  BY <1>3, PieceIsText, CpyLenOf DEF Cpy
<1>4. ASSUME NEW t \in Pieces, Repr(t) PROVE s' \in SoundStrings
  <2>1. s.len + 4 * Len(t) + 2 <= IntMax BY <1>0, <1>4, PieceIsText DEF Repr
  <2>2. s' = CatRepr(s, t) /\ t \in Text BY <1>4, PieceIsText DEF Repr
  <2> QED BY <2>1, <2>2, CatReprOf
<1>5. ASSUME NEW cset \in Sets, TrimSet(cset) PROVE s' \in SoundStrings
  BY <1>5, TrimOf DEF TrimSet
<1>6. ASSUME NEW i \in Ints, NEW j \in Ints, Slice(i, j) PROVE s' \in SoundStrings
  BY <1>6, RangeOf DEF Slice
<1>7. ASSUME NEW k \in 1 .. MaxLen, Cut(k) PROVE s' \in SoundStrings
  BY <1>7, CutOf DEF Cut
<1>8. CASE Dup
  <2> DEFINE t == Str(s)
  <2>1. s.buf \in Text /\ s.len \in Nat /\ s.len <= Size(s) /\ Size(s) \in Nat
        /\ Len(s.buf) = Size(s) + 1
    BY StringsAre
  <2>2. s.len <= Len(s.buf) BY <2>1
  <2>3. t \in Text /\ Len(t) = s.len BY <2>1, <2>2, StrOf
  <2>4. s' = NewLen(t) BY <1>8 DEF Dup
  <2> HIDE DEF t
  <2> QED BY <1>0, <2>3, <2>4, NewLenOf
<1>9. CASE Upper \/ Lower
  BY <1>9, RecasedOf, "a" \in Byte, "A" \in Byte DEF Upper, Lower, Byte, Chars
<1> QED BY <1>1, <1>2, <1>3, <1>4, <1>5, <1>6, <1>7, <1>8, <1>9 DEF Next

\* HeaderSound: under any sequence of the operations that change it the length
\* and the room in the header of a string (sdsMakeRoomFor, sdscpylen, sdsrange
\* and their like) agree with the memory behind it, the room wrapped to an int
\* where it is larger, and a terminator follows: for every width of an int and
\* of a size_t, as long as an int can count the texts the caller makes.
THEOREM HeadersSound == Spec => []HeaderSound
<1>1. Init => s \in SoundStrings BY InitString
<1>2. s \in SoundStrings /\ [Next]_s => (s \in SoundStrings)' BY NextString
<1>3. s \in SoundStrings => HeaderSound BY StringsSound
<1> QED BY <1>1, <1>2, <1>3, PTL DEF Spec

\* TextArrives: whatever room the operations before have left, sdscatlen,
\* sdscatprintf and sdscpylen leave exactly the text they were given, if an
\* int can count the bytes of the result, and formatted output stops at a NUL
\* only.
THEOREM TextsArrive == Spec => []TextArrives
<1>1. Init => s \in SoundStrings BY InitString
<1>2. s \in SoundStrings /\ [Next]_s => (s \in SoundStrings)' BY NextString
<1>3. s \in SoundStrings => TextArrives
  BY PieceIsText, CatLenOf, CatPrintfIs, CpyLenOf DEF TextArrives
<1> QED BY <1>1, <1>2, <1>3, PTL DEF Spec

\* The bytes a .. z of a text, counted from 0.
LEMMA SliceOf ==
    ASSUME NEW t \in Text, NEW a \in Nat, NEW z \in Nat, a <= z, z < Len(t)
    PROVE  /\ SubSeq(t, a + 1, z + 1) \in Text
           /\ Len(SubSeq(t, a + 1, z + 1)) = z - a + 1
           /\ \A k \in 1 .. z - a + 1 : SubSeq(t, a + 1, z + 1)[k] = t[a + k]
<1> DEFINE x == SubSeq(t, a + 1, z + 1)
<1>1. \A k \in a + 1 .. z + 1 : t[k] \in Byte
  BY ElementOfSeq, LenProperties DEF Text
<1>2. /\ x \in Seq(Byte)
      /\ Len(x) = IF a + 1 <= z + 1 THEN z + 1 - (a + 1) + 1 ELSE 0
      /\ \A k \in 1 .. z + 1 - (a + 1) + 1 : x[k] = t[a + 1 + k - 1]
  BY <1>1, SubSeqProperties
<1>3. z + 1 - (a + 1) + 1 = z - a + 1 /\ \A k \in Int : a + 1 + k - 1 = a + k OBVIOUS
<1> HIDE DEF x
<1>4. Len(x) = z - a + 1 BY <1>2, <1>3
<1>5. \A k \in 1 .. z - a + 1 : x[k] = t[a + k] BY <1>2, <1>3
<1> QED BY <1>2, <1>4, <1>5 DEF x, Text

LEMMA InRangeIs ==
    ASSUME NEW t \in Text, NEW i \in Int, NEW j \in Int, NEW a \in Nat, NEW z \in Nat,
           Len(t) > 0,
           a = (IF i < 0 THEN Max({0, Len(t) + i}) ELSE i),
           z = (IF j < 0 THEN Max({0, Len(t) + j}) ELSE j)
    PROVE  /\ a > z => InRange(t, i, j) = <<>>
           /\ ~(a > z) => InRange(t, i, j) = SubSeq(t, (IF a >= Len(t) THEN Len(t) - 1 ELSE a) + 1,
                                                      (IF z >= Len(t) THEN Len(t) - 1 ELSE z) + 1)
<1> DEFINE n  == Len(t)
           aa == IF a >= n THEN n - 1 ELSE a
           zz == IF z >= n THEN n - 1 ELSE z
           Kept == {k \in DOMAIN t : k - 1 >= Min({a, n - 1}) /\ k - 1 <= z}
<1>1. n \in Nat /\ n > 0 /\ DOMAIN t = 1 .. n BY LenProperties DEF Text
<1>2. InRange(t, i, j) = IF a > z THEN <<>> ELSE SubSeq(t, Min(Kept), Max(Kept))
  BY DEF InRange
<1>3. Min({a, n - 1}) = aa
  <2> DEFINE b == n - 1
  <2>1. a \in Int /\ b \in Int BY <1>1
  <2> HIDE DEF n, b
  <2>2. Min({a, b}) = IF a <= b THEN a ELSE b BY <2>1, MinOfTwo
  <2> QED BY <1>1, <2>2 DEF b
<1>4. ASSUME ~(a > z) PROVE Min(Kept) = aa + 1 /\ Max(Kept) = zz + 1
  <2>1. aa \in Nat /\ zz \in Nat /\ aa <= zz /\ zz < n BY <1>1, <1>4
  <2>2. \A k \in 1 .. n : k - 1 >= aa /\ k - 1 <= z <=> k >= aa + 1 /\ k <= zz + 1
    BY <1>1, <2>1
  <2>3. Kept = {k \in 1 .. n : k >= aa + 1 /\ k <= zz + 1} BY <1>1, <1>3, <2>2
  <2> HIDE DEF aa, zz, Kept, n
  <2>4. aa + 1 \in Kept /\ zz + 1 \in Kept /\ \A k \in Kept : k >= aa + 1 /\ k <= zz + 1
    BY <1>1, <2>1, <2>3
  <2>5. Kept \in SUBSET Nat /\ Kept \in SUBSET (0 .. n) /\ Kept # {} BY <1>1, <2>3, <2>4
  <2>6. Min(Kept) \in Kept /\ \A k \in Kept : Min(Kept) <= k BY <2>5, MinOf
  <2>7. Max(Kept) \in Kept /\ \A k \in Kept : Max(Kept) >= k BY <1>1, <2>5, MaxOf
  <2>8. Min(Kept) \in Int /\ Max(Kept) \in Int
    <3>1. \A k \in Kept : k \in Int BY <2>3, <1>1
    <3> QED BY <2>6, <2>7, <3>1
  <2>9. Min(Kept) = aa + 1 BY <2>1, <2>4, <2>6, <2>8
  <2>10. Max(Kept) = zz + 1 BY <2>1, <2>4, <2>7, <2>8
  <2> QED BY <2>9, <2>10
<1> HIDE DEF Kept
<1> QED BY <1>2, <1>4

LEMMA RangeIs ==
    ASSUME s \in SoundStrings, s.len > 0, NEW i \in Ints, NEW j \in Ints
    PROVE  Str(SdsRange(s, i, j)) = InRange(Str(s), i, j)
<1> DEFINE n == s.len
           t == Str(s)
           a == FromEnd(i, n)
           z == FromEnd(j, n)
           aa == IF a >= n THEN n - 1 ELSE a
           zz == IF z >= n THEN n - 1 ELSE z
<1>1. n \in Nat /\ n > 0 /\ n \in 0 .. IntMax /\ n \in 1 .. IntMax /\ SLen(s) = n
  BY StringsAre, SizesAre
<1>2. t \in Text /\ Len(t) = n
  <2>1. s.buf \in Text /\ s.len \in Nat /\ s.len <= Len(s.buf) BY StringsAre
  <2> QED BY <2>1, StrOf
<1>3. i \in Int /\ j \in Int BY SdsAssumption DEF Ints
<1>4. /\ a \in Nat /\ a = IF i < 0 THEN Max({0, n + i}) ELSE i
      /\ z \in Nat /\ z = IF j < 0 THEN Max({0, n + j}) ELSE j
  <2>1. a \in Nat /\ a = IF i >= 0 THEN i ELSE Max({0, n + i}) BY <1>1, FromEndIs
  <2>2. z \in Nat /\ z = IF j >= 0 THEN j ELSE Max({0, n + j}) BY <1>1, FromEndIs
  <2> HIDE DEF a, z, n
  <2> QED BY <1>3, <2>1, <2>2
<1>5. SdsRange(s, i, j) = IF a > z THEN Shrunk(s, 0, 0)
                          ELSE Shrunk(s, Clamp(a, n), IF Clamp(a, n) > Clamp(z, n) THEN 0
                                                      ELSE Clamp(z, n) - Clamp(a, n) + 1)
  BY <1>1 DEF SdsRange
<1> HIDE DEF a, z, t, n
<1>6. Clamp(a, n) = aa /\ Clamp(z, n) = zz BY <1>1, <1>4, ClampIs
<1>7. /\ a > z => InRange(t, i, j) = <<>>
      /\ ~(a > z) => InRange(t, i, j) = SubSeq(t, aa + 1, zz + 1)
  <2>1. Len(t) > 0 /\ a = (IF i < 0 THEN Max({0, Len(t) + i}) ELSE i)
        /\ z = (IF j < 0 THEN Max({0, Len(t) + j}) ELSE j)
    BY <1>1, <1>2, <1>4
  <2>2. /\ a > z => InRange(t, i, j) = <<>>
        /\ ~(a > z) => InRange(t, i, j)
                          = SubSeq(t, (IF a >= Len(t) THEN Len(t) - 1 ELSE a) + 1,
                                      (IF z >= Len(t) THEN Len(t) - 1 ELSE z) + 1)
    BY <1>2, <1>3, <1>4, <2>1, InRangeIs
  <2> QED BY <1>2, <2>2
<1>8. CASE a > z
  <2>1. SdsRange(s, i, j) = Shrunk(s, 0, 0) BY <1>5, <1>8
  <2>2. Shrunk(s, 0, 0) \in SoundStrings /\ Shrunk(s, 0, 0).len = 0 BY <1>1, ShrunkOf DEF n
  <2>3. Str(Shrunk(s, 0, 0)) = <<>> BY <2>2, SubSeqEmpty DEF Str
  <2> QED BY <1>7, <1>8, <2>1, <2>3 DEF t
<1>9. CASE ~(a > z)
  <2>1. aa \in Nat /\ zz \in Nat /\ aa <= zz /\ zz < n BY <1>1, <1>4, <1>9
  <2> DEFINE m == zz - aa + 1
             new == SdsRange(s, i, j)
             str == Str(new)
             cut == SubSeq(t, aa + 1, zz + 1)
  <2> HIDE DEF aa, zz
  <2>2. new = Shrunk(s, aa, m) BY <1>5, <1>6, <1>9, <2>1
  <2>3. m \in Nat /\ m <= n /\ aa + m <= n BY <1>1, <2>1
  <2> HIDE DEF m, new
  <2>4. /\ new \in SoundStrings /\ new.len = m
        /\ \A k \in 1 .. m : Str(new)[k] = Str(s)[aa + k]
    BY <2>1, <2>2, <2>3, ShrunkOf DEF n
  <2>5. str \in Text /\ Len(str) = m
    <3>1. new.buf \in Text /\ new.len \in Nat /\ new.len <= Len(new.buf)
      BY <2>4, StringsAre
    <3> QED BY <2>4, <3>1, StrOf
  <2>6. /\ cut \in Text /\ Len(cut) = m
        /\ \A k \in 1 .. m : cut[k] = t[aa + k]
    BY <1>2, <2>1, SliceOf DEF m
  <2>7. \A k \in 1 .. m : str[k] = cut[k] BY <2>4, <2>6 DEF t
  <2> HIDE DEF str, cut
  <2>8. str = cut BY <2>5, <2>6, <2>7, SeqEqual DEF Text
  <2>9. InRange(t, i, j) = cut BY <1>7, <1>9 DEF cut, aa, zz
  <2> QED BY <2>8, <2>9 DEF str, new, t
<1> QED BY <1>8, <1>9

\* RangeExact: sdsrange keeps the bytes of the range for every two ints,
\* positions past the end or counted from the end included.
THEOREM RangesExact == Spec => []RangeExact
<1>1. Init => s \in SoundStrings BY InitString
<1>2. s \in SoundStrings /\ [Next]_s => (s \in SoundStrings)' BY NextString
<1>3. s \in SoundStrings => RangeExact BY RangeIs DEF RangeExact
<1> QED BY <1>1, <1>2, <1>3, PTL DEF Spec

-----------------------------------------------------------------------------
(***************************************************************************)
(* Splitting.                                                              *)
(***************************************************************************)
\* Tokens with the separator between them.
Joined(sep, toks) == FoldLeft(LAMBDA acc, tok : acc \o sep \o tok, Head(toks), Tail(toks))
JoinStep(sep)     == [p \in Text \X Text |-> p[1] \o sep \o p[2]]

LEMMA JoinStepIs ==
    ASSUME NEW sep \in Text
    PROVE  /\ JoinStep(sep) \in [Text \X Text -> Text]
           /\ \A x \in Text, tok \in Text : JoinStep(sep)[<<x, tok>>] = x \o sep \o tok
<1>1. \A x \in Text, tok \in Text : x \o sep \o tok \in Text BY ConcatProperties DEF Text
<1> QED BY <1>1 DEF JoinStep

LEMMA JoinTrace ==
    ASSUME NEW sep \in Text, NEW base \in Text, NEW t \in Seq(Text)
    PROVE  HasTrace(Text, base, JoinStep(sep), t,
                    FoldLeft(LAMBDA acc, tok : acc \o sep \o tok, base, t))
<1> DEFINE n == Len(t)
           step == JoinStep(sep)
           it == CHOOSE f : f = [u \in SUBSET (1 .. n) |->
                    IF u = {} THEN base ELSE f[u \ {Max(u)}] \o sep \o t[Max(u)]]
<1>1. n \in Nat /\ DOMAIN t = 1 .. n BY LenProperties
<1>2. FoldLeft(LAMBDA acc, tok : acc \o sep \o tok, base, t) = it[1 .. n]
  BY <1>1 DEF FoldLeft, MapThenFoldSet
<1>3. step \in [Text \X Text -> Text]
      /\ \A x \in Text, tok \in Text : step[<<x, tok>>] = x \o sep \o tok
  BY JoinStepIs
<1> HIDE DEF step
<1>4. Foldable(Text, Text, base, step, t) BY <1>3 DEF Foldable
<1>5. PICK g \in [SUBSET (1 .. n) -> Text] :
        /\ IsStepwise(g, base, step, t)
        /\ \A u \in SUBSET (1 .. n) : u # {} => g[u \ {Max(u)}] \in Text /\ t[Max(u)] \in Text
  <2>1. HasStepwise(Text, Text, base, step, t) BY <1>4, StepwiseExists
  <2> QED BY <2>1, Zenon DEF HasStepwise
<1>6. g = [u \in SUBSET (1 .. n) |->
              IF u = {} THEN base ELSE g[u \ {Max(u)}] \o sep \o t[Max(u)]]
  <2>1. \A u \in SUBSET (1 .. n) : u # {} =>
            step[<<g[u \ {Max(u)}], t[Max(u)]>>] = g[u \ {Max(u)}] \o sep \o t[Max(u)]
    BY <1>3, <1>5
  <2>2. g = [u \in SUBSET (1 .. n) |->
                IF u = {} THEN base ELSE step[<<g[u \ {Max(u)}], t[Max(u)]>>]]
    BY <1>5 DEF IsStepwise
  <2> QED BY <2>1, <2>2
<1>7. it = [u \in SUBSET (1 .. n) |->
              IF u = {} THEN base ELSE it[u \ {Max(u)}] \o sep \o t[Max(u)]]
  BY <1>6, Zenon
<1> HIDE DEF it
<1>8. it[{}] = base BY <1>7
<1>9. \A u \in SUBSET (1 .. Len(t)) :
          u # {} /\ it[u \ {Max(u)}] \in Text /\ t[Max(u)] \in Text =>
              it[u] = step[<<it[u \ {Max(u)}], t[Max(u)]>>]
  BY <1>3, <1>7
<1>10. HasTrace(Text, base, step, t, it[1 .. Len(t)]) BY <1>4, <1>8, <1>9, FoldTrace
<1> QED BY <1>2, <1>10 DEF step

LEMMA JoinedOne ==
    ASSUME NEW x \in Text
    PROVE  \A sep \in Text : Joined(sep, <<x>>) = x
<1> DEFINE one == <<x>>
           none == <<>>
<1>1. Head(one) = x /\ Tail(one) = none /\ none \in Seq(Text) /\ none \in Text BY DEF Text
<1>2. ASSUME NEW sep \in Text PROVE Joined(sep, one) = x
  <2> DEFINE e == FoldLeft(LAMBDA acc, tok : acc \o sep \o tok, x, none)
             step == JoinStep(sep)
  <2>1. Joined(sep, one) = e BY <1>1 DEF Joined
  <2>2. HasTrace(Text, x, JoinStep(sep), none, e)
    <3> HIDE DEF none
    <3> QED BY <1>1, JoinTrace
  <2>3. HasTrace(Text, x, step, <<>>, e) BY <2>2
  <2> HIDE DEF e, step
  <2>4. e = x BY <2>3, TraceStarts
  <2> QED BY <2>1, <2>4
<1> QED BY <1>1, <1>2

LEMMA JoinedMore ==
    ASSUME NEW sep \in Text, NEW toks \in Seq(Text), toks # <<>>, NEW x \in Text
    PROVE  /\ Joined(sep, toks) \in Text
           /\ Joined(sep, Append(toks, x)) = Joined(sep, toks) \o sep \o x
<1> DEFINE base == Head(toks)
           rest == Tail(toks)
           more == Append(rest, x)
           e == FoldLeft(LAMBDA acc, tok : acc \o sep \o tok, base, rest)
           f == FoldLeft(LAMBDA acc, tok : acc \o sep \o tok, base, more)
           step == JoinStep(sep)
<1>1. base \in Text /\ rest \in Seq(Text) BY HeadTailProperties
<1>2. Head(Append(toks, x)) = base /\ Tail(Append(toks, x)) = more BY HeadTailAppend
<1>3. Joined(sep, toks) = e /\ Joined(sep, Append(toks, x)) = f BY <1>2 DEF Joined
<1> HIDE DEF base, rest
<1>4. more \in Seq(Text) BY <1>1, AppendProperties
<1>5. HasTrace(Text, base, step, rest, e) BY <1>1, JoinTrace
<1>6. HasTrace(Text, base, step, more, f)
  <2> HIDE DEF more
  <2> QED BY <1>1, <1>4, JoinTrace
<1>7. \A y \in Text : step[<<y, x>>] = y \o sep \o x BY JoinStepIs
<1> HIDE DEF e, f, step
<1>8. e \in Text /\ f = step[<<e, x>>] BY <1>1, <1>5, <1>6, TraceGrows
<1> QED BY <1>3, <1>7, <1>8

\* What looking for the separator at j does to what was found before j.
LookAt(t, sep, acc, j) ==
    IF j < acc.next THEN acc
    ELSE IF SubSeq(t, j + 1, j + Len(sep)) = sep
    THEN [tokens |-> Append(acc.tokens, SubSeq(t, acc.start + 1, j)),
          start |-> j + Len(sep), next |-> j + Len(sep), slots |-> Grown(acc)]
    ELSE [acc EXCEPT !.slots = Grown(acc)]
LookedAt(t, sep) == [k \in 1 .. Max({0, LastPlace(Len(t), Len(sep)) + 1}) |-> k - 1]
Splitting == [tokens : Seq(Text), start : Nat, next : Nat, slots : Nat]
NoTokens  == [tokens |-> <<>>, start |-> 0, next |-> 0, slots |-> 5]
LookStep(t, sep) == [p \in Splitting \X (0 .. Len(t)) |-> LookAt(t, sep, p[1], p[2])]
SplitEnd(t, sep) ==
    FoldLeft(LAMBDA acc, j :
                IF j < acc.next THEN acc
                ELSE IF SubSeq(t, j + 1, j + Len(sep)) = sep
                THEN [tokens |-> Append(acc.tokens, SubSeq(t, acc.start + 1, j)),
                      start |-> j + Len(sep), next |-> j + Len(sep), slots |-> Grown(acc)]
                ELSE [acc EXCEPT !.slots = Grown(acc)],
             NoTokens, LookedAt(t, sep))

LEMMA SplitLenIs ==
    ASSUME NEW t, NEW sep, t # <<>>
    PROVE  SplitLen(t, sep) =
              [tokens |-> Append(SplitEnd(t, sep).tokens,
                                 SubSeq(t, SplitEnd(t, sep).start + 1, Len(t))),
               slots  |-> SplitEnd(t, sep).slots]
  BY DEF SplitLen, SplitEnd, LookedAt, NoTokens

LEMMA LookedAtIs ==
    ASSUME NEW t \in Text, NEW sep \in Text, sep # <<>>
    PROVE  /\ LookedAt(t, sep) \in Seq(0 .. Len(t))
           /\ \A k \in 1 .. Len(LookedAt(t, sep)) :
                 LookedAt(t, sep)[k] = k - 1 /\ k - 1 <= Len(t) - Len(sep)
           /\ Len(LookedAt(t, sep)) >= Len(t) - Len(sep) + 1
<1> DEFINE n == Max({0, LastPlace(Len(t), Len(sep)) + 1})
<1>1. Len(t) \in Nat /\ Len(sep) \in Nat /\ Len(sep) > 0 BY LenProperties, EmptySeq DEF Text
<1>2. LastPlace(Len(t), Len(sep)) + 1 = Len(t) - Len(sep) + 1 BY DEF LastPlace
<1>3. n = IF 0 >= Len(t) - Len(sep) + 1 THEN 0 ELSE Len(t) - Len(sep) + 1
  BY <1>1, <1>2, MaxOfTwo
<1>4. LookedAt(t, sep) = [k \in 1 .. n |-> k - 1] BY DEF LookedAt
<1> HIDE DEF n
<1>5. n \in Nat /\ \A k \in 1 .. n : k - 1 \in 0 .. Len(t) /\ k - 1 <= Len(t) - Len(sep)
  BY <1>1, <1>3
<1>6. LookedAt(t, sep) \in Seq(0 .. Len(t)) /\ Len(LookedAt(t, sep)) = n BY <1>4, <1>5
<1> QED BY <1>1, <1>3, <1>4, <1>5, <1>6

LEMMA PartOf ==
    ASSUME NEW t \in Text, NEW a \in Nat, NEW z \in 0 .. Len(t)
    PROVE  /\ SubSeq(t, a + 1, z) \in Text
           /\ Len(SubSeq(t, a + 1, z)) = IF a <= z THEN z - a ELSE 0
           /\ \A k \in 1 .. z - a : SubSeq(t, a + 1, z)[k] = t[a + k]
<1> DEFINE x == SubSeq(t, a + 1, z)
<1>1. Len(t) \in Nat /\ \A k \in a + 1 .. z : t[k] \in Byte
  BY ElementOfSeq, LenProperties DEF Text
<1>2. /\ x \in Seq(Byte)
      /\ Len(x) = IF a + 1 <= z THEN z - (a + 1) + 1 ELSE 0
      /\ \A k \in 1 .. z - (a + 1) + 1 : x[k] = t[a + 1 + k - 1]
  BY <1>1, SubSeqProperties
<1> HIDE DEF x
<1>3. \A k \in 1 .. z - a : k \in 1 .. z - (a + 1) + 1 /\ a + 1 + k - 1 = a + k BY <1>1
<1>4. x \in Text /\ (\A k \in 1 .. z - a : x[k] = t[a + k])
      /\ Len(x) = IF a <= z THEN z - a ELSE 0
  BY <1>1, <1>2, <1>3 DEF Text
<1> QED BY <1>4 DEF x

LEMMA LookAtTyped ==
    ASSUME NEW t \in Text, NEW sep \in Text, NEW acc \in Splitting, NEW j \in 0 .. Len(t)
    PROVE  LookAt(t, sep, acc, j) \in Splitting
<1> DEFINE x == SubSeq(t, acc.start + 1, j)
<1>1. acc.tokens \in Seq(Text) /\ acc.start \in Nat /\ acc.next \in Nat /\ acc.slots \in Nat
      /\ acc = [tokens |-> acc.tokens, start |-> acc.start, next |-> acc.next,
                slots |-> acc.slots]
  BY DEF Splitting
<1>2. x \in Text BY <1>1, PartOf
<1>3. Len(sep) \in Nat /\ Len(t) \in Nat /\ Len(acc.tokens) \in Nat
  BY <1>1, LenProperties DEF Text
<1>4. Grown(acc) \in Nat BY <1>1, <1>3 DEF Grown
<1> HIDE DEF x
<1>5. Append(acc.tokens, x) \in Seq(Text) BY <1>1, <1>2, AppendProperties
<1>6. j + Len(sep) \in Nat BY <1>3
<1>7. [tokens |-> Append(acc.tokens, x), start |-> j + Len(sep),
       next |-> j + Len(sep), slots |-> Grown(acc)] \in Splitting
  BY <1>4, <1>5, <1>6 DEF Splitting
<1>8. [acc EXCEPT !.slots = Grown(acc)] \in Splitting BY <1>4 DEF Splitting
<1> QED BY <1>7, <1>8 DEF LookAt, x

LEMMA LookStepIs ==
    ASSUME NEW t \in Text, NEW sep \in Text
    PROVE  /\ LookStep(t, sep) \in [Splitting \X (0 .. Len(t)) -> Splitting]
           /\ \A acc \in Splitting, j \in 0 .. Len(t) :
                 LookStep(t, sep)[<<acc, j>>] = LookAt(t, sep, acc, j)
<1>1. \A acc \in Splitting, j \in 0 .. Len(t) : LookAt(t, sep, acc, j) \in Splitting
  BY LookAtTyped
<1> QED BY <1>1 DEF LookStep

LEMMA SplitTrace ==
    ASSUME NEW t \in Text, NEW sep \in Text, sep # <<>>
    PROVE  HasTrace(Splitting, NoTokens, LookStep(t, sep), LookedAt(t, sep), SplitEnd(t, sep))
<1> DEFINE at == LookedAt(t, sep)
           n == Len(at)
           E == 0 .. Len(t)
           step == LookStep(t, sep)
           it == CHOOSE f : f = [u \in SUBSET (1 .. n) |->
                    IF u = {} THEN NoTokens
                    ELSE LookAt(t, sep, f[u \ {Max(u)}], at[Max(u)])]
<1>0. at \in Seq(E) BY LookedAtIs
<1> HIDE DEF E
<1>1. n \in Nat /\ DOMAIN at = 1 .. n BY <1>0, LenProperties
<1>2. SplitEnd(t, sep) = it[1 .. n]
  BY <1>1 DEF SplitEnd, FoldLeft, MapThenFoldSet, LookAt
<1>3. step \in [Splitting \X E -> Splitting]
      /\ \A x \in Splitting, j \in E : step[<<x, j>>] = LookAt(t, sep, x, j)
  BY LookStepIs DEF E
<1> HIDE DEF step, at
<1>4. NoTokens \in Splitting
  <2> DEFINE none == <<>>
  <2>1. none \in Seq(Text) OBVIOUS
  <2> HIDE DEF none
  <2>2. [tokens |-> none, start |-> 0, next |-> 0, slots |-> 5] \in Splitting
    BY <2>1 DEF Splitting
  <2> QED BY <2>2 DEF NoTokens, none
<1>5. Foldable(Splitting, E, NoTokens, step, at) BY <1>0, <1>3, <1>4 DEF Foldable
<1>6. PICK g \in [SUBSET (1 .. n) -> Splitting] :
        /\ IsStepwise(g, NoTokens, step, at)
        /\ \A u \in SUBSET (1 .. n) : u # {} => g[u \ {Max(u)}] \in Splitting /\ at[Max(u)] \in E
  <2>1. HasStepwise(Splitting, E, NoTokens, step, at) BY <1>5, StepwiseExists
  <2> QED BY <2>1, Zenon DEF HasStepwise
<1>7. g = [u \in SUBSET (1 .. n) |->
              IF u = {} THEN NoTokens ELSE LookAt(t, sep, g[u \ {Max(u)}], at[Max(u)])]
  <2>1. \A u \in SUBSET (1 .. n) : u # {} =>
            step[<<g[u \ {Max(u)}], at[Max(u)]>>] = LookAt(t, sep, g[u \ {Max(u)}], at[Max(u)])
    BY <1>3, <1>6
  <2>2. g = [u \in SUBSET (1 .. n) |->
                IF u = {} THEN NoTokens ELSE step[<<g[u \ {Max(u)}], at[Max(u)]>>]]
    BY <1>6 DEF IsStepwise
  <2> QED BY <2>1, <2>2
<1>8. it = [u \in SUBSET (1 .. n) |->
              IF u = {} THEN NoTokens ELSE LookAt(t, sep, it[u \ {Max(u)}], at[Max(u)])]
  BY <1>7, Zenon
<1> HIDE DEF it
<1>9. it[{}] = NoTokens BY <1>8
<1>10. \A u \in SUBSET (1 .. Len(at)) :
          u # {} /\ it[u \ {Max(u)}] \in Splitting /\ at[Max(u)] \in E =>
              it[u] = step[<<it[u \ {Max(u)}], at[Max(u)]>>]
  <2>1. ASSUME NEW u \in SUBSET (1 .. Len(at)), u # {},
               it[u \ {Max(u)}] \in Splitting, at[Max(u)] \in E
        PROVE  it[u] = step[<<it[u \ {Max(u)}], at[Max(u)]>>]
    <3> DEFINE p == it[u \ {Max(u)}]
               e == at[Max(u)]
    <3>1. it[u] = LookAt(t, sep, p, e) BY <1>8, <2>1
    <3>2. p \in Splitting /\ e \in E BY <2>1
    <3> HIDE DEF p, e
    <3>3. step[<<p, e>>] = LookAt(t, sep, p, e) BY <1>3, <3>2
    <3> QED BY <3>1, <3>3 DEF p, e
  <2> QED BY <2>1
<1>11. HasTrace(Splitting, NoTokens, step, at, it[1 .. Len(at)]) BY <1>5, <1>9, <1>10, FoldTrace
<1> QED BY <1>2, <1>11 DEF step, at

\* Where no separator begins, the part in between has none in it.
LEMMA NoneWithin ==
    ASSUME NEW t \in Text, NEW sep \in Text, sep # <<>>, NEW a \in Nat, NEW z \in 0 .. Len(t),
           \A p \in a .. z - Len(sep) : SubSeq(t, p + 1, p + Len(sep)) # sep
    PROVE  ~Within(SubSeq(t, a + 1, z), sep)
<1> DEFINE x == SubSeq(t, a + 1, z)
           l == Len(sep)
<1>1. Len(t) \in Nat /\ l \in Nat /\ l > 0 BY LenProperties, EmptySeq DEF Text
<1>2. x \in Text /\ Len(x) = (IF a <= z THEN z - a ELSE 0) /\ \A k \in 1 .. z - a : x[k] = t[a + k]
  BY PartOf
<1> HIDE DEF x
<1>3. DOMAIN x = 1 .. Len(x) BY <1>2, LenProperties DEF Text
<1>4. ASSUME NEW k \in 1 .. Len(x), IsPrefix(sep, SubSeq(x, k, Len(x))) PROVE FALSE
  <2> DEFINE b == k - 1
             y == SubSeq(x, k, Len(x))
             p == a + b
             w == SubSeq(t, p + 1, p + l)
             head == SubSeq(y, 1, l)
  <2>1. a <= z /\ Len(x) = z - a /\ b \in Nat /\ b + 1 = k /\ p \in Nat /\ k <= z - a
    BY <1>1, <1>2, <1>4
  <2>2. y \in Text /\ Len(y) = z - a - b /\ \A m \in 1 .. z - a - b : y[m] = x[b + m]
    <3> DEFINE n == Len(x)
    <3>1. n \in 0 .. Len(x) /\ n = z - a /\ b <= n /\ y = SubSeq(x, b + 1, n) BY <1>1, <2>1
    <3> HIDE DEF n, b, y
    <3> QED BY <1>2, <2>1, <3>1, PartOf
  <2> HIDE DEF y
  <2>3. l <= Len(y) /\ SubSeq(sep, 1, l) = head BY <1>4 DEF y, IsPrefix
  <2>4. SubSeq(sep, 1, l) = sep BY SubSeqFull DEF Text
  <2>5. head \in Text /\ Len(head) = l /\ \A m \in 1 .. l : head[m] = y[m]
    <3>1. l \in 0 .. Len(y) BY <1>1, <2>1, <2>2, <2>3
    <3> HIDE DEF l
    <3> QED BY <2>2, <3>1, PrefixOf
  <2>6. w \in Text /\ Len(w) = l /\ \A m \in 1 .. l : w[m] = t[p + m]
    <3> DEFINE n == p + l
    <3>1. n \in 0 .. Len(t) /\ n - p = l /\ p <= n BY <1>1, <2>1, <2>2, <2>3
    <3>2. w = SubSeq(t, p + 1, n) OBVIOUS
    <3> HIDE DEF n, p, l, w
    <3> QED BY <2>1, <3>1, <3>2, PartOf
  <2> HIDE DEF head, w
  <2>7. ASSUME NEW m \in 1 .. l PROVE w[m] = sep[m]
    <3>1. m \in 1 .. z - a - b /\ b + m \in 1 .. z - a /\ a + (b + m) = p + m
      BY <1>1, <2>1, <2>2, <2>3
    <3>2. y[m] = x[b + m] /\ x[b + m] = t[a + (b + m)] BY <1>2, <2>2, <3>1
    <3>3. w[m] = t[p + m] /\ head[m] = y[m] BY <2>5, <2>6
    <3> HIDE DEF p, b
    <3> QED BY <2>3, <2>4, <3>1, <3>2, <3>3
  <2>8. w = sep BY <2>6, <2>7, SeqEqual DEF Text
  <2>9. p \in a .. z - l BY <1>1, <2>1, <2>2, <2>3
  <2> QED BY <2>8, <2>9 DEF w
<1>5. ~Within(x, sep) BY <1>3, <1>4 DEF Within
<1> QED BY <1>5 DEF x

\* The tokens are what x was split into, but for a last one.
JoinsAs(sep, toks, x) == \A r \in Text : Joined(sep, Append(toks, r)) = x \o r

\* Behind a separator, all up to its end is in the tokens.
LEMMA JoinedFound ==
    ASSUME NEW t \in Text, NEW sep \in Text, NEW toks \in Seq(Text), NEW a \in Nat,
           NEW j \in Nat, a <= j, j + Len(sep) <= Len(t), SubSeq(t, j + 1, j + Len(sep)) = sep,
           JoinsAs(sep, toks, SubSeq(t, 1, a))
    PROVE  JoinsAs(sep, Append(toks, SubSeq(t, a + 1, j)), SubSeq(t, 1, j + Len(sep)))
<1> DEFINE l == Len(sep)
           z == j + l
           x == SubSeq(t, a + 1, j)
           front == SubSeq(t, 1, a)
           found == SubSeq(t, 1, j)
           more == Append(toks, x)
<1>1. Len(t) \in Nat /\ l \in Nat /\ 1 \in 1 .. Len(t) + 1 BY LenProperties DEF Text
<1>2. a \in 0 .. Len(t) /\ j \in a .. Len(t) /\ j \in 0 .. Len(t) /\ z \in j .. Len(t)
  BY <1>1
<1>3. x \in Text BY <1>2, PartOf
<1>4. front \o x = found
  <2>1. a \in 1 - 1 .. Len(t) BY <1>2
  <2> QED BY <1>1, <1>2, <2>1, ConcatAdjacentSubSeq DEF Text
<1>5. found \o sep = SubSeq(t, 1, z)
  <2>1. j \in 1 - 1 .. Len(t) BY <1>2
  <2> HIDE DEF z
  <2>2. found \o SubSeq(t, j + 1, z) = SubSeq(t, 1, z)
    BY <1>1, <1>2, <2>1, ConcatAdjacentSubSeq DEF Text
  <2> QED BY <2>2 DEF z
<1>6. Joined(sep, more) = found BY <1>3, <1>4 DEF JoinsAs
<1>7. more \in Seq(Text) /\ more # <<>>
  <2> HIDE DEF x
  <2> QED BY <1>3, AppendProperties
<1> HIDE DEF more
<1>8. \A r \in Text : Joined(sep, Append(more, r)) = Joined(sep, more) \o sep \o r
  BY <1>7, JoinedMore
<1> QED BY <1>5, <1>6, <1>8 DEF more, JoinsAs

\* What was found before place i.
SplitUpTo(t, sep, acc, i) ==
    /\ acc \in Splitting /\ acc.next = acc.start /\ acc.start <= Len(t)
    /\ JoinsAs(sep, acc.tokens, SubSeq(t, 1, acc.start))
    /\ \A p \in acc.start .. i - 1 : SubSeq(t, p + 1, p + Len(sep)) # sep
    /\ \A k \in 1 .. Len(acc.tokens) : ~Within(acc.tokens[k], sep)
    /\ Len(acc.tokens) + 1 <= acc.slots

LEMMA SplitBegins ==
    ASSUME NEW t \in Text, NEW sep \in Text
    PROVE  SplitUpTo(t, sep, NoTokens, 0)
<1> DEFINE none == <<>>
           zero == 0
<1>1. none \in Seq(Text) /\ Len(none) = 0 /\ zero = 0 OBVIOUS
<1>2. Len(t) \in Nat BY LenProperties DEF Text
<1>3. ASSUME NEW r \in Text
      PROVE  Joined(sep, Append(none, r)) = SubSeq(t, 1, zero) \o r
  <2>1. Append(none, r) = <<r>> OBVIOUS
  <2>2. Joined(sep, <<r>>) = r BY JoinedOne
  <2>3. SubSeq(t, 1, zero) = <<>> BY <1>1, SubSeqEmpty
  <2>4. <<>> \o r = r BY ConcatEmptySeq DEF Text
  <2> QED BY <2>1, <2>2, <2>3, <2>4
<1>4. NoTokens = [tokens |-> none, start |-> zero, next |-> zero, slots |-> 5]
  BY DEF NoTokens
<1> HIDE DEF none, zero
<1>5. /\ NoTokens.tokens = none /\ NoTokens.start = zero /\ NoTokens.next = zero
      /\ NoTokens.slots = 5 /\ NoTokens \in Splitting
  BY <1>1, <1>4 DEF Splitting
<1> QED BY <1>1, <1>2, <1>3, <1>5 DEF SplitUpTo, JoinsAs

LEMMA SplitMore ==
    ASSUME NEW t \in Text, NEW sep \in Text, sep # <<>>, NEW acc, NEW i \in Nat,
           SplitUpTo(t, sep, acc, i), i + Len(sep) <= Len(t)
    PROVE  SplitUpTo(t, sep, LookAt(t, sep, acc, i), i + 1)
<1> DEFINE toks == acc.tokens
           a == acc.start
           l == Len(sep)
           slots == Grown(acc)
           new == LookAt(t, sep, acc, i)
<1>0. SUFFICES SplitUpTo(t, sep, new, i + 1) OBVIOUS
<1> HIDE DEF new
<1>1. /\ acc \in Splitting /\ acc.next = a /\ a <= Len(t)
      /\ JoinsAs(sep, toks, SubSeq(t, 1, a))
      /\ \A p \in a .. i - 1 : SubSeq(t, p + 1, p + l) # sep
      /\ \A k \in 1 .. Len(toks) : ~Within(toks[k], sep)
      /\ Len(toks) + 1 <= acc.slots
  BY DEF SplitUpTo
<1>2. toks \in Seq(Text) /\ a \in Nat /\ acc.slots \in Nat BY <1>1 DEF Splitting
<1>3. Len(t) \in Nat /\ l \in Nat /\ l > 0 /\ Len(toks) \in Nat
  BY <1>2, LenProperties, EmptySeq DEF Text
<1>4. slots \in Nat /\ Len(toks) + 2 <= slots
  <2> DEFINE n == Len(toks)
             m == acc.slots
  <2>1. n \in Nat /\ m \in Nat /\ n + 1 <= m BY <1>1, <1>2, <1>3
  <2>2. slots = IF m < n + 2 THEN 2 * m ELSE m BY DEF Grown
  <2> HIDE DEF n, m, slots
  <2>3. slots \in Nat /\ n + 2 <= slots BY <2>1, <2>2
  <2> QED BY <2>3 DEF n
<1>5. CASE i < acc.next
  <2>1. new = acc BY <1>5 DEF LookAt, new
  <2>2. \A p \in a .. (i + 1) - 1 : FALSE
    <3>1. i < a /\ a \in Nat BY <1>1, <1>2, <1>5
    <3> HIDE DEF a
    <3> QED BY <3>1
  <2>3. SplitUpTo(t, sep, acc, i + 1) BY <1>1, <2>2, Zenon DEF SplitUpTo
  <2> QED BY <2>1, <2>3
<1>6. CASE ~(i < acc.next) /\ SubSeq(t, i + 1, i + l) = sep
  <2> DEFINE x == SubSeq(t, a + 1, i)
             more == Append(toks, x)
             z == i + l
  <2>1. a <= i /\ i \in 0 .. Len(t) /\ z \in Nat /\ z <= Len(t) BY <1>1, <1>2, <1>3, <1>6
  <2>2. new = [tokens |-> more, start |-> z, next |-> z, slots |-> slots]
    BY <1>6 DEF LookAt, new
  <2>3. x \in Text BY <1>2, <2>1, PartOf
  <2>4. JoinsAs(sep, more, SubSeq(t, 1, z))
    <3> HIDE DEF toks, a
    <3> QED BY <1>1, <1>2, <1>6, <2>1, JoinedFound
  <2>5. ~Within(x, sep)
    <3>1. \A p \in a .. i - l : p \in a .. i - 1 BY <1>2, <1>3
    <3>2. \A p \in a .. i - l : SubSeq(t, p + 1, p + l) # sep BY <1>1, <3>1
    <3> HIDE DEF l
    <3> QED BY <1>2, <2>1, <3>2, NoneWithin DEF l
  <2> HIDE DEF x, slots, z
  <2>6. /\ more \in Seq(Text) /\ Len(more) = Len(toks) + 1 /\ more[Len(toks) + 1] = x
        /\ \A k \in 1 .. Len(toks) : more[k] = toks[k]
    BY <1>2, <2>3, AppendProperties
  <2>7. \A k \in 1 .. Len(more) : ~Within(more[k], sep)
    <3>1. \A k \in 1 .. Len(more) : k \in 1 .. Len(toks) \/ k = Len(toks) + 1
      BY <1>3, <2>6
    <3> HIDE DEF more
    <3> QED BY <1>1, <2>5, <2>6, <3>1
  <2> HIDE DEF more
  <2>8. new \in Splitting /\ new.tokens = more /\ new.start = z /\ new.next = z
        /\ new.slots = slots
    BY <1>4, <2>1, <2>2, <2>6 DEF Splitting
  <2>9. \A p \in z .. (i + 1) - 1 : FALSE BY <1>3, <2>1 DEF z
  <2>10. Len(more) + 1 <= slots BY <1>3, <1>4, <2>6
  <2>11. JoinsAs(sep, new.tokens, SubSeq(t, 1, new.start)) BY <2>4, <2>8, Zenon
  <2>12. /\ \A p \in new.start .. (i + 1) - 1 : SubSeq(t, p + 1, p + l) # sep
         /\ \A k \in 1 .. Len(new.tokens) : ~Within(new.tokens[k], sep)
         /\ new.next = new.start /\ new.start <= Len(t)
         /\ Len(new.tokens) + 1 <= new.slots
    BY <2>1, <2>7, <2>8, <2>9, <2>10, Zenon
  <2> QED BY <2>8, <2>11, <2>12, Zenon DEF SplitUpTo
<1>7. CASE ~(i < acc.next) /\ SubSeq(t, i + 1, i + l) # sep
  <2>1. new = [acc EXCEPT !.slots = slots] BY <1>7 DEF LookAt, new
  <2> HIDE DEF slots
  <2>2. new \in Splitting /\ new.tokens = toks /\ new.start = a /\ new.next = a
        /\ new.slots = slots
    BY <1>1, <1>4, <2>1 DEF Splitting
  <2>3. \A p \in a .. (i + 1) - 1 : p \in a .. i - 1 \/ p = i BY <1>2
  <2>4. \A p \in a .. (i + 1) - 1 : SubSeq(t, p + 1, p + l) # sep BY <1>1, <1>7, <2>3
  <2>5. Len(toks) + 1 <= slots BY <1>3, <1>4
  <2>6. JoinsAs(sep, new.tokens, SubSeq(t, 1, new.start)) BY <1>1, <2>2, Zenon
  <2>7. /\ \A p \in new.start .. (i + 1) - 1 : SubSeq(t, p + 1, p + l) # sep
        /\ \A k \in 1 .. Len(new.tokens) : ~Within(new.tokens[k], sep)
        /\ new.next = new.start /\ new.start <= Len(t)
        /\ Len(new.tokens) + 1 <= new.slots
    BY <1>1, <2>2, <2>4, <2>5, Zenon
  <2> QED BY <2>2, <2>6, <2>7, Zenon DEF SplitUpTo
<1> QED BY <1>5, <1>6, <1>7

LEMMA SplitEnds ==
    ASSUME NEW t \in Text, NEW sep \in Text, sep # <<>>
    PROVE  \E n \in Nat : SplitUpTo(t, sep, SplitEnd(t, sep), n) /\ n >= Len(t) - Len(sep) + 1
<1> DEFINE at == LookedAt(t, sep)
           n == Len(at)
           step == LookStep(t, sep)
           end == SplitEnd(t, sep)
<1>1. /\ at \in Seq(0 .. Len(t)) /\ n >= Len(t) - Len(sep) + 1
      /\ \A k \in 1 .. n : at[k] = k - 1 /\ k - 1 <= Len(t) - Len(sep)
  BY LookedAtIs
<1>2. PICK r \in [0 .. n -> Splitting] : IsTrace(r, NoTokens, step, at) /\ r[n] = end
  <2>1. HasTrace(Splitting, NoTokens, step, at, end) BY SplitTrace
  <2> HIDE DEF step, at, end
  <2> QED BY <2>1, Zenon DEF HasTrace
<1>3. \A acc \in Splitting, j \in 0 .. Len(t) : step[<<acc, j>>] = LookAt(t, sep, acc, j)
  BY LookStepIs
<1>4. n \in Nat /\ Len(t) \in Nat /\ Len(sep) \in Nat BY <1>1, LenProperties DEF Text
<1> HIDE DEF at, step, end
<1>5. r[0] = NoTokens /\ \A k \in 1 .. n : r[k] = step[<<r[k - 1], at[k]>>] BY <1>2 DEF IsTrace
<1> DEFINE T == {k \in Nat : k <= n /\ ~SplitUpTo(t, sep, r[k], k)}
<1>6. ASSUME T # {} PROVE FALSE
  <2>1. PICK k \in T : \A y \in T : k <= y BY <1>6, Least
  <2>2. k # 0 BY <1>5, <2>1, SplitBegins
  <2> DEFINE i == k - 1
  <2>3. k \in 1 .. n /\ i \in Nat /\ i \in 0 .. n /\ i \notin T /\ i + 1 = k BY <1>4, <2>1, <2>2
  <2>4. at[k] = i /\ i \in 0 .. Len(t) /\ i + Len(sep) <= Len(t) BY <1>1, <1>4, <2>3
  <2>5. r[k] = step[<<r[i], i>>] BY <1>5, <2>3, <2>4
  <2> HIDE DEF i
  <2>6. r[k] = LookAt(t, sep, r[i], i) BY <1>2, <1>3, <2>3, <2>4, <2>5
  <2>7. SplitUpTo(t, sep, r[i], i) BY <1>4, <2>3
  <2>8. SplitUpTo(t, sep, r[k], i + 1) BY <2>3, <2>4, <2>6, <2>7, SplitMore
  <2> QED BY <2>1, <2>3, <2>8
<1>7. SplitUpTo(t, sep, r[n], n) BY <1>4, <1>6
<1>8. SplitUpTo(t, sep, end, n) /\ n >= Len(t) - Len(sep) + 1 BY <1>1, <1>2, <1>7
<1> HIDE DEF n
<1> QED BY <1>4, <1>8 DEF end

LEMMA SplitIs ==
    ASSUME NEW t \in Text, t # <<>>, NEW sep \in Text, sep # <<>>
    PROVE  LET parts == SplitLen(t, sep)
           IN  /\ Joined(sep, parts.tokens) = t
               /\ \A k \in DOMAIN parts.tokens : ~Within(parts.tokens[k], sep)
               /\ Len(parts.tokens) <= parts.slots
<1> DEFINE end == SplitEnd(t, sep)
           toks == end.tokens
           a == end.start
           z == Len(t)
           x == SubSeq(t, a + 1, z)
           more == Append(toks, x)
           parts == SplitLen(t, sep)
<1>1. parts = [tokens |-> more, slots |-> end.slots] BY SplitLenIs
<1>2. parts.tokens = more /\ parts.slots = end.slots
  <2> HIDE DEF parts, more, end
  <2> QED BY <1>1
<1>3. PICK n \in Nat : SplitUpTo(t, sep, end, n) /\ n >= Len(t) - Len(sep) + 1 BY SplitEnds
<1>4. /\ end \in Splitting /\ a <= Len(t)
      /\ JoinsAs(sep, toks, SubSeq(t, 1, a))
      /\ \A p \in a .. n - 1 : SubSeq(t, p + 1, p + Len(sep)) # sep
      /\ \A k \in 1 .. Len(toks) : ~Within(toks[k], sep)
      /\ Len(toks) + 1 <= end.slots
  BY <1>3 DEF SplitUpTo
<1>5. toks \in Seq(Text) /\ a \in Nat BY <1>4 DEF Splitting
<1>6. Len(t) \in Nat /\ Len(sep) \in Nat /\ Len(toks) \in Nat /\ 1 \in 1 .. Len(t) + 1
      /\ z \in 0 .. Len(t) /\ a \in 1 - 1 .. Len(t) /\ z \in a .. Len(t)
  BY <1>4, <1>5, LenProperties DEF Text
<1>7. x \in Text BY <1>5, <1>6, PartOf
<1>8. ~Within(x, sep)
  <2>1. \A p \in a .. z - Len(sep) : p \in a .. n - 1 BY <1>3, <1>5, <1>6
  <2>2. \A p \in a .. z - Len(sep) : SubSeq(t, p + 1, p + Len(sep)) # sep BY <1>4, <2>1
  <2> HIDE DEF a, z
  <2> QED BY <1>5, <1>6, <2>2, NoneWithin
<1>9. SubSeq(t, 1, a) \o x = t
  <2> HIDE DEF a
  <2>1. SubSeq(t, 1, a) \o x = SubSeq(t, 1, z) BY <1>6, ConcatAdjacentSubSeq DEF Text
  <2> QED BY <2>1, SubSeqFull DEF Text
<1>10. Joined(sep, more) = t BY <1>4, <1>7, <1>9 DEF JoinsAs
<1> HIDE DEF end, x, parts
<1>11. /\ more \in Seq(Text) /\ Len(more) = Len(toks) + 1 /\ more[Len(toks) + 1] = x
       /\ \A k \in 1 .. Len(toks) : more[k] = toks[k]
  BY <1>5, <1>7, AppendProperties
<1>12. DOMAIN more = 1 .. Len(more)
  <2> HIDE DEF more
  <2> QED BY <1>11, LenProperties
<1>13. \A k \in DOMAIN more : k \in 1 .. Len(toks) \/ k = Len(toks) + 1
  <2> HIDE DEF more
  <2> QED BY <1>6, <1>11, <1>12
<1> HIDE DEF more
<1>14. \A k \in DOMAIN more : ~Within(more[k], sep) BY <1>4, <1>8, <1>11, <1>13
<1>15. Len(more) <= end.slots BY <1>4, <1>11
<1> QED BY <1>2, <1>10, <1>14, <1>15 DEF parts

LEMMA StringsSplit == ASSUME s \in SoundStrings PROVE SplitsBack
<1>1. ASSUME s.len > 0, NEW sep \in Separators
      PROVE  LET parts == SplitLen(Str(s), sep)
             IN  /\ FoldLeft(LAMBDA acc, tok : acc \o sep \o tok,
                             Head(parts.tokens), Tail(parts.tokens)) = Str(s)
                 /\ \A k \in DOMAIN parts.tokens : ~Within(parts.tokens[k], sep)
                 /\ Len(parts.tokens) <= parts.slots
  <2> DEFINE t == Str(s)
             parts == SplitLen(t, sep)
  <2>1. t \in Text /\ t # <<>>
    <3>1. t \in Text /\ Len(t) = s.len BY StringsAre, StrOf
    <3>2. Len(<<>>) = 0 OBVIOUS
    <3> HIDE DEF t
    <3> QED BY <1>1, <3>1, <3>2
  <2>2. sep \in Text /\ sep # <<>> BY CharsAreText, SdsAssumption
  <2> HIDE DEF t
  <2>3. /\ Joined(sep, parts.tokens) = t
        /\ \A k \in DOMAIN parts.tokens : ~Within(parts.tokens[k], sep)
        /\ Len(parts.tokens) <= parts.slots
    BY <2>1, <2>2, SplitIs
  <2> HIDE DEF parts
  <2>4. FoldLeft(LAMBDA acc, tok : acc \o sep \o tok,
                 Head(parts.tokens), Tail(parts.tokens)) = t
    BY <2>3 DEF Joined
  <2> QED BY <2>3, <2>4 DEF parts, t
<1> QED BY <1>1 DEF SplitsBack

\* SplitsBack: sdssplitlen finds every separator of any string once, from the
\* left, so that its tokens joined by the separator are the string again, and it
\* never writes more tokens than it has made slots for.
THEOREM TokensSplitBack == Spec => []SplitsBack
<1>1. Init => s \in SoundStrings BY InitString
<1>2. s \in SoundStrings /\ [Next]_s => (s \in SoundStrings)' BY NextString
<1>3. s \in SoundStrings => SplitsBack BY StringsSplit
<1> QED BY <1>1, <1>2, <1>3, PTL DEF Spec

-----------------------------------------------------------------------------
(***************************************************************************)
(* Reading arguments.                                                      *)
(***************************************************************************)
ArgPlace == {"blank", "word", "quotes", "escape", "closed", "end", "err"}
ArgState == [in : ArgPlace, cur : Text, argv : Seq(Text)]
ArgAt(in, cur, argv) == [in |-> in, cur |-> cur, argv |-> argv]
ArgStart == ArgAt("blank", <<>>, <<>>)
ArgStep  == [p \in ArgState \X Byte |-> ArgChar(p[1], p[2])]
ArgsOf(t) == FoldLeft(ArgChar, ArgStart, t)

LEMMA ArgStateIs ==
    ASSUME NEW in \in ArgPlace, NEW cur \in Text, NEW argv \in Seq(Text)
    PROVE  ArgAt(in, cur, argv) \in ArgState
  BY DEF ArgAt, ArgState

LEMMA ArgAtIs ==
    ASSUME NEW acc \in ArgState
    PROVE  /\ acc.in \in ArgPlace /\ acc.cur \in Text /\ acc.argv \in Seq(Text)
           /\ acc = ArgAt(acc.in, acc.cur, acc.argv)
  BY DEF ArgState, ArgAt

\* What a byte does in each place.
LEMMA UnquotedEnds ==
    ASSUME NEW cur, NEW argv, NEW c \in {Space, NL, NUL}
    PROVE  ArgChar(ArgAt("word", cur, argv), c)
               = ArgAt(IF c = NUL THEN "end" ELSE "blank", <<>>, Append(argv, cur))
  BY DEF ArgChar, ArgAt, Space, NL, NUL, Quote

LEMMA UnquotedReads ==
    ASSUME NEW cur, NEW argv, NEW c, c \notin {Space, NL, NUL, Quote}, NEW in \in {"word", "blank"}
    PROVE  ArgChar(ArgAt(in, cur, argv), c) = ArgAt("word", Append(cur, c), argv)
<1>1. CASE in = "word" BY <1>1 DEF ArgChar, ArgAt
<1>2. CASE in = "blank" BY <1>2 DEF ArgChar, ArgAt, IsSpace
<1> QED BY <1>1, <1>2

LEMMA QuoteOpens ==
    ASSUME NEW cur, NEW argv, NEW in \in {"word", "blank"}
    PROVE  ArgChar(ArgAt(in, cur, argv), Quote) = ArgAt("quotes", cur, argv)
<1>1. Quote \notin {Space, NL, NUL} BY DEF Quote, Space, NL, NUL
<1>2. CASE in = "word" BY <1>1, <1>2 DEF ArgChar, ArgAt
<1>3. CASE in = "blank" BY <1>1, <1>3 DEF ArgChar, ArgAt, IsSpace
<1> QED BY <1>2, <1>3

LEMMA BlankStays ==
    ASSUME NEW cur, NEW argv, NEW c \in {Space, NL, NUL}
    PROVE  ArgChar(ArgAt("blank", cur, argv), c)
               = ArgAt(IF c = NUL THEN "end" ELSE "blank", cur, argv)
  BY DEF ArgChar, ArgAt, IsSpace

LEMMA InQuotes ==
    ASSUME NEW cur, NEW argv, NEW c
    PROVE  ArgChar(ArgAt("quotes", cur, argv), c)
               = ArgAt(CASE c = Slash -> "escape" [] c = Quote -> "closed" [] c = NUL -> "err"
                         [] OTHER -> "quotes",
                       IF c \in {Slash, Quote, NUL} THEN cur ELSE Append(cur, c), argv)
<1>1. Slash # Quote /\ Slash # NUL /\ Quote # NUL BY DEF Slash, Quote, NUL
<1>2. CASE c = Slash BY <1>1, <1>2 DEF ArgChar, ArgAt
<1>3. CASE c = Quote BY <1>1, <1>3 DEF ArgChar, ArgAt
<1>4. CASE c = NUL BY <1>1, <1>4 DEF ArgChar, ArgAt
<1>5. CASE c \notin {Slash, Quote, NUL} BY <1>5 DEF ArgChar, ArgAt
<1> QED BY <1>2, <1>3, <1>4, <1>5

LEMMA Escaping ==
    ASSUME NEW cur, NEW argv, NEW c
    PROVE  ArgChar(ArgAt("escape", cur, argv), c)
               = IF c = NUL THEN ArgAt("err", cur, argv)
                 ELSE ArgAt("quotes", Append(cur, Unescaped(c)), argv)
<1>1. CASE c = NUL BY <1>1 DEF ArgChar, ArgAt
<1>2. CASE c # NUL
  <2> DEFINE x == Unescaped(c)
             acc == ArgAt("escape", cur, argv)
  <2> HIDE DEF x
  <2>1. acc = [in |-> "escape", cur |-> cur, argv |-> argv] BY DEF ArgAt
  <2>2. acc.in = "escape" BY <2>1
  <2> HIDE DEF acc
  <2>3. ArgChar(acc, c) = [acc EXCEPT !.in = "quotes", !.cur = Append(@, x)]
    BY <1>2, <2>2 DEF ArgChar, x
  <2>4. ArgChar(acc, c) = [in |-> "quotes", cur |-> Append(cur, x), argv |-> argv]
    BY <2>1, <2>3
  <2> QED BY <1>2, <2>4 DEF ArgAt, acc, x
<1> QED BY <1>1, <1>2

LEMMA QuoteCloses ==
    ASSUME NEW cur, NEW argv, NEW c
    PROVE  ArgChar(ArgAt("closed", cur, argv), c)
               = IF c \in {Space, NL, NUL}
                 THEN ArgAt(IF c = NUL THEN "end" ELSE "blank", <<>>, Append(argv, cur))
                 ELSE ArgAt("err", cur, argv)
  BY DEF ArgChar, ArgAt, IsSpace

LEMMA ArgStops ==
    ASSUME NEW cur, NEW argv, NEW c, NEW in \in {"end", "err"}
    PROVE  ArgChar(ArgAt(in, cur, argv), c) = ArgAt(in, cur, argv)
  BY DEF ArgChar, ArgAt

LEMMA ArgCharTyped ==
    ASSUME NEW acc \in ArgState, NEW c \in Byte
    PROVE  ArgChar(acc, c) \in ArgState
<1> DEFINE cur == acc.cur
           argv == acc.argv
           none == <<>>
           in == acc.in
           more == Append(cur, c)
           ended == Append(argv, cur)
           unescaped == Append(cur, Unescaped(c))
<1>1. in \in ArgPlace /\ cur \in Text /\ argv \in Seq(Text) /\ acc = ArgAt(in, cur, argv)
  BY ArgAtIs
<1>2. none \in Text BY DEF Text
<1>3. more \in Text /\ ended \in Seq(Text) /\ unescaped \in Text
  <2>1. Unescaped(c) \in Byte BY DEF Unescaped, Byte, Chars
  <2> HIDE DEF cur, argv
  <2> QED BY <1>1, <2>1, AppendProperties DEF Text
<1> HIDE DEF cur, argv, none, in, more, ended, unescaped
<1>4. \A p \in ArgPlace : /\ ArgAt(p, cur, argv) \in ArgState
                          /\ ArgAt(p, more, argv) \in ArgState
                          /\ ArgAt(p, none, ended) \in ArgState
                          /\ ArgAt(p, unescaped, argv) \in ArgState
  BY <1>1, <1>2, <1>3, ArgStateIs
<1>5. /\ "blank" \in ArgPlace /\ "word" \in ArgPlace /\ "quotes" \in ArgPlace
      /\ "escape" \in ArgPlace /\ "closed" \in ArgPlace /\ "end" \in ArgPlace
      /\ "err" \in ArgPlace /\ (IF c = NUL THEN "end" ELSE "blank") \in ArgPlace
  BY DEF ArgPlace
<1>6. CASE in = "word" /\ c \in {Space, NL, NUL}
  <2>1. ArgChar(acc, c) = ArgAt(IF c = NUL THEN "end" ELSE "blank", none, ended)
    BY <1>1, <1>6, UnquotedEnds DEF none, ended
  <2> QED BY <1>4, <1>5, <2>1
<1>7. CASE in \in {"word", "blank"} /\ c \notin {Space, NL, NUL, Quote}
  <2>1. ArgChar(acc, c) = ArgAt("word", more, argv) BY <1>1, <1>7, UnquotedReads DEF more
  <2> QED BY <1>4, <1>5, <2>1
<1>8. CASE in \in {"word", "blank"} /\ c = Quote
  <2>1. ArgChar(acc, c) = ArgAt("quotes", cur, argv) BY <1>1, <1>8, QuoteOpens
  <2> QED BY <1>4, <1>5, <2>1
<1>9. CASE in = "blank" /\ c \in {Space, NL, NUL}
  <2>1. ArgChar(acc, c) = ArgAt(IF c = NUL THEN "end" ELSE "blank", cur, argv)
    BY <1>1, <1>9, BlankStays
  <2> QED BY <1>4, <1>5, <2>1
<1>10. CASE in = "quotes"
  <2> DEFINE p == CASE c = Slash -> "escape" [] c = Quote -> "closed" [] c = NUL -> "err"
                    [] OTHER -> "quotes"
  <2>1. p \in ArgPlace
    <3>1. CASE c = Slash BY <3>1, <1>5 DEF Slash, Quote, NUL
    <3>2. CASE c = Quote BY <3>2, <1>5 DEF Slash, Quote, NUL
    <3>3. CASE c = NUL BY <3>3, <1>5 DEF Slash, Quote, NUL
    <3>4. CASE c \notin {Slash, Quote, NUL} BY <3>4, <1>5
    <3> QED BY <3>1, <3>2, <3>3, <3>4
  <2>2. ArgChar(acc, c) = ArgAt(p, IF c \in {Slash, Quote, NUL} THEN cur ELSE more, argv)
    BY <1>1, <1>10, InQuotes DEF more
  <2> HIDE DEF p
  <2>3. CASE c \in {Slash, Quote, NUL} BY <1>4, <2>1, <2>2, <2>3
  <2>4. CASE c \notin {Slash, Quote, NUL} BY <1>4, <2>1, <2>2, <2>4
  <2> QED BY <2>3, <2>4
<1>11. CASE in = "escape"
  <2>1. ArgChar(acc, c) = IF c = NUL THEN ArgAt("err", cur, argv)
                          ELSE ArgAt("quotes", unescaped, argv)
    BY <1>1, <1>11, Escaping DEF unescaped
  <2> QED BY <1>4, <1>5, <2>1
<1>12. CASE in = "closed"
  <2>1. ArgChar(acc, c) = IF c \in {Space, NL, NUL}
                          THEN ArgAt(IF c = NUL THEN "end" ELSE "blank", none, ended)
                          ELSE ArgAt("err", cur, argv)
    BY <1>1, <1>12, QuoteCloses DEF none, ended
  <2> QED BY <1>4, <1>5, <2>1
<1>13. CASE in \in {"end", "err"}
  <2>1. ArgChar(acc, c) = ArgAt(in, cur, argv) BY <1>1, <1>13, ArgStops
  <2> QED BY <1>1, <1>4, <2>1
<1> QED BY <1>1, <1>6, <1>7, <1>8, <1>9, <1>10, <1>11, <1>12, <1>13 DEF ArgPlace

LEMMA ArgStepIs ==
    /\ ArgStep \in [ArgState \X Byte -> ArgState]
    /\ \A acc \in ArgState, c \in Byte : ArgStep[<<acc, c>>] = ArgChar(acc, c)
  BY ArgCharTyped DEF ArgStep

\* From place p, the bytes x lead to place q.
ArgLeads(p, x, q) == Leads(ArgState, Byte, ArgStep, p, x, q)

LEMMA ArgStarts == ArgStart \in ArgState
<1> DEFINE none == <<>>
<1>1. none \in Text /\ none \in Seq(Text) /\ "blank" \in ArgPlace BY DEF Text, ArgPlace
<1> HIDE DEF none
<1>2. ArgAt("blank", none, none) \in ArgState BY <1>1, ArgStateIs
<1> QED BY <1>2 DEF ArgStart, none

LEMMA ArgsTrace ==
    ASSUME NEW b \in Text
    PROVE  ArgLeads(ArgStart, b, ArgsOf(b))
<1> DEFINE n == Len(b)
           it == CHOOSE f : f = [u \in SUBSET (1 .. n) |->
                    IF u = {} THEN ArgStart ELSE ArgChar(f[u \ {Max(u)}], b[Max(u)])]
<1>1. n \in Nat /\ DOMAIN b = 1 .. n BY LenProperties DEF Text
<1>2. ArgsOf(b) = it[1 .. n] BY <1>1 DEF ArgsOf, FoldLeft, MapThenFoldSet
<1>3. Foldable(ArgState, Byte, ArgStart, ArgStep, b) BY ArgStarts, ArgStepIs DEF Foldable, Text
<1>4. PICK g \in [SUBSET (1 .. n) -> ArgState] :
        /\ IsStepwise(g, ArgStart, ArgStep, b)
        /\ \A u \in SUBSET (1 .. n) : u # {} => g[u \ {Max(u)}] \in ArgState /\ b[Max(u)] \in Byte
  <2>1. HasStepwise(ArgState, Byte, ArgStart, ArgStep, b) BY <1>3, StepwiseExists
  <2> QED BY <2>1, Zenon DEF HasStepwise
<1>5. g = [u \in SUBSET (1 .. n) |->
              IF u = {} THEN ArgStart ELSE ArgChar(g[u \ {Max(u)}], b[Max(u)])]
  BY <1>4, ArgStepIs DEF IsStepwise
<1>6. it = [u \in SUBSET (1 .. n) |->
              IF u = {} THEN ArgStart ELSE ArgChar(it[u \ {Max(u)}], b[Max(u)])]
  BY <1>5, Zenon
<1> HIDE DEF it
<1>7. it[{}] = ArgStart BY <1>6
<1>8. \A u \in SUBSET (1 .. Len(b)) :
          u # {} /\ it[u \ {Max(u)}] \in ArgState /\ b[Max(u)] \in Byte =>
              it[u] = ArgStep[<<it[u \ {Max(u)}], b[Max(u)]>>]
  <2>1. ASSUME NEW u \in SUBSET (1 .. Len(b)), u # {},
               it[u \ {Max(u)}] \in ArgState, b[Max(u)] \in Byte
        PROVE  it[u] = ArgStep[<<it[u \ {Max(u)}], b[Max(u)]>>]
    <3> DEFINE p == it[u \ {Max(u)}]
               e == b[Max(u)]
    <3>1. it[u] = ArgChar(p, e) BY <1>6, <2>1
    <3>2. p \in ArgState /\ e \in Byte BY <2>1
    <3> HIDE DEF p, e
    <3>3. ArgStep[<<p, e>>] = ArgChar(p, e) BY <3>2, ArgStepIs
    <3> QED BY <3>1, <3>3 DEF p, e
  <2> QED BY <2>1
<1>9. HasTrace(ArgState, ArgStart, ArgStep, b, it[1 .. Len(b)]) BY <1>3, <1>7, <1>8, FoldTrace
<1> QED BY <1>2, <1>9 DEF ArgLeads, Leads, Text

\* How such readings are put together.
LEMMA ArgByte ==
    ASSUME NEW in \in ArgPlace, NEW cur \in Text, NEW argv \in Seq(Text), NEW c \in Byte
    PROVE  ArgLeads(ArgAt(in, cur, argv), <<c>>, ArgChar(ArgAt(in, cur, argv), c))
<1> DEFINE acc == ArgAt(in, cur, argv)
<1>1. acc \in ArgState BY ArgStateIs
<1> HIDE DEF acc
<1>2. ArgStep \in [ArgState \X Byte -> ArgState] /\ ArgStep[<<acc, c>>] = ArgChar(acc, c)
  BY <1>1, ArgStepIs
<1>3. Leads(ArgState, Byte, ArgStep, acc, <<c>>, ArgStep[<<acc, c>>]) BY <1>1, <1>2, LeadsOne
<1> QED BY <1>2, <1>3 DEF ArgLeads, acc

LEMMA ArgConcat ==
    ASSUME NEW p, NEW x, NEW q, NEW y, NEW z, ArgLeads(p, x, q), ArgLeads(q, y, z)
    PROVE  ArgLeads(p, x \o y, z)
<1>1. Leads(ArgState, Byte, ArgStep, p, x, q) /\ Leads(ArgState, Byte, ArgStep, q, y, z)
  BY DEF ArgLeads
<1>2. Leads(ArgState, Byte, ArgStep, p, x \o y, z) BY <1>1, LeadsConcat
<1> QED BY <1>2 DEF ArgLeads

-----------------------------------------------------------------------------
(***************************************************************************)
(* What was quoted is read back.                                           *)
(***************************************************************************)
\* No byte is NUL.
Plain(x) == \A k \in 1 .. Len(x) : x[k] # NUL

LEMMA PlainConcat ==
    ASSUME NEW x \in Text, NEW y \in Text, Plain(x), Plain(y)
    PROVE  x \o y \in Text /\ Plain(x \o y)
<1> DEFINE m == Len(x)
           n == Len(y)
           c == x \o y
<1>1. c \in Text /\ IsConcat(c, x, y) /\ m \in Nat /\ n \in Nat
  BY ConcatIs, LenProperties DEF Text
<1> HIDE DEF c
<1>2. Len(c) = m + n /\ (\A k \in 1 .. m : c[k] = x[k]) /\ \A k \in 1 .. n : c[m + k] = y[k]
  BY <1>1 DEF IsConcat
<1>3. ASSUME NEW k \in 1 .. Len(c) PROVE c[k] # NUL
  <2>1. CASE k <= m
    <3>1. k \in 1 .. m BY <1>1, <1>2, <2>1
    <3> QED BY <1>2, <3>1 DEF Plain
  <2>2. CASE k > m
    <3>1. k - m \in 1 .. n /\ m + (k - m) = k BY <1>1, <1>2, <2>2
    <3>2. c[m + (k - m)] = y[k - m] BY <1>2, <3>1
    <3> QED BY <3>1, <3>2 DEF Plain
  <2> QED BY <1>1, <1>2, <2>1, <2>2
<1> QED BY <1>1, <1>3 DEF Plain, c

LEMMA PlainOne ==
    ASSUME NEW c \in Byte, c # NUL PROVE <<c>> \in Text /\ Plain(<<c>>)
  BY DEF Text, Plain

LEMMA ArgGoes ==
    ASSUME NEW in \in ArgPlace, NEW cur \in Text, NEW argv \in Seq(Text), NEW c \in Byte,
           NEW q, ArgChar(ArgAt(in, cur, argv), c) = q
    PROVE  ArgLeads(ArgAt(in, cur, argv), <<c>>, q)
  BY ArgByte

\* What sdscatrepr makes of a printable byte.
Escaped(c) == IF c \in {Slash, Quote} THEN <<Slash, c>> ELSE <<c>>

LEMMA EscapedIs ==
    ASSUME NEW c \in Chars, IsPrint(c)
    PROVE  Escaped(c) \in Text /\ Plain(Escaped(c)) /\ CString(Escaped(c)) = Escaped(c)
<1>1. c \in Byte /\ c # NUL /\ Slash \in Byte /\ Slash # NUL
  BY DEF IsPrint, Byte, Chars, NUL, Slash
<1>2. /\ <<c>> \in Text /\ Plain(<<c>>) /\ <<Slash>> \in Text /\ Plain(<<Slash>>)
  BY <1>1, PlainOne
<1>3. <<Slash>> \o <<c>> \in Text /\ Plain(<<Slash>> \o <<c>>) BY <1>2, PlainConcat
<1>4. <<Slash>> \o <<c>> = <<Slash, c>> BY <1>1, ListsOf
<1>5. Escaped(c) \in Text /\ Plain(Escaped(c)) BY <1>2, <1>3, <1>4 DEF Escaped
<1> QED BY <1>5, NoNul DEF Plain

LEMMA EscapedReads ==
    ASSUME NEW c \in Chars, IsPrint(c), NEW w \in Text, NEW argv \in Seq(Text)
    PROVE  ArgLeads(ArgAt("quotes", w, argv), Escaped(c), ArgAt("quotes", Append(w, c), argv))
<1> DEFINE p == ArgAt("quotes", w, argv)
           e == ArgAt("escape", w, argv)
           q == ArgAt("quotes", Append(w, c), argv)
<1>1. c \in Byte /\ c # NUL /\ Slash \in Byte /\ "quotes" \in ArgPlace /\ "escape" \in ArgPlace
  BY DEF IsPrint, Byte, Chars, NUL, Slash, ArgPlace
<1>2. CASE c \in {Slash, Quote}
  <2>1. ArgChar(p, Slash) = e BY InQuotes DEF Slash, Quote, NUL
  <2>2. ArgLeads(p, <<Slash>>, e) BY <1>1, <2>1, ArgGoes
  <2>3. Unescaped(c) = c BY <1>2 DEF Unescaped, Slash, Quote
  <2>4. ArgChar(e, c) = q BY <1>1, <2>3, Escaping
  <2>5. ArgLeads(e, <<c>>, q) BY <1>1, <2>4, ArgGoes
  <2> HIDE DEF p, e, q
  <2>6. ArgLeads(p, <<Slash>> \o <<c>>, q) BY <2>2, <2>5, ArgConcat
  <2>7. <<Slash>> \o <<c>> = Escaped(c) BY <1>1, <1>2, ListsOf DEF Escaped
  <2> QED BY <2>6, <2>7 DEF p, q
<1>3. CASE c \notin {Slash, Quote}
  <2>1. ArgChar(p, c) = q BY <1>1, <1>3, InQuotes
  <2>2. ArgLeads(p, <<c>>, q) BY <1>1, <2>1, ArgGoes
  <2> QED BY <1>3, <2>2 DEF Escaped
<1> QED BY <1>2, <1>3

LEMMA ReprCharIs ==
    ASSUME NEW sh \in SoundStrings, NEW c \in Chars, IsPrint(c), sh.len + 2 <= IntMax
    PROVE  /\ ReprChar(sh, c) \in SoundStrings /\ ReprChar(sh, c).len <= sh.len + 2
           /\ Str(ReprChar(sh, c)) = Str(sh) \o Escaped(c)
<1>1. ReprChar(sh, c) = CatPrintf(sh, Escaped(c))
  <2>1. c # NL BY DEF IsPrint
  <2>2. CASE c \in {Slash, Quote} BY <2>1, <2>2 DEF ReprChar, Escaped, Slash, Quote, NL
  <2>3. CASE c \notin {Slash, Quote} BY <2>1, <2>3 DEF ReprChar, Escaped
  <2> QED BY <2>2, <2>3
<1> DEFINE e == Escaped(c)
           n == Len(e)
           m == sh.len
<1>2. e \in Text /\ CString(e) = e BY EscapedIs
<1>3. n \in {1, 2}
  <2>1. Len(<<c>>) = 1 /\ Len(<<Slash, c>>) = 2 BY ShortLengths
  <2> QED BY <2>1 DEF Escaped
<1>4. m \in Nat /\ m + 2 <= IntMax /\ IntMax \in Nat BY StringsAre, SdsAssumption
<1> HIDE DEF e, n
<1>5. m + n <= IntMax /\ m + n <= m + 2
  <2> HIDE DEF m
  <2> QED BY <1>3, <1>4
<1>6. /\ CatPrintf(sh, e) \in SoundStrings /\ CatPrintf(sh, e).len <= m + n
      /\ Str(CatPrintf(sh, e)) = Str(sh) \o e
  BY <1>2, <1>5, CatPrintfIs DEF n
<1>7. CatPrintf(sh, e).len \in Nat BY <1>6, StringsAre
<1>8. CatPrintf(sh, e).len <= m + 2 BY <1>3, <1>4, <1>5, <1>6, <1>7
<1> QED BY <1>1, <1>6, <1>8 DEF e

LEMMA QuotedReads ==
    ASSUME NEW t \in Text, \A k \in DOMAIN t : IsPrint(t[k]), NEW argv \in Seq(Text),
           2 * Len(t) + 2 <= IntMax
    PROVE  /\ Quoted(t) \in Text /\ Plain(Quoted(t))
           /\ ArgLeads(ArgAt("blank", <<>>, argv), Quoted(t), ArgAt("closed", t, argv))
<1> DEFINE none == <<>>
           one == <<Quote>>
           n == Len(t)
           base == CatLen(NewLen(none), one)
           p == ArgAt("blank", none, argv)
           At(k) == ArgAt("quotes", SubSeq(t, 1, k), argv)
<1>1. /\ n \in Nat /\ DOMAIN t = 1 .. n /\ none \in Text
      /\ \A k \in 1 .. n : t[k] \in Chars /\ IsPrint(t[k])
  <2>1. \A k \in DOMAIN t : t[k] \in Chars BY DEF IsPrint
  <2> QED BY <2>1, LenProperties DEF Text
<1>2. /\ Quote \in Byte /\ Quote # NUL /\ "quotes" \in ArgPlace /\ "closed" \in ArgPlace
      /\ "blank" \in ArgPlace
  BY DEF Byte, Chars, Quote, NUL, ArgPlace
<1>3. one \in Text /\ Plain(one) /\ Len(one) = 1 /\ Len(none) = 0 BY <1>2, PlainOne
<1>a. IntMax \in Nat /\ 2 * n + 2 <= IntMax BY SdsAssumption
<1> HIDE DEF none, one
<1>4. base \in SoundStrings /\ base.len = 1 /\ Str(base) = one
  <2>1. NewLen(none) \in SoundStrings /\ Str(NewLen(none)) = none /\ NewLen(none).len = 0
    BY <1>1, <1>3, <1>a, NewLenOf
  <2>2. NewLen(none).len + Len(one) <= IntMax
    <3> HIDE DEF n
    <3> QED BY <1>1, <1>3, <1>a, <2>1
  <2>3. /\ base \in SoundStrings /\ base.len = NewLen(none).len + Len(one)
        /\ Str(base) = none \o one
    BY <1>3, <2>1, <2>2, CatLenOf
  <2>4. none \o one = one BY <1>3, ConcatEmptySeq DEF Text, none
  <2> QED BY <1>3, <2>1, <2>3, <2>4
<1>b. base \in Strings BY <1>4, SoundIsString
<1> HIDE DEF base, n
<1>5. PICK r \in [0 .. n -> Strings] :
          /\ r[0] = base
          /\ \A k \in 1 .. n : r[k] = ReprChar(r[k - 1], t[k])
          /\ r[n] = FoldLeft(ReprChar, base, t)
  BY <1>b, ReprFold DEF n
<1> DEFINE Fine(k) == r[k] \in SoundStrings /\ r[k].len <= 2 * k + 1
           Good(k) == Fine(k) /\ Plain(Str(r[k])) /\ ArgLeads(p, Str(r[k]), At(k))
           T == {k \in Nat : k <= n /\ ~Good(k)}
<1>6. ASSUME NEW sh \in SoundStrings PROVE Str(sh) \in Text
  <2>1. sh.buf \in Text /\ sh.len \in Nat /\ sh.len <= Len(sh.buf) BY StringsAre
  <2> QED BY <2>1, StrOf
<1>7. Good(0)
  <2>1. SubSeq(t, 1, 0) = none BY SubSeqEmpty DEF none
  <2>2. ArgChar(p, Quote) = ArgAt("quotes", none, argv) BY QuoteOpens
  <2>3. ArgLeads(p, <<Quote>>, ArgAt("quotes", none, argv)) BY <1>1, <1>2, <2>2, ArgGoes
  <2>4. At(0) = ArgAt("quotes", none, argv) BY <2>1
  <2>5. Fine(0) BY <1>4, <1>5
  <2> HIDE DEF p, At, Fine
  <2> QED BY <1>3, <1>4, <1>5, <2>3, <2>4, <2>5 DEF one
<1>8. ASSUME NEW k \in 1 .. n, Good(k - 1) PROVE Good(k)
  <2> DEFINE i == k - 1
             c == t[k]
             w == SubSeq(t, 1, i)
             x == Str(r[i])
  <2>1. i \in 0 .. n /\ i \in Nat /\ c \in Chars /\ IsPrint(c) BY <1>1
  <2>2. r[k] = ReprChar(r[i], c) /\ r[i] \in SoundStrings /\ r[i].len <= 2 * i + 1
    BY <1>5, <1>8, <2>1
  <2>a. r[i].len \in Nat /\ r[i].len + 2 <= 2 * k + 1 /\ r[i].len + 2 <= IntMax
    <3>1. r[i].len \in Nat BY <2>2, StringsAre
    <3> QED BY <1>1, <1>a, <2>1, <2>2, <3>1
  <2>b. /\ ReprChar(r[i], c) \in SoundStrings /\ ReprChar(r[i], c).len <= r[i].len + 2
        /\ Str(ReprChar(r[i], c)) = x \o Escaped(c)
    <3> HIDE DEF c, i
    <3> QED BY <2>1, <2>2, <2>a, ReprCharIs
  <2>3. Str(r[k]) = x \o Escaped(c) BY <2>2, <2>b
  <2>c. Fine(k)
    <3>1. r[k] \in SoundStrings /\ r[k].len <= r[i].len + 2 BY <2>2, <2>b
    <3>2. r[k].len \in Nat BY <3>1, StringsAre
    <3> HIDE DEF c, i
    <3> QED BY <2>a, <3>1, <3>2
  <2>4. w \in Text BY <2>1, PrefixOf DEF n
  <2>5. SubSeq(t, 1, k) = Append(w, c)
    <3>1. 1 \in 1 .. Len(t) /\ k \in 1 .. Len(t) BY <1>1 DEF n
    <3>2. SubSeq(t, 1, k) = w \o <<c>> BY <3>1, SubSeqRecursiveSecond DEF Text
    <3>3. c \in Byte BY <2>1 DEF Byte
    <3> HIDE DEF w, c
    <3>4. Append(w, c) = w \o <<c>> BY <2>4, <3>3, AppendIsConcat DEF Text
    <3> QED BY <3>2, <3>4
  <2>6. ArgLeads(At(i), Escaped(c), At(k))
    <3> HIDE DEF w, c
    <3>1. ArgLeads(ArgAt("quotes", w, argv), Escaped(c), ArgAt("quotes", Append(w, c), argv))
      BY <2>1, <2>4, EscapedReads
    <3>2. At(k) = ArgAt("quotes", Append(w, c), argv) BY <2>5
    <3>3. At(i) = ArgAt("quotes", w, argv) BY DEF w
    <3> QED BY <3>1, <3>2, <3>3
  <2>7. ArgLeads(p, x, At(i)) /\ Plain(x) /\ x \in Text BY <1>6, <1>8, <2>2
  <2>8. Plain(Escaped(c)) /\ Escaped(c) \in Text BY <2>1, EscapedIs
  <2> HIDE DEF p, At, x, c, i
  <2>9. ArgLeads(p, x \o Escaped(c), At(k)) /\ Plain(x \o Escaped(c))
    BY <2>6, <2>7, <2>8, ArgConcat, PlainConcat
  <2> HIDE DEF Fine
  <2> QED BY <2>3, <2>9, <2>c
<1>9. ASSUME T # {} PROVE FALSE
  <2> HIDE DEF Good
  <2>1. PICK k \in T : \A y \in T : k <= y BY <1>9, Least
  <2>2. k \in 1 .. n /\ k - 1 \in Nat /\ k - 1 \notin T BY <1>7, <2>1
  <2>3. Good(k - 1) BY <1>1, <2>2
  <2> QED BY <1>8, <2>1, <2>2, <2>3
<1>10. Good(n)
  <2> HIDE DEF Good
  <2> QED BY <1>1, <1>9
<1> DEFINE y == Str(r[n])
<1>11. Quoted(t) = y \o one
  <2>1. Quoted(t) = Str(CatLen(r[n], one))
    BY <1>5 DEF Quoted, CatRepr, base, none, one
  <2>2. r[n] \in SoundStrings /\ r[n].len + Len(one) <= IntMax
    <3>1. r[n] \in SoundStrings /\ r[n].len <= 2 * n + 1 BY <1>10
    <3>2. r[n].len \in Nat BY <3>1, StringsAre
    <3> QED BY <1>1, <1>3, <1>a, <3>1, <3>2
  <2> QED BY <1>3, <2>1, <2>2, CatLenOf
<1>12. ArgLeads(At(n), one, ArgAt("closed", t, argv))
  <2>1. SubSeq(t, 1, n) = t BY SubSeqFull DEF n, Text
  <2>2. ArgChar(ArgAt("quotes", t, argv), Quote) = ArgAt("closed", t, argv)
    BY InQuotes DEF Slash, Quote, NUL
  <2>3. ArgLeads(ArgAt("quotes", t, argv), <<Quote>>, ArgAt("closed", t, argv))
    BY <1>2, <2>2, ArgGoes
  <2> QED BY <2>1, <2>3 DEF one
<1>13. y \in Text BY <1>6, <1>10
<1>14. ArgLeads(p, y, At(n)) /\ Plain(y) BY <1>10
<1> DEFINE q == ArgAt("closed", t, argv)
<1> HIDE DEF y, At, p, q
<1>15. ArgLeads(p, y \o one, q) BY <1>12, <1>14, ArgConcat DEF q
<1>16. y \o one \in Text /\ Plain(y \o one) BY <1>3, <1>13, <1>14, PlainConcat
<1> QED BY <1>11, <1>15, <1>16 DEF p, q, none

LEMMA SplitArgsIs ==
    ASSUME NEW line \in Text, NEW u \in Text, CString(line) = u, NEW cur, NEW argv,
           ArgLeads(ArgStart, Append(u, NUL), ArgAt("end", cur, argv))
    PROVE  SplitArgs(line).argv = argv
<1> DEFINE b == Append(u, NUL)
           end == ArgsOf(b)
           q == ArgAt("end", cur, argv)
<1>1. b \in Text BY NulIsByte, AppendProperties DEF Text
<1>2. SplitArgs(line) = IF end.in = "err" THEN [argc |-> -1, argv |-> <<>>]
                        ELSE [argc |-> Len(end.argv), argv |-> end.argv]
  BY DEF SplitArgs, ArgsOf, ArgStart, ArgAt
<1> HIDE DEF b, end
<1>3. ArgLeads(ArgStart, b, end) BY <1>1, ArgsTrace DEF end
<1>4. ArgLeads(ArgStart, b, q) BY DEF b
<1> HIDE DEF q
<1>5. end = q BY <1>3, <1>4, LeadsNowhereElse DEF ArgLeads
<1>6. end.in = "end" /\ end.argv = argv BY <1>5 DEF q, ArgAt
<1> QED BY <1>2, <1>6

\* A printable text that was quoted comes back, and so do the words around it.
LEMMA QuotedComesBack ==
    ASSUME NEW t \in Text, \A k \in DOMAIN t : IsPrint(t[k]), 2 * Len(t) + 2 <= IntMax
    PROVE  SplitArgs(<<"x", Space>> \o Quoted(t) \o <<Space, "x">>).argv = <<<<"x">>, t, <<"x">>>>
<1> DEFINE none == <<>>
           x == <<"x">>
           sp == <<Space>>
           y == Quoted(t)
           before == x \o sp
           after == sp \o x
           line == (before \o y) \o after
           a1 == Append(none, x)
           a2 == Append(a1, t)
           a3 == Append(a2, x)
           end == Append(line, NUL)
<1>1. /\ "x" \in Byte /\ Space \in Byte /\ NUL \in Byte /\ "x" # NUL /\ Space # NUL
      /\ "x" \notin {Space, NL, NUL, Quote}
  BY DEF Byte, Chars, Space, NUL, NL, Quote
<1>2. x \in Text /\ Plain(x) /\ sp \in Text /\ Plain(sp) BY <1>1, PlainOne
<1>3. y \in Text /\ Plain(y) /\ ArgLeads(ArgAt("blank", none, a1), y, ArgAt("closed", t, a1))
  <2>1. none \in Seq(Text) OBVIOUS
  <2>2. a1 \in Seq(Text)
    <3> HIDE DEF none, x
    <3> QED BY <1>2, <2>1, AppendProperties
  <2> HIDE DEF a1
  <2> QED BY <2>2, QuotedReads
<1>4. before = <<"x", Space>> /\ after = <<Space, "x">>
      /\ a3 = <<x, t, x>>
  <2>1. before = <<"x", Space>> /\ after = <<Space, "x">> BY <1>1, ListsOf
  <2> HIDE DEF x
  <2>2. a3 = <<x, t, x>> BY <1>2, ListsOf
  <2> QED BY <2>1, <2>2
<1>5. none \in Text /\ none \in Seq(Text) BY DEF Text
<1>6. Append(none, "x") = x OBVIOUS
<1> HIDE DEF none, x, sp, y
<1>7. a1 \in Seq(Text) /\ a2 \in Seq(Text) /\ a3 \in Seq(Text)
  <2>1. a1 \in Seq(Text) BY <1>2, <1>5, AppendProperties
  <2> HIDE DEF a1
  <2>2. a2 \in Seq(Text) BY <2>1, AppendProperties
  <2> HIDE DEF a2
  <2>3. a3 \in Seq(Text) BY <1>2, <2>2, AppendProperties
  <2> QED BY <2>1, <2>2, <2>3 DEF a1, a2
<1> HIDE DEF a1
<1>8. before \in Text /\ Plain(before) /\ after \in Text /\ Plain(after) BY <1>2, PlainConcat
<1>9. line \in Text /\ Plain(line)
  <2> HIDE DEF before, after
  <2> DEFINE z == before \o y
  <2>1. z \in Text /\ Plain(z) BY <1>3, <1>8, PlainConcat
  <2> HIDE DEF z
  <2>2. z \o after \in Text /\ Plain(z \o after) BY <1>8, <2>1, PlainConcat
  <2> QED BY <2>2 DEF z
<1>10. /\ "blank" \in ArgPlace /\ "word" \in ArgPlace /\ "closed" \in ArgPlace
       /\ "end" \in ArgPlace
  BY DEF ArgPlace
<1> DEFINE p0 == ArgAt("blank", none, none)
           p1 == ArgAt("word", x, none)
           p2 == ArgAt("blank", none, a1)
           p3 == ArgAt("closed", t, a1)
           p4 == ArgAt("blank", none, a2)
           p5 == ArgAt("word", x, a2)
           p6 == ArgAt("end", none, a3)
<1>11. ArgLeads(p0, x, p1)
  <2>1. ArgChar(p0, "x") = p1 BY <1>1, <1>6, UnquotedReads
  <2> QED BY <1>1, <1>5, <1>10, <2>1, ArgGoes DEF x
<1>12. ArgLeads(p1, sp, p2)
  <2>1. ArgChar(p1, Space) = p2 BY <1>1, UnquotedEnds DEF none, a1
  <2> QED BY <1>1, <1>2, <1>5, <1>10, <2>1, ArgGoes DEF sp
<1>13. ArgLeads(p3, sp, p4)
  <2>1. ArgChar(p3, Space) = p4 BY <1>1, QuoteCloses DEF none
  <2> QED BY <1>1, <1>7, <1>10, <2>1, ArgGoes DEF sp
<1>14. ArgLeads(p4, x, p5)
  <2> HIDE DEF a2
  <2>1. ArgChar(p4, "x") = p5 BY <1>1, <1>6, UnquotedReads
  <2> QED BY <1>1, <1>5, <1>7, <1>10, <2>1, ArgGoes DEF x
<1>15. ArgLeads(p5, <<NUL>>, p6)
  <2> HIDE DEF a2
  <2>1. ArgChar(p5, NUL) = p6 BY UnquotedEnds DEF none
  <2> HIDE DEF a3
  <2> QED BY <1>1, <1>2, <1>7, <1>10, <2>1, ArgGoes
<1>16. ArgLeads(p2, y, p3) BY <1>3
<1> HIDE DEF p0, p1, p2, p3, p4, p5, p6
<1>17. ArgLeads(p0, before, p2) BY <1>11, <1>12, ArgConcat
<1>18. ArgLeads(p3, after, p5) BY <1>13, <1>14, ArgConcat
<1> HIDE DEF before, after
<1>19. ArgLeads(p0, before \o y, p3) BY <1>16, <1>17, ArgConcat
<1>20. ArgLeads(p0, line, p5)
  <2> DEFINE z == before \o y
  <2> HIDE DEF z
  <2>1. ArgLeads(p0, z \o after, p5) BY <1>18, <1>19, ArgConcat DEF z
  <2> QED BY <2>1 DEF z
<1>21. CString(line) = line BY <1>9, NoNul DEF Plain
<1> HIDE DEF line
<1>22. ArgLeads(p0, line \o <<NUL>>, p6) BY <1>15, <1>20, ArgConcat
<1>23. end = line \o <<NUL>> BY <1>1, <1>9, AppendIsConcat DEF Text
<1>24. ArgLeads(ArgStart, Append(line, NUL), ArgAt("end", none, a3))
  BY <1>22, <1>23 DEF p0, p6, ArgStart, none
<1>25. SplitArgs(line).argv = a3
  <2> HIDE DEF a3
  <2> QED BY <1>9, <1>21, <1>24, SplitArgsIs
<1> QED BY <1>4, <1>25 DEF line, x, y

-----------------------------------------------------------------------------
(***************************************************************************)
(* A line without quotes, a word at a time.                                *)
(***************************************************************************)
Starts(t)  == {k \in DOMAIN t : ~IsSpace(t[k]) /\ (k = 1 \/ IsSpace(t[k - 1]))}
Rank(t, k) == Cardinality({j \in Starts(t) : j < k})
NthStart(t, n) == CHOOSE k \in Starts(t) : Rank(t, k) = n - 1
IsEnd(t, k, e) == /\ \A m \in k .. e : ~IsSpace(t[m])
                  /\ e = Len(t) \/ IsSpace(t[e + 1])
EndOf(t, k)    == CHOOSE e \in k .. Len(t) : IsEnd(t, k, e)

LEMMA WordsAre ==
    ASSUME NEW t
    PROVE  Words(t) = [n \in 1 .. Cardinality(Starts(t)) |->
                          SubSeq(t, NthStart(t, n), EndOf(t, NthStart(t, n)))]
  BY DEF Words, Starts, Rank, NthStart, IsEnd, EndOf

LEMMA RankIs ==
    ASSUME NEW t \in Text
    PROVE  /\ Starts(t) \subseteq 1 .. Len(t)
           /\ \A k \in Nat : Rank(t, k) \in Nat
           /\ \A k \in Nat : k \notin Starts(t) => Rank(t, k + 1) = Rank(t, k)
           /\ \A k \in Nat : k \in Starts(t) => Rank(t, k + 1) = Rank(t, k) + 1
           /\ \A j \in Nat, k \in Nat : j <= k => Rank(t, j) <= Rank(t, k)
           /\ Rank(t, 1) = 0
           /\ Rank(t, Len(t) + 1) = Cardinality(Starts(t))
<1> DEFINE S == Starts(t)
           B(k) == {j \in S : j < k}
<1>1. Len(t) \in Nat /\ S \subseteq 1 .. Len(t)
  <2>1. Len(t) \in Nat /\ DOMAIN t = 1 .. Len(t) BY LenProperties DEF Text
  <2> QED BY <2>1 DEF Starts
<1> HIDE DEF S
<1>2. IsFiniteSet(1 .. Len(t)) BY <1>1, FS_Interval
<1>3. IsFiniteSet(S) BY <1>1, <1>2, FS_Subset
<1>4. \A k \in Nat : IsFiniteSet(B(k))
  <2>1. \A k \in Nat : B(k) \in SUBSET S OBVIOUS
  <2> HIDE DEF B
  <2> QED BY <1>3, <2>1, FS_Subset
<1>5. \A k : Rank(t, k) = Cardinality(B(k)) BY DEF Rank, S
<1>6. \A k \in Nat : Cardinality(B(k)) \in Nat
  <2> HIDE DEF B
  <2> QED BY <1>4, FS_CardinalityType
<1>7. ASSUME NEW k \in Nat, k \notin S PROVE B(k + 1) = B(k)
  <2>1. \A j \in S : j \in Nat /\ j # k BY <1>1, <1>7
  <2>2. \A j \in S : j < k + 1 <=> j < k BY <2>1
  <2> QED BY <2>2
<1>8. ASSUME NEW k \in Nat, k \in S PROVE Cardinality(B(k + 1)) = Cardinality(B(k)) + 1
  <2>1. \A j \in S : j \in Nat BY <1>1
  <2>2. \A j \in S : j < k + 1 <=> j < k \/ j = k BY <2>1
  <2>3. B(k + 1) = B(k) \cup {k} /\ k \notin B(k)
    <3>1. ~(k < k) BY <2>1
    <3>2. \A j : j \in B(k + 1) <=> j \in S /\ j < k + 1 OBVIOUS
    <3>3. \A j : j \in B(k) <=> j \in S /\ j < k OBVIOUS
    <3> HIDE DEF B
    <3>4. k \notin B(k) BY <3>1, <3>3
    <3>5. \A j : j \in B(k + 1) <=> j \in B(k) \/ j = k BY <1>8, <2>2, <3>2, <3>3, Zenon
    <3> QED BY <3>4, <3>5, Zenon
  <2> HIDE DEF B
  <2>4. Cardinality(B(k) \cup {k}) = Cardinality(B(k)) + 1 BY <1>4, <2>3, FS_AddElement
  <2> QED BY <2>3, <2>4
<1>9. ASSUME NEW j \in Nat, NEW k \in Nat, j <= k PROVE Cardinality(B(j)) <= Cardinality(B(k))
  <2>1. \A x \in S : x \in Nat BY <1>1
  <2>2. B(j) \in SUBSET B(k) BY <1>9, <2>1
  <2> HIDE DEF B
  <2> QED BY <1>4, <2>2, FS_Subset
<1>10. Cardinality(B(1)) = 0
  <2>0. \A j \in S : ~(j < 1) BY <1>1
  <2>1. B(1) = {} BY <2>0, Zenon
  <2> HIDE DEF B
  <2> QED BY <2>1, FS_EmptySet
<1>11. B(Len(t) + 1) = S
  <2>1. \A j \in S : j < Len(t) + 1 BY <1>1
  <2> QED BY <2>1, Zenon
<1> HIDE DEF B
<1>12. \A k \in Nat : k \notin S => Rank(t, k + 1) = Rank(t, k) BY <1>5, <1>7
<1>13. \A k \in Nat : k \in S => Rank(t, k + 1) = Rank(t, k) + 1 BY <1>5, <1>8
<1>14. \A j \in Nat, k \in Nat : j <= k => Rank(t, j) <= Rank(t, k) BY <1>5, <1>9
<1>15. Rank(t, 1) = 0 /\ Rank(t, Len(t) + 1) = Cardinality(S) BY <1>5, <1>10, <1>11
<1>16. \A k \in Nat : Rank(t, k) \in Nat BY <1>5, <1>6
<1> QED BY <1>1, <1>12, <1>13, <1>14, <1>15, <1>16 DEF S

LEMMA NthStartIs ==
    ASSUME NEW t \in Text, NEW k \in Starts(t), NEW n \in Nat, Rank(t, k) = n - 1
    PROVE  NthStart(t, n) = k
<1>1. ASSUME NEW j \in Starts(t), Rank(t, j) = n - 1, NEW i \in Starts(t), Rank(t, i) = n - 1,
             j < i
      PROVE  FALSE
  <2>0. j \in 1 .. Len(t) /\ i \in 1 .. Len(t) BY RankIs
  <2>1. j \in Nat /\ i \in Nat /\ j + 1 \in Nat /\ j + 1 <= i BY <1>1, <2>0
  <2>2. Rank(t, j + 1) = Rank(t, j) + 1 BY <2>1, RankIs
  <2>3. Rank(t, j + 1) <= Rank(t, i) BY <2>1, RankIs
  <2>4. Rank(t, i) \in Nat /\ Rank(t, j) \in Nat BY <2>1, RankIs
  <2> QED BY <1>1, <2>2, <2>3, <2>4
<1>2. \A j \in Starts(t) : Rank(t, j) = n - 1 => j = k
  <2>1. \A j \in Starts(t) : j \in Nat BY RankIs
  <2>2. ASSUME NEW j \in Starts(t), Rank(t, j) = n - 1 PROVE j = k
    <3>1. ~(j < k) /\ ~(k < j) BY <1>1, <2>2
    <3> QED BY <2>1, <3>1
  <2> QED BY <2>2
<1> QED BY <1>2 DEF NthStart

LEMMA EndOfIs ==
    ASSUME NEW t \in Text, NEW k \in 1 .. Len(t), NEW e \in k .. Len(t), IsEnd(t, k, e)
    PROVE  EndOf(t, k) = e
<1>0. Len(t) \in Nat BY LenProperties DEF Text
<1>1. ASSUME NEW a \in k .. Len(t), IsEnd(t, k, a), NEW b \in k .. Len(t), IsEnd(t, k, b), a < b
      PROVE  FALSE
  <2>1. a # Len(t) /\ a + 1 \in k .. b BY <1>0, <1>1
  <2>2. IsSpace(t[a + 1]) /\ ~IsSpace(t[a + 1]) BY <1>1, <2>1 DEF IsEnd
  <2> QED BY <2>2
<1>2. \A a \in k .. Len(t) : IsEnd(t, k, a) => a = e
  <2>1. ASSUME NEW a \in k .. Len(t), IsEnd(t, k, a) PROVE a = e
    <3>1. ~(a < e) /\ ~(e < a) BY <1>1, <2>1
    <3> QED BY <1>0, <3>1
  <2> QED BY <2>1
<1> QED BY <1>2 DEF EndOf

\* w is the word of t that starts n-th.
IsWord(t, n, w) ==
    \E k \in Starts(t) : \E e \in k .. Len(t) :
        IsEnd(t, k, e) /\ Rank(t, k) = n - 1 /\ w = SubSeq(t, k, e)

LEMMA WordsEqual ==
    ASSUME NEW t \in Text, NEW argv \in Seq(Text), Len(argv) = Rank(t, Len(t) + 1),
           \A n \in 1 .. Len(argv) : IsWord(t, n, argv[n])
    PROVE  argv = Words(t)
<1> DEFINE c == Cardinality(Starts(t))
           w == Words(t)
<1>1. Len(argv) = c /\ Len(argv) \in Nat BY RankIs, LenProperties
<1>2. ASSUME NEW n \in 1 .. c
      PROVE  argv[n] = SubSeq(t, NthStart(t, n), EndOf(t, NthStart(t, n)))
  <2>0. PICK k \in Starts(t) : \E e \in k .. Len(t) :
            IsEnd(t, k, e) /\ Rank(t, k) = n - 1 /\ argv[n] = SubSeq(t, k, e)
    BY <1>1 DEF IsWord
  <2>1. PICK e \in k .. Len(t) :
            IsEnd(t, k, e) /\ Rank(t, k) = n - 1 /\ argv[n] = SubSeq(t, k, e)
    BY <2>0
  <2>2. k \in 1 .. Len(t) BY RankIs
  <2>3. n \in Nat BY <1>1
  <2>4. NthStart(t, n) = k BY <2>1, <2>3, NthStartIs
  <2>5. EndOf(t, k) = e BY <2>1, <2>2, EndOfIs
  <2> QED BY <2>1, <2>4, <2>5
<1>3. w = [n \in 1 .. c |-> SubSeq(t, NthStart(t, n), EndOf(t, NthStart(t, n)))] BY WordsAre
<1> HIDE DEF c, w
<1>4. w = [n \in 1 .. c |-> argv[n]] BY <1>2, <1>3
<1>5. \A n \in 1 .. c : argv[n] \in Text BY <1>1, ElementOfSeq
<1>6. w \in Seq(Text) /\ Len(w) = c /\ \A n \in 1 .. c : w[n] = argv[n] BY <1>1, <1>4, <1>5
<1>7. argv = w BY <1>1, <1>6, SeqEqual
<1> QED BY <1>7 DEF w

\* What has been read of t when its i first bytes were: between two words, or
\* inside of one, of which cur is what was read.
AllWords(t, argv) == \A n \in 1 .. Len(argv) : IsWord(t, n, argv[n])

Between(t, argv, i) ==
    /\ AllWords(t, argv)
    /\ i = 0 \/ IsSpace(t[i])
    /\ Rank(t, i + 1) = Len(argv)

Inside(t, cur, argv, i) ==
    /\ AllWords(t, argv)
    /\ Rank(t, i + 1) = Len(argv) + 1
    /\ \E k \in Starts(t) :
          /\ k <= i /\ Rank(t, k) = Len(argv)
          /\ cur = SubSeq(t, k, i)
          /\ \A m \in k .. i : ~IsSpace(t[m])

LEMMA StartsAre ==
    ASSUME NEW t \in Text, NEW i \in Nat, i < Len(t)
    PROVE  i + 1 \in Starts(t) <=> ~IsSpace(t[i + 1]) /\ (i = 0 \/ IsSpace(t[i]))
<1>1. Len(t) \in Nat /\ DOMAIN t = 1 .. Len(t) BY LenProperties DEF Text
<1>2. i + 1 \in DOMAIN t /\ (i + 1) - 1 = i /\ (i + 1 = 1 <=> i = 0) BY <1>1
<1> QED BY <1>2 DEF Starts

LEMMA BlankGoes ==
    ASSUME NEW t \in Text, NEW argv \in Seq(Text), NEW i \in Nat, i < Len(t),
           Between(t, argv, i), IsSpace(t[i + 1])
    PROVE  Between(t, argv, i + 1)
<1>1. i + 1 \notin Starts(t) BY StartsAre
<1>2. Rank(t, (i + 1) + 1) = Rank(t, i + 1) BY <1>1, RankIs
<1> QED BY <1>2 DEF Between

LEMMA WordBegins ==
    ASSUME NEW t \in Text, NEW argv \in Seq(Text), NEW i \in Nat, i < Len(t),
           Between(t, argv, i), ~IsSpace(t[i + 1])
    PROVE  Inside(t, Append(<<>>, t[i + 1]), argv, i + 1)
<1> DEFINE k == i + 1
<1>1. Len(t) \in Nat /\ k \in Nat /\ k \in 1 .. Len(t) BY LenProperties DEF Text
<1>2. k \in Starts(t) BY StartsAre DEF Between
<1>3. Rank(t, k) = Len(argv) BY DEF Between
<1>4. AllWords(t, argv) /\ ~IsSpace(t[k]) BY DEF Between
<1> HIDE DEF k
<1>5. Rank(t, k + 1) = Rank(t, k) + 1 BY <1>1, <1>2, RankIs
<1>6. Append(<<>>, t[k]) = SubSeq(t, k, k)
  <2>1. SubSeq(t, k, k) = SubSeq(t, k, k - 1) \o <<t[k]>>
    BY <1>1, SubSeqRecursiveSecond DEF Text
  <2>2. SubSeq(t, k, k - 1) = <<>> BY <1>1, SubSeqEmpty
  <2>3. t[k] \in Byte BY <1>1, ElementOfSeq DEF Text
  <2>4. <<>> \o <<t[k]>> = <<t[k]>> BY <2>3, ListsOf
  <2> DEFINE c == t[k]
  <2> HIDE DEF c
  <2>5. Append(<<>>, c) = <<c>> OBVIOUS
  <2> QED BY <2>1, <2>2, <2>4, <2>5 DEF c
<1>7. k <= k /\ \A m \in k .. k : ~IsSpace(t[m])
  <2>1. \A m \in k .. k : m = k BY <1>1
  <2> QED BY <1>1, <1>4, <2>1
<1>8. Inside(t, Append(<<>>, t[k]), argv, k)
  BY <1>2, <1>3, <1>4, <1>5, <1>6, <1>7 DEF Inside
<1> QED BY <1>8 DEF k

LEMMA WordGoes ==
    ASSUME NEW t \in Text, NEW cur, NEW argv \in Seq(Text), NEW i \in Nat, i < Len(t),
           Inside(t, cur, argv, i), ~IsSpace(t[i + 1])
    PROVE  Inside(t, Append(cur, t[i + 1]), argv, i + 1)
<1>1. Len(t) \in Nat /\ i + 1 \in Nat /\ i + 1 \in 1 .. Len(t) BY LenProperties DEF Text
<1>2. PICK k \in Starts(t) :
          /\ k <= i /\ Rank(t, k) = Len(argv)
          /\ cur = SubSeq(t, k, i)
          /\ \A m \in k .. i : ~IsSpace(t[m])
  BY DEF Inside
<1>3. k \in 1 .. Len(t) /\ k <= i + 1 BY <1>1, <1>2, RankIs
<1>4. i # 0 /\ ~IsSpace(t[i])
  <2>1. i # 0 /\ i \in k .. i BY <1>2, <1>3
  <2> QED BY <1>2, <2>1
<1>5. Rank(t, (i + 1) + 1) = Rank(t, i + 1)
  <2>1. i + 1 \notin Starts(t) BY <1>4, StartsAre
  <2> QED BY <1>1, <2>1, RankIs
<1>6. AllWords(t, argv) /\ Rank(t, i + 1) = Len(argv) + 1 BY DEF Inside
<1>7. Append(cur, t[i + 1]) = SubSeq(t, k, i + 1)
  <2> DEFINE w == SubSeq(t, k, i)
             j == i + 1
  <2>1. j \in k .. Len(t) /\ j - 1 = i BY <1>1, <1>3
  <2> HIDE DEF j
  <2>2. SubSeq(t, k, j) = w \o <<t[j]>> BY <1>3, <2>1, SubSeqRecursiveSecond DEF Text
  <2>3. t[j] \in Byte BY <1>1, ElementOfSeq DEF Text, j
  <2>4. w \in Text
    <3>1. i \in Int /\ \A m \in k .. i : t[m] \in Byte
      BY <1>1, <1>3, ElementOfSeq DEF Text
    <3> QED BY <1>3, <3>1, SubSeqProperties DEF Text
  <2> HIDE DEF w
  <2>5. Append(w, t[j]) = w \o <<t[j]>> BY <2>3, <2>4, AppendIsConcat DEF Text
  <2> QED BY <1>2, <2>2, <2>5 DEF w, j
<1>8. \A m \in k .. i + 1 : ~IsSpace(t[m])
  <2>1. \A m \in k .. i + 1 : m \in k .. i \/ m = i + 1 BY <1>1, <1>3
  <2> QED BY <1>2, <2>1
<1> QED BY <1>2, <1>3, <1>5, <1>6, <1>7, <1>8 DEF Inside

LEMMA WordEnds ==
    ASSUME NEW t \in Text, NEW cur \in Text, NEW argv \in Seq(Text), NEW i \in Nat,
           i <= Len(t), Inside(t, cur, argv, i), i = Len(t) \/ IsSpace(t[i + 1])
    PROVE  /\ Append(argv, cur) \in Seq(Text)
           /\ AllWords(t, Append(argv, cur))
           /\ Rank(t, i + 1) = Len(Append(argv, cur))
<1> DEFINE a == Append(argv, cur)
           l == Len(argv)
<1>1. l \in Nat /\ Len(t) \in Nat BY LenProperties DEF Text
<1>2. /\ a \in Seq(Text) /\ Len(a) = l + 1 /\ a[l + 1] = cur
      /\ \A n \in 1 .. l : a[n] = argv[n]
  BY AppendProperties
<1>3. AllWords(t, argv) /\ Rank(t, i + 1) = l + 1 BY DEF Inside
<1>4. PICK k \in Starts(t) :
          /\ k <= i /\ Rank(t, k) = l
          /\ cur = SubSeq(t, k, i)
          /\ \A m \in k .. i : ~IsSpace(t[m])
  BY DEF Inside
<1> HIDE DEF a, l
<1>5. IsWord(t, l + 1, cur)
  <2>1. k \in 1 .. Len(t) /\ i \in k .. Len(t) BY <1>1, <1>4, RankIs
  <2>2. IsEnd(t, k, i) BY <1>4 DEF IsEnd
  <2>3. (l + 1) - 1 = l BY <1>1
  <2> QED BY <1>4, <2>1, <2>2, <2>3 DEF IsWord
<1>6. ASSUME NEW n \in 1 .. l + 1 PROVE IsWord(t, n, a[n])
  <2>1. CASE n \in 1 .. l BY <1>2, <1>3, <2>1 DEF AllWords, l
  <2>2. CASE n = l + 1 BY <1>2, <1>5, <2>2
  <2> QED BY <1>1, <2>1, <2>2
<1>7. AllWords(t, a) BY <1>2, <1>6 DEF AllWords
<1> QED BY <1>2, <1>3, <1>7 DEF a

\* Reading t up to i leads to acc, which holds the words found so far.
ReadUpTo(t, i, acc) ==
    /\ ArgLeads(ArgStart, SubSeq(t, 1, i), acc)
    /\ \/ \E argv \in Seq(Text) :
             acc = ArgAt("blank", <<>>, argv) /\ Between(t, argv, i)
       \/ \E argv \in Seq(Text), cur \in Text :
             acc = ArgAt("word", cur, argv) /\ Inside(t, cur, argv, i)

LEMMA ReadMore ==
    ASSUME NEW t \in Text, NEW i \in Nat, i < Len(t), NEW acc, ReadUpTo(t, i, acc),
           t[i + 1] \notin {Quote, NUL}
    PROVE  \E next : ReadUpTo(t, i + 1, next)
<1> DEFINE c == t[i + 1]
           x == SubSeq(t, 1, i)
           none == <<>>
<1>1. c \in Byte
  <2>1. i + 1 \in 1 .. Len(t) BY LenProperties DEF Text
  <2> QED BY <2>1, ElementOfSeq DEF Text
<1>2. SubSeq(t, 1, i + 1) = x \o <<c>>
  <2> DEFINE j == i + 1
  <2>1. 1 \in 1 .. Len(t) /\ j \in 1 .. Len(t) /\ j - 1 = i BY LenProperties DEF Text
  <2> HIDE DEF j
  <2>2. SubSeq(t, 1, j) = SubSeq(t, 1, j - 1) \o <<t[j]>>
    BY <2>1, SubSeqRecursiveSecond DEF Text
  <2> QED BY <2>1, <2>2 DEF j
<1>3. none \in Text /\ "blank" \in ArgPlace /\ "word" \in ArgPlace BY DEF Text, ArgPlace
<1>4. ASSUME NEW in \in ArgPlace, NEW cur \in Text, NEW argv \in Seq(Text),
             acc = ArgAt(in, cur, argv), NEW next, ArgChar(acc, c) = next
      PROVE  ArgLeads(ArgStart, SubSeq(t, 1, i + 1), next)
  <2>1. ArgLeads(acc, <<c>>, next) BY <1>1, <1>4, ArgGoes
  <2>2. ArgLeads(ArgStart, x, acc) BY DEF ReadUpTo
  <2> HIDE DEF x, c
  <2>3. ArgLeads(ArgStart, x \o <<c>>, next) BY <2>1, <2>2, ArgConcat
  <2> QED BY <1>2, <2>3
<1>5. Space # NUL /\ NL # NUL /\ (IsSpace(c) <=> c \in {Space, NL})
  BY DEF Space, NL, NUL, IsSpace
<1>6. ASSUME NEW argv \in Seq(Text), acc = ArgAt("blank", none, argv), Between(t, argv, i)
      PROVE  \E next : ReadUpTo(t, i + 1, next)
  <2>1. CASE IsSpace(c)
    <3> DEFINE next == ArgAt("blank", none, argv)
    <3>1. Between(t, argv, i + 1) BY <1>6, <2>1, BlankGoes
    <3>2. ArgChar(acc, c) = next
      <4> HIDE DEF c, none
      <4> QED BY <1>5, <1>6, <2>1, BlankStays
    <3>3. ArgLeads(ArgStart, SubSeq(t, 1, i + 1), next) BY <1>3, <1>4, <1>6, <3>2
    <3>4. ReadUpTo(t, i + 1, next) BY <3>1, <3>3 DEF ReadUpTo
    <3> QED BY <3>4
  <2>2. CASE ~IsSpace(c)
    <3> DEFINE cur == Append(none, c)
               next == ArgAt("word", cur, argv)
    <3>1. Inside(t, cur, argv, i + 1) BY <1>6, <2>2, WordBegins
    <3>2. ArgChar(acc, c) = next
      <4>1. c \notin {Space, NL, NUL, Quote} BY <1>5, <2>2
      <4> HIDE DEF c, none
      <4> QED BY <1>6, <4>1, UnquotedReads
    <3>3. cur \in Text
      <4> HIDE DEF c, none
      <4> QED BY <1>1, <1>3, AppendProperties DEF Text
    <3> HIDE DEF cur
    <3>4. ArgLeads(ArgStart, SubSeq(t, 1, i + 1), next) BY <1>3, <1>4, <1>6, <3>2
    <3>5. ReadUpTo(t, i + 1, next) BY <3>1, <3>3, <3>4 DEF ReadUpTo
    <3> QED BY <3>5
  <2> QED BY <2>1, <2>2
<1>7. ASSUME NEW argv \in Seq(Text), NEW cur \in Text, acc = ArgAt("word", cur, argv),
             Inside(t, cur, argv, i)
      PROVE  \E next : ReadUpTo(t, i + 1, next)
  <2>1. CASE IsSpace(c)
    <3> DEFINE a == Append(argv, cur)
               next == ArgAt("blank", none, a)
    <3>1. a \in Seq(Text) /\ AllWords(t, a) /\ Rank(t, i + 1) = Len(a)
      BY <1>7, <2>1, WordEnds
    <3>2. Between(t, a, i + 1)
      <4>1. i + 1 \notin Starts(t) BY <2>1, StartsAre
      <4>2. Rank(t, (i + 1) + 1) = Rank(t, i + 1) BY <4>1, RankIs
      <4> HIDE DEF a
      <4> QED BY <2>1, <3>1, <4>2 DEF Between
    <3>3. ArgChar(acc, c) = next
      <4> HIDE DEF c
      <4> QED BY <1>5, <1>7, <2>1, UnquotedEnds
    <3> HIDE DEF a
    <3>4. ArgLeads(ArgStart, SubSeq(t, 1, i + 1), next) BY <1>3, <1>4, <1>7, <3>3
    <3>5. ReadUpTo(t, i + 1, next) BY <3>1, <3>2, <3>4 DEF ReadUpTo
    <3> QED BY <3>5
  <2>2. CASE ~IsSpace(c)
    <3> DEFINE w == Append(cur, c)
               next == ArgAt("word", w, argv)
    <3>1. Inside(t, w, argv, i + 1) BY <1>7, <2>2, WordGoes
    <3>2. ArgChar(acc, c) = next
      <4>1. c \notin {Space, NL, NUL, Quote} BY <1>5, <2>2
      <4> HIDE DEF c
      <4> QED BY <1>7, <4>1, UnquotedReads
    <3>3. w \in Text
      <4> HIDE DEF c
      <4> QED BY <1>1, <1>7, AppendProperties DEF Text
    <3> HIDE DEF w
    <3>4. ArgLeads(ArgStart, SubSeq(t, 1, i + 1), next) BY <1>3, <1>4, <1>7, <3>2
    <3>5. ReadUpTo(t, i + 1, next) BY <3>1, <3>3, <3>4 DEF ReadUpTo
    <3> QED BY <3>5
  <2> QED BY <2>1, <2>2
<1> QED BY <1>6, <1>7 DEF ReadUpTo

LEMMA ReadBegins ==
    ASSUME NEW t \in Text
    PROVE  ReadUpTo(t, 0, ArgStart)
<1> DEFINE none == <<>>
<1>1. SubSeq(t, 1, 0) = none BY SubSeqEmpty
<1>2. ArgLeads(ArgStart, SubSeq(t, 1, 0), ArgStart)
  <2>1. Leads(ArgState, Byte, ArgStep, ArgStart, none, ArgStart)
    BY ArgStarts, ArgStepIs, LeadsNothing
  <2> HIDE DEF none
  <2> QED BY <1>1, <2>1 DEF ArgLeads
<1>3. none \in Seq(Text) /\ Len(none) = 0 OBVIOUS
<1>4. Rank(t, 0 + 1) = Len(none) BY <1>3, RankIs
<1>5. AllWords(t, none) BY <1>3 DEF AllWords
<1> HIDE DEF none
<1>6. Between(t, none, 0) BY <1>4, <1>5 DEF Between
<1>7. ArgStart = ArgAt("blank", <<>>, none) BY DEF ArgStart, none
<1> QED BY <1>2, <1>3, <1>6, <1>7 DEF ReadUpTo

LEMMA ReadAll ==
    ASSUME NEW t \in Text, \A k \in 1 .. Len(t) : t[k] \notin {Quote, NUL}
    PROVE  \E acc : ReadUpTo(t, Len(t), acc)
<1> DEFINE n == Len(t)
           Read(i) == \E acc : ReadUpTo(t, i, acc)
           T == {i \in Nat : i <= n /\ ~Read(i)}
<1>1. n \in Nat BY LenProperties DEF Text
<1>2. Read(0) BY ReadBegins
<1>3. ASSUME NEW i \in Nat, i < n, Read(i) PROVE Read(i + 1)
  <2>1. i + 1 \in 1 .. Len(t) BY <1>1, <1>3
  <2>2. t[i + 1] \notin {Quote, NUL} BY <2>1
  <2>3. PICK acc : ReadUpTo(t, i, acc) BY <1>3
  <2> QED BY <1>3, <2>2, <2>3, ReadMore
<1>4. ASSUME T # {} PROVE FALSE
  <2> HIDE DEF Read
  <2>1. PICK k \in T : \A y \in T : k <= y BY <1>4, Least
  <2>2. k \in 1 .. n /\ k - 1 \in Nat /\ k - 1 \notin T BY <1>1, <1>2, <2>1
  <2>3. Read(k - 1) BY <1>1, <2>2
  <2>4. (k - 1) + 1 = k /\ k - 1 < n BY <1>1, <2>2
  <2>5. Read(k) BY <1>3, <2>2, <2>3, <2>4
  <2> QED BY <2>1, <2>5
<1>5. Read(n)
  <2> HIDE DEF Read
  <2> QED BY <1>1, <1>4
<1> QED BY <1>5

\* The NUL behind the line ends the last word.
LEMMA WordsRead ==
    ASSUME NEW t \in Text, \A k \in 1 .. Len(t) : t[k] \notin {Quote, NUL}
    PROVE  \E cur : ArgLeads(ArgStart, Append(t, NUL), ArgAt("end", cur, Words(t)))
<1> DEFINE n == Len(t)
           none == <<>>
<1>1. n \in Nat /\ none \in Text /\ "blank" \in ArgPlace /\ "word" \in ArgPlace
  BY LenProperties DEF Text, ArgPlace
<1>2. PICK acc : ReadUpTo(t, n, acc) BY ReadAll
<1>3. SubSeq(t, 1, n) = t BY SubSeqFull DEF Text
<1>4. ArgLeads(ArgStart, t, acc) BY <1>2, <1>3 DEF ReadUpTo
<1>5. Append(t, NUL) = t \o <<NUL>> BY NulIsByte, AppendIsConcat DEF Text
<1>6. ASSUME NEW in \in ArgPlace, NEW cur \in Text, NEW argv \in Seq(Text),
             acc = ArgAt(in, cur, argv), NEW q, ArgChar(acc, NUL) = q
      PROVE  ArgLeads(ArgStart, Append(t, NUL), q)
  <2>1. ArgLeads(acc, <<NUL>>, q) BY <1>6, NulIsByte, ArgGoes
  <2>2. ArgLeads(ArgStart, t \o <<NUL>>, q) BY <1>4, <2>1, ArgConcat
  <2> QED BY <1>5, <2>2
<1> HIDE DEF none, n
<1>7. ASSUME NEW argv \in Seq(Text), acc = ArgAt("blank", none, argv), Between(t, argv, n)
      PROVE  \E cur : ArgLeads(ArgStart, Append(t, NUL), ArgAt("end", cur, Words(t)))
  <2>1. argv = Words(t) BY <1>7, WordsEqual DEF Between, AllWords, n
  <2>2. ArgChar(acc, NUL) = ArgAt("end", none, argv) BY <1>7, BlankStays
  <2>3. ArgLeads(ArgStart, Append(t, NUL), ArgAt("end", none, argv))
    BY <1>1, <1>6, <1>7, <2>2
  <2> QED BY <2>1, <2>3
<1>8. ASSUME NEW argv \in Seq(Text), NEW cur \in Text, acc = ArgAt("word", cur, argv),
             Inside(t, cur, argv, n)
      PROVE  \E w : ArgLeads(ArgStart, Append(t, NUL), ArgAt("end", w, Words(t)))
  <2> DEFINE a == Append(argv, cur)
  <2>1. a \in Seq(Text) /\ AllWords(t, a) /\ Rank(t, n + 1) = Len(a)
    BY <1>1, <1>8, WordEnds DEF n
  <2>2. ArgChar(acc, NUL) = ArgAt("end", none, a) BY <1>8, UnquotedEnds DEF none
  <2> HIDE DEF a
  <2>3. a = Words(t) BY <2>1, WordsEqual DEF AllWords, n
  <2>4. ArgLeads(ArgStart, Append(t, NUL), ArgAt("end", none, a))
    BY <1>1, <1>6, <1>8, <2>2
  <2> QED BY <2>3, <2>4
<1> QED BY <1>2, <1>7, <1>8 DEF ReadUpTo, none

LEMMA StringsReadBack == ASSUME s \in SoundStrings PROVE ArgsReadBack
<1> DEFINE t == Str(s)
<1>1. t \in Text /\ Len(t) \in Nat /\ DOMAIN t = 1 .. Len(t)
  <2>1. t \in Text BY StringsAre, StrOf
  <2> HIDE DEF t
  <2> QED BY <2>1, LenProperties DEF Text
<1> HIDE DEF t
<1>2. ASSUME Quote \notin {t[k] : k \in DOMAIN t}
      PROVE  SplitArgs(t).argv = Words(CString(t))
  <2>1. PICK n \in 0 .. Len(t) : /\ CString(t) = SubSeq(t, 1, n)
                                 /\ \A k \in 1 .. n : t[k] # NUL
    BY <1>1, CStringOf
  <2> DEFINE u == CString(t)
  <2>2. u \in Text /\ Len(u) = n /\ \A k \in 1 .. n : u[k] = t[k]
    BY <1>1, <2>1, PrefixOf
  <2>3. \A k \in 1 .. n : t[k] # Quote BY <1>1, <1>2, <2>1
  <2> HIDE DEF u
  <2>4. \A k \in 1 .. Len(u) : u[k] \notin {Quote, NUL} BY <2>1, <2>2, <2>3
  <2>5. PICK cur : ArgLeads(ArgStart, Append(u, NUL), ArgAt("end", cur, Words(u)))
    BY <2>2, <2>4, WordsRead
  <2>6. SplitArgs(t).argv = Words(u) BY <1>1, <2>2, <2>5, SplitArgsIs DEF u
  <2> QED BY <2>6 DEF u
<1>3. ASSUME \A k \in DOMAIN t : IsPrint(t[k]), 2 * Len(t) + 2 <= IntMax
      PROVE  SplitArgs(<<"x", Space>> \o Quoted(t) \o <<Space, "x">>).argv
                 = <<<<"x">>, t, <<"x">>>>
  BY <1>1, <1>3, QuotedComesBack
<1> QED BY <1>2, <1>3, Zenon DEF ArgsReadBack, t

\* ArgsReadBack: sdssplitargs finds exactly the words of any line that has no
\* quote in it, and gives back any printable text that sdscatrepr has quoted,
\* however many of its bytes were escaped, if an int can count the quoted text.
THEOREM WordsReadBack == Spec => []ArgsReadBack
<1>1. Init => s \in SoundStrings BY InitString
<1>2. s \in SoundStrings /\ [Next]_s => (s \in SoundStrings)' BY NextString
<1>3. s \in SoundStrings => ArgsReadBack BY StringsReadBack
<1> QED BY <1>1, <1>2, <1>3, PTL DEF Spec
=============================================================================
