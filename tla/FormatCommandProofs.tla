------------------------- MODULE FormatCommandProofs ------------------------
(***************************************************************************)
(* What holds of FormatCommand, for all formats, arrays and calls that an  *)
(* int can count, for every width of an int, and for arguments that make a *)
(* command longer than one can say, too.                                   *)
(***************************************************************************)
EXTENDS FormatCommand, SdsProofs

-----------------------------------------------------------------------------
(***************************************************************************)
(* Types.                                                                  *)
(***************************************************************************)
Token == [k : Kinds, v : Text]
Value == [array : BOOLEAN, v : Text, elems : Seq(Text \cup {HOLE})]

\* The input is one of those its job is done with.
InputInv ==
    \/ job = "format" /\ input \in Formats
    \/ job = "incr" /\ input \in Increments
    \/ job \in {"argv", "strlen"} /\ input \in Vectors
    \/ job = "php" /\ input \in Calls

Failed == {"oom", "aborted", "overrun"}

\* The steps of one job are those of its function.
PcInv ==
    /\ pc \in {"start", "scan", "copy", "build", "done", "refused"} \cup Failed
    /\ pc \in {"scan"} => job \in {"format", "incr"}
    /\ pc \in {"copy", "refused"} => job = "php"
    /\ pc = "build" => job \in {"format", "incr", "php"}

TInv == /\ s \in SoundStrings /\ argv \in Seq(Text) /\ at \in Nat \ {0}
        /\ InputInv /\ PcInv

LEMMA BytesAreBytes == Bytes \subseteq Byte /\ Seq(Bytes) \subseteq Text
<1>1. Bytes \subseteq Byte BY DEF Bytes, Byte
<1>2. \A t \in Seq(Bytes) : t \in Seq(Byte) BY <1>1, SeqMonotonic
<1> QED BY <1>1, <1>2 DEF Text

LEMMA HoleIsNoText == HOLE \notin Text
<1>1. SUFFICES ASSUME HOLE \in Text PROVE FALSE OBVIOUS
<1>2. HOLE = <<"hole">> /\ 1 \in 1 .. Len(HOLE) BY DEF HOLE
<1>3. HOLE[1] \in Byte BY <1>1, <1>2, ElementOfSeq DEF Text
<1>4. "hole" \in Byte BY <1>2, <1>3
<1> QED BY <1>4 DEF Byte, Chars, NUL, JUNK, NL, Space, Quote, Slash

LEMMA FormatsTyped ==
    ASSUME NEW f \in Formats
    PROVE  /\ f \in Seq(Token)
           /\ \A k \in DOMAIN f :
                 /\ f[k].k \in {"char", "%%"} => f[k].v # <<>>
                 /\ f[k].k \in {"%d", "%f"} => CString(f[k].v) = f[k].v
<1>1. [k : Kinds, v : Seq(Bytes)] \subseteq Token BY BytesAreBytes DEF Token
<1> QED BY <1>1, SeqMonotonic, FormatAssumption

LEMMA VectorsTyped == Vectors \subseteq Seq(Text)
  BY BytesAreBytes, SeqMonotonic, FormatAssumption

LEMMA CallsTyped == Calls \subseteq Seq(Value)
<1>1. Seq(Bytes) \cup {HOLE} \subseteq Text \cup {HOLE} BY BytesAreBytes
<1>2. Seq(Seq(Bytes) \cup {HOLE}) \subseteq Seq(Text \cup {HOLE}) BY <1>1, SeqMonotonic
<1>3. [array : BOOLEAN, v : Seq(Bytes), elems : Seq(Seq(Bytes) \cup {HOLE})] \subseteq Value
  BY <1>2, BytesAreBytes DEF Value
<1> QED BY <1>3, SeqMonotonic, FormatAssumption

-----------------------------------------------------------------------------
(***************************************************************************)
(* Decimal numbers: Digits and IntLen go from a number to its tenth.       *)
(***************************************************************************)
IsDecimal(g, D, base, step) ==
    g = [n \in D |-> IF n < 10 THEN base[n] ELSE step[<<g[n \div 10], n % 10>>]]

LEMMA Tenth ==
    ASSUME NEW n \in Nat, n >= 10
    PROVE  n \div 10 \in Nat /\ n \div 10 < n /\ n % 10 \in 0 .. 9
           /\ n = 10 * (n \div 10) + (n % 10) /\ n \div 10 > 0
  OBVIOUS

LEMMA DecimalsAgree ==
    ASSUME NEW m \in Nat, NEW p \in Nat, NEW base, NEW step, NEW g, NEW h,
           IsDecimal(g, 0 .. m, base, step), IsDecimal(h, 0 .. p, base, step)
    PROVE  \A n \in Nat : n <= m /\ n <= p => g[n] = h[n]
<1> DEFINE T == {n \in Nat : n <= m /\ n <= p /\ g[n] # h[n]}
<1>1. ASSUME T # {} PROVE FALSE
  <2>1. PICK n \in T : \A y \in T : n <= y BY <1>1, Least
  <2>2. n \in 0 .. m /\ n \in 0 .. p BY <2>1
  <2>3. g[n] = IF n < 10 THEN base[n] ELSE step[<<g[n \div 10], n % 10>>]
    BY <2>2 DEF IsDecimal
  <2>4. h[n] = IF n < 10 THEN base[n] ELSE step[<<h[n \div 10], n % 10>>]
    BY <2>2 DEF IsDecimal
  <2>5. n >= 10 BY <2>1, <2>3, <2>4
  <2>6. n \div 10 \in Nat /\ n \div 10 < n BY <2>1, <2>5, Tenth
  <2>7. g[n \div 10] = h[n \div 10] BY <2>1, <2>6
  <2> QED BY <2>1, <2>3, <2>4, <2>7
<1> QED BY <1>1

LEMMA DecimalUpTo ==
    ASSUME NEW S, NEW base \in [0 .. 9 -> S], NEW step \in [S \X (0 .. 9) -> S],
           NEW m \in Nat
    PROVE  \E g \in [0 .. m -> S] : IsDecimal(g, 0 .. m, base, step)
<1> DEFINE Has(x) == \E g \in [0 .. x -> S] : IsDecimal(g, 0 .. x, base, step)
           T == {x \in Nat : ~Has(x)}
<1>1. SUFFICES ASSUME ~Has(m) PROVE FALSE OBVIOUS
<1> HIDE DEF Has
<1>2. PICK x \in T : \A y \in T : x <= y
  <2>1. m \in T BY <1>1
  <2> QED BY <2>1, Least
<1> DEFINE Full(h) == [n \in 0 .. x |-> IF n < 10 THEN base[n] ELSE step[<<h[n \div 10], n % 10>>]]
<1>3. CASE x < 10
  <2> DEFINE g == [n \in 0 .. x |-> base[n]]
  <2>1. g \in [0 .. x -> S] BY <1>2, <1>3
  <2>2. g = [n \in 0 .. x |-> base[n]] OBVIOUS
  <2> HIDE DEF g
  <2>3. \A n \in 0 .. x : base[n] = IF n < 10 THEN base[n] ELSE step[<<g[n \div 10], n % 10>>]
    BY <1>2, <1>3
  <2>4. IsDecimal(g, 0 .. x, base, step) BY <2>2, <2>3, Zenon DEF IsDecimal
  <2>5. Has(x) BY <2>1, <2>4 DEF Has
  <2> QED BY <1>2, <2>5
<1>4. CASE ~(x < 10)
  <2>1. x \in Nat /\ x - 1 \in Nat /\ x - 1 \notin T BY <1>2, <1>4
  <2>2. PICK h \in [0 .. x - 1 -> S] : IsDecimal(h, 0 .. x - 1, base, step)
    BY <2>1 DEF Has
  <2> DEFINE g == [n \in 0 .. x |-> IF n = x THEN step[<<h[x \div 10], x % 10>>] ELSE h[n]]
  <2>3. x \div 10 \in 0 .. x - 1 /\ x % 10 \in 0 .. 9 BY <2>1, <1>4, Tenth
  <2>4. \A n \in 0 .. x : n # x => n \in 0 .. x - 1 BY <2>1
  <2>5. step[<<h[x \div 10], x % 10>>] \in S BY <2>2, <2>3
  <2>6. g \in [0 .. x -> S] BY <2>2, <2>4, <2>5
  <2>7. ASSUME NEW n \in 0 .. x
        PROVE  g[n] = IF n < 10 THEN base[n] ELSE step[<<g[n \div 10], n % 10>>]
    <3>1. CASE n = x
      <4>1. x \div 10 \in 0 .. x /\ x \div 10 # x BY <2>1, <2>3
      <4>2. g[x \div 10] = h[x \div 10] BY <4>1
      <4>3. g[n] = step[<<h[x \div 10], x % 10>>] BY <3>1
      <4>4. ~(n < 10) BY <1>4, <3>1
      <4> HIDE DEF g
      <4>5. g[n] = step[<<g[n \div 10], n % 10>>] BY <3>1, <4>2, <4>3
      <4> DEFINE small == n < 10
      <4>6. ~small BY <4>4
      <4> HIDE DEF small
      <4>7. g[n] = IF small THEN base[n] ELSE step[<<g[n \div 10], n % 10>>] BY <4>5, <4>6, Zenon
      <4> QED BY <4>7 DEF small
    <3>2. CASE n # x
      <4>1. n \in 0 .. x - 1 /\ n \in Nat BY <2>4, <3>2
      <4>2. g[n] = h[n] BY <3>2
      <4>3. h[n] = IF n < 10 THEN base[n] ELSE step[<<h[n \div 10], n % 10>>]
        BY <2>2, <4>1 DEF IsDecimal
      <4>4. n >= 10 => n \div 10 \in 0 .. x /\ n \div 10 # x BY <2>1, <4>1, Tenth
      <4>5. n >= 10 => g[n \div 10] = h[n \div 10] BY <4>4
      <4> HIDE DEF g
      <4> DEFINE small == n < 10
      <4>6. ~small => step[<<h[n \div 10], n % 10>>] = step[<<g[n \div 10], n % 10>>]
        <5>1. SUFFICES ASSUME ~small PROVE h[n \div 10] = g[n \div 10] BY Zenon
        <5> QED BY <4>1, <4>5, <5>1
      <4>7. h[n] = IF small THEN base[n] ELSE step[<<h[n \div 10], n % 10>>] BY <4>3
      <4> HIDE DEF small
      <4>8. g[n] = IF small THEN base[n] ELSE step[<<g[n \div 10], n % 10>>]
        BY <4>2, <4>6, <4>7, Zenon
      <4> QED BY <4>8 DEF small
    <3> QED BY <3>1, <3>2
  <2>8. g = [n \in 0 .. x |-> g[n]] OBVIOUS
  <2> HIDE DEF g
  <2>9. IsDecimal(g, 0 .. x, base, step) BY <2>7, <2>8, Zenon DEF IsDecimal
  <2>10. Has(x) BY <2>6, <2>9 DEF Has
  <2> QED BY <1>2, <2>10
<1> QED BY <1>3, <1>4

LEMMA DecimalExists ==
    ASSUME NEW S, NEW base \in [0 .. 9 -> S], NEW step \in [S \X (0 .. 9) -> S]
    PROVE  \E h \in [Nat -> S] : IsDecimal(h, Nat, base, step)
<1> DEFINE G(n) == CHOOSE g \in [0 .. n -> S] : IsDecimal(g, 0 .. n, base, step)
           h == [n \in Nat |-> G(n)[n]]
<1>1. \A n \in Nat : G(n) \in [0 .. n -> S] /\ IsDecimal(G(n), 0 .. n, base, step)
  BY DecimalUpTo
<1>2. h = [n \in Nat |-> G(n)[n]] OBVIOUS
<1> HIDE DEF G, h
<1>3. \A n \in Nat : h[n] \in S
  <2>1. \A n \in Nat : n \in 0 .. n OBVIOUS
  <2> QED BY <1>1, <1>2, <2>1
<1>4. h \in [Nat -> S] BY <1>2, <1>3
<1>5. ASSUME NEW n \in Nat
      PROVE  h[n] = IF n < 10 THEN base[n] ELSE step[<<h[n \div 10], n % 10>>]
  <2>1. n \in 0 .. n OBVIOUS
  <2>2. G(n)[n] = IF n < 10 THEN base[n] ELSE step[<<G(n)[n \div 10], n % 10>>]
    BY <1>1, <2>1 DEF IsDecimal
  <2>3. CASE n < 10 BY <1>2, <2>2, <2>3
  <2>4. CASE n >= 10
    <3>1. n \div 10 \in Nat /\ n \div 10 <= n /\ n \div 10 <= n \div 10 BY <2>4, Tenth
    <3>2. G(n)[n \div 10] = G(n \div 10)[n \div 10] BY <1>1, <3>1, DecimalsAgree
    <3> QED BY <1>2, <2>2, <2>4, <3>1, <3>2
  <2> QED BY <2>3, <2>4
<1>6. h = [n \in Nat |-> IF n < 10 THEN base[n] ELSE step[<<h[n \div 10], n % 10>>]]
  BY <1>4, <1>5
<1> QED BY <1>4, <1>6 DEF IsDecimal

-----------------------------------------------------------------------------
(***************************************************************************)
(* The digits of a number, and how many there are.                         *)
(***************************************************************************)
LEMMA DigitCharsAre ==
    /\ DOMAIN DigitChars = 1 .. 10 /\ Len(DigitChars) = 10
    /\ \A d \in 0 .. 9 : /\ DigitChars[d + 1] \in Byte
                         /\ DigitChars[d + 1] \notin {"cr", NUL}
                         /\ DigitOf(DigitChars[d + 1]) = d
<1>1. DigitChars \in Seq(Byte) /\ Len(DigitChars) = 10 /\ DOMAIN DigitChars = 1 .. 10
  BY DEF DigitChars, Byte, Chars
<1>2. /\ DigitChars[1] = "0" /\ DigitChars[2] = "1" /\ DigitChars[3] = "2"
      /\ DigitChars[4] = "3" /\ DigitChars[5] = "4" /\ DigitChars[6] = "5"
      /\ DigitChars[7] = "6" /\ DigitChars[8] = "7" /\ DigitChars[9] = "8"
      /\ DigitChars[10] = "9"
  BY DEF DigitChars
<1>3. \A j, k \in 1 .. 10 : DigitChars[j] = DigitChars[k] => j = k
  BY <1>2
<1>4. ASSUME NEW d \in 0 .. 9
      PROVE  /\ DigitChars[d + 1] \in Byte /\ DigitChars[d + 1] \notin {"cr", NUL}
             /\ DigitOf(DigitChars[d + 1]) = d
  <2>1. d + 1 \in 1 .. 10 OBVIOUS
  <2>2. DigitChars[d + 1] \in Byte BY <1>1, <2>1, ElementOfSeq
  <2>3. DigitChars[d + 1] \notin {"cr", NUL} BY <1>2, <2>1 DEF NUL
  <2> DEFINE I == {i \in 1 .. Len(DigitChars) : DigitChars[i] = DigitChars[d + 1]}
  <2>4. I = {d + 1} BY <1>1, <1>3, <2>1
  <2>5. Min(I) = d + 1
    <3>1. I \in SUBSET Nat /\ I # {} BY <2>4
    <3> HIDE DEF I
    <3> QED BY <2>4, <3>1, MinOf
  <2>6. SelectInSeq(DigitChars, LAMBDA c : c = DigitChars[d + 1]) = d + 1
    BY <2>4, <2>5 DEF SelectInSeq
  <2> QED BY <2>2, <2>3, <2>6 DEF DigitOf
<1> QED BY <1>1, <1>4

LEMMA DigitsAre ==
    /\ Digits \in [Nat -> Text]
    /\ \A n \in Nat : Digits[n] = IF n < 10 THEN <<DigitChars[n + 1]>>
                                  ELSE Append(Digits[n \div 10], DigitChars[(n % 10) + 1])
<1> DEFINE base == [d \in 0 .. 9 |-> <<DigitChars[d + 1]>>]
           step == [p \in Text \X (0 .. 9) |-> Append(p[1], DigitChars[p[2] + 1])]
<1>1. base \in [0 .. 9 -> Text] /\ step \in [Text \X (0 .. 9) -> Text]
  BY DigitCharsAre DEF Text
<1>2. \A n \in Nat : n < 10 => n \in 0 .. 9 /\ base[n] = <<DigitChars[n + 1]>> OBVIOUS
<1>3. \A x \in Text, d \in 0 .. 9 : step[<<x, d>>] = Append(x, DigitChars[d + 1]) OBVIOUS
<1> HIDE DEF base, step
<1>4. PICK h \in [Nat -> Text] : IsDecimal(h, Nat, base, step)
  <2>1. \E g \in [Nat -> Text] : IsDecimal(g, Nat, base, step) BY <1>1, DecimalExists
  <2> QED BY <2>1
<1>5. ASSUME NEW n \in Nat
      PROVE  h[n] = IF n < 10 THEN <<DigitChars[n + 1]>>
                    ELSE Append(h[n \div 10], DigitChars[(n % 10) + 1])
  <2>1. h[n] = IF n < 10 THEN base[n] ELSE step[<<h[n \div 10], n % 10>>] BY <1>4 DEF IsDecimal
  <2>2. CASE n < 10 BY <1>2, <2>1, <2>2
  <2>3. CASE n >= 10
    <3>1. n \div 10 \in Nat /\ n % 10 \in 0 .. 9 BY <2>3, Tenth
    <3>2. h[n \div 10] \in Text BY <1>4, <3>1
    <3>3. step[<<h[n \div 10], n % 10>>] = Append(h[n \div 10], DigitChars[(n % 10) + 1])
      BY <1>3, <3>1, <3>2
    <3> QED BY <2>1, <2>3, <3>3
  <2> QED BY <2>2, <2>3
<1>6. h = [n \in Nat |-> IF n < 10 THEN <<DigitChars[n + 1]>>
                         ELSE Append(h[n \div 10], DigitChars[(n % 10) + 1])]
  <2>1. h = [n \in Nat |-> h[n]] OBVIOUS
  <2> QED BY <1>5, <2>1, Zenon
<1> DEFINE D == CHOOSE f : f = [n \in Nat |-> IF n < 10 THEN <<DigitChars[n + 1]>>
                                   ELSE Append(f[n \div 10], DigitChars[(n % 10) + 1])]
<1>7. D = [n \in Nat |-> IF n < 10 THEN <<DigitChars[n + 1]>>
                         ELSE Append(D[n \div 10], DigitChars[(n % 10) + 1])]
  BY <1>6, Zenon
<1>8. Digits = D BY DEF Digits
<1> HIDE DEF D
<1>9. \A n \in Nat : Digits[n] = IF n < 10 THEN <<DigitChars[n + 1]>>
                                 ELSE Append(Digits[n \div 10], DigitChars[(n % 10) + 1])
  BY <1>7, <1>8, Zenon
<1>10. ASSUME NEW n \in Nat PROVE Digits[n] \in Text
  <2> DEFINE T == {m \in Nat : Digits[m] \notin Text}
  <2>1. ASSUME T # {} PROVE FALSE
    <3>1. PICK m \in T : \A y \in T : m <= y BY <2>1, Least
    <3>2. m \in Nat /\ Digits[m] \notin Text BY <3>1
    <3>3. CASE m < 10
      <4>1. Digits[m] = <<DigitChars[m + 1]>> BY <1>9, <3>2, <3>3
      <4>2. DigitChars[m + 1] \in Byte BY <3>2, <3>3, DigitCharsAre
      <4> QED BY <3>2, <4>1, <4>2 DEF Text
    <3>4. CASE m >= 10
      <4>1. m \div 10 \in Nat /\ m \div 10 < m /\ m % 10 \in 0 .. 9 BY <3>2, <3>4, Tenth
      <4>2. Digits[m \div 10] \in Text BY <3>1, <4>1
      <4> DEFINE small == m < 10
      <4>5. ~small BY <3>2, <3>4
      <4>6. Digits[m] = IF small THEN <<DigitChars[m + 1]>>
                        ELSE Append(Digits[m \div 10], DigitChars[(m % 10) + 1])
        BY <1>9, <3>2, Zenon
      <4> HIDE DEF small
      <4>3. Digits[m] = Append(Digits[m \div 10], DigitChars[(m % 10) + 1])
        BY <4>5, <4>6, Zenon
      <4>4. DigitChars[(m % 10) + 1] \in Byte BY <4>1, DigitCharsAre
      <4> QED BY <3>2, <4>2, <4>3, <4>4, AppendProperties DEF Text
    <3> QED BY <3>2, <3>3, <3>4
  <2> QED BY <2>1
<1>11. Digits = [n \in Nat |-> Digits[n]]
  BY <1>7, <1>8
<1> QED BY <1>9, <1>10, <1>11

LEMMA IntLenIs ==
    \E len \in [Nat -> Nat] :
        /\ \A n \in Nat : len[n] = IF n < 10 THEN 1 ELSE 1 + len[n \div 10]
        /\ \A n \in Nat : IntLen(n) = len[n]
        /\ \A n \in Int : n < 0 => IntLen(n) = 1 + len[-n]
<1> DEFINE base == [d \in 0 .. 9 |-> 1]
           step == [p \in Nat \X (0 .. 9) |-> 1 + p[1]]
<1>1. base \in [0 .. 9 -> Nat] /\ step \in [Nat \X (0 .. 9) -> Nat] OBVIOUS
<1>2. \A n \in Nat : n < 10 => base[n] = 1 OBVIOUS
<1>3. \A x \in Nat, d \in 0 .. 9 : step[<<x, d>>] = 1 + x OBVIOUS
<1> HIDE DEF base, step
<1>4. PICK h \in [Nat -> Nat] : IsDecimal(h, Nat, base, step)
  <2>1. \E g \in [Nat -> Nat] : IsDecimal(g, Nat, base, step) BY <1>1, DecimalExists
  <2> QED BY <2>1
<1>5. ASSUME NEW n \in Nat
      PROVE  h[n] = IF n < 10 THEN 1 ELSE 1 + h[n \div 10]
  <2>1. h[n] = IF n < 10 THEN base[n] ELSE step[<<h[n \div 10], n % 10>>] BY <1>4 DEF IsDecimal
  <2>2. CASE n < 10 BY <1>2, <2>1, <2>2
  <2>3. CASE n >= 10
    <3>1. n \div 10 \in Nat /\ n % 10 \in 0 .. 9 BY <2>3, Tenth
    <3>2. h[n \div 10] \in Nat BY <1>4, <3>1
    <3>3. step[<<h[n \div 10], n % 10>>] = 1 + h[n \div 10] BY <1>3, <3>1, <3>2
    <3> QED BY <2>1, <2>3, <3>3
  <2> QED BY <2>2, <2>3
<1>6. h = [n \in Nat |-> IF n < 10 THEN 1 ELSE 1 + h[n \div 10]]
  <2>1. h = [n \in Nat |-> h[n]] OBVIOUS
  <2> QED BY <1>5, <2>1, Zenon
<1> DEFINE D == CHOOSE f : f = [n \in Nat |-> IF n < 10 THEN 1 ELSE 1 + f[n \div 10]]
<1>7. D = [n \in Nat |-> IF n < 10 THEN 1 ELSE 1 + D[n \div 10]] BY <1>6, Zenon
<1>8. \A n \in Int : IntLen(n) = IF n < 0 THEN 1 + D[-n] ELSE D[n] BY DEF IntLen
<1> HIDE DEF D
<1>9. \A n \in Nat : D[n] = IF n < 10 THEN 1 ELSE 1 + D[n \div 10] BY <1>7, Zenon
<1>10. ASSUME NEW n \in Nat PROVE D[n] \in Nat
  <2> DEFINE T == {m \in Nat : D[m] \notin Nat}
  <2>1. ASSUME T # {} PROVE FALSE
    <3>1. PICK m \in T : \A y \in T : m <= y BY <2>1, Least
    <3>2. m >= 10 => m \div 10 \in Nat /\ m \div 10 < m BY <3>1, Tenth
    <3>3. m >= 10 => D[m \div 10] \in Nat BY <3>1, <3>2
    <3>4. m >= 10 => D[m] = 1 + D[m \div 10] BY <1>9, <3>1
    <3>5. m < 10 => D[m] = 1 BY <1>9, <3>1
    <3>6. D[m] \in Nat BY <3>1, <3>3, <3>4, <3>5
    <3> QED BY <3>1, <3>6
  <2> QED BY <2>1
<1>11. D = [n \in Nat |-> D[n]] BY <1>7
<1>12. D \in [Nat -> Nat] BY <1>10, <1>11
<1>13. \A n \in Nat : IntLen(n) = D[n] BY <1>8
<1>14. \A n \in Int : n < 0 => IntLen(n) = 1 + D[-n] BY <1>8
<1> QED BY <1>9, <1>12, <1>13, <1>14

\* A number has as many digits as intlen says, and at least one.
LEMMA DigitsLength ==
    \A n \in Nat : Len(Digits[n]) = IntLen(n) /\ IntLen(n) \in Nat \ {0}
<1>1. PICK len \in [Nat -> Nat] :
        /\ \A n \in Nat : len[n] = IF n < 10 THEN 1 ELSE 1 + len[n \div 10]
        /\ \A n \in Nat : IntLen(n) = len[n]
        /\ \A n \in Int : n < 0 => IntLen(n) = 1 + len[-n]
  BY IntLenIs
<1> DEFINE T == {m \in Nat : Len(Digits[m]) # len[m] \/ len[m] = 0}
<1>2. ASSUME T # {} PROVE FALSE
  <2>1. PICK m \in T : \A y \in T : m <= y BY <1>2, Least
  <2>2. m \in Nat BY <2>1
  <2>3. CASE m < 10
    <3>1. Digits[m] = <<DigitChars[m + 1]>> BY <2>2, <2>3, DigitsAre
    <3>2. Len(Digits[m]) = 1 BY <3>1
    <3>3. len[m] = 1 BY <1>1, <2>2, <2>3
    <3> QED BY <2>1, <3>2, <3>3
  <2>4. CASE m >= 10
    <3>1. m \div 10 \in Nat /\ m \div 10 < m /\ m % 10 \in 0 .. 9 BY <2>2, <2>4, Tenth
    <3>2. Len(Digits[m \div 10]) = len[m \div 10] BY <2>1, <3>1
    <3>3. Digits[m] = Append(Digits[m \div 10], DigitChars[(m % 10) + 1])
      BY <2>2, <2>4, DigitsAre
    <3>4. Digits[m \div 10] \in Text /\ DigitChars[(m % 10) + 1] \in Byte
      BY <3>1, DigitsAre, DigitCharsAre
    <3>5. Len(Digits[m]) = Len(Digits[m \div 10]) + 1 BY <3>3, <3>4, AppendProperties DEF Text
    <3>6. len[m] = 1 + len[m \div 10] /\ len[m \div 10] \in Nat BY <1>1, <2>2, <2>4, <3>1
    <3>7. Len(Digits[m]) = len[m] /\ len[m] # 0 BY <3>2, <3>5, <3>6
    <3> QED BY <2>1, <3>7
  <2> QED BY <2>2, <2>3, <2>4
<1> QED BY <1>1, <1>2

-----------------------------------------------------------------------------
(***************************************************************************)
(* FlattenSeq, by the lengths of what comes before each of its parts.      *)
(***************************************************************************)
IsJoin(g, seqs, n) ==
    g = [i \in 1 .. n |-> IF i = 1 THEN seqs[i] ELSE g[i-1] \o seqs[i]]
Join(seqs) == CHOOSE g : g = [i \in 1 .. Len(seqs) |->
                                 IF i = 1 THEN seqs[i] ELSE g[i-1] \o seqs[i]]

LEMMA JoinExists ==
    ASSUME NEW seqs, NEW n \in Nat
    PROVE  \E g : IsJoin(g, seqs, n)
<1> DEFINE T == {m \in Nat : ~ \E g : IsJoin(g, seqs, m)}
<1>1. SUFFICES T = {} OBVIOUS
<1>2. SUFFICES ASSUME T # {} PROVE FALSE OBVIOUS
<1>3. PICK m \in T : \A y \in T : m <= y BY <1>2, Least
<1>4. CASE m = 0
  <2> DEFINE g == [i \in 1 .. 0 |-> seqs[i]]
  <2>1. \A i \in 1 .. 0 : seqs[i] = IF i = 1 THEN seqs[i] ELSE g[i-1] \o seqs[i]
    OBVIOUS
  <2>2. g = [i \in 1 .. 0 |-> IF i = 1 THEN seqs[i] ELSE g[i-1] \o seqs[i]]
    BY <2>1, Zenon
  <2>3. IsJoin(g, seqs, 0) BY <2>2 DEF IsJoin
  <2> QED BY <1>3, <1>4, <2>3
<1>5. CASE m > 0
  <2>1. m - 1 \in Nat /\ m - 1 \notin T /\ m \in Nat BY <1>3, <1>5
  <2>2. PICK h : IsJoin(h, seqs, m - 1) BY <2>1
  <2> DEFINE g == [i \in 1 .. m |-> IF i = 1 THEN seqs[i] ELSE h[i-1] \o seqs[i]]
  <2>3. ASSUME NEW i \in 1 .. m - 1 PROVE g[i] = h[i]
    <3>1. g[i] = IF i = 1 THEN seqs[i] ELSE h[i-1] \o seqs[i] BY <2>1
    <3> QED BY <2>2, <3>1 DEF IsJoin
  <2>4. ASSUME NEW i \in 1 .. m, i # 1 PROVE g[i-1] = h[i-1]
    <3>1. i - 1 \in 1 .. m - 1 BY <2>1, <2>4
    <3> QED BY <3>1, <2>3
  <2> HIDE DEF g
  <2>5. g = [i \in 1 .. m |-> IF i = 1 THEN seqs[i] ELSE g[i-1] \o seqs[i]]
    BY <2>4 DEF g
  <2>6. IsJoin(g, seqs, m) BY <2>5 DEF IsJoin
  <2> QED BY <1>3, <2>6
<1> QED BY <1>3, <1>4, <1>5

LEMMA JoinUnfolds ==
    ASSUME NEW seqs, Len(seqs) \in Nat
    PROVE  IsJoin(Join(seqs), seqs, Len(seqs))
  BY JoinExists DEF IsJoin, Join

\* What the first i parts flatten to.
JoinTo(seqs, i) == IF i = 0 THEN <<>> ELSE Join(seqs)[i]
Off(seqs, i) == Len(JoinTo(seqs, i))

LEMMA JoinToStep ==
    ASSUME NEW S, NEW seqs \in Seq(Seq(S)), NEW i \in 1 .. Len(seqs)
    PROVE  /\ seqs[i] \in Seq(S)
           /\ i = 1 => JoinTo(seqs, i) = seqs[i] /\ JoinTo(seqs, i - 1) = <<>>
           /\ i # 1 => JoinTo(seqs, i) = JoinTo(seqs, i - 1) \o seqs[i]
<1>1. IsJoin(Join(seqs), seqs, Len(seqs)) BY JoinUnfolds, LenProperties
<1>2. Join(seqs)[i] = IF i = 1 THEN seqs[i] ELSE Join(seqs)[i-1] \o seqs[i]
  BY <1>1 DEF IsJoin
<1>3. seqs[i] \in Seq(S) BY ElementOfSeq
<1>4. CASE i = 1
  <2>1. JoinTo(seqs, i) = seqs[i] BY <1>2, <1>4 DEF JoinTo
  <2>2. JoinTo(seqs, i - 1) = <<>> BY <1>4 DEF JoinTo
  <2> QED BY <1>3, <1>4, <2>1, <2>2
<1>5. CASE i # 1
  <2>1. i # 0 /\ i - 1 # 0 BY <1>5
  <2> QED BY <1>2, <1>3, <1>5, <2>1 DEF JoinTo
<1> QED BY <1>4, <1>5

LEMMA JoinToType ==
    ASSUME NEW S, NEW seqs \in Seq(Seq(S)), NEW i \in 0 .. Len(seqs)
    PROVE  /\ JoinTo(seqs, i) \in Seq(S) /\ Off(seqs, i) \in Nat
           /\ i > 0 => Off(seqs, i) = Off(seqs, i - 1) + Len(seqs[i])
<1> DEFINE T == {m \in Nat : m <= Len(seqs) /\ JoinTo(seqs, m) \notin Seq(S)}
<1>1. ASSUME T # {} PROVE FALSE
  <2>1. PICK m \in T : \A y \in T : m <= y BY <1>1, Least
  <2>2. m # 0
    <3>1. JoinTo(seqs, 0) = <<>> /\ <<>> \in Seq(S) BY DEF JoinTo
    <3> QED BY <2>1, <3>1
  <2>3. m \in 1 .. Len(seqs) /\ m - 1 \notin T /\ m - 1 \in Nat BY <2>1, <2>2, LenProperties
  <2>4. JoinTo(seqs, m - 1) \in Seq(S) BY <2>3, LenProperties
  <2>5. JoinTo(seqs, m) \in Seq(S)
    <3>1. CASE m = 1 BY ZenonT(60), <2>3, <3>1, JoinToStep
    <3>2. CASE m # 1
      <4>1. JoinTo(seqs, m) = JoinTo(seqs, m - 1) \o seqs[m] /\ seqs[m] \in Seq(S)
        BY <2>3, <3>2, JoinToStep
      <4> QED BY <2>4, <4>1, ConcatProperties
    <3> QED BY <3>1, <3>2
  <2> QED BY <2>1, <2>5
<1>2. \A m \in 0 .. Len(seqs) : JoinTo(seqs, m) \in Seq(S) BY <1>1
<1>3. ASSUME i > 0 PROVE Off(seqs, i) = Off(seqs, i - 1) + Len(seqs[i])
  <2>1. i \in 1 .. Len(seqs) /\ i - 1 \in 0 .. Len(seqs) BY <1>3, LenProperties
  <2>2. JoinTo(seqs, i - 1) \in Seq(S) BY <1>2, <2>1
  <2>3. seqs[i] \in Seq(S) /\ Len(seqs[i]) \in Nat BY <2>1, JoinToStep, LenProperties
  <2>4. CASE i = 1
    <3>1. JoinTo(seqs, i) = seqs[i] /\ JoinTo(seqs, i - 1) = <<>>
      BY <2>1, <2>4, JoinToStep
    <3>2. Off(seqs, i) = Len(seqs[i]) /\ Off(seqs, i - 1) = 0 BY <3>1 DEF Off
    <3> QED BY <2>3, <3>2
  <2>5. CASE i # 1
    <3>1. JoinTo(seqs, i) = JoinTo(seqs, i - 1) \o seqs[i] BY <2>1, <2>5, JoinToStep
    <3> QED BY <2>2, <2>3, <3>1, ConcatProperties DEF Off
  <2> QED BY <2>4, <2>5
<1> QED BY <1>2, <1>3, LenProperties DEF Off

LEMMA FlattenIsJoinTo ==
    ASSUME NEW S, NEW seqs \in Seq(Seq(S))
    PROVE  FlattenSeq(seqs) = JoinTo(seqs, Len(seqs)) /\ FlattenSeq(seqs) \in Seq(S)
<1>1. CASE Len(seqs) = 0
  <2>1. seqs = <<>> BY <1>1, EmptySeq
  <2> QED BY <1>1, <2>1 DEF FlattenSeq, JoinTo
<1>2. CASE Len(seqs) # 0
  <2>1. FlattenSeq(seqs) = Join(seqs)[Len(seqs)] BY <1>2 DEF FlattenSeq, Join
  <2>2. JoinTo(seqs, Len(seqs)) = Join(seqs)[Len(seqs)] BY <1>2 DEF JoinTo
  <2>3. Len(seqs) \in 0 .. Len(seqs) BY LenProperties
  <2> QED BY <2>1, <2>2, <2>3, JoinToType
<1> QED BY <1>1, <1>2

\* What was flattened stays in front of what follows.
LEMMA JoinToStays ==
    ASSUME NEW S, NEW seqs \in Seq(Seq(S)), NEW n \in 0 .. Len(seqs), NEW i \in 0 .. n
    PROVE  /\ Off(seqs, i) <= Off(seqs, n)
           /\ \A p \in 1 .. Off(seqs, i) : JoinTo(seqs, n)[p] = JoinTo(seqs, i)[p]
<1> DEFINE Stays(m) == /\ Off(seqs, i) <= Off(seqs, m)
                       /\ \A p \in 1 .. Off(seqs, i) : JoinTo(seqs, m)[p] = JoinTo(seqs, i)[p]
           T == {m \in Nat : m >= i /\ m <= Len(seqs) /\ ~Stays(m)}
<1>0. Len(seqs) \in Nat BY LenProperties
<1>1. ASSUME T # {} PROVE FALSE
  <2>1. PICK m \in T : \A y \in T : m <= y BY <1>1, Least
  <2>2. Stays(i)
    <3>1. Off(seqs, i) \in Nat BY <1>0, JoinToType
    <3> QED BY <3>1
  <2>3. m # i BY <2>1, <2>2
  <2>4. m \in 1 .. Len(seqs) /\ m - 1 \in 0 .. Len(seqs) /\ m - 1 \notin T /\ m - 1 >= i
    BY <1>0, <2>1, <2>3
  <2>5. Stays(m - 1) BY <1>0, <2>4
  <2>6. /\ Off(seqs, m) = Off(seqs, m - 1) + Len(seqs[m])
        /\ Off(seqs, m) \in Nat /\ Off(seqs, m - 1) \in Nat /\ Off(seqs, i) \in Nat
        /\ JoinTo(seqs, m - 1) \in Seq(S) /\ seqs[m] \in Seq(S) /\ Len(seqs[m]) \in Nat
    <3>1. m > 0 /\ m \in 0 .. Len(seqs) /\ i \in 0 .. Len(seqs) BY <1>0, <2>4
    <3>2. seqs[m] \in Seq(S) BY <2>4, ElementOfSeq
    <3> QED BY <2>4, <3>1, <3>2, JoinToType, LenProperties
  <2>7. ASSUME NEW p \in 1 .. Off(seqs, i) PROVE JoinTo(seqs, m)[p] = JoinTo(seqs, i)[p]
    <3>1. JoinTo(seqs, m - 1)[p] = JoinTo(seqs, i)[p] /\ p \in 1 .. Off(seqs, m - 1)
      BY <2>5, <2>6
    <3>2. CASE m = 1
      <4>1. JoinTo(seqs, m - 1) = <<>> BY <2>4, <3>2, JoinToStep
      <4>2. Len(<<>>) = 0 OBVIOUS
      <4>3. Off(seqs, m - 1) = 0 BY <4>1, <4>2 DEF Off
      <4> QED BY <3>1, <4>3
    <3>3. CASE m # 1
      <4>1. JoinTo(seqs, m) = JoinTo(seqs, m - 1) \o seqs[m] BY <2>4, <3>3, JoinToStep
      <4>2. (JoinTo(seqs, m - 1) \o seqs[m])[p] = JoinTo(seqs, m - 1)[p]
        BY <2>6, <3>1, ConcatProperties DEF Off
      <4> QED BY <3>1, <4>1, <4>2
    <3> QED BY <3>2, <3>3
  <2>8. Stays(m) BY <2>5, <2>6, <2>7
  <2> QED BY <2>1, <2>8
<1>2. n \in Nat /\ n >= i /\ n <= Len(seqs) BY <1>0
<1>3. Stays(n) BY <1>1, <1>2
<1> QED BY <1>3

\* The parts, where they lie in the whole.
LEMMA FlattenPart ==
    ASSUME NEW S, NEW seqs \in Seq(Seq(S)), NEW i \in 1 .. Len(seqs)
    PROVE  /\ Off(seqs, i - 1) \in Nat /\ Len(seqs[i]) \in Nat
           /\ Off(seqs, i) = Off(seqs, i - 1) + Len(seqs[i])
           /\ Off(seqs, i) <= Len(FlattenSeq(seqs))
           /\ \A p \in 1 .. Len(seqs[i]) : FlattenSeq(seqs)[Off(seqs, i - 1) + p] = seqs[i][p]
<1>1. Len(seqs) \in Nat /\ i > 0 /\ i \in 0 .. Len(seqs) /\ i - 1 \in 0 .. Len(seqs)
      /\ Len(seqs) \in 0 .. Len(seqs) /\ i \in 0 .. Len(seqs)
  BY LenProperties
<1>2. seqs[i] \in Seq(S) /\ Len(seqs[i]) \in Nat BY ElementOfSeq, LenProperties
<1>3. /\ Off(seqs, i) = Off(seqs, i - 1) + Len(seqs[i])
      /\ Off(seqs, i) \in Nat /\ Off(seqs, i - 1) \in Nat
      /\ JoinTo(seqs, i - 1) \in Seq(S)
  BY <1>1, JoinToType
<1>4. FlattenSeq(seqs) = JoinTo(seqs, Len(seqs)) BY FlattenIsJoinTo
<1>5. /\ Off(seqs, i) <= Off(seqs, Len(seqs))
      /\ \A p \in 1 .. Off(seqs, i) : FlattenSeq(seqs)[p] = JoinTo(seqs, i)[p]
  BY SMTT(30), <1>1, <1>4, JoinToStays
<1>6. ASSUME NEW p \in 1 .. Len(seqs[i])
      PROVE  FlattenSeq(seqs)[Off(seqs, i - 1) + p] = seqs[i][p]
  <2>1. Off(seqs, i - 1) + p \in 1 .. Off(seqs, i) BY SMTT(30), <1>2, <1>3
  <2>2. FlattenSeq(seqs)[Off(seqs, i - 1) + p] = JoinTo(seqs, i)[Off(seqs, i - 1) + p]
    BY <1>5, <2>1
  <2>3. CASE i = 1
    <3>1. JoinTo(seqs, i) = seqs[i] /\ JoinTo(seqs, i - 1) = <<>> BY <2>3, JoinToStep
    <3>2. Off(seqs, i - 1) = 0 BY <3>1 DEF Off
    <3> QED BY <2>2, <3>1, <3>2
  <2>4. CASE i # 1
    <3>1. JoinTo(seqs, i) = JoinTo(seqs, i - 1) \o seqs[i] BY <2>4, JoinToStep
    <3>2. (JoinTo(seqs, i - 1) \o seqs[i])[Off(seqs, i - 1) + p] = seqs[i][p]
      <4> DEFINE q == Off(seqs, i - 1) + p
                 f == JoinTo(seqs, i - 1)
      <4>2. q - Len(f) = p /\ ~(q <= Len(f)) /\ q \in 1 .. Len(f) + Len(seqs[i])
            /\ f \in Seq(S)
        BY <1>2, <1>3 DEF Off
      <4> HIDE DEF q, f
      <4>3. (f \o seqs[i])[q] = seqs[i][p]
        BY <1>2, <4>2, ConcatProperties
      <4> QED BY <4>3 DEF q, f
    <3> QED BY <2>2, <3>1, <3>2
  <2> QED BY <2>3, <2>4
<1> QED BY <1>2, <1>3, <1>4, <1>5, <1>6 DEF Off

LEMMA FlattenLength ==
    ASSUME NEW S, NEW seqs \in Seq(Seq(S))
    PROVE  Len(FlattenSeq(seqs)) = Off(seqs, Len(seqs))
  BY FlattenIsJoinTo DEF Off

\* The parts to come do not matter.
LEMMA JoinToAgree ==
    ASSUME NEW S, NEW seqs \in Seq(Seq(S)), NEW more \in Seq(Seq(S)), NEW n \in Nat,
           n <= Len(seqs), n <= Len(more), \A k \in 1 .. n : seqs[k] = more[k]
    PROVE  JoinTo(seqs, n) = JoinTo(more, n)
<1> DEFINE T == {m \in Nat : m <= n /\ JoinTo(seqs, m) # JoinTo(more, m)}
<1>0. Len(seqs) \in Nat /\ Len(more) \in Nat BY LenProperties
<1>1. ASSUME T # {} PROVE FALSE
  <2>1. PICK m \in T : \A y \in T : m <= y BY <1>1, Least
  <2>2. m # 0 BY <2>1 DEF JoinTo
  <2>3. m \in 1 .. n /\ m \in 1 .. Len(seqs) /\ m \in 1 .. Len(more)
        /\ m - 1 \in Nat /\ m - 1 \notin T
    BY <1>0, <2>1, <2>2
  <2>4. JoinTo(seqs, m - 1) = JoinTo(more, m - 1) BY <2>1, <2>3
  <2>5. seqs[m] = more[m] BY <2>3
  <2>6. CASE m = 1
    <3>1. JoinTo(seqs, m) = seqs[m] /\ JoinTo(more, m) = more[m] BY <2>3, <2>6, JoinToStep
    <3> QED BY <2>1, <2>5, <3>1
  <2>7. CASE m # 1
    <3>1. /\ JoinTo(seqs, m) = JoinTo(seqs, m - 1) \o seqs[m]
          /\ JoinTo(more, m) = JoinTo(more, m - 1) \o more[m]
      BY <2>3, <2>7, JoinToStep
    <3> QED BY <2>1, <2>4, <2>5, <3>1
  <2> QED BY <2>6, <2>7
<1> QED BY <1>1

LEMMA FlattenEmpty == FlattenSeq(<<>>) = <<>> BY DEF FlattenSeq

LEMMA FlattenAppend ==
    ASSUME NEW S, NEW seqs \in Seq(Seq(S)), NEW t \in Seq(S)
    PROVE  FlattenSeq(Append(seqs, t)) = FlattenSeq(seqs) \o t
<1> DEFINE n == Len(seqs)
           more == Append(seqs, t)
<1>1. n \in Nat /\ more \in Seq(Seq(S)) /\ Len(more) = n + 1 /\ more[n + 1] = t
      /\ \A k \in 1 .. n : more[k] = seqs[k]
  BY AppendProperties, LenProperties
<1> HIDE DEF more
<1>2. FlattenSeq(seqs) = JoinTo(seqs, n) /\ FlattenSeq(seqs) \in Seq(S) BY FlattenIsJoinTo
<1>3. FlattenSeq(more) = JoinTo(more, n + 1) BY <1>1, FlattenIsJoinTo
<1> HIDE DEF n
<1>4. n + 1 \in 1 .. Len(more) /\ (n + 1) - 1 = n BY <1>1
<1>5. CASE n = 0
  <2>0. n + 1 = 1 /\ 1 \in 1 .. Len(more) BY <1>4, <1>5
  <2>4. JoinTo(more, 1) = more[1] BY <1>1, <2>0, JoinToStep
  <2>1. JoinTo(more, n + 1) = more[n + 1] BY <2>0, <2>4
  <2>2. JoinTo(seqs, n) = <<>> BY <1>5 DEF JoinTo
  <2>3. <<>> \o t = t OBVIOUS
  <2> QED BY <1>1, <1>2, <1>3, <2>1, <2>2, <2>3 DEF more
<1>6. CASE n # 0
  <2>1. n + 1 # 1 BY <1>1, <1>6
  <2>2. JoinTo(more, n + 1) = JoinTo(more, (n + 1) - 1) \o more[n + 1]
    BY <1>1, <1>4, <2>1, JoinToStep
  <2>3. JoinTo(more, n) = JoinTo(seqs, n)
    <3>1. n <= Len(seqs) /\ n <= Len(more) BY <1>1 DEF n
    <3> QED BY <1>1, <3>1, JoinToAgree
  <2> QED BY <1>1, <1>2, <1>3, <1>4, <2>2, <2>3 DEF more
<1> QED BY <1>5, <1>6

LEMMA FlattenOne ==
    ASSUME NEW S, NEW t \in Seq(S) PROVE FlattenSeq(<<t>>) = t
<1>1. <<>> \in Seq(Seq(S)) /\ Append(<<>>, t) = <<t>> /\ <<>> \o t = t OBVIOUS
<1> QED BY <1>1, FlattenEmpty, FlattenAppend

-----------------------------------------------------------------------------
(***************************************************************************)
(* The length of a command.                                                *)
(***************************************************************************)
LEMMA IntLenIsNat == \A i \in Int : IntLen(i) \in Nat
<1>1. PICK len \in [Nat -> Nat] :
        /\ \A n \in Nat : len[n] = IF n < 10 THEN 1 ELSE 1 + len[n \div 10]
        /\ \A n \in Nat : IntLen(n) = len[n]
        /\ \A n \in Int : n < 0 => IntLen(n) = 1 + len[-n]
  BY IntLenIs
<1> SUFFICES ASSUME NEW i \in Int PROVE IntLen(i) \in Nat OBVIOUS
<1>2. CASE i < 0
  <2>1. -i \in Nat BY <1>2
  <2> QED BY <1>1, <1>2, <2>1
<1>3. CASE ~(i < 0)
  <2>1. i \in Nat BY <1>3
  <2> QED BY <1>1, <2>1
<1> QED BY <1>2, <1>3

\* The bytes of an argument, its length in front of it; intlen counts them
\* right if an int can.
BulkLen(n) == 1 + IntLen(n) + 2 + n + 2

LEMMA ArgLenIsNat ==
    \A n \in Nat : /\ ArgLen(n) \in Nat /\ CountLen(n) \in Nat
                   /\ BulkLen(n) \in Nat /\ BulkLen(n) >= n
                   /\ n <= IntMax => ArgLen(n) = BulkLen(n)
<1> SUFFICES ASSUME NEW n \in Nat
             PROVE  /\ ArgLen(n) \in Nat /\ CountLen(n) \in Nat
                    /\ BulkLen(n) \in Nat /\ BulkLen(n) >= n
                    /\ n <= IntMax => ArgLen(n) = BulkLen(n)
  OBVIOUS
<1> DEFINE l == IntLen(n)
           w == IntLen(ToInt(n))
<1>1. l \in Nat BY DigitsLength
<1>2. w \in Nat
  <2>1. ToInt(n) \in Int BY ToIntIs DEF Ints
  <2> QED BY <2>1, IntLenIsNat
<1>3. n <= IntMax => w = l
  <2>1. n <= IntMax => n \in Ints BY SdsAssumption DEF Ints
  <2> QED BY <2>1, ToIntIs
<1>4. ArgLen(n) = 1 + w + 2 + n + 2 /\ CountLen(n) = 1 + l + 2 /\ BulkLen(n) = 1 + l + 2 + n + 2
  BY DEF ArgLen, CountLen, BulkLen
<1> HIDE DEF l, w
<1> QED BY <1>1, <1>2, <1>3, <1>4

\* A sum that wraps at every addition is the sum wrapped.
LEMMA ToIntAdds ==
    ASSUME NEW a \in Int, NEW b \in Int
    PROVE  ToInt(ToInt(a) + b) = ToInt(a + b)
<1> DEFINE m == IntMax + 1
           M == 2 * m
<1>1. m \in Nat /\ M \in Nat /\ M > 0 BY SdsAssumption
<1>2. \A k \in Int : ToInt(k) = ((k + m) % M) - m
  <2>1. \A k \in Int : k + IntMax + 1 = k + m BY SdsAssumption
  <2> QED BY <2>1 DEF ToInt
<1> HIDE DEF m, M
<1> DEFINE q == (a + m) \div M
           r == (a + m) % M
           p == M * q
<1>3. a + m \in Int BY <1>1
<1>4. q \in Int /\ r \in Int /\ a + m = p + r /\ p \in Int
  <2> DEFINE x == a + m
  <2>1. x \in Int BY <1>3
  <2> HIDE DEF x
  <2>2. x \div M \in Int /\ x % M \in Int /\ x = M * (x \div M) + (x % M) BY <1>1, <2>1
  <2>3. M * (x \div M) \in Int BY <1>1, <2>2
  <2> QED BY <2>2, <2>3 DEF x
<1>5. (-p) % M = 0
  <2>1. -p = M * (-q) + 0 /\ -q \in Int /\ -p \in Int /\ 0 \in 0 .. M - 1 BY <1>1, <1>4
  <2> QED BY <1>1, <2>1, ModUnique
<1>6. ToInt(a) = r - m BY <1>2
<1> HIDE DEF q, r, p
<1>7. (ToInt(a) + b) + m = ((a + b) + m) + (-p) /\ ToInt(a) + b \in Int /\ a + b \in Int
      /\ (a + b) + m \in Int /\ -p \in Int
  BY <1>1, <1>4, <1>6
<1>8. (((a + b) + m) + (-p)) % M = ((a + b) + m) % M BY <1>1, <1>5, <1>7, ModShift
<1> QED BY <1>2, <1>7, <1>8

LengthStep == [p \in Nat \X Text |-> p[1] + ArgLen(Len(p[2]))]

LEMMA LengthStepIs ==
    /\ LengthStep \in [Nat \X Text -> Nat]
    /\ \A n \in Nat, t \in Text : LengthStep[<<n, t>>] = n + ArgLen(Len(t))
<1>1. \A t \in Text : Len(t) \in Nat /\ ArgLen(Len(t)) \in Nat
  BY ArgLenIsNat, LenProperties DEF Text
<1> QED BY <1>1 DEF LengthStep

LEMMA LengthsTrace ==
    ASSUME NEW texts \in Seq(Text)
    PROVE  \E r \in [0 .. Len(texts) -> Nat] :
              IsTrace(r, 0, LengthStep, texts) /\ r[Len(texts)] = Lengths(texts)
<1> DEFINE n == Len(texts)
           it == CHOOSE f : f = [u \in SUBSET (1 .. n) |->
                    IF u = {} THEN 0 ELSE f[u \ {Max(u)}] + ArgLen(Len(texts[Max(u)]))]
<1>1. n \in Nat /\ DOMAIN texts = 1 .. n BY LenProperties
<1>2. Lengths(texts) = it[1 .. n] BY <1>1 DEF Lengths, FoldLeft, MapThenFoldSet
<1>3. PICK g \in [SUBSET (1 .. n) -> Nat] :
        /\ IsStepwise(g, 0, LengthStep, texts)
        /\ \A u \in SUBSET (1 .. n) : u # {} => g[u \ {Max(u)}] \in Nat /\ texts[Max(u)] \in Text
  <2> DEFINE N == Nat
             zero == 0
  <2>1. Foldable(N, Text, zero, LengthStep, texts) BY LengthStepIs DEF Foldable
  <2> HIDE DEF N, zero, n
  <2>2. HasStepwise(N, Text, zero, LengthStep, texts) BY <2>1, StepwiseExists
  <2> QED BY <2>2, Zenon DEF N, zero, n, HasStepwise
<1>4. g = [u \in SUBSET (1 .. n) |->
              IF u = {} THEN 0 ELSE g[u \ {Max(u)}] + ArgLen(Len(texts[Max(u)]))]
  BY <1>3, LengthStepIs DEF IsStepwise
<1>5. it = [u \in SUBSET (1 .. n) |->
              IF u = {} THEN 0 ELSE it[u \ {Max(u)}] + ArgLen(Len(texts[Max(u)]))]
  BY <1>4
<1> HIDE DEF it
<1>6. it[{}] = 0 BY <1>5
<1>7. \A u \in SUBSET (1 .. Len(texts)) :
          u # {} /\ it[u \ {Max(u)}] \in Nat /\ texts[Max(u)] \in Text =>
              it[u] = LengthStep[<<it[u \ {Max(u)}], texts[Max(u)]>>]
  BY <1>5, LengthStepIs
<1>8. HasTrace(Nat, 0, LengthStep, texts, it[1 .. Len(texts)])
  <2> DEFINE N == Nat
             zero == 0
  <2>1. Foldable(N, Text, zero, LengthStep, texts) /\ it[{}] = zero
    BY <1>6, LengthStepIs DEF Foldable
  <2>2. \A u \in SUBSET (1 .. Len(texts)) :
            u # {} /\ it[u \ {Max(u)}] \in N /\ texts[Max(u)] \in Text =>
                it[u] = LengthStep[<<it[u \ {Max(u)}], texts[Max(u)]>>]
    BY <1>7
  <2> HIDE DEF N, zero, n
  <2>3. HasTrace(N, zero, LengthStep, texts, it[1 .. Len(texts)])
    BY <2>1, <2>2, FoldTrace
  <2> QED BY <2>3 DEF N, zero
<1> QED BY <1>2, <1>8, Zenon DEF HasTrace

LEMMA LengthsAppend ==
    /\ Lengths(<<>>) = 0
    /\ \A texts \in Seq(Text), t \in Text :
          /\ Lengths(texts) \in Nat
          /\ Lengths(Append(texts, t)) = Lengths(texts) + ArgLen(Len(t))
<1>1. Lengths(<<>>) = 0
  <2>1. <<>> \in Seq(Text) /\ Len(<<>>) = 0 OBVIOUS
  <2>2. PICK r : IsTrace(r, 0, LengthStep, <<>>) /\ r[Len(<<>>)] = Lengths(<<>>)
    BY <2>1, LengthsTrace
  <2> QED BY <2>1, <2>2 DEF IsTrace
<1>2. ASSUME NEW texts \in Seq(Text), NEW t \in Text
      PROVE  /\ Lengths(texts) \in Nat
             /\ Lengths(Append(texts, t)) = Lengths(texts) + ArgLen(Len(t))
  <2> DEFINE n == Len(texts)
             more == Append(texts, t)
  <2>1. n \in Nat /\ more \in Seq(Text) /\ Len(more) = n + 1 /\ more[n + 1] = t
        /\ \A k \in 1 .. n : texts[k] = more[k]
    BY AppendProperties, LenProperties
  <2> HIDE DEF more
  <2>2. PICK q \in [0 .. n -> Nat] : IsTrace(q, 0, LengthStep, texts) /\ q[n] = Lengths(texts)
    BY LengthsTrace
  <2>3. PICK r \in [0 .. Len(more) -> Nat] :
            IsTrace(r, 0, LengthStep, more) /\ r[Len(more)] = Lengths(more)
    BY <2>1, LengthsTrace
  <2>4. q[n] = r[n]
    <3>1. Len(texts) <= Len(more) /\ n \in 0 .. Len(texts) BY <2>1
    <3> QED BY <2>1, <2>2, <2>3, <3>1, TracesAgree
  <2>5. q[n] \in Nat BY <2>1, <2>2
  <2>6. r[n + 1] = LengthStep[<<r[n], t>>]
    <3>1. n + 1 \in 1 .. Len(more) /\ (n + 1) - 1 = n BY <2>1
    <3>2. r[n + 1] = LengthStep[<<r[(n + 1) - 1], more[n + 1]>>] BY <2>3, <3>1 DEF IsTrace
    <3> QED BY <2>1, <3>1, <3>2
  <2>7. LengthStep[<<r[n], t>>] = r[n] + ArgLen(Len(t)) BY <2>4, <2>5, LengthStepIs
  <2> QED BY <2>1, <2>2, <2>3, <2>4, <2>5, <2>6, <2>7 DEF more
<1> QED BY <1>1, <1>2

LEMMA LineIs ==
    ASSUME NEW c \in Byte, NEW n \in Nat
    PROVE  /\ Line(c, n) \in Text /\ Len(Line(c, n)) = 1 + IntLen(n) + 2
           /\ Line(c, n)[1] = c
           /\ \A k \in 1 .. Len(Digits[n]) : Line(c, n)[1 + k] = Digits[n][k]
           /\ Line(c, n)[Len(Digits[n]) + 2] = "cr" /\ Line(c, n)[Len(Digits[n]) + 3] = NL
<1> DEFINE d == Digits[n]
           l == Len(d)
<1>1. d \in Seq(Byte) /\ l \in Nat /\ l = IntLen(n)
  BY DigitsAre, DigitsLength, LenProperties DEF Text
<1>2. /\ <<c>> \in Seq(Byte) /\ Len(<<c>>) = 1 /\ <<c>>[1] = c
      /\ CRLF \in Seq(Byte) /\ Len(CRLF) = 2 /\ CRLF[1] = "cr" /\ CRLF[2] = NL
  BY DEF CRLF, Byte, Chars, NL
<1>0. l = Len(d) OBVIOUS
<1> HIDE DEF d, l
<1> DEFINE a == <<c>> \o d
<1>3. a \in Seq(Byte) /\ Len(a) = 1 + l /\ a[1] = c /\ \A k \in 1 .. l : a[1 + k] = d[k]
  <2>1. /\ a \in Seq(Byte) /\ Len(a) = 1 + l
        /\ \A i \in 1 .. 1 : a[i] = <<c>>[i]
        /\ \A k \in 1 .. l : a[1 + k] = d[k]
    <3> DEFINE o == <<c>>
    <3>1. o \in Seq(Byte) /\ Len(o) = 1 BY <1>2
    <3> HIDE DEF o
    <3>2. o \o d \in Seq(Byte) /\ IsConcat(o \o d, o, d) BY <1>1, <3>1, ConcatIs
    <3>3. /\ o \o d \in Seq(Byte) /\ Len(o \o d) = 1 + l
          /\ \A i \in 1 .. 1 : (o \o d)[i] = o[i]
          /\ \A i \in 1 .. l : (o \o d)[1 + i] = d[i]
      BY <1>0, <1>1, <3>1, <3>2 DEF IsConcat
    <3> QED BY <3>3 DEF o
  <2>2. 1 \in 1 .. 1 OBVIOUS
  <2> HIDE DEF a
  <2> QED BY <1>2, <2>1, <2>2
<1> HIDE DEF a
<1> DEFINE b == a \o CRLF
           m == 1 + l
<1>4. /\ b \in Seq(Byte) /\ Len(b) = m + 2
      /\ \A i \in 1 .. m : b[i] = a[i]
      /\ \A k \in 1 .. 2 : b[m + k] = CRLF[k]
  <2>1. m \in Nat /\ Len(a) = m BY <1>1, <1>3
  <2> HIDE DEF m
  <2>2. a \o CRLF \in Seq(Byte) /\ IsConcat(a \o CRLF, a, CRLF) BY <1>2, <1>3, ConcatIs
  <2>3. \A k \in 1 .. 2 : (a \o CRLF)[m + k] = CRLF[k] BY <1>2, <2>1, <2>2 DEF IsConcat
  <2> QED BY <1>2, <2>1, <2>2, <2>3 DEF IsConcat
<1>5. Line(c, n) = b BY DEF Line, a, b, d
<1> HIDE DEF b
<1>6. b[1] = c
  <2>1. 1 \in 1 .. m BY <1>1
  <2> QED BY <1>3, <1>4, <2>1
<1>7. b[l + 2] = "cr" /\ b[l + 3] = NL
  <2>1. l + 2 = m + 1 /\ l + 3 = m + 2 BY <1>1
  <2> QED BY <1>2, <1>4, <2>1
<1>8. \A k \in 1 .. l : b[1 + k] = d[k]
  <2>1. \A k \in 1 .. l : 1 + k \in 1 .. m BY <1>1
  <2> QED BY <1>3, <1>4, <2>1
<1>9. Len(b) = 1 + l + 2 BY <1>1, <1>4
<1> QED BY <1>1, <1>4, <1>5, <1>6, <1>7, <1>8, <1>9 DEF d, l, Text

LEMMA BulkIs ==
    ASSUME NEW t \in Text
    PROVE  /\ Bulk(t) \in Text /\ Len(Bulk(t)) = BulkLen(Len(t))
           /\ LET head == Line("$", Len(t))
                  h    == Len(head)
              IN  /\ \A k \in 1 .. h : Bulk(t)[k] = head[k]
                  /\ \A k \in 1 .. Len(t) : Bulk(t)[h + k] = t[k]
                  /\ Bulk(t)[h + Len(t) + 1] = "cr" /\ Bulk(t)[h + Len(t) + 2] = NL
                  /\ Len(Bulk(t)) = h + Len(t) + 2
<1> DEFINE head == Line("$", Len(t))
           h == Len(head)
           n == Len(t)
<1>1. n \in Nat /\ "$" \in Byte BY LenProperties DEF Text, Byte
<1>2. head \in Seq(Byte) /\ h = 1 + IntLen(n) + 2 /\ h \in Nat /\ IntLen(n) \in Nat
  <2>1. Line("$", n) \in Text /\ Len(Line("$", n)) = 1 + IntLen(n) + 2 BY <1>1, LineIs
  <2>2. IntLen(n) \in Nat BY <1>1, DigitsLength
  <2> QED BY <2>1, <2>2, LenProperties DEF Text
<1>3. CRLF \in Seq(Byte) /\ Len(CRLF) = 2 /\ CRLF[1] = "cr" /\ CRLF[2] = NL
  BY DEF CRLF, Byte, Chars, NL
<1>4. t \in Seq(Byte) BY DEF Text
<1>0. h = Len(head) /\ n = Len(t) OBVIOUS
<1>5. Bulk(t) = (head \o t) \o CRLF BY DEF Bulk
<1>6. BulkLen(n) = 1 + IntLen(n) + 2 + n + 2 BY DEF BulkLen
<1> HIDE DEF head, h, n
<1> DEFINE a == head \o t
<1>7. a \in Seq(Byte) /\ IsConcat(a, head, t) BY <1>2, <1>4, ConcatIs
<1>8. Len(a) = h + n /\ \A k \in 1 .. h : a[k] = head[k]
  BY <1>0, <1>7 DEF IsConcat
<1>9. \A k \in 1 .. n : a[h + k] = t[k] BY <1>0, <1>7 DEF IsConcat
<1> HIDE DEF a
<1> DEFINE b == a \o CRLF
           m == h + n
<1>10. b \in Seq(Byte) /\ IsConcat(b, a, CRLF) BY <1>3, <1>7, ConcatIs
<1>11. b = Bulk(t) BY <1>5 DEF a
<1> HIDE DEF b
<1>12. Len(b) = h + n + 2 /\ \A k \in 1 .. m : b[k] = a[k]
  BY <1>3, <1>8, <1>10 DEF IsConcat
<1>13. b[m + 1] = "cr" /\ b[m + 2] = NL
  <2>1. \A i \in 1 .. 2 : b[m + i] = CRLF[i] BY <1>3, <1>8, <1>10 DEF IsConcat
  <2> HIDE DEF m
  <2> QED BY <1>3, <2>1
<1>14. \A k \in 1 .. h : b[k] = head[k]
  <2>1. \A k \in 1 .. h : k \in 1 .. m BY <1>1, <1>2
  <2> QED BY <1>8, <1>12, <2>1
<1>15. \A k \in 1 .. n : b[h + k] = t[k]
  <2>1. \A k \in 1 .. n : h + k \in 1 .. m BY <1>1, <1>2
  <2> QED BY <1>9, <1>12, <2>1
<1>16. Len(b) = BulkLen(n) BY <1>1, <1>2, <1>6, <1>12
<1> QED BY <1>10, <1>11, <1>12, <1>13, <1>14, <1>15, <1>16 DEF head, h, n, Text

\* The bytes of a command, and what is in front of its arguments.
Bulks(texts)  == [k \in DOMAIN texts |-> Bulk(texts[k])]

LEMMA RequestIs ==
    ASSUME NEW texts
    PROVE  Request(texts) = Line("*", Len(texts)) \o FlattenSeq(Bulks(texts))
  BY DEF Request, Bulks

LEMMA BulksAre ==
    ASSUME NEW texts \in Seq(Text)
    PROVE  /\ Bulks(texts) \in Seq(Seq(Byte)) /\ Len(Bulks(texts)) = Len(texts)
           /\ \A k \in 1 .. Len(texts) : texts[k] \in Text /\ Bulks(texts)[k] = Bulk(texts[k])
<1>1. Len(texts) \in Nat /\ DOMAIN texts = 1 .. Len(texts)
      /\ \A k \in 1 .. Len(texts) : texts[k] \in Text
  BY ElementOfSeq, LenProperties
<1>2. \A k \in 1 .. Len(texts) : Bulk(texts[k]) \in Seq(Byte) BY <1>1, BulkIs DEF Text
<1> DEFINE n == Len(texts)
           S == Seq(Byte)
           b == [k \in 1 .. n |-> Bulk(texts[k])]
<1>3. b = Bulks(texts) BY <1>1 DEF Bulks
<1>4. b \in Seq(S) /\ Len(b) = n
  <2> HIDE DEF n
  <2>1. n \in Nat BY <1>1 DEF n
  <2>2. \A k \in 1 .. n : Bulk(texts[k]) \in S BY <1>2 DEF n
  <2> HIDE DEF S
  <2> QED BY <2>1, <2>2
<1> QED BY <1>1, <1>3, <1>4

LEMMA BulkOffsets ==
    ASSUME NEW texts \in Seq(Text), \A k \in 1 .. Len(texts) : Len(texts[k]) <= IntMax
    PROVE  Len(FlattenSeq(Bulks(texts))) = Lengths(texts)
<1> DEFINE n == Len(texts)
           b == Bulks(texts)
<1>1. b \in Seq(Seq(Byte)) /\ Len(b) = n /\ n \in Nat
      /\ \A k \in 1 .. n : texts[k] \in Text /\ b[k] = Bulk(texts[k])
  BY BulksAre, LenProperties
<1> HIDE DEF b
<1>2. PICK r \in [0 .. n -> Nat] : IsTrace(r, 0, LengthStep, texts) /\ r[n] = Lengths(texts)
  BY LengthsTrace
<1>3. \A k \in 0 .. n : r[k] \in Nat BY <1>2
<1>4. r[0] = 0 /\ \A k \in 1 .. n : r[k] = LengthStep[<<r[k - 1], texts[k]>>]
  BY <1>2 DEF IsTrace
<1> HIDE DEF n
<1>5. \A k \in 1 .. n : r[k] = r[k - 1] + Len(b[k])
  <2> SUFFICES ASSUME NEW k \in 1 .. n PROVE r[k] = r[k - 1] + Len(b[k]) OBVIOUS
  <2>1. k - 1 \in 0 .. n BY <1>1
  <2>2. LengthStep[<<r[k - 1], texts[k]>>] = r[k - 1] + ArgLen(Len(texts[k]))
    BY <1>1, <1>3, <2>1, LengthStepIs
  <2>3. Len(b[k]) = BulkLen(Len(texts[k])) BY <1>1, BulkIs
  <2>4. Len(texts[k]) \in Nat /\ Len(texts[k]) <= IntMax
    BY <1>1, LenProperties DEF Text, n
  <2>5. BulkLen(Len(texts[k])) = ArgLen(Len(texts[k])) BY <2>4, ArgLenIsNat
  <2> QED BY <1>4, <2>2, <2>3, <2>5
<1>6. Off(b, 0) = 0 BY DEF Off, JoinTo
<1>7. \A k \in 1 .. n : Off(b, k) = Off(b, k - 1) + Len(b[k])
  <2> SUFFICES ASSUME NEW k \in 1 .. n PROVE Off(b, k) = Off(b, k - 1) + Len(b[k]) OBVIOUS
  <2>1. k > 0 /\ k \in 0 .. Len(b) BY <1>1
  <2> QED BY <1>1, <2>1, JoinToType
<1> DEFINE T == {k \in Nat : k <= n /\ Off(b, k) # r[k]}
<1>8. ASSUME T # {} PROVE FALSE
  <2>1. PICK k \in T : \A y \in T : k <= y BY <1>8, Least
  <2>2. k # 0 BY <1>4, <1>6, <2>1
  <2>3. k \in 1 .. n /\ k - 1 \in Nat /\ k - 1 \notin T BY <1>1, <2>1, <2>2
  <2>4. Off(b, k - 1) = r[k - 1] BY <1>1, <2>3
  <2>5. Off(b, k) = Off(b, k - 1) + Len(b[k]) /\ r[k] = r[k - 1] + Len(b[k])
    BY <1>5, <1>7, <2>3
  <2> QED BY <2>1, <2>4, <2>5
<1>9. Off(b, n) = r[n]
  <2>1. T = {} BY <1>8, Zenon
  <2>2. n \in Nat /\ n <= n BY <1>1
  <2> QED BY <2>1, <2>2
<1>10. Len(FlattenSeq(b)) = Off(b, n) BY <1>1, FlattenLength
<1> QED BY <1>2, <1>9, <1>10 DEF b, n

\* No argument is longer than what is written.
LEMMA BulkFits ==
    ASSUME NEW texts \in Seq(Text), NEW k \in 1 .. Len(texts)
    PROVE  Len(texts[k]) <= Len(FlattenSeq(Bulks(texts)))
<1> DEFINE n == Len(texts)
           b == Bulks(texts)
           w == Len(texts[k])
<1>1. b \in Seq(Seq(Byte)) /\ Len(b) = n /\ n \in Nat /\ k \in Nat
      /\ texts[k] \in Text /\ b[k] = Bulk(texts[k])
  BY BulksAre, LenProperties
<1>2. w \in Nat BY <1>1, LenProperties DEF Text
<1>3. Len(b[k]) \in Nat /\ Len(b[k]) >= w
  <2>1. Len(b[k]) = BulkLen(w) BY <1>1, BulkIs
  <2> QED BY <1>2, <2>1, ArgLenIsNat
<1>4. k \in 1 .. n OBVIOUS
<1> HIDE DEF b, n, w
<1>5. /\ k > 0 /\ k \in 0 .. Len(b) /\ k - 1 \in 0 .. Len(b)
      /\ n \in 0 .. Len(b) /\ k \in 0 .. n
  BY <1>1, <1>4
<1>6. Off(b, k) = Off(b, k - 1) + Len(b[k]) BY <1>1, <1>5, JoinToType
<1>7. Off(b, k - 1) \in Nat /\ Off(b, k) \in Nat /\ Off(b, n) \in Nat
  <2>1. \A i \in 0 .. Len(b) : Off(b, i) \in Nat BY <1>1, JoinToType
  <2> QED BY <1>5, <2>1
<1>8. Off(b, k) <= Off(b, n) BY <1>1, <1>5, JoinToStays
<1>9. Len(FlattenSeq(b)) = Off(b, n) BY <1>1, FlattenLength
<1> QED BY <1>2, <1>3, <1>6, <1>7, <1>8, <1>9 DEF b, w

\* The length that is counted is the length of what is written, if an int can
\* count that.
LEMMA RequestLength ==
    ASSUME NEW texts \in Seq(Text)
    PROVE  /\ Request(texts) \in Text /\ Len(Request(texts)) \in Nat
           /\ Len(Request(texts)) <= IntMax =>
                 Len(Request(texts)) = Lengths(texts) + CountLen(Len(texts))
<1> DEFINE head == Line("*", Len(texts))
           body == FlattenSeq(Bulks(texts))
<1>1. Len(texts) \in Nat /\ "*" \in Byte BY LenProperties DEF Byte
<1>2. head \in Seq(Byte) /\ Len(head) = CountLen(Len(texts)) BY <1>1, LineIs DEF CountLen, Text
<1>3. body \in Seq(Byte)
  <2>1. Bulks(texts) \in Seq(Seq(Byte)) BY BulksAre
  <2> QED BY <2>1, FlattenIsJoinTo
<1>4. Len(body) <= IntMax => Len(body) = Lengths(texts)
  <2> SUFFICES ASSUME Len(body) <= IntMax PROVE Len(body) = Lengths(texts) OBVIOUS
  <2>1. ASSUME NEW k \in 1 .. Len(texts) PROVE Len(texts[k]) <= IntMax
    <3> DEFINE w == Len(texts[k])
               l == Len(body)
    <3>1. texts[k] \in Text BY <1>1, ElementOfSeq
    <3>2. w \in Nat /\ l \in Nat BY <1>3, <3>1, LenProperties DEF Text
    <3>3. w <= l BY BulkFits
    <3>4. l <= IntMax /\ IntMax \in Nat BY SdsAssumption
    <3> HIDE DEF w, l
    <3>5. w <= IntMax BY <3>2, <3>3, <3>4
    <3> QED BY <3>5 DEF w
  <2> QED BY <2>1, BulkOffsets
<1>5. Lengths(texts) \in Nat /\ CountLen(Len(texts)) \in Nat
  <2>1. Lengths(texts) \in Nat
    <3>1. <<>> \in Text BY DEF Text
    <3> QED BY <3>1, LengthsAppend
  <2> QED BY <1>1, <2>1, ArgLenIsNat
<1> HIDE DEF head, body
<1>6. head \o body \in Seq(Byte) /\ IsConcat(head \o body, head, body) BY <1>2, <1>3, ConcatIs
<1>7. Len(head \o body) = Len(head) + Len(body) BY <1>6 DEF IsConcat
<1>8. Request(texts) = head \o body BY RequestIs DEF head, body
<1>9. Len(body) \in Nat /\ Len(head) \in Nat BY <1>2, <1>3, <1>5, LenProperties
<1>10. IntMax \in Nat BY SdsAssumption
<1> QED BY <1>2, <1>4, <1>5, <1>6, <1>7, <1>8, <1>9, <1>10 DEF Text

-----------------------------------------------------------------------------
(***************************************************************************)
(* What the functions are given.                                           *)
(***************************************************************************)
LEMMA DigitsNoNul ==
    ASSUME NEW n \in Nat
    PROVE  \A k \in 1 .. Len(Digits[n]) : Digits[n][k] # NUL /\ Digits[n][k] # "cr"
<1> DEFINE Clean(m) == \A k \in 1 .. Len(Digits[m]) : Digits[m][k] # NUL /\ Digits[m][k] # "cr"
           T == {m \in Nat : ~Clean(m)}
<1>1. ASSUME T # {} PROVE FALSE
  <2>1. PICK m \in T : \A y \in T : m <= y BY <1>1, Least
  <2>2. m \in Nat BY <2>1
  <2>3. CASE m < 10
    <3>1. Digits[m] = <<DigitChars[m + 1]>> BY <2>2, <2>3, DigitsAre
    <3>2. DigitChars[m + 1] \notin {"cr", NUL} BY <2>2, <2>3, DigitCharsAre
    <3>3. Clean(m) BY <3>1, <3>2
    <3> QED BY <2>1, <3>3
  <2>4. CASE m >= 10
    <3>1. m \div 10 \in Nat /\ m \div 10 < m /\ m % 10 \in 0 .. 9 BY <2>2, <2>4, Tenth
    <3>2. Clean(m \div 10) BY <2>1, <3>1
    <3>3. Digits[m] = Append(Digits[m \div 10], DigitChars[(m % 10) + 1])
      BY <2>2, <2>4, DigitsAre
    <3> DEFINE d == Digits[m \div 10]
               c == DigitChars[(m % 10) + 1]
    <3>4. d \in Seq(Byte) /\ c \in Byte /\ c \notin {"cr", NUL}
      BY <3>1, DigitsAre, DigitCharsAre DEF Text
    <3>5. \A k \in 1 .. Len(d) : d[k] # NUL /\ d[k] # "cr" BY <3>2
    <3> HIDE DEF d, c
    <3>6. Len(Append(d, c)) = Len(d) + 1 /\ Len(d) \in Nat /\ Append(d, c)[Len(d) + 1] = c
          /\ \A k \in 1 .. Len(d) : Append(d, c)[k] = d[k]
      BY <3>4, AppendProperties, LenProperties
    <3>7. \A k \in 1 .. Len(d) + 1 : k = Len(d) + 1 \/ k \in 1 .. Len(d) BY <3>6
    <3>8. \A k \in 1 .. Len(Append(d, c)) : Append(d, c)[k] # NUL /\ Append(d, c)[k] # "cr"
      BY <3>4, <3>5, <3>6, <3>7
    <3>9. Clean(m) BY <3>3, <3>8 DEF d, c
    <3> QED BY <2>1, <3>9
  <2> QED BY <2>2, <2>3, <2>4
<1>2. n \notin T BY <1>1
<1> QED BY <1>2

LEMMA SignedIs ==
    ASSUME NEW n \in Int
    PROVE  Signed(n) \in Text /\ CString(Signed(n)) = Signed(n)
<1>1. CASE n >= 0
  <2>1. n \in Nat /\ Signed(n) = Digits[n] BY <1>1 DEF Signed
  <2>2. Digits[n] \in Text BY <2>1, DigitsAre
  <2>3. \A k \in 1 .. Len(Digits[n]) : Digits[n][k] # NUL BY <2>1, DigitsNoNul
  <2> QED BY <2>1, <2>2, <2>3, NoNul
<1>2. CASE n < 0
  <2> DEFINE d == Digits[-n]
             o == <<"-">>
             t == o \o d
  <2>1. -n \in Nat /\ Signed(n) = t BY <1>2 DEF Signed
  <2>2. d \in Seq(Byte) /\ Len(d) \in Nat BY <2>1, DigitsAre, LenProperties DEF Text
  <2>3. \A k \in 1 .. Len(d) : d[k] # NUL BY <2>1, DigitsNoNul
  <2>4. o \in Seq(Byte) /\ Len(o) = 1 /\ o[1] # NUL BY DEF Byte, NUL
  <2> HIDE DEF d, o
  <2>5. t \in Seq(Byte) /\ IsConcat(t, o, d) BY <2>2, <2>4, ConcatIs
  <2> HIDE DEF t
  <2>6. \A k \in 1 .. Len(t) : t[k] # NUL
    <3>1. Len(t) = 1 + Len(d) /\ t[1] = o[1] /\ \A k \in 1 .. Len(d) : t[1 + k] = d[k]
      BY <2>4, <2>5 DEF IsConcat
    <3>2. ASSUME NEW k \in 1 .. Len(t), k # 1 PROVE t[k] # NUL
      <4>1. k - 1 \in 1 .. Len(d) /\ 1 + (k - 1) = k BY <2>2, <3>1, <3>2
      <4>2. t[1 + (k - 1)] = d[k - 1] BY <3>1, <4>1
      <4> QED BY <2>3, <4>1, <4>2
    <3> QED BY <2>4, <3>1, <3>2
  <2>7. CString(t) = t BY <2>5, <2>6, NoNul DEF Text
  <2> QED BY <2>1, <2>5, <2>7 DEF Text
<1> QED BY <1>1, <1>2

\* The format that is scanned.
IsFormat(f) ==
    /\ f \in Seq(Token)
    /\ \A k \in 1 .. Len(f) :
          /\ f[k] \in Token
          /\ f[k].k \in {"char", "%%"} => f[k].v # <<>>
          /\ f[k].k \in {"%d", "%f"} => CString(f[k].v) = f[k].v

LEMMA IncrFormatIs ==
    ASSUME NEW key \in Text, NEW delta \in Int
    PROVE  IsFormat(IncrFormat(key, delta))
<1> DEFINE x == Tok("char", <<"x">>)
           a == Tok("char", <<"A">>)
           sp == Tok("space", <<>>)
           b == Tok("%b", key)
           d == Tok("%d", Signed(ToInt(delta)))
<1>1. Signed(ToInt(delta)) \in Text /\ CString(Signed(ToInt(delta))) = Signed(ToInt(delta))
  <2>1. ToInt(delta) \in Int BY ToIntIs DEF Ints
  <2> QED BY <2>1, SignedIs
<1>2. x \in Token /\ a \in Token /\ sp \in Token /\ b \in Token /\ d \in Token
  BY <1>1, ShortTexts, "x" \in Byte, "A" \in Byte DEF Token, Tok, Kinds, Byte, Chars, Text
<1>3. /\ x.k = "char" /\ x.v # <<>> /\ a.k = "char" /\ a.v # <<>> /\ sp.k = "space"
      /\ b.k = "%b" /\ d.k = "%d" /\ CString(d.v) = d.v
  BY <1>1 DEF Tok
<1> DEFINE Good(tok) == /\ tok \in Token
                        /\ tok.k \in {"char", "%%"} => tok.v # <<>>
                        /\ tok.k \in {"%d", "%f"} => CString(tok.v) = tok.v
<1>4. Good(x) /\ Good(a) /\ Good(sp) /\ Good(b) /\ Good(d) BY <1>2, <1>3
<1> HIDE DEF x, a, sp, b, d, Good
<1>5. CASE delta = 1
  <2> DEFINE f == <<x, sp, b>>
  <2>1. IncrFormat(key, delta) = f BY <1>5 DEF IncrFormat, x, sp, b
  <2>2. f \in Seq(Token) /\ Len(f) = 3 /\ f[1] = x /\ f[2] = sp /\ f[3] = b BY <1>2
  <2> HIDE DEF f
  <2>3. \A k \in 1 .. 3 : k = 1 \/ k = 2 \/ k = 3 OBVIOUS
  <2>4. \A k \in 1 .. Len(f) : Good(f[k]) BY <1>4, <2>2, <2>3
  <2> QED BY <2>1, <2>2, <2>4 DEF IsFormat, Good
<1>6. CASE delta # 1
  <2> DEFINE f == <<x, a, sp, b, sp, d>>
  <2>1. IncrFormat(key, delta) = f BY <1>6 DEF IncrFormat, x, a, sp, b, d
  <2>2. f \in Seq(Token) /\ Len(f) = 6 /\ f[1] = x /\ f[2] = a /\ f[3] = sp /\ f[4] = b
        /\ f[5] = sp /\ f[6] = d
    BY <1>2
  <2> HIDE DEF f
  <2>3. \A k \in 1 .. 6 : k = 1 \/ k = 2 \/ k = 3 \/ k = 4 \/ k = 5 \/ k = 6 OBVIOUS
  <2>4. \A k \in 1 .. Len(f) : Good(f[k]) BY <1>4, <2>2, <2>3
  <2> QED BY <2>1, <2>2, <2>4 DEF IsFormat, Good
<1> QED BY <1>5, <1>6

LEMMA MapIsTexts ==
    ASSUME NEW n \in Nat, NEW m, m = [k \in 1 .. n |-> m[k]], \A k \in 1 .. n : m[k] \in Text
    PROVE  m \in Seq(Text) /\ Len(m) = n
  OBVIOUS

\* All the texts of a format are not longer than the caller makes them.
LEMMA TextsAre ==
    ASSUME NEW f, IsFormat(f)
    PROVE  /\ TextsOf(f) \in Seq(Seq(Byte)) /\ Len(TextsOf(f)) = Len(f) /\ Len(f) \in Nat
           /\ \A k \in 1 .. Len(f) : TextsOf(f)[k] = f[k].v
           /\ TextLen(f) = Off(TextsOf(f), Len(f))
<1>1. Len(f) \in Nat /\ DOMAIN f = 1 .. Len(f) /\ \A k \in 1 .. Len(f) : f[k].v \in Text
  BY LenProperties DEF IsFormat, Token
<1> DEFINE n == Len(f)
           m == [k \in 1 .. n |-> f[k].v]
<1>2. TextsOf(f) = m BY <1>1 DEF TextsOf
<1>3. m = [k \in 1 .. n |-> m[k]] /\ (\A k \in 1 .. n : m[k] = f[k].v /\ m[k] \in Text) /\ n \in Nat
  BY <1>1
<1> HIDE DEF m, n
<1>4. m \in Seq(Text) /\ Len(m) = n BY <1>3, MapIsTexts
<1>5. m \in Seq(Seq(Byte)) BY <1>4 DEF Text
<1>6. TextLen(f) = Off(m, n) BY <1>2, <1>4, <1>5, FlattenLength DEF TextLen
<1> QED BY <1>2, <1>3, <1>4, <1>5, <1>6 DEF n

LEMMA FormatShort ==
    ASSUME InputInv, job \in {"format", "incr"}
    PROVE  TextLen(format) <= MaxLen
  BY FormatAssumption DEF InputInv, format

LEMMA FormatIs == ASSUME InputInv, job \in {"format", "incr"} PROVE IsFormat(format)
<1>1. CASE job = "format"
  <2>1. input \in Formats /\ format = input BY <1>1 DEF InputInv, format
  <2>2. input \in Seq(Token) BY <2>1, FormatsTyped
  <2>3. DOMAIN input = 1 .. Len(input) /\ \A k \in 1 .. Len(input) : input[k] \in Token
    BY <2>2, ElementOfSeq, LenProperties
  <2> QED BY <2>1, <2>2, <2>3, FormatsTyped DEF IsFormat
<1>2. CASE job = "incr"
  <2>1. input \in Increments /\ format = IncrFormat(input.key, input.delta)
    BY <1>2 DEF InputInv, format
  <2>2. input.key \in Text /\ input.delta \in Int BY <2>1, FormatAssumption, BytesAreBytes
  <2> QED BY <2>1, <2>2, IncrFormatIs
<1> QED BY <1>1, <1>2

LEMMA KeywordIsText == Keyword \in Text /\ ArrayText \in Text
  BY ShortTexts, "x" \in Byte, "A" \in Byte DEF Keyword, ArrayText, Byte, Chars

LEMMA TextOfIs == ASSUME NEW z \in Value PROVE TextOf(z) \in Text
  BY KeywordIsText DEF TextOf, Value

LEMMA CallIs ==
    ASSUME InputInv, job = "php"
    PROVE  /\ input \in Seq(Value) /\ Len(input) \in Nat /\ DOMAIN input = 1 .. Len(input)
           /\ \A k \in 1 .. Len(input) : /\ input[k] \in Value /\ TextOf(input[k]) \in Text
                                         /\ input[k].elems \in Seq(Text \cup {HOLE})
<1>1. input \in Seq(Value) BY CallsTyped DEF InputInv
<1>2. Len(input) \in Nat /\ DOMAIN input = 1 .. Len(input)
      /\ \A k \in 1 .. Len(input) : input[k] \in Value
  BY <1>1, ElementOfSeq, LenProperties
<1>3. \A k \in 1 .. Len(input) : input[k].elems \in Seq(Text \cup {HOLE}) BY <1>2 DEF Value
<1> QED BY <1>1, <1>2, <1>3, TextOfIs

LEMMA StrlenIs ==
    ASSUME NEW v \in Seq(Text)
    PROVE  [k \in DOMAIN v |-> CString(v[k])] \in Seq(Text)
<1>1. Len(v) \in Nat /\ DOMAIN v = 1 .. Len(v) /\ \A k \in 1 .. Len(v) : v[k] \in Text
  BY ElementOfSeq, LenProperties
<1> DEFINE m == [k \in 1 .. Len(v) |-> CString(v[k])]
<1>2. m = [k \in 1 .. Len(v) |-> m[k]] /\ \A k \in 1 .. Len(v) : m[k] \in Text
  BY <1>1, CStringIsText
<1> HIDE DEF m
<1>3. m \in Seq(Text) BY <1>1, <1>2, MapIsTexts
<1> QED BY <1>1, <1>3 DEF m

-----------------------------------------------------------------------------
(***************************************************************************)
(* The strings stay sound, the lengths exact, and the arguments inside     *)
(* z_args.                                                                 *)
(***************************************************************************)
\* The argument under construction is no longer than the texts taken so far.
RoomInv ==
    pc = "scan" => /\ at <= Len(format) + 1
                   /\ s.len <= Off(TextsOf(format), at - 1)
\* The array that is copied, and the room for it.
CopyInv ==
    /\ pc = "start" => at = 1
    /\ pc = "copy" =>
          /\ at \in 1 .. Len(Source) + 1
          /\ \/ target = 1 /\ Len(input) = 2 /\ input[2].array /\ slots = 1 + Len(input[2].elems)
             \/ target = 0 /\ Len(input) = 1 /\ input[1].array /\ slots = 1

\* totlen is the length of the arguments so far, as an int.
LenInv ==
    /\ pc \in {"scan", "build"} /\ job \in {"format", "incr"} => totlen = ToInt(Lengths(argv))
    /\ pc \in Failed => Len(cmd) >= IntMax

FInv == TInv /\ CopyInv /\ LenInv /\ RoomInv

LEMMA SourceIs ==
    ASSUME FInv, pc = "copy"
    PROVE  /\ job = "php" /\ target \in {0, 1} /\ target + 1 \in 1 .. Len(input)
           /\ Source \in Seq(Text \cup {HOLE}) /\ Len(Source) \in Nat
           /\ \A k \in 1 .. Len(Source) : Source[k] # HOLE => Source[k] \in Text
<1>1. job = "php" /\ InputInv BY DEF FInv, TInv, PcInv
<1>2. target \in {0, 1} /\ target + 1 \in 1 .. Len(input) BY <1>1, CallIs DEF FInv, CopyInv
<1>3. Source \in Seq(Text \cup {HOLE}) BY <1>1, <1>2, CallIs DEF Source
<1>4. Len(Source) \in Nat /\ \A k \in 1 .. Len(Source) : Source[k] \in Text \cup {HOLE}
  BY <1>3, ElementOfSeq, LenProperties
<1> QED BY <1>1, <1>2, <1>3, <1>4

\* What int can count is built.
LEMMA BuildIs ==
    ASSUME NEW texts \in Seq(Text), NEW total,
           total = ToInt(Lengths(texts) + CountLen(Len(texts))), Build(texts, total)
    PROVE  /\ pc' \in {"done"} \cup Failed /\ cmd' = Request(texts)
           /\ pc' \in Failed => Len(cmd') >= IntMax
<1> DEFINE written == Len(Request(texts))
           size == ToInt(total + 1)
<1>1. /\ cmd' = Request(texts)
      /\ pc' = CASE size < 0 -> "oom"
                 [] size >= 0 /\ written > total -> "overrun"
                 [] size >= 0 /\ written < total -> "aborted"
                 [] OTHER -> "done"
  BY DEF Build
<1>2. written \in Nat BY RequestLength
<1>3. IntMax \in Nat BY SdsAssumption
<1>4. ASSUME written < IntMax PROVE total = written /\ size = total + 1
  <2>1. written <= IntMax BY <1>2, <1>3, <1>4
  <2>2. written = Lengths(texts) + CountLen(Len(texts)) BY <2>1, RequestLength
  <2>3. written \in Ints /\ written + 1 \in Ints /\ written \in Int /\ written + 1 \in Int
    BY <1>2, <1>3, <1>4 DEF Ints
  <2> HIDE DEF written
  <2>4. total = written BY <2>2, <2>3, ToIntIs
  <2>5. ToInt(written + 1) = written + 1 BY <2>3, ToIntIs
  <2> QED BY <2>4, <2>5
<1>5. total \in Int /\ size \in Int
  <2>1. Lengths(texts) + CountLen(Len(texts)) \in Int
    <3>1. <<>> \in Text /\ Len(texts) \in Nat BY LenProperties DEF Text
    <3>2. Lengths(texts) \in Nat /\ CountLen(Len(texts)) \in Nat BY <3>1, LengthsAppend, ArgLenIsNat
    <3> QED BY <3>2
  <2>2. total \in Int BY <2>1, ToIntIs DEF Ints
  <2>3. total + 1 \in Int BY <2>2
  <2>4. size \in Int BY <2>3, ToIntIs DEF Ints
  <2> QED BY <2>2, <2>4
<1> HIDE DEF written, size
<1>6. pc' \in {"done"} \cup Failed BY <1>1 DEF Failed
<1>7. written < IntMax => pc' = "done"
  <2> SUFFICES ASSUME written < IntMax PROVE pc' = "done" OBVIOUS
  <2>1. ~(size < 0) /\ ~(written > total) /\ ~(written < total) BY <1>2, <1>4
  <2> QED BY <1>1, <2>1
<1>8. pc' \in Failed => written >= IntMax BY <1>2, <1>3, <1>7 DEF Failed
<1> QED BY <1>1, <1>6, <1>8 DEF written

LEMMA FormatArgvIs ==
    ASSUME NEW texts \in Seq(Text), FormatArgv(texts)
    PROVE  /\ pc' \in {"done"} \cup Failed /\ cmd' = Request(texts) /\ argv' = texts
           /\ pc' \in Failed => Len(cmd') >= IntMax
<1>1. Lengths(texts) \in Nat /\ CountLen(Len(texts)) \in Nat
  <2>1. <<>> \in Text /\ Len(texts) \in Nat BY LenProperties DEF Text
  <2> QED BY <2>1, LengthsAppend, ArgLenIsNat
<1>2. CountLen(Len(texts)) + Lengths(texts) = Lengths(texts) + CountLen(Len(texts)) BY <1>1
<1> DEFINE total == ToInt(CountLen(Len(texts)) + Lengths(texts))
<1>3. Build(texts, total) /\ argv' = texts BY DEF FormatArgv
<1>4. total = ToInt(Lengths(texts) + CountLen(Len(texts))) BY <1>2
<1> HIDE DEF total
<1> QED BY <1>3, <1>4, BuildIs

LEMMA FormatInits == FormatInit => FInv
<1> SUFFICES ASSUME FormatInit PROVE FInv OBVIOUS
<1>1. s \in SoundStrings /\ s.len = 0
  <2> DEFINE none == <<>>
  <2>1. none \in Text /\ Len(none) = 0 /\ Len(none) <= IntMax BY SdsAssumption DEF Text
  <2>2. s = NewLen(none) BY DEF FormatInit
  <2> HIDE DEF none
  <2> QED BY <2>1, <2>2, NewLenOf
<1>2. argv = <<>> /\ argv \in Seq(Text) /\ at = 1 /\ totlen = 0 BY DEF FormatInit
<1>3. InputInv /\ job \in {"format", "incr", "argv", "strlen", "php"}
  BY DEF FormatInit, Jobs, InputInv
<1>4. pc = IF job \in {"format", "incr"} THEN "scan" ELSE "start" BY DEF FormatInit
<1>5. TInv BY <1>1, <1>2, <1>3, <1>4 DEF TInv, PcInv
<1>6. CopyInv BY <1>2, <1>4 DEF CopyInv
<1>7. LenInv
  <2>1. 0 \in Ints BY SdsAssumption DEF Ints
  <2>2. ToInt(0) = 0 BY <2>1, ToIntIs
  <2> QED BY <1>2, <1>4, <2>2, LengthsAppend DEF LenInv, Failed
<1>8. RoomInv
  <2>1. pc = "scan" => Len(format) \in Nat
    <3>1. pc = "scan" => job \in {"format", "incr"} BY <1>4
    <3> QED BY <1>3, <3>1, FormatIs, TextsAre
  <2>2. Off(TextsOf(format), 0) = 0 BY DEF Off, JoinTo
  <2>3. at - 1 = 0 BY <1>2
  <2> QED BY <1>1, <1>2, <2>1, <2>2, <2>3 DEF RoomInv
<1> QED BY <1>5, <1>6, <1>7, <1>8 DEF FInv

\* What scanning a token does to the string.
LEMMA TokenIs ==
    ASSUME FInv, pc = "scan", at <= Len(format)
    PROVE  /\ IsFormat(format) /\ at \in 1 .. Len(format) /\ format[at] \in Token
           /\ format[at].v \in Text
<1>1. job \in {"format", "incr"} /\ InputInv /\ at \in Nat \ {0} BY DEF FInv, TInv, PcInv
<1>2. IsFormat(format) BY <1>1, FormatIs
<1>3. Len(format) \in Nat BY <1>2, LenProperties DEF IsFormat
<1>4. at \in 1 .. Len(format) BY <1>1, <1>3
<1> QED BY <1>2, <1>4 DEF IsFormat, Token

\* There is room in an int for the string and the text of the next token.
LEMMA TokenFits ==
    ASSUME FInv, pc = "scan", at <= Len(format)
    PROVE  /\ s.len \in Nat /\ Len(format[at].v) \in Nat
           /\ s.len + Len(format[at].v) <= IntMax
           /\ s.len + Len(format[at].v) <= Off(TextsOf(format), at)
           /\ Off(TextsOf(format), at) \in Nat
           /\ at + 1 <= Len(format) + 1 /\ (at + 1) - 1 = at
<1> DEFINE b == TextsOf(format)
           v == format[at].v
           n == Len(format)
<1>1. job \in {"format", "incr"} /\ InputInv /\ s \in SoundStrings BY DEF FInv, TInv, PcInv
<1>2. IsFormat(format) /\ at \in 1 .. n /\ v \in Text BY TokenIs
<1>3. /\ b \in Seq(Seq(Byte)) /\ Len(b) = n /\ n \in Nat /\ b[at] = v
      /\ TextLen(format) = Off(b, n)
  BY <1>2, TextsAre
<1>4. TextLen(format) <= MaxLen /\ MaxLen \in Nat /\ MaxLen <= IntMax /\ IntMax \in Nat
  BY <1>1, FormatShort, SdsAssumption
<1>5. s.len <= Off(b, at - 1) BY DEF FInv, RoomInv
<1>6. s.len \in Nat /\ Len(v) \in Nat BY <1>1, <1>2, StringsAre, LenProperties DEF Text
<1> HIDE DEF b, n, v
<1>7. /\ at > 0 /\ at \in 0 .. Len(b) /\ at - 1 \in 0 .. Len(b) /\ at \in 0 .. n
      /\ n \in 0 .. Len(b)
  BY <1>2, <1>3
<1>8. Off(b, at) = Off(b, at - 1) + Len(v) BY <1>3, <1>7, JoinToType
<1>9. Off(b, at - 1) \in Nat /\ Off(b, at) \in Nat /\ Off(b, n) \in Nat
  <2>1. \A i \in 0 .. Len(b) : Off(b, i) \in Nat BY <1>3, JoinToType
  <2> QED BY <1>7, <2>1
<1>10. Off(b, at) <= Off(b, n) BY <1>3, <1>7, JoinToStays
<1>11. s.len + Len(v) <= Off(b, at) BY <1>5, <1>6, <1>8, <1>9
<1>12. s.len + Len(v) <= IntMax BY <1>3, <1>4, <1>6, <1>9, <1>10, <1>11
<1>13. at + 1 <= n + 1 /\ (at + 1) - 1 = at BY <1>2, <1>3
<1> QED BY <1>6, <1>9, <1>11, <1>12, <1>13 DEF b, n, v

\* What scanning a token leaves of the string.
LEMMA StringScanned ==
    ASSUME FInv, CopyChar \/ EndWord \/ Interpolate \/ IgnoreConversion
    PROVE  s' \in SoundStrings /\ s'.len <= s.len + Len(format[at].v)
<1> DEFINE v == format[at].v
           Fine(sh) == sh \in SoundStrings /\ sh.len <= s.len + Len(v)
<1>1. pc = "scan" /\ at <= Len(format)
  BY DEF CopyChar, EndWord, Interpolate, IgnoreConversion, Scanning
<1>2. s \in SoundStrings /\ v \in Text BY <1>1, TokenIs DEF FInv, TInv
<1>3. /\ s.len \in Nat /\ Len(v) \in Nat /\ s.len + Len(v) <= IntMax /\ IntMax \in Nat
  BY <1>1, TokenFits, SdsAssumption
<1>4. s' \in {s, NewLen(<<>>), CatLen(s, CString(v)), CatLen(s, v), CatPrintf(s, v)}
  BY DEF CopyChar, EndWord, Interpolate, IgnoreConversion
<1> HIDE DEF v
<1>5. Fine(s) BY <1>2, <1>3
<1>6. Fine(NewLen(<<>>))
  <2> DEFINE none == <<>>
  <2>1. none \in Text /\ Len(none) = 0 /\ Len(none) <= IntMax BY <1>3 DEF Text
  <2> HIDE DEF none
  <2>2. NewLen(none) \in SoundStrings /\ NewLen(none).len = 0 BY <2>1, NewLenOf
  <2> QED BY <1>3, <2>2 DEF none
<1>7. ASSUME NEW t \in Text, Len(t) \in Nat, Len(t) <= Len(v) PROVE Fine(CatLen(s, t))
  <2>1. s.len + Len(t) <= IntMax BY <1>3, <1>7
  <2>2. CatLen(s, t) \in SoundStrings /\ CatLen(s, t).len = s.len + Len(t)
    BY <1>2, <2>1, CatLenOf
  <2> QED BY <1>3, <1>7, <2>2
<1>8. CString(v) \in Text /\ Len(CString(v)) \in Nat /\ Len(CString(v)) <= Len(v)
  <2>1. PICK n \in 0 .. Len(v) : CString(v) = SubSeq(v, 1, n) BY <1>2, CStringOf
  <2>2. CString(v) \in Text /\ Len(CString(v)) = n BY <1>2, <2>1, PrefixOf
  <2> QED BY <1>3, <2>1, <2>2
<1>9. Fine(CatPrintf(s, v)) BY <1>2, <1>3, CatPrintfIs
<1>10. Len(v) <= Len(v) BY <1>3
<1>11. Fine(CatLen(s, v)) /\ Fine(CatLen(s, CString(v))) BY <1>2, <1>3, <1>7, <1>8, <1>10
<1> HIDE DEF Fine
<1>12. Fine(s') BY <1>4, <1>5, <1>6, <1>9, <1>11
<1> QED BY <1>12 DEF Fine, v

LEMMA AddArgumentIs ==
    ASSUME FInv, pc = "scan", AddArgument
    PROVE  argv' \in Seq(Text) /\ totlen' = ToInt(Lengths(argv'))
<1>0. s \in SoundStrings /\ argv \in Seq(Text) BY DEF FInv, TInv
<1>1. Str(s) \in Text /\ Len(Str(s)) = s.len /\ s.len \in Nat
  <2>1. s.buf \in Text /\ s.len \in Nat /\ s.len <= Len(s.buf) BY <1>0, StringsAre
  <2> QED BY <2>1, StrOf
<1>2. totlen = ToInt(Lengths(argv)) BY DEF FInv, TInv, PcInv, LenInv
<1>3. SLen(s) = s.len BY <1>0, SizesAre
<1>4. argv' = Append(argv, Str(s)) /\ totlen' = ToInt(totlen + ArgLen(s.len))
  BY <1>3 DEF AddArgument
<1>5. Lengths(Append(argv, Str(s))) = Lengths(argv) + ArgLen(s.len) /\ Lengths(argv) \in Nat
  BY <1>0, <1>1, LengthsAppend
<1>6. ArgLen(s.len) \in Nat BY <1>1, ArgLenIsNat
<1> DEFINE a == Lengths(argv)
           l == ArgLen(s.len)
<1>7. a \in Int /\ l \in Int BY <1>5, <1>6
<1> HIDE DEF a, l
<1>8. ToInt(ToInt(a) + l) = ToInt(a + l) BY <1>7, ToIntAdds
<1>9. Append(argv, Str(s)) \in Seq(Text) BY <1>0, <1>1, AppendProperties
<1> QED BY <1>2, <1>4, <1>5, <1>8, <1>9 DEF a, l

LEMMA FormattedIs ==
    ASSUME FInv, BuildFormatted
    PROVE  /\ pc' \in {"done"} \cup Failed /\ cmd' = Request(argv)
           /\ pc' \in Failed => Len(cmd') >= IntMax
<1> DEFINE a == Lengths(argv)
           n == CountLen(Len(argv))
           total == ToInt(totlen + n)
<1>1. pc = "build" /\ job \in {"format", "incr"} /\ argv \in Seq(Text) /\ Build(argv, total)
  BY DEF BuildFormatted, FInv, TInv
<1>2. totlen = ToInt(a) BY <1>1 DEF FInv, LenInv
<1>3. a \in Int /\ n \in Int
  <2>1. <<>> \in Text /\ Len(argv) \in Nat BY <1>1, LenProperties DEF Text
  <2> QED BY <1>1, <2>1, LengthsAppend, ArgLenIsNat
<1> HIDE DEF a, n
<1>4. total = ToInt(a + n) BY <1>2, <1>3, ToIntAdds
<1>5. total = ToInt(Lengths(argv) + CountLen(Len(argv))) BY <1>4 DEF a, n
<1> HIDE DEF total
<1> QED BY <1>1, <1>5, BuildIs

LEMMA RoomSteps == ASSUME FInv, FormatNext PROVE RoomInv'
<1>1. CASE CopyChar \/ EndWord \/ Interpolate \/ IgnoreConversion
  <2>1. pc = "scan" /\ at <= Len(format) /\ at' = at + 1 /\ UNCHANGED jobVars
    BY <1>1 DEF CopyChar, EndWord, Interpolate, IgnoreConversion, Scanning, Advance, Taken
  <2>2. format' = format BY <2>1 DEF jobVars, format
  <2>3. s' \in SoundStrings /\ s'.len <= s.len + Len(format[at].v) BY <1>1, StringScanned
  <2>4. /\ s.len + Len(format[at].v) <= Off(TextsOf(format), at)
        /\ s.len \in Nat /\ Len(format[at].v) \in Nat /\ Off(TextsOf(format), at) \in Nat
        /\ at + 1 <= Len(format) + 1 /\ (at + 1) - 1 = at
    BY <2>1, TokenFits
  <2>5. s'.len \in Nat BY <2>3, StringsAre
  <2>6. s'.len <= Off(TextsOf(format), at) BY <2>3, <2>4, <2>5
  <2> QED BY <2>1, <2>2, <2>4, <2>6 DEF RoomInv
<1>2. CASE ~(CopyChar \/ EndWord \/ Interpolate \/ IgnoreConversion)
  <2>1. pc' # "scan"
    BY <1>2 DEF FormatNext, LastWord, BuildFormatted, BuildFromVector, GetParameters, CopyElement,
      ElementMissing, AllCopied, BuildCall, FormatArgv, Build
  <2> QED BY <2>1 DEF RoomInv
<1> QED BY <1>1, <1>2

LEMMA JobSteps == ASSUME FInv, FormatNext PROVE TInv' /\ CopyInv' /\ LenInv'
<1>0. /\ s \in SoundStrings /\ argv \in Seq(Text) /\ at \in Nat \ {0} /\ InputInv /\ PcInv
      /\ CopyInv /\ LenInv
  BY DEF FInv, TInv
<1> DEFINE Kept == UNCHANGED jobVars
<1>1. ASSUME Kept PROVE InputInv'
  BY <1>0, <1>1 DEF InputInv, jobVars
<1>2. CASE CopyChar
  <2>1. pc = "scan" /\ at <= Len(format) /\ s' = CatLen(s, format[at].v) /\ at' = at + 1
        /\ UNCHANGED <<jobVars, pc, varg, cmd, interpolated, argv, totlen>>
    BY <1>2 DEF CopyChar, Scanning, Advance, Taken
  <2>2. s' \in SoundStrings BY <1>2, StringScanned
  <2> QED BY <1>0, <1>1, <2>1, <2>2
    DEF TInv, CopyInv, LenInv, PcInv, Failed, jobVars
<1>3. CASE EndWord
  <2>1. pc = "scan" /\ at <= Len(format) /\ at' = at + 1 /\ UNCHANGED <<jobVars, pc, varg, cmd>>
    BY <1>3 DEF EndWord, Scanning, Advance, Taken
  <2>2. CASE s.len # 0
    <3>1. AddArgument /\ s' = NewLen(<<>>) BY <1>3, <2>2 DEF EndWord
    <3>2. s' \in SoundStrings BY <1>3, StringScanned
    <3>3. argv' \in Seq(Text) /\ totlen' = ToInt(Lengths(argv')) BY <2>1, <3>1, AddArgumentIs
    <3> QED BY <1>0, <1>1, <2>1, <3>2, <3>3
      DEF TInv, CopyInv, LenInv, PcInv, Failed, jobVars
  <2>3. CASE s.len = 0
    <3>1. UNCHANGED <<s, argv, totlen, interpolated>> BY <1>3, <2>3 DEF EndWord
    <3> QED BY <1>0, <1>1, <2>1, <3>1 DEF TInv, CopyInv, LenInv, PcInv, Failed, jobVars
  <2> QED BY <2>2, <2>3
<1>4. CASE Interpolate
  <2>1. pc = "scan" /\ at <= Len(format) /\ at' = at + 1
        /\ UNCHANGED <<jobVars, pc, varg, cmd, argv, totlen>>
    BY <1>4 DEF Interpolate, Scanning, Advance, Taken
  <2>3. s' \in SoundStrings BY <1>4, StringScanned
  <2> QED BY <1>0, <1>1, <2>1, <2>3 DEF TInv, CopyInv, LenInv, PcInv, Failed, jobVars
<1>5. CASE IgnoreConversion
  <2>1. pc = "scan" /\ at' = at + 1
        /\ UNCHANGED <<s, jobVars, pc, varg, cmd, interpolated, argv, totlen>>
    BY <1>5 DEF IgnoreConversion, Scanning, Advance, Taken
  <2> QED BY <1>0, <1>1, <2>1 DEF TInv, CopyInv, LenInv, PcInv, Failed, jobVars
<1>6. CASE LastWord
  <2>1. pc = "scan" /\ pc' = "build" /\ UNCHANGED <<s, jobVars, at, interpolated, varg, cmd>>
    BY <1>6 DEF LastWord
  <2>2. argv' \in Seq(Text) /\ totlen' = ToInt(Lengths(argv'))
    <3>1. CASE interpolated = 1 \/ s.len # 0 BY <1>6, <2>1, <3>1, AddArgumentIs DEF LastWord
    <3>2. CASE ~(interpolated = 1 \/ s.len # 0)
      <4>1. UNCHANGED <<argv, totlen>> BY <1>6, <3>2 DEF LastWord
      <4> QED BY <1>0, <2>1, <4>1 DEF LenInv, PcInv
    <3> QED BY <3>1, <3>2
  <2> QED BY <1>0, <1>1, <2>1, <2>2 DEF TInv, CopyInv, LenInv, PcInv, Failed, jobVars
<1>7. CASE BuildFormatted
  <2>1. pc = "build" /\ job \in {"format", "incr"} /\ UNCHANGED <<s, jobVars, at, interpolated, argv, varg>>
    BY <1>7 DEF BuildFormatted
  <2>2. pc' \in {"done"} \cup Failed /\ (pc' \in Failed => Len(cmd') >= IntMax)
    BY <1>7, FormattedIs
  <2> QED BY <1>0, <1>1, <2>1, <2>2 DEF TInv, CopyInv, LenInv, PcInv, Failed, jobVars
<1>8. CASE BuildFromVector
  <2> DEFINE texts == IF job = "argv" THEN input ELSE [k \in DOMAIN input |-> CString(input[k])]
  <2>1. pc = "start" /\ job \in {"argv", "strlen"} /\ FormatArgv(texts)
        /\ UNCHANGED <<s, jobVars, at, interpolated, varg>>
    BY <1>8 DEF BuildFromVector
  <2>2. texts \in Seq(Text)
    <3>1. input \in Seq(Text) BY <1>0, <2>1, VectorsTyped DEF InputInv
    <3> QED BY <2>1, <3>1, StrlenIs
  <2> HIDE DEF texts
  <2>3. /\ pc' \in {"done"} \cup Failed /\ argv' \in Seq(Text)
        /\ pc' \in Failed => Len(cmd') >= IntMax
    BY <2>1, <2>2, FormatArgvIs
  <2> QED BY <1>0, <1>1, <2>1, <2>3 DEF TInv, CopyInv, LenInv, PcInv, Failed, jobVars
<1>9. CASE GetParameters
  <2>1. pc = "start" /\ job = "php" /\ UNCHANGED <<s, jobVars, at, interpolated, totlen, overrun, cmd>>
    BY <1>9 DEF GetParameters
  <2>2. /\ Len(input) \in Nat /\ DOMAIN input = 1 .. Len(input)
        /\ \A k \in 1 .. Len(input) : /\ TextOf(input[k]) \in Text
                                      /\ input[k].elems \in Seq(Text \cup {HOLE})
    BY <1>0, <2>1, CallIs
  <2>3. CASE Len(input) = 2 /\ input[2].array
    <3>1. slots' = 1 + Len(input[2].elems) /\ target' = 1 /\ argv' = <<TextOf(input[1])>> /\ pc' = "copy"
      BY <1>9, <2>3 DEF GetParameters, KeyAndArray
    <3>2. 1 \in 1 .. Len(input) /\ 2 \in 1 .. Len(input) BY <2>3
    <3>3. argv' \in Seq(Text) BY <2>2, <3>1, <3>2
    <3>4. Source' = input[2].elems /\ Len(input[2].elems) \in Nat
      BY <2>1, <2>2, <3>1, <3>2, LenProperties DEF Source, jobVars
    <3>5. at' \in 1 .. Len(Source') + 1 BY <1>0, <2>1, <3>4 DEF CopyInv
    <3> QED BY <1>0, <1>1, <2>1, <2>3, <3>1, <3>3, <3>5 DEF TInv, CopyInv, LenInv, PcInv, Failed, jobVars
  <2>4. CASE ~(Len(input) = 2 /\ input[2].array) /\ Len(input) = 1 /\ input[1].array
    <3>1. slots' = 1 /\ target' = 0 /\ argv' = <<>> /\ pc' = "copy"
      BY <1>9, <2>4 DEF GetParameters
    <3>2. 1 \in 1 .. Len(input) BY <2>4
    <3>4. Source' = input[1].elems /\ Len(input[1].elems) \in Nat
      BY <2>1, <2>2, <3>1, <3>2, LenProperties DEF Source, jobVars
    <3>5. at' \in 1 .. Len(Source') + 1 BY <1>0, <2>1, <3>4 DEF CopyInv
    <3> QED BY <1>0, <1>1, <2>1, <2>4, <3>1, <3>5 DEF TInv, CopyInv, LenInv, PcInv, Failed, jobVars
  <2>5. CASE ~(Len(input) = 2 /\ input[2].array) /\ ~(Len(input) = 1 /\ input[1].array)
    <3>1. argv' = [k \in DOMAIN input |-> TextOf(input[k])] /\ pc' = "build"
      BY <1>9, <2>5 DEF GetParameters
    <3>2. argv' \in Seq(Text)
      <4>1. argv' = [k \in 1 .. Len(input) |-> argv'[k]]
            /\ \A k \in 1 .. Len(input) : argv'[k] \in Text
        BY <2>2, <3>1
      <4> DEFINE m == argv'
      <4>2. m = [k \in 1 .. Len(input) |-> m[k]] /\ \A k \in 1 .. Len(input) : m[k] \in Text
        BY <4>1
      <4> HIDE DEF m
      <4>3. m \in Seq(Text) BY <2>2, <4>2, MapIsTexts
      <4> QED BY <4>3 DEF m
    <3> QED BY <1>0, <1>1, <2>1, <3>1, <3>2 DEF TInv, CopyInv, LenInv, PcInv, Failed, jobVars
  <2> QED BY <2>3, <2>4, <2>5
<1>10. CASE CopyElement
  <2>1. pc = "copy" /\ at <= Len(Source) /\ Source[at] # HOLE /\ argv' = Append(argv, Source[at])
        /\ at' = at + 1 /\ UNCHANGED <<s, jobVars, pc, interpolated, totlen, slots, target, cmd>>
    BY <1>10 DEF CopyElement, Advance
  <2>2. Len(Source) \in Nat /\ job = "php"
        /\ \A k \in 1 .. Len(Source) : Source[k] # HOLE => Source[k] \in Text
    BY <2>1, SourceIs
  <2>3. at \in 1 .. Len(Source) BY <1>0, <2>1, <2>2
  <2>4. argv' \in Seq(Text) BY <1>0, <2>1, <2>2, <2>3, AppendProperties
  <2>5. Source' = Source BY <2>1 DEF Source, jobVars
  <2>6. at' \in 1 .. Len(Source') + 1 BY <2>1, <2>2, <2>3, <2>5
  <2> QED BY <1>0, <1>1, <2>1, <2>2, <2>4, <2>6 DEF TInv, CopyInv, LenInv, PcInv, Failed, jobVars
<1>11. CASE ElementMissing
  <2>1. pc = "copy" /\ pc' = "refused" /\ UNCHANGED <<s, jobVars, at, interpolated, argv, totlen, varg, cmd>>
    BY <1>11 DEF ElementMissing
  <2> QED BY <1>0, <1>1, <2>1 DEF TInv, CopyInv, LenInv, PcInv, Failed, jobVars
<1>12. CASE AllCopied
  <2>1. pc = "copy" /\ pc' = "build" /\ UNCHANGED <<s, jobVars, at, interpolated, argv, totlen, varg, cmd>>
    BY <1>12 DEF AllCopied
  <2> QED BY <1>0, <1>1, <2>1 DEF TInv, CopyInv, LenInv, PcInv, Failed, jobVars
<1>13. CASE BuildCall
  <2> DEFINE texts == <<Keyword>> \o argv
  <2>1. pc = "build" /\ job = "php" /\ FormatArgv(texts) /\ UNCHANGED <<s, jobVars, at, interpolated, varg>>
    BY <1>13 DEF BuildCall
  <2>2. texts \in Seq(Text)
    <3>1. <<Keyword>> \in Seq(Text) BY KeywordIsText
    <3> QED BY <1>0, <3>1, ConcatIs
  <2> HIDE DEF texts
  <2>3. /\ pc' \in {"done"} \cup Failed /\ argv' \in Seq(Text)
        /\ pc' \in Failed => Len(cmd') >= IntMax
    BY <2>1, <2>2, FormatArgvIs
  <2> QED BY <1>0, <1>1, <2>1, <2>3 DEF TInv, CopyInv, LenInv, PcInv, Failed, jobVars
<1> QED BY <1>2, <1>3, <1>4, <1>5, <1>6, <1>7, <1>8, <1>9, <1>10, <1>11, <1>12, <1>13
  DEF FormatNext

LEMMA FormatSteps == ASSUME FInv, FormatNext PROVE FInv'
  BY JobSteps, RoomSteps DEF FInv

LEMMA FormatKeeps == FormatSpec => []FInv
<1>1. FInv /\ UNCHANGED vars => FInv'
  <2> SUFFICES ASSUME FInv, UNCHANGED vars PROVE FInv' OBVIOUS
  <2>1. Source' = Source /\ format' = format BY DEF vars, jobVars, varg, Source, format
  <2> QED BY <2>1
    DEF FInv, TInv, PcInv, InputInv, CopyInv, LenInv, RoomInv, vars, jobVars, varg
<1>2. FInv /\ [FormatNext]_vars => FInv' BY <1>1, FormatSteps
<1> QED BY <1>2, FormatInits, PTL DEF FormatSpec

\* HeaderSound in the commands: the string that holds the argument under
\* construction keeps a header that tells the truth, through every literal
\* byte, conversion and end of an argument of redisvFormatCommand.
THEOREM FormatHeadersSound == FormatSpec => []HeaderSound
<1>1. FInv => HeaderSound BY StringsSound DEF FInv, TInv
<1> QED BY <1>1, FormatKeeps, PTL

\* LengthExact: however many arguments a format, an array or a PHP call has,
\* if an int can count the bytes of the command and the NUL after it, then the
\* length that redisvFormatCommand and redisFormatCommandArgv counted, and
\* allocated, is the length of what they write: no assertion of theirs fails,
\* nothing is written past the end, and they do not give up for lack of memory.
THEOREM LengthsExact == FormatSpec => []LengthExact
<1>1. FInv => LengthExact BY DEF FInv, LenInv, Failed, LengthExact
<1> QED BY <1>1, FormatKeeps, PTL

\* The calls that redis_varg_run has room for: an array that is the only
\* argument has at most one element, for only one was counted.
NoLoneArray == \A c \in Calls : Len(c) = 1 /\ c[1].array => Len(c[1].elems) <= 1

\* InsideArgs: no call but an array of several elements on its own makes
\* redis_varg_run write past the end of z_args.
THEOREM ArgsInside == ASSUME NoLoneArray PROVE FormatSpec => []InsideArgs
<1>1. FormatInit => InsideArgs BY DEF FormatInit, InsideArgs
<1>2. ASSUME FInv, InsideArgs, [FormatNext]_vars PROVE InsideArgs'
  <2>1. CASE CopyElement
    <3>1. pc = "copy" /\ at <= Len(Source) /\ overrun' = (overrun \/ target + at > slots)
      BY <2>1 DEF CopyElement
    <3>2. /\ job = "php" /\ Len(Source) \in Nat /\ at \in Nat
          /\ target + 1 \in 1 .. Len(input) /\ target \in {0, 1} /\ InputInv
      BY <1>2, <3>1, SourceIs DEF FInv, TInv
    <3>3. input \in Calls BY <3>2 DEF InputInv
    <3>4. CASE target = 1 /\ slots = 1 + Len(input[2].elems)
      <4>1. slots = 1 + Len(Source) BY <3>4 DEF Source
      <4>2. ~(target + at > slots) BY <3>1, <3>2, <3>4, <4>1
      <4> QED BY <1>2, <3>1, <4>2, Zenon DEF InsideArgs
    <3>5. CASE target = 0 /\ Len(input) = 1 /\ input[1].array /\ slots = 1
      <4>1. Len(Source) <= 1 BY <3>3, <3>5 DEF Source, NoLoneArray
      <4>2. ~(target + at > slots) BY <3>1, <3>2, <3>5, <4>1
      <4> QED BY <1>2, <3>1, <4>2, Zenon DEF InsideArgs
    <3> QED BY <1>2, <3>1, <3>4, <3>5 DEF FInv, CopyInv
  <2>2. CASE ~CopyElement
    <3>1. overrun' = overrun
      BY <1>2, <2>2 DEF FormatNext, CopyChar, EndWord, Interpolate, IgnoreConversion, LastWord,
        BuildFormatted, BuildFromVector, GetParameters, ElementMissing, AllCopied, BuildCall,
        Taken, varg, vars
    <3> QED BY <1>2, <3>1 DEF InsideArgs
  <2> QED BY <2>1, <2>2
<1> QED BY <1>1, <1>2, FormatKeeps, PTL DEF FormatSpec

-----------------------------------------------------------------------------
(***************************************************************************)
(* The server reads back what was encoded.                                 *)
(***************************************************************************)
Places  == {"count", "countDigits", "countEnd", "length", "lengthDigits", "lengthEnd",
            "body", "bodyEnd", "garbled"}
Reading == [at : Places, n : Int, len : Int, text : Text, argv : Seq(Text)]
ReadingAt(place, n, len, text, args) ==
    [at |-> place, n |-> n, len |-> len, text |-> text, argv |-> args]
Decode  == [p \in Reading \X Byte |-> DecodeByte(p[1], p[2])]
Start   == ReadingAt("count", 0, 0, <<>>, <<>>)

LEMMA DigitOfIs == \A c : DigitOf(c) \in Int
<1> SUFFICES ASSUME NEW c PROVE DigitOf(c) \in Int OBVIOUS
<1> DEFINE I == {i \in 1 .. Len(DigitChars) : DigitChars[i] = c}
<1>1. ASSUME I # {} PROVE Min(I) \in Int
  <2>1. I \in SUBSET Nat BY DigitCharsAre
  <2> HIDE DEF I
  <2>2. Min(I) \in I BY <1>1, <2>1, MinOf
  <2>3. \A i \in I : i \in Int BY <2>1
  <2> QED BY <2>2, <2>3
<1>2. SelectInSeq(DigitChars, LAMBDA d : d = c) = IF I # {} THEN Min(I) ELSE 0
  BY DEF SelectInSeq
<1> QED BY <1>1, <1>2 DEF DigitOf

LEMMA ReadingAtIs ==
    ASSUME NEW place \in Places, NEW n \in Int, NEW len \in Int, NEW t \in Text,
           NEW a \in Seq(Text)
    PROVE  ReadingAt(place, n, len, t, a) \in Reading
  BY DEF ReadingAt, Reading

LEMMA DecodeTyped ==
    ASSUME NEW r \in Reading, NEW c \in Byte PROVE DecodeByte(r, c) \in Reading
<1>1. /\ r.at \in Places /\ r.n \in Int /\ r.len \in Int /\ r.text \in Text /\ r.argv \in Seq(Text)
      /\ r = [at |-> r.at, n |-> r.n, len |-> r.len, text |-> r.text, argv |-> r.argv]
  BY DEF Reading
<1>2. 10 * r.n + DigitOf(c) \in Int /\ 10 * r.len + DigitOf(c) \in Int BY <1>1, DigitOfIs
<1>3. Append(r.text, c) \in Text /\ <<>> \in Text BY <1>1, AppendProperties DEF Text
<1>4. Append(r.argv, r.text) \in Seq(Text) BY <1>1, AppendProperties
<1>5. \A p \in Places : [r EXCEPT !.at = p] \in Reading BY DEF Reading
<1>6. [r EXCEPT !.n = 10 * @ + DigitOf(c)] \in Reading BY <1>1, <1>2 DEF Reading
<1>7. [r EXCEPT !.len = 10 * @ + DigitOf(c)] \in Reading BY <1>1, <1>2 DEF Reading
<1>8. [r EXCEPT !.at = "lengthDigits", !.len = 0] \in Reading
  <2> DEFINE zero == 0
  <2>1. zero \in Int OBVIOUS
  <2> HIDE DEF zero
  <2>2. [r EXCEPT !.at = "lengthDigits", !.len = zero] \in Reading BY <1>1, <2>1 DEF Reading, Places
  <2> QED BY <2>2 DEF zero
<1>9. [r EXCEPT !.at = "body", !.text = <<>>] \in Reading BY <1>1, <1>3 DEF Reading, Places
<1>10. [r EXCEPT !.text = Append(@, c)] \in Reading BY <1>1, <1>3 DEF Reading
<1>11. [r EXCEPT !.at = "length", !.argv = Append(@, r.text)] \in Reading
  BY <1>1, <1>4 DEF Reading, Places
<1>12. DecodeByte(r, c) \in
          {[r EXCEPT !.at = p] : p \in Places} \cup
          {[r EXCEPT !.n = 10 * @ + DigitOf(c)], [r EXCEPT !.len = 10 * @ + DigitOf(c)],
           [r EXCEPT !.at = "lengthDigits", !.len = 0], [r EXCEPT !.at = "body", !.text = <<>>],
           [r EXCEPT !.text = Append(@, c)], [r EXCEPT !.at = "length", !.argv = Append(@, r.text)]}
  BY DEF DecodeByte, Places
<1> QED BY <1>5, <1>6, <1>7, <1>8, <1>9, <1>10, <1>11, <1>12

LEMMA DecodeIs ==
    /\ Decode \in [Reading \X Byte -> Reading]
    /\ \A r \in Reading, c \in Byte : Decode[<<r, c>>] = DecodeByte(r, c)
  BY DecodeTyped DEF Decode

LEMMA DecodeTrace ==
    ASSUME NEW b \in Text
    PROVE  HasTrace(Reading, Start, Decode, b, Decoded(b))
<1> DEFINE n == Len(b)
           it == CHOOSE f : f = [u \in SUBSET (1 .. n) |->
                    IF u = {} THEN Start ELSE DecodeByte(f[u \ {Max(u)}], b[Max(u)])]
<1>0. Start = [at |-> "count", n |-> 0, len |-> 0, text |-> <<>>, argv |-> <<>>]
  BY DEF Start, ReadingAt
<1>1. n \in Nat /\ DOMAIN b = 1 .. n BY LenProperties DEF Text
<1>2. Decoded(b) = it[1 .. n] BY <1>0, <1>1 DEF Decoded, FoldLeft, MapThenFoldSet
<1>3. Start \in Reading
  <2> DEFINE zero == 0
             none == <<>>
  <2>1. zero \in Int /\ none \in Text /\ none \in Seq(Text) BY DEF Text
  <2> HIDE DEF zero, none
  <2>2. ReadingAt("count", zero, zero, none, none) \in Reading
    BY <2>1 DEF ReadingAt, Reading, Places
  <2> QED BY <2>2 DEF zero, none, Start
<1>4. Foldable(Reading, Byte, Start, Decode, b) BY <1>3, DecodeIs DEF Foldable, Text
<1>5. PICK g \in [SUBSET (1 .. n) -> Reading] :
        /\ IsStepwise(g, Start, Decode, b)
        /\ \A u \in SUBSET (1 .. n) : u # {} => g[u \ {Max(u)}] \in Reading /\ b[Max(u)] \in Byte
  <2>1. HasStepwise(Reading, Byte, Start, Decode, b) BY <1>4, StepwiseExists
  <2> QED BY <2>1, Zenon DEF HasStepwise
<1>6. g = [u \in SUBSET (1 .. n) |->
              IF u = {} THEN Start ELSE DecodeByte(g[u \ {Max(u)}], b[Max(u)])]
  BY <1>5, DecodeIs DEF IsStepwise
<1>7. it = [u \in SUBSET (1 .. n) |->
              IF u = {} THEN Start ELSE DecodeByte(it[u \ {Max(u)}], b[Max(u)])]
  BY <1>6, Zenon
<1> HIDE DEF it
<1>8. it[{}] = Start BY <1>7
<1>9. \A u \in SUBSET (1 .. Len(b)) :
          u # {} /\ it[u \ {Max(u)}] \in Reading /\ b[Max(u)] \in Byte =>
              it[u] = Decode[<<it[u \ {Max(u)}], b[Max(u)]>>]
  BY <1>7, DecodeIs
<1>10. HasTrace(Reading, Start, Decode, b, it[1 .. Len(b)]) BY <1>4, <1>8, <1>9, FoldTrace
<1> QED BY <1>2, <1>10

\* From reading p, the bytes x lead to reading q.
Reads(p, x, q) == x \in Text /\ HasTrace(Reading, p, Decode, x, q)

LEMMA ReadsLeads == \A p, x, q : Reads(p, x, q) <=> Leads(Reading, Byte, Decode, p, x, q)
  BY DEF Reads, Leads, Text

LEMMA ReadsNothing == ASSUME NEW p \in Reading PROVE Reads(p, <<>>, p)
  BY LeadsNothing, ReadsLeads

LEMMA ReadsEnds == ASSUME NEW p, NEW x, NEW q, Reads(p, x, q)
                   PROVE  p \in Reading /\ q \in Reading
<1>1. Leads(Reading, Byte, Decode, p, x, q) BY ReadsLeads
<1> QED BY <1>1, LeadsEnds

LEMMA ReadsConcat ==
    ASSUME NEW p, NEW x, NEW q, NEW y, NEW z, Reads(p, x, q), Reads(q, y, z)
    PROVE  Reads(p, x \o y, z)
<1>1. Leads(Reading, Byte, Decode, p, x, q) /\ Leads(Reading, Byte, Decode, q, y, z)
  BY ReadsLeads
<1>2. Leads(Reading, Byte, Decode, p, x \o y, z) BY <1>1, LeadsConcat
<1> QED BY <1>2, ReadsLeads

LEMMA ReadsByte ==
    ASSUME NEW q \in Reading, NEW c \in Byte
    PROVE  Reads(q, <<c>>, DecodeByte(q, c))
<1>1. Decode \in [Reading \X Byte -> Reading] /\ Decode[<<q, c>>] = DecodeByte(q, c)
  BY DecodeIs
<1>2. Leads(Reading, Byte, Decode, q, <<c>>, Decode[<<q, c>>]) BY <1>1, LeadsOne
<1> QED BY <1>1, <1>2, ReadsLeads

LEMMA ReadsOneThing ==
    ASSUME NEW p, NEW x, NEW q, NEW z, Reads(p, x, q), Reads(p, x, z)
    PROVE  q = z
<1>1. Leads(Reading, Byte, Decode, p, x, q) /\ Leads(Reading, Byte, Decode, p, x, z)
  BY ReadsLeads
<1> QED BY <1>1, LeadsNowhereElse

LEMMA DecodedReads == ASSUME NEW b \in Text PROVE Reads(Start, b, Decoded(b))
  BY DecodeTrace DEF Reads

\* What each byte does to the reader of a request.
\* One byte, one turn of the server.
LEMMA CountTurns ==
    ASSUME NEW n \in Int, NEW l \in Int, NEW t \in Text, NEW a \in Seq(Text)
    PROVE  /\ DecodeByte(ReadingAt("count", n, l, t, a), "*") = ReadingAt("countDigits", n, l, t, a)
           /\ DecodeByte(ReadingAt("countDigits", n, l, t, a), "cr") = ReadingAt("countEnd", n, l, t, a)
           /\ DecodeByte(ReadingAt("countEnd", n, l, t, a), NL) = ReadingAt("length", n, l, t, a)
<1>1. DecodeByte(ReadingAt("count", n, l, t, a), "*") = ReadingAt("countDigits", n, l, t, a)
  BY DEF DecodeByte, ReadingAt
<1>2. DecodeByte(ReadingAt("countDigits", n, l, t, a), "cr") = ReadingAt("countEnd", n, l, t, a)
  BY DEF DecodeByte, ReadingAt
<1>3. DecodeByte(ReadingAt("countEnd", n, l, t, a), NL) = ReadingAt("length", n, l, t, a)
  BY DEF DecodeByte, ReadingAt
<1> QED BY <1>1, <1>2, <1>3

LEMMA LengthStarts ==
    ASSUME NEW n \in Int, NEW l \in Int, NEW t \in Text, NEW a \in Seq(Text)
    PROVE  DecodeByte(ReadingAt("length", n, l, t, a), "$") = ReadingAt("lengthDigits", n, 0, t, a)
  BY DEF DecodeByte, ReadingAt

LEMMA LengthStops ==
    ASSUME NEW n \in Int, NEW l \in Int, NEW t \in Text, NEW a \in Seq(Text)
    PROVE  DecodeByte(ReadingAt("lengthDigits", n, l, t, a), "cr") = ReadingAt("lengthEnd", n, l, t, a)
  BY DEF DecodeByte, ReadingAt

LEMMA BodyStarts ==
    ASSUME NEW n \in Int, NEW l \in Int, NEW t \in Text, NEW a \in Seq(Text)
    PROVE  DecodeByte(ReadingAt("lengthEnd", n, l, t, a), NL) = ReadingAt("body", n, l, <<>>, a)
  BY DEF DecodeByte, ReadingAt

LEMMA BodyStops ==
    ASSUME NEW n \in Int, NEW l \in Int, NEW t \in Text, NEW a \in Seq(Text)
    PROVE  /\ l = Len(t) =>
                DecodeByte(ReadingAt("body", n, l, t, a), "cr") = ReadingAt("bodyEnd", n, l, t, a)
           /\ DecodeByte(ReadingAt("bodyEnd", n, l, t, a), NL)
                = ReadingAt("length", n, l, t, Append(a, t))
<1>1. l = Len(t) =>
        DecodeByte(ReadingAt("body", n, l, t, a), "cr") = ReadingAt("bodyEnd", n, l, t, a)
  BY DEF DecodeByte, ReadingAt
<1>2. DecodeByte(ReadingAt("bodyEnd", n, l, t, a), NL) = ReadingAt("length", n, l, t, Append(a, t))
  BY DEF DecodeByte, ReadingAt
<1> QED BY <1>1, <1>2

LEMMA BodyTurns ==
    ASSUME NEW n \in Int, NEW l \in Int, NEW t \in Text, NEW a \in Seq(Text), NEW c \in Byte,
           Len(t) < l
    PROVE  DecodeByte(ReadingAt("body", n, l, t, a), c) = ReadingAt("body", n, l, Append(t, c), a)
<1> DEFINE r == ReadingAt("body", n, l, t, a)
<1>1. Len(t) \in Nat /\ Len(t) # l BY LenProperties DEF Text
<1>2. r = [at |-> "body", n |-> n, len |-> l, text |-> t, argv |-> a] BY DEF ReadingAt
<1>3. r.at = "body" /\ Len(r.text) < r.len BY <1>2
<1>4. DecodeByte(r, c) = [r EXCEPT !.text = Append(@, c)]
  <2> HIDE DEF r
  <2> QED BY <1>3 DEF DecodeByte
<1> DEFINE x == Append(t, c)
<1>6. Append(r.text, c) = x BY <1>2
<1>5. [r EXCEPT !.text = Append(@, c)] = ReadingAt("body", n, l, x, a)
  <2> HIDE DEF x, r
  <2>1. [r EXCEPT !.text = x] = ReadingAt("body", n, l, x, a) BY <1>2 DEF ReadingAt
  <2> QED BY <1>6, <2>1
<1> HIDE DEF r
<1> QED BY <1>4, <1>5 DEF r

LEMMA AppendAsConcat ==
    ASSUME NEW S, NEW x \in Seq(S), NEW c \in S PROVE Append(x, c) = x \o <<c>>
  OBVIOUS

LEMMA ReadsMore ==
    ASSUME NEW p, NEW x, NEW q, Reads(p, x, q), NEW c \in Byte
    PROVE  Reads(p, x \o <<c>>, DecodeByte(q, c))
<1>1. q \in Reading BY ReadsEnds
<1> QED BY <1>1, ReadsByte, ReadsConcat

\* f[v] is the reading where the digits so far amount to v.
LEMMA DigitsRead ==
    ASSUME NEW f \in [Nat -> Reading],
           \A v \in Nat, d \in 0 .. 9 : DecodeByte(f[v], DigitChars[d + 1]) = f[10 * v + d],
           NEW n \in Nat
    PROVE  Reads(f[0], Digits[n], f[n])
<1> DEFINE zero == 0
           T == {m \in Nat : ~Reads(f[zero], Digits[m], f[m])}
<1>0. zero \in Nat /\ zero = 0 OBVIOUS
<1> HIDE DEF zero
<1>1. ASSUME T # {} PROVE FALSE
  <2>1. PICK m \in T : \A y \in T : m <= y BY <1>1, Least
  <2>2. m \in Nat /\ ~Reads(f[zero], Digits[m], f[m]) BY <2>1
  <2> DEFINE small == m < 10
             c == DigitChars[(m % 10) + 1]
  <2>3. Digits[m] = IF small THEN <<DigitChars[m + 1]>> ELSE Append(Digits[m \div 10], c)
    BY <2>2, DigitsAre, Zenon
  <2>4. CASE small
    <3>1. m \in 0 .. 9 BY <2>2, <2>4
    <3>2. DigitChars[m + 1] \in Byte BY <3>1, DigitCharsAre
    <3>3. f[zero] \in Reading BY <1>0
    <3>4. Reads(f[zero], <<DigitChars[m + 1]>>, DecodeByte(f[zero], DigitChars[m + 1]))
      BY <3>2, <3>3, ReadsByte
    <3>5. DecodeByte(f[zero], DigitChars[m + 1]) = f[10 * zero + m] BY <1>0, <3>1
    <3>6. 10 * zero + m = m BY <1>0, <2>2
    <3> HIDE DEF small
    <3> QED BY <2>2, <2>3, <2>4, <3>4, <3>5, <3>6
  <2>5. CASE ~small
    <3>1. m \div 10 \in Nat /\ m \div 10 < m /\ m % 10 \in 0 .. 9 /\ m = 10 * (m \div 10) + (m % 10)
      <4>1. m >= 10 BY <2>2, <2>5
      <4> QED BY <2>2, <4>1, Tenth
    <3> DEFINE e == m \div 10
               d == m % 10
               x == Digits[e]
    <3>2. Reads(f[zero], x, f[e]) BY <2>1, <3>1
    <3>3. c \in Byte BY <3>1, DigitCharsAre
    <3>4. DecodeByte(f[e], c) = f[10 * e + d] BY <3>1
    <3>5. 10 * e + d = m BY <3>1
    <3>6. x \in Seq(Byte) BY <3>1, DigitsAre DEF Text
    <3>7. Digits[m] = Append(x, c)
      <4> HIDE DEF small, c
      <4> QED BY <2>3, <2>5
    <3> HIDE DEF c, e, d, x, small
    <3>8. Append(x, c) = x \o <<c>> BY <3>3, <3>6, AppendAsConcat
    <3>9. Reads(f[zero], x \o <<c>>, DecodeByte(f[e], c)) BY <3>2, <3>3, ReadsMore
    <3> QED BY <2>2, <3>4, <3>5, <3>7, <3>8, <3>9
  <2> QED BY <2>4, <2>5
<1>2. T = {} BY <1>1, Zenon
<1>3. Reads(f[zero], Digits[n], f[n]) BY <1>2
<1> QED BY <1>3 DEF zero

\* The digits of a count and of a length.
LEMMA CountRead ==
    ASSUME NEW n \in Nat, NEW a \in Seq(Text), NEW t \in Text, NEW l \in Int
    PROVE  Reads(ReadingAt("countDigits", 0, l, t, a), Digits[n], ReadingAt("countDigits", n, l, t, a))
<1> DEFINE f == [v \in Nat |-> ReadingAt("countDigits", v, l, t, a)]
<1>1. \A v \in Nat : f[v] = ReadingAt("countDigits", v, l, t, a) OBVIOUS
<1>2. \A v \in Nat : ReadingAt("countDigits", v, l, t, a) \in Reading
  BY ReadingAtIs DEF Places
<1>3. f \in [Nat -> Reading] BY <1>2
<1>4. \A v \in Nat, d \in 0 .. 9 : 10 * v + d \in Nat /\ v \in Int OBVIOUS
<1> HIDE DEF f
<1>5. \A v \in Nat, d \in 0 .. 9 : DecodeByte(f[v], DigitChars[d + 1]) = f[10 * v + d]
  <2> SUFFICES ASSUME NEW v \in Nat, NEW d \in 0 .. 9
               PROVE  DecodeByte(f[v], DigitChars[d + 1]) = f[10 * v + d]
    OBVIOUS
  <2> DEFINE w == 10 * v + d
  <2>1. v \in Int /\ w \in Nat /\ w = 10 * v + d BY <1>4
  <2> HIDE DEF w
  <2>2. DecodeByte(ReadingAt("countDigits", v, l, t, a), DigitChars[d + 1]) = ReadingAt("countDigits", w, l, t, a)
    <3> DEFINE c == DigitChars[d + 1]
    <3>1. c # "cr" /\ DigitOf(c) = d BY DigitCharsAre
    <3> HIDE DEF c
    <3>2. DecodeByte(ReadingAt("countDigits", v, l, t, a), c) = ReadingAt("countDigits", w, l, t, a)
      BY <2>1, <3>1 DEF DecodeByte, ReadingAt
    <3> QED BY <3>2 DEF c
  <2>3. f[w] = ReadingAt("countDigits", w, l, t, a) BY <1>1, <2>1
  <2>4. f[v] = ReadingAt("countDigits", v, l, t, a) BY <1>1
  <2> QED BY <2>2, <2>3, <2>4 DEF w
<1>6. Reads(f[0], Digits[n], f[n]) BY <1>3, <1>5, DigitsRead
<1>7. 0 \in Nat OBVIOUS
<1> QED BY <1>1, <1>6, <1>7

LEMMA LengthRead ==
    ASSUME NEW n \in Int, NEW a \in Seq(Text), NEW t \in Text, NEW l \in Nat
    PROVE  Reads(ReadingAt("lengthDigits", n, 0, t, a), Digits[l], ReadingAt("lengthDigits", n, l, t, a))
<1> DEFINE f == [v \in Nat |-> ReadingAt("lengthDigits", n, v, t, a)]
<1>1. \A v \in Nat : f[v] = ReadingAt("lengthDigits", n, v, t, a) OBVIOUS
<1>2. \A v \in Nat : ReadingAt("lengthDigits", n, v, t, a) \in Reading
  BY ReadingAtIs DEF Places
<1>3. f \in [Nat -> Reading] BY <1>2
<1>4. \A v \in Nat, d \in 0 .. 9 : 10 * v + d \in Nat /\ v \in Int OBVIOUS
<1> HIDE DEF f
<1>5. \A v \in Nat, d \in 0 .. 9 : DecodeByte(f[v], DigitChars[d + 1]) = f[10 * v + d]
  <2> SUFFICES ASSUME NEW v \in Nat, NEW d \in 0 .. 9
               PROVE  DecodeByte(f[v], DigitChars[d + 1]) = f[10 * v + d]
    OBVIOUS
  <2> DEFINE w == 10 * v + d
  <2>1. v \in Int /\ w \in Nat /\ w = 10 * v + d BY <1>4
  <2> HIDE DEF w
  <2>2. DecodeByte(ReadingAt("lengthDigits", n, v, t, a), DigitChars[d + 1]) = ReadingAt("lengthDigits", n, w, t, a)
    <3> DEFINE c == DigitChars[d + 1]
    <3>1. c # "cr" /\ DigitOf(c) = d BY DigitCharsAre
    <3> HIDE DEF c
    <3>2. DecodeByte(ReadingAt("lengthDigits", n, v, t, a), c) = ReadingAt("lengthDigits", n, w, t, a)
      BY <2>1, <3>1 DEF DecodeByte, ReadingAt
    <3> QED BY <3>2 DEF c
  <2>3. f[w] = ReadingAt("lengthDigits", n, w, t, a) BY <1>1, <2>1
  <2>4. f[v] = ReadingAt("lengthDigits", n, v, t, a) BY <1>1
  <2> QED BY <2>2, <2>3, <2>4 DEF w
<1>6. Reads(f[0], Digits[l], f[l]) BY <1>3, <1>5, DigitsRead
<1>7. 0 \in Nat OBVIOUS
<1> QED BY <1>1, <1>6, <1>7

\* A line: its byte, a number and the end of it.
LEMMA LineReads ==
    ASSUME NEW c \in Byte, NEW n \in Nat, NEW p, NEW q, NEW r,
           p \in Reading, Reads(DecodeByte(p, c), Digits[n], q),
           r = DecodeByte(DecodeByte(q, "cr"), NL)
    PROVE  Reads(p, Line(c, n), r)
<1> DEFINE C == <<c>>
           D == Digits[n]
           R == <<"cr">>
           E == <<NL>>
           u == DecodeByte(p, c)
           v == DecodeByte(q, "cr")
<1>1. "cr" \in Byte /\ NL \in Byte BY DEF Byte, Chars
<1>2. C \in Seq(Byte) /\ R \in Seq(Byte) /\ E \in Seq(Byte) BY <1>1
<1>3. D \in Seq(Byte) BY DigitsAre DEF Text
<1>4. Reads(p, C, u) BY ReadsByte
<1>5. Reads(u, D, q) OBVIOUS
<1>6. q \in Reading BY <1>5, ReadsEnds
<1>7. Reads(q, R, v) BY <1>1, <1>6, ReadsByte
<1>8. v \in Reading BY <1>7, ReadsEnds
<1>9. Reads(v, E, r) BY <1>1, <1>8, ReadsByte
<1>10. Line(c, n) = (C \o D) \o (R \o E)
  <2>1. CRLF = R \o E BY DEF CRLF
  <2> QED BY <2>1 DEF Line
<1> HIDE DEF C, D, R, E, u, v
<1>11. Reads(p, C \o D, q) BY <1>4, <1>5, ReadsConcat
<1>12. Reads(q, R \o E, r) BY <1>7, <1>9, ReadsConcat
<1>13. Reads(p, (C \o D) \o (R \o E), r) BY <1>11, <1>12, ReadsConcat
<1> QED BY <1>10, <1>13

LEMMA BodyRead ==
    ASSUME NEW n \in Int, NEW a \in Seq(Text), NEW t \in Text
    PROVE  Reads(ReadingAt("body", n, Len(t), <<>>, a), t, ReadingAt("body", n, Len(t), t, a))
<1> DEFINE l == Len(t)
           none == <<>>
           At(x) == ReadingAt("body", n, l, x, a)
           Part(k) == SubSeq(t, 1, k)
           T == {k \in Nat : k <= l /\ ~Reads(At(none), Part(k), At(Part(k)))}
<1>1. l \in Nat /\ l \in Int /\ t \in Seq(Byte) /\ none \in Text /\ l = Len(t)
  BY LenProperties DEF Text
<1>2. \A k \in 0 .. l : Part(k) \in Text /\ Len(Part(k)) = k
  BY <1>1, SubSeqProperties DEF Text
<1>3. \A k \in 1 .. l : /\ k - 1 \in 0 .. l /\ t[k] \in Byte
                        /\ Part(k) = Append(Part(k - 1), t[k])
                        /\ Part(k) = Part(k - 1) \o <<t[k]>>
  <2> SUFFICES ASSUME NEW k \in 1 .. l
               PROVE  /\ k - 1 \in 0 .. l /\ t[k] \in Byte
                      /\ Part(k) = Append(Part(k - 1), t[k])
                      /\ Part(k) = Part(k - 1) \o <<t[k]>>
    OBVIOUS
  <2>1. k - 1 \in 0 .. l /\ t[k] \in Byte BY <1>1
  <2>2. Part(k) = Append(Part(k - 1), t[k]) BY <1>1, <2>1
  <2>3. Part(k - 1) \in Seq(Byte) BY <1>2, <2>1 DEF Text
  <2> DEFINE y == Part(k - 1)
  <2>4. Append(y, t[k]) = y \o <<t[k]>>
    <3> HIDE DEF y
    <3> QED BY <2>1, <2>3 DEF y
  <2> QED BY <2>1, <2>2, <2>4
<1>4. Part(0) = none /\ Part(l) = t BY <1>1
<1>5. \A x \in Text : At(x) \in Reading BY <1>1, ReadingAtIs DEF Places
<1>6. ASSUME NEW x \in Text, NEW c \in Byte, Len(x) < l PROVE DecodeByte(At(x), c) = At(Append(x, c))
  BY <1>1, <1>6, BodyTurns
<1> HIDE DEF l, none, At, Part
<1>7. ASSUME T # {} PROVE FALSE
  <2>1. PICK k \in T : \A y \in T : k <= y BY <1>7, Least
  <2>2. k \in Nat /\ k <= l /\ ~Reads(At(none), Part(k), At(Part(k))) BY <2>1
  <2>3. k # 0
    <3>1. Reads(At(none), <<>>, At(none)) BY <1>1, <1>5, ReadsNothing
    <3>2. none = <<>> BY DEF none
    <3> QED BY <1>4, <2>2, <3>1, <3>2
  <2>4. k \in 1 .. l /\ k - 1 \in Nat /\ k - 1 \notin T /\ k - 1 \in 0 .. l /\ k - 1 < l
    BY <1>1, <2>1, <2>3
  <2> DEFINE x == Part(k - 1)
             c == t[k]
  <2>5. Reads(At(none), x, At(x)) BY <1>1, <2>4
  <2>6. x \in Text /\ Len(x) < l /\ c \in Byte BY <1>2, <1>3, <2>4
  <2>7. Part(k) = x \o <<c>> /\ Part(k) = Append(x, c) BY <1>3, <2>4
  <2> HIDE DEF x, c
  <2>8. Reads(At(none), x \o <<c>>, DecodeByte(At(x), c)) BY <2>5, <2>6, ReadsMore
  <2>9. DecodeByte(At(x), c) = At(Append(x, c)) BY <1>6, <2>6
  <2> QED BY <2>2, <2>7, <2>8, <2>9
<1>8. T = {} BY <1>7, Zenon
<1>9. Reads(At(none), t, At(t))
  <2>1. l \in Nat /\ l <= l BY <1>1
  <2> QED BY <1>4, <1>8, <2>1
<1> QED BY <1>9 DEF l, none, At

LEMMA BulkReads ==
    ASSUME NEW n \in Int, NEW l \in Int, NEW t \in Text, NEW a \in Seq(Text), NEW u \in Text
    PROVE  Reads(ReadingAt("length", n, l, u, a), Bulk(t),
                 ReadingAt("length", n, Len(t), t, Append(a, t)))
<1> DEFINE m == Len(t)
           p == ReadingAt("length", n, l, u, a)
           d == ReadingAt("lengthDigits", n, 0, u, a)
           e == ReadingAt("lengthDigits", n, m, u, a)
           f == ReadingAt("lengthEnd", n, m, u, a)
           b == ReadingAt("body", n, m, <<>>, a)
           g == ReadingAt("body", n, m, t, a)
           h == ReadingAt("bodyEnd", n, m, t, a)
           q == ReadingAt("length", n, m, t, Append(a, t))
           R == <<"cr">>
           E == <<NL>>
           head == Line("$", m)
<1>1. m \in Nat /\ m \in Int /\ t \in Seq(Byte) BY LenProperties DEF Text
<1>2. "cr" \in Byte /\ NL \in Byte /\ "$" \in Byte BY DEF Byte, Chars
<1>3. p \in Reading BY ReadingAtIs DEF Places
<1>4. DecodeByte(p, "$") = d BY LengthStarts
<1>5. Reads(d, Digits[m], e) BY <1>1, LengthRead
<1>6. DecodeByte(e, "cr") = f BY <1>1, LengthStops
<1>7. DecodeByte(f, NL) = b BY <1>1, BodyStarts
<1>8. Reads(b, t, g) BY BodyRead
<1>9. DecodeByte(g, "cr") = h BY <1>1, BodyStops
<1>10. DecodeByte(h, NL) = q BY <1>1, BodyStops
<1>11. Bulk(t) = (head \o t) \o (R \o E)
  <2>1. CRLF = R \o E BY DEF CRLF
  <2> QED BY <2>1 DEF Bulk
<1> HIDE DEF m, p, d, e, f, b, g, h, q
<1>12. Reads(p, head, b)
  <2>1. b = DecodeByte(DecodeByte(e, "cr"), NL) BY <1>6, <1>7
  <2>2. Reads(DecodeByte(p, "$"), Digits[m], e) BY <1>4, <1>5
  <2> QED BY <1>1, <1>2, <1>3, <2>1, <2>2, LineReads
<1>13. g \in Reading BY <1>8, ReadsEnds
<1>14. Reads(g, R, h) BY <1>2, <1>9, <1>13, ReadsByte
<1>15. h \in Reading BY <1>14, ReadsEnds
<1>16. Reads(h, E, q) BY <1>2, <1>10, <1>15, ReadsByte
<1> HIDE DEF R, E, head
<1>17. Reads(p, head \o t, g) BY <1>8, <1>12, ReadsConcat
<1>18. Reads(g, R \o E, q) BY <1>14, <1>16, ReadsConcat
<1>19. Reads(p, (head \o t) \o (R \o E), q) BY <1>17, <1>18, ReadsConcat
<1> QED BY <1>11, <1>19 DEF m, p, q

LEMMA CountReads ==
    ASSUME NEW n \in Nat
    PROVE  Reads(Start, Line("*", n), ReadingAt("length", n, 0, <<>>, <<>>))
<1> DEFINE z == 0
           t == <<>>
           a == <<>>
           p == ReadingAt("count", z, z, t, a)
           d == ReadingAt("countDigits", z, z, t, a)
           e == ReadingAt("countDigits", n, z, t, a)
           f == ReadingAt("countEnd", n, z, t, a)
           q == ReadingAt("length", n, z, t, a)
<1>1. z \in Int /\ t \in Text /\ a \in Seq(Text) /\ n \in Int BY DEF Text
<1>0. Reads(ReadingAt("countDigits", 0, z, t, a), Digits[n], e)
  <2> HIDE DEF z, t, a
  <2> QED BY <1>1, CountRead
<1>5. Reads(d, Digits[n], e) BY <1>0
<1>6. Start = p BY DEF Start
<1> HIDE DEF z, t, a
<1>2. "*" \in Byte BY DEF Byte
<1>3. p \in Reading BY <1>1, ReadingAtIs DEF Places
<1>4. DecodeByte(p, "*") = d BY <1>1, CountTurns
<1>7. DecodeByte(e, "cr") = f BY <1>1, CountTurns
<1>8. DecodeByte(f, NL) = q BY <1>1, CountTurns
<1> HIDE DEF p, d, e, f, q
<1>9. Reads(p, Line("*", n), q)
  <2>1. q = DecodeByte(DecodeByte(e, "cr"), NL) BY <1>7, <1>8
  <2>2. Reads(DecodeByte(p, "*"), Digits[n], e) BY <1>4, <1>5
  <2> QED BY <1>2, <1>3, <2>1, <2>2, LineReads
<1> QED BY <1>6, <1>9 DEF q, z, t, a

\* The bulks of texts lead from a reader that expects the first to one that
\* has them all.
AllRead(n, bulks, texts) ==
    \E l \in Int, t \in Text :
        Reads(ReadingAt("length", n, 0, <<>>, <<>>), bulks, ReadingAt("length", n, l, t, texts))

LEMMA OneMoreRead ==
    ASSUME NEW n \in Int, NEW x, NEW a \in Seq(Text), AllRead(n, x, a), NEW t \in Text
    PROVE  AllRead(n, x \o Bulk(t), Append(a, t))
<1> DEFINE p == ReadingAt("length", n, 0, <<>>, <<>>)
<1>1. PICK l \in Int, u \in Text : Reads(p, x, ReadingAt("length", n, l, u, a))
  BY DEF AllRead
<1> DEFINE q == ReadingAt("length", n, l, u, a)
           r == ReadingAt("length", n, Len(t), t, Append(a, t))
           b == Bulk(t)
<1>2. Reads(q, b, r) BY BulkReads
<1>3. Len(t) \in Int BY LenProperties DEF Text
<1> HIDE DEF p, q, r, b
<1>4. Reads(p, x \o b, r) BY <1>1, <1>2, ReadsConcat DEF q
<1> QED BY <1>3, <1>4, Zenon DEF AllRead, p, r, b

LEMMA BulksAppend ==
    ASSUME NEW x \in Seq(Text), NEW t \in Text
    PROVE  Bulks(Append(x, t)) = Append(Bulks(x), Bulk(t))
<1> DEFINE y == Append(x, t)
           u == Append(Bulks(x), Bulk(t))
           n == Len(x)
<1>1. /\ n \in Nat /\ y \in Seq(Text) /\ Len(y) = n + 1 /\ y[n + 1] = t
      /\ \A k \in 1 .. n : y[k] = x[k]
  BY AppendProperties, LenProperties
<1>2. Bulks(x) \in Seq(Seq(Byte)) /\ Len(Bulks(x)) = n
      /\ \A k \in 1 .. n : Bulks(x)[k] = Bulk(x[k])
  BY BulksAre
<1>3. Bulk(t) \in Seq(Byte) BY BulkIs DEF Text
<1> DEFINE v == Bulks(x)
           w == Bulk(t)
<1> HIDE DEF v, w
<1>4. u \in Seq(Seq(Byte)) /\ Len(u) = n + 1 /\ u[n + 1] = w /\ \A k \in 1 .. n : u[k] = v[k]
  BY <1>2, <1>3, AppendProperties, LenProperties DEF v, w
<1> HIDE DEF y, u, n
<1>5. Bulks(y) \in Seq(Seq(Byte)) /\ Len(Bulks(y)) = n + 1
      /\ \A k \in 1 .. n + 1 : Bulks(y)[k] = Bulk(y[k])
  BY <1>1, BulksAre
<1> DEFINE z == Bulks(y)
<1> HIDE DEF z
<1>6. \A k \in 1 .. n + 1 : z[k] = u[k]
  <2>1. \A k \in 1 .. n + 1 : k \in 1 .. n \/ k = n + 1 BY <1>1
  <2>2. \A k \in 1 .. n + 1 : z[k] = Bulk(y[k]) BY <1>5 DEF z
  <2>3. \A k \in 1 .. n : v[k] = Bulk(x[k]) BY <1>2 DEF v
  <2>4. \A k \in 1 .. n : k \in 1 .. n + 1 BY <1>1
  <2>5. ASSUME NEW k \in 1 .. n PROVE z[k] = u[k] BY <1>1, <1>4, <2>2, <2>3, <2>4
  <2>6. n + 1 \in 1 .. n + 1 BY <1>1
  <2>7. z[n + 1] = u[n + 1] BY <1>1, <1>4, <2>2, <2>6 DEF w
  <2> QED BY <2>1, <2>5, <2>7
<1>7. z = u
  <2>1. z \in Seq(Seq(Byte)) /\ Len(z) = n + 1 BY <1>5 DEF z
  <2> QED BY <1>4, <1>6, <2>1, SeqEqual
<1> QED BY <1>7 DEF z, y, u

LEMMA BulksRead ==
    ASSUME NEW n \in Int, NEW texts \in Seq(Text)
    PROVE  AllRead(n, FlattenSeq(Bulks(texts)), texts)
<1> DEFINE m == Len(texts)
           First(k) == SubSeq(texts, 1, k)
           b(k) == FlattenSeq(Bulks(First(k)))
           T == {k \in Nat : k <= m /\ ~AllRead(n, b(k), First(k))}
<1>1. m \in Nat /\ m = Len(texts) BY LenProperties
<1>2. \A k \in 0 .. m : First(k) \in Seq(Text) /\ Len(First(k)) = k
  BY <1>1, SubSeqProperties
<1>3. \A k \in 1 .. m : /\ k - 1 \in 0 .. m /\ texts[k] \in Text
                        /\ First(k) = Append(First(k - 1), texts[k])
  BY <1>1
<1>4. First(0) = <<>> /\ First(m) = texts BY <1>1
<1>5. b(0) = <<>>
  <2>1. Bulks(<<>>) = <<>> BY DEF Bulks
  <2> QED BY <1>4, <2>1, FlattenEmpty
<1>6. ASSUME NEW k \in 1 .. m PROVE b(k) = b(k - 1) \o Bulk(texts[k])
  <2> DEFINE x == First(k - 1)
             t == texts[k]
  <2>1. x \in Seq(Text) /\ t \in Text /\ First(k) = Append(x, t) BY <1>2, <1>3
  <2>2. Bulks(x) \in Seq(Seq(Byte)) /\ Bulk(t) \in Seq(Byte)
    BY <2>1, BulksAre, BulkIs DEF Text
  <2>3. Bulks(Append(x, t)) = Append(Bulks(x), Bulk(t)) BY <2>1, BulksAppend
  <2> HIDE DEF x, t
  <2>4. FlattenSeq(Append(Bulks(x), Bulk(t))) = FlattenSeq(Bulks(x)) \o Bulk(t)
    BY <2>2, FlattenAppend
  <2> QED BY <2>1, <2>3, <2>4 DEF x, t
<1> HIDE DEF m, First, b
<1>7. AllRead(n, b(0), First(0))
  <2> DEFINE z == 0
             e == <<>>
             p == ReadingAt("length", n, z, e, e)
  <2>1. z \in Int /\ e \in Text /\ e \in Seq(Text) BY DEF Text
  <2>2. p \in Reading
    <3> HIDE DEF z, e
    <3> QED BY <2>1, ReadingAtIs DEF Places
  <2>3. Reads(p, e, p)
    <3> HIDE DEF p
    <3> QED BY <2>2, ReadsNothing
  <2> QED BY <1>4, <1>5, <2>1, <2>3, Zenon DEF AllRead
<1>8. ASSUME T # {} PROVE FALSE
  <2>1. PICK k \in T : \A y \in T : k <= y BY <1>8, Least
  <2>2. k \in Nat /\ k <= m /\ ~AllRead(n, b(k), First(k)) BY <2>1
  <2>3. k # 0 BY <1>7, <2>2
  <2>4. k \in 1 .. m /\ k - 1 \in Nat /\ k - 1 \notin T /\ k - 1 \in 0 .. m /\ k - 1 <= m
    BY <1>1, <2>1, <2>3
  <2> DEFINE x == First(k - 1)
             c == b(k - 1)
             t == texts[k]
  <2>5. AllRead(n, c, x) BY <2>4
  <2>6. x \in Seq(Text) /\ t \in Text /\ First(k) = Append(x, t) BY <1>2, <1>3, <2>4
  <2>7. b(k) = c \o Bulk(t) BY <1>6, <2>4
  <2> HIDE DEF x, c, t
  <2>8. AllRead(n, c \o Bulk(t), Append(x, t)) BY <2>5, <2>6, OneMoreRead
  <2> QED BY <2>2, <2>6, <2>7, <2>8
<1>9. T = {} BY <1>8, Zenon
<1>10. AllRead(n, b(m), First(m))
  <2>1. m \in Nat /\ m <= m BY <1>1
  <2> QED BY <1>9, <2>1
<1> QED BY <1>4, <1>10 DEF b

\* What is encoded the server reads as it was.
LEMMA RequestReads ==
    ASSUME NEW texts \in Seq(Text) PROVE ReadAs(Request(texts), texts)
<1> DEFINE n == Len(texts)
           x == Line("*", n)
           y == FlattenSeq(Bulks(texts))
           p == ReadingAt("length", n, 0, <<>>, <<>>)
<1>1. n \in Nat /\ n \in Int BY LenProperties
<1>2. Reads(Start, x, p) BY <1>1, CountReads
<1>3. PICK l \in Int, t \in Text : Reads(p, y, ReadingAt("length", n, l, t, texts))
  BY <1>1, BulksRead DEF AllRead
<1> DEFINE r == ReadingAt("length", n, l, t, texts)
           e == x \o y
<1>4. Request(texts) = e BY RequestIs
<1>5. e \in Text BY <1>4, RequestLength
<1> HIDE DEF x, y, p, r
<1>6. Reads(Start, e, r) BY <1>2, <1>3, ReadsConcat DEF r
<1> HIDE DEF e
<1>7. Reads(Start, e, Decoded(e)) BY <1>5, DecodedReads
<1>8. Decoded(e) = r BY <1>6, <1>7, ReadsOneThing
<1>9. r.at = "length" /\ r.n = n /\ r.argv = texts BY DEF r, ReadingAt
<1> QED BY <1>4, <1>8, <1>9 DEF ReadAs

-----------------------------------------------------------------------------
(***************************************************************************)
(* What a format means, a token at a time.                                 *)
(***************************************************************************)
KeepStep(E) == [p \in Seq(E) \X E |-> Keep(p[1], p[2])]

LEMMA KeepStepIs ==
    ASSUME NEW E
    PROVE  /\ KeepStep(E) \in [Seq(E) \X E -> Seq(E)]
           /\ \A kept \in Seq(E), w \in E : KeepStep(E)[<<kept, w>>] = Keep(kept, w)
<1>1. \A kept \in Seq(E), w \in E : Keep(kept, w) \in Seq(E) BY AppendProperties DEF Keep
<1> QED BY <1>1 DEF KeepStep

LEMMA KeepTrace ==
    ASSUME NEW E, NEW t \in Seq(E)
    PROVE  HasTrace(Seq(E), <<>>, KeepStep(E), t, NotEmpty(t))
<1> DEFINE n == Len(t)
           S == Seq(E)
           none == <<>>
           step == KeepStep(E)
           it == CHOOSE f : f = [u \in SUBSET (1 .. n) |->
                    IF u = {} THEN <<>> ELSE Keep(f[u \ {Max(u)}], t[Max(u)])]
<1>1. n \in Nat /\ DOMAIN t = 1 .. n BY LenProperties
<1>2. NotEmpty(t) = it[1 .. n] BY <1>1 DEF NotEmpty, FoldLeft, MapThenFoldSet
<1>3. none \in S OBVIOUS
<1>0. step \in [S \X E -> S] /\ \A x \in S, w \in E : step[<<x, w>>] = Keep(x, w) BY KeepStepIs
<1> HIDE DEF S, step
<1>4. Foldable(S, E, none, step, t) BY <1>0, <1>3 DEF Foldable
<1>5. PICK g \in [SUBSET (1 .. n) -> S] :
        /\ IsStepwise(g, none, step, t)
        /\ \A u \in SUBSET (1 .. n) : u # {} => g[u \ {Max(u)}] \in S /\ t[Max(u)] \in E
  <2> HIDE DEF none
  <2>1. HasStepwise(S, E, none, step, t) BY <1>4, StepwiseExists
  <2> QED BY <2>1, Zenon DEF HasStepwise
<1>6. g = [u \in SUBSET (1 .. n) |->
              IF u = {} THEN none ELSE Keep(g[u \ {Max(u)}], t[Max(u)])]
  BY <1>0, <1>5 DEF IsStepwise
<1>7. it = [u \in SUBSET (1 .. n) |->
              IF u = {} THEN none ELSE Keep(it[u \ {Max(u)}], t[Max(u)])]
  BY <1>6, Zenon
<1> HIDE DEF it, none
<1>8. it[{}] = none BY <1>7
<1>9. \A u \in SUBSET (1 .. Len(t)) :
          u # {} /\ it[u \ {Max(u)}] \in S /\ t[Max(u)] \in E =>
              it[u] = step[<<it[u \ {Max(u)}], t[Max(u)]>>]
  BY <1>0, <1>7
<1>10. HasTrace(S, none, step, t, it[1 .. Len(t)]) BY <1>4, <1>8, <1>9, FoldTrace
<1> QED BY <1>2, <1>10 DEF S, none, step

LEMMA NotEmptyNothing == NotEmpty(<<>>) = <<>>
<1> DEFINE none == <<>>
           S == Seq({})
           step == KeepStep({})
           e == NotEmpty(none)
<1>1. none \in Seq({}) OBVIOUS
<1>2. HasTrace(Seq({}), <<>>, KeepStep({}), none, NotEmpty(none)) BY <1>1, KeepTrace
<1>3. HasTrace(S, none, step, <<>>, e) BY <1>2
<1> HIDE DEF none, S, step, e
<1>4. e = none BY <1>3, TraceStarts
<1> QED BY <1>4 DEF e, none

LEMMA NotEmptyAppend ==
    ASSUME NEW E, NEW t \in Seq(E), NEW w \in E
    PROVE  NotEmpty(t) \in Seq(E) /\ NotEmpty(Append(t, w)) = Keep(NotEmpty(t), w)
<1> DEFINE S == Seq(E)
           none == <<>>
           step == KeepStep(E)
           more == Append(t, w)
           e == NotEmpty(t)
           f == NotEmpty(more)
<1>1. more \in Seq(E) BY AppendProperties
<1>2. HasTrace(S, none, step, t, e) BY KeepTrace
<1>3. HasTrace(S, none, step, more, f)
  <2> HIDE DEF more
  <2> QED BY <1>1, KeepTrace
<1>4. \A x \in S : step[<<x, w>>] = Keep(x, w) BY KeepStepIs
<1> HIDE DEF S, none, step, e, f
<1>5. e \in S /\ f = step[<<e, w>>] BY <1>2, <1>3, TraceGrows
<1>6. f = Keep(e, w) BY <1>4, <1>5
<1> QED BY <1>5, <1>6 DEF S, e, f

\* The pieces of an argument, the arguments of a command as pieces.
Argument == Seq(Text)
Arguments      == Seq(Argument) \ {<<>>}
Gathered(toks) == FoldLeft(PutToken, <<<<>>>>, toks)
PutStep  == [p \in Arguments \X Token |-> PutToken(p[1], p[2])]

LEMMA ValueOfIs == ASSUME NEW tok \in Token PROVE ValueOf(tok) \in Text
  BY CStringIsText DEF ValueOf, Token

\* A token goes to the last of the arguments.
LEMMA PutTokenIs ==
    ASSUME NEW ws \in Seq(Argument), NEW w \in Argument, NEW tok \in Token
    PROVE  PutToken(Append(ws, w), tok) =
              IF tok.k = "space" THEN Append(Append(ws, w), <<>>)
              ELSE IF tok.k = "other" THEN Append(ws, w)
              ELSE Append(ws, Append(w, ValueOf(tok)))
<1> DEFINE all == Append(ws, w)
           n == Len(ws)
           v == Append(w, ValueOf(tok))
           put == [all EXCEPT ![Len(all)] = v]
           x == Append(ws, v)
<1>1. n \in Nat /\ all \in Seq(Argument) /\ Len(all) = n + 1 /\ all[n + 1] = w
      /\ \A k \in 1 .. n : all[k] = ws[k]
  BY AppendProperties, LenProperties
<1>2. v \in Argument BY ValueOfIs, AppendProperties DEF Argument
<1> HIDE DEF v
<1>3. x \in Seq(Argument) /\ Len(x) = n + 1 /\ x[n + 1] = v /\ \A k \in 1 .. n : x[k] = ws[k]
  BY <1>2, AppendProperties, LenProperties
<1> HIDE DEF all, x, n
<1>4. put \in Seq(Argument) /\ Len(put) = n + 1 /\ put[n + 1] = v
      /\ \A k \in 1 .. n : put[k] = all[k]
  <2>1. n + 1 \in 1 .. Len(all) BY <1>1
  <2>2. put \in Seq(Argument) /\ Len(put) = Len(all) BY <1>1, <1>2, <2>1, ExceptSeq
  <2>3. \A k \in 1 .. n : k \in 1 .. Len(all) /\ k # n + 1 BY <1>1
  <2>4. DOMAIN all = 1 .. Len(all) BY <1>1, LenProperties
  <2> QED BY <1>1, <2>1, <2>2, <2>3, <2>4
<1> HIDE DEF put
<1>5. \A k \in 1 .. n + 1 : k \in 1 .. n \/ k = n + 1 BY <1>1
<1>6. \A k \in 1 .. n + 1 : put[k] = x[k] BY <1>1, <1>3, <1>4, <1>5
<1>7. put = x BY <1>3, <1>4, <1>6, SeqEqual
<1>8. PutToken(all, tok) = IF tok.k = "space" THEN Append(all, <<>>)
                           ELSE IF tok.k = "other" THEN all ELSE put
  <2>1. all[Len(all)] = w BY <1>1
  <2> QED BY <2>1 DEF PutToken, put, v
<1> QED BY <1>7, <1>8 DEF all, x, v

LEMMA ArgumentsAre ==
    ASSUME NEW c \in Arguments
    PROVE  \E ws \in Seq(Argument), w \in Argument : c = Append(ws, w)
<1>1. c \in Seq(Argument) /\ c # <<>> BY DEF Arguments
<1>2. Len(c) \in Nat /\ Len(c) > 0 /\ \A k \in 1 .. Len(c) : c[k] \in Argument
  BY <1>1, LenProperties, ElementOfSeq, EmptySeq
<1> DEFINE n == Len(c) - 1
           ws == SubSeq(c, 1, n)
           w == c[Len(c)]
<1>3. n \in Nat /\ n <= Len(c) /\ Len(c) \in 1 .. Len(c) BY <1>2
<1>4. w \in Argument BY <1>2, <1>3
<1>5. ws \in Seq(Argument) /\ Len(ws) = n
  <2> HIDE DEF n
  <2>1. /\ SubSeq(c, 1, n) \in Seq(Argument)
        /\ Len(SubSeq(c, 1, n)) = IF 1 <= n THEN n - 1 + 1 ELSE 0
    BY <1>1, <1>2, <1>3, SubSeqProperties
  <2> QED BY <1>3, <2>1
<1>6. \A k \in 1 .. n : ws[k] = c[k] BY <1>1, <1>2, <1>3
<1> DEFINE x == Append(ws, w)
<1>7. x \in Seq(Argument) /\ Len(x) = n + 1 /\ x[n + 1] = w /\ \A k \in 1 .. n : x[k] = ws[k]
  <2> HIDE DEF ws, w, n
  <2> QED BY <1>4, <1>5, AppendProperties
<1> HIDE DEF x, ws
<1>8. \A k \in 1 .. Len(c) : c[k] = x[k]
  <2>1. \A k \in 1 .. Len(c) : k \in 1 .. n \/ (k = n + 1 /\ k = Len(c)) BY <1>2
  <2> QED BY <1>6, <1>7, <2>1
<1>9. c = x
  <2>1. Len(c) = Len(x) BY <1>2, <1>7
  <2> QED BY <1>1, <1>7, <1>8, <2>1, SeqEqual
<1> QED BY <1>4, <1>5, <1>9 DEF x

LEMMA AppendIsArguments ==
    ASSUME NEW ws \in Seq(Argument), NEW w \in Argument
    PROVE  Append(ws, w) \in Arguments
<1>1. Append(ws, w) \in Seq(Argument) /\ Len(Append(ws, w)) = Len(ws) + 1 /\ Len(ws) \in Nat
  BY AppendProperties, LenProperties
<1> DEFINE x == Append(ws, w)
<1> HIDE DEF x
<1>2. x \in Seq(Argument) /\ Len(x) # 0 BY <1>1 DEF x
<1> QED BY <1>2 DEF Arguments, x

LEMMA PutStepIs ==
    /\ PutStep \in [Arguments \X Token -> Arguments]
    /\ \A c \in Arguments, tok \in Token : PutStep[<<c, tok>>] = PutToken(c, tok)
<1>1. ASSUME NEW c \in Arguments, NEW tok \in Token PROVE PutToken(c, tok) \in Arguments
  <2>1. PICK ws \in Seq(Argument), w \in Argument : c = Append(ws, w) BY ArgumentsAre
  <2> DEFINE a == Append(c, <<>>)
             v == Append(w, ValueOf(tok))
             b == Append(ws, v)
  <2>2. c \in Seq(Argument) /\ <<>> \in Argument BY DEF Arguments, Argument
  <2>3. a \in Arguments BY <2>2, AppendIsArguments
  <2>4. v \in Argument BY ValueOfIs, AppendProperties DEF Argument
  <2>5. b \in Arguments BY <2>4, AppendIsArguments
  <2>6. PutToken(c, tok) \in {a, c, b} BY <2>1, PutTokenIs
  <2> QED BY <2>3, <2>5, <2>6
<1> QED BY <1>1 DEF PutStep

LEMMA PutTrace ==
    ASSUME NEW t \in Seq(Token)
    PROVE  HasTrace(Arguments, <<<<>>>>, PutStep, t, Gathered(t))
<1> DEFINE n == Len(t)
           S == Arguments
           first == <<<<>>>>
           it == CHOOSE f : f = [u \in SUBSET (1 .. n) |->
                    IF u = {} THEN <<<<>>>> ELSE PutToken(f[u \ {Max(u)}], t[Max(u)])]
<1>1. n \in Nat /\ DOMAIN t = 1 .. n BY LenProperties
<1>2. Gathered(t) = it[1 .. n] BY <1>1 DEF Gathered, FoldLeft, MapThenFoldSet
<1>3. first \in S
  <2>1. <<>> \in Argument /\ <<>> \in Seq(Argument) /\ first = Append(<<>>, <<>>) BY DEF Argument
  <2> QED BY <2>1, AppendIsArguments
<1>0. /\ PutStep \in [S \X Token -> S]
      /\ \A x \in S, w \in Token : PutStep[<<x, w>>] = PutToken(x, w)
  BY PutStepIs
<1> HIDE DEF S
<1>4. Foldable(S, Token, first, PutStep, t) BY <1>0, <1>3 DEF Foldable
<1>5. PICK g \in [SUBSET (1 .. n) -> S] :
        /\ IsStepwise(g, first, PutStep, t)
        /\ \A u \in SUBSET (1 .. n) : u # {} => g[u \ {Max(u)}] \in S /\ t[Max(u)] \in Token
  <2> HIDE DEF first
  <2>1. HasStepwise(S, Token, first, PutStep, t) BY <1>4, StepwiseExists
  <2> QED BY <2>1, Zenon DEF HasStepwise
<1>6. g = [u \in SUBSET (1 .. n) |->
              IF u = {} THEN first ELSE PutToken(g[u \ {Max(u)}], t[Max(u)])]
  <2> HIDE DEF first
  <2> QED BY <1>0, <1>5 DEF IsStepwise
<1>7. it = [u \in SUBSET (1 .. n) |->
              IF u = {} THEN first ELSE PutToken(it[u \ {Max(u)}], t[Max(u)])]
  BY <1>6, Zenon
<1> HIDE DEF it, first
<1>8. it[{}] = first BY <1>7
<1>9. \A u \in SUBSET (1 .. Len(t)) :
          u # {} /\ it[u \ {Max(u)}] \in S /\ t[Max(u)] \in Token =>
              it[u] = PutStep[<<it[u \ {Max(u)}], t[Max(u)]>>]
  BY <1>0, <1>7
<1>10. HasTrace(S, first, PutStep, t, it[1 .. Len(t)]) BY <1>4, <1>8, <1>9, FoldTrace
<1> QED BY <1>2, <1>10 DEF S, first

\* What the tokens so far amount to is ws, and w is the argument they are in.
IsGathered(toks, ws, w) ==
    /\ ws \in Seq(Argument) /\ w \in Argument /\ toks \in Seq(Token)
    /\ Gathered(toks) = Append(ws, w)

LEMMA GatheredNothing == IsGathered(<<>>, <<>>, <<>>)
<1> DEFINE first == <<<<>>>>
           none == <<>>
           e == Gathered(none)
<1>1. none \in Seq(Argument) /\ none \in Argument /\ none \in Seq(Token)
  BY DEF Argument
<1>2. first = Append(none, none) OBVIOUS
<1>3. HasTrace(Arguments, first, PutStep, <<>>, e) BY <1>1, PutTrace
<1> HIDE DEF first, none, e
<1>4. e = first BY <1>3, TraceStarts
<1>5. IsGathered(none, none, none) BY <1>1, <1>2, <1>4 DEF IsGathered, e
<1> QED BY <1>5 DEF none

\* One more token.
LEMMA GatheredMore ==
    ASSUME NEW toks, NEW ws, NEW w, IsGathered(toks, ws, w), NEW tok \in Token
    PROVE  /\ tok.k = "space" => IsGathered(Append(toks, tok), Append(ws, w), <<>>)
           /\ tok.k = "other" => IsGathered(Append(toks, tok), ws, w)
           /\ tok.k \notin {"space", "other"} =>
                IsGathered(Append(toks, tok), ws, Append(w, ValueOf(tok)))
<1>1. ws \in Seq(Argument) /\ w \in Argument /\ toks \in Seq(Token)
      /\ Gathered(toks) = Append(ws, w)
  BY DEF IsGathered
<1> DEFINE more == Append(toks, tok)
           first == <<<<>>>>
           e == Gathered(toks)
           f == Gathered(more)
           v == Append(w, ValueOf(tok))
           all == Append(ws, w)
           none == <<>>
<1>2. more \in Seq(Token) BY <1>1, AppendProperties
<1>3. HasTrace(Arguments, first, PutStep, toks, e) BY <1>1, PutTrace
<1>4. HasTrace(Arguments, first, PutStep, more, f)
  <2> HIDE DEF more
  <2> QED BY <1>2, PutTrace
<1>5. e \in Arguments /\ f = PutStep[<<e, tok>>]
  <2> HIDE DEF first, e, f
  <2> QED BY <1>1, <1>3, <1>4, TraceGrows
<1>6. f = PutToken(e, tok) BY <1>5, PutStepIs
<1>7. f = IF tok.k = "space" THEN Append(all, none)
          ELSE IF tok.k = "other" THEN all ELSE Append(ws, v)
  BY <1>1, <1>6, PutTokenIs
<1>8. v \in Argument BY <1>1, ValueOfIs, AppendProperties DEF Argument
<1>9. all \in Seq(Argument) BY <1>1, AppendProperties
<1>10. none \in Argument BY DEF Argument
<1> HIDE DEF v, none, f, more
<1>11. CASE tok.k = "space"
  <2>1. f = Append(all, none) BY <1>7, <1>11
  <2> HIDE DEF all
  <2>2. IsGathered(more, all, none) BY <1>2, <1>9, <1>10, <2>1 DEF IsGathered, f
  <2> QED BY <1>11, <2>2 DEF more, all, none
<1>12. CASE tok.k = "other"
  <2>1. f = Append(ws, w) BY <1>7, <1>12
  <2>2. IsGathered(more, ws, w) BY <1>1, <1>2, <2>1 DEF IsGathered, f
  <2> QED BY <1>12, <2>2 DEF more
<1>13. CASE tok.k \notin {"space", "other"}
  <2>1. f = Append(ws, v) BY <1>7, <1>13
  <2>2. IsGathered(more, ws, v) BY <1>1, <1>2, <1>8, <2>1 DEF IsGathered, f
  <2> QED BY <1>13, <2>2 DEF more, v
<1> QED BY <1>11, <1>12, <1>13

\* The texts of the arguments that have any piece, and those that are not empty.
TextsIn(ws) == [k \in DOMAIN NotEmpty(ws) |-> FlattenSeq(NotEmpty(ws)[k])]
Full(ws)  == NotEmpty(TextsIn(ws))

LEMMA ArgumentIsText == ASSUME NEW w \in Argument PROVE FlattenSeq(w) \in Text
<1>1. w \in Seq(Seq(Byte)) BY DEF Argument, Text
<1> QED BY <1>1, FlattenIsJoinTo DEF Text

LEMMA TextsInAre ==
    ASSUME NEW ws \in Seq(Argument)
    PROVE  /\ TextsIn(ws) \in Seq(Text) /\ Len(TextsIn(ws)) = Len(NotEmpty(ws))
           /\ NotEmpty(ws) \in Seq(Argument)
           /\ \A k \in 1 .. Len(NotEmpty(ws)) : TextsIn(ws)[k] = FlattenSeq(NotEmpty(ws)[k])
<1> DEFINE p == NotEmpty(ws)
           n == Len(p)
           m == [k \in 1 .. n |-> FlattenSeq(p[k])]
<1>1. p \in Seq(Argument)
  <2>1. <<>> \in Argument BY DEF Argument
  <2> QED BY <2>1, NotEmptyAppend
<1> HIDE DEF p
<1>2. n \in Nat /\ DOMAIN p = 1 .. n /\ \A k \in 1 .. n : p[k] \in Argument
  BY <1>1, ElementOfSeq, LenProperties
<1>3. TextsIn(ws) = m BY <1>2 DEF TextsIn, p
<1>4. m = [k \in 1 .. n |-> m[k]] /\ (\A k \in 1 .. n : m[k] = FlattenSeq(p[k]))
      /\ \A k \in 1 .. n : m[k] \in Text
  BY <1>2, ArgumentIsText
<1> HIDE DEF m, n
<1>5. m \in Seq(Text) /\ Len(m) = n BY <1>2, <1>4, MapIsTexts
<1> QED BY <1>1, <1>3, <1>4, <1>5 DEF p, n

LEMMA TextsInAppend ==
    ASSUME NEW ws \in Seq(Argument), NEW w \in Argument
    PROVE  TextsIn(Append(ws, w)) = IF w = <<>> THEN TextsIn(ws) ELSE Append(TextsIn(ws), FlattenSeq(w))
<1> DEFINE all == Append(ws, w)
           p == NotEmpty(ws)
           q == NotEmpty(all)
           u == FlattenSeq(w)
           x == TextsIn(ws)
           y == TextsIn(all)
           z == Append(x, u)
<1>1. all \in Seq(Argument) BY AppendProperties
<1>2. q = IF w = <<>> THEN p ELSE Append(p, w) BY NotEmptyAppend DEF Keep
<1>3. CASE w = <<>>
  <2>1. q = p BY <1>2, <1>3
  <2>2. y = x BY <2>1 DEF TextsIn
  <2> QED BY <1>3, <2>2
<1>4. CASE w # <<>>
  <2>1. q = Append(p, w) BY <1>2, <1>4
  <2>2. /\ x \in Seq(Text) /\ Len(x) = Len(p) /\ p \in Seq(Argument)
        /\ \A k \in 1 .. Len(p) : x[k] = FlattenSeq(p[k])
    BY TextsInAre
  <2>3. /\ y \in Seq(Text) /\ Len(y) = Len(q) /\ \A k \in 1 .. Len(q) : y[k] = FlattenSeq(q[k])
    <3> HIDE DEF all
    <3> QED BY <1>1, TextsInAre
  <2>4. u \in Text BY ArgumentIsText
  <2> DEFINE n == Len(p)
  <2> HIDE DEF all, p, q, x, y, u
  <2>5. n \in Nat /\ Len(q) = n + 1 /\ q[n + 1] = w /\ \A k \in 1 .. n : q[k] = p[k]
    BY <2>1, <2>2, AppendProperties, LenProperties
  <2>6. z \in Seq(Text) /\ Len(z) = n + 1 /\ z[n + 1] = u /\ \A k \in 1 .. n : z[k] = x[k]
    BY <2>2, <2>4, AppendProperties
  <2> HIDE DEF z, n
  <2>7. \A k \in 1 .. n + 1 : k \in 1 .. n \/ k = n + 1 BY <2>5
  <2>8. n + 1 \in 1 .. n + 1 /\ \A k \in 1 .. n : k \in 1 .. n + 1 BY <2>5
  <2>9. y[n + 1] = u BY <2>3, <2>5, <2>8 DEF u
  <2>10. ASSUME NEW k \in 1 .. n PROVE y[k] = z[k] BY <2>2, <2>3, <2>5, <2>6, <2>8 DEF n
  <2>11. \A k \in 1 .. n + 1 : y[k] = z[k] BY <2>6, <2>7, <2>9, <2>10
  <2>12. y = z BY <2>3, <2>5, <2>6, <2>11, SeqEqual
  <2> QED BY <1>4, <2>12 DEF y, z, all, x, u
<1> QED BY <1>3, <1>4

LEMMA FullAppend ==
    ASSUME NEW ws \in Seq(Argument), NEW w \in Argument
    PROVE  /\ Full(ws) \in Seq(Text)
           /\ Full(Append(ws, w)) = Keep(Full(ws), FlattenSeq(w))
<1> DEFINE u == FlattenSeq(w)
           x == TextsIn(ws)
<1>1. x \in Seq(Text) /\ u \in Text BY TextsInAre, ArgumentIsText
<1>2. NotEmpty(x) \in Seq(Text) /\ NotEmpty(Append(x, u)) = Keep(NotEmpty(x), u)
  <2> HIDE DEF x, u
  <2> QED BY <1>1, NotEmptyAppend
<1>3. CASE w = <<>>
  <2>1. TextsIn(Append(ws, w)) = x BY <1>3, TextsInAppend
  <2>2. u = <<>> BY <1>3, FlattenEmpty
  <2> QED BY <1>2, <2>1, <2>2 DEF Full, Keep
<1>4. CASE w # <<>>
  <2>1. TextsIn(Append(ws, w)) = Append(x, u) BY <1>4, TextsInAppend
  <2> QED BY <1>2, <2>1 DEF Full
<1> QED BY <1>3, <1>4, <1>2 DEF Full

\* The last argument that has any piece comes out empty.
EndsEmpty(ws) == TextsIn(ws) # <<>> /\ Last(TextsIn(ws)) = <<>>
Sent(ws) == IF EndsEmpty(ws) THEN Append(Full(ws), <<>>) ELSE Full(ws)

LEMMA SentIs == \A toks : ArgumentsOf(toks) = Sent(Gathered(toks))
  BY DEF ArgumentsOf, WordsOf, Sent, EndsEmpty, Full, TextsIn, Gathered

LEMMA NothingSent == TextsIn(<<>>) = <<>> /\ Full(<<>>) = <<>> /\ ~EndsEmpty(<<>>)
<1> DEFINE none == <<>>
           p == NotEmpty(none)
           t == TextsIn(none)
<1>1. p = none BY NotEmptyNothing
<1>2. none \in Seq(Argument) /\ none \in Seq(Text) OBVIOUS
<1>3. t \in Seq(Text) /\ Len(t) = Len(p)
  <2> HIDE DEF none
  <2> QED BY <1>2, TextsInAre
<1>4. Len(none) = 0 OBVIOUS
<1>5. t = none
  <2> HIDE DEF t, p
  <2>1. Len(t) = 0 BY <1>1, <1>3, <1>4
  <2> QED BY <1>3, <2>1, EmptySeq
<1>6. Full(none) = none
  <2> HIDE DEF none
  <2> QED BY <1>1, <1>5 DEF Full
<1> QED BY <1>5, <1>6 DEF EndsEmpty

LEMMA LastOfAppend ==
    ASSUME NEW S, NEW x \in Seq(S), NEW e \in S
    PROVE  Append(x, e) # <<>> /\ Last(Append(x, e)) = e
<1> DEFINE y == Append(x, e)
<1>1. y \in Seq(S) /\ Len(y) = Len(x) + 1 /\ y[Len(x) + 1] = e /\ Len(x) \in Nat
  BY AppendProperties, LenProperties
<1> HIDE DEF y
<1>2. y # <<>> BY <1>1
<1>3. Last(y) = e BY <1>1 DEF Last
<1> QED BY <1>2, <1>3 DEF y

LEMMA EndsEmptyAppend ==
    ASSUME NEW ws \in Seq(Argument), NEW w \in Argument
    PROVE  EndsEmpty(Append(ws, w)) <=> IF w = <<>> THEN EndsEmpty(ws) ELSE FlattenSeq(w) = <<>>
<1> DEFINE t == TextsIn(ws)
           u == FlattenSeq(w)
           y == TextsIn(Append(ws, w))
<1>1. t \in Seq(Text) /\ u \in Text BY TextsInAre, ArgumentIsText
<1>2. y = IF w = <<>> THEN t ELSE Append(t, u) BY TextsInAppend
<1>3. EndsEmpty(Append(ws, w)) <=> y # <<>> /\ Last(y) = <<>> BY DEF EndsEmpty
<1>4. EndsEmpty(ws) <=> t # <<>> /\ Last(t) = <<>> BY DEF EndsEmpty
<1> HIDE DEF t, u, y
<1>5. Append(t, u) # <<>> /\ Last(Append(t, u)) = u BY <1>1, LastOfAppend
<1>6. CASE w = <<>>
  <2>1. y = t BY <1>2, <1>6
  <2> QED BY <1>3, <1>4, <1>6, <2>1
<1>7. CASE w # <<>>
  <2>1. y = Append(t, u) BY <1>2, <1>7
  <2>2. (y # <<>> /\ Last(y) = <<>>) <=> u = <<>> BY <1>5, <2>1
  <2> QED BY <1>3, <1>7, <2>2 DEF u
<1> QED BY <1>6, <1>7

\* What the scan of these tokens leaves: str is under construction, args are
\* done.  An argument that came out empty is remembered by interp.
Scanned(toks, str, interp, args) ==
    \E ws, w : /\ IsGathered(toks, ws, w)
               /\ args = Full(ws) /\ str = FlattenSeq(w) /\ interp \in {0, 1}
               /\ str = <<>> => (interp = 1 <=> EndsEmpty(Append(ws, w)))

LEMMA ScanStarts == Scanned(<<>>, <<>>, 0, <<>>)
<1> DEFINE none == <<>>
           zero == 0
           all == Append(none, none)
<1>1. none \in Seq(Argument) /\ none \in Argument BY DEF Argument
<1>2. IsGathered(none, none, none) BY GatheredNothing
<1>3. Full(none) = none /\ FlattenSeq(none) = none BY NothingSent, FlattenEmpty
<1>4. ~EndsEmpty(all)
  <2>1. ~EndsEmpty(none) BY NothingSent
  <2> HIDE DEF none
  <2>2. EndsEmpty(all) <=> IF none = <<>> THEN EndsEmpty(none) ELSE FlattenSeq(none) = <<>>
    BY <1>1, EndsEmptyAppend
  <2> QED BY <2>1, <2>2 DEF none
<1>5. zero \in {0, 1} /\ ~(zero = 1) OBVIOUS
<1> HIDE DEF none, zero
<1> QED BY <1>2, <1>3, <1>4, <1>5 DEF Scanned, none, zero

LEMMA IsGatheredTyped ==
    ASSUME NEW toks, NEW ws, NEW w, IsGathered(toks, ws, w)
    PROVE  /\ ws \in Seq(Argument) /\ w \in Argument /\ toks \in Seq(Token)
           /\ FlattenSeq(w) \in Text /\ Full(ws) \in Seq(Text)
  BY ArgumentIsText, FullAppend DEF IsGathered

\* A text that is added to the argument under construction.
LEMMA ScanAdds ==
    ASSUME NEW toks, NEW str, NEW interp, NEW args, Scanned(toks, str, interp, args),
           NEW tok \in Token, tok.k \notin {"space", "other"},
           NEW after, after = 1 \/ (after = interp /\ ValueOf(tok) # <<>>)
    PROVE  Scanned(Append(toks, tok), str \o ValueOf(tok), after, args)
<1>1. PICK ws, w : /\ IsGathered(toks, ws, w)
                   /\ args = Full(ws) /\ str = FlattenSeq(w) /\ interp \in {0, 1}
  BY Zenon DEF Scanned
<1> DEFINE v == ValueOf(tok)
           u == Append(w, v)
           t == Append(toks, tok)
           r == str \o v
<1>2. ws \in Seq(Argument) /\ w \in Argument /\ str \in Text BY <1>1, IsGatheredTyped
<1>3. v \in Text BY ValueOfIs
<1>4. IsGathered(t, ws, u)
  <2>1. tok.k \notin {"space", "other"} => IsGathered(t, ws, u) BY <1>1, GatheredMore
  <2> QED BY <2>1
<1>5. FlattenSeq(u) = r
  <2>1. w \in Seq(Seq(Byte)) /\ v \in Seq(Byte) BY <1>2, <1>3 DEF Argument, Text
  <2> HIDE DEF v
  <2> QED BY <1>1, <2>1, FlattenAppend
<1>6. u \in Argument /\ u # <<>>
  <2>1. w \in Seq(Text) /\ v \in Text BY <1>2, <1>3 DEF Argument
  <2> HIDE DEF v
  <2> QED BY <2>1, LastOfAppend, AppendProperties DEF Argument
<1>7. EndsEmpty(Append(ws, u)) <=> r = <<>>
  <2> HIDE DEF u, r
  <2>1. EndsEmpty(Append(ws, u)) <=> IF u = <<>> THEN EndsEmpty(ws) ELSE FlattenSeq(u) = <<>>
    BY <1>2, <1>6, EndsEmptyAppend
  <2> QED BY <1>5, <1>6, <2>1
<1>8. v # <<>> => r # <<>>
  <2> HIDE DEF v
  <2>1. r \in Seq(Byte) /\ IsConcat(r, str, v) BY <1>2, <1>3, ConcatIs DEF Text
  <2> HIDE DEF r
  <2>2. Len(r) = Len(str) + Len(v) BY <2>1 DEF IsConcat
  <2>3. Len(str) \in Nat /\ Len(v) \in Nat BY <1>2, <1>3, LenProperties DEF Text
  <2>4. v # <<>> => Len(v) # 0 BY <1>3, EmptySeq DEF Text
  <2>5. r = <<>> => Len(r) = 0 OBVIOUS
  <2> QED BY <2>2, <2>3, <2>4, <2>5
<1>9. after \in {0, 1} /\ (r = <<>> => (after = 1 <=> EndsEmpty(Append(ws, u))))
  <2> HIDE DEF u, r, v
  <2>1. after = 1 \/ v # <<>> BY DEF v
  <2> QED BY <1>1, <1>7, <1>8, <2>1
<1>10. FlattenSeq(u) = r /\ args = Full(ws) /\ IsGathered(t, ws, u) BY <1>1, <1>4, <1>5
<1> HIDE DEF u, r, t, v
<1>11. Scanned(t, r, after, args) BY <1>9, <1>10, Zenon DEF Scanned
<1> QED BY <1>11 DEF t, r, v

\* A conversion that is not known adds nothing.
LEMMA ScanIgnores ==
    ASSUME NEW toks, NEW str, NEW interp, NEW args, Scanned(toks, str, interp, args),
           NEW tok \in Token, tok.k = "other"
    PROVE  Scanned(Append(toks, tok), str, interp, args)
<1>1. PICK ws, w : /\ IsGathered(toks, ws, w)
                   /\ args = Full(ws) /\ str = FlattenSeq(w) /\ interp \in {0, 1}
                   /\ str = <<>> => (interp = 1 <=> EndsEmpty(Append(ws, w)))
  BY Zenon DEF Scanned
<1> DEFINE t == Append(toks, tok)
<1>2. IsGathered(t, ws, w)
  <2>1. tok.k = "other" => IsGathered(t, ws, w) BY <1>1, GatheredMore
  <2> QED BY <2>1
<1> HIDE DEF t
<1>3. Scanned(t, str, interp, args) BY <1>1, <1>2, Zenon DEF Scanned
<1> QED BY <1>3 DEF t

\* A space ends an argument that is not empty.
LEMMA ScanEnds ==
    ASSUME NEW toks, NEW str, NEW interp, NEW args, Scanned(toks, str, interp, args),
           NEW tok \in Token, tok.k = "space"
    PROVE  /\ str # <<>> => Scanned(Append(toks, tok), <<>>, 0, Append(args, str))
           /\ str = <<>> => Scanned(Append(toks, tok), <<>>, interp, args)
<1>1. PICK ws, w : /\ IsGathered(toks, ws, w)
                   /\ args = Full(ws) /\ str = FlattenSeq(w) /\ interp \in {0, 1}
                   /\ str = <<>> => (interp = 1 <=> EndsEmpty(Append(ws, w)))
  BY Zenon DEF Scanned
<1> DEFINE none == <<>>
           t == Append(toks, tok)
           all == Append(ws, w)
           more == Append(all, none)
           after == IF str = none THEN interp ELSE 0
<1>2. ws \in Seq(Argument) /\ w \in Argument BY <1>1, IsGatheredTyped
<1>3. all \in Seq(Argument) /\ none \in Argument BY <1>2, AppendProperties DEF Argument
<1>4. IsGathered(t, all, none)
  <2>1. tok.k = "space" => IsGathered(t, all, none) BY <1>1, GatheredMore
  <2> QED BY <2>1
<1>5. FlattenSeq(none) = none BY FlattenEmpty
<1>6. EndsEmpty(more) <=> EndsEmpty(all)
  <2>1. none = <<>> OBVIOUS
  <2> HIDE DEF all, none
  <2>2. EndsEmpty(more) <=> IF none = <<>> THEN EndsEmpty(all) ELSE FlattenSeq(none) = <<>>
    BY <1>3, EndsEmptyAppend
  <2> QED BY <2>1, <2>2
<1>7. EndsEmpty(all) => str = none
  <2>1. EndsEmpty(all) <=> IF w = <<>> THEN EndsEmpty(ws) ELSE FlattenSeq(w) = <<>>
    BY <1>2, EndsEmptyAppend
  <2>2. w = <<>> => FlattenSeq(w) = <<>> BY FlattenEmpty
  <2> HIDE DEF all
  <2> QED BY <1>1, <2>1, <2>2
<1>8. Full(all) = Keep(args, str) BY <1>1, <1>2, FullAppend
<1>9. after \in {0, 1} /\ (after = 1 <=> EndsEmpty(more))
  <2> HIDE DEF all, more
  <2>1. CASE str = none
    <3>1. after = interp BY <2>1
    <3>2. interp = 1 <=> EndsEmpty(all) BY <1>1, <2>1 DEF all
    <3> HIDE DEF after
    <3> QED BY <1>1, <1>6, <3>1, <3>2
  <2>2. CASE str # none
    <3>1. ~EndsEmpty(more) /\ after = 0 BY <1>6, <1>7, <2>2
    <3> QED BY <3>1
  <2> QED BY <2>1, <2>2
<1>10. Scanned(t, none, after, Keep(args, str))
  <2> HIDE DEF t, none, after, all, more
  <2>1. EndsEmpty(Append(all, none)) <=> EndsEmpty(more) BY DEF more
  <2> QED BY <1>4, <1>5, <1>8, <1>9, <2>1, Zenon DEF Scanned
<1>11. Keep(args, str) = IF str = <<>> THEN args ELSE Append(args, str) BY DEF Keep
<1> HIDE DEF t
<1>12. ASSUME str # <<>> PROVE Scanned(t, <<>>, 0, Append(args, str))
  <2>1. after = 0 /\ Keep(args, str) = Append(args, str) BY <1>11, <1>12
  <2> HIDE DEF after
  <2> QED BY <1>10, <2>1
<1>13. ASSUME str = <<>> PROVE Scanned(t, <<>>, interp, args)
  <2>1. after = interp /\ Keep(args, str) = args BY <1>11, <1>13
  <2> HIDE DEF after
  <2> QED BY <1>10, <2>1
<1> QED BY <1>12, <1>13 DEF t

\* The end of the format ends an argument that has a conversion, or is not empty.
LEMMA ScanDone ==
    ASSUME NEW toks, NEW str, NEW interp, NEW args, Scanned(toks, str, interp, args)
    PROVE  ArgumentsOf(toks) = IF interp = 1 \/ str # <<>> THEN Append(args, str) ELSE args
<1>1. PICK ws, w : /\ IsGathered(toks, ws, w)
                   /\ args = Full(ws) /\ str = FlattenSeq(w) /\ interp \in {0, 1}
                   /\ str = <<>> => (interp = 1 <=> EndsEmpty(Append(ws, w)))
  BY Zenon DEF Scanned
<1> DEFINE all == Append(ws, w)
           none == <<>>
<1>2. ws \in Seq(Argument) /\ w \in Argument /\ Gathered(toks) = all
  BY <1>1, IsGatheredTyped DEF IsGathered
<1>3. ArgumentsOf(toks) = Sent(all)
  <2> HIDE DEF all
  <2> QED BY <1>2, SentIs
<1>4. Full(all) = Keep(args, str) BY <1>1, <1>2, FullAppend
<1>5. EndsEmpty(all) => str = none
  <2>1. EndsEmpty(all) <=> IF w = <<>> THEN EndsEmpty(ws) ELSE FlattenSeq(w) = <<>>
    BY <1>2, EndsEmptyAppend
  <2>2. w = <<>> => FlattenSeq(w) = <<>> BY FlattenEmpty
  <2> HIDE DEF all
  <2> QED BY <1>1, <2>1, <2>2
<1>6. Sent(all) = IF EndsEmpty(all) THEN Append(Full(all), none) ELSE Full(all) BY DEF Sent
<1>7. Keep(args, str) = IF str = none THEN args ELSE Append(args, str) BY DEF Keep
<1>8. str = none => (interp = 1 <=> EndsEmpty(all)) BY <1>1
<1> HIDE DEF all
<1>9. CASE str # none
  <2>1. Sent(all) = Append(args, str) BY <1>4, <1>5, <1>6, <1>7, <1>9
  <2> QED BY <1>3, <1>9, <2>1
<1>10. CASE str = none /\ interp = 1
  <2>1. EndsEmpty(all) /\ Full(all) = args BY <1>4, <1>7, <1>8, <1>10
  <2>2. Sent(all) = Append(args, none) BY <1>6, <2>1
  <2> HIDE DEF none
  <2> QED BY <1>3, <1>10, <2>2
<1>11. CASE str = none /\ ~(interp = 1)
  <2>1. ~EndsEmpty(all) /\ Full(all) = args BY <1>4, <1>7, <1>8, <1>11
  <2>2. Sent(all) = args BY <1>6, <2>1
  <2> QED BY <1>3, <1>11, <2>2
<1> QED BY <1>9, <1>10, <1>11

-----------------------------------------------------------------------------
(***************************************************************************)
(* The arguments that are collected are the ones that are meant.           *)
(***************************************************************************)
\* Of a sequence, the elements before the next.
Before(x, i) == SubSeq(x, 1, i - 1)

LEMMA BeforeFirst == \A x : Before(x, 1) = <<>> BY DEF Before

LEMMA BeforeNext ==
    ASSUME NEW S, NEW x \in Seq(S), NEW i \in 1 .. Len(x)
    PROVE  Before(x, i + 1) = Append(Before(x, i), x[i])
<1>1. Len(x) \in Nat /\ i \in Nat /\ i >= 1 /\ i <= Len(x) /\ i - 1 \in Nat /\ x[i] \in S
      /\ i + 1 - 1 = i /\ i - 1 <= Len(x)
  BY LenProperties, ElementOfSeq
<1> DEFINE n == i - 1
           a == SubSeq(x, 1, i)
           b == SubSeq(x, 1, n)
           c == Append(b, x[i])
<1>2. a \in Seq(S) /\ Len(a) = i /\ \A k \in 1 .. i : a[k] = x[k] BY <1>1
<1>3. b \in Seq(S) /\ Len(b) = n /\ \A k \in 1 .. n : b[k] = x[k]
  <2>1. n \in Nat /\ n <= Len(x) BY <1>1
  <2> HIDE DEF n
  <2> QED BY <2>1
<1>4. c \in Seq(S) /\ Len(c) = n + 1 /\ c[n + 1] = x[i] /\ \A k \in 1 .. n : c[k] = b[k]
  <2> HIDE DEF b
  <2> QED BY <1>1, <1>3, AppendProperties
<1> HIDE DEF a, b, c
<1>5. \A k \in 1 .. i : k \in 1 .. n \/ (k = n + 1 /\ k = i) BY <1>1
<1>6. \A k \in 1 .. i : a[k] = c[k] BY <1>2, <1>3, <1>4, <1>5
<1>7. n + 1 = i BY <1>1
<1> HIDE DEF n
<1>8. a = c BY <1>2, <1>4, <1>6, <1>7, SeqEqual
<1>9. Before(x, i + 1) = a /\ Before(x, i) = b BY <1>1 DEF Before, a, b, n
<1> QED BY <1>8, <1>9 DEF c

LEMMA BeforeEnd ==
    ASSUME NEW S, NEW x \in Seq(S), NEW i \in Nat, i = Len(x) + 1
    PROVE  Before(x, i) = x
<1>1. Len(x) \in Nat /\ i - 1 = Len(x) BY LenProperties
<1> QED BY <1>1, SubSeqFull DEF Before

LEMMA NothingBefore == \A t \in Text : <<>> \o t = t
  BY DEF Text

LEMMA SignedNotEmpty == ASSUME NEW n \in Int PROVE Signed(n) # <<>>
<1>1. CASE n >= 0
  <2>1. n \in Nat /\ Signed(n) = Digits[n] BY <1>1 DEF Signed
  <2>2. Digits[n] \in Text /\ Len(Digits[n]) \in Nat \ {0} BY <2>1, DigitsAre, DigitsLength
  <2>3. Digits[n] # <<>>
    <3> DEFINE t == Digits[n]
    <3>1. t \in Seq(Byte) /\ Len(t) # 0 BY <2>2 DEF Text
    <3> HIDE DEF t
    <3>2. t # <<>> BY <3>1
    <3> QED BY <3>2 DEF t
  <2> QED BY <2>1, <2>3
<1>2. CASE n < 0
  <2> DEFINE d == Digits[-n]
             o == <<"-">>
             t == o \o d
  <2>1. -n \in Nat /\ Signed(n) = t BY <1>2 DEF Signed
  <2>2. d \in Seq(Byte) /\ Len(d) \in Nat BY <2>1, DigitsAre, LenProperties DEF Text
  <2>3. o \in Seq(Byte) /\ Len(o) = 1 BY DEF Byte
  <2> HIDE DEF d, o
  <2>4. IsConcat(t, o, d) BY <2>2, <2>3, ConcatIs
  <2> HIDE DEF t
  <2>5. Len(t) = 1 + Len(d) BY <2>3, <2>4 DEF IsConcat
  <2>6. t # <<>> BY <2>2, <2>5
  <2> QED BY <2>1, <2>6
<1> QED BY <1>1, <1>2


\* One token of a format, by what it does.
LEMMA ScanLetter ==
    ASSUME NEW toks, NEW str \in Text, NEW args, Scanned(toks, str, 0, args),
           NEW c \in Text, c # <<>>
    PROVE  Scanned(Append(toks, Tok("char", c)), str \o c, 0, args)
<1> DEFINE tok == Tok("char", c)
           zero == 0
<1>1. tok \in Token /\ tok.k \notin {"space", "other"} /\ ValueOf(tok) = c
  BY DEF Token, Tok, Kinds, ValueOf
<1>2. Scanned(toks, str, zero, args) OBVIOUS
<1> HIDE DEF tok, zero
<1>3. Scanned(Append(toks, tok), str \o ValueOf(tok), zero, args) BY <1>1, <1>2, ScanAdds
<1> QED BY <1>1, <1>3 DEF tok, zero

LEMMA ScanSpace ==
    ASSUME NEW toks, NEW str, NEW interp, NEW args, Scanned(toks, str, interp, args), str # <<>>
    PROVE  Scanned(Append(toks, Tok("space", <<>>)), <<>>, 0, Append(args, str))
<1> DEFINE tok == Tok("space", <<>>)
<1>1. tok \in Token /\ tok.k = "space"
  <2>1. <<>> \in Text BY DEF Text
  <2> QED BY <2>1 DEF Token, Tok, Kinds
<1> HIDE DEF tok
<1>2. str # <<>> => Scanned(Append(toks, tok), <<>>, 0, Append(args, str)) BY <1>1, ScanEnds
<1> QED BY <1>2 DEF tok

LEMMA ScanArgument ==
    ASSUME NEW toks, NEW args, NEW interp, Scanned(toks, <<>>, interp, args),
           NEW k \in {"%b", "%d"}, NEW v \in Text
    PROVE  Scanned(Append(toks, Tok(k, v)), v, 1, args)
<1> DEFINE tok == Tok(k, v)
           one == 1
           none == <<>>
<1>1. tok \in Token /\ tok.k \notin {"space", "other"} /\ ValueOf(tok) = v
  BY DEF Token, Tok, Kinds, ValueOf
<1>2. one = 1 /\ Scanned(toks, none, interp, args) OBVIOUS
<1>3. none \o v = v BY DEF Text
<1> HIDE DEF tok, one, none
<1>4. Scanned(Append(toks, tok), none \o ValueOf(tok), one, args) BY <1>1, <1>2, ScanAdds
<1> QED BY <1>1, <1>2, <1>3, <1>4 DEF tok

\* The formats of incr(), a token at a time.
LEMMA IncrMeans ==
    ASSUME NEW key \in Text, NEW delta \in Ints, key # <<>>
    PROVE  ArgumentsOf(IncrFormat(key, delta)) =
             IF delta = 1 THEN <<<<"x">>, key>> ELSE <<<<"x", "A">>, key, Signed(delta)>>
<1> DEFINE x == Tok("char", <<"x">>)
           a == Tok("char", <<"A">>)
           sp == Tok("space", <<>>)
           b == Tok("%b", key)
           sign == Signed(delta)
           d == Tok("%d", sign)
           one == <<"x">>
           two == <<"x", "A">>
           next == <<"A">>
           none == <<>>
           t1 == Append(none, x)
<1>1. delta \in Int /\ sign \in Text /\ sign # <<>> /\ ToInt(delta) = delta
  BY SignedIs, SignedNotEmpty, ToIntIs DEF Ints
<1>2. one \in Text /\ two \in Text /\ next \in Text /\ none \in Text
  BY "x" \in Byte, "A" \in Byte DEF Byte, Chars, Text
<1>3. one # none /\ two # none /\ one \o next = two /\ next # none /\ none \o one = one
  <2>1. "x" \in Byte /\ "A" \in Byte BY DEF Byte, Chars
  <2> QED BY <2>1, ListsOf
<1>4. Scanned(t1, one, 0, none)
  <2>1. Scanned(none, none, 0, none) BY ScanStarts
  <2> HIDE DEF none, one
  <2>2. Scanned(Append(none, Tok("char", one)), none \o one, 0, none)
    BY <1>2, <1>3, <2>1, ScanLetter DEF none
  <2> QED BY <1>3, <2>2 DEF one
<1>5. CASE delta = 1
  <2> DEFINE t2 == Append(t1, sp)
             t3 == Append(t2, b)
             args == Append(none, one)
  <2>1. IncrFormat(key, delta) = t3 BY <1>5 DEF IncrFormat
  <2>2. Append(args, key) = <<<<"x">>, key>>
    <3> HIDE DEF one
    <3>1. Append(args, key) = <<one, key>> BY <1>2, ListsOf
    <3> QED BY <3>1 DEF one
  <2> HIDE DEF t1, args
  <2>3. Scanned(t2, <<>>, 0, args)
    <3> HIDE DEF one, none
    <3> QED BY <1>3, <1>4, ScanSpace DEF none, args
  <2> HIDE DEF t2
  <2>4. Scanned(t3, key, 1, args) BY <2>3, ScanArgument
  <2> HIDE DEF t3
  <2>5. ArgumentsOf(t3) = Append(args, key)
    <3>1. ArgumentsOf(t3) = IF 1 = 1 \/ key # <<>> THEN Append(args, key) ELSE args
      BY <2>4, ScanDone
    <3> QED BY <3>1
  <2> QED BY <1>5, <2>1, <2>2, <2>5
<1>6. CASE delta # 1
  <2> DEFINE t2 == Append(t1, a)
             t3 == Append(t2, sp)
             t4 == Append(t3, b)
             t5 == Append(t4, sp)
             t6 == Append(t5, d)
             args == Append(none, two)
             argk == Append(args, key)
  <2>1. IncrFormat(key, delta) = t6 BY <1>1, <1>6 DEF IncrFormat
  <2>2. Append(argk, sign) = <<<<"x", "A">>, key, Signed(delta)>>
    <3> HIDE DEF two, sign
    <3>1. Append(argk, sign) = <<two, key, sign>> BY <1>1, <1>2, ListsOf
    <3> QED BY <3>1 DEF two, sign
  <2> HIDE DEF argk, t1
  <2>3. Scanned(t2, two, 0, none)
    <3> HIDE DEF one, two, next, none
    <3>1. Scanned(Append(t1, Tok("char", next)), one \o next, 0, none)
      BY <1>2, <1>3, <1>4, ScanLetter DEF none
    <3> QED BY <1>3, <3>1 DEF next
  <2> HIDE DEF t2
  <2>4. Scanned(t3, <<>>, 0, args)
    <3> HIDE DEF two, none
    <3> QED BY <1>3, <2>3, ScanSpace DEF none
  <2> HIDE DEF t3, args
  <2>5. Scanned(t4, key, 1, args) BY <2>4, ScanArgument
  <2> HIDE DEF t4
  <2>6. Scanned(t5, <<>>, 0, argk) BY <2>5, ScanSpace DEF argk
  <2> HIDE DEF t5, sign
  <2>7. Scanned(t6, sign, 1, argk) BY <1>1, <2>6, ScanArgument
  <2> HIDE DEF t6
  <2>8. ArgumentsOf(t6) = Append(argk, sign)
    <3>1. ArgumentsOf(t6) = IF 1 = 1 \/ sign # <<>> THEN Append(argk, sign) ELSE argk
      BY <2>7, ScanDone
    <3> QED BY <3>1
  <2> QED BY <1>6, <2>1, <2>2, <2>8
<1> QED BY <1>5, <1>6

\* What stands in a list of its own, all of it together, is the list.
Singles(x) == [k \in DOMAIN x |-> <<x[k]>>]

LEMMA SinglesAre ==
    ASSUME NEW S, NEW x \in Seq(S)
    PROVE  /\ Singles(x) \in Seq(Seq(S)) /\ Len(Singles(x)) = Len(x)
           /\ \A k \in 1 .. Len(x) : Singles(x)[k] = <<x[k]>>
<1>1. Len(x) \in Nat /\ DOMAIN x = 1 .. Len(x) /\ \A k \in 1 .. Len(x) : x[k] \in S
  BY LenProperties, ElementOfSeq
<1> DEFINE n == Len(x)
           m == [k \in 1 .. n |-> <<x[k]>>]
<1>2. Singles(x) = m BY <1>1 DEF Singles
<1>3. \A k \in 1 .. n : <<x[k]>> \in Seq(S) BY <1>1
<1>4. m \in Seq(Seq(S)) /\ Len(m) = n /\ \A k \in 1 .. n : m[k] = <<x[k]>>
  <2> DEFINE U == Seq(S)
             e(k) == <<x[k]>>
  <2>1. \A k \in 1 .. n : e(k) \in U BY <1>3
  <2>2. n \in Nat BY <1>1
  <2> HIDE DEF U, e, n
  <2>3. [k \in 1 .. n |-> e(k)] \in Seq(U) /\ Len([k \in 1 .. n |-> e(k)]) = n
        /\ \A k \in 1 .. n : [j \in 1 .. n |-> e(j)][k] = e(k)
    BY <2>1, <2>2
  <2> QED BY <2>3 DEF U, e, n
<1> QED BY <1>2, <1>4

LEMMA SinglesAppend ==
    ASSUME NEW S, NEW x \in Seq(S), NEW t \in S
    PROVE  Singles(Append(x, t)) = Append(Singles(x), <<t>>)
<1> DEFINE y == Append(x, t)
           w == <<t>>
           v == Singles(x)
           u == Append(v, w)
           z == Singles(y)
           n == Len(x)
<1>1. /\ n \in Nat /\ y \in Seq(S) /\ Len(y) = n + 1 /\ y[n + 1] = t
      /\ \A k \in 1 .. n : y[k] = x[k]
  BY AppendProperties, LenProperties
<1>2. v \in Seq(Seq(S)) /\ Len(v) = n /\ \A k \in 1 .. n : v[k] = <<x[k]>> BY SinglesAre
<1>3. z \in Seq(Seq(S)) /\ Len(z) = Len(y) /\ \A k \in 1 .. Len(y) : z[k] = <<y[k]>>
  <2> HIDE DEF y
  <2> QED BY <1>1, SinglesAre
<1>4. w \in Seq(S) OBVIOUS
<1> HIDE DEF v, w, z, y, n
<1>5. u \in Seq(Seq(S)) /\ Len(u) = n + 1 /\ u[n + 1] = w /\ \A k \in 1 .. n : u[k] = v[k]
  BY <1>2, <1>4, AppendProperties
<1> HIDE DEF u
<1>6. \A k \in 1 .. n + 1 : z[k] = u[k]
  <2>1. \A k \in 1 .. n + 1 : k \in 1 .. n \/ k = n + 1 BY <1>1
  <2>2. \A k \in 1 .. n : k \in 1 .. n + 1 BY <1>1
  <2>3. n + 1 \in 1 .. n + 1 BY <1>1
  <2>4. \A k \in 1 .. n + 1 : z[k] = <<y[k]>> BY <1>1, <1>3
  <2>5. ASSUME NEW k \in 1 .. n PROVE z[k] = u[k]
    <3>1. z[k] = <<y[k]>> /\ y[k] = x[k] BY <1>1, <2>2, <2>4
    <3>2. u[k] = v[k] /\ v[k] = <<x[k]>> BY <1>2, <1>5
    <3> QED BY <3>1, <3>2
  <2>6. z[n + 1] = u[n + 1]
    <3>1. z[n + 1] = <<y[n + 1]>> BY <2>3, <2>4
    <3> QED BY <1>1, <1>5, <3>1 DEF w
  <2> QED BY <2>1, <2>5, <2>6
<1>7. Len(z) = Len(u) BY <1>1, <1>3, <1>5
<1>8. \A k \in 1 .. Len(z) : z[k] = u[k] BY <1>1, <1>3, <1>6
<1>9. z = u BY <1>3, <1>5, <1>7, <1>8, SeqEqual
<1> QED BY <1>9 DEF z, y, u, v, w

LEMMA FlattenSingles ==
    ASSUME NEW S, NEW x \in Seq(S)
    PROVE  FlattenSeq(Singles(x)) = x
<1> DEFINE n == Len(x)
           First(k) == SubSeq(x, 1, k)
           f(k) == FlattenSeq(Singles(First(k)))
           T == {k \in Nat : k <= n /\ f(k) # First(k)}
<1>1. n \in Nat /\ n = Len(x) BY LenProperties
<1>2. \A k \in 0 .. n : First(k) \in Seq(S) BY <1>1, SubSeqProperties
<1>3. \A k \in 1 .. n : /\ k - 1 \in 0 .. n /\ x[k] \in S
                        /\ First(k) = Append(First(k - 1), x[k])
  <2> SUFFICES ASSUME NEW k \in 1 .. n
               PROVE  k - 1 \in 0 .. n /\ x[k] \in S /\ First(k) = Append(First(k - 1), x[k])
    OBVIOUS
  <2>1. k - 1 \in 0 .. n /\ x[k] \in S /\ k + 1 - 1 = k BY <1>1, ElementOfSeq
  <2>2. Before(x, k + 1) = Append(Before(x, k), x[k]) BY BeforeNext
  <2> QED BY <2>1, <2>2 DEF Before
<1>4. First(0) = <<>> /\ First(n) = x BY <1>1, SubSeqFull
<1>5. f(0) = First(0)
  <2>1. Singles(<<>>) = <<>> BY DEF Singles
  <2> QED BY <1>4, <2>1, FlattenEmpty
<1>6. ASSUME NEW k \in 1 .. n PROVE f(k) = f(k - 1) \o <<x[k]>>
  <2> DEFINE a == First(k - 1)
             t == x[k]
             b == <<t>>
  <2>1. a \in Seq(S) /\ t \in S /\ First(k) = Append(a, t) BY <1>2, <1>3
  <2> HIDE DEF a, t
  <2>2. Singles(a) \in Seq(Seq(S)) /\ b \in Seq(S) BY <2>1, SinglesAre
  <2>3. Singles(Append(a, t)) = Append(Singles(a), b) BY <2>1, SinglesAppend
  <2> HIDE DEF b
  <2>4. FlattenSeq(Append(Singles(a), b)) = FlattenSeq(Singles(a)) \o b
    BY <2>2, FlattenAppend
  <2> QED BY <2>1, <2>3, <2>4 DEF a, t, b
<1> HIDE DEF n, First, f
<1>7. ASSUME T # {} PROVE FALSE
  <2>1. PICK k \in T : \A y \in T : k <= y BY <1>7, Least
  <2>2. k \in Nat /\ k <= n /\ f(k) # First(k) BY <2>1
  <2>3. k # 0 BY <1>5, <2>2
  <2>4. k \in 1 .. n /\ k - 1 \in Nat /\ k - 1 \notin T /\ k - 1 <= n /\ k - 1 \in 0 .. n
    BY <1>1, <2>1, <2>3
  <2>5. f(k - 1) = First(k - 1) BY <2>4
  <2> DEFINE a == First(k - 1)
             t == x[k]
  <2>6. a \in Seq(S) /\ t \in S /\ First(k) = Append(a, t) BY <1>2, <1>3, <2>4
  <2>7. f(k) = a \o <<t>> BY <1>6, <2>4, <2>5
  <2> HIDE DEF a, t
  <2>8. Append(a, t) = a \o <<t>> BY <2>6, AppendAsConcat
  <2> QED BY <2>2, <2>6, <2>7, <2>8
<1>8. T = {} BY <1>7, Zenon
<1>9. f(n) = First(n)
  <2>1. n \in Nat /\ n <= n BY <1>1
  <2> QED BY <1>8, <2>1
<1> QED BY <1>4, <1>9 DEF f

\* What the elements of an array that is copied are written behind.
Ahead == IF target = 1 THEN <<TextOf(input[1])>> ELSE <<>>

LEMMA FlatIs ==
    ASSUME InputInv, job = "php"
    PROVE  /\ Len(input) = 2 /\ input[2].array =>
                Flat(input) = <<TextOf(input[1])>> \o input[2].elems
           /\ Len(input) = 1 /\ input[1].array => Flat(input) = <<>> \o input[1].elems
           /\ ~(Len(input) = 2 /\ input[2].array) /\ ~(Len(input) = 1 /\ input[1].array) =>
                Flat(input) = [k \in DOMAIN input |-> TextOf(input[k])]
<1> DEFINE n == Len(input)
           S == Text \cup {HOLE}
           g(k) == IF input[k].array /\ Len(input) <= 2 /\ k = Len(input)
                   THEN input[k].elems ELSE <<TextOf(input[k])>>
           m == [k \in 1 .. n |-> g(k)]
<1>1. /\ n \in Nat /\ DOMAIN input = 1 .. n
      /\ \A k \in 1 .. n : TextOf(input[k]) \in Text /\ input[k].elems \in Seq(S)
  BY CallIs
<1>2. Flat(input) = FlattenSeq(m) BY <1>1 DEF Flat
<1>3. ASSUME n = 2 /\ input[2].array
      PROVE  Flat(input) = <<TextOf(input[1])>> \o input[2].elems
  <2> DEFINE a == <<TextOf(input[1])>>
             b == input[2].elems
             l == <<a>>
  <2>1. g(1) = a /\ g(2) = b BY <1>3
  <2>2. 1 \in 1 .. n /\ 2 \in 1 .. n BY <1>3
  <2>3. TextOf(input[1]) \in Text /\ b \in Seq(S) BY <1>1, <2>2
  <2>4. a \in Seq(S) BY <2>3
  <2> HIDE DEF a, b, S, g
  <2>5. m = <<a, b>>
    <3> DEFINE c == <<a, b>>
    <3>1. c \in Seq(Seq(S)) /\ Len(c) = 2 /\ c[1] = a /\ c[2] = b BY <2>3, <2>4
    <3>2. m[1] = a /\ m[2] = b BY <2>1, <2>2
    <3>3. \A k \in 1 .. 2 : k = 1 \/ k = 2 OBVIOUS
    <3>4. m \in Seq(Seq(S)) /\ Len(m) = 2
      <4>1. \A k \in 1 .. 2 : g(k) \in Seq(S) BY <2>1, <2>3, <2>4, <3>3
      <4>2. m = [k \in 1 .. 2 |-> g(k)] BY <1>3
      <4> DEFINE U == Seq(S)
      <4>3. \A k \in 1 .. 2 : g(k) \in U BY <4>1
      <4> HIDE DEF m, U
      <4>4. m \in Seq(U) /\ Len(m) = 2 BY <4>2, <4>3
      <4> QED BY <4>4 DEF U
    <3> HIDE DEF c, m
    <3>5. \A k \in 1 .. Len(m) : m[k] = c[k] BY <3>1, <3>2, <3>3, <3>4
    <3>6. m = c BY <3>1, <3>4, <3>5, SeqEqual
    <3> QED BY <3>6 DEF c
  <2>6. Append(l, b) = <<a, b>> /\ l \in Seq(Seq(S))
    <3> DEFINE U == Seq(S)
    <3>1. a \in U /\ b \in U BY <2>3, <2>4
    <3> HIDE DEF U
    <3>2. Append(Append(<<>>, a), b) = <<a, b>> BY <3>1, ListsOf
    <3>3. Append(<<>>, a) = l /\ l \in Seq(U) BY <3>1
    <3> QED BY <3>2, <3>3 DEF U
  <2>7. FlattenSeq(l) = a BY <2>4, FlattenOne
  <2> HIDE DEF l, m
  <2>8. FlattenSeq(Append(l, b)) = FlattenSeq(l) \o b BY <2>3, <2>6, FlattenAppend
  <2>9. FlattenSeq(m) = a \o b BY <2>5, <2>6, <2>7, <2>8
  <2> QED BY <1>2, <2>9 DEF a, b, m
<1>4. ASSUME n = 1 /\ input[1].array PROVE Flat(input) = <<>> \o input[1].elems
  <2> DEFINE b == input[1].elems
             l == <<b>>
  <2>1. g(1) = b /\ 1 \in 1 .. n BY <1>4
  <2>2. b \in Seq(S) BY <1>1, <2>1
  <2> HIDE DEF b, S, g
  <2>3. m = l BY <1>4, <2>1
  <2>4. FlattenSeq(l) = b BY <2>2, FlattenOne
  <2>5. <<>> \o b = b BY <2>2
  <2> HIDE DEF l, m
  <2>6. FlattenSeq(m) = <<>> \o b BY <2>3, <2>4, <2>5
  <2> QED BY <1>2, <2>6 DEF b, m
<1>5. ASSUME ~(n = 2 /\ input[2].array), ~(n = 1 /\ input[1].array)
      PROVE  Flat(input) = [k \in DOMAIN input |-> TextOf(input[k])]
  <2> DEFINE t == [k \in 1 .. n |-> TextOf(input[k])]
  <2>1. \A k \in 1 .. n : g(k) = <<TextOf(input[k])>>
    <3> SUFFICES ASSUME NEW k \in 1 .. n, input[k].array, n <= 2, k = n PROVE FALSE OBVIOUS
    <3>1. n = 1 \/ n = 2 BY <1>1
    <3> QED BY <1>5, <3>1
  <2>2. t \in Seq(Text) /\ DOMAIN t = 1 .. n /\ \A k \in 1 .. n : t[k] = TextOf(input[k])
    <3>1. t = [k \in 1 .. n |-> t[k]] /\ (\A k \in 1 .. n : t[k] \in Text)
          /\ \A k \in 1 .. n : t[k] = TextOf(input[k])
      BY <1>1
    <3>2. n \in Nat /\ DOMAIN t = 1 .. n BY <1>1
    <3> HIDE DEF t, n
    <3> QED BY <3>1, <3>2, MapIsTexts
  <2> HIDE DEF g, t
  <2>3. Singles(t) = m
    <3>1. Singles(t) = [k \in 1 .. n |-> <<t[k]>>] BY <2>2 DEF Singles
    <3>2. \A k \in 1 .. n : <<t[k]>> = g(k) BY <2>1, <2>2
    <3> HIDE DEF n
    <3> QED BY <3>1, <3>2
  <2>4. FlattenSeq(Singles(t)) = t BY <2>2, FlattenSingles
  <2> HIDE DEF m
  <2>5. Flat(input) = t
    <3>1. Flat(input) = FlattenSeq(m) BY <1>2 DEF m
    <3> QED BY <2>3, <2>4, <3>1
  <2> QED BY <1>1, <2>5 DEF t
<1> QED BY <1>3, <1>4, <1>5

\* The arguments a command is built from, for each job: Meant, but for a key
\* or a delta that does not fit.
Wanted ==
    IF job \in {"format", "incr"} THEN ArgumentsOf(format)
    ELSE IF job = "argv" THEN input
    ELSE IF job = "strlen" THEN [k \in DOMAIN input |-> CString(input[k])]
    ELSE <<Keyword>> \o Flat(input)

\* How far collecting them has come, and what is written in the end.
ArgsInv ==
    /\ pc = "scan" => /\ at <= Len(format) + 1
                      /\ Scanned(Before(format, at), Str(s), interpolated, argv)
    /\ pc = "copy" => argv = Ahead \o Before(Source, at)
    /\ pc = "build" => Wanted = IF job = "php" THEN <<Keyword>> \o argv ELSE argv
    /\ pc = "done" => ReadAs(cmd, Wanted)

LEMMA WantedIsMeant ==
    ASSUME InputInv, Fits PROVE Wanted = Meant
<1>1. CASE job = "format" BY <1>1 DEF Wanted, Meant, format
<1>2. CASE job = "incr"
  <2>1. input \in Increments /\ input.key # <<>> /\ input.delta \in Ints
    BY <1>2 DEF Fits, InputInv
  <2>2. input.key \in Text BY <2>1, FormatAssumption, BytesAreBytes
  <2>3. Wanted = ArgumentsOf(IncrFormat(input.key, input.delta)) BY <1>2 DEF Wanted, format
  <2>4. Meant = IF input.delta = 1 THEN <<<<"x">>, input.key>>
                ELSE <<<<"x", "A">>, input.key, Signed(input.delta)>>
    BY <1>2 DEF Meant
  <2> QED BY <2>1, <2>2, <2>3, <2>4, IncrMeans, Zenon
<1>3. CASE job = "argv" BY <1>3 DEF Wanted, Meant
<1>4. CASE job = "strlen" BY <1>4 DEF Wanted, Meant
<1>5. CASE job = "php" BY <1>5 DEF Wanted, Meant
<1> QED BY <1>1, <1>2, <1>3, <1>4, <1>5 DEF InputInv

LEMMA StringIs == ASSUME s \in SoundStrings
                  PROVE  Str(s) \in Text /\ (s.len # 0 <=> Str(s) # <<>>)
<1>1. Str(s) \in Text /\ Len(Str(s)) = s.len
  <2>1. s.buf \in Text /\ s.len \in Nat /\ s.len <= Len(s.buf) BY StringsAre
  <2> QED BY <2>1, StrOf
<1>2. Str(s) # <<>> <=> Len(Str(s)) # 0
  <2> DEFINE t == Str(s)
  <2>1. t \in Seq(Byte) BY <1>1 DEF Text
  <2> HIDE DEF t
  <2>2. t # <<>> <=> Len(t) # 0 BY <2>1, EmptySeq
  <2> QED BY <2>2 DEF t
<1> QED BY <1>1, <1>2

\* What a token does, for the state that is left.
LEMMA ScanStep ==
    ASSUME FInv, ArgsInv, pc = "scan", at <= Len(format),
           Scanned(Append(Before(format, at), format[at]), Str(s'), interpolated', argv'),
           at' = at + 1, UNCHANGED <<jobVars, pc>>
    PROVE  ArgsInv'
<1>1. IsFormat(format) /\ at \in 1 .. Len(format) BY TokenIs
<1>2. Before(format, at + 1) = Append(Before(format, at), format[at])
  BY <1>1, BeforeNext DEF IsFormat
<1>3. Scanned(Before(format, at + 1), Str(s'), interpolated', argv') BY <1>2
<1>4. format' = format BY DEF format, jobVars
<1>5. Before(format, at + 1) = Before(format, at)' BY <1>4 DEF Before
<1>6. Scanned(Before(format, at), Str(s), interpolated, argv)' BY <1>3, <1>5 DEF Scanned
<1>7. at' <= Len(format') + 1
  <2>1. Len(format) \in Nat BY <1>1, LenProperties DEF IsFormat
  <2> QED BY <1>1, <1>4, <2>1
<1> QED BY <1>6, <1>7 DEF ArgsInv

LEMMA ArgsInits == FormatInit => ArgsInv
<1> SUFFICES ASSUME FormatInit PROVE ArgsInv OBVIOUS
<1>1. FInv BY FormatInits
<1>2. /\ pc \in {"scan", "start"} /\ at = 1 /\ interpolated = 0 /\ argv = <<>>
      /\ pc = "scan" => job \in {"format", "incr"}
  BY DEF FormatInit
<1>3. ASSUME pc = "scan"
      PROVE  at <= Len(format) + 1 /\ Scanned(Before(format, at), Str(s), interpolated, argv)
  <2>1. job \in {"format", "incr"} /\ InputInv BY <1>1, <1>2, <1>3 DEF FInv, TInv
  <2>2. IsFormat(format) BY <2>1, FormatIs
  <2>3. Len(format) \in Nat BY <2>2, LenProperties DEF IsFormat
  <2>4. s = NewLen(<<>>) BY <2>1 DEF FormatInit
  <2>5. Str(s) = <<>>
    <3> DEFINE none == <<>>
    <3>1. none \in Text /\ Len(none) <= IntMax BY SdsAssumption DEF Text
    <3> HIDE DEF none
    <3>2. Str(NewLen(none)) = none BY <3>1, NewLenOf
    <3> QED BY <2>4, <3>2 DEF none
  <2>6. Before(format, at) = <<>> BY <1>2, BeforeFirst
  <2>7. Scanned(Before(format, at), Str(s), interpolated, argv)
    BY <1>2, <2>5, <2>6, ScanStarts
  <2> QED BY <1>2, <2>3, <2>7
<1> QED BY <1>2, <1>3 DEF ArgsInv

\* What is added to the argument under construction arrives there.
LEMMA TextScanned ==
    ASSUME FInv, pc = "scan", at <= Len(format)
    PROVE  /\ Str(CatLen(s, format[at].v)) = Str(s) \o format[at].v
           /\ Str(CatLen(s, CString(format[at].v))) = Str(s) \o CString(format[at].v)
           /\ Str(CatPrintf(s, format[at].v)) = Str(s) \o CString(format[at].v)
<1> DEFINE v == format[at].v
           c == CString(v)
<1>1. s \in SoundStrings /\ v \in Text BY TokenIs DEF FInv, TInv
<1>2. /\ s.len \in Nat /\ Len(v) \in Nat /\ s.len + Len(v) <= IntMax /\ IntMax \in Nat
  BY TokenFits, SdsAssumption
<1> HIDE DEF v
<1>3. c \in Text /\ Len(c) \in Nat /\ Len(c) <= Len(v)
  <2>1. PICK n \in 0 .. Len(v) : c = SubSeq(v, 1, n) BY <1>1, CStringOf
  <2>2. c \in Text /\ Len(c) = n BY <1>1, <2>1, PrefixOf
  <2> QED BY <1>2, <2>1, <2>2
<1>4. Str(CatPrintf(s, v)) = Str(s) \o c BY <1>1, <1>2, CatPrintfIs
<1> HIDE DEF c
<1>5. s.len + Len(c) <= IntMax BY <1>2, <1>3
<1>6. Str(CatLen(s, v)) = Str(s) \o v BY <1>1, <1>2, CatLenOf
<1>7. Str(CatLen(s, c)) = Str(s) \o c BY <1>1, <1>3, <1>5, CatLenOf
<1> QED BY <1>4, <1>6, <1>7 DEF v, c

\* The steps of redisvFormatCommand that scan a token.
LEMMA ScanSteps ==
    ASSUME FInv, ArgsInv, CopyChar \/ EndWord \/ Interpolate \/ IgnoreConversion
    PROVE  ArgsInv'
<1> DEFINE tok == format[at]
           b == Before(format, at)
<1>1. pc = "scan" /\ at <= Len(format) /\ at' = at + 1 /\ UNCHANGED <<jobVars, pc>>
  BY DEF CopyChar, EndWord, Interpolate, IgnoreConversion, Scanning, Advance, Taken
<1>2. /\ tok \in Token /\ tok.v \in Text
      /\ tok.k \in {"char", "%%"} => tok.v # <<>>
      /\ tok.k \in {"%d", "%f"} => CString(tok.v) = tok.v
  BY <1>1, TokenIs DEF IsFormat
<1>3. s \in SoundStrings /\ Str(s) \in Text /\ (s.len # 0 <=> Str(s) # <<>>)
  BY StringIs DEF FInv, TInv
<1>4. Scanned(b, Str(s), interpolated, argv) BY <1>1 DEF ArgsInv
<1>5. ValueOf(tok) = IF tok.k = "%s" THEN CString(tok.v) ELSE tok.v BY DEF ValueOf
<1> DEFINE v == ValueOf(tok)
<1>6. CASE CopyChar
  <2>1. tok.k \in {"char", "%%"} /\ s' = CatLen(s, tok.v) /\ interpolated' = interpolated /\ argv' = argv
    BY <1>6 DEF CopyChar, Scanning
  <2>2. v = tok.v /\ v # <<>> /\ tok.k \notin {"space", "other"} BY <1>2, <1>5, <2>1
  <2>3. Str(s') = Str(s) \o v BY <1>1, <2>1, <2>2, TextScanned
  <2> HIDE DEF tok, b
  <2>4. Scanned(Append(b, tok), Str(s) \o v, interpolated, argv) BY <1>2, <1>4, <2>2, ScanAdds
  <2>5. Scanned(Append(b, tok), Str(s'), interpolated', argv') BY <2>1, <2>3, <2>4
  <2> QED BY <1>1, <2>5, ScanStep DEF tok, b
<1>7. CASE EndWord
  <2>1. tok.k = "space" BY <1>7 DEF EndWord, Scanning
  <2>2. CASE s.len # 0
    <3>1. argv' = Append(argv, Str(s)) /\ s' = NewLen(<<>>) /\ interpolated' = 0
      BY <1>7, <2>2 DEF EndWord, AddArgument
    <3>2. Str(s') = <<>>
      <4> DEFINE none == <<>>
      <4>1. none \in Text /\ Len(none) <= IntMax BY SdsAssumption DEF Text
      <4> HIDE DEF none
      <4>2. Str(NewLen(none)) = none BY <4>1, NewLenOf
      <4> QED BY <3>1, <4>2 DEF none
    <3> HIDE DEF tok, b
    <3>3. Scanned(Append(b, tok), <<>>, 0, Append(argv, Str(s)))
      BY <1>2, <1>3, <1>4, <2>1, <2>2, ScanEnds
    <3>4. Scanned(Append(b, tok), Str(s'), interpolated', argv') BY <3>1, <3>2, <3>3
    <3> QED BY <1>1, <3>4, ScanStep DEF tok, b
  <2>3. CASE s.len = 0
    <3>1. s' = s /\ argv' = argv /\ interpolated' = interpolated BY <1>7, <2>3 DEF EndWord
    <3>2. Str(s) = <<>> BY <1>3, <2>3
    <3> HIDE DEF tok, b
    <3>3. Scanned(Append(b, tok), <<>>, interpolated, argv)
      BY <1>2, <1>4, <2>1, <3>2, ScanEnds
    <3>4. Scanned(Append(b, tok), Str(s'), interpolated', argv') BY <3>1, <3>2, <3>3
    <3> QED BY <1>1, <3>4, ScanStep DEF tok, b
  <2> QED BY <2>2, <2>3
<1>8. CASE Interpolate
  <2>1. interpolated' = 1 /\ argv' = argv /\ tok.k \in {"%s", "%b", "%d", "%f"}
    BY <1>8 DEF Interpolate, Scanning
  <2>2. tok.k \notin {"space", "other"} BY <2>1
  <2>3. Str(s') = Str(s) \o v
    <3>1. CASE tok.k = "%s"
      <4>1. s' = CatLen(s, CString(tok.v)) /\ v = CString(tok.v)
        BY <1>5, <1>8, <3>1 DEF Interpolate, Scanning
      <4> QED BY <1>1, <4>1, TextScanned
    <3>2. CASE tok.k = "%b"
      <4>1. s' = CatLen(s, tok.v) /\ v = tok.v BY <1>5, <1>8, <3>2 DEF Interpolate, Scanning
      <4> QED BY <1>1, <4>1, TextScanned
    <3>3. CASE tok.k \in {"%d", "%f"}
      <4>1. s' = CatPrintf(s, tok.v) /\ v = tok.v /\ CString(tok.v) = tok.v
        BY <1>2, <1>5, <1>8, <3>3 DEF Interpolate, Scanning
      <4> QED BY <1>1, <4>1, TextScanned
    <3> QED BY <2>1, <3>1, <3>2, <3>3
  <2> HIDE DEF tok, b
  <2>4. Scanned(Append(b, tok), Str(s) \o v, interpolated', argv)
    BY <1>2, <1>4, <2>1, <2>2, ScanAdds
  <2>5. Scanned(Append(b, tok), Str(s'), interpolated', argv') BY <2>1, <2>3, <2>4
  <2> QED BY <1>1, <2>5, ScanStep DEF tok, b
<1>9. CASE IgnoreConversion
  <2>1. tok.k = "other" /\ s' = s /\ interpolated' = interpolated /\ argv' = argv
    BY <1>9 DEF IgnoreConversion, Scanning
  <2> HIDE DEF tok, b
  <2>2. Scanned(Append(b, tok), Str(s), interpolated, argv) BY <1>2, <1>4, <2>1, ScanIgnores
  <2>3. Scanned(Append(b, tok), Str(s'), interpolated', argv') BY <2>1, <2>2
  <2> QED BY <1>1, <2>3, ScanStep DEF tok, b
<1> QED BY <1>6, <1>7, <1>8, <1>9

LEMMA LastWordStep == ASSUME FInv, ArgsInv, LastWord PROVE ArgsInv'
<1>1. /\ pc = "scan" /\ at > Len(format) /\ pc' = "build" /\ UNCHANGED jobVars
      /\ argv' = IF interpolated = 1 \/ s.len # 0 THEN Append(argv, Str(s)) ELSE argv
  BY DEF LastWord, AddArgument
<1>2. at <= Len(format) + 1 /\ Scanned(Before(format, at), Str(s), interpolated, argv)
  BY <1>1 DEF ArgsInv
<1>3. job \in {"format", "incr"} /\ InputInv /\ at \in Nat BY <1>1 DEF FInv, TInv, PcInv
<1>4. IsFormat(format) BY <1>3, FormatIs
<1>5. at = Len(format) + 1
  <2>1. Len(format) \in Nat BY <1>4, LenProperties DEF IsFormat
  <2> QED BY <1>1, <1>2, <1>3, <2>1
<1>6. Before(format, at) = format BY <1>3, <1>4, <1>5, BeforeEnd DEF IsFormat
<1>7. s.len # 0 <=> Str(s) # <<>> BY StringIs DEF FInv, TInv
<1>8. Scanned(format, Str(s), interpolated, argv) BY <1>2, <1>6
<1>9. ArgumentsOf(format) = argv' BY <1>1, <1>7, <1>8, ScanDone
<1>10. Wanted' = argv'
  <2>1. Wanted' = ArgumentsOf(format)' BY <1>1, <1>3 DEF Wanted, jobVars
  <2>2. format' = format BY <1>1 DEF format, jobVars
  <2>3. ArgumentsOf(format)' = ArgumentsOf(format') BY DEF ArgumentsOf, WordsOf
  <2> QED BY <1>9, <2>1, <2>2, <2>3
<1>11. job' # "php" BY <1>1, <1>3 DEF jobVars
<1> QED BY <1>1, <1>10, <1>11 DEF ArgsInv

\* Building a command from all that was collected, or given.
LEMMA WantedStays == ASSUME UNCHANGED jobVars PROVE Wanted' = Wanted
  BY DEF jobVars, Wanted, format

LEMMA BuildSteps ==
    ASSUME FInv, ArgsInv, BuildFormatted \/ BuildFromVector \/ BuildCall
    PROVE  ArgsInv'
<1>1. Wanted' = Wanted
  BY WantedStays DEF BuildFormatted, BuildFromVector, BuildCall, jobVars
<1>2. argv \in Seq(Text) /\ InputInv BY DEF FInv, TInv
<1>3. \E texts \in Seq(Text) :
         texts = Wanted /\ pc' \in {"done"} \cup Failed /\ cmd' = Request(texts)
  <2>1. CASE BuildFormatted
    <3>1. pc = "build" /\ job \in {"format", "incr"} BY <2>1 DEF BuildFormatted
    <3>2. pc' \in {"done"} \cup Failed /\ cmd' = Request(argv) BY <2>1, FormattedIs
    <3>3. argv = Wanted BY <3>1 DEF ArgsInv
    <3> QED BY <1>2, <3>2, <3>3
  <2>2. CASE BuildFromVector
    <3> DEFINE texts == IF job = "argv" THEN input ELSE [k \in DOMAIN input |-> CString(input[k])]
    <3>1. job \in {"argv", "strlen"} /\ FormatArgv(texts) BY <2>2 DEF BuildFromVector
    <3>2. texts = Wanted BY <3>1 DEF Wanted
    <3>3. texts \in Seq(Text)
      <4>1. input \in Seq(Text) BY <1>2, <3>1, VectorsTyped DEF InputInv
      <4> QED BY <3>1, <4>1, StrlenIs
    <3> HIDE DEF texts
    <3>4. pc' \in {"done"} \cup Failed /\ cmd' = Request(texts) BY <3>1, <3>3, FormatArgvIs
    <3> QED BY <3>2, <3>3, <3>4
  <2>3. CASE BuildCall
    <3> DEFINE texts == <<Keyword>> \o argv
    <3>1. pc = "build" /\ job = "php" /\ FormatArgv(texts) BY <2>3 DEF BuildCall
    <3>2. texts = Wanted BY <3>1 DEF ArgsInv
    <3>3. texts \in Seq(Text)
      <4>1. <<Keyword>> \in Seq(Text) BY KeywordIsText
      <4> QED BY <1>2, <4>1, ConcatIs
    <3> HIDE DEF texts
    <3>4. pc' \in {"done"} \cup Failed /\ cmd' = Request(texts) BY <3>1, <3>3, FormatArgvIs
    <3> QED BY <3>2, <3>3, <3>4
  <2> QED BY <2>1, <2>2, <2>3
<1>4. PICK texts \in Seq(Text) :
         texts = Wanted /\ pc' \in {"done"} \cup Failed /\ cmd' = Request(texts)
  BY <1>3
<1>5. ReadAs(Request(texts), texts) BY RequestReads
<1>6. ReadAs(cmd', Wanted') BY <1>1, <1>4, <1>5
<1>7. ReadAs(cmd, Wanted)' BY <1>6 DEF ReadAs, Decoded
<1>8. pc' \notin {"scan", "copy", "build"} BY <1>4 DEF Failed
<1> QED BY <1>7, <1>8 DEF ArgsInv

\* The steps of redis_varg_run that collect the arguments of a call.
LEMMA GetParametersStep == ASSUME FInv, ArgsInv, GetParameters PROVE ArgsInv'
<1>1. /\ pc = "start" /\ job = "php" /\ at = 1 /\ InputInv
      /\ UNCHANGED <<jobVars, at>>
  BY DEF GetParameters, FInv, TInv, CopyInv
<1>2. CASE Len(input) = 2 /\ input[2].array
  <2>1. target' = 1 /\ argv' = <<TextOf(input[1])>> /\ pc' = "copy"
    BY <1>2 DEF GetParameters
  <2>2. Ahead' = <<TextOf(input[1])>> BY <1>1, <2>1 DEF Ahead, jobVars, TextOf
  <2>3. Before(Source', at') = <<>> BY <1>1, BeforeFirst
  <2>4. TextOf(input[1]) \in Text BY <1>1, <1>2, CallIs
  <2> DEFINE a == <<TextOf(input[1])>>
  <2>5. a \in Seq(Text) BY <2>4
  <2> HIDE DEF a
  <2>6. a \o <<>> = a BY <2>5, ConcatEmptySeq
  <2>7. argv' = Ahead' \o Before(Source', at') BY <2>1, <2>2, <2>3, <2>6 DEF a
  <2>8. (Before(Source, at))' = Before(Source', at') BY DEF Before
  <2> QED BY <2>1, <2>7, <2>8 DEF ArgsInv
<1>3. CASE ~(Len(input) = 2 /\ input[2].array) /\ Len(input) = 1 /\ input[1].array
  <2>1. target' = 0 /\ argv' = <<>> /\ pc' = "copy" BY <1>3 DEF GetParameters
  <2>2. Ahead' = <<>> BY <2>1 DEF Ahead
  <2>3. Before(Source', at') = <<>> BY <1>1, BeforeFirst
  <2>4. <<>> \o <<>> = <<>>
    <3>1. <<>> \in Seq(Text) OBVIOUS
    <3> QED BY <3>1, ConcatEmptySeq
  <2>5. argv' = Ahead' \o Before(Source', at') BY <2>1, <2>2, <2>3, <2>4
  <2>6. (Before(Source, at))' = Before(Source', at') BY DEF Before
  <2> QED BY <2>1, <2>5, <2>6 DEF ArgsInv
<1>4. CASE ~(Len(input) = 2 /\ input[2].array) /\ ~(Len(input) = 1 /\ input[1].array)
  <2>1. argv' = [k \in DOMAIN input |-> TextOf(input[k])] /\ pc' = "build"
    BY <1>4 DEF GetParameters
  <2>2. Flat(input) = argv' BY <1>1, <1>4, <2>1, FlatIs
  <2>3. Wanted = <<Keyword>> \o argv' BY <1>1, <2>2 DEF Wanted
  <2>4. Wanted' = Wanted /\ job' = "php" BY <1>1, WantedStays DEF jobVars
  <2> QED BY <2>1, <2>3, <2>4 DEF ArgsInv
<1> QED BY <1>2, <1>3, <1>4

LEMMA CopyElementStep == ASSUME FInv, ArgsInv, CopyElement PROVE ArgsInv'
<1>1. /\ pc = "copy" /\ at <= Len(Source) /\ Source[at] # HOLE
      /\ argv' = Append(argv, Source[at]) /\ at' = at + 1
      /\ UNCHANGED <<jobVars, pc, target>>
  BY DEF CopyElement, Advance
<1> DEFINE S == Text \cup {HOLE}
<1>2. /\ Source \in Seq(S) /\ at \in 1 .. Len(Source) /\ Source[at] \in S
      /\ job = "php" /\ target \in {0, 1} /\ target + 1 \in 1 .. Len(input)
  <2>1. /\ Source \in Seq(Text \cup {HOLE}) /\ Len(Source) \in Nat /\ at \in Nat \ {0}
        /\ \A k \in 1 .. Len(Source) : Source[k] # HOLE => Source[k] \in Text
        /\ job = "php" /\ target \in {0, 1} /\ target + 1 \in 1 .. Len(input)
    BY <1>1, SourceIs DEF FInv, TInv
  <2>2. at \in 1 .. Len(Source) BY <1>1, <2>1
  <2> QED BY <1>1, <2>1, <2>2
<1>3. Ahead \in Seq(S)
  <2>1. CASE target = 1
    <3>1. 1 \in 1 .. Len(input) /\ InputInv BY <1>2, <2>1, CallIs DEF FInv, TInv
    <3>2. TextOf(input[1]) \in Text BY <1>2, <3>1, CallIs
    <3> QED BY <2>1, <3>2 DEF Ahead
  <2>2. CASE target # 1 BY <2>2 DEF Ahead
  <2> QED BY <2>1, <2>2
<1> DEFINE a == Ahead
           b == Before(Source, at)
           e == Source[at]
           c == <<e>>
<1>4. b \in Seq(S)
  <2>1. at - 1 \in 0 .. Len(Source) BY <1>2
  <2> HIDE DEF S
  <2>2. Source \in Seq(S) /\ Len(Source) \in Nat /\ \A k \in 1 .. at - 1 : Source[k] \in S
    BY <1>2, <2>1, ElementOfSeq, LenProperties
  <2> QED BY <2>1, <2>2, SubSeqProperties DEF Before
<1>5. Before(Source, at + 1) = Append(b, e)
  <2> HIDE DEF S
  <2> QED BY <1>2, BeforeNext
<1>6. argv = a \o b BY <1>1 DEF ArgsInv
<1>7. Append(a \o b, e) = a \o Append(b, e)
  <2> HIDE DEF a, b, e, S
  <2>1. a \in Seq(S) /\ b \in Seq(S) /\ e \in S BY <1>2, <1>3, <1>4 DEF a, e
  <2>2. c \in Seq(S) /\ a \o b \in Seq(S) BY <2>1, ConcatProperties
  <2>3. Append(a \o b, e) = (a \o b) \o c /\ Append(b, e) = b \o c
    BY <2>1, <2>2, AppendAsConcat
  <2> HIDE DEF c
  <2>4. (a \o b) \o c = a \o (b \o c) BY <2>1, <2>2, ConcatAssociative
  <2> QED BY <2>3, <2>4
<1>8. argv' = Ahead \o Before(Source, at + 1)
  <2> HIDE DEF b, e
  <2> QED BY <1>1, <1>5, <1>6, <1>7 DEF e
<1>9. Ahead' = Ahead /\ Source' = Source
  BY <1>1 DEF Ahead, Source, jobVars, TextOf
<1>10. (Before(Source, at))' = Before(Source, at + 1) BY <1>1, <1>9 DEF Before
<1> QED BY <1>1, <1>8, <1>9, <1>10 DEF ArgsInv

LEMMA AllCopiedStep == ASSUME FInv, ArgsInv, AllCopied PROVE ArgsInv'
<1>1. pc = "copy" /\ at > Len(Source) /\ pc' = "build" /\ UNCHANGED <<jobVars, argv>>
  BY DEF AllCopied
<1>2. /\ job = "php" /\ InputInv /\ Source \in Seq(Text \cup {HOLE}) /\ Len(Source) \in Nat
      /\ at \in 1 .. Len(Source) + 1
      /\ \/ target = 1 /\ Len(input) = 2 /\ input[2].array
         \/ target = 0 /\ Len(input) = 1 /\ input[1].array
  BY <1>1, SourceIs DEF FInv, TInv, CopyInv
<1>3. at \in Nat /\ at = Len(Source) + 1 BY <1>1, <1>2
<1>4. Before(Source, at) = Source BY <1>2, <1>3, BeforeEnd
<1>5. argv = Ahead \o Source BY <1>1, <1>4 DEF ArgsInv
<1>6. Flat(input) = argv
  <2>1. CASE target = 1 /\ Len(input) = 2 /\ input[2].array
    <3>1. Ahead = <<TextOf(input[1])>> /\ Source = input[2].elems
      BY <2>1 DEF Ahead, Source
    <3> QED BY <1>2, <1>5, <2>1, <3>1, FlatIs
  <2>2. CASE target = 0 /\ Len(input) = 1 /\ input[1].array
    <3>1. Ahead = <<>> /\ Source = input[1].elems BY <2>2 DEF Ahead, Source
    <3> QED BY <1>2, <1>5, <2>2, <3>1, FlatIs
  <2> QED BY <1>2, <2>1, <2>2
<1>7. Wanted = <<Keyword>> \o argv' BY <1>1, <1>2, <1>6 DEF Wanted
<1>8. Wanted' = Wanted /\ job' = "php" BY <1>1, <1>2, WantedStays DEF jobVars
<1> QED BY <1>1, <1>7, <1>8 DEF ArgsInv

LEMMA ArgsSteps == ASSUME FInv, ArgsInv, FormatNext PROVE ArgsInv'
<1>1. CASE CopyChar \/ EndWord \/ Interpolate \/ IgnoreConversion BY <1>1, ScanSteps
<1>2. CASE LastWord BY <1>2, LastWordStep
<1>3. CASE BuildFormatted \/ BuildFromVector \/ BuildCall BY <1>3, BuildSteps
<1>4. CASE GetParameters BY <1>4, GetParametersStep
<1>5. CASE CopyElement BY <1>5, CopyElementStep
<1>6. CASE ElementMissing
  <2>1. pc' = "refused" BY <1>6 DEF ElementMissing
  <2> QED BY <2>1 DEF ArgsInv
<1>7. CASE AllCopied BY <1>7, AllCopiedStep
<1> QED BY <1>1, <1>2, <1>3, <1>4, <1>5, <1>6, <1>7 DEF FormatNext

LEMMA ArgsStay == ASSUME ArgsInv, UNCHANGED vars PROVE ArgsInv'
<1>1. Wanted' = Wanted BY WantedStays DEF vars, jobVars
<1>2. /\ pc' = pc /\ at' = at /\ s' = s /\ interpolated' = interpolated /\ argv' = argv
      /\ cmd' = cmd /\ job' = job /\ input' = input /\ target' = target
  BY DEF vars, jobVars, varg
<1>3. format' = format /\ Ahead' = Ahead /\ Source' = Source
  BY <1>2 DEF format, Ahead, Source, TextOf
<1>4. (Before(format, at))' = Before(format, at) /\ (Before(Source, at))' = Before(Source, at)
  BY <1>2, <1>3 DEF Before
<1>5. (Str(s))' = Str(s) BY <1>2
<1>6. Scanned(Before(format, at), Str(s), interpolated, argv)'
        <=> Scanned(Before(format, at), Str(s), interpolated, argv)
  BY <1>2, <1>4, <1>5 DEF Scanned
<1>7. ReadAs(cmd, Wanted)' <=> ReadAs(cmd, Wanted) BY <1>1, <1>2 DEF ReadAs, Decoded
<1> QED BY <1>1, <1>2, <1>3, <1>4, <1>6, <1>7 DEF ArgsInv

\* ArgumentsArrive: whatever bytes are in the arguments of a format, of an
\* array or of a PHP call, whenever redisvFormatCommand, redisFormatCommandArgv
\* or redis_varg_run builds a command from them (which it does if an int can
\* count the command, by LengthsExact), the server reads from its bytes exactly
\* the arguments the caller meant.
THEOREM ArgumentsReadBack == FormatSpec => []ArgumentsArrive
<1>1. FInv /\ ArgsInv => ArgumentsArrive
  <2> SUFFICES ASSUME FInv, ArgsInv, pc = "done", Fits PROVE ReadAs(cmd, Meant)
    BY DEF ArgumentsArrive
  <2>1. InputInv BY DEF FInv, TInv
  <2>2. Wanted = Meant BY <2>1, WantedIsMeant
  <2>3. ReadAs(cmd, Wanted) BY DEF ArgsInv
  <2> QED BY <2>2, <2>3
<1>2. FInv /\ ArgsInv /\ [FormatNext]_vars => ArgsInv' BY ArgsSteps, ArgsStay
<1> QED BY <1>1, <1>2, ArgsInits, FormatKeeps, PTL DEF FormatSpec
=============================================================================
