--------------------------------- MODULE Sds --------------------------------
(***************************************************************************)
(* The dynamic strings of sds.c: one string in memory under any sequence   *)
(* of the operations that change it, and the algorithms that take strings  *)
(* apart and quote them.                                                   *)
(*                                                                         *)
(* A string is its header and the bytes behind it.  What lies behind the   *)
(* terminator is JUNK: nobody may rely on it.                              *)
(***************************************************************************)
EXTENDS Integers, Sequences, SequencesExt, FiniteSetsExt

CONSTANTS
    Pieces,     \* the texts that are appended, copied and quoted
    Separators, \* what strings are split at
    IntMax,     \* INT_MAX: len and free of a header are ints
    SizeMax,    \* SIZE_MAX: the sizes of the interface are size_ts
    PrintBuf,   \* the first buffer of sdscatvprintf
    MaxLen      \* the longest text the caller makes, which an int can count

\* The bytes told apart: letters, "0" and "x" stand for themselves.
NUL   == "\\0"
JUNK  == "junk"
Quote == "quote"
Slash == "backslash"
NL    == "newline"
Space == " "
Chars == {"a", "A", "n", "x", "0", Space, Quote, Slash, NL, NUL}
IsPrint(c) == c \in Chars \ {NL, NUL}
IsSpace(c) == c \in {Space, NL}

\* A size_t is as wide as an int, or two or more times as wide.
ASSUME SdsAssumption ==
    /\ \A p \in Pieces : p \in Seq(Chars) /\ Len(p) <= MaxLen
    /\ \A p \in Separators : p \in Seq(Chars) /\ p # <<>>
    /\ IntMax \in Nat /\ MaxLen \in Nat /\ MaxLen <= IntMax
    /\ SizeMax \in Nat /\ (SizeMax + 1) % (2 * (IntMax + 1)) = 0
    /\ PrintBuf \in Nat /\ PrintBuf > 1

VARIABLE s      \* the string: len and free of its header, and its bytes

-----------------------------------------------------------------------------
(***************************************************************************)
(* Numbers.  A number that is stored wraps to the width of its type (the   *)
(* overflow of an int addition, too, is what the hardware makes of it);    *)
(* what is computed on the way to an int wraps with it, since the width of *)
(* an int divides that of a size_t.                                        *)
(***************************************************************************)
Ints      == -(IntMax + 1) .. IntMax
ToInt(n)  == ((n + IntMax + 1) % (2 * (IntMax + 1))) - (IntMax + 1)
ToSize(n) == n % (SizeMax + 1)

-----------------------------------------------------------------------------
(***************************************************************************)
(* Memory.                                                                 *)
(***************************************************************************)
\* sdslen and sdsavail read an int as a size_t: a negative one is huge.
SLen(sh)  == ToSize(sh.len)
Avail(sh) == ToSize(sh.free)

Str(sh)   == SubSeq(sh.buf, 1, sh.len)
Junk(n)   == [k \in 1 .. n |-> JUNK]
CString(t) == LET ends == {k \in DOMAIN t : t[k] = NUL}
              IN  IF ends = {} THEN t ELSE SubSeq(t, 1, Min(ends) - 1)

\* memcpy of t to offset at: a copy past the end makes the buffer longer than
\* what was allocated.
Copied(buf, at, t) ==
    [k \in 1 .. Max({Len(buf), at + Len(t)}) |->
        IF k - at \in DOMAIN t THEN t[k - at]
        ELSE IF k \in DOMAIN buf THEN buf[k] ELSE JUNK]

\* What is behind the terminator is forgotten.
Header(len, free, buf) ==
    [len |-> ToInt(len), free |-> ToInt(free),
     buf |-> [k \in DOMAIN buf |-> IF k > len + 1 THEN JUNK ELSE buf[k]]]

NewLen(t) == [len |-> ToInt(Len(t)), free |-> 0, buf |-> t \o <<NUL>>]

Grow(sh, newlen) ==
    [sh EXCEPT !.free = ToInt(newlen - SLen(sh)),
               !.buf = @ \o Junk(newlen + 1 - Len(@))]

\* Mutant: room for one byte less than was asked for counts as enough.
MakeTooLittleRoom(sh, addlen) ==
    IF Avail(sh) + 1 >= addlen THEN sh
    ELSE Grow(sh, ToSize(2 * (SLen(sh) + addlen)))

MakeRoomFor(sh, addlen) ==
    IF Avail(sh) >= addlen THEN sh
    ELSE Grow(sh, ToSize(2 * (SLen(sh) + addlen)))

CatLen(sh, t) ==
    LET room == MakeRoomFor(sh, Len(t))
    IN  Header(SLen(sh) + Len(t), room.free - Len(t),
               Copied(room.buf, SLen(sh), Append(t, NUL)))

\* free + len is a sum of ints.
Total(sh) == ToSize(ToInt(sh.free + sh.len))

CpyLen(sh, t) ==
    LET room == IF Total(sh) < Len(t)
                THEN MakeRoomFor(sh, ToSize(Len(t) - sh.len)) ELSE sh
    IN  Header(Len(t), Total(room) - Len(t), Copied(room.buf, 0, Append(t, NUL)))

\* Mutant: the last byte, which is always NUL, is looked at.
AlwaysFits(t, n) == TRUE

\* vsnprintf of t into n bytes, the last but one of which was cleared: it is
\* NUL still if the text is short enough (or has a NUL there).
FitsPrintBuf(t, n) == Len(t) <= n - 2 \/ t[n - 1] = NUL

\* The buffer is doubled until the text fits.  sdscat stops at the first NUL.
CatPrintf(sh, t) ==
    LET buflen[k \in 0 .. Len(t)] == IF k = 0 THEN PrintBuf ELSE 2 * buflen[k - 1]
        sizes == {n \in {buflen[k] : k \in 0 .. Len(t)} : FitsPrintBuf(t, n)}
        text  == SubSeq(t, 1, Min({Len(t), Min(sizes) - 1}))
    IN  CatLen(sh, CString(text))

UpdateLen(sh) ==
    LET reallen == ToInt(Len(CString(sh.buf)))
    IN  Header(reallen, sh.free + sh.len - reallen, sh.buf)

\* memmove of newlen bytes at offset from to the front, and the new header.
Shrunk(sh, from, newlen) ==
    Header(newlen, sh.free + sh.len - newlen,
           [k \in DOMAIN sh.buf |->
               IF k = newlen + 1 THEN NUL
               ELSE IF k > newlen THEN sh.buf[k]
               ELSE IF from + k \in DOMAIN sh.buf THEN sh.buf[from + k] ELSE JUNK])

\* strchr finds a NUL in every set.
Trim(sh, cset) ==
    LET kept == {k \in 1 .. SLen(sh) : sh.buf[k] \notin cset \cup {NUL}}
    IN  IF kept = {} THEN Shrunk(sh, 0, 0)
        ELSE Shrunk(sh, Min(kept) - 1, Max(kept) - Min(kept) + 1)

\* Mutant: an index equal to the length is not clamped.
LateClamp(i, len) == IF i > ToInt(len) THEN ToInt(len - 1) ELSE i

Clamp(i, len) == IF i >= ToInt(len) THEN ToInt(len - 1) ELSE i

FromEnd(i, len) ==
    IF i >= 0 THEN i ELSE Max({0, ToInt(len + i)})

SdsRange(sh, start, end) ==
    LET first == FromEnd(start, SLen(sh))
        last  == FromEnd(end, SLen(sh))
        from  == Clamp(first, SLen(sh))
        to    == Clamp(last, SLen(sh))
    IN  CASE sh.len = 0    -> sh
          [] sh.len # 0 /\ first > last -> Shrunk(sh, 0, 0)
          [] OTHER -> Shrunk(sh, from, IF from > to THEN 0 ELSE to - from + 1)

\* "a" and "A" stand for all letters that change.
Recased(sh, from, to) ==
    [sh EXCEPT !.buf = [k \in DOMAIN @ |->
        IF k <= sh.len /\ @[k] = from THEN to ELSE @[k]]]

-----------------------------------------------------------------------------
(***************************************************************************)
(* Quoting: sdscatrepr appends a text in quotes.                           *)
(***************************************************************************)
\* Mutant: a quote is not escaped.
ReprQuoteBare(sh, c) ==
    CASE c = Slash  -> CatPrintf(sh, <<Slash, c>>)
      [] c = NL     -> CatLen(sh, <<Slash>>)
      [] c = NUL    -> CatPrintf(sh, <<Slash, "x", "0", "0">>)
      [] OTHER      -> CatPrintf(sh, <<c>>)

\* Of the two bytes of an escape like "\n" only the first is appended.
ReprChar(sh, c) ==
    CASE c \in {Slash, Quote} -> CatPrintf(sh, <<Slash, c>>)
      [] c = NL               -> CatLen(sh, <<Slash>>)
      [] c \notin {Slash, Quote, NL} /\ IsPrint(c)  -> CatPrintf(sh, <<c>>)
      [] OTHER                -> CatPrintf(sh, <<Slash, "x", "0", "0">>)

CatRepr(sh, t) == CatLen(FoldLeft(ReprChar, CatLen(sh, <<Quote>>), t), <<Quote>>)

-----------------------------------------------------------------------------
(***************************************************************************)
(* Taking strings apart.                                                   *)
(***************************************************************************)
Grown(acc) == IF acc.slots < Len(acc.tokens) + 2 THEN 2 * acc.slots ELSE acc.slots

\* Mutant: the last place where the separator fits is not looked at.
LastPlaceMissed(len, seplen) == len - seplen - 1

LastPlace(len, seplen) == len - seplen

\* acc.next is the first byte that is in no separator found so far.
SplitLen(t, sep) ==
    LET Look(acc, j) ==
            IF j < acc.next THEN acc
            ELSE IF SubSeq(t, j + 1, j + Len(sep)) = sep
            THEN [tokens |-> Append(acc.tokens, SubSeq(t, acc.start + 1, j)),
                  start |-> j + Len(sep), next |-> j + Len(sep), slots |-> Grown(acc)]
            ELSE [acc EXCEPT !.slots = Grown(acc)]
        end  == FoldLeft(Look, [tokens |-> <<>>, start |-> 0, next |-> 0, slots |-> 5],
                         [k \in 1 .. Max({0, LastPlace(Len(t), Len(sep)) + 1}) |-> k - 1])
    IN  IF t = <<>> THEN [tokens |-> <<>>, slots |-> 5]
        ELSE [tokens |-> Append(end.tokens, SubSeq(t, end.start + 1, Len(t))),
              slots  |-> end.slots]

Unescaped(c) == IF c = "n" THEN NL ELSE c

\* A token lasts up to a blank, or to a closing quote with a blank or the end
\* after it.
ArgChar(acc, c) ==
    LET Read(in)   == [acc EXCEPT !.in = in, !.cur = Append(@, c)]
        Goto(in)   == [acc EXCEPT !.in = in]
        Ended(in)  == [in |-> in, cur |-> <<>>, argv |-> Append(acc.argv, acc.cur)]
        After      == IF c = NUL THEN "end" ELSE "blank"
        Unquoted   == CASE c \in {Space, NL, NUL} -> Ended(After)
                        [] c = Quote -> Goto("quotes")
                        [] OTHER -> Read("word")
    IN  CASE acc.in \in {"end", "err"} -> acc
          [] acc.in = "blank"  -> IF c = NUL \/ IsSpace(c) THEN Goto(After)
                                  ELSE Unquoted
          [] acc.in = "word"   -> Unquoted
          [] acc.in = "quotes" -> CASE c = Slash -> Goto("escape")
                                    [] c = Quote -> Goto("closed")
                                    [] c = NUL   -> Goto("err")
                                    [] OTHER     -> Read("quotes")
          [] acc.in = "escape" -> IF c = NUL THEN Goto("err")
                                  ELSE [acc EXCEPT !.in = "quotes",
                                                   !.cur = Append(@, Unescaped(c))]
          [] acc.in = "closed" -> IF c = NUL \/ IsSpace(c) THEN Ended(After)
                                  ELSE Goto("err")

\* On an error the vector is freed and argc counted down past 0.
SplitArgs(line) ==
    LET end == FoldLeft(ArgChar, [in |-> "blank", cur |-> <<>>, argv |-> <<>>],
                        Append(CString(line), NUL))
    IN  IF end.in = "err" THEN [argc |-> -1, argv |-> <<>>]
        ELSE [argc |-> Len(end.argv), argv |-> end.argv]

-----------------------------------------------------------------------------
(***************************************************************************)
(* A caller of it all, which makes no string longer than MaxLen.  A byte   *)
(* that is quoted takes four at most.                                      *)
(***************************************************************************)
Init == s = NewLen(<<>>) \/ \E t \in Pieces : s = NewLen(t)

Cat(t)    == s.len + Len(t) <= MaxLen /\ s' = CatLen(s, t)
Printf(t) == s.len + Len(t) <= MaxLen /\ s' = CatPrintf(s, t)
Cpy(t)    == s' = CpyLen(s, t)
Repr(t)   == s.len + 4 * Len(t) + 2 <= MaxLen /\ s' = CatRepr(s, t)
TrimSet(cset)  == s' = Trim(s, cset)
Slice(i, j)    == s' = SdsRange(s, i, j)
Dup            == s' = NewLen(Str(s))
Upper          == s' = Recased(s, "a", "A")
Lower          == s' = Recased(s, "A", "a")

\* The caller stores a NUL in the string, and has the length updated.
Cut(k) ==
    /\ k \in 1 .. s.len
    /\ s' = UpdateLen([s EXCEPT !.buf[k] = NUL])

Sets == {{Space}, {"a", Quote}}

Next ==
    \/ \E t \in Pieces : Cat(t) \/ Printf(t) \/ Cpy(t) \/ Repr(t)
    \/ \E cset \in Sets : TrimSet(cset)
    \/ \E i, j \in Ints : Slice(i, j)
    \/ \E k \in 1 .. MaxLen : Cut(k)
    \/ Dup \/ Upper \/ Lower

Spec == Init /\ [][Next]_s

-----------------------------------------------------------------------------
(***************************************************************************)
(* Properties.                                                             *)
(***************************************************************************)
\* The header tells the truth about the memory: there is all the room behind
\* the text that was allocated for it, free is that room or, where an int is
\* too small for it, negative (which sdsavail takes for more room than any
\* text needs), nothing was written past it, and there is a terminator.
HeaderSound ==
    LET room == Len(s.buf) - 1 - s.len
    IN  /\ s.len \in 0 .. IntMax /\ room \in Nat
        /\ s.free = IF room <= IntMax THEN room ELSE room - 2 * (IntMax + 1)
        /\ s.buf[s.len + 1] = NUL

\* Whatever room there was before, an append or a copy leaves the text it was
\* given after the text there was, if an int can count the two together;
\* formatted output stops at a NUL only.
TextArrives ==
    \A t \in Pieces :
        /\ s.len + Len(t) <= IntMax =>
              /\ Str(CatLen(s, t)) = Str(s) \o t
              /\ Str(CatPrintf(s, t)) = Str(s) \o CString(t)
        /\ Str(CpyLen(s, t)) = t

\* The bytes whose position is in the range, counted from the end where it is
\* negative, and where it is past the end brought back to the last byte.
InRange(t, i, j) ==
    LET Place(k) == IF k < 0 THEN Max({0, Len(t) + k}) ELSE k
        Kept     == {k \in DOMAIN t : /\ k - 1 >= Min({Place(i), Len(t) - 1})
                                      /\ k - 1 <= Place(j)}
    IN  IF Place(i) > Place(j) THEN <<>>
        ELSE SubSeq(t, Min(Kept), Max(Kept))

\* sdsrange keeps the bytes of the range, at every edge of the string and of
\* the ints (redisBufferWrite drops what it wrote this way).
RangeExact ==
    s.len > 0 =>
        \A i, j \in Ints : Str(SdsRange(s, i, j)) = InRange(Str(s), i, j)

\* Joined with the separator the tokens are the string again, none has the
\* separator in it, and the array has room for all of them.
Within(t, p) == \E k \in DOMAIN t : IsPrefix(p, SubSeq(t, k, Len(t)))
SplitsBack ==
    s.len > 0 => \A sep \in Separators :
        LET parts == SplitLen(Str(s), sep)
        IN  /\ FoldLeft(LAMBDA acc, tok : acc \o sep \o tok,
                        Head(parts.tokens), Tail(parts.tokens)) = Str(s)
            /\ \A k \in DOMAIN parts.tokens : ~Within(parts.tokens[k], sep)
            /\ Len(parts.tokens) <= parts.slots

\* A line without quotes is split into its words; a printable text that was
\* quoted by sdscatrepr, with words around it, comes back as it was, if an int
\* can count its bytes (of which an escaped one takes two).
Words(t) ==
    LET Start(k) == ~IsSpace(t[k]) /\ (k = 1 \/ IsSpace(t[k - 1]))
        End(k)   == CHOOSE e \in k .. Len(t) :
                        /\ \A m \in k .. e : ~IsSpace(t[m])
                        /\ e = Len(t) \/ IsSpace(t[e + 1])
        starts   == {k \in DOMAIN t : Start(k)}
        Nth(n)   == CHOOSE k \in starts : Cardinality({j \in starts : j < k}) = n - 1
    IN  [n \in 1 .. Cardinality(starts) |-> SubSeq(t, Nth(n), End(Nth(n)))]
Quoted(t) == Str(CatRepr(NewLen(<<>>), t))
ArgsReadBack ==
    LET t == Str(s)
    IN  /\ Quote \notin {t[k] : k \in DOMAIN t} => SplitArgs(t).argv = Words(CString(t))
        /\ (\A k \in DOMAIN t : IsPrint(t[k])) /\ 2 * Len(t) + 2 <= IntMax =>
              SplitArgs(<<"x", Space>> \o Quoted(t) \o <<Space, "x">>).argv
                  = <<<<"x">>, t, <<"x">>>>
=============================================================================
