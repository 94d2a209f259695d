--------------------------- MODULE MCFormatCommand --------------------------
(***************************************************************************)
(* Small formats, arrays and calls for model checking FormatCommand.       *)
(***************************************************************************)
EXTENDS FormatCommand

Ten == [k \in 1 .. 10 |-> "a"]      \* its length takes two digits

Few  == {Tok("char", <<"x">>), Tok("space", <<>>), Tok("%s", <<>>), Tok("%b", <<"a">>)}
Many == Few \cup {Tok("char", <<"%">>), Tok("%%", <<"%">>), Tok("other", <<>>),
                  Tok("%s", <<"a", NUL, "a">>), Tok("%b", <<Space, NUL>>),
                  Tok("%b", Ten), Tok("%d", <<"0">>), Tok("%f", <<"0", "x", "0">>)}

UpTo(S, n) == UNION {[1 .. k -> S] : k \in 0 .. n}
\* Ten words, so that their number takes two digits; more than an int counts
\* the bytes of; and so many that the length wraps to a small one.
InWords(tok, n) == [k \in 1 .. 2 * n - 1 |-> IF k % 2 = 1 THEN tok ELSE Tok("space", <<>>)]
LongFormats == {InWords(Tok("char", <<"x">>), 10), InWords(Tok("%b", Ten), 6),
                InWords(Tok("char", <<"x">>), 30)}

AllFormats == UpTo(Few, 5) \cup UpTo(Many, 3) \cup LongFormats

\* An int counts the bytes of ten short arguments, but not with one more byte,
\* and what it makes of ten long ones is far too small.
Repeated(t, n) == [k \in 1 .. n |-> t]
AllVectors == UpTo({<<>>, <<"a">>, <<"a", NUL, "x">>, <<"cr", NL>>, Ten}, 3)
              \cup {Repeated(<<"a">>, 10), Append(Repeated(<<"a">>, 9), <<"a", "a">>),
                    Repeated(Ten, 6), Repeated(Ten, 10), <<Repeated("a", 80)>>}

\* On both sides of what an int holds.
AllIncrements == {[key |-> k, delta |-> d] : k \in {<<>>, <<"a">>, <<Space>>},
                                             d \in {-78, -77, -1, 0, 1, 10, 76, 77, 155}}

Text(v)  == [array |-> FALSE, v |-> v, elems |-> <<>>]
Array(e) == [array |-> TRUE, v |-> <<>>, elems |-> e]
Texts    == {Text(<<"a">>), Text(<<>>)}
Arrays(n) == {Array(e) : e \in UpTo({<<"a">>, <<>>, HOLE}, n)}

OneArray == {<<a>> : a \in Arrays(3)}
SomeCalls == UpTo(Texts \cup Arrays(1), 3)
             \cup {<<t, a>> : t \in Texts \cup Arrays(1), a \in Arrays(3)}
=============================================================================
