---------------------------- MODULE MCReplyReader ---------------------------
(***************************************************************************)
(* Small sets of replies for model checking ReplyReader.                   *)
(***************************************************************************)
EXTENDS ReplyReader

Leaf(type, v) == [type |-> type, v |-> v, elems |-> <<>>]
Array(elems)  == [type |-> "array", v |-> 0, elems |-> elems]

OK == Leaf("status", 1)
Err == Leaf("error", 2)
Num == Leaf("integer", 3)
Str == Leaf("string", 4)
Nil == Leaf("nil", 0)
NilArray == Leaf("nil", 1)
Bad == Leaf("bad", 0)
Empty == Array(<<>>)

Leaves == {OK, Err, Num, Str, Nil, NilArray, Empty}
Pair == Array(<<Str, Num>>)
Flat == {Pair, Array(<<Nil>>), Array(<<Empty, NilArray>>)}
Nested == {Array(<<Pair, Err>>), Array(<<OK, Pair>>),
           Array(<<Array(<<Nil>>), Array(<<Str, Num>>)>>)}
Deep == {Array(<<OK, Array(<<Pair, Str>>)>>)}
Broken == {Bad, Array(<<Str, Bad>>), Array(<<Pair, Array(<<OK, Bad>>)>>)}

WellFormed == Leaves \cup Flat \cup Nested
AllTrees == WellFormed \cup Deep \cup Broken
            \cup {Array(<<Pair, Str>>), Array(<<OK, Bad>>)}

Pairs(S, T) == {<<s, t>> : s \in S, t \in T}
FirstOf(S) == {<<s>> : s \in S}

\* Two replies of any shape, at most one of them nested or broken.
Good == Pairs(Leaves \cup Flat, WellFormed) \cup Pairs(Nested, {OK, Pair})
Faulty == Pairs(Broken \cup Deep, {OK, Pair})
          \cup Pairs({Str, Pair}, Broken \cup Deep)
AllForests == Good \cup Faulty

\* Without functions an error reply looks like no reply at all and a protocol
\* error crashes, so callers without functions are given neither.
Plain == Pairs({OK, Num, Str, Nil, Empty, Pair} \cup Nested, {OK, Num, Pair})
SomeFunctions ==
    [f \in AllForests |-> IF f \in Plain THEN {"default", "NULL"} ELSE {"default"}]

ASSUME FunctionsAssumption == Answerable /\ Errorless
=============================================================================
