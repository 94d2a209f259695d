----------------------------- MODULE FormatCommand --------------------------
(***************************************************************************)
(* From what a caller passes to the bytes of a command: redisvFormatCommand *)
(* with a format and its arguments, redisFormatCommandArgv with an array,  *)
(* and redis_varg_run, which turns the arguments of a PHP call into one.   *)
(*                                                                         *)
(* A format is a sequence of tokens, each a byte or a conversion together  *)
(* with the argument va_arg takes for it.  The argument under construction *)
(* ("current") is the string s of Sds.  What an int can count of a format, *)
(* its tokens and its texts, limits the caller; the length of a command    *)
(* is counted in an int that may wrap.                                     *)
(***************************************************************************)
EXTENDS Sds

CONSTANTS
    Formats,    \* the formats redisvFormatCommand is called with
    Vectors,    \* the arrays redisFormatCommandArgv is called with
    Increments, \* the keys and deltas incr(), decr() and their like are called with
    Calls       \* the argument lists of the PHP methods with any number of them

\* "char" is any byte but a space, a % at the very end included; "other" is a
\* conversion that is not known.
Kinds == {"char", "space", "%s", "%b", "%d", "%f", "%%", "other"}

\* A PHP value is a text or an array; a HOLE is an index an array lacks.
HOLE == <<"hole">>

\* The bytes of an argument, the digits of a number in it among them.
Bytes == Chars \cup {"%", "-", "cr", "1", "2", "3", "4", "5", "6", "7", "8", "9"}

DigitChars == <<"0", "1", "2", "3", "4", "5", "6", "7", "8", "9">>
Digits[n \in Nat] == IF n < 10 THEN <<DigitChars[n + 1]>>
                     ELSE Append(Digits[n \div 10], DigitChars[(n % 10) + 1])
Signed(n) == IF n < 0 THEN <<"-">> \o Digits[-n] ELSE Digits[n]

\* common_incr: "INCR %b", or "INCRBY %b %d" with the delta cut to an int.
Tok(k, v) == [k |-> k, v |-> v]
IncrFormat(key, delta) ==
    IF delta = 1 THEN <<Tok("char", <<"x">>), Tok("space", <<>>), Tok("%b", key)>>
    ELSE <<Tok("char", <<"x">>), Tok("char", <<"A">>), Tok("space", <<>>),
           Tok("%b", key), Tok("space", <<>>), Tok("%d", Signed(ToInt(delta)))>>

\* All the bytes a format stands for.
TextsOf(toks) == [k \in DOMAIN toks |-> toks[k].v]
TextLen(toks) == Len(FlattenSeq(TextsOf(toks)))

ASSUME FormatAssumption ==
    /\ \A f \in Formats :
          /\ f \in Seq([k : Kinds, v : Seq(Bytes)])
          /\ \A k \in DOMAIN f :
                /\ f[k].k \in {"char", "%%"} => f[k].v # <<>>
                /\ f[k].k \in {"%d", "%f"} => CString(f[k].v) = f[k].v
          /\ TextLen(f) <= MaxLen /\ Len(f) < IntMax
    /\ \A v \in Vectors : v \in Seq(Seq(Bytes)) /\ Len(v) <= IntMax
    /\ \A i \in Increments : /\ i.key \in Seq(Bytes) /\ i.delta \in Int
                             /\ TextLen(IncrFormat(i.key, i.delta)) <= MaxLen
    /\ \A c \in Calls :
          /\ c \in Seq([array : BOOLEAN, v : Seq(Bytes), elems : Seq(Seq(Bytes) \cup {HOLE})])
          /\ Len(c) < IntMax /\ \A k \in DOMAIN c : 1 + Len(c) + Len(c[k].elems) <= IntMax

VARIABLES
    job,        \* "format", "incr", "argv", "strlen" or "php"
    input,      \* the format, increment, vector or call
    pc,         \* what is next: "start", "scan", "copy", "build", "done",
                \* "refused" (FALSE to the script), "oom" (redisOOM exits),
                \* "aborted" by the assert, or "overrun": cmd was too small
    at,         \* the token, or the element of the array, that is next
    interpolated,
    argv, totlen,
    slots,      \* how many arguments z_args has room for
    target,     \* the element of z_args the array is copied to
    overrun,    \* was z_args written past its end?
    cmd

jobVars == <<job, input>>
varg    == <<slots, target, overrun>>
vars    == <<s, jobVars, pc, at, interpolated, argv, totlen, varg, cmd>>

-----------------------------------------------------------------------------
(***************************************************************************)
(* The protocol of requests.                                               *)
(***************************************************************************)
\* Mutant: a number that is a power of ten is taken to be a digit shorter.
ShortIntLen(i) == LET len[n \in Nat] == IF n <= 10 THEN 1 ELSE 1 + len[n \div 10]
                  IN  IF i < 0 THEN 1 + len[-i] ELSE len[i]

IntLen(i) == LET len[n \in Nat] == IF n < 10 THEN 1 ELSE 1 + len[n \div 10]
             IN  IF i < 0 THEN 1 + len[-i] ELSE len[i]

CRLF == <<"cr", NL>>
Line(c, n) == <<c>> \o Digits[n] \o CRLF
Bulk(a)    == Line("$", Len(a)) \o a \o CRLF

\* intlen takes an int; the number of arguments is one.
ArgLen(len)  == 1 + IntLen(ToInt(len)) + 2 + len + 2
CountLen(n)  == 1 + IntLen(n) + 2

Request(texts) ==
    Line("*", Len(texts)) \o FlattenSeq([k \in DOMAIN texts |-> Bulk(texts[k])])

\* What is written to total + 1 bytes, and the length the caller is told.  A
\* negative number of bytes is, as a size_t, more than malloc has.
Build(texts, total) ==
    LET written == Len(Request(texts))
    IN  /\ cmd' = Request(texts)
        /\ totlen' = total
        /\ pc' = CASE ToInt(total + 1) < 0 -> "oom"
                   [] ToInt(total + 1) >= 0 /\ written > total -> "overrun"
                   [] ToInt(total + 1) >= 0 /\ written < total -> "aborted"
                   [] OTHER -> "done"

-----------------------------------------------------------------------------
(***************************************************************************)
(* redisvFormatCommand.                                                    *)
(***************************************************************************)
format == IF job = "incr" THEN IncrFormat(input.key, input.delta) ELSE input

Scanning(kinds) == pc = "scan" /\ at <= Len(format) /\ format[at].k \in kinds
Advance == at' = at + 1
Taken   == UNCHANGED <<jobVars, pc, varg, cmd>>

AddArgument ==
    /\ argv' = Append(argv, Str(s))
    /\ totlen' = ToInt(totlen + ArgLen(SLen(s)))

\* A literal byte, and "%%".
CopyChar ==
    /\ Scanning({"char", "%%"})
    /\ s' = CatLen(s, format[at].v)
    /\ Advance /\ Taken /\ UNCHANGED <<interpolated, argv, totlen>>

\* Mutant: a space ends an argument even where there is none.
EndEveryWord ==
    /\ Scanning({"space"})
    /\ AddArgument /\ s' = NewLen(<<>>) /\ interpolated' = 0
    /\ Advance /\ Taken

\* Spaces end an argument that is not empty.
EndWord ==
    /\ Scanning({"space"})
    /\ IF s.len # 0
       THEN AddArgument /\ s' = NewLen(<<>>) /\ interpolated' = 0
       ELSE UNCHANGED <<s, argv, totlen, interpolated>>
    /\ Advance /\ Taken

Interpolate ==
    /\ \/ Scanning({"%s"}) /\ s' = CatLen(s, CString(format[at].v))
       \/ Scanning({"%b"}) /\ s' = CatLen(s, format[at].v)
       \/ Scanning({"%d", "%f"}) /\ s' = CatPrintf(s, format[at].v)
    /\ interpolated' = 1
    /\ Advance /\ Taken /\ UNCHANGED <<argv, totlen>>

IgnoreConversion ==
    /\ Scanning({"other"})
    /\ Advance /\ Taken /\ UNCHANGED <<s, interpolated, argv, totlen>>

LastWord ==
    /\ pc = "scan" /\ at > Len(format)
    /\ IF interpolated = 1 \/ s.len # 0
       THEN AddArgument ELSE UNCHANGED <<argv, totlen>>
    /\ pc' = "build"
    /\ UNCHANGED <<s, jobVars, at, interpolated, varg, cmd>>

BuildFormatted ==
    /\ pc = "build" /\ job \in {"format", "incr"}
    /\ Build(argv, ToInt(totlen + CountLen(Len(argv))))
    /\ UNCHANGED <<s, jobVars, at, interpolated, argv, varg>>

-----------------------------------------------------------------------------
(***************************************************************************)
(* redisFormatCommandArgv; without lengths each argument is a C string.    *)
(***************************************************************************)
Lengths(texts) == FoldLeft(LAMBDA sum, t : sum + ArgLen(Len(t)), 0, texts)

\* A sum that wraps at the end is the one that wraps at each addition.
FormatArgv(texts) ==
    /\ argv' = texts
    /\ Build(texts, ToInt(CountLen(Len(texts)) + Lengths(texts)))

BuildFromVector ==
    /\ pc = "start" /\ job \in {"argv", "strlen"}
    /\ FormatArgv(IF job = "argv" THEN input
                  ELSE [k \in DOMAIN input |-> CString(input[k])])
    /\ UNCHANGED <<s, jobVars, at, interpolated, varg>>

-----------------------------------------------------------------------------
(***************************************************************************)
(* redis_varg_run: delete(), mget() and hmget().                           *)
(***************************************************************************)
Keyword == <<"x">>
ArrayText == <<"A">>    \* what an array is as a string
TextOf(z) == IF z.array THEN ArrayText ELSE z.v

\* Mutant: the array of a key and an array gets no room for the key.
KeyNotCounted(n) == n

KeyAndArray(n) == 1 + n

\* A key and an array, or an array: its elements are copied to z_args, which
\* is made anew for the first but not for the second.
GetParameters ==
    /\ pc = "start" /\ job = "php"
    /\ LET n == Len(input) IN
       IF n = 2 /\ input[2].array
       THEN /\ slots' = KeyAndArray(Len(input[2].elems)) /\ target' = 1
            /\ argv' = <<TextOf(input[1])>> /\ pc' = "copy"
       ELSE IF n = 1 /\ input[1].array
       THEN slots' = 1 /\ target' = 0 /\ argv' = <<>> /\ pc' = "copy"
       ELSE /\ slots' = n /\ UNCHANGED target
            /\ argv' = [k \in DOMAIN input |-> TextOf(input[k])]
            /\ pc' = "build"
    /\ UNCHANGED <<s, jobVars, at, interpolated, totlen, overrun, cmd>>

Source == input[target + 1].elems

\* Written past the end of z_args, the element may or may not be found there.
CopyElement ==
    /\ pc = "copy" /\ at <= Len(Source) /\ Source[at] # HOLE
    /\ argv' = Append(argv, Source[at])
    /\ overrun' = (overrun \/ target + at > slots)
    /\ Advance
    /\ UNCHANGED <<s, jobVars, pc, interpolated, totlen, slots, target, cmd>>

ElementMissing ==
    /\ pc = "copy" /\ at <= Len(Source) /\ Source[at] = HOLE
    /\ pc' = "refused"
    /\ UNCHANGED <<s, jobVars, at, interpolated, argv, totlen, varg, cmd>>

AllCopied ==
    /\ pc = "copy" /\ at > Len(Source)
    /\ pc' = "build"
    /\ UNCHANGED <<s, jobVars, at, interpolated, argv, totlen, varg, cmd>>

BuildCall ==
    /\ pc = "build" /\ job = "php"
    /\ FormatArgv(<<Keyword>> \o argv)
    /\ UNCHANGED <<s, jobVars, at, interpolated, varg>>

-----------------------------------------------------------------------------
Jobs == {[job |-> "format", input |-> f] : f \in Formats}
        \cup {[job |-> "incr", input |-> i] : i \in Increments}
        \cup {[job |-> j, input |-> v] : j \in {"argv", "strlen"}, v \in Vectors}
        \cup {[job |-> "php", input |-> c] : c \in Calls}

FormatInit ==
    /\ \E j \in Jobs : job = j.job /\ input = j.input
    /\ s = NewLen(<<>>)
    /\ pc = IF job \in {"format", "incr"} THEN "scan" ELSE "start"
    /\ at = 1 /\ interpolated = 0 /\ argv = <<>> /\ totlen = 0
    /\ slots = 0 /\ target = 0 /\ overrun = FALSE
    /\ cmd = <<>>

FormatNext == \/ CopyChar \/ EndWord \/ Interpolate \/ IgnoreConversion
              \/ LastWord \/ BuildFormatted \/ BuildFromVector
              \/ GetParameters \/ CopyElement \/ ElementMissing \/ AllCopied
              \/ BuildCall

FormatSpec == FormatInit /\ [][FormatNext]_vars

-----------------------------------------------------------------------------
(***************************************************************************)
(* The server (external) reads a request: the number of arguments, then    *)
(* each argument after its length.                                         *)
(***************************************************************************)
DigitOf(c) == SelectInSeq(DigitChars, LAMBDA d : d = c) - 1

DecodeByte(r, c) ==
    CASE r.at = "count" /\ c = "*"   -> [r EXCEPT !.at = "countDigits"]
      [] r.at = "countDigits" /\ c # "cr" -> [r EXCEPT !.n = 10 * @ + DigitOf(c)]
      [] r.at = "countDigits" /\ c = "cr" -> [r EXCEPT !.at = "countEnd"]
      [] r.at = "countEnd" /\ c = NL -> [r EXCEPT !.at = "length"]
      [] r.at = "length" /\ c = "$"  -> [r EXCEPT !.at = "lengthDigits", !.len = 0]
      [] r.at = "lengthDigits" /\ c # "cr" -> [r EXCEPT !.len = 10 * @ + DigitOf(c)]
      [] r.at = "lengthDigits" /\ c = "cr" -> [r EXCEPT !.at = "lengthEnd"]
      [] r.at = "lengthEnd" /\ c = NL -> [r EXCEPT !.at = "body", !.text = <<>>]
      [] r.at = "body" /\ Len(r.text) < r.len -> [r EXCEPT !.text = Append(@, c)]
      [] r.at = "body" /\ Len(r.text) = r.len /\ c = "cr" -> [r EXCEPT !.at = "bodyEnd"]
      [] r.at = "bodyEnd" /\ c = NL  -> [r EXCEPT !.at = "length", !.argv = Append(@, r.text)]
      [] OTHER -> [r EXCEPT !.at = "garbled"]

Decoded(bytes) ==
    FoldLeft(DecodeByte, [at |-> "count", n |-> 0, len |-> 0, text |-> <<>>, argv |-> <<>>], bytes)

ReadAs(bytes, texts) ==
    LET r == Decoded(bytes)
    IN  r.at = "length" /\ r.n = Len(texts) /\ r.argv = texts

-----------------------------------------------------------------------------
(***************************************************************************)
(* Properties.                                                             *)
(***************************************************************************)
\* The words of a format, and the text each one stands for.
ValueOf(token) == IF token.k = "%s" THEN CString(token.v) ELSE token.v
PutToken(ws, tok) ==
    IF tok.k = "space" THEN Append(ws, <<>>)
    ELSE IF tok.k = "other" THEN ws
    ELSE [ws EXCEPT ![Len(ws)] = Append(@, ValueOf(tok))]

Keep(kept, w) == IF w = <<>> THEN kept ELSE Append(kept, w)
NotEmpty(ws)  == FoldLeft(Keep, <<>>, ws)

WordsOf(toks) ==
    LET pieces == NotEmpty(FoldLeft(PutToken, <<<<>>>>, toks))
    IN  [k \in DOMAIN pieces |-> FlattenSeq(pieces[k])]

\* An argument that comes out empty is sent only if it is the last.
ArgumentsOf(toks) ==
    LET meant == WordsOf(toks)
        full  == NotEmpty(meant)
    IN  IF meant # <<>> /\ Last(meant) = <<>> THEN Append(full, <<>>) ELSE full

Flat(call) == FlattenSeq([k \in DOMAIN call |->
                  IF call[k].array /\ Len(call) <= 2 /\ k = Len(call)
                  THEN call[k].elems ELSE <<TextOf(call[k])>>])

Meant == CASE job = "format" -> ArgumentsOf(input)
           [] job = "incr"   -> IF input.delta = 1 THEN <<<<"x">>, input.key>>
                                ELSE <<<<"x", "A">>, input.key, Signed(input.delta)>>
           [] job = "argv"   -> input
           [] job = "strlen" -> [k \in DOMAIN input |-> CString(input[k])]
           [] job = "php"    -> <<Keyword>> \o Flat(input)

\* A key is not empty and a delta fits an int: others do not arrive.
Fits == job = "incr" => input.key # <<>> /\ input.delta \in Ints

\* The server reads from the bytes of a command that was built the arguments
\* the caller meant, whatever is in them.
ArgumentsArrive == pc = "done" /\ Fits => ReadAs(cmd, Meant)

\* The length counted beforehand, for which memory was allocated, is the
\* length of what is written, as long as an int can count the command and the
\* NUL after it: up to there no assertion fails, nothing is written past the
\* end of the memory, and no memory is asked for that there cannot be.
LengthExact == pc \in {"oom", "aborted", "overrun"} => Len(cmd) >= IntMax

\* The arguments of a PHP call are never written past the end of z_args.
InsideArgs == ~overrun
=============================================================================
