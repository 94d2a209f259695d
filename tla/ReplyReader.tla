----------------------------- MODULE ReplyReader ----------------------------
(***************************************************************************)
(* redisReader: the incremental parser of hiredis.c.  The caller feeds it  *)
(* the stream of replies in pieces of any size and asks for a reply after  *)
(* each, or after several, of them.                                        *)
(*                                                                         *)
(* A reply is a tree; the stream is a sequence of cells: a type byte, a    *)
(* line up to its newline, or the body of a bulk.  A cell that arrived in  *)
(* part has not arrived: the parser consumes whole cells only.             *)
(***************************************************************************)
EXTENDS Integers, Sequences, SequencesExt

CONSTANTS
    Trees,      \* replies and their elements, closed under taking elements
    Forests,    \* the streams, each a sequence of replies
    Functions   \* the function sets, of "default" and "NULL", in use on each

\* v tells strings and numbers apart (never 0), and "$-1" (0) from "*-1" (1).
\* A reply of type "bad" starts with a byte that is no type.
Tree == [type |-> "nil", v |-> 0, elems |-> <<>>]
TreeTypes == {"status", "error", "integer", "string", "nil", "array", "bad"}

\* Replies are finite: in every set of them is one with no element in the set.
ASSUME ReaderAssumption ==
    /\ Trees \subseteq [type : TreeTypes, v : Nat, elems : Seq(Trees)]
    /\ \A t \in Trees : /\ t.elems # <<>> => t.type = "array"
                        /\ t.type = "array" => t.v = 0
                        /\ t.type = "nil" => t.v \in {0, 1}
    /\ \A T \in SUBSET Trees : T # {} =>
          \E t \in T : \A k \in DOMAIN t.elems : t.elems[k] \notin T
    /\ Forests \subseteq Seq(Trees)
    /\ Functions \in [Forests -> SUBSET {"default", "NULL"}]

-----------------------------------------------------------------------------
(***************************************************************************)
(* The protocol (external): the cells of a reply.                          *)
(***************************************************************************)
Byte == [status |-> "+", error |-> "-", integer |-> ":", string |-> "$",
         array |-> "*", bad |-> "@"]
TypeBytes == {"+", "-", ":", "$", "*"}

Cell(k, v) == [k |-> k, v |-> v]

Own(t) ==
    CASE t.type \in {"status", "error", "integer"} ->
            <<Cell(Byte[t.type], 0), Cell("line", t.v)>>
      [] t.type = "string" -> <<Cell("$", 0), Cell("line", 1), Cell("body", t.v)>>
      [] t.type = "nil"    -> <<Cell(IF t.v = 0 THEN "$" ELSE "*", 0), Cell("line", -1)>>
      [] t.type = "array"  -> <<Cell("*", 0), Cell("line", Len(t.elems))>>
      [] t.type = "bad"    -> <<Cell("@", 0)>>

Encode[t \in Trees] ==
    Own(t) \o FlattenSeq([k \in DOMAIN t.elems |-> Encode[t.elems[k]]])

Stream(f) == FlattenSeq([k \in DOMAIN f |-> Encode[f[k]]])

-----------------------------------------------------------------------------
VARIABLES
    forest,     \* what the server sends
    fed,        \* how many cells of it were fed
    fn,         \* the function set
    error, reply, buf, pos, len, rstack, ridx,      \* redisReader
    heap,       \* every object ever created
    freed,      \* the objects given to freeObject
    emitted,    \* the replies handed to the caller, each with the function set
    given,      \* the objects handed to the caller
    pc,         \* "idle", "parsing", "destroyed", or "crashed"
    result      \* of the last redisReplyReaderGetReply

readerVars == <<error, reply, buf, pos, len, rstack, ridx>>
heapVars   == <<heap, freed>>
callerVars == <<emitted, given, result>>
vars == <<forest, fed, fn, readerVars, heapVars, callerVars, pc>>

\* A positive reply is an index of heap, 0 is NULL, and a negative one is a
\* type cast to a pointer, what stands for an object when fn is NULL.
Code(type) == CASE type = "error"  -> 0    \* REDIS_REPLY_ERROR is 0
                [] type = "string" -> -1
                [] type = "array"  -> -2
                [] type = "integer" -> -3
                [] type = "nil"    -> -4
                [] type = "status" -> -5

\* A task keeps the index of its parent in rstack, -1 for none.
Task(idx, parent) ==
    [type |-> "none", elements |-> -1, idx |-> idx, obj |-> 0, parent |-> parent]

Init ==
    /\ forest \in Forests /\ fed = 0
    /\ fn \in Functions[forest]
    /\ error = "none" /\ reply = 0
    /\ buf = <<>> /\ pos = 0 /\ len = 0
    /\ rstack = [i \in 0 .. 2 |-> Task(0, -1)] /\ ridx = -1
    /\ heap = <<>> /\ freed = {}
    /\ emitted = <<>> /\ given = {} /\ result = "none"
    /\ pc = "idle"

\* The object and everything below it; tasks nest three deep at most.
Kids(S)  == (UNION {{heap[o].elems[k] : k \in DOMAIN heap[o].elems} : o \in S}) \ {0}
Below(o) == IF o <= 0 THEN {}
            ELSE {o} \cup Kids({o}) \cup Kids(Kids({o}))

-----------------------------------------------------------------------------
Feed ==
    /\ pc = "idle"
    /\ \E n \in fed + 1 .. Len(Stream(forest)) :
         /\ buf' = buf \o SubSeq(Stream(forest), fed + 1, n)
         /\ len' = Len(buf')
         /\ fed' = n
    /\ UNCHANGED <<forest, fn, error, reply, pos, rstack, ridx, heapVars,
                   callerVars, pc>>

\* redisReplyReaderSetReplyObjectFunctions refuses while there is an object.
SetFunctions ==
    /\ pc = "idle" /\ reply = 0
    /\ fn' \in Functions[forest]
    /\ UNCHANGED <<forest, fed, readerVars, heapVars, callerVars, pc>>

\* Mutant: the reply is freed as SetError frees it.
FreeThroughAny ==
    IF reply # 0 /\ fn = "NULL"
    THEN pc' = "crashed" /\ UNCHANGED freed
    ELSE pc' = "destroyed" /\ freed' = freed \cup Below(reply)

FreeReply ==
    /\ pc' = "destroyed"
    /\ freed' = IF fn = "NULL" THEN freed ELSE freed \cup Below(reply)

\* redisReplyReaderFree
Destroy ==
    /\ pc = "idle"
    /\ FreeReply
    /\ UNCHANGED <<forest, fed, fn, readerVars, heap, callerVars>>

\* redisReplyReaderGetReply: nothing to do on an empty buffer.
GetReply ==
    /\ pc = "idle"
    /\ IF len = 0
       THEN result' = "none" /\ UNCHANGED <<rstack, ridx, pc>>
       ELSE /\ IF ridx = -1
               THEN rstack' = [rstack EXCEPT ![0] = Task(-1, -1)] /\ ridx' = 0
               ELSE UNCHANGED <<rstack, ridx>>
            /\ pc' = "parsing" /\ UNCHANGED result
    /\ UNCHANGED <<forest, fed, fn, error, reply, buf, pos, len, heapVars,
                   emitted, given>>

-----------------------------------------------------------------------------
(***************************************************************************)
(* Processing one item.                                                    *)
(***************************************************************************)
cur == rstack[ridx]

\* len may run past the end of a buffer that an error emptied; there it finds
\* the terminating NUL.
CellAt(i) == IF i <= Len(buf) THEN buf[i] ELSE Cell("NUL", 0)

Has(k) == pos + k <= len

\* Mutant: the stack is left as it is.
MoveOnInPlace(stack) == ridx' = ridx - 1 /\ rstack' = stack

\* moveToNextTask: drop the tasks that did their last element, then take the
\* next element of the array that is left, if any.
MoveToNextTask(stack) ==
    LET left == {i \in 0 .. ridx : i = 0 \/ stack[i].idx # stack[i-1].elements - 1}
        top  == CHOOSE i \in left : \A j \in left : j <= i
    IN  IF top = 0
        THEN ridx' = -1 /\ rstack' = stack
        ELSE /\ ridx' = top
             /\ rstack' = [stack EXCEPT ![top].type = "none", ![top].elements = -1,
                                        ![top].idx = @ + 1]

\* Mutant: the error leaves what was built so far.
SetErrorKeepsReply(e) ==
    /\ buf' = <<>> /\ pos' = 0 /\ ridx' = -1 /\ error' = e
    /\ UNCHANGED <<freed, pc>>

\* redisSetReplyReaderError: len keeps its value; the functions are not tested.
SetError(e) ==
    /\ IF reply # 0 /\ fn = "NULL"
       THEN pc' = "crashed" /\ UNCHANGED freed
       ELSE freed' = freed \cup Below(reply) /\ UNCHANGED pc
    /\ buf' = <<>> /\ pos' = 0 /\ ridx' = -1 /\ error' = e

\* The create functions: a new object, stored in the parent's object.
Create(type, v, n) ==
    LET new == [type |-> type, v |-> v, elems |-> [k \in 1 .. n |-> 0]]
        up  == IF cur.parent = -1 THEN 0 ELSE rstack[cur.parent].obj
    IN  heap' = IF fn = "NULL" THEN heap
                ELSE Append([o \in DOMAIN heap |->
                       IF o = up
                       THEN [heap[o] EXCEPT !.elems[cur.idx + 1] = Len(heap) + 1]
                       ELSE heap[o]], new)

Obj(type) == IF fn = "NULL" THEN Code(type) ELSE Len(heap) + 1

\* Set reply if this is the root object.
SetReply(obj) == reply' = IF ridx = 0 THEN obj ELSE reply

Unmoved == UNCHANGED <<forest, fed, fn, callerVars>>

ReadType ==
    /\ pc = "parsing" /\ ridx >= 0 /\ cur.type = "none" /\ Has(1)
    /\ \/ \E type \in DOMAIN Byte \ {"bad"} :
            /\ CellAt(pos + 1).k = Byte[type]
            /\ rstack' = [rstack EXCEPT ![ridx].type = type]
            /\ pos' = pos + 1
            /\ UNCHANGED <<error, buf, ridx, freed, pc>>
       \/ /\ CellAt(pos + 1).k \notin TypeBytes
          /\ SetError("type byte")
          /\ UNCHANGED rstack
    /\ UNCHANGED <<reply, len, heap>>
    /\ Unmoved

LineItem ==
    /\ pc = "parsing" /\ ridx >= 0 /\ cur.type \in {"status", "error", "integer"}
    /\ Has(1)
    /\ pos' = pos + 1
    /\ Create(cur.type, CellAt(pos + 1).v, 0)
    /\ SetReply(Obj(cur.type))
    /\ MoveToNextTask(rstack)
    /\ UNCHANGED <<error, buf, len, freed, pc>>
    /\ Unmoved

\* Mutant: a nil is taken to have a body as well.
BulkAlwaysBody == 2

\* A nil is its line only, a bulk needs its body in the buffer as well.
BulkLength == IF CellAt(pos + 1).v < 0 THEN 1 ELSE 2

BulkItem ==
    /\ pc = "parsing" /\ ridx >= 0 /\ cur.type = "string"
    /\ Has(1) /\ Has(BulkLength)
    /\ pos' = pos + BulkLength
    /\ IF CellAt(pos + 1).v < 0
       THEN Create("nil", 0, 0) /\ SetReply(Obj("nil"))
       ELSE Create("string", CellAt(pos + 2).v, 0) /\ SetReply(Obj("string"))
    /\ MoveToNextTask(rstack)
    /\ UNCHANGED <<error, buf, len, freed, pc>>
    /\ Unmoved

\* Mutant: the elements of a nested array are stored in the outer one.
PushTaskOfParent(n) ==
    /\ ridx' = ridx + 1
    /\ rstack' = [rstack EXCEPT ![ridx].elements = n,
                                ![ridx].obj = Obj("array"),
                                ![ridx + 1] = Task(0, 0)]

PushTask(n) ==
    /\ ridx' = ridx + 1
    /\ rstack' = [rstack EXCEPT ![ridx].elements = n,
                                ![ridx].obj = Obj("array"),
                                ![ridx + 1] = Task(0, ridx)]

MultiBulkItem ==
    LET elements == CellAt(pos + 1).v
    IN  /\ pc = "parsing" /\ ridx \in {0, 1} /\ cur.type = "array"
        /\ Has(1)
        /\ pos' = pos + 1
        /\ IF elements = -1
           THEN /\ Create("nil", 1, 0) /\ SetReply(Obj("nil"))
                /\ MoveToNextTask(rstack)
           ELSE /\ Create("array", 0, elements) /\ SetReply(Obj("array"))
                /\ IF elements > 0 THEN PushTask(elements)
                   ELSE MoveToNextTask(rstack)
        /\ UNCHANGED <<error, buf, len, freed, pc>>
        /\ Unmoved

TooDeep ==
    /\ pc = "parsing" /\ ridx = 2 /\ cur.type = "array"
    /\ SetError("depth")
    /\ UNCHANGED <<reply, len, rstack, heap>>
    /\ Unmoved

\* processItem cannot go on, or there is nothing left to process.
Stuck == ridx >= 0 =>
    ~Has(1) \/ (cur.type = "string" /\ ~Has(BulkLength))

-----------------------------------------------------------------------------
(***************************************************************************)
(* The end of redisReplyReaderGetReply.                                    *)
(***************************************************************************)
\* What an object stands for.
Value(o) ==
    LET value[i \in 1 .. Len(heap)] ==
            [type |-> heap[i].type, v |-> heap[i].v,
             elems |-> [k \in DOMAIN heap[i].elems |->
                IF heap[i].elems[k] = 0 THEN Tree ELSE value[heap[i].elems[k]]]]
    IN  IF o > 0 THEN value[o]
        ELSE [type |-> CHOOSE t \in TreeTypes \ {"bad"} : Code(t) = o,
              v |-> 0, elems |-> <<>>]

\* What the caller gets, and from which function set.
Answer == [fn |-> fn, value |-> Value(reply)]

\* Mutant: the error is reported once.
EmitAfterError ==
    /\ reply' = 0
    /\ IF error # "none" /\ pos = 0 /\ reply = 0
       THEN result' = "error" /\ UNCHANGED <<emitted, given>>
       ELSE IF reply = 0 THEN result' = "none" /\ UNCHANGED <<emitted, given>>
       ELSE /\ result' = "reply"
            /\ emitted' = Append(emitted, Answer)
            /\ given' = given \cup Below(reply)

\* "Check if there actually *is* a reply."
Emit ==
    /\ reply' = 0
    /\ IF error # "none" THEN result' = "error" /\ UNCHANGED <<emitted, given>>
       ELSE IF reply = 0 THEN result' = "none" /\ UNCHANGED <<emitted, given>>
       ELSE /\ result' = "reply"
            /\ emitted' = Append(emitted, Answer)
            /\ given' = given \cup Below(reply)

\* Mutant: the cursor is not moved back.
KeepPosition ==
    /\ buf' = SubSeq(buf, pos + 1, Len(buf))
    /\ len' = IF pos > 0 THEN Len(buf) - pos ELSE len
    /\ UNCHANGED pos

\* Discard the consumed part of the buffer; len is only set when there is one.
DiscardConsumed ==
    /\ buf' = SubSeq(buf, pos + 1, Len(buf))
    /\ pos' = 0
    /\ len' = IF pos > 0 THEN Len(buf) - pos ELSE len

Finish ==
    /\ pc = "parsing" /\ Stuck
    /\ DiscardConsumed
    /\ IF ridx = -1 THEN Emit
       ELSE result' = "none" /\ UNCHANGED <<reply, emitted, given>>
    /\ pc' = "idle"
    /\ UNCHANGED <<forest, fed, fn, error, rstack, ridx, heapVars>>

-----------------------------------------------------------------------------
Next == \/ Feed \/ SetFunctions \/ Destroy \/ GetReply
        \/ ReadType \/ LineItem \/ BulkItem \/ MultiBulkItem \/ TooDeep \/ Finish

Spec == Init /\ [][Next]_vars

-----------------------------------------------------------------------------
(***************************************************************************)
(* What callers without functions may be sent.                             *)
(***************************************************************************)
\* A caller without functions cannot tell an error reply from no reply.
Answerable ==
    \A f \in Forests : "NULL" \in Functions[f] => \A k \in DOMAIN f : f[k].type # "error"

\* The type a parser takes a reply for when it has seen the type byte.
Kind(t) == IF t.type # "nil" THEN t.type ELSE IF t.v = 0 THEN "string" ELSE "array"

\* A reply that meets no error: every type byte is one, and arrays nest in two
\* levels at most.
Readable(t) ==
    /\ t.type # "bad"
    /\ \A k \in 1 .. Len(t.elems) :
         /\ t.elems[k].type # "bad"
         /\ \A j \in 1 .. Len(t.elems[k].elems) :
              /\ t.elems[k].elems[j].type # "bad"
              /\ Kind(t.elems[k].elems[j]) # "array"

\* A protocol error frees what was built through the function set, which is
\* NULL for some callers: their server sends none.
Errorless ==
    \A f \in Forests : "NULL" \in Functions[f] => \A k \in DOMAIN f : Readable(f[k])

-----------------------------------------------------------------------------
(***************************************************************************)
(* Properties.                                                             *)
(***************************************************************************)
\* The reader's fields stay in their types and its cursor in the buffer.
TypeOK ==
    /\ fed \in 0 .. Len(Stream(forest)) /\ fn \in Functions[forest]
    /\ error \in {"none", "type byte", "depth"}
    /\ reply \in -5 .. Len(heap) /\ ridx \in -1 .. 2
    /\ pos \in 0 .. len /\ Len(buf) <= len
    /\ DOMAIN rstack = 0 .. 2
    /\ \A i \in 0 .. 2 : /\ rstack[i].parent \in -1 .. i - 1
                         /\ rstack[i].obj \in -5 .. Len(heap)
    /\ freed \cup given \subseteq 1 .. Len(heap)
    /\ pc \in {"idle", "parsing", "destroyed", "crashed"}
    /\ result \in {"none", "reply", "error"}

\* Whatever the pieces the stream arrives in, the replies handed out are those
\* that were sent, in order: whole, or their types for a caller without
\* functions.
IsReply(answer, t) ==
    answer.value = IF answer.fn = "NULL" THEN [type |-> t.type, v |-> 0, elems |-> <<>>] ELSE t
RepliesAsSent ==
    /\ Len(emitted) <= Len(forest)
    /\ \A k \in DOMAIN emitted : IsReply(emitted[k], forest[k])

\* Until an error is met the caller is told that there is no reply only when no
\* whole reply is left in what it fed.
Complete(n) == Len(Stream(SubSeq(forest, 1, n))) <= fed
HeldBack == pc = "parsing" /\ pc' = "idle" /\ result' = "none" =>
                \/ error' # "none"
                \/ Len(emitted) = Len(forest)
                \/ ~Complete(Len(emitted) + 1)
AnswersPromptly == [][HeldBack]_vars

\* After a protocol error the reader hands out nothing any more, whatever it is
\* fed and asked, and stays in error until it is destroyed.
ErrorIsFinal == [][error # "none" => error' # "none" /\ UNCHANGED <<emitted, given>>]_vars

\* Until an error is met or the reader destroyed every object is in the tree
\* that is being built or in a reply that was handed out; what the reader still
\* names was not freed.  (A reply completed after an error is dropped: it is
\* neither handed out nor freed.)
NothingLost ==
    /\ error = "none" /\ pc # "destroyed" =>
          1 .. Len(heap) = given \cup Below(reply)
    /\ pc = "idle" => Below(reply) \cap (freed \cup given) = {}
    /\ freed \cap given = {}

\* The error itself gives up what was being built: whatever the reader created
\* so far was handed out or is freed when the error is recorded.
ErrorFreesAll ==
    [][error = "none" /\ error' # "none" =>
           1 .. Len(heap') = given' \cup freed']_vars

\* A reader is never made to free an object through a function set it lacks,
\* however much of a reply is built when it is destroyed or meets an error.
NoCrash == pc # "crashed"
=============================================================================
