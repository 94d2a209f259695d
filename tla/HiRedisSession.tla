--------------------------- MODULE HiRedisSession ---------------------------
(***************************************************************************)
(* The HiRedis PHP object: a RedisSock driven by one PHP script, one       *)
(* blocking hiredis context, and the Redis server at the other end of it.  *)
(*                                                                         *)
(* The connection is a FIFO in each direction, so the command with         *)
(* sequence number i is answered by the i-th reply and four counters say   *)
(* where every command and reply is:                                       *)
(*                                                                         *)
(*   1..parsed          replies handed to a caller (or lost with a reader) *)
(*   parsed+1..fetched  replies sitting in the reply reader                *)
(*   fetched+1..served  replies in the socket                              *)
(*   served+1..sent     commands in the socket                             *)
(*   sent+1..Len(cmds)  commands in the output buffer                      *)
(*                                                                         *)
(* A command is read or written whole: a partly written command counts as  *)
(* unsent and a partly received reply as unfetched.                        *)
(***************************************************************************)
EXTENDS Integers, Sequences, SequencesExt

CONSTANTS
    Ops,          \* the command methods the script calls, a subset of AllOps
    Failing,      \* the commands (or "MULTI") the server may answer with -ERR
    Malformed,    \* the commands the server refuses to queue in a transaction
    Avoid,        \* the calling patterns the script keeps clear of
    MayClose,     \* may the server drop the connection?
    MayInterrupt, \* may a signal interrupt a read or a write that blocks?
    MaxCmds       \* bound on the number of commands sent over one connection

\* One method stands for all those with the same validator and reply type.
AllOps == {"set", "get", "incr", "setnx", "lrange", "hgetall", "hmget", "delete"}

Patterns == {"staleQueue", "strayExec", "emptyPipelinedTx", "queuedHmget",
             "useAfterClose"}

ASSUME SessionAssumption ==
    /\ Ops \subseteq AllOps
    /\ Failing \subseteq AllOps \cup {"MULTI"}
    /\ Malformed \subseteq AllOps
    /\ Avoid \subseteq Patterns
    /\ MayClose \in BOOLEAN /\ MayInterrupt \in BOOLEAN
    /\ MaxCmds \in Nat

VARIABLES
    sock,       \* "none", "open", or "freed" once close() ran redisFree
    mode,       \* redis_mode
    pipeline,   \* RedisSock.pipeline
    multi,      \* RedisSock.multi
    queue,      \* queue_head .. queue_tail
    lists,      \* the lists that were ever built at multi_head
    head,       \* multi_head: 0 is NULL, otherwise an index of lists
    pc,         \* where the running method is; "idle" between two calls
    at,         \* position in queue of the loop variable c
    out,        \* return_value of the running exec() or send()
    ret,        \* what the last finished method returned
    cmds, sent, served, fetched, parsed, replies, link,     \* the connection
    inTx, txq   \* the server's MULTI state and its queued commands

sockVars   == <<sock, mode, pipeline, multi, queue, lists, head>>
callVars   == <<pc, at, out, ret>>
wireVars   == <<cmds, sent, served, fetched, parsed, replies, link>>
serverVars == <<inTx, txq>>
vars == <<sockVars, callVars, wireVars, serverVars>>

issued == Len(cmds)

(***************************************************************************)
(* Values.  A zval records the command whose reply made it (0: none did).  *)
(* "false" is what an error or a nil becomes, "true" any status, "pairs" an *)
(* array of strings, as many keys as values.                               *)
(***************************************************************************)
Arrays == {"array", "pairs"}
Types  == {"true", "false", "bool", "string", "long", "null", "undef"} \cup Arrays
Leaf   == [of : Nat, type : Types]
Zval   == [of : Nat, type : Types, elems : Seq(Leaf)]

Z(i, t) == [of |-> i, type |-> t, elems |-> <<>>]
Null    == Z(0, "null")      \* return_value as the engine hands it over
Garbage == Z(0, "undef")     \* MAKE_STD_ZVAL leaves the type unset

\* The validator each method passes to REDIS_RUN or redis_varg_run.
Fun == [set |-> "status", get |-> "string", incr |-> "long", setnx |-> "bool",
        lrange |-> "array", hgetall |-> "zip", hmget |-> "closure",
        delete |-> "long"]
Funs == {"status", "string", "long", "bool", "array", "zip", "closure", "skip",
         "NULL"}

Accepts == [status |-> {"true", "false"}, string |-> {"string"},
            long |-> {"long"}, bool |-> {"long"}, array |-> Arrays,
            zip |-> Arrays, closure |-> Arrays, skip |-> Types, NULL |-> {}]

\* What a validator leaves in a zval of type t.
ValidType(fun, t) ==
    CASE t = "undef"                        -> "undef"
      [] t # "undef" /\ t \notin Accepts[fun] ->
            IF fun = "closure" THEN "null" ELSE "false"
      [] OTHER                              -> IF fun = "bool" THEN "bool" ELSE t

\* redis_reply_long_as_bool_ frees the zval it then writes, redis_reply_zip_
\* takes all elements for strings; anything may come of a zval never set.
MayFault(fun, t) == \/ fun = "bool" /\ t # "long"
                    \/ fun = "zip" /\ t = "array"
                    \/ fun # "skip" /\ t = "undef"

\* A queued hmget has no z_args to zip with; a join node has no function.
MustFault(fun, t) == \/ fun = "closure" /\ t \in Arrays
                     \/ fun = "NULL"

Node == [fun : Funs, of : Nat, list : Nat]
N(fun, i) == [fun |-> fun, of |-> i, list |-> 0]

Results == [by : {"self", "FALSE", "TRUE", "run", "exec", "send"},
            items : Seq(Zval)]
Returned(by, items) == [by |-> by, items |-> items]
Self  == Returned("self", <<>>)
False == Returned("FALSE", <<>>)
True  == Returned("TRUE", <<>>)

Reading == pc \in {"run", "multi", "skip", "tab", "send"}

-----------------------------------------------------------------------------
(***************************************************************************)
(* Connecting and closing.                                                 *)
(***************************************************************************)
Init ==
    /\ sock = "none" /\ mode = "DIRECT" /\ pipeline = 0 /\ multi = 0
    /\ queue = <<>> /\ lists = <<>> /\ head = 0
    /\ pc = "idle" /\ at = 0 /\ out = <<>> /\ ret = Self
    /\ cmds = <<>> /\ replies = <<>> /\ link = "up"
    /\ sent = 0 /\ served = 0 /\ fetched = 0 /\ parsed = 0
    /\ inTx = 0 /\ txq = <<>>

\* A zeroed RedisSock on a connection nothing was said over.
Connect ==
    /\ pc = "idle"
    /\ sock' = "open" /\ mode' = "DIRECT" /\ pipeline' = 0 /\ multi' = 0
    /\ queue' = <<>> /\ lists' = <<>> /\ head' = 0
    /\ at' = 0 /\ out' = <<>> /\ ret' = True
    /\ cmds' = <<>> /\ replies' = <<>> /\ link' = "up"
    /\ sent' = 0 /\ served' = 0 /\ fetched' = 0 /\ parsed' = 0
    /\ inTx' = 0 /\ txq' = <<>>
    /\ UNCHANGED pc

\* errstr is set: the object keeps the RedisSock it had, if any.
ConnectFails ==
    /\ pc = "idle"
    /\ ret' = False
    /\ UNCHANGED <<sockVars, pc, at, out, wireVars, serverVars>>

\* redis_sock_get finds no resource: every method returns FALSE.
Unconnected ==
    /\ pc = "idle" /\ sock = "none"
    /\ ret' = False
    /\ UNCHANGED <<sockVars, pc, at, out, wireVars, serverVars>>

\* redis_sock_get gives the context a new reader at the start of each method;
\* what the old one still held is gone.
NewReader == parsed' = fetched

Begin == pc = "idle" /\ sock = "open" /\ NewReader

\* The resource survives close(), its context does not.
Close ==
    /\ Begin
    /\ sock' = "freed" /\ ret' = True
    /\ UNCHANGED <<mode, pipeline, multi, queue, lists, head, pc, at, out,
                   cmds, sent, served, fetched, replies, link, serverVars>>

UseAfterClose ==
    /\ pc = "idle" /\ sock = "freed"
    /\ "useAfterClose" \notin Avoid
    /\ pc' = "dead"
    /\ UNCHANGED <<sockVars, at, out, ret, wireVars, serverVars>>

-----------------------------------------------------------------------------
(***************************************************************************)
(* The methods.                                                            *)
(***************************************************************************)
AppendCommand(c) ==
    /\ issued < MaxCmds
    /\ cmds' = Append(cmds, c)
    /\ UNCHANGED <<sent, served, fetched, replies, link>>

\* Mutant: the skip is forgotten.
EnqueueWithoutSkip(n) ==
    /\ UNCHANGED queue
    /\ lists' = IF head = 0 THEN Append(lists, <<n>>)
                ELSE [lists EXCEPT ![head] = Append(@, n)]

\* Mutant: the list of the transaction is built at its head.
EnqueueReversed(n) ==
    /\ queue' = Append(queue, N("skip", n.of))
    /\ lists' = IF head = 0 THEN Append(lists, <<n>>)
                ELSE [lists EXCEPT ![head] = <<n>> \o @]

\* redis_enqueue with multi set: a skip on the main queue, the command itself
\* at multi_tail, which is NULL exactly when multi_head is.
EnqueueInMulti(n) ==
    /\ queue' = Append(queue, N("skip", n.of))
    /\ lists' = IF head = 0 THEN Append(lists, <<n>>)
                ELSE [lists EXCEPT ![head] = Append(@, n)]

Enqueue(n) ==
    IF multi = 1
    THEN /\ EnqueueInMulti(n)
         /\ head' = IF head = 0 THEN Len(lists) + 1 ELSE head
    ELSE /\ queue' = Append(queue, n)
         /\ UNCHANGED <<lists, head>>

Run(op) ==
    /\ Begin
    /\ "queuedHmget" \in Avoid /\ op = "hmget" => pipeline = 0 /\ multi = 0
    /\ AppendCommand(op)
    /\ Enqueue(N(Fun[op], issued + 1))
    /\ IF pipeline = 0 /\ multi = 0
       THEN pc' = "run" /\ UNCHANGED ret
       ELSE pc' = "idle" /\ ret' = Self
    /\ UNCHANGED <<sock, mode, pipeline, multi, at, out, serverVars>>

\* Mutant: the nodes of earlier direct calls stay in the queue.
PipelineOnStaleQueue ==
    /\ Begin
    /\ IF mode = "DIRECT" /\ pipeline = 0
       THEN pipeline' = 1 /\ ret' = Self
       ELSE UNCHANGED pipeline /\ ret' = False
    /\ UNCHANGED <<queue, sock, mode, multi, lists, head, pc, at, out, cmds,
                   sent, served, fetched, replies, link, serverVars>>

Pipeline ==
    /\ Begin
    /\ IF mode = "DIRECT" /\ pipeline = 0
       THEN pipeline' = 1 /\ queue' = <<>> /\ ret' = Self
       ELSE UNCHANGED <<pipeline, queue>> /\ ret' = False
    /\ UNCHANGED <<sock, mode, multi, lists, head, pc, at, out, cmds, sent,
                   served, fetched, replies, link, serverVars>>

MultiRefused ==
    /\ Begin /\ mode # "DIRECT"
    /\ ret' = False
    /\ UNCHANGED <<sockVars, pc, at, out, cmds, sent, served, fetched,
                   replies, link, serverVars>>

Multi ==
    /\ Begin /\ mode = "DIRECT" /\ pipeline = 0
    /\ "staleQueue" \in Avoid => queue = <<>>
    /\ AppendCommand("MULTI")
    /\ multi' = 1
    /\ pc' = "multi"
    /\ UNCHANGED <<sock, mode, pipeline, queue, lists, head, at, out, ret,
                   serverVars>>

NewTransaction == mode' = "TRANSACTION" /\ head' = 0

\* multi is set before redis_enqueue runs and multi_head cleared after, so the
\* status node goes to the list of the previous transaction.
MultiPipelined ==
    /\ Begin /\ mode = "DIRECT" /\ pipeline = 1
    /\ AppendCommand("MULTI")
    /\ multi' = 1
    /\ EnqueueInMulti(N("status", issued + 1))
    /\ NewTransaction
    /\ ret' = Self
    /\ UNCHANGED <<sock, pipeline, pc, at, out, serverVars>>

ExecAllowed == "strayExec" \in Avoid => mode = "TRANSACTION"

Exec ==
    /\ Begin /\ pipeline = 0 /\ ExecAllowed
    /\ AppendCommand("EXEC")
    /\ out' = <<>>
    /\ at' = 1
    /\ pc' = IF queue = <<>> THEN "tab" ELSE "skip"
    /\ UNCHANGED <<sockVars, ret, serverVars>>

\* Mutant: the list of the transaction is not hung on the join node.
UnlinkedJoin == [fun |-> "NULL", of |-> issued + 1, list |-> 0]

Join == [fun |-> "NULL", of |-> issued + 1, list |-> head]

\* queue_tail is dereferenced without a test.
ExecPipelined ==
    /\ Begin /\ pipeline = 1 /\ ExecAllowed
    /\ "emptyPipelinedTx" \in Avoid => head # 0
    /\ AppendCommand("EXEC")
    /\ IF queue = <<>>
       THEN pc' = "dead" /\ UNCHANGED <<queue, multi, mode, ret>>
       ELSE /\ queue' = Append(queue, Join)
            /\ multi' = 0 /\ mode' = "DIRECT"
            /\ ret' = Self /\ UNCHANGED pc
    /\ UNCHANGED <<sock, pipeline, lists, head, at, out, serverVars>>

SendRefused ==
    /\ Begin
    /\ pipeline = 0 \/ mode # "DIRECT"
    /\ ret' = False
    /\ UNCHANGED <<sockVars, pc, at, out, cmds, sent, served, fetched,
                   replies, link, serverVars>>

Send ==
    /\ Begin /\ pipeline = 1 /\ mode = "DIRECT"
    /\ IF queue = <<>>
       THEN /\ pipeline' = 0 /\ ret' = Returned("send", <<>>)
            /\ UNCHANGED <<pc, at, out>>
       ELSE /\ pc' = "send" /\ at' = 1 /\ out' = <<>>
            /\ UNCHANGED <<pipeline, ret>>
    /\ UNCHANGED <<sock, mode, multi, queue, lists, head, cmds, sent, served,
                   fetched, replies, link, serverVars>>

-----------------------------------------------------------------------------
(***************************************************************************)
(* redisGetReply on the blocking context: try the reader, else write the   *)
(* whole output buffer, then read until the reader has a reply.            *)
(***************************************************************************)
Starved == Reading /\ parsed = fetched   \* the reader has nothing to give

Flush ==
    /\ Starved /\ sent < issued
    /\ sent' = issued
    /\ UNCHANGED <<sockVars, callVars, cmds, served, fetched, parsed, replies,
                   link, serverVars>>

\* Mutant: the reader takes in one reply more than has arrived.
FetchOneTooMany ==
    /\ Starved /\ sent = issued
    /\ \E n \in fetched + 1 .. served + 1 : fetched' = n
    /\ UNCHANGED <<sockVars, callVars, cmds, sent, served, parsed, replies,
                   link, serverVars>>

Fetch ==
    /\ Starved /\ sent = issued
    /\ \E n \in fetched + 1 .. served : fetched' = n
    /\ UNCHANGED <<sockVars, callVars, cmds, sent, served, parsed, replies,
                   link, serverVars>>

\* The zval the reader filled; on an error (EOF, a write to a closed connection,
\* or a call that blocked and was interrupted) the zval keeps what it held, and
\* nobody looks at the status.  The reply to an interrupted call is still to
\* come.
GetReply(z, before) ==
    \/ parsed < fetched /\ parsed' = parsed + 1 /\ z = replies[parsed + 1]
    \/ /\ link = "down" \/ MayInterrupt
       /\ parsed = fetched
       /\ sent < issued \/ fetched = served
       /\ z = before /\ UNCHANGED parsed

Received == UNCHANGED <<cmds, sent, served, fetched, replies, link, serverVars>>

Finish(by, items) == pc' = "idle" /\ ret' = Returned(by, items)
Die == /\ pc' = "dead"
       /\ UNCHANGED <<mode, pipeline, multi, queue, head, at, out, ret>>

Zvals == {replies[i] : i \in 1 .. served} \cup {Null, Garbage}

\* What may come of handing a reply on: items for the caller, or a fault.
Done(items) == [end |-> "done", items |-> items]
Fault       == [end |-> "fault", items |-> <<>>]
Outcomes(results, fault) ==
    {Done(items) : items \in results} \cup (IF fault THEN {Fault} ELSE {})

\* One reply and its validator; redis_reply_skip_ keeps it out of the result.
Validated(fun, z) ==
    IF fun = "skip" THEN <<>> ELSE <<[z EXCEPT !.type = ValidType(fun, @)]>>

PlainOutcomes(fun, z) ==
    Outcomes(IF MustFault(fun, z.type) THEN {} ELSE {Validated(fun, z)},
             MustFault(fun, z.type) \/ MayFault(fun, z.type))

\* EXEC's reply: the validators of the transaction applied to its elements for
\* as long as there are both.  Z_ARRVAL_P of what is not an array faults; a
\* stale zval may also look like an array with nothing left in it.
Pairs(list, elems) ==
    1 .. IF Len(list) <= Len(elems) THEN Len(list) ELSE Len(elems)

Zipped(list, elems) ==
    [k \in Pairs(list, elems) |->
        [elems[k] EXCEPT !.type = ValidType(list[k].fun, @)]]

ExecOutcomes(list, z) ==
    LET must == \E k \in Pairs(list, z.elems) :
                    MustFault(list[k].fun, z.elems[k].type)
        may  == \E k \in Pairs(list, z.elems) :
                    MayFault(list[k].fun, z.elems[k].type)
    IN  CASE z.type = "undef" -> Outcomes({<<>>}, TRUE)
          [] z.type \in Arrays -> Outcomes(IF must THEN {} ELSE
                                            {Zipped(list, z.elems)}, must \/ may)
          [] OTHER            -> Outcomes({}, TRUE)

\* A direct hmget is given its arguments, so the closure can zip.
DirectOutcomes(fun, z) ==
    Outcomes({Validated(fun, z)}, MayFault(fun, z.type))

RunReply ==
    /\ pc = "run"
    /\ \E z \in Zvals :
         /\ GetReply(z, Null)
         /\ \E o \in DirectOutcomes(Fun[cmds[issued]], z) :
              IF o.end = "done" THEN /\ Finish("run", o.items)
                           /\ UNCHANGED <<mode, pipeline, multi, queue, head, at, out>>
                      ELSE Die
    /\ Received
    /\ UNCHANGED <<sock, lists>>

MultiReply ==
    /\ pc = "multi"
    /\ \E z \in Zvals :
         /\ GetReply(z, Garbage)
         /\ \/ /\ z.type \in {"true", "undef"}
               /\ NewTransaction
               /\ pc' = "idle" /\ ret' = Self
               /\ UNCHANGED <<pipeline, multi, queue, at, out>>
            \/ /\ z.type # "true"      \* multi stays set
               /\ pc' = "idle" /\ ret' = False
               /\ UNCHANGED <<mode, pipeline, multi, queue, head, at, out>>
            \/ z.type = "undef" /\ Die
    /\ Received
    /\ UNCHANGED <<sock, lists>>

\* exec(): drop one confirmation per node of the queue.
SkipReply ==
    /\ pc = "skip"
    /\ \E z \in Zvals :
         /\ GetReply(z, Garbage)
         /\ \/ /\ pc' = IF at = Len(queue) THEN "tab" ELSE "skip"
               /\ at' = at + 1
               /\ UNCHANGED <<mode, pipeline, multi, queue, head, out, ret>>
            \/ z.type = "undef" /\ Die
    /\ Received
    /\ UNCHANGED <<sock, lists>>

\* Mutant: the object stays in transaction mode.
EndTransactionKeepsMode == multi' = 0 /\ head' = 0 /\ UNCHANGED mode

EndTransaction == multi' = 0 /\ head' = 0 /\ mode' = "DIRECT"

ListAt(h) == IF h = 0 THEN <<>> ELSE lists[h]

TabReply ==
    /\ pc = "tab"
    /\ \E z \in Zvals :
         /\ GetReply(z, Garbage)
         /\ \E o \in ExecOutcomes(ListAt(head), z) :
              IF o.end = "done"
              THEN /\ Finish("exec", [k \in DOMAIN o.items |->
                                        Z(o.items[k].of, o.items[k].type)])
                   /\ EndTransaction
                   /\ UNCHANGED <<pipeline, queue, at, out>>
              ELSE Die
    /\ Received
    /\ UNCHANGED <<sock, lists>>

\* Mutant: send() stops one node before the end of the queue.
SendStopsEarly(items) ==
    /\ UNCHANGED <<mode, multi, head>>
    /\ IF at + 1 >= Len(queue)
       THEN /\ pipeline' = 0 /\ queue' = <<>>
            /\ Finish("send", out \o items)
            /\ UNCHANGED <<at, out>>
       ELSE /\ at' = at + 1 /\ out' = out \o items
            /\ UNCHANGED <<pipeline, queue, pc, ret>>

\* Mutant: results are put at the front of return_value.
SendPrepends(items) ==
    /\ UNCHANGED <<mode, multi, head>>
    /\ IF at = Len(queue)
       THEN /\ pipeline' = 0 /\ queue' = <<>>
            /\ Finish("send", items \o out)
            /\ UNCHANGED <<at, out>>
       ELSE /\ at' = at + 1 /\ out' = items \o out
            /\ UNCHANGED <<pipeline, queue, pc, ret>>

\* send(): one reply per node; after the last one the pipeline is over.
SendNext(items) ==
    /\ UNCHANGED <<mode, multi, head>>
    /\ IF at = Len(queue)
       THEN /\ pipeline' = 0 /\ queue' = <<>>
            /\ Finish("send", out \o items)
            /\ UNCHANGED <<at, out>>
       ELSE /\ at' = at + 1 /\ out' = out \o items
            /\ UNCHANGED <<pipeline, queue, pc, ret>>

SendReply ==
    LET c == queue[at]
        Joined(z, items) == <<[of |-> z.of, type |-> "array", elems |-> items]>>
    IN  /\ pc = "send"
        /\ \E z \in Zvals :
             /\ GetReply(z, Garbage)
             /\ \E o \in IF c.list = 0 THEN PlainOutcomes(c.fun, z)
                          ELSE ExecOutcomes(lists[c.list], z) :
                  IF o.end = "done" THEN SendNext(IF c.list = 0 THEN o.items
                                        ELSE Joined(z, o.items))
                          ELSE Die
        /\ Received
        /\ UNCHANGED <<sock, lists>>

-----------------------------------------------------------------------------
(***************************************************************************)
(* The server (external): commands in order, one reply each; MULTI opens a *)
(* transaction, EXEC runs it and answers with one element per command.     *)
(***************************************************************************)
Answer == [set |-> "true", get |-> "string", incr |-> "long", setnx |-> "long",
           lrange |-> "array", hgetall |-> "pairs", hmget |-> "array",
           delete |-> "long"]
Answers(op) == {Answer[op]} \cup (IF op \in Failing THEN {"false"} ELSE {})

Reply(type, elems) ==
    replies' = Append(replies, [of |-> served + 1, type |-> type, elems |-> elems])

ServeMulti ==
    \/ inTx = 0 /\ inTx' = 1 /\ txq' = <<>> /\ Reply("true", <<>>)
    \/ (inTx = 1 \/ "MULTI" \in Failing) /\ Reply("false", <<>>) /\ UNCHANGED serverVars

ServeExec ==
    IF inTx = 1
    THEN /\ inTx' = 0 /\ txq' = <<>>
         /\ \E t \in [1 .. Len(txq) -> UNION {Answers(op) : op \in Ops}] :
              /\ \A k \in 1 .. Len(txq) : t[k] \in Answers(cmds[txq[k]])
              /\ Reply("array", [k \in 1 .. Len(txq) |-> [of |-> txq[k], type |-> t[k]]])
    ELSE Reply("false", <<>>) /\ UNCHANGED serverVars

ServeOp(op) ==
    CASE inTx = 1 /\ op \in Malformed -> Reply("false", <<>>) /\ UNCHANGED serverVars
      [] inTx = 1 /\ op \notin Malformed ->
            /\ Reply("true", <<>>)     \* +QUEUED
            /\ txq' = Append(txq, served + 1) /\ UNCHANGED inTx
      [] inTx = 0 -> /\ \E t \in Answers(op) : Reply(t, <<>>)
                  /\ UNCHANGED serverVars

Serve ==
    /\ link = "up" /\ served < sent
    /\ served' = served + 1
    /\ CASE cmds[served + 1] = "MULTI" -> ServeMulti
         [] cmds[served + 1] = "EXEC"  -> ServeExec
         [] OTHER                      -> ServeOp(cmds[served + 1])
    /\ UNCHANGED <<sockVars, callVars, cmds, sent, fetched, parsed, link>>

ServerCloses ==
    /\ MayClose /\ sock = "open" /\ link = "up"
    /\ link' = "down"
    /\ UNCHANGED <<sockVars, callVars, cmds, sent, served, fetched, parsed,
                   replies, serverVars>>

-----------------------------------------------------------------------------
Method == \/ Connect \/ ConnectFails \/ Unconnected \/ Close \/ UseAfterClose
          \/ \E op \in Ops : Run(op)
          \/ Pipeline \/ Multi \/ MultiPipelined \/ MultiRefused
          \/ Exec \/ ExecPipelined \/ Send \/ SendRefused

Progress == \/ Flush \/ Fetch
            \/ RunReply \/ MultiReply \/ SkipReply \/ TabReply \/ SendReply

Next == Method \/ Progress \/ Serve \/ ServerCloses

Spec == Init /\ [][Next]_vars

\* A method in progress runs on (the blocking read returns when data or EOF
\* arrives) and the server works through the commands it has received.  The
\* script owes nobody another call.
FairSpec == Spec /\ WF_vars(Progress) /\ WF_vars(Serve)

-----------------------------------------------------------------------------
(***************************************************************************)
(* Properties.                                                             *)
(***************************************************************************)

QueueType(q, l) ==
    /\ q \in Seq(Node) /\ l \in Seq(Seq(Node))
    /\ \A k \in 1 .. Len(q) : q[k].list \in 0 .. Len(l)

SockType ==
    /\ sock \in {"none", "open", "freed"}
    /\ mode \in {"DIRECT", "TRANSACTION"} /\ pipeline \in {0, 1} /\ multi \in {0, 1}
    /\ QueueType(queue, lists) /\ head \in 0 .. Len(lists)

CallType ==
    /\ pc \in {"idle", "run", "multi", "skip", "tab", "send", "dead"}
    /\ at \in Nat
    /\ pc \in {"skip", "send"} => at \in 1 .. Len(queue)
    /\ out \in Seq(Zval)
    /\ ret \in Results

WireType ==
    /\ cmds \in Seq(AllOps \cup {"MULTI", "EXEC"})
    /\ replies \in Seq(Zval) /\ link \in {"up", "down"}
    /\ parsed \in Nat /\ fetched \in Nat /\ served \in Nat /\ sent \in Nat
    /\ parsed <= fetched /\ fetched <= served /\ served <= sent /\ sent <= issued
    /\ served = Len(replies)
    /\ pc = "run" => issued > 0 /\ cmds[issued] \in AllOps

ServerType ==
    /\ inTx \in {0, 1}
    /\ txq \in Seq(Nat)
    /\ \A k \in 1 .. Len(txq) : txq[k] \in 1 .. served /\ cmds[txq[k]] \in AllOps

\* Every variable stays in its type, the counters in their order, the loop
\* variable inside the queue and every list a node names in existence.
TypeOK == SockType /\ CallType /\ WireType /\ ServerType

\* A blocking read is only begun when the server still owes a reply: the skip
\* loop of exec(), its read of the array and the loop of send() never read one
\* reply more than there are commands.
NeverStarves == Reading /\ link = "up" => parsed < issued

\* The replies a running method has yet to read are all there will ever be:
\* queue nodes and unread replies match one to one, unless the connection was
\* lost and every reply that came has been read.
Due ==
    CASE pc = "skip" -> Len(queue) - at + 2
      [] pc = "send" -> Len(queue) - at + 1
      [] pc \in {"run", "multi", "tab"} -> 1
      [] pc = "idle" /\ (pipeline = 1 \/ mode = "TRANSACTION") -> Len(queue)
      [] OTHER -> 0
QueueMatchesReplies ==
    sock = "open" /\ pc # "dead" =>
        \/ parsed + Due = issued
        \/ link = "down" /\ parsed = served

\* Between two calls the reader and the socket are empty, so the reader that
\* redis_sock_get throws away at the next call takes no reply with it.
NothingThrownAway == pc = "idle" /\ sock = "open" => parsed = served

\* A direct method returns the reply to its own command, or, when the
\* connection is lost, something no reply made.
RunAnswered == pc = "idle" /\ ret.by = "run" =>
                   ret.items[1].of \in {issued, 0}

\* Between two calls client and server agree on whether a transaction is
\* open; one that is only queued in a pipeline is not.
ModesAgree == pc = "idle" /\ sock = "open" /\ link = "up" =>
                  (inTx = 1 <=> mode = "TRANSACTION" /\ pipeline = 0)

\* A value comes back as FALSE only when the server answered its command with
\* an error or a nil: no reply meets the validator of another command.
RefusedByServer(i) ==
    \E j \in 1 .. served :
        \/ j = i /\ replies[j].type = "false"
        \/ \E k \in DOMAIN replies[j].elems :
              replies[j].elems[k] = [of |-> i, type |-> "false"]
NoValueRejected == pc = "idle" =>
    \A k \in DOMAIN ret.items :
        /\ ret.items[k].type \in {"false", "null"} => RefusedByServer(ret.items[k].of)
        /\ \A e \in DOMAIN ret.items[k].elems :
             ret.items[k].elems[e].type \in {"false", "null"} =>
                 RefusedByServer(ret.items[k].elems[e].of)

\* Whatever the script does, even out of step with the server: the replies a
\* method returns are of different commands, in the order of the calls.
Rising(xs) == \A j, k \in DOMAIN xs : j < k =>
                  xs[j].of < xs[k].of \/ xs[j].of = 0 \/ xs[k].of = 0
ResultsInOrder ==
    /\ Rising(ret.items) /\ Rising(out)
    /\ \A k \in DOMAIN ret.items : Rising(ret.items[k].elems)

\* No method follows a NULL pointer, reads a non-array as an array or uses a
\* freed zval or context.
NoFault == pc # "dead"

\* No method waits for the server for ever, not even on a lost connection.
NoEndlessWait == Reading ~> ~Reading

(***************************************************************************)
(* The object implements CommandSession.                                   *)
(***************************************************************************)
CutOff == sock = "open" /\ link = "down"
Usable == sock = "open" /\ link = "up"

Phase == CASE sock = "none"  -> "none"
           [] sock = "freed" -> "closed"
           [] CutOff         -> "lost"
           [] OTHER -> IF mode = "DIRECT"
                       THEN IF pipeline = 1 THEN "pipeline" ELSE "direct"
                       ELSE IF pipeline = 1 THEN "pipelinedMulti" ELSE "multi"

Busy == IF pc \in {"idle", "dead"} \/ CutOff THEN "no"
        ELSE IF pc \in {"skip", "tab"} THEN "exec" ELSE pc

\* The commands of a list.  The MULTI status node that may trail a finished
\* list is none of them.
IdsIn(s, list) == [k \in {j \in DOMAIN list : s[list[j].of] # "MULTI"} |-> list[k].of]

\* What send() owes for a node, and for all nodes of a queue.
Wanted(s, l, n) ==
    IF n.list # 0 THEN <<[tab |-> TRUE, ids |-> IdsIn(s, l[n.list])]>>
    ELSE IF n.fun = "skip" THEN <<>>
    ELSE <<[tab |-> FALSE, ids |-> <<n.of>>]>>
Owed(s, l, q) == FlattenSeq([k \in DOMAIN q |-> Wanted(s, l, q[k])])

Txn   == IF Usable /\ mode = "TRANSACTION" THEN IdsIn(cmds, ListAt(head)) ELSE <<>>
Batch == IF Usable /\ pipeline = 1 THEN Owed(cmds, lists, queue) ELSE <<>>

Promise == INSTANCE CommandSession WITH
    phase <- Phase, busy <- Busy, last <- issued, txn <- Txn, batch <- Batch

\* Whatever the script does, what its calls return is what CommandSession
\* promises: own replies, in the order of the calls, one per command; and when
\* the connection is lost, no other command's reply from a direct call.
KeepsPromise == Promise!Spec
=============================================================================
