---------------------------- MODULE RedisContext ----------------------------
(***************************************************************************)
(* redisContext: connecting (net.c), and issuing commands and reading      *)
(* replies over a blocking or a non-blocking socket (hiredis.c), with the  *)
(* server, the network and the descriptors of the process around it.       *)
(*                                                                         *)
(* Command i and reply i are the units 2i-1 and 2i, so that both can be    *)
(* cut in the middle by a write or a read.                                 *)
(***************************************************************************)
EXTENDS Integers, Sequences

CONSTANTS
    Cap,        \* how many units a socket buffer holds, in each direction
    MaxFd,      \* the highest descriptor the process may open
    MayFail,    \* may system calls and the connection fail?
    NullErrors, \* may the server answer an error to a context that has NULL
                \* functions? (its object is NULL as well)
    MaxCmds     \* bound on the number of commands on a connection

ASSUME ContextAssumption ==
    /\ Cap \in Nat \ {0} /\ MaxFd \in Nat \ {0} /\ MaxCmds \in Nat
    /\ MayFail \in BOOLEAN /\ NullErrors \in BOOLEAN

VARIABLES
    life,       \* "none", "live" or "freed"
    flags,      \* of "BLOCK" (REDIS_BLOCK) and "CONNECTED" (REDIS_CONNECTED)
    fd, err, obuf, fn, reader,          \* the other fields of redisContext
    pc,         \* where the running call is; "idle" between two calls
    call,       \* the call that is running
    s,          \* the local of that name in redisContextConnect*
    ret,        \* what the last call returned
    open,       \* the open descriptors of the process
    kept,       \* history: the descriptors that were stored in a context
    badClose,   \* history: was a descriptor closed that was not open?
    issued, toServer, request, served, outbox, toClient, link,
    given       \* history: replies taken out of the reader

ctxVars  == <<life, flags, fd, err, obuf, fn, reader>>
callVars == <<pc, call, s, ret>>
fdVars   == <<open, kept, badClose>>
serverVars == <<request, served, outbox, link>>
netVars  == <<issued, toServer, toClient, serverVars, given>>
vars     == <<ctxVars, callVars, fdVars, netVars>>

Blocking == "BLOCK" \in flags

Least(a, b) == IF a < b THEN a ELSE b

Result(c, ok, reply) == [call |-> c, ok |-> ok, reply |-> reply]

Return(c, ok, reply) == /\ pc' = "idle" /\ call' = "none" /\ s' = 0
                        /\ ret' = Result(c, ok, reply)

-----------------------------------------------------------------------------
(***************************************************************************)
(* The reply reader, as far as the context can tell: ReplyReader has its   *)
(* inside.  An error empties buf but not len, and stays.                   *)
(***************************************************************************)
NoReader == [made |-> FALSE, fn |-> "none", buf |-> <<>>, len |-> 0, error |-> FALSE]

\* __redisCreateReplyReader
Created == IF reader.made THEN reader ELSE [NoReader EXCEPT !.made = TRUE, !.fn = fn]

\* Mutant: what the reader had not used up is forgotten.
FedAfresh(r, units) == [r EXCEPT !.buf = units, !.len = Len(units)]

Fed(r, units) == [r EXCEPT !.buf = r.buf \o units, !.len = Len(r.buf) + Len(units)]

Got(r, ok, aux, taken) == [reader |-> r, ok |-> ok, aux |-> aux, taken |-> taken]

Number(unit) == (unit + 1) \div 2

Without2(r) == [r EXCEPT !.buf = SubSeq(@, 3, Len(@)), !.len = Len(r.buf) - 2]

\* Mutant: an error is forgotten.
EmitAfterError(r) == {Got(Without2(r), TRUE, Number(Head(r.buf)), 1)}

\* The reply at the head of buf is whole.
Emit(r) ==
    IF r.error THEN {Got(Without2(r), FALSE, 0, 0)}
    ELSE {Got(Without2(r), TRUE, Number(Head(r.buf)), 1)}
         \cup (IF r.fn = "NULL" /\ NullErrors THEN {Got(Without2(r), TRUE, 0, 1)}
               ELSE {})

\* Unit 0 and, after an error, the second half of a reply start no reply.
StartsReply(r) == r.buf # <<>> /\ Head(r.buf) % 2 = 1

\* What redisReplyReaderGetReply may come to on reader r.
FromReader(r) ==
    IF r.len = 0 \/ (StartsReply(r) /\ Len(r.buf) = 1) THEN {Got(r, TRUE, 0, 0)}
    ELSE IF StartsReply(r) THEN Emit(r)
    ELSE {Got([r EXCEPT !.buf = <<>>, !.error = TRUE], FALSE, 0, 0)}

-----------------------------------------------------------------------------
(***************************************************************************)
(* Creating, connecting and freeing a context.                             *)
(***************************************************************************)
Init ==
    /\ life = "none" /\ flags = {} /\ fd = 0 /\ err = "none"
    /\ obuf = <<>> /\ fn = "default" /\ reader = NoReader
    /\ pc = "idle" /\ call = "none" /\ s = 0 /\ ret = Result("none", TRUE, 0)
    /\ open = {0} /\ kept = {} /\ badClose = FALSE
    /\ issued = 0 /\ toServer = <<>> /\ request = <<>> /\ served = 0
    /\ outbox = <<>> /\ toClient = <<>> /\ link = "up" /\ given = 0

\* redisConnect, redisConnectNonBlock, redisConnectUnix and
\* redisConnectUnixNonBlock, up to their first system call.
Connect(family, blocking) ==
    /\ pc = "idle" /\ life # "live"
    /\ life' = "live" /\ fd' = 0 /\ err' = "none" /\ obuf' = <<>>
    /\ flags' = IF blocking THEN {"BLOCK"} ELSE {}
    /\ fn' = "default" /\ reader' = NoReader
    /\ pc' = "socket" /\ call' = family /\ s' = 0
    /\ ret' = Result("none", TRUE, 0)
    /\ issued' = 0 /\ toServer' = <<>> /\ request' = <<>> /\ served' = 0
    /\ outbox' = <<>> /\ toClient' = <<>> /\ link' = "up" /\ given' = 0
    /\ UNCHANGED fdVars

Closed(d) == open' = open \ {d} /\ badClose' = (badClose \/ d \notin open)

\* The system call fails: __redisSetError, and the socket is closed.
GiveUp(e) ==
    /\ MayFail
    /\ err' = e /\ Closed(s)
    /\ Return("connect", FALSE, 0)
    /\ UNCHANGED <<life, flags, fd, obuf, fn, reader, kept, netVars>>

Go(next) == pc' = next /\ UNCHANGED <<ctxVars, call, s, ret, fdVars, netVars>>

AfterSocket == IF Blocking THEN (IF call = "tcp" THEN "resolve" ELSE "connect")
                           ELSE "getfl"

\* socket() hands out the lowest free descriptor, or fails.
CreateSocket ==
    /\ pc = "socket"
    /\ \/ \E d \in 0 .. MaxFd :
            /\ d \notin open /\ \A lower \in 0 .. d - 1 : lower \in open
            /\ open' = open \cup {d} /\ s' = d
            /\ pc' = IF call = "tcp" THEN "reuseaddr" ELSE AfterSocket
            /\ UNCHANGED <<ctxVars, call, ret, kept, badClose, netVars>>
       \/ /\ MayFail \/ 0 .. MaxFd \subseteq open
          /\ err' = "io"
          /\ Return("connect", FALSE, 0)
          /\ UNCHANGED <<life, flags, fd, obuf, fn, reader, fdVars, netVars>>

ReuseAddr == pc = "reuseaddr" /\ (Go(AfterSocket) \/ GiveUp("io"))

\* Mutant: who calls redisSetNonBlock closes the socket once more.
GiveUpTwice(e) ==
    /\ MayFail
    /\ err' = e /\ open' = open \ {s} /\ badClose' = TRUE
    /\ Return("connect", FALSE, 0)
    /\ UNCHANGED <<life, flags, fd, obuf, fn, reader, kept, netVars>>

\* redisSetNonBlock closes the socket itself when it fails.
GiveUpNonBlock(e) == GiveUp(e)

GetFlags == pc = "getfl" /\ (Go("setfl") \/ GiveUpNonBlock("io"))

SetFlags == /\ pc = "setfl"
            /\ \/ Go(IF call = "tcp" THEN "resolve" ELSE "connect")
               \/ GiveUpNonBlock("io")

Resolve == pc = "resolve" /\ (Go("connect") \/ GiveUp("other"))

\* The context is handed the descriptor.
Store ==
    /\ fd' = s /\ kept' = kept \cup {s}
    /\ Return("connect", TRUE, 0)
    /\ UNCHANGED <<life, flags, err, obuf, fn, reader, open, badClose, netVars>>

\* connect(): EINPROGRESS is fine on a non-blocking socket.
TryConnect ==
    /\ pc = "connect"
    /\ \/ call = "tcp" /\ Go("nodelay")
       \/ call = "unix" /\ Store
       \/ GiveUp("io")

NoDelay == pc = "nodelay" /\ (Store \/ GiveUp("io"))

\* redisFree: REDIS_CONNECTED is not set by anything.
Free ==
    /\ life = "live" /\ pc = "idle"
    /\ IF "CONNECTED" \in flags THEN Closed(fd) ELSE UNCHANGED <<open, badClose>>
    /\ life' = "freed" /\ obuf' = <<>> /\ reader' = NoReader
    /\ Return("free", TRUE, 0)
    /\ UNCHANGED <<flags, fd, err, fn, kept, netVars>>

Connecting == CreateSocket \/ ReuseAddr \/ GetFlags \/ SetFlags \/ Resolve
              \/ TryConnect \/ NoDelay

-----------------------------------------------------------------------------
(***************************************************************************)
(* Issuing commands and reading replies.  A user looks at err after a      *)
(* connect and uses no context that is not connected, but may well go on   *)
(* after a later error.                                                    *)
(***************************************************************************)
User == life = "live" /\ pc = "idle" /\ fd # 0

SetFunctions(f) ==
    IF reader.made
    THEN Return("setFunctions", FALSE, 0) /\ UNCHANGED fn
    ELSE fn' = f /\ Return("setFunctions", TRUE, 0)

SetReplyObjectFunctions(f) ==
    /\ User /\ SetFunctions(f)
    /\ UNCHANGED <<life, flags, fd, err, obuf, reader, fdVars, netVars>>

\* __redisAppendCommand
Append2 == /\ issued < MaxCmds
           /\ issued' = issued + 1
           /\ obuf' = obuf \o <<2 * issued + 1, 2 * issued + 2>>

AppendCommand ==
    /\ User /\ Append2
    /\ Return("append", TRUE, 0)
    /\ UNCHANGED <<life, flags, fd, err, fn, reader, fdVars, toServer, toClient,
                   serverVars, given>>

\* Mutant: a protocol error is not told to the context.
AskWithoutError(c, r, next) ==
    \E g \in FromReader(r) :
        /\ reader' = g.reader /\ given' = given + g.taken
        /\ UNCHANGED err
        /\ IF g.ok /\ g.aux = 0 /\ Blocking
           THEN pc' = next /\ call' = c /\ UNCHANGED <<s, ret>>
           ELSE Return(c, g.ok, g.aux)

\* Mutant: a non-blocking context waits for its reply, too.
AskOnAndOn(c, r, next) ==
    \E g \in FromReader(r) :
        /\ reader' = g.reader /\ given' = given + g.taken
        /\ err' = IF g.ok THEN err ELSE "protocol"
        /\ IF g.ok /\ g.aux = 0
           THEN pc' = next /\ call' = c /\ UNCHANGED <<s, ret>>
           ELSE Return(c, g.ok, g.aux)

\* redisGetReplyFromReader within redisGetReply: a blocking context goes on
\* when there is no reply yet.
AskReader(c, r, next) ==
    \E g \in FromReader(r) :
        /\ reader' = g.reader /\ given' = given + g.taken
        /\ err' = IF g.ok THEN err ELSE "protocol"
        /\ IF g.ok /\ g.aux = 0 /\ Blocking
           THEN pc' = next /\ call' = c /\ UNCHANGED <<s, ret>>
           ELSE Return(c, g.ok, g.aux)

\* redisCommand, redisCommandArgv
Command ==
    /\ User /\ Append2
    /\ IF Blocking THEN AskReader("command", Created, "flush")
       ELSE Return("command", TRUE, 0) /\ UNCHANGED <<err, reader, given>>
    /\ UNCHANGED <<life, flags, fd, fn, fdVars, toServer, toClient, serverVars>>

\* Nobody asks for a reply on a blocking context that is not owed one.
GetReply ==
    /\ User
    /\ Blocking => given < issued /\ ~reader.error
    /\ AskReader("getReply", Created, "flush")
    /\ UNCHANGED <<life, flags, fd, obuf, fn, fdVars, issued, toServer,
                   toClient, serverVars>>

\* Mutant: the last unit written is sent again.
TailFromLast(n) == SubSeq(obuf, n, Len(obuf))

\* What is left of obuf when n units of it were written.
Tail2(n) == IF n = Len(obuf) THEN <<>> ELSE SubSeq(obuf, n + 1, Len(obuf))

\* redisBufferWrite, returning REDIS_OK or not.  A non-blocking socket may be
\* busy, a blocking one waits for room.
Write(ok) ==
    \/ ok /\ obuf = <<>> /\ UNCHANGED <<obuf, toServer, err>>
    \/ /\ ok /\ link # "reset"
       /\ \E n \in 1 .. Least(Cap - Len(toServer), Len(obuf)) :
            /\ toServer' = toServer \o SubSeq(obuf, 1, n)
            /\ obuf' = Tail2(n)
       /\ UNCHANGED err
    \/ /\ ok /\ obuf # <<>> /\ ~Blocking /\ link # "reset"
       /\ UNCHANGED <<obuf, toServer, err>>
    \/ /\ ~ok /\ obuf # <<>> /\ link # "up"
       /\ err' = "io" /\ UNCHANGED <<obuf, toServer>>

\* redisBufferRead of n units; none is EAGAIN.
ReadUnits(n) ==
    /\ link # "reset"
    /\ n = 0 => ~Blocking /\ toClient = <<>> /\ link = "up"
    /\ toClient' = SubSeq(toClient, n + 1, Len(toClient))

ReaderAfter(n) == IF n = 0 THEN reader ELSE Fed(Created, SubSeq(toClient, 1, n))

ReadFails ==
    /\ \/ link = "reset" /\ err' = "io"
       \/ toClient = <<>> /\ link = "eof" /\ err' = "eof"
    /\ UNCHANGED <<toClient, reader, given>>

\* Mutant: one write is taken to be enough.
AfterOneWrite == "read"

\* wdone ends the write loop.
AfterWrite == IF obuf' = <<>> THEN "read" ELSE "flush"

\* One turn of the write loop of redisGetReply.
Flush ==
    /\ pc = "flush"
    /\ \/ Write(TRUE) /\ pc' = AfterWrite /\ UNCHANGED <<call, s, ret>>
       \/ Write(FALSE) /\ Return(call, FALSE, 0)
    /\ UNCHANGED <<life, flags, fd, fn, reader, fdVars, issued, toClient,
                   serverVars, given>>

\* One turn of its read loop.
Wait ==
    /\ pc = "read"
    /\ \/ \E n \in 0 .. Len(toClient) :
            ReadUnits(n) /\ AskReader(call, ReaderAfter(n), "read")
       \/ ReadFails /\ Return(call, FALSE, 0)
    /\ UNCHANGED <<life, flags, fd, obuf, fn, fdVars, issued, toServer, serverVars>>

\* A signal interrupts the write() or read() that blocks, which is an error
\* like any other.
Interrupted ==
    /\ MayFail /\ link = "up"
    /\ \/ pc = "flush" /\ obuf # <<>> /\ Len(toServer) = Cap
       \/ pc = "read" /\ toClient = <<>>
    /\ err' = "io" /\ Return(call, FALSE, 0)
    /\ UNCHANGED <<life, flags, fd, obuf, fn, reader, fdVars, netVars>>

\* On a non-blocking context, the user's event loop calls these.
BufferWrite ==
    /\ User /\ ~Blocking
    /\ \E ok \in BOOLEAN : Write(ok) /\ Return("write", ok, 0)
    /\ UNCHANGED <<life, flags, fd, fn, reader, fdVars, issued, toClient,
                   serverVars, given>>

BufferRead ==
    /\ User /\ ~Blocking
    /\ \/ /\ \E n \in 0 .. Len(toClient) : ReadUnits(n) /\ reader' = ReaderAfter(n)
          /\ Return("read", TRUE, 0) /\ UNCHANGED <<err, given>>
       \/ ReadFails /\ Return("read", FALSE, 0)
    /\ UNCHANGED <<life, flags, fd, obuf, fn, fdVars, issued, toServer, serverVars>>

-----------------------------------------------------------------------------
(***************************************************************************)
(* The server and the network (external).  The server reads on whatever it *)
(* still has to send.                                                      *)
(***************************************************************************)
Connected == fd # 0 /\ life = "live" /\ link = "up"

Receive ==
    /\ Connected /\ toServer # <<>>
    /\ toServer' = Tail(toServer)
    /\ IF request = <<>>
       THEN request' = <<Head(toServer)>> /\ UNCHANGED <<served, outbox>>
       ELSE /\ request' = <<>> /\ served' = served + 1
            /\ outbox' = outbox \o <<2 * served + 1, 2 * served + 2>>
    /\ UNCHANGED <<ctxVars, callVars, fdVars, issued, toClient, link, given>>

Send ==
    /\ Connected /\ outbox # <<>> /\ Len(toClient) < Cap
    /\ toClient' = Append(toClient, Head(outbox)) /\ outbox' = Tail(outbox)
    /\ UNCHANGED <<ctxVars, callVars, fdVars, issued, toServer, request, served,
                   link, given>>

\* Something that is no reply gets between two replies.
Garble ==
    /\ MayFail /\ Connected /\ outbox = <<>> /\ toClient = <<>>
    /\ ~reader.error /\ \A k \in DOMAIN reader.buf : reader.buf[k] # 0
    /\ toClient' = <<0>>
    /\ UNCHANGED <<ctxVars, callVars, fdVars, issued, toServer, serverVars, given>>

LinkFails ==
    /\ MayFail /\ Connected
    /\ link' \in {"eof", "reset"}
    /\ UNCHANGED <<ctxVars, callVars, fdVars, issued, toServer, request, served,
                   outbox, toClient, given>>

-----------------------------------------------------------------------------
Call == \/ \E family \in {"tcp", "unix"}, blocking \in BOOLEAN : Connect(family, blocking)
        \/ Free \/ \E f \in {"default", "NULL"} : SetReplyObjectFunctions(f)
        \/ AppendCommand \/ Command \/ GetReply \/ BufferRead \/ BufferWrite

Next == Call \/ Connecting \/ Flush \/ Wait \/ Interrupted
        \/ Receive \/ Send \/ Garble \/ LinkFails

Spec == Init /\ [][Next]_vars

\* A call that has begun runs on, the server works through what it receives
\* and the network carries it; no signal has to come to end a wait.
FairSpec == /\ Spec
            /\ WF_vars(Connecting) /\ WF_vars(Flush) /\ WF_vars(Wait)
            /\ WF_vars(Receive) /\ WF_vars(Send)

-----------------------------------------------------------------------------
(***************************************************************************)
(* Properties.                                                             *)
(***************************************************************************)
Units(n) == [k \in 1 .. n |-> k]

\* Every variable stays in its type; a context under connection owns nothing
\* but its socket, and only a blocking context waits.
TypeOK ==
    /\ life \in {"none", "live", "freed"} /\ flags \subseteq {"BLOCK", "CONNECTED"}
    /\ fd \in 0 .. MaxFd /\ s \in 0 .. MaxFd /\ open \subseteq 0 .. MaxFd
    /\ kept \subseteq 0 .. MaxFd /\ badClose \in BOOLEAN
    /\ err \in {"none", "io", "eof", "protocol", "other"}
    /\ Len(toServer) <= Cap /\ Len(toClient) <= Cap /\ Len(request) <= 1
    /\ given <= served /\ served <= issued /\ issued <= MaxCmds
    /\ pc \in {"flush", "read"} => Blocking /\ fd # 0

\* However writes are cut, retried or interrupted, no part of a command is
\* lost, doubled or moved: what the server has taken, what is under way and what
\* waits in obuf is what was issued (hiredis.c:865-887).
CommandsInPlace ==
    life = "live" =>
        Units(2 * served) \o request \o toServer \o obuf = Units(2 * issued)

\* However reads are cut, the same is true of the replies until the reader sees
\* a protocol error; a unit that is no reply is let in between two replies, and
\* moves, but does not change, what comes after it (hiredis.c:835-854).
RepliesInPlace ==
    life = "live" /\ ~reader.error =>
        LET all    == Units(2 * served)
            stream == Units(2 * given) \o reader.buf \o toClient \o outbox
        IN  \/ stream = all
            \/ \E n \in given .. served :
                 stream = Units(2 * n) \o <<0>> \o SubSeq(all, 2 * n + 1, 2 * served)

\* Whichever system call fails, connecting closes what it opened, once, and
\* nothing else: the open descriptors are those contexts were given, the one
\* a connect in progress works on, and those that were there before.
DescriptorsAccounted ==
    /\ open = {0} \cup kept \cup {s}
    /\ ~badClose
    /\ life = "live" /\ pc = "idle" /\ err = "none" => fd \in open \ {0}

\* "When NULL is returned in a blocking context, the error field in the
\* context will be set" (hiredis.c:972-974).
NullMeansError ==
    pc = "idle" /\ Blocking /\ ret.call = "command" /\ ret.reply = 0 => err # "none"

\* A call on a context ends: a blocking one as soon as the server has
\* answered, or the connection has failed.
CallsReturn == (pc # "idle") ~> (pc = "idle")

\* A context that was freed has no descriptor open.
DescriptorClosed == life = "freed" => fd \notin open \ {0}

\* The context implements CommandStream.
Stream == INSTANCE CommandStream WITH
    up <- life = "live" /\ fd # 0, asked <- issued, answered <- served,
    given <- given, reply <- ret.reply

\* Replies come out in the order of their commands, each once and none that
\* the server did not give, whatever fails and however the user goes on.
KeepsStream == Stream!Spec
=============================================================================
