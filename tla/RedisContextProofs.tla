------------------------- MODULE RedisContextProofs -------------------------
(***************************************************************************)
(* What holds of RedisContext for every socket capacity, descriptor limit  *)
(* and number of commands, whatever fails.                                 *)
(***************************************************************************)
EXTENDS RedisContext, SequenceTheorems, TLAPS

Opened == {"reuseaddr", "getfl", "setfl", "resolve", "connect", "nodelay"}
Waiting == {"flush", "read"}

(***************************************************************************)
(* Descriptors.  A connect in progress owns s, which is no context's; no   *)
(* other call owns one; a context without a descriptor has an error, which *)
(* keeps its user from using it.                                           *)
(***************************************************************************)
Owned ==
    /\ open = {0} \cup kept \cup {s} /\ ~badClose /\ 0 \notin kept
    /\ pc \in Opened => s # 0 /\ s \notin kept
    /\ pc \notin Opened => s = 0
    /\ flags \subseteq {"BLOCK"}

Usable == life = "live" /\ pc \notin Opened \cup {"socket"} =>
              fd \in kept \/ (fd = 0 /\ err # "none")

DInv == /\ pc \in {"idle", "socket"} \cup Opened \cup Waiting
        /\ Owned /\ Usable
        /\ pc \in Waiting => life = "live" /\ fd # 0

LEMMA InitDescriptors == Init => DInv
  BY DEF Init, DInv, Owned, Usable, Opened, Waiting, Result

LEMMA ConnectDescriptors ==
    ASSUME DInv, NEW family, NEW blocking, Connect(family, blocking)
    PROVE  DInv'
  BY DEF DInv, Owned, Usable, Opened, Waiting, Connect, fdVars

\* A failing system call closes s and leaves the error in the context.
LEMMA GiveUpDescriptors ==
    ASSUME DInv, fd = 0, NEW e, e # "none", pc \in Opened, GiveUp(e)
    PROVE  DInv'
  BY DEF DInv, Owned, Usable, Opened, Waiting, GiveUp, Closed, Return

LEMMA GoDescriptors ==
    ASSUME DInv, pc \in Opened, NEW next, next \in Opened, Go(next)
    PROVE  DInv'
  BY DEF DInv, Owned, Usable, Opened, Waiting, Go, ctxVars, fdVars

LEMMA StoreDescriptors ==
    ASSUME DInv, pc \in Opened, Store
    PROVE  DInv'
  BY DEF DInv, Owned, Usable, Opened, Waiting, Store, Return

LEMMA CreateSocketDescriptors ==
    ASSUME DInv, fd = 0, CreateSocket
    PROVE  DInv'
<1>1. pc = "socket" /\ s = 0 BY DEF CreateSocket, DInv, Owned, Opened
<1>2. AfterSocket \in Opened BY DEF AfterSocket, Opened
<1>3. CASE \E d \in 0 .. MaxFd :
             /\ d \notin open /\ open' = open \cup {d} /\ s' = d
             /\ pc' = IF call = "tcp" THEN "reuseaddr" ELSE AfterSocket
             /\ UNCHANGED <<ctxVars, call, ret, kept, badClose, netVars>>
  <2>1. pc' \in Opened BY <1>2, <1>3 DEF Opened
  <2> QED BY <1>1, <1>3, <2>1 DEF DInv, Owned, Usable, Waiting, Opened, ctxVars
<1>4. CASE /\ err' = "io" /\ Return("connect", FALSE, 0)
           /\ UNCHANGED <<life, flags, fd, obuf, fn, reader, fdVars, netVars>>
  BY <1>1, <1>4 DEF DInv, Owned, Usable, Waiting, Opened, Return, fdVars
<1> QED BY <1>3, <1>4 DEF CreateSocket

\* A context under connection has no descriptor yet.
Unset == pc \in Opened \cup {"socket"} => fd = 0

LEMMA ConnectingDescriptors ==
    ASSUME DInv, Unset, Connecting
    PROVE  DInv'
<1>1. CASE CreateSocket
  BY <1>1, CreateSocketDescriptors DEF Unset, CreateSocket
<1>2. CASE ReuseAddr \/ GetFlags \/ SetFlags \/ Resolve \/ TryConnect \/ NoDelay
  <2>1. pc \in Opened
    BY <1>2 DEF ReuseAddr, GetFlags, SetFlags, Resolve, TryConnect, NoDelay, Opened
  <2>2. \/ \E next \in Opened : Go(next)
        \/ GiveUp("io") \/ GiveUp("other")
        \/ Store
    BY <1>2 DEF ReuseAddr, GetFlags, SetFlags, Resolve, TryConnect, NoDelay,
                GiveUpNonBlock, AfterSocket, Opened
  <2> QED BY <2>1, <2>2, GoDescriptors, GiveUpDescriptors, StoreDescriptors DEF Unset
<1> QED BY <1>1, <1>2 DEF Connecting

\* REDIS_CONNECTED being never set, redisFree closes nothing.
LEMMA FreeDescriptors == ASSUME DInv, Free PROVE DInv'
  BY DEF DInv, Owned, Usable, Opened, Waiting, Free, Return

-----------------------------------------------------------------------------
(***************************************************************************)
(* Calls on a connected context.                                           *)
(***************************************************************************)
Running == User \/ (pc \in Waiting /\ life = "live" /\ fd # 0)

LEMMA CallDescriptors ==
    ASSUME DInv, Running, UNCHANGED <<life, flags, fd, fdVars>>,
           pc' \in {"idle"} \cup Waiting, s' = 0
    PROVE  DInv'
  BY DEF DInv, Owned, Usable, Opened, Waiting, Running, User, fdVars

LEMMA ReturnCall ==
    ASSUME NEW c, NEW ok, NEW reply, Return(c, ok, reply)
    PROVE  pc' = "idle" /\ s' = 0
  BY DEF Return

LEMMA AskCall ==
    ASSUME NEW c, NEW r, NEW next \in Waiting, AskReader(c, r, next), s = 0
    PROVE  pc' \in {"idle"} \cup Waiting /\ s' = 0
  BY DEF AskReader, Return

CallOrWait ==
    \/ \E f \in {"default", "NULL"} : SetReplyObjectFunctions(f)
    \/ AppendCommand \/ Command \/ GetReply \/ BufferRead \/ BufferWrite
    \/ Flush \/ Wait \/ Interrupted

\* What no call and no wait touches.
LEMMA CallFrame ==
    ASSUME DInv, CallOrWait
    PROVE  /\ s = 0 /\ Running /\ UNCHANGED <<life, flags, fd, fdVars>>
           /\ pc' \in {"idle"} \cup Waiting /\ s' = 0
<1> USE DEF CallOrWait
<1>1. s = 0 /\ Running
  BY DEF SetReplyObjectFunctions, AppendCommand, Command, GetReply, BufferRead,
         BufferWrite, Flush, Wait, Interrupted, User, Running, DInv, Owned,
         Opened, Waiting
<1>2. UNCHANGED <<life, flags, fd, fdVars>>
  BY DEF SetReplyObjectFunctions, AppendCommand, Command, GetReply, BufferRead,
         BufferWrite, Flush, Wait, Interrupted
<1>3. pc' \in {"idle"} \cup Waiting /\ s' = 0
  <2>1. CASE \E f \in {"default", "NULL"} : SetReplyObjectFunctions(f)
    BY <2>1, ReturnCall DEF SetReplyObjectFunctions, SetFunctions
  <2>2. CASE AppendCommand BY <2>2, ReturnCall DEF AppendCommand
  <2>3. CASE Command BY <2>3, <1>1, ReturnCall, AskCall DEF Command, Waiting
  <2>4. CASE GetReply BY <2>4, <1>1, AskCall DEF GetReply, Waiting
  <2>5. CASE BufferRead BY <2>5, ReturnCall DEF BufferRead
  <2>6. CASE BufferWrite BY <2>6, ReturnCall DEF BufferWrite
  <2>7. CASE Flush BY <2>7, <1>1, ReturnCall DEF Flush, AfterWrite, Waiting
  <2>8. CASE Wait BY <2>8, <1>1, ReturnCall, AskCall DEF Wait, Waiting
  <2>9. CASE Interrupted BY <2>9, ReturnCall DEF Interrupted
  <2> QED BY <2>1, <2>2, <2>3, <2>4, <2>5, <2>6, <2>7, <2>8, <2>9
<1> QED BY <1>1, <1>2, <1>3

LEMMA CallSteps == ASSUME DInv, CallOrWait PROVE DInv'
  BY CallFrame, CallDescriptors

LEMMA WorldDescriptors ==
    ASSUME DInv, Receive \/ Send \/ Garble \/ LinkFails \/ UNCHANGED vars
    PROVE  DInv'
<1>1. UNCHANGED <<ctxVars, callVars, fdVars>>
  BY DEF Receive, Send, Garble, LinkFails, vars
<1> QED BY <1>1 DEF ctxVars, callVars, fdVars, DInv, Owned, Usable

LEMMA NextDescriptors == ASSUME DInv, Unset, [Next]_vars PROVE DInv'
<1>1. CASE Call
  BY <1>1, ConnectDescriptors, FreeDescriptors, CallSteps DEF Call, CallOrWait
<1>2. CASE Connecting BY <1>2, ConnectingDescriptors
<1>3. CASE Flush \/ Wait \/ Interrupted BY <1>3, CallSteps DEF CallOrWait
<1>4. CASE Receive \/ Send \/ Garble \/ LinkFails \/ UNCHANGED vars
  BY <1>4, WorldDescriptors
<1> QED BY <1>1, <1>2, <1>3, <1>4 DEF Next

LEMMA NextUnset == ASSUME DInv, Unset, [Next]_vars PROVE Unset'
<1>1. CASE Call
  <2>1. CASE \E family \in {"tcp", "unix"}, blocking \in BOOLEAN : Connect(family, blocking)
    BY <2>1 DEF Connect, Unset
  <2>2. CASE ~\E family \in {"tcp", "unix"}, blocking \in BOOLEAN : Connect(family, blocking)
    <3>1. pc' \in {"idle"} \cup Waiting
      <4>1. CASE Free BY <4>1 DEF Free, Return
      <4>2. CASE \E f \in {"default", "NULL"} : SetReplyObjectFunctions(f)
        BY <4>2 DEF SetReplyObjectFunctions, SetFunctions, Return
      <4>3. CASE AppendCommand BY <4>3 DEF AppendCommand, Return
      <4>4. CASE Command BY <4>4 DEF Command, AskReader, Return, Waiting
      <4>5. CASE GetReply BY <4>5 DEF GetReply, AskReader, Return, Waiting
      <4>6. CASE BufferRead BY <4>6 DEF BufferRead, Return
      <4>7. CASE BufferWrite BY <4>7 DEF BufferWrite, Return
      <4> QED BY <1>1, <2>2, <4>1, <4>2, <4>3, <4>4, <4>5, <4>6, <4>7 DEF Call
    <3> QED BY <3>1 DEF Unset, Opened, Waiting
  <2> QED BY <2>1, <2>2
<1>2. CASE Connecting
  <2>1. \/ pc' = "idle"
        \/ pc \in Opened \cup {"socket"} /\ fd' = fd
    BY <1>2 DEF Connecting, CreateSocket, ReuseAddr, GetFlags, SetFlags, Resolve,
                TryConnect, NoDelay, GiveUp, GiveUpNonBlock, Go, Store, Return,
                ctxVars, Opened
  <2> QED BY <2>1 DEF Unset, Opened
<1>3. CASE Flush \/ Wait \/ Interrupted
  <2>1. pc' \in {"idle"} \cup Waiting
    BY <1>3 DEF Flush, Wait, Interrupted, AskReader, AfterWrite, Return, Waiting
  <2> QED BY <2>1 DEF Unset, Opened, Waiting
<1>4. CASE Receive \/ Send \/ Garble \/ LinkFails \/ UNCHANGED vars
  BY <1>4 DEF Receive, Send, Garble, LinkFails, vars, ctxVars, callVars, Unset
<1> QED BY <1>1, <1>2, <1>3, <1>4 DEF Next

(***************************************************************************)
(* Whichever system call of a connect fails, for any number of contexts:   *)
(* what it opened is closed, once, and nothing else is; a context without  *)
(* an error has an open descriptor (net.c:52-167, hiredis.c:768-779).      *)
(***************************************************************************)
THEOREM DescriptorsSafe == Spec => []DescriptorsAccounted
<1>1. Init => DInv /\ Unset BY InitDescriptors DEF Init, Unset, Opened
<1>2. DInv /\ Unset /\ [Next]_vars => (DInv /\ Unset)'
  BY NextDescriptors, NextUnset
<1>3. DInv => DescriptorsAccounted
  BY DEF DInv, Owned, Usable, Opened, DescriptorsAccounted
<1> QED BY <1>1, <1>2, <1>3, PTL DEF Spec

-----------------------------------------------------------------------------
(***************************************************************************)
(* NULL from redisCommand.                                                 *)
(***************************************************************************)
LEMMA AskError ==
    ASSUME NEW c, NEW r, NEW next, next # "idle", AskReader(c, r, next),
           UNCHANGED flags
    PROVE  NullMeansError'
<1>1. PICK g \in FromReader(r) :
        /\ err' = IF g.ok THEN err ELSE "protocol"
        /\ IF g.ok /\ g.aux = 0 /\ Blocking
           THEN pc' = next /\ call' = c /\ UNCHANGED <<s, ret>>
           ELSE Return(c, g.ok, g.aux)
  BY DEF AskReader
<1>2. CASE g.ok /\ g.aux = 0 /\ Blocking BY <1>1, <1>2 DEF NullMeansError
<1>3. CASE ~g.ok BY <1>1, <1>3 DEF NullMeansError, Return, Result
<1>4. CASE g.ok /\ (g.aux # 0 \/ ~Blocking)
  BY <1>1, <1>4 DEF NullMeansError, Return, Result, Blocking
<1> QED BY <1>2, <1>3, <1>4

LEMMA NextNull == ASSUME NullMeansError, [Next]_vars PROVE NullMeansError'
<1> USE DEF NullMeansError, Return, Result, Blocking
<1>1. CASE Call
  <2>1. CASE \E family \in {"tcp", "unix"}, blocking \in BOOLEAN : Connect(family, blocking)
    BY <2>1 DEF Connect
  <2>2. CASE Free BY <2>2 DEF Free
  <2>3. CASE \E f \in {"default", "NULL"} : SetReplyObjectFunctions(f)
    BY <2>3 DEF SetReplyObjectFunctions, SetFunctions
  <2>4. CASE AppendCommand BY <2>4 DEF AppendCommand
  <2>5. CASE Command BY <2>5, AskError DEF Command
  <2>6. CASE GetReply BY <2>6, AskError DEF GetReply
  <2>7. CASE BufferRead BY <2>7 DEF BufferRead
  <2>8. CASE BufferWrite BY <2>8 DEF BufferWrite
  <2> QED BY <1>1, <2>1, <2>2, <2>3, <2>4, <2>5, <2>6, <2>7, <2>8 DEF Call
<1>2. CASE Connecting
  <2>1. Return("connect", FALSE, 0) \/ Return("connect", TRUE, 0)
        \/ pc' # "idle"
    BY <1>2 DEF Connecting, CreateSocket, ReuseAddr, GetFlags, SetFlags, Resolve,
                TryConnect, NoDelay, GiveUp, GiveUpNonBlock, Go, Store, AfterSocket
  <2> QED BY <2>1
<1>3. CASE Flush BY <1>3 DEF Flush, Write, AfterWrite
<1>4. CASE Wait BY <1>4, AskError DEF Wait, ReadFails
<1>5. CASE Interrupted BY <1>5 DEF Interrupted
<1>6. CASE Receive \/ Send \/ Garble \/ LinkFails \/ UNCHANGED vars
  BY <1>6 DEF Receive, Send, Garble, LinkFails, vars, ctxVars, callVars
<1> QED BY <1>1, <1>2, <1>3, <1>4, <1>5, <1>6 DEF Next

(***************************************************************************)
(* A NULL from redisCommand on a blocking context always comes with an     *)
(* error in the context (hiredis.c:972-986), whatever went wrong.          *)
(***************************************************************************)
THEOREM NullSafe == Spec => []NullMeansError
<1>1. Init => NullMeansError BY DEF Init, NullMeansError, Result
<1> QED BY <1>1, NextNull, PTL DEF Spec

-----------------------------------------------------------------------------
(***************************************************************************)
(* One set of object functions.                                            *)
(***************************************************************************)
Fields == {"made", "fn", "buf", "len", "error"}

\* r is a reader that was made with the functions of the context.
Made(r) == DOMAIN r = Fields /\ (r.made => r.fn = fn)

FnInv == Made(reader)

LEMMA CreatedMade == ASSUME FnInv PROVE Made(Created)
  BY DEF FnInv, Made, Created, NoReader, Fields

LEMMA AfterMade == ASSUME FnInv, NEW n PROVE Made(ReaderAfter(n))
  BY CreatedMade DEF FnInv, Made, ReaderAfter, Fed, Fields

LEMMA AskMade ==
    ASSUME NEW c, NEW r, NEW next, Made(r), AskReader(c, r, next), UNCHANGED fn
    PROVE  FnInv'
<1>1. PICK g \in FromReader(r) : reader' = g.reader BY DEF AskReader
<1>2. g.reader \in {r, Without2(r), [r EXCEPT !.buf = <<>>, !.error = TRUE]}
  BY DEF FromReader, Emit, Got
<1>3. /\ Made(Without2(r)) /\ Made([r EXCEPT !.buf = <<>>, !.error = TRUE])
  BY DEF Made, Without2, Fields
<1> QED BY <1>1, <1>2, <1>3 DEF FnInv, Made

LEMMA NextFunctions == ASSUME FnInv, [Next]_vars PROVE FnInv'
<1>1. CASE Call
  <2>1. CASE \E family \in {"tcp", "unix"}, blocking \in BOOLEAN : Connect(family, blocking)
    BY <2>1 DEF Connect, NoReader, FnInv, Made, Fields
  <2>2. CASE Free BY <2>2 DEF Free, NoReader, FnInv, Made, Fields
  <2>3. CASE \E f \in {"default", "NULL"} : SetReplyObjectFunctions(f)
    BY <2>3 DEF SetReplyObjectFunctions, SetFunctions, FnInv, Made
  <2>4. CASE AppendCommand BY <2>4 DEF AppendCommand, FnInv, Made
  <2>5. CASE Command BY <2>5, CreatedMade, AskMade DEF Command, FnInv, Made
  <2>6. CASE GetReply BY <2>6, CreatedMade, AskMade DEF GetReply
  <2>7. CASE BufferRead
    BY <2>7, AfterMade DEF BufferRead, ReadFails, FnInv, Made
  <2>8. CASE BufferWrite BY <2>8 DEF BufferWrite, FnInv, Made
  <2> QED BY <1>1, <2>1, <2>2, <2>3, <2>4, <2>5, <2>6, <2>7, <2>8 DEF Call
<1>2. CASE Connecting
  <2>1. UNCHANGED <<fn, reader>>
    BY <1>2 DEF Connecting, CreateSocket, ReuseAddr, GetFlags, SetFlags, Resolve,
                TryConnect, NoDelay, GiveUp, GiveUpNonBlock, Go, Store, ctxVars
  <2> QED BY <2>1 DEF FnInv, Made
<1>3. CASE Flush BY <1>3 DEF Flush, FnInv, Made
<1>4. CASE Wait
  BY <1>4, AfterMade, AskMade DEF Wait, ReadFails, FnInv, Made
<1>5. CASE Interrupted BY <1>5 DEF Interrupted, FnInv, Made
<1>6. CASE Receive \/ Send \/ Garble \/ LinkFails \/ UNCHANGED vars
  BY <1>6 DEF Receive, Send, Garble, LinkFails, vars, ctxVars, FnInv, Made
<1> QED BY <1>1, <1>2, <1>3, <1>4, <1>5, <1>6 DEF Next

\* The objects of a context are made, and freed, by one set of functions: the
\* reader's is the context's.
OneFunctionSet == reader.made => reader.fn = fn

(***************************************************************************)
(* The reader builds, and frees, the objects of a context with the         *)
(* functions the context has now (hiredis.c:815-828): they cannot change   *)
(* under a reply that is being built.                                      *)
(***************************************************************************)
THEOREM FunctionsSafe == Spec => []OneFunctionSet
<1>1. Init => FnInv BY DEF Init, FnInv, Made, NoReader, Fields
<1>2. FnInv => OneFunctionSet BY DEF FnInv, Made, OneFunctionSet
<1> QED BY <1>1, <1>2, NextFunctions, PTL DEF Spec

-----------------------------------------------------------------------------
(***************************************************************************)
(* Commands stay in place.  Concatenations are no good to reason with, so  *)
(* the invariant says of each buffer which number its first unit follows.  *)
(***************************************************************************)
Follows(x, a) == \A k \in 1 .. Len(x) : x[k] = a + k

CType == /\ issued \in Nat /\ served \in Nat
         /\ request \in Seq(Nat) /\ toServer \in Seq(Nat) /\ obuf \in Seq(Nat)
         /\ Len(request) <= 1

Placed(rq, ts, ob, sv, is) ==
    /\ Follows(rq, 2 * sv)
    /\ Follows(ts, 2 * sv + Len(rq))
    /\ Follows(ob, 2 * sv + Len(rq) + Len(ts))
    /\ 2 * sv + Len(rq) + Len(ts) + Len(ob) = 2 * is

CInv == /\ CType
        /\ life = "live" => Placed(request, toServer, obuf, served, issued)

LEMMA InitPlaced == Init => CInv
<1> SUFFICES ASSUME Init PROVE CInv OBVIOUS
<1>1. <<>> \in Seq(Nat) /\ Len(<<>>) = 0 OBVIOUS
<1> QED BY <1>1 DEF Init, CInv, CType

LEMMA EmptyPlaced == Placed(<<>>, <<>>, <<>>, 0, 0)
  BY DEF Placed, Follows

LEMMA ConnectPlaced ==
    ASSUME NEW family, NEW blocking, Connect(family, blocking)
    PROVE  CInv'
<1>1. <<>> \in Seq(Nat) /\ Len(<<>>) = 0 OBVIOUS
<1> QED BY <1>1, EmptyPlaced DEF Connect, CInv, CType

\* What follows a, followed by what follows that, follows a.
LEMMA FollowsConcat ==
    ASSUME NEW x \in Seq(Nat), NEW y \in Seq(Nat), NEW a \in Nat,
           Follows(x, a), Follows(y, a + Len(x))
    PROVE  /\ x \o y \in Seq(Nat) /\ Len(x \o y) = Len(x) + Len(y)
           /\ Follows(x \o y, a)
<1>1. /\ x \o y \in Seq(Nat) /\ Len(x \o y) = Len(x) + Len(y)
      /\ \A k \in 1 .. Len(x) + Len(y) :
            (x \o y)[k] = IF k <= Len(x) THEN x[k] ELSE y[k - Len(x)]
  BY ConcatProperties
<1> DEFINE n == Len(x)
           m == Len(y)
           z == x \o y
<1>2. n \in Nat /\ m \in Nat BY LenProperties
<1>3. ASSUME NEW k \in 1 .. n + m PROVE z[k] = a + k
  <2>1. CASE k <= n
    <3>1. z[k] = x[k] BY <1>1, <1>3, <2>1
    <3>2. k \in 1 .. n BY <1>2, <1>3, <2>1
    <3> QED BY <3>1, <3>2 DEF Follows
  <2>2. CASE k > n
    <3>1. z[k] = y[k - n] BY <1>1, <1>2, <1>3, <2>2
    <3>2. k - n \in 1 .. m BY <1>2, <1>3, <2>2
    <3>3. y[k - n] = a + n + (k - n) BY <3>2 DEF Follows
    <3> QED BY <1>2, <1>3, <3>1, <3>3
  <2> QED BY <1>2, <1>3, <2>1, <2>2
<1> QED BY <1>1, <1>3 DEF Follows

\* The two parts of a sequence that is cut after its n-th unit.
LEMMA Cut ==
    ASSUME NEW x \in Seq(Nat), NEW n \in 0 .. Len(x)
    PROVE  /\ SubSeq(x, 1, n) \in Seq(Nat) /\ Len(SubSeq(x, 1, n)) = n
           /\ SubSeq(x, n + 1, Len(x)) \in Seq(Nat)
           /\ Len(SubSeq(x, n + 1, Len(x))) = Len(x) - n
           /\ \A k \in 1 .. n : SubSeq(x, 1, n)[k] = x[k]
           /\ \A k \in 1 .. Len(x) - n : SubSeq(x, n + 1, Len(x))[k] = x[n + k]
<1> DEFINE m == Len(x)
           front == SubSeq(x, 1, n)
           rest == SubSeq(x, n + 1, m)
<1>1. m \in Nat /\ n \in Nat /\ n <= m BY LenProperties
<1>2. /\ front \in Seq(Nat) /\ Len(front) = n
      /\ \A k \in 1 .. n : front[k] = x[k]
  <2>1. \A k \in 1 .. n : x[k] \in Nat BY <1>1, ElementOfSeq
  <2>2. /\ front \in Seq(Nat) /\ Len(front) = IF 1 <= n THEN n - 1 + 1 ELSE 0
        /\ \A k \in 1 .. n - 1 + 1 : front[k] = x[1 + k - 1]
    BY <1>1, <2>1, SubSeqProperties
  <2>3. Len(front) = n BY <1>1, <2>2
  <2>4. n - 1 + 1 = n /\ \A k \in 1 .. n : 1 + k - 1 = k BY <1>1
  <2> QED BY <2>2, <2>3, <2>4
<1>3. /\ rest \in Seq(Nat) /\ Len(rest) = m - n
      /\ \A k \in 1 .. m - n : rest[k] = x[n + k]
  <2>1. \A k \in n + 1 .. m : x[k] \in Nat BY <1>1, ElementOfSeq
  <2>2. /\ rest \in Seq(Nat)
        /\ Len(rest) = IF n + 1 <= m THEN m - (n + 1) + 1 ELSE 0
        /\ \A k \in 1 .. m - (n + 1) + 1 : rest[k] = x[n + 1 + k - 1]
    BY <1>1, <2>1, SubSeqProperties
  <2>3. Len(rest) = m - n BY <1>1, <2>2
  <2>4. /\ m - (n + 1) + 1 = m - n
        /\ \A k \in 1 .. m - n : n + 1 + k - 1 = n + k
    BY <1>1
  <2> QED BY <2>2, <2>3, <2>4
<1> QED BY <1>2, <1>3

\* The two parts of what follows a.
LEMMA FollowsCut ==
    ASSUME NEW x \in Seq(Nat), NEW a \in Nat, Follows(x, a), NEW n \in 0 .. Len(x)
    PROVE  /\ SubSeq(x, 1, n) \in Seq(Nat) /\ Len(SubSeq(x, 1, n)) = n
           /\ Follows(SubSeq(x, 1, n), a)
           /\ SubSeq(x, n + 1, Len(x)) \in Seq(Nat)
           /\ Len(SubSeq(x, n + 1, Len(x))) = Len(x) - n
           /\ Follows(SubSeq(x, n + 1, Len(x)), a + n)
<1> DEFINE m == Len(x)
           front == SubSeq(x, 1, n)
           rest == SubSeq(x, n + 1, m)
<1>1. m \in Nat /\ n \in Nat /\ n <= m BY LenProperties
<1>2. /\ front \in Seq(Nat) /\ Len(front) = n
      /\ rest \in Seq(Nat) /\ Len(rest) = m - n
      /\ \A k \in 1 .. n : front[k] = x[k]
      /\ \A k \in 1 .. m - n : rest[k] = x[n + k]
  BY <1>1, Cut
<1>3. Follows(front, a) BY <1>1, <1>2 DEF Follows
<1>4. ASSUME NEW k \in 1 .. m - n PROVE rest[k] = a + n + k
  <2>1. n + k \in 1 .. m BY <1>1, <1>4
  <2>2. x[n + k] = a + (n + k) BY <2>1 DEF Follows
  <2> QED BY <1>1, <1>2, <1>4, <2>2
<1> QED BY <1>2, <1>3, <1>4 DEF Follows

LEMMA Pair ==
    ASSUME NEW i \in Nat
    PROVE  /\ <<2 * i + 1, 2 * i + 2>> \in Seq(Nat)
           /\ Len(<<2 * i + 1, 2 * i + 2>>) = 2
           /\ Follows(<<2 * i + 1, 2 * i + 2>>, 2 * i)
  BY DEF Follows

\* The three buffers as a whole: appending a command, writing n units of it,
\* the server taking the first half of a request, and the second.
LEMMA PlacedAppend ==
    ASSUME NEW rq \in Seq(Nat), NEW ts \in Seq(Nat), NEW ob \in Seq(Nat),
           NEW sv \in Nat, NEW is \in Nat, Placed(rq, ts, ob, sv, is)
    PROVE  Placed(rq, ts, ob \o <<2 * is + 1, 2 * is + 2>>, sv, is + 1)
<1>1. Len(rq) \in Nat /\ Len(ts) \in Nat /\ Len(ob) \in Nat BY LenProperties
<1> DEFINE a == 2 * sv + Len(rq) + Len(ts)
           pair == <<2 * is + 1, 2 * is + 2>>
<1>2. a \in Nat /\ Follows(ob, a) /\ a + Len(ob) = 2 * is BY <1>1 DEF Placed
<1>3. pair \in Seq(Nat) /\ Len(pair) = 2 /\ Follows(pair, a + Len(ob))
  BY <1>2, Pair
<1> HIDE DEF pair, a
<1>4. Follows(ob \o pair, a) /\ Len(ob \o pair) = Len(ob) + 2
  BY <1>2, <1>3, FollowsConcat
<1>5. a + (Len(ob) + 2) = 2 * (is + 1)
  <2> DEFINE o == Len(ob)
  <2>1. a \in Nat /\ o \in Nat /\ a + o = 2 * is BY <1>1, <1>2
  <2> HIDE DEF o
  <2>2. 2 * (is + 1) = 2 * is + 2 OBVIOUS
  <2>3. a + (o + 2) = (a + o) + 2 BY <2>1
  <2> QED BY <2>1, <2>2, <2>3 DEF o
<1>6. a + Len(ob \o pair) = 2 * (is + 1) BY <1>4, <1>5
<1> QED BY <1>4, <1>6 DEF Placed, pair, a

LEMMA PlacedWrite ==
    ASSUME NEW rq \in Seq(Nat), NEW ts \in Seq(Nat), NEW ob \in Seq(Nat),
           NEW sv \in Nat, NEW is \in Nat, Placed(rq, ts, ob, sv, is),
           NEW n \in 1 .. Len(ob)
    PROVE  Placed(rq, ts \o SubSeq(ob, 1, n), SubSeq(ob, n + 1, Len(ob)), sv, is)
<1>1. /\ Len(rq) \in Nat /\ Len(ts) \in Nat /\ Len(ob) \in Nat
      /\ n \in 0 .. Len(ob) /\ n \in Nat
  BY LenProperties
<1> DEFINE a == 2 * sv + Len(rq)
           front == SubSeq(ob, 1, n)
           rest == SubSeq(ob, n + 1, Len(ob))
<1>2. /\ a \in Nat /\ Follows(ts, a) /\ Follows(ob, a + Len(ts))
      /\ a + Len(ts) \in Nat /\ a + Len(ts) + Len(ob) = 2 * is
  BY <1>1 DEF Placed
<1>3. /\ front \in Seq(Nat) /\ Len(front) = n /\ Follows(front, a + Len(ts))
      /\ Len(rest) = Len(ob) - n /\ Follows(rest, a + Len(ts) + n)
  BY <1>1, <1>2, FollowsCut
<1> HIDE DEF front, rest, a
<1>4. Follows(ts \o front, a) /\ Len(ts \o front) = Len(ts) + n
  BY <1>2, <1>3, FollowsConcat
<1>5. a + Len(ts \o front) = a + Len(ts) + n BY <1>1, <1>2, <1>4
<1>6. Follows(rest, a + Len(ts \o front)) BY <1>3, <1>5
<1>7. a + Len(ts \o front) + Len(rest) = 2 * is
  <2>1. a + Len(ts) + n + (Len(ob) - n) = a + Len(ts) + Len(ob) BY <1>1, <1>2
  <2> QED BY <1>2, <1>3, <1>5, <2>1
<1>8. Follows(rq, 2 * sv) BY DEF Placed
<1> QED BY <1>4, <1>6, <1>7, <1>8 DEF Placed, front, rest, a

LEMMA PlacedReceive ==
    ASSUME NEW rq \in Seq(Nat), NEW ts \in Seq(Nat), NEW ob \in Seq(Nat),
           NEW sv \in Nat, NEW is \in Nat, Placed(rq, ts, ob, sv, is),
           Len(rq) <= 1, ts # <<>>
    PROVE  /\ rq = <<>> => Placed(<<Head(ts)>>, Tail(ts), ob, sv, is)
           /\ rq # <<>> => Placed(<<>>, Tail(ts), ob, sv + 1, is)
<1> DEFINE l == Len(rq)
           m == Len(ts)
           o == Len(ob)
           a == 2 * sv + l
           rest == Tail(ts)
<1>1. l \in Nat /\ m \in Nat /\ o \in Nat /\ m # 0 BY LenProperties, EmptySeq
<1>2. /\ a \in Nat /\ Follows(ts, a) /\ Follows(ob, a + m) /\ a + m + o = 2 * is
  BY <1>1 DEF Placed
<1>3. /\ rq = <<>> => a = 2 * sv
      /\ rq # <<>> => a + 1 = 2 * (sv + 1)
  <2>1. rq = <<>> => l = 0 OBVIOUS
  <2>2. rq # <<>> => l # 0 BY EmptySeq
  <2>3. l <= 1 OBVIOUS
  <2> HIDE DEF l
  <2>4. l # 0 => l = 1 BY <1>1, <2>3
  <2>5. 2 * sv + 1 + 1 = 2 * (sv + 1) /\ 2 * sv + 0 = 2 * sv OBVIOUS
  <2> QED BY <2>1, <2>2, <2>4, <2>5
<1>4. rest = SubSeq(ts, 2, m) BY <1>1, TailIsSubSeq
<1>5. 1 \in 0 .. m /\ 1 + 1 = 2 BY <1>1
<1>6. Len(SubSeq(ts, 1 + 1, m)) = m - 1 /\ Follows(SubSeq(ts, 1 + 1, m), a + 1)
  BY <1>2, <1>5, FollowsCut
<1>7. Len(rest) = m - 1 /\ Follows(rest, a + 1) BY <1>4, <1>5, <1>6
<1>8. Head(ts) = a + 1
  <2>1. 1 \in 1 .. m BY <1>1
  <2>2. ts[1] = a + 1 BY <1>2, <2>1 DEF Follows
  <2> QED BY <2>2
<1> HIDE DEF rest, a
<1>9. a + 1 + (m - 1) = a + m BY <1>1, <1>2
<1>10. CASE rq = <<>>
  <2>1. a = 2 * sv BY <1>3, <1>10
  <2>2. Follows(<<Head(ts)>>, 2 * sv) /\ Len(<<Head(ts)>>) = 1
    BY <1>8, <2>1 DEF Follows
  <2>3. Follows(rest, 2 * sv + 1) BY <1>7, <2>1
  <2>4. 2 * sv + 1 + Len(rest) = a + m BY <1>7, <1>9, <2>1
  <2> QED BY <1>2, <1>10, <2>2, <2>3, <2>4 DEF Placed, rest
<1>11. CASE rq # <<>>
  <2>1. a + 1 = 2 * (sv + 1) /\ 2 * (sv + 1) + 0 = 2 * (sv + 1) BY <1>3, <1>11
  <2>2. Len(<<>>) = 0 /\ Follows(<<>>, 2 * (sv + 1)) BY DEF Follows
  <2>3. Follows(rest, 2 * (sv + 1) + 0) BY <1>7, <2>1
  <2>4. 2 * (sv + 1) + 0 + Len(rest) = a + m BY <1>7, <1>9, <2>1
  <2> QED BY <1>2, <1>11, <2>2, <2>3, <2>4 DEF Placed, rest
<1> QED BY <1>10, <1>11

LEMMA AppendPlaced ==
    ASSUME CInv, Append2, UNCHANGED <<life, request, toServer, served>>
    PROVE  CInv'
<1>1. /\ issued' = issued + 1
      /\ obuf' = obuf \o <<2 * issued + 1, 2 * issued + 2>>
  BY DEF Append2
<1>2. obuf' \in Seq(Nat) BY <1>1, Pair, ConcatProperties DEF CInv, CType
<1>3. life = "live" => Placed(request, toServer, obuf', served, issued')
  BY <1>1, PlacedAppend DEF CInv, CType
<1>4. issued' \in Nat BY <1>1 DEF CInv, CType
<1> QED BY <1>2, <1>3, <1>4 DEF CInv, CType

LEMMA WritePlaced ==
    ASSUME CInv, NEW ok, Write(ok), UNCHANGED <<life, request, served, issued>>
    PROVE  CInv'
<1>1. CASE UNCHANGED <<obuf, toServer>> BY <1>1 DEF CInv, CType
<1>2. CASE \E n \in 1 .. Least(Cap - Len(toServer), Len(obuf)) :
             /\ toServer' = toServer \o SubSeq(obuf, 1, n)
             /\ obuf' = Tail2(n)
  <2>1. PICK n \in 1 .. Least(Cap - Len(toServer), Len(obuf)) :
             /\ toServer' = toServer \o SubSeq(obuf, 1, n)
             /\ obuf' = Tail2(n)
    BY <1>2
  <2>2. /\ toServer \in Seq(Nat) /\ obuf \in Seq(Nat) /\ Len(obuf) \in Nat
        /\ Len(toServer) \in Nat /\ Cap \in Nat
    BY LenProperties, ContextAssumption DEF CInv, CType
  <2>3. n \in 1 .. Len(obuf) /\ n \in Nat BY <2>1, <2>2 DEF Least
  <2>4. obuf' = SubSeq(obuf, n + 1, Len(obuf))
    <3>1. CASE n = Len(obuf)
      BY <2>1, <2>2, <2>3, <3>1, SubSeqEmpty DEF Tail2
    <3> QED BY <2>1, <3>1 DEF Tail2
  <2>5. toServer' \in Seq(Nat) /\ obuf' \in Seq(Nat)
    <3>1. /\ \A k \in 1 .. n : obuf[k] \in Nat
          /\ \A k \in n + 1 .. Len(obuf) : obuf[k] \in Nat
      BY <2>2, <2>3, ElementOfSeq
    <3>2. SubSeq(obuf, 1, n) \in Seq(Nat) BY <2>3, <3>1, SubSeqProperties
    <3>3. SubSeq(obuf, n + 1, Len(obuf)) \in Seq(Nat)
      BY <2>2, <2>3, <3>1, SubSeqProperties
    <3> QED BY <2>1, <2>2, <2>4, <3>2, <3>3, ConcatProperties
  <2>6. life = "live" => Placed(request, toServer', obuf', served, issued)
    BY <2>1, <2>3, <2>4, PlacedWrite DEF CInv, CType
  <2> QED BY <2>2, <2>5, <2>6 DEF CInv, CType
<1> QED BY <1>1, <1>2 DEF Write

LEMMA ReceivePlaced == ASSUME CInv, Receive PROVE CInv'
<1>1. /\ toServer # <<>> /\ toServer' = Tail(toServer) /\ life = "live"
      /\ UNCHANGED <<life, obuf, issued>>
  BY DEF Receive, Connected, ctxVars
<1>2. /\ CType /\ Placed(request, toServer, obuf, served, issued)
  BY <1>1 DEF CInv
<1>3. toServer' \in Seq(Nat) /\ Head(toServer) \in Nat
  BY <1>1, <1>2, HeadTailProperties DEF CType
<1>4. /\ request = <<>> => Placed(<<Head(toServer)>>, Tail(toServer), obuf, served, issued)
      /\ request # <<>> => Placed(<<>>, Tail(toServer), obuf, served + 1, issued)
  BY <1>1, <1>2, PlacedReceive DEF CType
<1>5. CASE request = <<>>
  <2>1. request' = <<Head(toServer)>> /\ served' = served BY <1>5 DEF Receive
  <2>2. request' \in Seq(Nat) /\ Len(request') = 1 BY <1>3, <2>1
  <2> QED BY <1>1, <1>2, <1>3, <1>4, <1>5, <2>1, <2>2 DEF CInv, CType
<1>6. CASE request # <<>>
  <2>1. request' = <<>> /\ served' = served + 1 BY <1>6 DEF Receive
  <2>2. request' \in Seq(Nat) /\ Len(request') = 0 /\ served' \in Nat
    BY <1>2, <2>1 DEF CType
  <2> QED BY <1>1, <1>2, <1>3, <1>4, <1>6, <2>1, <2>2 DEF CInv, CType
<1> QED BY <1>5, <1>6

LEMMA NextPlaced == ASSUME CInv, [Next]_vars PROVE CInv'
<1>1. CASE Call
  <2>1. CASE \E family \in {"tcp", "unix"}, blocking \in BOOLEAN : Connect(family, blocking)
    BY <2>1, ConnectPlaced
  <2>2. CASE Free
    <3>1. <<>> \in Seq(Nat) OBVIOUS
    <3> QED BY <2>2, <3>1 DEF Free, CInv, CType, netVars, serverVars
  <2>3. CASE AppendCommand BY <2>3, AppendPlaced DEF AppendCommand, serverVars
  <2>4. CASE Command BY <2>4, AppendPlaced DEF Command, serverVars
  <2>5. CASE BufferWrite BY <2>5, WritePlaced DEF BufferWrite, serverVars
  <2>6. CASE \/ \E f \in {"default", "NULL"} : SetReplyObjectFunctions(f)
             \/ GetReply \/ BufferRead
    <3>1. UNCHANGED <<life, obuf, issued, toServer, served, request>>
      BY <2>6 DEF SetReplyObjectFunctions, GetReply, BufferRead, netVars, serverVars
    <3> QED BY <3>1 DEF CInv, CType
  <2> QED BY <1>1, <2>1, <2>2, <2>3, <2>4, <2>5, <2>6 DEF Call
<1>2. CASE Flush BY <1>2, WritePlaced DEF Flush, serverVars
<1>3. CASE Receive BY <1>3, ReceivePlaced
<1>4. CASE Connecting \/ Wait \/ Interrupted \/ Send \/ Garble \/ LinkFails
           \/ UNCHANGED vars
  <2>1. UNCHANGED <<life, obuf, issued, toServer, served, request>>
    <3>1. CASE Connecting
      BY <3>1 DEF Connecting, CreateSocket, ReuseAddr, GetFlags, SetFlags, Resolve,
             TryConnect, NoDelay, GiveUp, GiveUpNonBlock, Go, Store, ctxVars,
             netVars, serverVars
    <3>2. CASE Wait \/ Interrupted BY <3>2 DEF Wait, Interrupted, netVars, serverVars
    <3>3. CASE Send \/ Garble \/ LinkFails \/ UNCHANGED vars
      BY <3>3 DEF Send, Garble, LinkFails, vars, ctxVars, netVars, serverVars
    <3> QED BY <1>4, <3>1, <3>2, <3>3
  <2> QED BY <2>1 DEF CInv, CType
<1> QED BY <1>1, <1>2, <1>3, <1>4 DEF Next

LEMMA UnitsProperties ==
    ASSUME NEW n \in Nat
    PROVE  /\ Units(n) \in Seq(Nat) /\ Len(Units(n)) = n
           /\ \A k \in 1 .. n : Units(n)[k] = k
           /\ Follows(Units(n), 0)
  BY DEF Units, Follows

\* Appending what follows yields a longer beginning of the numbers.
LEMMA UnitsConcat ==
    ASSUME NEW n \in Nat, NEW x \in Seq(Nat), Follows(x, n)
    PROVE  Units(n) \o x = Units(n + Len(x))
<1> DEFINE m == n + Len(x)
           u == Units(n)
           z == u \o x
<1>1. Len(x) \in Nat /\ m \in Nat BY LenProperties
<1>2. u \in Seq(Nat) /\ Len(u) = n /\ Follows(u, 0) BY UnitsProperties
<1> HIDE DEF u
<1>3. z \in Seq(Nat) /\ Len(z) = m /\ Follows(z, 0)
  <2>1. 0 + Len(u) = n BY <1>2
  <2>2. Follows(x, 0 + Len(u)) BY <2>1
  <2> QED BY <1>2, <2>2, FollowsConcat
<1>4. Units(m) \in Seq(Nat) /\ Len(Units(m)) = m /\ \A k \in 1 .. m : Units(m)[k] = k
  BY <1>1, UnitsProperties
<1> HIDE DEF z, m
<1>5. \A k \in 1 .. m : z[k] = 0 + k BY <1>3 DEF Follows
<1>6. ASSUME NEW k \in 1 .. m PROVE z[k] = Units(m)[k]
  BY <1>1, <1>4, <1>5
<1>7. z = Units(m) BY <1>3, <1>4, <1>6, SeqEqual
<1> QED BY <1>7 DEF u, m, z

LEMMA PlacedInOrder == CInv => CommandsInPlace
<1> SUFFICES ASSUME CInv, life = "live"
             PROVE  Units(2 * served) \o request \o toServer \o obuf = Units(2 * issued)
  BY DEF CommandsInPlace
<1>1. /\ toServer \in Seq(Nat) /\ obuf \in Seq(Nat) /\ request \in Seq(Nat)
      /\ served \in Nat /\ issued \in Nat /\ Len(toServer) \in Nat
      /\ Len(request) \in Nat
  BY LenProperties DEF CInv, CType
<1> DEFINE a == 2 * served
           b == a + Len(request)
           c == b + Len(toServer)
<1>2. a \in Nat /\ b \in Nat /\ c \in Nat BY <1>1
<1>3. /\ Follows(request, a) /\ Follows(toServer, b) /\ Follows(obuf, c)
      /\ c + Len(obuf) = 2 * issued
  BY DEF CInv, Placed
<1>4. Units(a) \o request = Units(b) BY <1>1, <1>2, <1>3, UnitsConcat
<1>5. Units(b) \o toServer = Units(c) BY <1>1, <1>2, <1>3, UnitsConcat
<1>6. Units(c) \o obuf = Units(2 * issued) BY <1>1, <1>2, <1>3, UnitsConcat
<1> QED BY <1>4, <1>5, <1>6

(***************************************************************************)
(* Whatever partial writes, full buffers, interruptions and failures do to *)
(* redisBufferWrite, and whatever its caller does then, the server gets    *)
(* the commands as they were issued (hiredis.c:865-887, 938-963).          *)
(***************************************************************************)
THEOREM CommandsSafe == Spec => []CommandsInPlace
<1> QED BY InitPlaced, NextPlaced, PlacedInOrder, PTL DEF Spec

-----------------------------------------------------------------------------
(***************************************************************************)
(* The replies of RedisContext, its types, and its refinement of           *)
(* CommandStream, for every socket capacity, descriptor limit and number   *)
(* of commands.                                                            *)
(***************************************************************************)

(***************************************************************************)
(* The stream of replies, numbered from 1 on, is 1, 2, 3, ... unless some- *)
(* thing that is no reply, a 0, stands at position z of it.                *)
(***************************************************************************)
Unit(z, k) == IF z = 0 \/ k < z THEN k ELSE IF k = z THEN 0 ELSE k - 1

Extra(z) == IF z = 0 THEN 0 ELSE 1

\* x stands in the stream from position a + 1 on.
At(x, a, z) == \A k \in 1 .. Len(x) : x[k] = Unit(z, a + k)

\* The stray unit stands before the first half of a reply to come.
Between(z, g, sv) == z = 0 \/ \E n \in g .. sv : z = 2 * n + 1

\* What the reader holds, what is in the socket and what the server has yet to
\* send are the stream from the replies that were given to those that are served.
Arranged(b, tc, ob, g, sv, z) ==
    /\ Between(z, g, sv)
    /\ At(b, 2 * g, z)
    /\ At(tc, 2 * g + Len(b), z)
    /\ At(ob, 2 * g + Len(b) + Len(tc), z)
    /\ 2 * g + Len(b) + Len(tc) + Len(ob) = 2 * sv + Extra(z)

InPlace(r, tc, ob, g, sv) ==
    ~r.error => \E z \in Nat : Arranged(r.buf, tc, ob, g, sv, z)

Reader == [made : BOOLEAN, fn : {"none", "default", "NULL"}, buf : Seq(Nat),
           len : Nat, error : BOOLEAN]

(***************************************************************************)
(* Pieces of the stream.                                                   *)
(***************************************************************************)
LEMMA AtConcat ==
    ASSUME NEW x \in Seq(Nat), NEW y \in Seq(Nat), NEW a \in Nat, NEW z,
           At(x, a, z), At(y, a + Len(x), z)
    PROVE  /\ x \o y \in Seq(Nat) /\ Len(x \o y) = Len(x) + Len(y)
           /\ At(x \o y, a, z)
<1> DEFINE n == Len(x)
           m == Len(y)
           u == x \o y
<1>1. /\ u \in Seq(Nat) /\ Len(u) = n + m
      /\ \A k \in 1 .. n + m : u[k] = IF k <= n THEN x[k] ELSE y[k - n]
  BY ConcatProperties
<1>2. n \in Nat /\ m \in Nat BY LenProperties
<1>3. ASSUME NEW k \in 1 .. n + m PROVE u[k] = Unit(z, a + k)
  <2>1. CASE k <= n
    BY <1>1, <1>2, <1>3, <2>1 DEF At
  <2>2. CASE k > n
    <3>1. u[k] = y[k - n] /\ k - n \in 1 .. m BY <1>1, <1>2, <1>3, <2>2
    <3>2. y[k - n] = Unit(z, a + n + (k - n)) BY <3>1 DEF At
    <3>3. a + n + (k - n) = a + k BY <1>2, <1>3
    <3> QED BY <3>1, <3>2, <3>3
  <2> QED BY <1>2, <1>3, <2>1, <2>2
<1> QED BY <1>1, <1>3 DEF At

LEMMA AtCut ==
    ASSUME NEW x \in Seq(Nat), NEW a \in Nat, NEW z, At(x, a, z),
           NEW n \in 0 .. Len(x)
    PROVE  /\ SubSeq(x, 1, n) \in Seq(Nat) /\ Len(SubSeq(x, 1, n)) = n
           /\ At(SubSeq(x, 1, n), a, z)
           /\ SubSeq(x, n + 1, Len(x)) \in Seq(Nat)
           /\ Len(SubSeq(x, n + 1, Len(x))) = Len(x) - n
           /\ At(SubSeq(x, n + 1, Len(x)), a + n, z)
<1> DEFINE m == Len(x)
           front == SubSeq(x, 1, n)
           rest == SubSeq(x, n + 1, m)
<1>1. m \in Nat /\ n \in Nat /\ n <= m BY LenProperties
<1>2. /\ front \in Seq(Nat) /\ Len(front) = n
      /\ rest \in Seq(Nat) /\ Len(rest) = m - n
      /\ \A k \in 1 .. n : front[k] = x[k]
      /\ \A k \in 1 .. m - n : rest[k] = x[n + k]
  BY <1>1, Cut
<1>3. At(front, a, z) BY <1>1, <1>2 DEF At
<1>4. ASSUME NEW k \in 1 .. m - n PROVE rest[k] = Unit(z, a + n + k)
  <2>1. n + k \in 1 .. m BY <1>1, <1>4
  <2>2. x[n + k] = Unit(z, a + (n + k)) BY <2>1 DEF At
  <2>3. a + (n + k) = a + n + k BY <1>1, <1>4
  <2> QED BY <1>2, <1>4, <2>2, <2>3
<1>5. At(rest, a + n, z) BY <1>2, <1>4 DEF At
<1> QED BY <1>2, <1>3, <1>5

\* A piece of the stream with the stray unit out of reach.
LEMMA AtPlain ==
    ASSUME NEW x \in Seq(Nat), NEW a \in Nat, NEW z \in Nat,
           z = 0 \/ a + Len(x) < z
    PROVE  At(x, a, z) <=> Follows(x, a)
<1>1. Len(x) \in Nat BY LenProperties
<1>2. \A k \in 1 .. Len(x) : Unit(z, a + k) = a + k BY <1>1 DEF Unit
<1> QED BY <1>2 DEF At, Follows

(***************************************************************************)
(* What the steps do to the stream: a read of n units, a unit sent, a      *)
(* reply served, and something that is no reply.                           *)
(***************************************************************************)
LEMMA ArrangedRead ==
    ASSUME NEW b \in Seq(Nat), NEW tc \in Seq(Nat), NEW ob \in Seq(Nat),
           NEW g \in Nat, NEW sv \in Nat, NEW z \in Nat,
           Arranged(b, tc, ob, g, sv, z), NEW n \in 0 .. Len(tc)
    PROVE  Arranged(b \o SubSeq(tc, 1, n), SubSeq(tc, n + 1, Len(tc)), ob, g, sv, z)
<1> DEFINE front == SubSeq(tc, 1, n)
           rest == SubSeq(tc, n + 1, Len(tc))
           a == 2 * g
           l == Len(b)
           m == Len(tc)
<1>1. l \in Nat /\ m \in Nat /\ Len(ob) \in Nat /\ n \in Nat /\ a \in Nat
  BY LenProperties
<1>2. /\ front \in Seq(Nat) /\ Len(front) = n /\ At(front, a + l, z)
      /\ rest \in Seq(Nat) /\ Len(rest) = m - n /\ At(rest, a + l + n, z)
  BY SMTT(30), <1>1, AtCut DEF Arranged
<1> HIDE DEF front, rest
<1>3. b \o front \in Seq(Nat) /\ Len(b \o front) = l + n /\ At(b \o front, a, z)
  BY <1>1, <1>2, AtConcat DEF Arranged
<1>4. a + (l + n) = a + l + n /\ a + (l + n) + (m - n) = a + l + m BY <1>1
<1>5. At(ob, a + l + m, z) /\ a + l + m + Len(ob) = 2 * sv + Extra(z)
      /\ Between(z, g, sv)
  BY DEF Arranged
<1>6. Arranged(b \o front, rest, ob, g, sv, z)
  BY <1>2, <1>3, <1>4, <1>5 DEF Arranged
<1> QED BY <1>6 DEF front, rest

LEMMA ArrangedSend ==
    ASSUME NEW b \in Seq(Nat), NEW tc \in Seq(Nat), NEW ob \in Seq(Nat),
           NEW g \in Nat, NEW sv \in Nat, NEW z \in Nat,
           Arranged(b, tc, ob, g, sv, z), ob # <<>>
    PROVE  Arranged(b, Append(tc, Head(ob)), Tail(ob), g, sv, z)
<1> DEFINE a == 2 * g + Len(b)
           m == Len(tc)
           tc2 == Append(tc, Head(ob))
           ob2 == Tail(ob)
<1>1. m \in Nat /\ Len(ob) \in Nat \ {0} /\ a \in Nat
  BY LenProperties, EmptySeq
<1>2. Head(ob) \in Nat /\ Head(ob) = ob[1] BY <1>1, HeadTailProperties
<1>3. At(tc, a, z) /\ At(ob, a + m, z) /\ a + m + Len(ob) = 2 * sv + Extra(z)
      /\ Between(z, g, sv) /\ At(b, 2 * g, z)
  BY DEF Arranged
<1>4. /\ Len(tc2) = m + 1 /\ tc2[m + 1] = ob[1]
      /\ \A k \in 1 .. m : tc2[k] = tc[k]
  BY <1>2, AppendProperties
<1>5. ob[1] = Unit(z, a + m + 1) BY <1>1, <1>3 DEF At
<1>6. At(tc2, a, z)
  <2>1. ASSUME NEW k \in 1 .. m + 1 PROVE tc2[k] = Unit(z, a + k)
    <3>1. CASE k = m + 1
      <4>1. a + (m + 1) = a + m + 1 BY <1>1
      <4> QED BY <1>4, <1>5, <3>1, <4>1
    <3>2. CASE k \in 1 .. m BY <1>3, <1>4, <3>2 DEF At
    <3>3. k = m + 1 \/ k \in 1 .. m BY <1>1, <2>1
    <3> QED BY <3>1, <3>2, <3>3
  <2> QED BY <1>4, <2>1 DEF At
<1>7. /\ Len(ob2) = Len(ob) - 1
      /\ \A k \in 1 .. Len(ob) - 1 : ob2[k] = ob[k + 1]
  BY <1>1, HeadTailProperties
<1>8. At(ob2, a + (m + 1), z)
  <2>1. ASSUME NEW k \in 1 .. Len(ob) - 1 PROVE ob2[k] = Unit(z, a + (m + 1) + k)
    <3>1. k + 1 \in 1 .. Len(ob) BY <1>1, <2>1
    <3>2. ob[k + 1] = Unit(z, a + m + (k + 1)) BY <1>3, <3>1 DEF At
    <3>3. a + m + (k + 1) = a + (m + 1) + k BY <1>1, <2>1
    <3> QED BY <1>7, <2>1, <3>2, <3>3
  <2> QED BY <1>7, <2>1 DEF At
<1>9. a + (m + 1) + (Len(ob) - 1) = a + m + Len(ob) BY <1>1
<1> HIDE DEF tc2, ob2
<1>10. Arranged(b, tc2, ob2, g, sv, z)
  BY <1>3, <1>4, <1>6, <1>7, <1>8, <1>9 DEF Arranged
<1> QED BY <1>10 DEF tc2, ob2

LEMMA ArrangedServe ==
    ASSUME NEW b \in Seq(Nat), NEW tc \in Seq(Nat), NEW ob \in Seq(Nat),
           NEW g \in Nat, NEW sv \in Nat, NEW z \in Nat,
           Arranged(b, tc, ob, g, sv, z)
    PROVE  Arranged(b, tc, ob \o <<2 * sv + 1, 2 * sv + 2>>, g, sv + 1, z)
<1> DEFINE a == 2 * g + Len(b) + Len(tc)
           pair == <<2 * sv + 1, 2 * sv + 2>>
           e == 2 * sv + Extra(z)
<1>1. a \in Nat /\ Len(ob) \in Nat /\ e \in Nat BY LenProperties DEF Extra
<1>2. At(ob, a, z) /\ a + Len(ob) = e /\ Between(z, g, sv)
  BY DEF Arranged
<1>3. pair \in Seq(Nat) /\ Len(pair) = 2 BY Pair
<1>4. z = 0 \/ z <= 2 * sv + 1 BY <1>2 DEF Between
<1>5. pair[1] = Unit(z, e + 1) /\ pair[2] = Unit(z, e + 2)
  BY <1>4 DEF Unit, Extra
<1>6. At(pair, e, z) BY <1>3, <1>5 DEF At
<1> HIDE DEF pair
<1>7. At(ob \o pair, a, z) /\ Len(ob \o pair) = Len(ob) + 2
  BY ZenonT(60), <1>1, <1>2, <1>3, <1>6, AtConcat
<1>8. a + (Len(ob) + 2) = 2 * (sv + 1) + Extra(z) BY <1>1, <1>2 DEF Extra
<1>9. Between(z, g, sv + 1)
  <2>1. \A n \in g .. sv : n \in g .. sv + 1 OBVIOUS
  <2> QED BY <1>2, <2>1 DEF Between
<1>10. At(b, 2 * g, z) /\ At(tc, 2 * g + Len(b), z) BY DEF Arranged
<1>11. Arranged(b, tc, ob \o pair, g, sv + 1, z)
  BY <1>7, <1>8, <1>9, <1>10 DEF Arranged
<1> QED BY <1>11 DEF pair

LEMMA ArrangedGarble ==
    ASSUME NEW b \in Seq(Nat), NEW g \in Nat, NEW sv \in Nat, NEW z \in Nat, g <= sv,
           Arranged(b, <<>>, <<>>, g, sv, z), \A k \in 1 .. Len(b) : b[k] # 0
    PROVE  Arranged(b, <<0>>, <<>>, g, sv, 2 * sv + 1)
<1> DEFINE l == Len(b)
           y == 2 * sv + 1
<1>1. l \in Nat BY LenProperties
<1>2. At(b, 2 * g, z) /\ 2 * g + l + 0 + 0 = 2 * sv + Extra(z) /\ Between(z, g, sv)
  BY DEF Arranged
<1>3. z = 0
  <2> SUFFICES ASSUME z # 0 PROVE FALSE OBVIOUS
  <2>1. PICK n \in g .. sv : z = 2 * n + 1 BY <1>2 DEF Between
  <2>2. 2 * g + l = 2 * sv + 1 BY <1>1, <1>2 DEF Extra
  <2>3. z - 2 * g \in 1 .. l /\ 2 * g + (z - 2 * g) = z BY <1>1, <2>1, <2>2
  <2>4. b[z - 2 * g] = Unit(z, z) BY <1>2, <2>3 DEF At
  <2> QED BY <2>3, <2>4 DEF Unit
<1>4. 2 * g + l = 2 * sv BY <1>1, <1>2, <1>3 DEF Extra
<1>5. At(b, 2 * g, y) BY <1>1, <1>2, <1>3, <1>4, AtPlain
<1>6. At(<<0>>, 2 * g + l, y) BY <1>4 DEF At, Unit
<1>7. At(<<>>, 2 * g + l + 1, y) BY DEF At
<1>8. Between(y, g, sv) BY DEF Between
<1>9. 2 * g + l + 1 + 0 = 2 * sv + Extra(y)
  <2>1. Extra(y) = 1 BY DEF Extra
  <2> QED BY <1>1, <1>4, <2>1
<1> QED BY <1>5, <1>6, <1>7, <1>8, <1>9 DEF Arranged

LEMMA ArrangedEmpty == Arranged(<<>>, <<>>, <<>>, 0, 0, 0)
  BY DEF Arranged, Between, At, Extra

(***************************************************************************)
(* Taking a reply out of the reader.                                       *)
(***************************************************************************)
LEMMA TwoUnits ==
    ASSUME NEW b \in Seq(Nat), b # <<>>, Len(b) # 1
    PROVE  Len(b) \in Nat /\ Len(b) >= 2
<1> DEFINE l == Len(b)
<1>1. l \in Nat /\ l # 0 /\ l # 1 BY LenProperties, EmptySeq
<1> HIDE DEF l
<1>2. l >= 2 BY <1>1
<1> QED BY <1>1, <1>2 DEF l

\* What a reader with a whole reply at its head holds.
LEMMA HeadReply ==
    ASSUME NEW b \in Seq(Nat), NEW tc \in Seq(Nat), NEW ob \in Seq(Nat),
           NEW g \in Nat, NEW sv \in Nat, NEW z \in Nat,
           Arranged(b, tc, ob, g, sv, z), b # <<>>, Head(b) % 2 = 1, Len(b) # 1
    PROVE  /\ Number(Head(b)) = g + 1 /\ g + 1 <= sv
           /\ SubSeq(b, 3, Len(b)) \in Seq(Nat) /\ Len(b) - 2 \in Nat
           /\ Arranged(SubSeq(b, 3, Len(b)), tc, ob, g + 1, sv, z)
<1> DEFINE a == 2 * g
           l == Len(b)
           rest == SubSeq(b, 3, Len(b))
<1>1. l \in Nat /\ l >= 2 /\ a \in Nat /\ Len(tc) \in Nat /\ Len(ob) \in Nat
  BY TwoUnits, LenProperties
<1>2. /\ At(b, a, z) /\ At(tc, a + l, z) /\ At(ob, a + l + Len(tc), z)
      /\ a + l + Len(tc) + Len(ob) = 2 * sv + Extra(z) /\ Between(z, g, sv)
  BY DEF Arranged
<1>3. Head(b) = Unit(z, a + 1)
  <2>1. Head(b) = b[1] /\ 1 \in 1 .. l BY <1>1, HeadTailProperties, EmptySeq
  <2> QED BY <1>2, <2>1 DEF At
<1>4. z # a + 1
  <2>1. 0 % 2 = 0 OBVIOUS
  <2> QED BY <1>1, <1>3, <2>1 DEF Unit
<1>5. z = 0 \/ \E n \in g + 1 .. sv : z = 2 * n + 1
  <2> SUFFICES ASSUME z # 0 PROVE \E n \in g + 1 .. sv : z = 2 * n + 1 OBVIOUS
  <2>1. PICK n \in g .. sv : z = 2 * n + 1 BY <1>2 DEF Between
  <2>2. n # g BY <1>4, <2>1
  <2>3. n \in g + 1 .. sv BY <2>2
  <2> QED BY <2>1, <2>3
<1>6. Number(Head(b)) = g + 1
  <2>1. Head(b) = a + 1 BY <1>1, <1>3, <1>5 DEF Unit
  <2>2. (2 * g + 1 + 1) \div 2 = g + 1 OBVIOUS
  <2> QED BY <2>1, <2>2 DEF Number
<1>7. g + 1 <= sv
  <2>1. CASE z = 0
    <3>1. a + l + Len(tc) + Len(ob) = 2 * sv BY <1>2, <2>1 DEF Extra
    <3> QED BY <1>1, <3>1
  <2> QED BY <1>5, <2>1
<1>8. 2 \in 0 .. l /\ 2 + 1 = 3 BY <1>1
<1>9. rest \in Seq(Nat) /\ Len(rest) = l - 2 /\ At(rest, a + 2, z)
  BY ZenonT(60), <1>1, <1>2, <1>8, AtCut
<1>10. a + 2 = 2 * (g + 1) /\ a + 2 + (l - 2) = a + l BY <1>1
<1> HIDE DEF rest, l
<1>11. Between(z, g + 1, sv) BY <1>5 DEF Between
<1>12. 2 * (g + 1) + Len(rest) = a + l BY <1>9, <1>10
<1>13. Arranged(rest, tc, ob, g + 1, sv, z)
  BY <1>2, <1>9, <1>10, <1>11, <1>12 DEF Arranged
<1> QED BY <1>1, <1>6, <1>7, <1>9, <1>13 DEF rest, l

\* What the parser leaves of a reader.
LEMMA CutReader ==
    ASSUME NEW r \in Reader, SubSeq(r.buf, 3, Len(r.buf)) \in Seq(Nat),
           Len(r.buf) - 2 \in Nat
    PROVE  /\ Without2(r) \in Reader /\ Without2(r).made = r.made
           /\ Without2(r).error = r.error
           /\ Without2(r).buf = SubSeq(r.buf, 3, Len(r.buf))
  BY DEF Without2, Reader

LEMMA WithError ==
    ASSUME NEW r \in Reader, NEW b \in Seq(Nat)
    PROVE  /\ [r EXCEPT !.buf = b, !.error = TRUE] \in Reader
           /\ [r EXCEPT !.buf = b, !.error = TRUE].made = r.made
           /\ [r EXCEPT !.buf = b, !.error = TRUE].error = TRUE
  BY DEF Reader

LEMMA FromReaderPlaced ==
    ASSUME NEW r \in Reader, NEW tc \in Seq(Nat), NEW ob \in Seq(Nat),
           NEW g \in Nat, NEW sv \in Nat, g <= sv, InPlace(r, tc, ob, g, sv),
           r.made \/ r = NoReader, NEW x \in FromReader(r)
    PROVE  /\ x.reader \in Reader /\ (x.reader.made \/ x.reader = NoReader)
           /\ \/ x.taken = 0 /\ x.aux = 0
              \/ /\ x.taken = 1 /\ x.ok /\ g + 1 <= sv
                 /\ x.aux \in {g + 1, 0} /\ (x.aux = 0 => NullErrors)
           /\ x.ok \in BOOLEAN
           /\ InPlace(x.reader, tc, ob, g + x.taken, sv)
<1> DEFINE Failed == Got([r EXCEPT !.buf = <<>>, !.error = TRUE], FALSE, 0, 0)
           b == r.buf
<1>1. g + 0 = g /\ b \in Seq(Nat) BY DEF Reader
<1>2. CASE x = Got(r, TRUE, 0, 0) BY <1>1, <1>2 DEF Got
<1>3. CASE r.made /\ x = Failed
  <2>1. <<>> \in Seq(Nat) OBVIOUS
  <2>2. /\ x.reader = [r EXCEPT !.buf = <<>>, !.error = TRUE]
        /\ x.taken = 0 /\ x.aux = 0 /\ x.ok = FALSE
    BY <1>3 DEF Got
  <2>3. x.reader \in Reader /\ x.reader.made = r.made /\ x.reader.error = TRUE
    <3> DEFINE y == [r EXCEPT !.buf = <<>>, !.error = TRUE]
    <3>1. y \in Reader /\ y.made = r.made /\ y.error = TRUE
      BY <2>1, WithError, Zenon
    <3> HIDE DEF y
    <3>2. x.reader = y BY <2>2 DEF y
    <3> QED BY <3>1, <3>2
  <2> QED BY <1>1, <1>3, <2>2, <2>3 DEF InPlace
<1>4. CASE r.made /\ StartsReply(r) /\ Len(b) # 1 /\ x \in Emit(r)
  <2>1. b # <<>> /\ Head(b) % 2 = 1 /\ Len(b) # 1 BY <1>4 DEF StartsReply
  <2>2. SubSeq(b, 3, Len(b)) \in Seq(Nat) /\ Len(b) - 2 \in Nat
    <3>1. Len(b) \in Nat /\ Len(b) >= 2 BY <1>1, <2>1, TwoUnits
    <3>2. 2 \in 0 .. Len(b) /\ 2 + 1 = 3 BY <3>1
    <3>3. SubSeq(b, 2 + 1, Len(b)) \in Seq(Nat) BY <1>1, <3>2, Cut
    <3> QED BY <3>1, <3>2, <3>3
  <2>3. Without2(r) \in Reader /\ Without2(r).made = r.made
        /\ Without2(r).error = r.error
        /\ Without2(r).buf = SubSeq(b, 3, Len(b))
    BY <2>2, CutReader, Zenon
  <2>6. Without2(r).made BY <1>4, <2>3
  <2>4. CASE r.error
    <3>1. x = Got(Without2(r), FALSE, 0, 0) BY <1>4, <2>4 DEF Emit
    <3>2. x.reader = Without2(r) /\ x.taken = 0 /\ x.aux = 0 /\ x.ok = FALSE
      BY <3>1 DEF Got
    <3>3. Without2(r).error BY <2>3, <2>4
    <3>4. InPlace(Without2(r), tc, ob, g, sv) BY <3>3 DEF InPlace
    <3> QED BY <1>1, <2>3, <2>6, <3>2, <3>4
  <2>5. CASE ~r.error
    <3>1. PICK z \in Nat : Arranged(b, tc, ob, g, sv, z) BY <2>5 DEF InPlace
    <3>2. /\ Number(Head(b)) = g + 1 /\ g + 1 <= sv
          /\ Arranged(SubSeq(b, 3, Len(b)), tc, ob, g + 1, sv, z)
      BY <1>1, <2>1, <3>1, HeadReply
    <3>3. InPlace(Without2(r), tc, ob, g + 1, sv) BY <2>3, <3>2 DEF InPlace
    <3>4. \/ x = Got(Without2(r), TRUE, g + 1, 1)
          \/ NullErrors /\ x = Got(Without2(r), TRUE, 0, 1)
      BY <1>4, <2>5, <3>2 DEF Emit
    <3>5. /\ x.reader = Without2(r) /\ x.taken = 1 /\ x.ok = TRUE
          /\ x.aux = g + 1 \/ (x.aux = 0 /\ NullErrors)
      BY <3>4 DEF Got
    <3>6. g + 1 # 0 OBVIOUS
    <3> QED BY <2>3, <2>6, <3>2, <3>3, <3>5, <3>6
  <2> QED BY <2>4, <2>5
<1>5. r = NoReader => x = Got(r, TRUE, 0, 0) BY DEF FromReader, NoReader
<1> QED BY <1>2, <1>3, <1>4, <1>5 DEF FromReader

(***************************************************************************)
(* The invariant, of a context that is live, and of one that is not.       *)
(***************************************************************************)
ReplyType ==
    /\ reader \in Reader /\ (~reader.made => reader = NoReader)
    /\ fn \in {"default", "NULL"}
    /\ toClient \in Seq(Nat) /\ outbox \in Seq(Nat)
    /\ given \in Nat /\ served \in Nat /\ given <= served

Ready == ReplyType /\ InPlace(reader, toClient, outbox, given, served)

ReplyInv == ReplyType /\ (life = "live" => Ready)

LEMMA NoReaderType == NoReader \in Reader
<1>1. <<>> \in Seq(Nat) OBVIOUS
<1> QED BY <1>1 DEF NoReader, Reader

LEMMA NoReaderMade ==
    ASSUME Ready
    PROVE  /\ NoReader \in Reader
           /\ Created \in Reader /\ Created.made
           /\ Created.buf = reader.buf /\ Created.error = reader.error
           /\ InPlace(Created, toClient, outbox, given, served)
<1>1. <<>> \in Seq(Nat) OBVIOUS
<1>2. NoReader \in Reader BY NoReaderType
<1>3. /\ Created \in Reader /\ Created.made
      /\ Created.buf = reader.buf /\ Created.error = reader.error
  BY <1>1 DEF Ready, ReplyType, Created, NoReader, Reader
<1> QED BY <1>2, <1>3 DEF Ready, ReplyType, InPlace

\* The reader after n units were read into it.
LEMMA ReadPlaced ==
    ASSUME Ready, NEW n \in 0 .. Len(toClient),
           toClient' = SubSeq(toClient, n + 1, Len(toClient))
    PROVE  /\ toClient' \in Seq(Nat)
           /\ ReaderAfter(n) \in Reader
           /\ ReaderAfter(n).made \/ ReaderAfter(n) = NoReader
           /\ InPlace(ReaderAfter(n), toClient', outbox, given, served)
<1> DEFINE front == SubSeq(toClient, 1, n)
<1>1. /\ toClient \in Seq(Nat) /\ toClient' \in Seq(Nat)
      /\ front \in Seq(Nat) /\ Len(front) = n /\ n \in Nat
  BY Cut DEF Ready, ReplyType
<1>2. CASE n = 0
  <2>1. toClient' = toClient
    <3>1. toClient' = SubSeq(toClient, 1, Len(toClient)) BY <1>2
    <3> QED BY <1>1, <3>1, SubSeqFull
  <2> QED BY <1>1, <1>2, <2>1 DEF Ready, ReplyType, ReaderAfter
<1>3. CASE n # 0
  <2> DEFINE c == Created
             f == Fed(Created, front)
  <2>1. c \in Reader /\ c.made /\ c.buf = reader.buf /\ c.error = reader.error
    BY NoReaderMade
  <2> HIDE DEF c, front
  <2>2. c.buf \o front \in Seq(Nat) /\ Len(c.buf) + Len(front) \in Nat
    <3>1. c.buf \in Seq(Nat) BY <2>1 DEF Reader
    <3> QED BY <1>1, <3>1, ConcatProperties, LenProperties
  <2>3. /\ Fed(c, front) \in Reader /\ Fed(c, front).made
        /\ Fed(c, front).buf = reader.buf \o front
        /\ Fed(c, front).error = reader.error
    BY <2>1, <2>2 DEF Fed, Reader
  <2>4. ReaderAfter(n) = Fed(c, front) BY <1>3 DEF ReaderAfter, c, front
  <2>5. ASSUME ~reader.error
        PROVE  \E z \in Nat : Arranged(reader.buf \o front, toClient', outbox, given, served, z)
    <3>1. PICK z \in Nat : Arranged(reader.buf, toClient, outbox, given, served, z)
      BY <2>5 DEF Ready, ReplyType, InPlace
    <3>2. Arranged(reader.buf \o front, toClient', outbox, given, served, z)
      BY <1>1, <3>1, ArrangedRead DEF Ready, ReplyType, Reader, front
    <3> QED BY <3>2
  <2>6. InPlace(Fed(c, front), toClient', outbox, given, served)
    BY <2>3, <2>5 DEF InPlace
  <2> QED BY <1>1, <1>3, <2>3, <2>4, <2>6
<1> QED BY <1>2, <1>3

\* What asking a reader r for a reply comes to, for the context and its caller.
Handed(c) ==
    \/ /\ given' = given + 1 /\ given < served
       /\ \/ pc' = "idle" /\ ret'.reply \in {given + 1, 0}
          \/ NullErrors /\ UNCHANGED ret
    \/ /\ given' = given
       /\ (pc' = "idle" /\ ret'.reply = 0) \/ UNCHANGED ret

LEMMA AskPlaced ==
    ASSUME Ready, NEW r \in Reader, r.made \/ r = NoReader,
           toClient' \in Seq(Nat), InPlace(r, toClient', outbox, given, served),
           NEW c, NEW next, AskReader(c, r, next), UNCHANGED <<fn, outbox, served>>
    PROVE  Ready' /\ Handed(c)
<1>1. PICK x \in FromReader(r) :
         /\ reader' = x.reader /\ given' = given + x.taken
         /\ IF x.ok /\ x.aux = 0 /\ Blocking
            THEN pc' = next /\ call' = c /\ UNCHANGED <<s, ret>>
            ELSE Return(c, x.ok, x.aux)
  BY DEF AskReader
<1>2. given \in Nat /\ served \in Nat /\ given <= served /\ outbox \in Seq(Nat)
  BY DEF Ready, ReplyType
<1> DEFINE tc == toClient'
<1>3. tc \in Seq(Nat) /\ InPlace(r, tc, outbox, given, served) OBVIOUS
<1> HIDE DEF tc
<1>4. /\ x.reader \in Reader /\ (x.reader.made \/ x.reader = NoReader)
      /\ \/ x.taken = 0 /\ x.aux = 0
         \/ /\ x.taken = 1 /\ x.ok /\ given + 1 <= served
            /\ x.aux \in {given + 1, 0} /\ (x.aux = 0 => NullErrors)
      /\ InPlace(x.reader, tc, outbox, given + x.taken, served)
  BY <1>1, <1>2, <1>3, FromReaderPlaced
<1>5. Ready' BY <1>1, <1>2, <1>3, <1>4 DEF Ready, ReplyType, tc
<1>6. Return(c, x.ok, x.aux) => pc' = "idle" /\ ret'.reply = x.aux
  BY DEF Return, Result
<1>7. Handed(c) BY <1>1, <1>2, <1>4, <1>6 DEF Handed
<1> QED BY <1>5, <1>7

LEMMA ConnectReplies ==
    ASSUME ReplyInv, NEW family, NEW blocking, Connect(family, blocking)
    PROVE  ReplyInv'
<1>1. <<>> \in Seq(Nat) OBVIOUS
<1>2. InPlace(NoReader, <<>>, <<>>, 0, 0)
  BY ArrangedEmpty DEF InPlace, NoReader
<1> QED BY <1>1, <1>2, NoReaderType DEF Connect, ReplyInv, Ready, ReplyType

LEMMA ReceiveReplies == ASSUME Ready, Receive PROVE Ready'
<1>1. UNCHANGED <<reader, fn, toClient, given>> BY DEF Receive, ctxVars
<1>2. CASE UNCHANGED <<served, outbox>> BY <1>1, <1>2 DEF Ready, ReplyType
<1>3. CASE served' = served + 1 /\ outbox' = outbox \o <<2 * served + 1, 2 * served + 2>>
  <2>1. outbox' \in Seq(Nat) BY <1>3, Pair, ConcatProperties DEF Ready, ReplyType
  <2>2. InPlace(reader, toClient, outbox', given, served')
    <3>1. SUFFICES ASSUME ~reader.error
                   PROVE  \E z \in Nat :
                            Arranged(reader.buf, toClient, outbox', given, served', z)
      BY DEF InPlace
    <3>2. PICK z \in Nat : Arranged(reader.buf, toClient, outbox, given, served, z)
      BY <3>1 DEF Ready, ReplyType, InPlace
    <3>3. Arranged(reader.buf, toClient, outbox', given, served', z)
      BY <1>3, <3>2, ArrangedServe DEF Ready, ReplyType, Reader
    <3> QED BY <3>3
  <2> QED BY <1>1, <1>3, <2>1, <2>2 DEF Ready, ReplyType
<1> QED BY <1>2, <1>3 DEF Receive

LEMMA SendReplies == ASSUME Ready, Send PROVE Ready'
<1>1. /\ UNCHANGED <<reader, fn, given, served>> /\ outbox # <<>>
      /\ toClient' = Append(toClient, Head(outbox)) /\ outbox' = Tail(outbox)
  BY DEF Send, ctxVars
<1>2. Head(outbox) \in Nat /\ outbox' \in Seq(Nat)
  BY <1>1, HeadTailProperties DEF Ready, ReplyType
<1>3. toClient' \in Seq(Nat) BY <1>1, <1>2, AppendProperties DEF Ready, ReplyType
<1>4. InPlace(reader, toClient', outbox', given, served)
  <2>1. SUFFICES ASSUME ~reader.error
                 PROVE  \E z \in Nat :
                          Arranged(reader.buf, toClient', outbox', given, served, z)
    BY DEF InPlace
  <2>2. PICK z \in Nat : Arranged(reader.buf, toClient, outbox, given, served, z)
    BY <2>1 DEF Ready, ReplyType, InPlace
  <2>3. Arranged(reader.buf, toClient', outbox', given, served, z)
    BY <1>1, <2>2, ArrangedSend DEF Ready, ReplyType, Reader
  <2> QED BY <2>3
<1> QED BY <1>1, <1>2, <1>3, <1>4 DEF Ready, ReplyType

LEMMA GarbleReplies == ASSUME Ready, Garble PROVE Ready'
<1>1. /\ UNCHANGED <<reader, fn, given, served, outbox>>
      /\ outbox = <<>> /\ toClient = <<>> /\ toClient' = <<0>>
      /\ \A k \in DOMAIN reader.buf : reader.buf[k] # 0
  BY DEF Garble, ctxVars, serverVars
<1>2. toClient' \in Seq(Nat) BY <1>1
<1>3. \A k \in 1 .. Len(reader.buf) : reader.buf[k] # 0
  BY <1>1, LenProperties DEF Ready, ReplyType, Reader
<1>4. InPlace(reader, toClient', outbox, given, served)
  <2>1. SUFFICES ASSUME ~reader.error
                 PROVE  \E z \in Nat :
                          Arranged(reader.buf, toClient', outbox, given, served, z)
    BY DEF InPlace
  <2>2. PICK z \in Nat : Arranged(reader.buf, <<>>, <<>>, given, served, z)
    BY <1>1, <2>1 DEF Ready, ReplyType, InPlace
  <2>3. Arranged(reader.buf, <<0>>, <<>>, given, served, 2 * served + 1)
    BY <1>3, <2>2, ArrangedGarble DEF Ready, ReplyType, Reader
  <2>4. 2 * served + 1 \in Nat BY DEF Ready, ReplyType
  <2> QED BY <1>1, <2>3, <2>4
<1> QED BY <1>1, <1>2, <1>4 DEF Ready, ReplyType

\* The calls that ask the reader for a reply.
LEMMA CreatedAsked ==
    ASSUME Ready, NEW c, NEW next, AskReader(c, Created, next),
           UNCHANGED <<fn, toClient, outbox, served>>
    PROVE  Ready' /\ Handed(c)
<1>1. /\ Created \in Reader /\ (Created.made \/ Created = NoReader)
      /\ InPlace(Created, toClient', outbox, given, served)
      /\ toClient' \in Seq(Nat)
  BY NoReaderMade DEF Ready, ReplyType
<1> QED BY <1>1, AskPlaced

LEMMA WaitAsked ==
    ASSUME Ready, Wait
    PROVE  /\ Ready'
           /\ \/ Handed(call)
              \/ pc' = "idle" /\ ret'.reply = 0 /\ given' = given
<1>1. UNCHANGED <<fn, outbox, served>> BY DEF Wait, serverVars
<1>2. CASE \E n \in 0 .. Len(toClient) :
             ReadUnits(n) /\ AskReader(call, ReaderAfter(n), "read")
  <2>1. PICK n \in 0 .. Len(toClient) :
             ReadUnits(n) /\ AskReader(call, ReaderAfter(n), "read")
    BY <1>2
  <2>2. toClient' = SubSeq(toClient, n + 1, Len(toClient)) BY <2>1 DEF ReadUnits
  <2>3. /\ toClient' \in Seq(Nat)
        /\ ReaderAfter(n) \in Reader
        /\ ReaderAfter(n).made \/ ReaderAfter(n) = NoReader
        /\ InPlace(ReaderAfter(n), toClient', outbox, given, served)
    BY <2>2, ReadPlaced
  <2> QED BY <1>1, <2>1, <2>3, AskPlaced
<1>3. CASE ReadFails /\ Return(call, FALSE, 0)
  BY <1>1, <1>3 DEF ReadFails, Ready, ReplyType, Return, Result
<1> QED BY <1>2, <1>3 DEF Wait

LEMMA BufferReadReplies == ASSUME Ready, BufferRead PROVE Ready'
<1>1. UNCHANGED <<fn, outbox, served, given>>
  BY DEF BufferRead, ReadFails, serverVars
<1>2. CASE \E n \in 0 .. Len(toClient) : ReadUnits(n) /\ reader' = ReaderAfter(n)
  <2>1. PICK n \in 0 .. Len(toClient) : ReadUnits(n) /\ reader' = ReaderAfter(n)
    BY <1>2
  <2>2. toClient' = SubSeq(toClient, n + 1, Len(toClient)) BY <2>1 DEF ReadUnits
  <2>3. /\ toClient' \in Seq(Nat)
        /\ ReaderAfter(n) \in Reader
        /\ ReaderAfter(n).made \/ ReaderAfter(n) = NoReader
        /\ InPlace(ReaderAfter(n), toClient', outbox, given, served)
    BY <2>2, ReadPlaced
  <2> QED BY <1>1, <2>1, <2>3 DEF Ready, ReplyType
<1>3. CASE ReadFails BY <1>1, <1>3 DEF ReadFails, Ready, ReplyType
<1> QED BY <1>2, <1>3 DEF BufferRead

LEMMA FreeReplies == ASSUME ReplyInv, Free PROVE ReplyInv'
  BY NoReaderType DEF Free, ReplyInv, ReplyType, netVars, serverVars

\* A step that does not touch the stream.
LEMMA StillReplies ==
    ASSUME ReplyInv, fn' \in {"default", "NULL"},
           UNCHANGED <<life, reader, toClient, outbox, given, served>>
    PROVE  ReplyInv'
  BY DEF ReplyInv, Ready, ReplyType

LEMMA NextReplies == ASSUME DInv, ReplyInv, [Next]_vars PROVE ReplyInv'
<1>1. /\ pc \in Waiting => life = "live"
      /\ life = "live" => Ready
      /\ fn \in {"default", "NULL"}
  BY DEF DInv, ReplyInv, ReplyType
<1>2. Ready' => ReplyInv' BY DEF ReplyInv, Ready
<1>3. CASE Call
  <2>1. CASE \E family \in {"tcp", "unix"}, blocking \in BOOLEAN : Connect(family, blocking)
    BY <2>1, ConnectReplies
  <2>2. CASE Free BY <2>2, FreeReplies
  <2>3. CASE \/ \E f \in {"default", "NULL"} : SetReplyObjectFunctions(f)
             \/ AppendCommand \/ BufferWrite
    BY <1>1, <2>3, StillReplies
       DEF SetReplyObjectFunctions, SetFunctions, AppendCommand, BufferWrite,
           netVars, serverVars
  <2>4. CASE Command
    <3>1. life = "live" /\ UNCHANGED <<life, fn, toClient, outbox, served>>
      BY <2>4 DEF Command, User, serverVars
    <3>2. CASE AskReader("command", Created, "flush")
      BY <1>1, <1>2, <3>1, <3>2, CreatedAsked
    <3>3. CASE UNCHANGED <<err, reader, given>>
      BY <1>1, <3>1, <3>3, StillReplies
    <3> QED BY <2>4, <3>2, <3>3 DEF Command
  <2>5. CASE GetReply
    <3>1. /\ life = "live" /\ UNCHANGED <<life, fn, toClient, outbox, served>>
          /\ AskReader("getReply", Created, "flush")
      BY <2>5 DEF GetReply, User, serverVars
    <3> QED BY <1>1, <1>2, <3>1, CreatedAsked
  <2>6. CASE BufferRead
    BY <1>1, <1>2, <2>6, BufferReadReplies DEF BufferRead, User
  <2> QED BY <1>3, <2>1, <2>2, <2>3, <2>4, <2>5, <2>6 DEF Call
<1>4. CASE Connecting \/ Flush \/ Interrupted \/ LinkFails \/ UNCHANGED vars
  <2>1. UNCHANGED <<life, fn, reader, toClient, outbox, given, served>>
    <3>1. CASE Connecting
      BY <3>1 DEF Connecting, CreateSocket, ReuseAddr, GetFlags, SetFlags, Resolve,
             TryConnect, NoDelay, GiveUp, GiveUpNonBlock, Go, Store, ctxVars,
             netVars, serverVars
    <3>2. CASE Flush \/ Interrupted BY <3>2 DEF Flush, Interrupted, netVars, serverVars
    <3>3. CASE LinkFails \/ UNCHANGED vars
      BY <3>3 DEF LinkFails, vars, ctxVars, netVars, serverVars
    <3> QED BY <1>4, <3>1, <3>2, <3>3
  <2> QED BY <1>1, <2>1, StillReplies
<1>5. CASE Wait
  BY <1>1, <1>2, <1>5, WaitAsked DEF Wait, Waiting
<1>6. CASE Receive \/ Send \/ Garble
  <2>1. life = "live" BY <1>6 DEF Receive, Send, Garble, Connected
  <2> QED BY <1>1, <1>2, <1>6, <2>1, ReceiveReplies, SendReplies, GarbleReplies
<1> QED BY <1>3, <1>4, <1>5, <1>6 DEF Next

LEMMA InitReplies == Init => ReplyInv
<1> SUFFICES ASSUME Init PROVE ReplyInv OBVIOUS
<1>1. <<>> \in Seq(Nat) OBVIOUS
<1> QED BY <1>1, NoReaderType DEF Init, ReplyInv, ReplyType

(***************************************************************************)
(* From the positions back to the sequences.                               *)
(***************************************************************************)
\* Two pieces of the stream that are of one length and start in one place.
LEMMA AtEqual ==
    ASSUME NEW x \in Seq(Nat), NEW y \in Seq(Nat), Len(x) = Len(y),
           NEW a, NEW z, At(x, a, z), At(y, a, z)
    PROVE  x = y
  BY SeqEqual DEF At

\* The units of n replies, something that is none, and those of the rest.
LEMMA Spoiled ==
    ASSUME NEW sv \in Nat, NEW n \in 0 .. sv
    PROVE  LET y == Units(2 * n) \o <<0>> \o SubSeq(Units(2 * sv), 2 * n + 1, 2 * sv)
           IN  y \in Seq(Nat) /\ Len(y) = 2 * sv + 1 /\ At(y, 0, 2 * n + 1)
<1> DEFINE m == 2 * n
           z == m + 1
           all == Units(2 * sv)
           rest == SubSeq(all, m + 1, Len(all))
<1>1. m \in Nat /\ m <= 2 * sv /\ z \in Nat OBVIOUS
<1>2. /\ Units(m) \in Seq(Nat) /\ Len(Units(m)) = m /\ Follows(Units(m), 0)
      /\ all \in Seq(Nat) /\ Len(all) = 2 * sv /\ Follows(all, 0)
  BY <1>1, UnitsProperties
<1>3. At(Units(m), 0, z) BY <1>1, <1>2, AtPlain
<1>4. <<0>> \in Seq(Nat) /\ Len(<<0>>) = 1 /\ At(<<0>>, 0 + Len(Units(m)), z)
  BY <1>1, <1>2 DEF At, Unit
<1> DEFINE u == Units(m) \o <<0>>
<1>5. u \in Seq(Nat) /\ Len(u) = m + 1 /\ At(u, 0, z)
  BY <1>2, <1>3, <1>4, AtConcat
<1>6. /\ rest \in Seq(Nat) /\ Len(rest) = 2 * sv - m /\ Follows(rest, 0 + m)
  <2> HIDE DEF all
  <2>1. m \in 0 .. Len(all) BY <1>1, <1>2
  <2>2. rest \in Seq(Nat) /\ Len(rest) = Len(all) - m /\ Follows(rest, 0 + m)
    BY <1>2, <2>1, FollowsCut
  <2> QED BY <1>2, <2>2
<1> HIDE DEF u, rest
<1>7. At(rest, 0 + Len(u), z)
  <2>1. ASSUME NEW k \in 1 .. Len(rest) PROVE rest[k] = Unit(z, 0 + Len(u) + k)
    <3>1. rest[k] = 0 + m + k BY <1>6, <2>1 DEF Follows
    <3>2. 0 + Len(u) + k = m + 1 + k /\ k >= 1 /\ k \in Nat BY <1>1, <1>5, <1>6, <2>1
    <3>3. Unit(z, m + 1 + k) = m + k BY <1>1, <3>2 DEF Unit
    <3>4. 0 + m + k = m + k BY <1>1, <3>2
    <3> QED BY <3>1, <3>2, <3>3, <3>4
  <2> QED BY <2>1 DEF At
<1> HIDE DEF all
<1>8. u \o rest \in Seq(Nat) /\ Len(u \o rest) = m + 1 + (2 * sv - m)
      /\ At(u \o rest, 0, z)
  BY <1>5, <1>6, <1>7, AtConcat
<1>9. m + 1 + (2 * sv - m) = 2 * sv + 1 BY <1>1
<1>10. rest = SubSeq(Units(2 * sv), 2 * n + 1, 2 * sv) BY <1>2 DEF rest, all
<1> QED BY <1>8, <1>9, <1>10 DEF u

\* RepliesInPlace, of given buffers and counters.
InOrder(b, tc, ob, g, sv) ==
    LET stream == Units(2 * g) \o b \o tc \o ob
    IN  \/ stream = Units(2 * sv)
        \/ \E n \in g .. sv :
             stream = Units(2 * n) \o <<0>> \o SubSeq(Units(2 * sv), 2 * n + 1, 2 * sv)

LEMMA ArrangedInOrder ==
    ASSUME NEW b \in Seq(Nat), NEW tc \in Seq(Nat), NEW ob \in Seq(Nat),
           NEW g \in Nat, NEW sv \in Nat, NEW z \in Nat,
           Arranged(b, tc, ob, g, sv, z)
    PROVE  InOrder(b, tc, ob, g, sv)
<1> DEFINE a == 2 * g
           x == Units(a)
           y == x \o b
           w == y \o tc
           v == w \o ob
<1>1. a \in Nat /\ Len(b) \in Nat /\ Len(tc) \in Nat /\ Len(ob) \in Nat
  BY LenProperties
<1>2. /\ At(b, a, z) /\ At(tc, a + Len(b), z) /\ At(ob, a + Len(b) + Len(tc), z)
      /\ a + Len(b) + Len(tc) + Len(ob) = 2 * sv + Extra(z) /\ Between(z, g, sv)
  BY DEF Arranged
<1>3. x \in Seq(Nat) /\ Len(x) = a /\ Follows(x, 0) BY <1>1, UnitsProperties
<1>4. At(x, 0, z)
  <2>1. z = 0 \/ 0 + Len(x) < z BY <1>1, <1>2, <1>3 DEF Between
  <2> HIDE DEF x
  <2> QED BY <1>3, <2>1, AtPlain
<1> HIDE DEF x
<1>5. y \in Seq(Nat) /\ Len(y) = a + Len(b) /\ At(y, 0, z)
  <2>1. 0 + Len(x) = a BY <1>1, <1>3
  <2>2. At(b, 0 + Len(x), z) BY <1>2, <2>1
  <2>3. y \in Seq(Nat) /\ Len(y) = Len(x) + Len(b) /\ At(y, 0, z)
    BY <1>3, <1>4, <2>2, AtConcat
  <2> QED BY <1>3, <2>3
<1> HIDE DEF y
<1>6. w \in Seq(Nat) /\ Len(w) = a + Len(b) + Len(tc) /\ At(w, 0, z)
  <2>1. 0 + Len(y) = a + Len(b) BY <1>1, <1>5
  <2>2. At(tc, 0 + Len(y), z) BY <1>2, <2>1
  <2> QED BY ZenonT(60), <1>5, <2>2, AtConcat
<1> HIDE DEF w
<1>7. v \in Seq(Nat) /\ Len(v) = 2 * sv + Extra(z) /\ At(v, 0, z)
  <2>1. 0 + Len(w) = a + Len(b) + Len(tc) BY <1>1, <1>6
  <2>2. At(ob, 0 + Len(w), z) BY <1>2, <2>1
  <2>3. v \in Seq(Nat) /\ Len(v) = Len(w) + Len(ob) /\ At(v, 0, z)
    BY <1>6, <2>2, AtConcat
  <2> QED BY <1>2, <1>6, <2>3
<1> HIDE DEF v
<1>8. CASE z = 0
  <2>1. 2 * sv + Extra(z) = 2 * sv BY <1>8 DEF Extra
  <2>2. /\ Units(2 * sv) \in Seq(Nat) /\ Len(Units(2 * sv)) = 2 * sv
        /\ Follows(Units(2 * sv), 0)
    BY UnitsProperties
  <2>3. At(Units(2 * sv), 0, z) BY <1>8, <2>2, AtPlain
  <2>4. v = Units(2 * sv) BY <1>7, <2>1, <2>2, <2>3, AtEqual
  <2> QED BY <2>4 DEF v, w, y, x, InOrder
<1>9. CASE z # 0
  <2>1. PICK n \in g .. sv : z = 2 * n + 1 BY <1>2, <1>9 DEF Between
  <2> DEFINE q == Units(2 * n) \o <<0>> \o SubSeq(Units(2 * sv), 2 * n + 1, 2 * sv)
  <2>2. n \in 0 .. sv BY <2>1
  <2>3. q \in Seq(Nat) /\ Len(q) = 2 * sv + 1 /\ At(q, 0, z) BY <2>1, <2>2, Spoiled
  <2>4. 2 * sv + Extra(z) = 2 * sv + 1 BY <1>9 DEF Extra
  <2> HIDE DEF q
  <2>5. v = q BY <1>7, <2>3, <2>4, AtEqual
  <2> QED BY <2>1, <2>5 DEF v, w, y, x, q, InOrder
<1> QED BY <1>8, <1>9

\* However reads are cut, and whatever fails or is interrupted on the way, no
\* reply is lost, doubled or moved until the reader sees a protocol error, even
\* when something that is no reply got in between (hiredis.c:835-854, 905-930).
THEOREM RepliesSafe == Spec => []RepliesInPlace
<1>1. Init => DInv /\ Unset /\ ReplyInv
  BY InitDescriptors, InitReplies DEF Init, Unset, Opened
<1>2. DInv /\ Unset /\ ReplyInv /\ [Next]_vars => (DInv /\ Unset /\ ReplyInv)'
  BY NextDescriptors, NextUnset, NextReplies
<1>3. ReplyInv => RepliesInPlace
  <2> SUFFICES ASSUME ReplyInv, life = "live", ~reader.error PROVE RepliesInPlace
    BY DEF RepliesInPlace
  <2>1. /\ reader.buf \in Seq(Nat) /\ toClient \in Seq(Nat) /\ outbox \in Seq(Nat)
        /\ given \in Nat /\ served \in Nat
    BY DEF ReplyInv, ReplyType, Reader
  <2>2. PICK z \in Nat : Arranged(reader.buf, toClient, outbox, given, served, z)
    BY DEF ReplyInv, Ready, InPlace
  <2>3. InOrder(reader.buf, toClient, outbox, given, served)
    BY <2>1, <2>2, ArrangedInOrder
  <2> QED BY <2>3 DEF RepliesInPlace, InOrder
<1> QED BY <1>1, <1>2, <1>3, PTL DEF Spec

-----------------------------------------------------------------------------
(***************************************************************************)
(* The types.  A context without a descriptor is as it was made.           *)
(***************************************************************************)
Unused == issued = 0 /\ served = 0 /\ given = 0 /\ ret.reply = 0

FreshInv ==
    /\ pc \in Opened \cup {"socket"} => life = "live"
    /\ life = "live" /\ fd = 0 => Unused

FdType ==
    /\ life \in {"none", "live", "freed"} /\ err \in {"none", "io", "eof", "protocol", "other"}
    /\ fd \in 0 .. MaxFd /\ s \in 0 .. MaxFd /\ open \subseteq 0 .. MaxFd
    /\ kept \subseteq 0 .. MaxFd

FlagType == badClose \in BOOLEAN

SizeType == Len(toServer) <= Cap /\ Len(toClient) <= Cap /\ issued <= MaxCmds

WaitType == pc \in Waiting => Blocking

Sound == served <= issued

AllInv == /\ DInv /\ Unset /\ CInv /\ ReplyInv /\ FreshInv
          /\ FdType /\ FlagType /\ SizeType /\ WaitType /\ Sound

\* A step of a connect: the context is still as it was made.
LEMMA ConnectingFrame ==
    ASSUME DInv, Unset, FreshInv, Connecting
    PROVE  /\ life = "live" /\ fd = 0 /\ Unused /\ Unused'
           /\ UNCHANGED <<life, flags, obuf, fn, reader, netVars>>
           /\ pc' \in {"idle"} \cup Opened
<1>1. pc \in Opened \cup {"socket"}
  BY DEF Connecting, CreateSocket, ReuseAddr, GetFlags, SetFlags, Resolve,
         TryConnect, NoDelay, Opened
<1>2. life = "live" /\ fd = 0 /\ Unused BY <1>1 DEF Unset, FreshInv
<1>3. UNCHANGED <<life, flags, obuf, fn, reader, netVars>>
  BY DEF Connecting, CreateSocket, ReuseAddr, GetFlags, SetFlags, Resolve,
         TryConnect, NoDelay, GiveUp, GiveUpNonBlock, Go, Store, ctxVars
<1>4. /\ ret'.reply = 0 \/ ret' = ret
      /\ pc' \in {"idle"} \cup Opened
  BY DEF Connecting, CreateSocket, ReuseAddr, GetFlags, SetFlags, Resolve,
         TryConnect, NoDelay, GiveUp, GiveUpNonBlock, Go, Store, Return, Result,
         AfterSocket, Opened
<1> QED BY <1>2, <1>3, <1>4 DEF Unused, netVars, serverVars

LEMMA NextFresh == ASSUME DInv, Unset, FreshInv, [Next]_vars PROVE FreshInv'
<1>1. CASE \E family \in {"tcp", "unix"}, blocking \in BOOLEAN : Connect(family, blocking)
  BY <1>1 DEF Connect, FreshInv, Unused, Result
<1>2. CASE Free BY <1>2 DEF Free, Return, FreshInv, Opened
<1>3. CASE Connecting
  BY <1>3, ConnectingFrame DEF FreshInv, Opened
<1>4. CASE CallOrWait
  BY <1>4, CallFrame DEF FreshInv, Running, User, Opened, Waiting
<1>5. CASE Receive \/ Send \/ Garble \/ LinkFails
  <2>1. fd # 0 /\ UNCHANGED <<ctxVars, callVars>>
    BY <1>5 DEF Receive, Send, Garble, LinkFails, Connected
  <2> QED BY <2>1 DEF FreshInv, ctxVars, callVars
<1>6. CASE UNCHANGED vars
  BY <1>6 DEF vars, ctxVars, callVars, netVars, serverVars, FreshInv, Unused
<1> QED BY <1>1, <1>2, <1>3, <1>4, <1>5, <1>6 DEF Next, Call, CallOrWait

LEMMA AskErr ==
    ASSUME FdType, NEW c, NEW r, NEW next, AskReader(c, r, next)
    PROVE  err' \in {"none", "io", "eof", "protocol", "other"}
  BY DEF AskReader, FdType

LEMMA ClosedOpen == ASSUME NEW d, Closed(d) PROVE open' \subseteq open
<1>1. open' = open \ {d} BY DEF Closed
<1> QED BY <1>1

LEMMA NextFdType == ASSUME DInv, FdType, [Next]_vars PROVE FdType'
<1>1. CASE \E family \in {"tcp", "unix"}, blocking \in BOOLEAN : Connect(family, blocking)
  BY <1>1, ContextAssumption DEF Connect, FdType, fdVars
<1>2. CASE Free
  <2>1. open' \subseteq open BY <1>2, ClosedOpen DEF Free
  <2>2. /\ life' = "freed" /\ s' = 0 /\ 0 \in 0 .. MaxFd
        /\ UNCHANGED <<fd, err, kept>>
    BY <1>2, ContextAssumption DEF Free, Return
  <2> QED BY <2>1, <2>2 DEF FdType
<1>3. CASE Connecting
  <2>0. 0 \in 0 .. MaxFd BY ContextAssumption
  <2>1. CASE CreateSocket
    <3>1. \/ \E d \in 0 .. MaxFd :
                open' = open \cup {d} /\ s' = d /\ UNCHANGED <<life, fd, err, kept>>
          \/ err' = "io" /\ s' = 0 /\ UNCHANGED <<life, fd, open, kept>>
      BY <2>1 DEF CreateSocket, Return, ctxVars, fdVars
    <3> QED BY <2>0, <3>1 DEF FdType
  <2>2. CASE \/ \E next : Go(next)
             \/ GiveUp("io") \/ GiveUp("other")
             \/ Store
    <3>1. CASE \E next : Go(next) BY <3>1 DEF Go, FdType, ctxVars, fdVars
    <3>2. CASE GiveUp("io") \/ GiveUp("other")
      <4>1. open' \subseteq open BY <3>2, ClosedOpen DEF GiveUp
      <4>2. /\ err' \in {"io", "other"} /\ s' = 0 /\ UNCHANGED <<life, fd, kept>>
        BY <3>2 DEF GiveUp, Return
      <4> QED BY <2>0, <4>1, <4>2 DEF FdType
    <3>3. CASE Store BY <2>0, <3>3 DEF Store, Return, FdType
    <3> QED BY <2>2, <3>1, <3>2, <3>3
  <2>3. ReuseAddr \/ GetFlags \/ SetFlags \/ Resolve \/ TryConnect \/ NoDelay
        => (\E next : Go(next)) \/ GiveUp("io") \/ GiveUp("other") \/ Store
    BY DEF ReuseAddr, GetFlags, SetFlags, Resolve, TryConnect, NoDelay, GiveUpNonBlock
  <2> QED BY <1>3, <2>1, <2>2, <2>3 DEF Connecting
<1>4. CASE CallOrWait
  <2>1. UNCHANGED <<life, fd, fdVars>> /\ s' = 0 BY <1>4, CallFrame
  <2>2. err' \in {"none", "io", "eof", "protocol", "other"}
    BY <1>4, AskErr
       DEF CallOrWait, SetReplyObjectFunctions, AppendCommand, Command, GetReply,
           BufferRead, BufferWrite, Flush, Wait, Interrupted, Write, ReadFails, FdType
  <2> QED BY <2>1, <2>2, ContextAssumption DEF FdType, fdVars
<1>5. CASE Receive \/ Send \/ Garble \/ LinkFails \/ UNCHANGED vars
  <2>1. UNCHANGED <<ctxVars, callVars, fdVars>>
    BY <1>5 DEF Receive, Send, Garble, LinkFails, vars
  <2> QED BY <2>1 DEF FdType, ctxVars, callVars, fdVars
<1> QED BY <1>1, <1>2, <1>3, <1>4, <1>5 DEF Next, Call, CallOrWait

LEMMA NextFlagType == ASSUME DInv, FlagType, [Next]_vars PROVE FlagType'
<1>1. badClose' = badClose \/ \E d : badClose' = (badClose \/ d \notin open)
  <2>1. CASE CallOrWait BY <2>1, CallFrame DEF fdVars
  <2>2. CASE ~CallOrWait
    BY <2>2 DEF Next, Call, CallOrWait, Connect, Free, Connecting, CreateSocket,
           ReuseAddr, GetFlags, SetFlags, Resolve, TryConnect, NoDelay, GiveUp,
           GiveUpNonBlock, Go, Store, Closed, Receive, Send, Garble, LinkFails,
           vars, fdVars
  <2> QED BY <2>1, <2>2
<1> QED BY <1>1, Zenon DEF FlagType

\* What a write puts on the socket, there was room for.
LEMMA WriteSize ==
    ASSUME CInv, SizeType, NEW ok, Write(ok)
    PROVE  Len(toServer') <= Cap
<1>1. CASE UNCHANGED toServer BY <1>1 DEF SizeType
<1>2. CASE \E n \in 1 .. Least(Cap - Len(toServer), Len(obuf)) :
             toServer' = toServer \o SubSeq(obuf, 1, n)
  <2>1. PICK n \in 1 .. Least(Cap - Len(toServer), Len(obuf)) :
             toServer' = toServer \o SubSeq(obuf, 1, n)
    BY <1>2
  <2>2. /\ toServer \in Seq(Nat) /\ obuf \in Seq(Nat) /\ Len(obuf) \in Nat
        /\ Len(toServer) \in Nat /\ Cap \in Nat
    BY LenProperties, ContextAssumption DEF CInv, CType
  <2>3. n \in 0 .. Len(obuf) /\ n \in Nat /\ n <= Cap - Len(toServer)
    BY <2>1, <2>2 DEF Least
  <2>4. SubSeq(obuf, 1, n) \in Seq(Nat) /\ Len(SubSeq(obuf, 1, n)) = n
    BY <2>2, <2>3, Cut
  <2>5. Len(toServer') = Len(toServer) + n BY <2>1, <2>2, <2>4, ConcatProperties
  <2> QED BY <2>2, <2>3, <2>5
<1> QED BY <1>1, <1>2 DEF Write

\* A read leaves no more in the socket than there was.
LEMMA ReadSize ==
    ASSUME ReplyInv, SizeType, NEW n \in 0 .. Len(toClient), ReadUnits(n)
    PROVE  Len(toClient') <= Cap
<1>1. /\ toClient \in Seq(Nat) /\ Len(toClient) \in Nat /\ Cap \in Nat /\ n \in Nat
      /\ toClient' = SubSeq(toClient, n + 1, Len(toClient))
  BY LenProperties, ContextAssumption DEF ReplyInv, ReplyType, ReadUnits
<1>2. Len(toClient') = Len(toClient) - n BY <1>1, Cut
<1> QED BY <1>1, <1>2 DEF SizeType

LEMMA WorldSize ==
    ASSUME CInv, ReplyInv, SizeType, Receive \/ Send \/ Garble \/ LinkFails
    PROVE  SizeType'
<1>1. /\ toServer \in Seq(Nat) /\ Len(toServer) \in Nat
      /\ toClient \in Seq(Nat) /\ Len(toClient) \in Nat
      /\ outbox \in Seq(Nat) /\ Cap \in Nat /\ Cap # 0
  BY LenProperties, ContextAssumption DEF CInv, CType, ReplyInv, ReplyType
<1>2. CASE Receive
  <2>1. toServer # <<>> /\ toServer' = Tail(toServer) /\ UNCHANGED <<toClient, issued>>
    BY <1>2 DEF Receive
  <2>2. Len(toServer') = Len(toServer) - 1 BY <1>1, <2>1, HeadTailProperties
  <2> QED BY <1>1, <2>1, <2>2 DEF SizeType
<1>3. CASE Send
  <2>1. /\ outbox # <<>> /\ Len(toClient) < Cap /\ toClient' = Append(toClient, Head(outbox))
        /\ UNCHANGED <<toServer, issued>>
    BY <1>3 DEF Send
  <2>2. Len(toClient') = Len(toClient) + 1
    BY <1>1, <2>1, HeadTailProperties, AppendProperties
  <2> QED BY <1>1, <2>1, <2>2 DEF SizeType
<1>4. CASE Garble BY <1>1, <1>4 DEF Garble, SizeType
<1>5. CASE LinkFails BY <1>5 DEF LinkFails, SizeType
<1> QED BY <1>2, <1>3, <1>4, <1>5

LEMMA NextSizeType ==
    ASSUME DInv, Unset, FreshInv, CInv, ReplyInv, SizeType, [Next]_vars
    PROVE  SizeType'
<1>1. CASE \E family \in {"tcp", "unix"}, blocking \in BOOLEAN : Connect(family, blocking)
  BY <1>1, ContextAssumption DEF Connect, SizeType
<1>2. CASE \/ Free \/ Connecting \/ UNCHANGED vars \/ Interrupted
           \/ \E f \in {"default", "NULL"} : SetReplyObjectFunctions(f)
  <2>1. UNCHANGED netVars
    BY <1>2, ConnectingFrame DEF Free, vars, Interrupted, SetReplyObjectFunctions
  <2> QED BY <2>1 DEF netVars, SizeType
<1>3. CASE AppendCommand \/ Command
  <2>1. Append2 /\ UNCHANGED <<toServer, toClient>>
    BY <1>3 DEF AppendCommand, Command
  <2> QED BY <2>1, ContextAssumption DEF Append2, SizeType, CInv, CType
<1>4. CASE GetReply BY <1>4 DEF GetReply, SizeType
<1>5. CASE BufferWrite \/ Flush
  <2>1. UNCHANGED <<issued, toClient>> /\ \E ok \in BOOLEAN : Write(ok)
    BY <1>5 DEF BufferWrite, Flush
  <2> QED BY <2>1, WriteSize DEF SizeType
<1>6. CASE BufferRead \/ Wait
  <2>1. /\ UNCHANGED <<issued, toServer>>
        /\ (\E n \in 0 .. Len(toClient) : ReadUnits(n)) \/ UNCHANGED toClient
    BY <1>6 DEF BufferRead, Wait, ReadFails
  <2> QED BY <2>1, ReadSize DEF SizeType
<1>7. CASE Receive \/ Send \/ Garble \/ LinkFails BY <1>7, WorldSize
<1> QED BY <1>1, <1>2, <1>3, <1>4, <1>5, <1>6, <1>7 DEF Next, Call

\* Only a blocking context waits.
LEMMA NextWaitType == ASSUME DInv, WaitType, [Next]_vars PROVE WaitType'
<1>1. CASE \E family \in {"tcp", "unix"}, blocking \in BOOLEAN : Connect(family, blocking)
  BY <1>1 DEF Connect, WaitType, Waiting
<1>2. CASE Free BY <1>2 DEF Free, Return, WaitType, Waiting
<1>3. CASE Connecting
  <2>1. pc' \in {"idle"} \cup Opened
    BY <1>3 DEF Connecting, CreateSocket, ReuseAddr, GetFlags, SetFlags, Resolve,
           TryConnect, NoDelay, GiveUp, GiveUpNonBlock, Go, Store, Return,
           AfterSocket, Opened
  <2> QED BY <2>1 DEF WaitType, Waiting, Opened
<1>4. CASE CallOrWait
  <2>1. UNCHANGED flags BY <1>4, CallFrame
  <2>2. pc' = "idle" \/ pc \in Waiting \/ Blocking
    BY <1>4 DEF CallOrWait, SetReplyObjectFunctions, SetFunctions, AppendCommand,
           Command, GetReply, AskReader, BufferRead, BufferWrite, Flush, Wait,
           Interrupted, Return, Waiting
  <2> QED BY <2>1, <2>2 DEF WaitType, Waiting, Blocking
<1>5. CASE Receive \/ Send \/ Garble \/ LinkFails \/ UNCHANGED vars
  <2>1. UNCHANGED <<ctxVars, callVars>>
    BY <1>5 DEF Receive, Send, Garble, LinkFails, vars
  <2> QED BY <2>1 DEF WaitType, Blocking, ctxVars, callVars
<1> QED BY <1>1, <1>2, <1>3, <1>4, <1>5 DEF Next, Call, CallOrWait

\* The server answers no more commands than there are.
LEMMA NextSound == ASSUME CInv, CInv', Sound, DInv, Unset, FreshInv, [Next]_vars PROVE Sound'
<1>1. CASE life' = "live"
  <2>1. CInv' /\ life' = "live" => Sound'
    <3>1. /\ served' \in Nat /\ issued' \in Nat /\ Len(request') \in Nat
          /\ Len(toServer') \in Nat /\ Len(obuf') \in Nat
      BY LenProperties DEF CInv, CType
    <3>2. 2 * served' + Len(request') + Len(toServer') + Len(obuf') = 2 * issued'
      BY <1>1 DEF CInv, Placed
    <3> QED BY <3>1, <3>2 DEF Sound
  <2> QED BY <1>1, <2>1
<1>2. CASE life' # "live"
  <2>1. UNCHANGED <<served, issued>>
    <3>1. CASE Free \/ UNCHANGED vars
      BY <3>1 DEF Free, vars, netVars, serverVars
    <3>2. CASE Connecting BY <1>2, <3>2, ConnectingFrame
    <3>3. CASE CallOrWait BY <1>2, <3>3, CallFrame DEF Running, User
    <3>4. CASE Receive \/ Send \/ Garble \/ LinkFails
      BY <1>2, <3>4 DEF Receive, Send, Garble, LinkFails, Connected, ctxVars
    <3> QED BY <1>2, <3>1, <3>2, <3>3, <3>4 DEF Next, Call, CallOrWait, Connect
  <2> QED BY <2>1 DEF Sound
<1> QED BY <1>1, <1>2

LEMMA InitAll == Init => AllInv
<1> SUFFICES ASSUME Init PROVE AllInv OBVIOUS
<1>1. DInv /\ CInv /\ ReplyInv BY InitDescriptors, InitPlaced, InitReplies
<1>2. Unset BY DEF Init, Unset, Opened
<1>3. FreshInv BY DEF Init, FreshInv, Opened
<1>4. FdType /\ FlagType
  <2>1. badClose \in BOOLEAN BY DEF Init
  <2> QED BY <2>1, ContextAssumption DEF Init, FdType, FlagType
<1>5. SizeType /\ Sound BY ContextAssumption DEF Init, SizeType, Sound
<1>6. WaitType BY DEF Init, WaitType, Waiting
<1> QED BY <1>1, <1>2, <1>3, <1>4, <1>5, <1>6 DEF AllInv

LEMMA NextAll == AllInv /\ [Next]_vars => AllInv'
<1> SUFFICES ASSUME AllInv, [Next]_vars PROVE AllInv' OBVIOUS
<1>1. DInv' /\ Unset' /\ CInv' /\ ReplyInv' /\ FreshInv'
  BY NextDescriptors, NextUnset, NextPlaced, NextReplies, NextFresh DEF AllInv
<1>2. FdType' /\ FlagType' /\ SizeType' /\ WaitType'
  BY NextFdType, NextFlagType, NextSizeType, NextWaitType DEF AllInv
<1>3. Sound' BY <1>1, NextSound DEF AllInv
<1> QED BY <1>1, <1>2, <1>3 DEF AllInv

\* The types of all variables, for every capacity, descriptor limit and number
\* of commands; no reply is taken that the server did not give, and it gives
\* none to a command that was not issued (hiredis.c:835-963, net.c:52-167).
THEOREM TypesSafe == Spec => []TypeOK
<1>1. AllInv => TypeOK
  BY DEF AllInv, DInv, Owned, Waiting, CInv, CType, ReplyInv, ReplyType, FdType,
         FlagType, SizeType, WaitType, Sound, TypeOK
<1> QED BY <1>1, InitAll, NextAll, PTL DEF Spec
-----------------------------------------------------------------------------
(***************************************************************************)
(* The refinement of CommandStream: what its steps are, of the context.    *)
(***************************************************************************)
Up == life = "live" /\ fd # 0

LEMMA InitStream == Init => Stream!Init
  BY DEF Init, Stream!Init, Result

LEMMA StartStep == ASSUME ~Up, Unused' PROVE Stream!Next
  BY DEF Stream!Next, Stream!Start, Up, Unused

LEMMA StopStep ==
    ASSUME Up, ~Up', ret'.reply = 0, UNCHANGED <<issued, served, given>>
    PROVE  Stream!Next
  BY DEF Stream!Next, Stream!Stop, Up

\* What a call hands out: the next reply, or none; or it has not returned.
HandsOut ==
    \/ given < served /\ given' = given + 1 /\ ret'.reply \in {given + 1, 0}
    \/ ret'.reply = 0 /\ UNCHANGED given
    \/ UNCHANGED <<given, ret>>

LEMMA AskStep ==
    ASSUME Up, Up', issued' = issued + 1, HandsOut, UNCHANGED served
    PROVE  Stream!Next
  BY DEF Stream!Next, Stream!Ask, Stream!Give, Stream!GiveNothing, HandsOut, Up

LEMMA ReturnStep ==
    ASSUME Up, Up', HandsOut, UNCHANGED <<issued, served>>
    PROVE  [Stream!Next]_(Stream!vars)
<1>1. CASE UNCHANGED <<given, ret>>
  BY <1>1 DEF Stream!vars, Up
<1>2. CASE ~UNCHANGED <<given, ret>>
  <2>1. Stream!Return
    BY <1>2 DEF Stream!Return, Stream!Give, Stream!GiveNothing, HandsOut, Up
  <2> QED BY <2>1 DEF Stream!Next
<1> QED BY <1>1, <1>2

LEMMA AnswerStep ==
    ASSUME Up, Up', served < issued, served' = served + 1,
           UNCHANGED <<issued, given, ret>>
    PROVE  Stream!Next
  BY DEF Stream!Next, Stream!Answer, Up

LEMMA StillStep ==
    ASSUME UNCHANGED <<life, fd, issued, served, given, ret>>
    PROVE  UNCHANGED Stream!vars
  BY DEF Stream!vars

\* Without NULL for a reply, a reply that was taken is returned.
LEMMA HandedOut == ASSUME ~NullErrors, NEW c, Handed(c) PROVE HandsOut
  BY DEF Handed, HandsOut

LEMMA CallStream ==
    ASSUME ~NullErrors, AllInv, CallOrWait
    PROVE  [Stream!Next]_(Stream!vars)
<1>1. Up /\ Up'
  BY CallFrame DEF AllInv, Running, User, Up
<1>2. Ready BY <1>1 DEF Up, AllInv, ReplyInv
<1>3. served' = served
  BY DEF CallOrWait, SetReplyObjectFunctions, AppendCommand, Command, GetReply,
         BufferRead, BufferWrite, Flush, Wait, Interrupted, netVars, serverVars
<1>4. CASE AppendCommand \/ Command
  <2>1. issued' = issued + 1 BY <1>4 DEF AppendCommand, Command, Append2
  <2>2. HandsOut
    <3>1. CASE Command /\ AskReader("command", Created, "flush")
      <4>1. UNCHANGED <<fn, toClient, outbox, served>>
        BY <3>1 DEF Command, serverVars
      <4> QED BY <1>2, <3>1, <4>1, CreatedAsked, HandedOut
    <3>2. CASE \/ AppendCommand
               \/ Return("command", TRUE, 0) /\ UNCHANGED <<err, reader, given>>
      BY <3>2 DEF AppendCommand, Return, Result, HandsOut
    <3> QED BY <1>4, <3>1, <3>2 DEF Command
  <2> QED BY <1>1, <1>3, <2>1, <2>2, AskStep
<1>5. CASE ~(AppendCommand \/ Command)
  <2>1. issued' = issued
    BY <1>5 DEF CallOrWait, SetReplyObjectFunctions, GetReply, BufferRead, BufferWrite,
           Flush, Wait, Interrupted, netVars
  <2>2. HandsOut
    <3>1. CASE \/ \E f \in {"default", "NULL"} : SetReplyObjectFunctions(f)
               \/ BufferRead \/ BufferWrite \/ Flush \/ Interrupted
      <4>1. CASE \E f \in {"default", "NULL"} : SetReplyObjectFunctions(f)
        BY <4>1 DEF SetReplyObjectFunctions, SetFunctions, Return, Result, HandsOut,
               netVars
      <4>2. CASE BufferRead
        <5>1. given' = given /\ \E ok \in BOOLEAN : Return("read", ok, 0)
          BY <4>2 DEF BufferRead, ReadFails
        <5> QED BY <5>1 DEF Return, Result, HandsOut
      <4>3. CASE BufferWrite BY <4>3 DEF BufferWrite, Return, Result, HandsOut
      <4>4. CASE Flush
        <5>1. given' = given /\ (UNCHANGED ret \/ Return(call, FALSE, 0))
          BY <4>4 DEF Flush
        <5> QED BY <5>1 DEF Return, Result, HandsOut
      <4>5. CASE Interrupted BY <4>5 DEF Interrupted, Return, Result, HandsOut, netVars
      <4> QED BY <3>1, <4>1, <4>2, <4>3, <4>4, <4>5
    <3>2. CASE GetReply
      <4>1. UNCHANGED <<fn, toClient, outbox, served>> /\ AskReader("getReply", Created, "flush")
        BY <3>2 DEF GetReply, serverVars
      <4> QED BY <1>2, <4>1, CreatedAsked, HandedOut
    <3>3. CASE Wait
      <4>1. Handed(call) \/ (ret'.reply = 0 /\ given' = given)
        BY <1>2, <3>3, WaitAsked
      <4> QED BY <4>1, HandedOut DEF HandsOut
    <3> QED BY <1>5, <3>1, <3>2, <3>3 DEF CallOrWait
  <2> QED BY <1>1, <1>3, <2>1, <2>2, ReturnStep
<1> QED BY <1>4, <1>5

LEMMA NextStream ==
    ASSUME ~NullErrors, AllInv, AllInv', [Next]_vars
    PROVE  [Stream!Next]_(Stream!vars)
<1>1. CASE \E family \in {"tcp", "unix"}, blocking \in BOOLEAN : Connect(family, blocking)
  <2>1. ~Up /\ Unused' BY <1>1 DEF Connect, Up, Unused, Result
  <2> QED BY <2>1, StartStep
<1>2. CASE Free
  <2>1. /\ life = "live" /\ life' = "freed" /\ ret'.reply = 0
        /\ UNCHANGED <<issued, served, given>>
    BY <1>2 DEF Free, Return, Result, netVars, serverVars
  <2>2. CASE fd = 0
    <3>1. Unused' BY <2>1, <2>2 DEF AllInv, FreshInv, Unused
    <3> QED BY <2>2, <3>1, StartStep DEF Up
  <2>3. CASE fd # 0
    BY <2>1, <2>3, StopStep DEF Up
  <2> QED BY <2>2, <2>3
<1>3. CASE Connecting
  <2>1. ~Up /\ Unused' BY <1>3, ConnectingFrame DEF AllInv, Up
  <2> QED BY <2>1, StartStep
<1>4. CASE CallOrWait BY <1>4, CallStream
<1>5. CASE Receive
  <2>1. Up /\ Up' /\ UNCHANGED <<life, fd, issued, given, ret>>
    BY <1>5 DEF Receive, Connected, Up, ctxVars, callVars
  <2>2. CASE served' = served + 1
    <3>1. served < issued
      <4>1. served' <= issued' /\ served \in Nat /\ issued \in Nat
        BY DEF AllInv, Sound, CInv, CType
      <4> QED BY <2>1, <2>2, <4>1
    <3> QED BY <2>1, <2>2, <3>1, AnswerStep
  <2>3. CASE served' = served BY <2>1, <2>3, StillStep
  <2> QED BY <1>5, <2>2, <2>3 DEF Receive
<1>6. CASE Send \/ Garble \/ LinkFails \/ UNCHANGED vars
  <2>1. UNCHANGED <<life, fd, issued, served, given, ret>>
    BY <1>6 DEF Send, Garble, LinkFails, vars, ctxVars, callVars, netVars, serverVars
  <2> QED BY <2>1, StillStep
<1> QED BY <1>1, <1>2, <1>3, <1>4, <1>5, <1>6 DEF Next, Call, CallOrWait

\* Where no reply becomes a NULL, the context implements CommandStream, for
\* every capacity and number of commands: whatever is cut, fails or is
\* interrupted, and however its user goes on, a call hands out the reply of the
\* next command or none, and every new connection starts from nothing
\* (hiredis.c:905-989).
THEOREM StreamKept == ~NullErrors => (Spec => KeepsStream)
<1> SUFFICES ASSUME ~NullErrors PROVE Spec => KeepsStream OBVIOUS
<1>1. AllInv /\ AllInv' /\ [Next]_vars => [Stream!Next]_(Stream!vars) BY NextStream
<1> QED BY <1>1, InitAll, NextAll, InitStream, PTL DEF Spec, KeepsStream, Stream!Spec
=============================================================================
