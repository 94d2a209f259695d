------------------------ MODULE HiRedisSessionProofs ------------------------
EXTENDS HiRedisSession, SequenceTheorems, TLAPS

LEMMA ReturnedType ==
    ASSUME NEW by \in {"self", "FALSE", "TRUE", "run", "exec", "send"},
           NEW items \in Seq(Zval)
    PROVE  Returned(by, items) \in Results
  BY DEF Returned, Results

LEMMA SimpleReturns == Self \in Results /\ False \in Results /\ True \in Results
<1>1. <<>> \in Seq(Zval) OBVIOUS
<1> QED BY <1>1, ReturnedType DEF Self, False, True

LEMMA InitType == Init => TypeOK
<1> SUFFICES ASSUME Init PROVE TypeOK OBVIOUS
<1>1. SockType BY DEF Init, SockType, QueueType
<1>2. CallType BY SimpleReturns DEF Init, CallType
<1>3. WireType BY DEF Init, WireType, issued
<1>4. ServerType BY DEF Init, ServerType
<1> QED BY <1>1, <1>2, <1>3, <1>4 DEF TypeOK

LEMMA ValidTypeType ==
    ASSUME NEW fun, NEW t \in Types
    PROVE  ValidType(fun, t) \in Types
  BY DEF ValidType, Types

LEMMA ZType == ASSUME NEW i \in Nat, NEW t \in Types PROVE Z(i, t) \in Zval
  BY DEF Z, Zval

LEMMA ZvalsType ==
    ASSUME TypeOK, NEW z \in Zvals
    PROVE  z \in Zval
<1>1. Null \in Zval /\ Garbage \in Zval BY ZType DEF Null, Garbage, Types
<1>2. ASSUME NEW i \in 1 .. served PROVE replies[i] \in Zval
  BY DEF TypeOK, WireType
<1> QED BY <1>1, <1>2 DEF Zvals

LEMMA ZippedType ==
    ASSUME NEW list \in Seq(Node), NEW elems \in Seq(Leaf)
    PROVE  Zipped(list, elems) \in Seq(Leaf)
<1> DEFINE n == IF Len(list) <= Len(elems) THEN Len(list) ELSE Len(elems)
           leaf(k) == [elems[k] EXCEPT !.type = ValidType(list[k].fun, @)]
<1>1. n \in Nat /\ n <= Len(elems) OBVIOUS
<1>2. ASSUME NEW k \in 1 .. n PROVE leaf(k) \in Leaf
  <2>1. elems[k] \in Leaf BY <1>1
  <2>2. elems[k].type \in Types BY <2>1 DEF Leaf
  <2>3. ValidType(list[k].fun, elems[k].type) \in Types BY <2>2, ValidTypeType
  <2> QED BY <2>1, <2>3 DEF Leaf
<1>3. [k \in 1 .. n |-> leaf(k)] \in [1 .. n -> Leaf] BY <1>2
<1>4. [k \in 1 .. n |-> leaf(k)] \in Seq(Leaf) BY <1>1, <1>3, SeqDef
<1> QED BY <1>4 DEF Zipped, Pairs

LEMMA ValidatedType ==
    ASSUME NEW fun, NEW z \in Zval
    PROVE  Validated(fun, z) \in Seq(Zval)
<1>1. ValidType(fun, z.type) \in Types BY ValidTypeType DEF Zval
<1>2. [z EXCEPT !.type = ValidType(fun, @)] \in Zval BY <1>1 DEF Zval
<1> QED BY <1>2 DEF Validated

LEMMA OutcomesItems ==
    ASSUME NEW results, NEW fault, NEW o \in Outcomes(results, fault)
    PROVE  o.items \in results \/ o.items = <<>>
<1>1. CASE \E items \in results : o = Done(items) BY <1>1 DEF Done
<1>2. CASE o = Fault BY <1>2 DEF Fault
<1> QED BY <1>1, <1>2, Zenon DEF Outcomes

LEMMA ExecOutcomesType ==
    ASSUME NEW list \in Seq(Node), NEW z \in Zval, NEW o \in ExecOutcomes(list, z)
    PROVE  o.items \in Seq(Leaf)
<1> DEFINE results == {Zipped(list, z.elems), <<>>}
<1>1. results \subseteq Seq(Leaf) BY ZippedType DEF Zval
<1>2. o.items \in results
  <2>1. CASE z.type = "undef" BY <2>1, OutcomesItems, Zenon DEF ExecOutcomes
  <2>2. CASE z.type \in Arrays
    <3>1. z.type # "undef" BY <2>2 DEF Arrays
    <3>2. PICK must, may : o \in Outcomes(IF must THEN {} ELSE {Zipped(list, z.elems)},
                                          must \/ may)
      BY <2>2, <3>1, Zenon DEF ExecOutcomes
    <3> QED BY <3>2, OutcomesItems, Zenon
  <2>3. CASE z.type \notin {"undef"} \cup Arrays
    BY <2>3, OutcomesItems, Zenon DEF ExecOutcomes
  <2> QED BY <2>1, <2>2, <2>3
<1> QED BY <1>1, <1>2

LEMMA PlainOutcomesType ==
    ASSUME NEW fun, NEW z \in Zval,
           NEW o \in PlainOutcomes(fun, z) \cup DirectOutcomes(fun, z)
    PROVE  o.items \in Seq(Zval)
<1>1. o.items \in {Validated(fun, z), <<>>}
  <2>1. CASE o \in PlainOutcomes(fun, z)
    BY <2>1, OutcomesItems, Zenon DEF PlainOutcomes
  <2>2. CASE o \in DirectOutcomes(fun, z)
    BY <2>2, OutcomesItems, Zenon DEF DirectOutcomes
  <2> QED BY <2>1, <2>2
<1>2. {Validated(fun, z), <<>>} \subseteq Seq(Zval) BY ValidatedType
<1> QED BY <1>1, <1>2, Zenon

LEMMA NType ==
    ASSUME NEW fun \in Funs, NEW i \in Nat
    PROVE  N(fun, i) \in Node /\ N(fun, i).list = 0 /\ N(fun, i).of = i
  BY DEF N, Node

LEMMA AppendNode ==
    ASSUME NEW q, NEW l, QueueType(q, l),
           NEW n \in Node, n.list \in 0 .. Len(l)
    PROVE  QueueType(Append(q, n), l)
  BY DEF QueueType

LEMMA MoreLists ==
    ASSUME NEW q, NEW l, NEW m, QueueType(q, l),
           m \in Seq(Seq(Node)), Len(m) >= Len(l)
    PROVE  QueueType(q, m)
  BY DEF QueueType

LEMMA EnqueueInMultiType ==
    ASSUME SockType, NEW n \in Node, n.list = 0, EnqueueInMulti(n)
    PROVE  /\ QueueType(queue', lists')
           /\ Len(lists') = IF head = 0 THEN Len(lists) + 1 ELSE Len(lists)
           /\ queue' = Append(queue, N("skip", n.of))
<1>1. N("skip", n.of) \in Node /\ N("skip", n.of).list = 0
  BY NType DEF Node, Funs
<1>2. QueueType(queue, lists) BY DEF SockType, QueueType
<1>3. QueueType(Append(queue, N("skip", n.of)), lists)
  BY <1>1, <1>2, AppendNode DEF QueueType
<1>4. /\ lists' \in Seq(Seq(Node))
      /\ Len(lists') = IF head = 0 THEN Len(lists) + 1 ELSE Len(lists)
  <2>1. CASE head = 0
    <3>1. <<n>> \in Seq(Node) OBVIOUS
    <3> QED BY <2>1, <3>1 DEF EnqueueInMulti, SockType, QueueType
  <2>2. CASE head # 0
    <3>1. head \in 1 .. Len(lists) BY <2>2 DEF SockType, QueueType
    <3>2. lists[head] \in Seq(Node) BY <3>1 DEF SockType, QueueType
    <3>3. Append(lists[head], n) \in Seq(Node) BY <3>2
    <3>4. lists' = [lists EXCEPT ![head] = Append(lists[head], n)]
      BY <2>2 DEF EnqueueInMulti
    <3> QED BY <2>2, <3>1, <3>3, <3>4 DEF SockType, QueueType
  <2> QED BY <2>1, <2>2
<1>5. lists \in Seq(Seq(Node)) /\ Len(lists') >= Len(lists)
  BY <1>4 DEF SockType, QueueType
<1> QED BY <1>3, <1>4, <1>5, MoreLists DEF EnqueueInMulti

LEMMA EnqueueType ==
    ASSUME SockType, NEW n \in Node, n.list = 0, Enqueue(n)
    PROVE  /\ QueueType(queue', lists')
           /\ head' \in 0 .. Len(lists')
           /\ Len(queue') = Len(queue) + 1
<1>1. CASE multi = 1
  <2>1. /\ EnqueueInMulti(n)
        /\ head' = IF head = 0 THEN Len(lists) + 1 ELSE head
    BY <1>1 DEF Enqueue
  <2>2. /\ QueueType(queue', lists')
        /\ Len(lists') = IF head = 0 THEN Len(lists) + 1 ELSE Len(lists)
        /\ queue' = Append(queue, N("skip", n.of))
    BY <2>1, EnqueueInMultiType
  <2>3. Len(queue') = Len(queue) + 1 BY <2>2 DEF SockType, QueueType
  <2> QED BY <2>1, <2>2, <2>3 DEF SockType, QueueType
<1>2. CASE multi # 1
  <2>1. queue' = Append(queue, n) /\ UNCHANGED <<lists, head>>
    BY <1>2 DEF Enqueue
  <2>2. QueueType(queue, lists) BY DEF SockType, QueueType
  <2>3. QueueType(queue', lists) BY <2>1, <2>2, AppendNode DEF SockType, QueueType
  <2> QED BY <2>1, <2>3 DEF SockType, QueueType
<1> QED BY <1>1, <1>2

LEMMA AppendCommandType ==
    ASSUME TypeOK, Begin, NEW c \in AllOps \cup {"MULTI", "EXEC"},
           AppendCommand(c), UNCHANGED serverVars,
           pc' = "run" => c \in AllOps
    PROVE  /\ WireType' /\ ServerType'
           /\ issued' = issued + 1 /\ issued \in Nat
<1> USE DEF TypeOK, WireType, ServerType, AppendCommand, Begin, NewReader,
            issued, serverVars
<1>1. /\ cmds' \in Seq(AllOps \cup {"MULTI", "EXEC"})
      /\ issued \in Nat /\ issued' = issued + 1
      /\ cmds'[issued'] = c
      /\ \A i \in 1 .. issued : cmds'[i] = cmds[i]
  OBVIOUS
<1>2. WireType' BY <1>1
<1>3. ServerType' BY <1>1
<1> QED BY <1>1, <1>2, <1>3

\* Nothing on the wire but the reader changes.
LEMMA QuietType ==
    ASSUME TypeOK, Begin, pc' # "run",
           UNCHANGED <<cmds, sent, served, fetched, replies, link, serverVars>>
    PROVE  WireType' /\ ServerType'
  BY DEF TypeOK, WireType, ServerType, Begin, NewReader, issued, serverVars

LEMMA RunType ==
    ASSUME SessionAssumption, TypeOK, NEW op \in Ops, Run(op)
    PROVE  TypeOK'
<1>1. /\ Begin /\ AppendCommand(op) /\ Enqueue(N(Fun[op], issued + 1))
      /\ UNCHANGED <<sock, mode, pipeline, multi, at, out>> /\ UNCHANGED serverVars
      /\ \/ pc' = "run" /\ UNCHANGED ret
         \/ pc' = "idle" /\ ret' = Self
  BY DEF Run
<1>2. op \in AllOps /\ Fun[op] \in Funs
  BY DEF SessionAssumption, AllOps, Fun, Funs
<1>3. /\ WireType' /\ ServerType' /\ issued \in Nat
  BY <1>1, <1>2, AppendCommandType
<1>4. N(Fun[op], issued + 1) \in Node /\ N(Fun[op], issued + 1).list = 0
  BY <1>2, <1>3, NType
<1>5. QueueType(queue', lists') /\ head' \in 0 .. Len(lists')
  BY <1>1, <1>4, EnqueueType DEF TypeOK
<1>6. SockType' BY <1>1, <1>5 DEF TypeOK, SockType, QueueType
<1>7. CallType' BY <1>1, SimpleReturns DEF TypeOK, CallType
<1> QED BY <1>3, <1>6, <1>7 DEF TypeOK

LEMMA ConnectType == ASSUME TypeOK, Connect PROVE TypeOK'
<1>1. SockType' BY DEF Connect, SockType, QueueType
<1>2. CallType' BY SimpleReturns DEF Connect, CallType
<1>3. WireType' BY DEF Connect, WireType, issued
<1>4. ServerType' BY DEF Connect, ServerType
<1> QED BY <1>1, <1>2, <1>3, <1>4 DEF TypeOK

\* A method that returns at once and says nothing to the server.
LEMMA RefusalType ==
    ASSUME TypeOK, ConnectFails \/ Unconnected \/ MultiRefused \/ SendRefused
    PROVE  TypeOK'
<1>1. /\ UNCHANGED sockVars /\ UNCHANGED <<pc, at, out>> /\ ret' = False
      /\ pc = "idle"
      /\ UNCHANGED <<cmds, sent, served, fetched, replies, link, serverVars>>
      /\ UNCHANGED parsed \/ (Begin /\ parsed' = fetched)
  BY DEF ConnectFails, Unconnected, MultiRefused, SendRefused, Begin, NewReader, wireVars
<1>2. SockType' BY <1>1 DEF TypeOK, SockType, sockVars
<1>3. CallType' BY <1>1, SimpleReturns DEF TypeOK, CallType, sockVars
<1>4. WireType' /\ ServerType'
  BY <1>1 DEF TypeOK, WireType, ServerType, issued, serverVars
<1> QED BY <1>2, <1>3, <1>4 DEF TypeOK

LEMMA CloseType == ASSUME TypeOK, Close \/ UseAfterClose PROVE TypeOK'
<1>1. CASE Close
  <2>1. SockType' BY <1>1 DEF Close, TypeOK, SockType
  <2>2. CallType' BY <1>1, SimpleReturns DEF Close, TypeOK, CallType
  <2>3. WireType' /\ ServerType' BY <1>1, QuietType DEF Close, Begin
  <2> QED BY <2>1, <2>2, <2>3 DEF TypeOK
<1>2. CASE UseAfterClose
  BY <1>2 DEF UseAfterClose, TypeOK, SockType, CallType, WireType, ServerType,
              issued, sockVars, wireVars, serverVars
<1> QED BY <1>1, <1>2

LEMMA PipelineType == ASSUME TypeOK, Pipeline PROVE TypeOK'
<1>1. SockType'
  <2>1. CASE queue' = <<>> /\ pipeline' = 1
    BY <2>1 DEF Pipeline, TypeOK, SockType, QueueType
  <2>2. CASE UNCHANGED <<pipeline, queue>>
    BY <2>2 DEF Pipeline, TypeOK, SockType
  <2> QED BY <2>1, <2>2 DEF Pipeline
<1>2. CallType' BY SimpleReturns DEF Pipeline, Begin, TypeOK, CallType
<1>3. WireType' /\ ServerType' BY QuietType DEF Pipeline, Begin
<1> QED BY <1>1, <1>2, <1>3 DEF TypeOK

LEMMA SendType == ASSUME TypeOK, Send PROVE TypeOK'
<1>1. SockType' BY DEF Send, TypeOK, SockType, QueueType
<1>2. CallType'
  <2>1. CASE queue = <<>>
    <3>1. <<>> \in Seq(Zval) OBVIOUS
    <3>2. ret' \in Results BY <2>1, <3>1, ReturnedType DEF Send
    <3> QED BY <2>1, <3>2 DEF Send, Begin, TypeOK, CallType
  <2>2. CASE queue # <<>>
    <3>1. Len(queue) > 0 BY <2>2 DEF TypeOK, SockType, QueueType
    <3> QED BY <2>2, <3>1 DEF Send, TypeOK, SockType, QueueType, CallType
  <2> QED BY <2>1, <2>2
<1>3. WireType' /\ ServerType' BY QuietType DEF Send, Begin
<1> QED BY <1>1, <1>2, <1>3 DEF TypeOK

LEMMA MultiType == ASSUME TypeOK, Multi PROVE TypeOK'
<1>1. SockType' BY DEF Multi, TypeOK, SockType, QueueType
<1>2. CallType' BY DEF Multi, TypeOK, CallType
<1>3. WireType' /\ ServerType' BY AppendCommandType DEF Multi
<1> QED BY <1>1, <1>2, <1>3 DEF TypeOK

LEMMA MultiPipelinedType == ASSUME TypeOK, MultiPipelined PROVE TypeOK'
<1>1. /\ Begin /\ AppendCommand("MULTI") /\ UNCHANGED serverVars
      /\ EnqueueInMulti(N("status", issued + 1))
      /\ NewTransaction /\ multi' = 1 /\ ret' = Self
      /\ UNCHANGED <<sock, pipeline, pc, at, out>>
  BY DEF MultiPipelined
<1>2. WireType' /\ ServerType' /\ issued \in Nat
  BY <1>1, AppendCommandType DEF Begin
<1>3. N("status", issued + 1) \in Node /\ N("status", issued + 1).list = 0
  BY <1>2, NType DEF Funs
<1>4. QueueType(queue', lists') BY <1>1, <1>3, EnqueueInMultiType DEF TypeOK
<1>5. SockType' BY <1>1, <1>4 DEF TypeOK, SockType, QueueType, NewTransaction
<1>6. CallType' BY <1>1, SimpleReturns DEF Begin, TypeOK, CallType
<1> QED BY <1>2, <1>5, <1>6 DEF TypeOK

LEMMA ExecType == ASSUME TypeOK, Exec PROVE TypeOK'
<1>1. SockType' BY DEF Exec, TypeOK, SockType, sockVars
<1>2. CallType'
  <2>1. queue # <<>> => Len(queue) > 0 BY DEF TypeOK, SockType, QueueType
  <2> QED BY <2>1 DEF Exec, TypeOK, SockType, QueueType, CallType, sockVars
<1>3. WireType' /\ ServerType' BY AppendCommandType DEF Exec
<1> QED BY <1>1, <1>2, <1>3 DEF TypeOK

LEMMA ExecPipelinedType == ASSUME TypeOK, ExecPipelined PROVE TypeOK'
<1>1. /\ Begin /\ AppendCommand("EXEC") /\ UNCHANGED serverVars
      /\ UNCHANGED <<sock, pipeline, lists, head, at, out>>
      /\ \/ pc' = "dead" /\ UNCHANGED <<queue, multi, mode, ret>>
         \/ /\ queue' = Append(queue, Join) /\ multi' = 0
            /\ mode' = "DIRECT" /\ ret' = Self /\ UNCHANGED pc
  BY DEF ExecPipelined
<1>2. WireType' /\ ServerType' /\ issued \in Nat
  BY <1>1, AppendCommandType DEF Begin
<1>3. Join \in Node /\ Join.list \in 0 .. Len(lists)
  BY <1>2 DEF Join, Node, Funs, TypeOK, SockType
<1>4. QueueType(queue', lists')
  BY <1>1, <1>3, AppendNode DEF TypeOK, SockType
<1>5. SockType' BY <1>1, <1>4 DEF TypeOK, SockType
<1>6. CallType' BY <1>1, SimpleReturns DEF Begin, TypeOK, CallType
<1> QED BY <1>2, <1>5, <1>6 DEF TypeOK

LEMMA WireStepType == ASSUME TypeOK, Flush \/ Fetch \/ ServerCloses PROVE TypeOK'
<1>1. SockType' /\ CallType'
  BY DEF Flush, Fetch, ServerCloses, TypeOK, SockType, CallType, sockVars, callVars
<1>2. WireType' /\ ServerType'
  BY DEF Flush, Fetch, ServerCloses, Starved, TypeOK, WireType, ServerType,
         issued, callVars, serverVars
<1> QED BY <1>1, <1>2 DEF TypeOK

LEMMA GetReplyType ==
    ASSUME TypeOK, NEW z \in Zvals, NEW before \in Zvals, GetReply(z, before),
           Received, pc' # "run"
    PROVE  WireType' /\ ServerType' /\ z \in Zval
<1>1. z \in Zval BY ZvalsType
<1>2. WireType' BY DEF GetReply, Received, TypeOK, WireType, issued
<1>3. ServerType' BY DEF Received, TypeOK, ServerType, serverVars
<1> QED BY <1>1, <1>2, <1>3

LEMMA Befores == Null \in Zvals /\ Garbage \in Zvals
  BY DEF Zvals

LEMMA RunReplyType == ASSUME TypeOK, RunReply PROVE TypeOK'
<1>1. PICK z \in Zvals :
        /\ GetReply(z, Null)
        /\ \E o \in DirectOutcomes(Fun[cmds[issued]], z) :
             IF o.end = "done"
             THEN /\ Finish("run", o.items)
                  /\ UNCHANGED <<mode, pipeline, multi, queue, head, at, out>>
             ELSE Die
  BY DEF RunReply
<1>2. PICK o \in DirectOutcomes(Fun[cmds[issued]], z) :
             IF o.end = "done"
             THEN /\ Finish("run", o.items)
                  /\ UNCHANGED <<mode, pipeline, multi, queue, head, at, out>>
             ELSE Die
  BY <1>1
<1>3. /\ UNCHANGED <<sock, lists, mode, pipeline, multi, queue, head, at, out>>
      /\ pc' \in {"idle", "dead"}
      /\ ret' = ret \/ ret' = Returned("run", o.items)
      /\ Received
  BY <1>2 DEF RunReply, Finish, Die
<1>4. WireType' /\ ServerType' /\ z \in Zval
  BY <1>1, <1>3, Befores, GetReplyType
<1>5. o.items \in Seq(Zval) BY <1>4, PlainOutcomesType
<1>6. CallType' BY <1>3, <1>5, ReturnedType DEF TypeOK, CallType
<1>7. SockType' BY <1>3 DEF TypeOK, SockType
<1> QED BY <1>4, <1>6, <1>7 DEF TypeOK

LEMMA MultiReplyType == ASSUME TypeOK, MultiReply PROVE TypeOK'
<1>1. PICK z \in Zvals : GetReply(z, Garbage)
  BY DEF MultiReply
<1>2. /\ UNCHANGED <<sock, lists, pipeline, multi, queue, at, out>>
      /\ \/ UNCHANGED <<mode, head>>
         \/ mode' = "TRANSACTION" /\ head' = 0
      /\ pc' \in {"idle", "dead"}
      /\ ret' \in {ret, Self, False}
      /\ Received
  BY DEF MultiReply, Die, NewTransaction
<1>3. WireType' /\ ServerType' BY <1>1, <1>2, Befores, GetReplyType
<1>4. CallType' BY <1>2, SimpleReturns DEF TypeOK, CallType
<1>5. SockType' BY <1>2 DEF TypeOK, SockType
<1> QED BY <1>3, <1>4, <1>5 DEF TypeOK

LEMMA SkipReplyType == ASSUME TypeOK, SkipReply PROVE TypeOK'
<1>1. PICK z \in Zvals : GetReply(z, Garbage)
  BY DEF SkipReply
<1>2. /\ UNCHANGED <<sock, lists, mode, pipeline, multi, queue, head, out, ret>>
      /\ \/ pc' = "dead" /\ UNCHANGED at
         \/ /\ pc' = IF at = Len(queue) THEN "tab" ELSE "skip"
            /\ at' = at + 1
      /\ pc = "skip" /\ Received
  BY DEF SkipReply, Die
<1>3. WireType' /\ ServerType' BY <1>1, <1>2, Befores, GetReplyType
<1>4. CallType'
  <2>1. at \in 1 .. Len(queue) BY <1>2 DEF TypeOK, CallType
  <2>2. at' \in Nat /\ (pc' \in {"skip", "send"} => at' \in 1 .. Len(queue))
    BY <1>2, <2>1 DEF TypeOK, CallType, SockType, QueueType
  <2> QED BY <1>2, <2>2 DEF TypeOK, CallType
<1>5. SockType' BY <1>2 DEF TypeOK, SockType
<1> QED BY <1>3, <1>4, <1>5 DEF TypeOK

LEMMA LeavesType ==
    ASSUME NEW items \in Seq(Leaf)
    PROVE  [k \in DOMAIN items |-> Z(items[k].of, items[k].type)] \in Seq(Zval)
<1> DEFINE n == Len(items)
<1>1. n \in Nat /\ DOMAIN items = 1 .. n OBVIOUS
<1>2. ASSUME NEW k \in 1 .. n PROVE Z(items[k].of, items[k].type) \in Zval
  <2>1. items[k] \in Leaf OBVIOUS
  <2> QED BY <2>1, ZType DEF Leaf
<1>3. [k \in 1 .. n |-> Z(items[k].of, items[k].type)] \in [1 .. n -> Zval] BY <1>2
<1> QED BY <1>1, <1>3, SeqDef

LEMMA TabReplyType == ASSUME TypeOK, TabReply PROVE TypeOK'
<1> DEFINE zvals(o) == [k \in DOMAIN o.items |-> Z(o.items[k].of, o.items[k].type)]
<1>1. PICK z \in Zvals :
        /\ GetReply(z, Garbage)
        /\ \E o \in ExecOutcomes(ListAt(head), z) :
             IF o.end = "done"
             THEN /\ Finish("exec", zvals(o)) /\ EndTransaction
                  /\ UNCHANGED <<pipeline, queue, at, out>>
             ELSE Die
  BY DEF TabReply
<1>2. PICK o \in ExecOutcomes(ListAt(head), z) :
             IF o.end = "done"
             THEN /\ Finish("exec", zvals(o)) /\ EndTransaction
                  /\ UNCHANGED <<pipeline, queue, at, out>>
             ELSE Die
  BY <1>1
<1> HIDE DEF zvals
<1>3. /\ UNCHANGED <<sock, lists, pipeline, queue, at, out>>
      /\ \/ UNCHANGED <<mode, multi, head>>
         \/ mode' = "DIRECT" /\ multi' = 0 /\ head' = 0
      /\ pc' \in {"idle", "dead"}
      /\ ret' = ret \/ ret' = Returned("exec", zvals(o))
      /\ Received
  BY <1>2 DEF TabReply, Finish, Die, EndTransaction
<1>4. WireType' /\ ServerType' /\ z \in Zval
  BY <1>1, <1>3, Befores, GetReplyType
<1>5. ListAt(head) \in Seq(Node)
  BY DEF ListAt, TypeOK, SockType, QueueType
<1>6. zvals(o) \in Seq(Zval)
  BY <1>4, <1>5, ExecOutcomesType, LeavesType DEF zvals
<1>7. CallType' BY <1>3, <1>6, ReturnedType DEF TypeOK, CallType
<1>8. SockType' BY <1>3 DEF TypeOK, SockType
<1> QED BY <1>4, <1>7, <1>8 DEF TypeOK

LEMMA SendNextType ==
    ASSUME TypeOK, pc = "send", NEW items \in Seq(Zval), SendNext(items),
           UNCHANGED <<sock, lists>>
    PROVE  SockType' /\ CallType' /\ pc' # "run"
<1>1. out \o items \in Seq(Zval) BY DEF TypeOK, CallType
<1>2. at \in 1 .. Len(queue) BY DEF TypeOK, CallType
<1>3. CASE at = Len(queue)
  <2>1. ret' \in Results
    BY <1>1, <1>3, ReturnedType DEF SendNext, Finish
  <2>2. CallType'
    BY <1>3, <2>1 DEF SendNext, Finish, TypeOK, CallType
  <2>3. SockType' BY <1>3 DEF SendNext, TypeOK, SockType, QueueType
  <2> QED BY <1>3, <2>2, <2>3 DEF SendNext, Finish
<1>4. CASE at # Len(queue)
  <2>1. at' \in 1 .. Len(queue) /\ at' \in Nat /\ UNCHANGED <<queue, pc, ret>>
    BY <1>2, <1>4 DEF SendNext
  <2>2. out' \in Seq(Zval) BY <1>1, <1>4 DEF SendNext
  <2>3. CallType' BY <2>1, <2>2 DEF TypeOK, CallType
  <2>4. SockType' BY <1>4 DEF SendNext, TypeOK, SockType
  <2> QED BY <2>1, <2>3, <2>4
<1> QED BY <1>3, <1>4

LEMMA DieType ==
    ASSUME TypeOK, Die, UNCHANGED <<sock, lists>>
    PROVE  SockType' /\ CallType' /\ pc' # "run"
  BY DEF Die, TypeOK, SockType, CallType

LEMMA SendReplyType == ASSUME TypeOK, SendReply PROVE TypeOK'
<1> DEFINE c == queue[at]
           Joined(z, items) == <<[of |-> z.of, type |-> "array", elems |-> items]>>
           outcomes(z) == IF c.list = 0 THEN PlainOutcomes(c.fun, z)
                          ELSE ExecOutcomes(lists[c.list], z)
           results(z, o) == IF c.list = 0 THEN o.items ELSE Joined(z, o.items)
<1>1. pc = "send" /\ Received /\ UNCHANGED <<sock, lists>>
  BY DEF SendReply
<1>2. PICK z \in Zvals :
        /\ GetReply(z, Garbage)
        /\ \E o \in outcomes(z) : IF o.end = "done" THEN SendNext(results(z, o)) ELSE Die
  BY Zenon DEF SendReply
<1>3. PICK o \in outcomes(z) : IF o.end = "done" THEN SendNext(results(z, o)) ELSE Die
  BY <1>2
<1>4. z \in Zval BY ZvalsType
<1>5. results(z, o) \in Seq(Zval)
  <2>1. CASE c.list = 0 BY <2>1, <1>4, PlainOutcomesType
  <2>2. CASE c.list # 0
    <3>1. at \in 1 .. Len(queue) BY <1>1 DEF TypeOK, CallType
    <3>2. c.list \in 1 .. Len(lists) BY <2>2, <3>1 DEF TypeOK, SockType, QueueType
    <3>3. lists[c.list] \in Seq(Node) BY <3>2 DEF TypeOK, SockType, QueueType
    <3>4. o.items \in Seq(Leaf) BY <2>2, <3>3, <1>4, ExecOutcomesType
    <3>5. [of |-> z.of, type |-> "array", elems |-> o.items] \in Zval
      BY <1>4, <3>4 DEF Zval, Types, Arrays
    <3> QED BY <2>2, <3>5
  <2> QED BY <2>1, <2>2
<1> HIDE DEF results, outcomes, c
<1>6. SockType' /\ CallType' /\ pc' # "run"
  BY <1>1, <1>3, <1>5, SendNextType, DieType
<1>7. WireType' /\ ServerType' BY <1>1, <1>2, <1>6, Befores, GetReplyType
<1> QED BY <1>6, <1>7 DEF TypeOK

LEMMA AnswersType == ASSUME SessionAssumption, NEW op \in AllOps
                     PROVE  Answers(op) \subseteq Types
  BY DEF Answers, Answer, AllOps, Types, Arrays

LEMMA ReplyType ==
    ASSUME TypeOK, served < sent, NEW t \in Types, NEW elems \in Seq(Leaf),
           Reply(t, elems)
    PROVE  /\ replies' \in Seq(Zval) /\ Len(replies') = served + 1
           /\ replies'[served + 1] = [of |-> served + 1, type |-> t, elems |-> elems]
           /\ \A i \in 1 .. served : replies'[i] = replies[i]
<1> DEFINE z == [of |-> served + 1, type |-> t, elems |-> elems]
<1>1. z \in Zval BY DEF TypeOK, WireType, Zval
<1>2. replies \in Seq(Zval) /\ served = Len(replies) BY DEF TypeOK, WireType
<1>3. replies' = Append(replies, z) BY DEF Reply
<1> QED BY <1>1, <1>2, <1>3

\* What one step of the server does to the replies and to its transaction.
LEMMA ServeCases ==
    ASSUME SessionAssumption, TypeOK, Serve
    PROVE  /\ served + 1 \in 1 .. issued
           /\ cmds[served + 1] \in AllOps \cup {"MULTI", "EXEC"}
           /\ \E t \in Types, elems \in Seq(Leaf) : Reply(t, elems)
           /\ \/ UNCHANGED txq
              \/ txq' = <<>>
              \/ cmds[served + 1] \in AllOps /\ txq' = Append(txq, served + 1)
           /\ inTx' \in {0, 1}
<1> DEFINE c == cmds[served + 1]
<1>1. served + 1 \in 1 .. issued /\ c \in AllOps \cup {"MULTI", "EXEC"}
  BY DEF Serve, TypeOK, WireType, issued
<1>e. <<>> \in Seq(Leaf) OBVIOUS
<1>2. CASE c = "MULTI"
  <2>1. ServeMulti BY <1>2 DEF Serve
  <2>2. \E t \in Types : Reply(t, <<>>) BY <2>1 DEF ServeMulti, Types
  <2>3. /\ txq' = <<>> \/ UNCHANGED txq
        /\ inTx' \in {0, 1}
    BY <2>1 DEF ServeMulti, serverVars, TypeOK, ServerType
  <2> QED BY <1>1, <1>e, <2>2, <2>3
<1>3. CASE c = "EXEC"
  <2>1. ServeExec BY <1>3 DEF Serve
  <2>2. CASE inTx = 1
    <3> DEFINE elems(t) == [k \in 1 .. Len(txq) |-> [of |-> txq[k], type |-> t[k]]]
    <3>1. PICK t : /\ \A k \in 1 .. Len(txq) : t[k] \in Answers(cmds[txq[k]])
                   /\ Reply("array", elems(t))
      BY <2>1, <2>2 DEF ServeExec
    <3>2. Len(txq) \in Nat BY DEF TypeOK, ServerType
    <3>3. ASSUME NEW k \in 1 .. Len(txq)
          PROVE  [of |-> txq[k], type |-> t[k]] \in Leaf
      <4>1. txq[k] \in Nat /\ cmds[txq[k]] \in AllOps BY DEF TypeOK, ServerType
      <4>2. t[k] \in Types BY <3>1, <4>1, AnswersType
      <4> QED BY <4>1, <4>2 DEF Leaf
    <3>4. elems(t) \in [1 .. Len(txq) -> Leaf] BY <3>3
    <3>5. elems(t) \in Seq(Leaf) BY <3>2, <3>4, SeqDef
    <3>6. txq' = <<>> /\ inTx' = 0 BY <2>1, <2>2 DEF ServeExec
    <3>7. "array" \in Types BY DEF Types, Arrays
    <3> QED BY <1>1, <3>1, <3>5, <3>6, <3>7
  <2>3. CASE inTx # 1
    <3>1. Reply("false", <<>>) /\ UNCHANGED serverVars
      BY <2>1, <2>3 DEF ServeExec
    <3>2. "false" \in Types BY DEF Types
    <3> QED BY <1>1, <1>e, <3>1, <3>2 DEF serverVars, TypeOK, ServerType
  <2> QED BY <2>2, <2>3
<1>4. CASE c \in AllOps
  <2>1. ServeOp(c) BY <1>4 DEF Serve, AllOps
  <2>2. \E t \in Types : Reply(t, <<>>)
    <3>1. {"true", "false"} \subseteq Types BY DEF Types
    <3>2. Answers(c) \subseteq Types BY <1>4, AnswersType
    <3>3. inTx = 0 \/ inTx = 1 BY DEF TypeOK, ServerType
    <3> QED BY <2>1, <3>1, <3>2, <3>3 DEF ServeOp
  <2>3. /\ \/ UNCHANGED txq
           \/ txq' = Append(txq, served + 1)
        /\ inTx' = inTx
    <3>1. inTx = 0 \/ inTx = 1 BY DEF TypeOK, ServerType
    <3> QED BY <2>1, <3>1 DEF ServeOp, serverVars
  <2>4. inTx' \in {0, 1} BY <2>3 DEF TypeOK, ServerType
  <2> QED BY <1>1, <1>4, <1>e, <2>2, <2>3, <2>4
<1> QED BY <1>1, <1>2, <1>3, <1>4

LEMMA ServeType == ASSUME SessionAssumption, TypeOK, Serve PROVE TypeOK'
<1>1. /\ served < sent /\ served' = served + 1
      /\ UNCHANGED <<sockVars, callVars, cmds, sent, fetched, parsed, link>>
  BY DEF Serve
<1>2. SockType' /\ CallType'
  BY <1>1 DEF TypeOK, SockType, CallType, sockVars, callVars
<1>3. PICK t \in Types, elems \in Seq(Leaf) : Reply(t, elems) BY ServeCases
<1>4. replies' \in Seq(Zval) /\ Len(replies') = served + 1
  BY <1>1, <1>3, ReplyType
<1>5. WireType' BY <1>1, <1>4 DEF TypeOK, WireType, issued, callVars
<1>6. ServerType'
  <2>1. txq \in Seq(Nat) /\ served + 1 \in Nat
    BY DEF TypeOK, WireType, ServerType
  <2>2. \A k \in 1 .. Len(txq) : txq[k] \in 1 .. served /\ cmds[txq[k]] \in AllOps
    BY DEF TypeOK, ServerType
  <2>c. inTx' \in {0, 1} BY ServeCases
  <2>3. CASE UNCHANGED txq
    BY <1>1, <2>1, <2>2, <2>3, <2>c DEF ServerType, TypeOK, WireType
  <2>4. CASE txq' = <<>>
    BY <2>4, <2>c DEF ServerType
  <2>5. CASE cmds[served + 1] \in AllOps /\ txq' = Append(txq, served + 1)
    <3>1. txq' \in Seq(Nat) BY <2>1, <2>5
    <3>2. ASSUME NEW k \in 1 .. Len(txq')
          PROVE  txq'[k] \in 1 .. served + 1 /\ cmds[txq'[k]] \in AllOps
      <4>1. served \in Nat BY DEF TypeOK, WireType
      <4>2. CASE k \in 1 .. Len(txq) BY <2>1, <2>2, <2>5, <4>1, <4>2
      <4>3. CASE k = Len(txq) + 1 BY <2>1, <2>5, <4>1, <4>3
      <4> QED BY <2>1, <2>5, <3>2, <4>2, <4>3
    <3> QED BY <1>1, <2>c, <3>1, <3>2 DEF ServerType
  <2> QED BY <2>3, <2>4, <2>5, ServeCases
<1> QED BY <1>2, <1>5, <1>6 DEF TypeOK

LEMMA NextType == ASSUME SessionAssumption, TypeOK, [Next]_vars PROVE TypeOK'
<1>1. CASE Method
  BY <1>1, ConnectType, RefusalType, CloseType, RunType, PipelineType,
     MultiType, MultiPipelinedType, ExecType, ExecPipelinedType, SendType
  DEF Method
<1>2. CASE Progress
  BY <1>2, WireStepType, RunReplyType, MultiReplyType, SkipReplyType,
     TabReplyType, SendReplyType DEF Progress
<1>3. CASE Serve BY <1>3, ServeType
<1>4. CASE ServerCloses BY <1>4, WireStepType
<1>5. CASE UNCHANGED vars
  BY <1>5 DEF vars, sockVars, callVars, wireVars, serverVars, TypeOK, SockType,
              CallType, WireType, ServerType, issued
<1> QED BY <1>1, <1>2, <1>3, <1>4, <1>5 DEF Next

(***************************************************************************)
(* Whatever the script and the server do, the state stays well typed, the  *)
(* counters stay in order, loops stay inside the queue and every list that *)
(* a node or multi_head names exists (redis.c, library.c: redis_enqueue).  *)
(***************************************************************************)
THEOREM TypeCorrect == Spec => []TypeOK
<1>1. Init => TypeOK BY InitType
<1>2. TypeOK /\ [Next]_vars => TypeOK' BY SessionAssumption, NextType
<1> QED BY <1>1, <1>2, PTL DEF Spec

-----------------------------------------------------------------------------
(***************************************************************************)
(* A script that keeps clear of the two patterns that put a RedisSock out  *)
(* of step (a first multi() on a queue that still holds the nodes of       *)
(* earlier calls, an exec() without a multi()), on a server that does not  *)
(* refuse MULTI and with no signal to interrupt it, never reads a reply    *)
(* nobody owes, and never returns the reply of another command: proved for *)
(* scripts of every length.                                                *)
(***************************************************************************)
Careful == {"staleQueue", "strayExec"} \subseteq Avoid /\ "MULTI" \notin Failing
           /\ ~MayInterrupt

\* After the first n commands of s a transaction is open.
Opened(s, n) == \E i \in 1 .. n : /\ s[i] = "MULTI"
                                  /\ \A j \in i + 1 .. n : s[j] # "EXEC"

\* What the server did with the commands it served.
ServerInv ==
    /\ inTx = 1 <=> Opened(cmds, served)
    /\ \A i \in 1 .. served : replies[i].of = i
    /\ \A i \in 1 .. served : cmds[i] = "MULTI" /\ ~Opened(cmds, i - 1)
                                 => replies[i].type = "true"

\* The connection is gone and there is nothing left to read.
Lost == link = "down" /\ parsed = served

\* Between two calls.
Rests ==
    /\ parsed = sent
    /\ multi = 1 <=> mode = "TRANSACTION"
    /\ mode = "TRANSACTION" <=> Opened(cmds, issued)
    /\ Opened(cmds, parsed) <=> mode = "TRANSACTION" /\ pipeline = 0

\* In a call: nothing is half sent, and the call is one the mode allows.
Reads ==
    /\ sent < issued => parsed = sent
    /\ pc \in {"run", "multi", "skip", "tab"} => pipeline = 0
    /\ pc = "send" => pipeline = 1
    /\ pc \in {"run", "multi", "send"} => mode = "DIRECT"
    /\ pc \in {"run", "send"} => multi = 0 /\ ~Opened(cmds, issued)
    /\ pc = "multi" => /\ multi = 1 /\ queue = <<>>
                       /\ cmds[issued] = "MULTI" /\ ~Opened(cmds, issued - 1)
    /\ pc \in {"skip", "tab"} => cmds[issued] = "EXEC"

InStep ==
    /\ parsed + Due = issued
    /\ pc = "idle" => Rests
    /\ Reading => Reads

IInv ==
    /\ TypeOK
    /\ ServerInv
    /\ pc # "dead" /\ pc # "idle" => sock = "open"
    /\ RunAnswered
    /\ sock = "open" /\ pc # "dead" => Lost \/ InStep

-----------------------------------------------------------------------------
(***************************************************************************)
(* Opened, one command at a time.                                          *)
(***************************************************************************)
LEMMA OpenNone == ASSUME NEW s PROVE ~Opened(s, 0)
  BY DEF Opened

LEMMA OpenStep ==
    ASSUME NEW s, NEW n \in Nat
    PROVE  Opened(s, n + 1) <=> \/ s[n + 1] = "MULTI"
                                \/ s[n + 1] # "EXEC" /\ Opened(s, n)
<1>1. ASSUME s[n + 1] = "MULTI" PROVE Opened(s, n + 1)
  BY <1>1 DEF Opened
<1>2. ASSUME s[n + 1] # "EXEC", Opened(s, n) PROVE Opened(s, n + 1)
  <2>1. PICK i \in 1 .. n : s[i] = "MULTI" /\ \A j \in i + 1 .. n : s[j] # "EXEC"
    BY <1>2 DEF Opened
  <2>2. \A j \in i + 1 .. n + 1 : j \in i + 1 .. n \/ j = n + 1 OBVIOUS
  <2>3. i \in 1 .. n + 1 OBVIOUS
  <2> QED BY <1>2, <2>1, <2>2, <2>3 DEF Opened
<1>3. ASSUME Opened(s, n + 1), s[n + 1] # "MULTI"
      PROVE  s[n + 1] # "EXEC" /\ Opened(s, n)
  <2>1. PICK i \in 1 .. n + 1 :
            s[i] = "MULTI" /\ \A j \in i + 1 .. n + 1 : s[j] # "EXEC"
    BY <1>3 DEF Opened
  <2>2. i \in 1 .. n BY <1>3, <2>1
  <2>3. n + 1 \in i + 1 .. n + 1 /\ i + 1 .. n \subseteq i + 1 .. n + 1 BY <2>2
  <2> QED BY <2>1, <2>2, <2>3 DEF Opened
<1>5. CASE s[n + 1] = "MULTI" BY <1>1, <1>5
<1>6. CASE s[n + 1] # "MULTI" BY <1>2, <1>3, <1>6
<1> QED BY <1>5, <1>6

LEMMA OpenPrefix ==
    ASSUME NEW S, NEW s \in Seq(S), NEW c \in S, NEW n \in 0 .. Len(s)
    PROVE  /\ Opened(Append(s, c), n) <=> Opened(s, n)
           /\ Append(s, c)[Len(s) + 1] = c
           /\ Len(Append(s, c)) = Len(s) + 1
<1>1. \A i \in 1 .. n : Append(s, c)[i] = s[i] OBVIOUS
<1>2. ASSUME NEW i \in 1 .. n PROVE i + 1 .. n \subseteq 1 .. n OBVIOUS
<1>3. Opened(Append(s, c), n) <=> Opened(s, n) BY <1>1, <1>2 DEF Opened
<1> QED BY <1>3

LEMMA InitIInv == ASSUME Init PROVE IInv
<1>1. TypeOK BY InitType
<1>2. ServerInv BY OpenNone DEF Init, ServerInv
<1> QED BY <1>1, <1>2 DEF Init, IInv, RunAnswered, Self, Returned

\* Nothing but Serve and Connect concerns what was served.
LEMMA ServerKept ==
    ASSUME TypeOK, ServerInv, UNCHANGED <<inTx, served, replies>>,
           \/ UNCHANGED cmds
           \/ \E c \in AllOps \cup {"MULTI", "EXEC"} : cmds' = Append(cmds, c)
    PROVE  ServerInv'
<1>1. CASE UNCHANGED cmds BY <1>1 DEF ServerInv, Opened
<1>2. ASSUME NEW c \in AllOps \cup {"MULTI", "EXEC"}, cmds' = Append(cmds, c)
      PROVE  ServerInv'
  <2>1. cmds \in Seq(AllOps \cup {"MULTI", "EXEC"}) /\ served \in 0 .. Len(cmds)
    BY DEF TypeOK, WireType, issued
  <2>2. \A n \in 0 .. served : Opened(cmds', n) <=> Opened(cmds, n)
    BY <1>2, <2>1, OpenPrefix
  <2>3. \A i \in 1 .. served : /\ cmds'[i] = cmds[i]
                               /\ i - 1 \in 0 .. served
    BY <1>2, <2>1
  <2>4. Opened(cmds', served') <=> Opened(cmds, served) BY <2>1, <2>2
  <2> QED BY <2>2, <2>3, <2>4 DEF ServerInv
<1> QED BY <1>1, <1>2

\* A command more in the output buffer.
LEMMA AppendOpens ==
    ASSUME TypeOK, NEW c \in AllOps \cup {"MULTI", "EXEC"}, AppendCommand(c)
    PROVE  /\ issued' = issued + 1 /\ issued \in Nat /\ cmds'[issued'] = c
           /\ Opened(cmds, issued)' <=> \/ c = "MULTI"
                                        \/ c # "EXEC" /\ Opened(cmds, issued)
           /\ \A n \in 0 .. issued : Opened(cmds', n) <=> Opened(cmds, n)
           /\ UNCHANGED <<sent, served, fetched, replies, link>>
<1>1. cmds \in Seq(AllOps \cup {"MULTI", "EXEC"}) /\ issued = Len(cmds)
  BY DEF TypeOK, WireType, issued
<1>2. cmds' = Append(cmds, c) /\ UNCHANGED <<sent, served, fetched, replies, link>>
  BY DEF AppendCommand
<1>3. issued' = issued + 1 /\ issued \in Nat /\ cmds'[issued + 1] = c
  BY <1>1, <1>2 DEF issued
<1>4. \A n \in 0 .. issued : Opened(cmds', n) <=> Opened(cmds, n)
  BY <1>1, <1>2, OpenPrefix
<1>5. Opened(cmds', issued + 1) <=> \/ c = "MULTI"
                                    \/ c # "EXEC" /\ Opened(cmds', issued)
  BY <1>3, OpenStep
<1>6. Opened(cmds', issued) <=> Opened(cmds, issued) BY <1>3, <1>4
<1> QED BY <1>2, <1>3, <1>4, <1>5, <1>6

\* The counters, their order, and the reader redis_sock_get drops is empty.
LEMMA Counters ==
    ASSUME TypeOK
    PROVE  /\ parsed \in Nat /\ fetched \in Nat /\ served \in Nat
           /\ sent \in Nat /\ issued \in Nat
           /\ parsed <= fetched /\ fetched <= served
           /\ served <= sent /\ sent <= issued
  BY DEF TypeOK, WireType, issued

LEMMA BeginKeeps ==
    ASSUME IInv, Begin
    PROVE  /\ parsed' = parsed /\ sock = "open" /\ pc = "idle"
           /\ Lost \/ (InStep /\ Rests)
  BY Counters DEF IInv, Begin, NewReader, Lost, InStep, Rests

\* Lost is never left but by connecting again.
LEMMA LostKept ==
    ASSUME Lost, UNCHANGED <<link, served, parsed>>
    PROVE  Lost'
  BY DEF Lost

-----------------------------------------------------------------------------
(***************************************************************************)
(* Calls that send nothing.                                                *)
(***************************************************************************)
LEMMA ConnectIInv == ASSUME TypeOK', Connect PROVE IInv'
<1>1. ServerInv' BY OpenNone DEF Connect, ServerInv
<1>2. InStep'
  <2>1. Due' = 0 BY DEF Connect, Due
  <2>2. issued' = 0 BY DEF Connect, issued
  <2>3. ~Opened(cmds, issued)' /\ ~Opened(cmds, parsed)'
    BY <2>2, OpenNone DEF Connect
  <2> QED BY <2>1, <2>2, <2>3 DEF Connect, InStep, Rests, Reading
<1> QED BY <1>1, <1>2 DEF Connect, IInv, RunAnswered, True, Returned

LEMMA RefusalIInv ==
    ASSUME IInv, TypeOK',
           ConnectFails \/ Unconnected \/ MultiRefused \/ SendRefused
    PROVE  IInv'
<1>1. /\ UNCHANGED <<sockVars, pc, at, out, cmds, sent, served, fetched,
                     replies, link, inTx>>
      /\ pc = "idle" /\ ret'.by # "run"
    BY DEF ConnectFails, Unconnected, MultiRefused, SendRefused, wireVars,
           serverVars, Begin, False, Returned
<1>2. parsed' = parsed
  BY BeginKeeps DEF ConnectFails, Unconnected, MultiRefused, SendRefused, wireVars
<1>3. ServerInv' BY <1>1, ServerKept DEF IInv
<1>4. sock = "open" => (Lost \/ InStep)'
  BY <1>1, <1>2 DEF IInv, Lost, InStep, Rests, Reading, Due, issued, sockVars, Opened
<1> QED BY <1>1, <1>3, <1>4 DEF IInv, RunAnswered, sockVars

LEMMA CloseIInv == ASSUME IInv, TypeOK', Close \/ UseAfterClose PROVE IInv'
<1>1. ServerInv' BY ServerKept DEF IInv, Close, UseAfterClose, wireVars, serverVars
<1> QED BY <1>1 DEF IInv, Close, UseAfterClose, Begin, RunAnswered, True,
                    Returned, sockVars, wireVars

LEMMA PipelineIInv == ASSUME IInv, TypeOK', Pipeline PROVE IInv'
<1>1. ServerInv' BY ServerKept DEF IInv, Pipeline, serverVars
<1>2. Begin BY DEF Pipeline
<1>3. CASE Lost BY <1>1, <1>2, <1>3, BeginKeeps, LostKept
  DEF IInv, Pipeline, RunAnswered, Self, False, Returned
<1>4. CASE InStep /\ Rests
  <2>1. InStep'
    BY <1>2, <1>4, BeginKeeps
    DEF Pipeline, InStep, Rests, Reading, Due, issued, Opened
  <2> QED BY <1>1, <2>1, BeginKeeps
    DEF IInv, Pipeline, Begin, RunAnswered, Self, False, Returned
<1> QED BY <1>2, <1>3, <1>4, BeginKeeps

-----------------------------------------------------------------------------
(***************************************************************************)
(* Calls that send a command.                                              *)
(***************************************************************************)
LEMMA RunIInv ==
    ASSUME IInv, TypeOK', NEW op \in Ops, Run(op)
    PROVE  IInv'
<1>1. op \in AllOps /\ op # "MULTI" /\ op # "EXEC"
  BY SessionAssumption DEF SessionAssumption, AllOps
<1>2. Begin /\ AppendCommand(op) BY DEF Run
<1>3. TypeOK /\ op \in AllOps \cup {"MULTI", "EXEC"} BY <1>1 DEF IInv
<1>4. ServerInv'
  BY <1>2, <1>3, ServerKept DEF IInv, Run, AppendCommand, serverVars
<1>5. parsed' = parsed /\ sock' = "open" /\ sock = "open"
  BY <1>2, BeginKeeps DEF Run
<1>6. RunAnswered' BY DEF Run, RunAnswered, Self, Returned
<1>7. CASE Lost
  <2>1. Lost' BY <1>2, <1>3, <1>5, <1>7, AppendOpens, LostKept
  <2> QED BY <1>4, <1>5, <1>6, <2>1 DEF IInv
<1>8. CASE InStep /\ Rests
  <2>1. Len(queue') = Len(queue) + 1 /\ Len(queue) \in Nat
    BY <1>3 DEF Run, Enqueue, EnqueueInMulti, TypeOK, SockType, QueueType
  <2>2. /\ issued' = issued + 1 /\ cmds'[issued'] = op
        /\ Opened(cmds, issued)' <=> Opened(cmds, issued)
        /\ Opened(cmds', parsed) <=> Opened(cmds, parsed)
        /\ UNCHANGED sent
    BY <1>1, <1>2, <1>3, AppendOpens, Counters
  <2>3. UNCHANGED <<mode, pipeline, multi>> BY DEF Run
  <2>4. multi \in {0, 1} /\ mode \in {"DIRECT", "TRANSACTION"} /\ pipeline \in {0, 1}
    BY <1>3 DEF TypeOK, SockType
  <2>5. parsed + Due = issued /\ pc = "idle" /\ parsed \in Nat /\ issued \in Nat
    BY <1>2, <1>3, <1>8, Counters DEF InStep, Begin
  <2>6. CASE pipeline = 0 /\ multi = 0
    <3>1. pc' = "run" /\ mode = "DIRECT" BY <1>8, <2>4, <2>6 DEF Run, Rests
    <3>2. Due = 0 /\ Due' = 1 BY <2>5, <2>6, <3>1 DEF Due
    <3> QED BY <1>4, <1>5, <1>6, <1>8, <2>2, <2>3, <2>5, <2>6, <3>1, <3>2
      DEF IInv, InStep, Rests, Reads, Reading
  <2>7. CASE ~(pipeline = 0 /\ multi = 0)
    <3>1. pc' = "idle" BY <2>7 DEF Run
    <3>2. Due = Len(queue) /\ Due' = Len(queue')
      BY <1>8, <2>3, <2>4, <2>5, <2>7, <3>1 DEF Due, Rests
    <3> QED BY <1>4, <1>5, <1>6, <1>8, <2>1, <2>2, <2>3, <2>5, <3>1, <3>2
      DEF IInv, InStep, Rests, Reading
  <2> QED BY <2>6, <2>7
<1> QED BY <1>2, <1>7, <1>8, BeginKeeps

LEMMA MultiIInv == ASSUME Careful, IInv, TypeOK', Multi PROVE IInv'
<1>1. Begin /\ AppendCommand("MULTI") /\ TypeOK BY DEF Multi, IInv
<1>2. ServerInv'
  BY <1>1, ServerKept DEF IInv, Multi, AppendCommand, serverVars
<1>3. parsed' = parsed /\ sock' = "open" BY <1>1, BeginKeeps DEF Multi
<1>4. RunAnswered' BY DEF Multi, RunAnswered
<1>5. CASE Lost
  <2>1. Lost' BY <1>1, <1>3, <1>5, AppendOpens, LostKept
  <2> QED BY <1>2, <1>3, <1>4, <2>1 DEF IInv
<1>6. CASE InStep /\ Rests
  <2>1. /\ issued' = issued + 1 /\ issued \in Nat /\ cmds'[issued'] = "MULTI"
        /\ Opened(cmds', issued' - 1) <=> Opened(cmds, issued)
        /\ UNCHANGED sent
    BY <1>1, AppendOpens
  <2>2. Due = 0 /\ Due' = 1 BY <1>1 DEF Multi, Due, Begin
  <2>3. InStep'
    BY <1>1, <1>3, <1>6, <2>1, <2>2, Counters
    DEF Multi, Careful, Begin, InStep, Rests, Reads, Reading
  <2> QED BY <1>2, <1>3, <1>4, <2>3 DEF IInv
<1> QED BY <1>1, <1>5, <1>6, BeginKeeps

LEMMA MultiPipelinedIInv == ASSUME IInv, TypeOK', MultiPipelined PROVE IInv'
<1>1. Begin /\ AppendCommand("MULTI") /\ TypeOK BY DEF MultiPipelined, IInv
<1>2. ServerInv'
  BY <1>1, ServerKept DEF IInv, MultiPipelined, AppendCommand, serverVars
<1>3. parsed' = parsed /\ sock' = "open"
  BY <1>1, BeginKeeps DEF MultiPipelined
<1>4. RunAnswered' BY DEF MultiPipelined, RunAnswered, Self, Returned
<1>5. CASE Lost
  <2>1. Lost' BY <1>1, <1>3, <1>5, AppendOpens, LostKept
  <2> QED BY <1>1, <1>2, <1>3, <1>4, <2>1 DEF IInv, MultiPipelined, Begin
<1>6. CASE InStep /\ Rests
  <2>1. /\ issued' = issued + 1 /\ issued \in Nat
        /\ Opened(cmds, issued)'
        /\ Opened(cmds', parsed) <=> Opened(cmds, parsed)
        /\ UNCHANGED sent
    BY <1>1, AppendOpens, Counters
  <2>2. Len(queue') = Len(queue) + 1 /\ Len(queue) \in Nat
    BY <1>1 DEF MultiPipelined, EnqueueInMulti, TypeOK, SockType, QueueType
  <2>3. Due = Len(queue) /\ Due' = Len(queue')
    BY <1>1 DEF MultiPipelined, Due, Begin
  <2>4. InStep'
    BY <1>1, <1>3, <1>6, <2>1, <2>2, <2>3, Counters
    DEF MultiPipelined, NewTransaction, Begin, InStep, Rests, Reading
  <2> QED BY <1>2, <1>3, <1>4, <2>4 DEF IInv, MultiPipelined, Begin
<1> QED BY <1>1, <1>5, <1>6, BeginKeeps

LEMMA ExecIInv == ASSUME Careful, IInv, TypeOK', Exec PROVE IInv'
<1>1. Begin /\ AppendCommand("EXEC") /\ TypeOK BY DEF Exec, IInv
<1>2. ServerInv'
  BY <1>1, ServerKept DEF IInv, Exec, AppendCommand, serverVars
<1>3. parsed' = parsed /\ sock' = "open" BY <1>1, BeginKeeps DEF Exec, sockVars
<1>4. RunAnswered' BY DEF Exec, RunAnswered
<1>5. CASE Lost
  <2>1. Lost' BY <1>1, <1>3, <1>5, AppendOpens, LostKept
  <2> QED BY <1>2, <1>3, <1>4, <2>1 DEF IInv
<1>6. CASE InStep /\ Rests
  <2>1. /\ issued' = issued + 1 /\ issued \in Nat /\ cmds'[issued'] = "EXEC"
        /\ UNCHANGED sent
    BY <1>1, AppendOpens
  <2>2. mode = "TRANSACTION" /\ pipeline = 0 /\ pc = "idle"
    BY <1>1 DEF Careful, Exec, ExecAllowed, Begin
  <2>3. Due = Len(queue) /\ Len(queue) \in Nat
    BY <1>1, <2>2 DEF Due, TypeOK, SockType, QueueType
  <2>4. Due' = Len(queue) + 1
    <3>1. CASE queue = <<>> BY <3>1 DEF Exec, Due
    <3>2. CASE queue # <<>> BY <2>3, <3>2 DEF Exec, Due, sockVars
    <3> QED BY <3>1, <3>2
  <2>5. InStep'
    BY <1>1, <1>3, <1>6, <2>1, <2>2, <2>3, <2>4, Counters
    DEF Exec, sockVars, InStep, Rests, Reads, Reading
  <2> QED BY <1>2, <1>3, <1>4, <2>5 DEF IInv
<1> QED BY <1>1, <1>5, <1>6, BeginKeeps

LEMMA ExecPipelinedIInv ==
    ASSUME Careful, IInv, TypeOK', ExecPipelined PROVE IInv'
<1>1. Begin /\ AppendCommand("EXEC") /\ TypeOK BY DEF ExecPipelined, IInv
<1>2. ServerInv'
  BY <1>1, ServerKept DEF IInv, ExecPipelined, AppendCommand, serverVars
<1>3. parsed' = parsed /\ sock' = "open" /\ pc = "idle"
  BY <1>1, BeginKeeps DEF ExecPipelined
<1>4. RunAnswered' BY DEF ExecPipelined, RunAnswered, Self, Returned
<1>5. CASE queue = <<>>
  BY <1>2, <1>3, <1>4, <1>5 DEF IInv, ExecPipelined
<1>6. CASE queue # <<>> /\ Lost
  <2>1. Lost' BY <1>1, <1>3, <1>6, AppendOpens, LostKept
  <2> QED BY <1>2, <1>3, <1>4, <2>1 DEF IInv
<1>7. CASE queue # <<>> /\ InStep /\ Rests
  <2>1. /\ issued' = issued + 1 /\ issued \in Nat
        /\ ~Opened(cmds, issued)'
        /\ Opened(cmds', parsed) <=> Opened(cmds, parsed)
        /\ UNCHANGED sent
    BY <1>1, AppendOpens, Counters
  <2>2. Len(queue') = Len(queue) + 1 /\ Len(queue) \in Nat
    BY <1>1, <1>7 DEF ExecPipelined, TypeOK, SockType, QueueType
  <2>3. Due = Len(queue) /\ Due' = Len(queue')
    BY <1>3, <1>7 DEF ExecPipelined, Due
  <2>4. InStep'
    BY <1>1, <1>3, <1>7, <2>1, <2>2, <2>3, Counters
    DEF ExecPipelined, InStep, Rests, Reading
  <2> QED BY <1>2, <1>3, <1>4, <2>4 DEF IInv
<1> QED BY <1>1, <1>5, <1>6, <1>7, BeginKeeps

LEMMA SendIInv == ASSUME IInv, TypeOK', Send PROVE IInv'
<1>1. Begin /\ TypeOK BY DEF Send, IInv
<1>2. ServerInv' BY <1>1, ServerKept DEF IInv, Send, serverVars
<1>3. /\ parsed' = parsed /\ sock' = "open" /\ mode = "DIRECT" /\ pipeline = 1
      /\ UNCHANGED <<sent, served, fetched, cmds, issued, link, mode, multi, queue>>
  BY <1>1, BeginKeeps DEF Send, issued
<1>4. RunAnswered' BY DEF Send, RunAnswered, Returned
<1>5. CASE Lost
  <2>1. Lost' BY <1>3, <1>5, LostKept
  <2> QED BY <1>2, <1>3, <1>4, <2>1 DEF IInv
<1>6. CASE InStep /\ Rests
  <2>1. Due = Len(queue) /\ Len(queue) \in Nat
    BY <1>1, <1>3 DEF Due, Begin, TypeOK, SockType, QueueType
  <2>2. ~Opened(cmds, issued) /\ ~Opened(cmds, issued)' /\ ~Opened(cmds, parsed)'
    BY <1>3, <1>6 DEF Rests
  <2>3. CASE queue = <<>>
    <3>1. pc' = "idle" /\ pipeline' = 0 BY <1>1, <2>3 DEF Send, Begin
    <3>2. Due' = 0 BY <1>3, <3>1 DEF Due
    <3> QED BY <1>2, <1>3, <1>4, <1>6, <2>1, <2>2, <2>3, <3>1, <3>2
      DEF IInv, InStep, Rests, Reading
  <2>4. CASE queue # <<>>
    <3>1. pc' = "send" /\ pipeline' = 1 /\ at' = 1 BY <1>3, <2>4 DEF Send
    <3>2. Due' = Len(queue) BY <1>3, <2>1, <3>1 DEF Due
    <3>3. multi = 0 BY <1>1, <1>3, <1>6 DEF Rests, TypeOK, SockType
    <3> QED BY <1>2, <1>3, <1>4, <1>6, <2>1, <2>2, <3>1, <3>2, <3>3
      DEF IInv, InStep, Rests, Reads, Reading
  <2> QED BY <2>3, <2>4
<1> QED BY <1>1, <1>5, <1>6, BeginKeeps

-----------------------------------------------------------------------------
(***************************************************************************)
(* The connection.                                                         *)
(***************************************************************************)
LEMMA FlushIInv == ASSUME IInv, TypeOK', Flush PROVE IInv'
<1>1. UNCHANGED <<sockVars, callVars, cmds, served, fetched, parsed, replies,
                  link, inTx, issued>>
  BY DEF Flush, serverVars, issued
<1>2. TypeOK /\ Reading /\ sent' = issued BY DEF Flush, Starved, IInv
<1>3. ServerInv' BY <1>1, ServerKept DEF IInv
<1>4. Lost => Lost' BY <1>1, LostKept
<1>5. InStep => InStep'
  BY <1>1, <1>2, Counters
  DEF InStep, Reading, Reads, Rests, Due, sockVars, callVars
<1> QED BY <1>1, <1>2, <1>3, <1>4, <1>5
  DEF IInv, RunAnswered, sockVars, callVars, Reading

LEMMA FetchIInv == ASSUME IInv, TypeOK', Fetch PROVE IInv'
<1>1. UNCHANGED <<sockVars, callVars, cmds, sent, served, parsed, replies,
                  link, inTx, issued>>
  BY DEF Fetch, serverVars, issued
<1>2. Reading BY DEF Fetch, Starved
<1>3. ServerInv' BY <1>1, ServerKept DEF IInv
<1>4. Lost => Lost' BY <1>1, LostKept
<1>5. InStep => InStep'
  BY <1>1, <1>2 DEF InStep, Reading, Reads, Rests, Due, sockVars, callVars
<1> QED BY <1>1, <1>2, <1>3, <1>4, <1>5
  DEF IInv, RunAnswered, sockVars, callVars, Reading

LEMMA ServerClosesIInv == ASSUME IInv, TypeOK', ServerCloses PROVE IInv'
<1>1. UNCHANGED <<sockVars, callVars, cmds, sent, served, fetched, parsed,
                  replies, inTx, issued>>
  BY DEF ServerCloses, serverVars, issued
<1>2. link = "up" /\ link' = "down" BY DEF ServerCloses
<1>3. ServerInv' BY <1>1, ServerKept DEF IInv
<1>4. ~Lost BY <1>2 DEF Lost
<1>5. InStep => InStep'
  BY <1>1 DEF InStep, Reading, Reads, Rests, Due, sockVars, callVars, Opened
<1> QED BY <1>1, <1>3, <1>4, <1>5 DEF IInv, RunAnswered, sockVars, callVars

LEMMA ServeIInv == ASSUME Careful, IInv, TypeOK', Serve PROVE IInv'
<1>1. /\ link = "up" /\ served < sent /\ served' = served + 1
      /\ UNCHANGED <<sockVars, callVars, cmds, sent, fetched, parsed, link, issued>>
      /\ TypeOK
  BY DEF Serve, IInv, issued
<1>2. ServerInv'
  <2> DEFINE n == served + 1
  <2>1. /\ served \in Nat /\ Len(replies) = served /\ replies \in Seq(Zval)
        /\ cmds[n] \in AllOps \cup {"MULTI", "EXEC"} /\ inTx \in {0, 1}
    BY <1>1 DEF TypeOK, WireType, ServerType, issued
  <2>2. PICK t \in Types, elems \in Seq(Leaf) : Reply(t, elems)
    BY <1>1, SessionAssumption, ServeCases
  <2>3. /\ replies'[n].of = n
        /\ \A i \in 1 .. served : replies'[i] = replies[i]
    BY <2>1, <2>2 DEF Reply
  <2>4. Opened(cmds, n) <=> \/ cmds[n] = "MULTI"
                            \/ cmds[n] # "EXEC" /\ Opened(cmds, served)
    BY <2>1, OpenStep
  <2>5. inTx' = 1 <=> \/ cmds[n] = "MULTI"
                      \/ cmds[n] # "EXEC" /\ inTx = 1
    <3>1. CASE cmds[n] = "MULTI"
      BY <2>1, <3>1 DEF Serve, ServeMulti, Careful, serverVars
    <3>2. CASE cmds[n] = "EXEC"
      <4>1. ServeExec BY <3>2 DEF Serve
      <4> QED BY <2>1, <3>2, <4>1 DEF ServeExec, serverVars
    <3>3. CASE cmds[n] \in AllOps
      <4>1. ServeOp(cmds[n]) /\ cmds[n] # "MULTI" /\ cmds[n] # "EXEC"
        BY <3>3 DEF Serve, AllOps
      <4> QED BY <2>1, <4>1 DEF ServeOp, serverVars
    <3> QED BY <2>1, <3>1, <3>2, <3>3
  <2>6. inTx = 1 <=> Opened(cmds, served) BY DEF IInv, ServerInv
  <2>7. cmds[n] = "MULTI" /\ ~Opened(cmds, n - 1) => replies'[n].type = "true"
    <3> SUFFICES ASSUME cmds[n] = "MULTI", ~Opened(cmds, n - 1)
                 PROVE  replies'[n].type = "true"
      OBVIOUS
    <3>1. inTx # 1 BY <2>1, <2>6
    <3>2. Reply("true", <<>>) BY <2>1, <3>1 DEF Serve, ServeMulti, Careful
    <3> QED BY <2>1, <3>2 DEF Reply
  <2>8. inTx' = 1 <=> Opened(cmds, served)' BY <1>1, <2>4, <2>5, <2>6 DEF Opened
  <2>9. \A i \in 1 .. n : replies'[i].of = i
    BY <2>1, <2>3 DEF IInv, ServerInv
  <2>10. \A i \in 1 .. n : cmds[i] = "MULTI" /\ ~Opened(cmds, i - 1)
                                => replies'[i].type = "true"
    BY <2>1, <2>3, <2>7 DEF IInv, ServerInv
  <2> QED BY <1>1, <2>8, <2>9, <2>10 DEF ServerInv, Opened
<1>3. ~Lost BY <1>1 DEF Lost
<1>4. InStep => InStep'
  BY <1>1 DEF InStep, Reading, Reads, Rests, Due, sockVars, callVars, Opened
<1> QED BY <1>1, <1>2, <1>3, <1>4 DEF IInv, RunAnswered, sockVars, callVars

-----------------------------------------------------------------------------
(***************************************************************************)
(* Replies: redisGetReply gives the next reply of a client in step, and    *)
(* fails only on a connection that has nothing more to give.               *)
(***************************************************************************)
LEMMA ReplyInStep ==
    ASSUME Careful, IInv, Reading, Received, NEW z, NEW before, GetReply(z, before)
    PROVE  /\ sock = "open" /\ pc # "dead" /\ ServerInv' /\ issued' = issued
           /\ \/ /\ InStep /\ parsed' = parsed + 1 /\ sent = issued /\ parsed < served
                 /\ z = replies[parsed + 1] /\ z.of = parsed + 1
              \/ Lost' /\ z = before
<1>1. /\ TypeOK /\ sock = "open" /\ pc # "dead" /\ pc # "idle"
      /\ UNCHANGED <<cmds, sent, served, fetched, replies, link, inTx, txq>>
  BY DEF IInv, Reading, Received, serverVars
<1>2. ServerInv' /\ issued' = issued BY <1>1, ServerKept DEF IInv, issued
<1>3. CASE Lost
  BY <1>1, <1>2, <1>3, Counters DEF GetReply, Lost
<1>4. CASE InStep
  <2>1. sent < issued => parsed = sent BY <1>4 DEF InStep, Reads
  <2>2. CASE parsed < fetched /\ parsed' = parsed + 1 /\ z = replies[parsed + 1]
    <3>1. sent = issued /\ parsed + 1 \in 1 .. served BY <1>1, <2>1, <2>2, Counters
    <3>2. z.of = parsed + 1 BY <2>2, <3>1 DEF IInv, ServerInv
    <3> QED BY <1>1, <1>2, <1>4, <2>2, <3>1, <3>2, Counters
  <2>3. CASE /\ link = "down" /\ parsed = fetched
             /\ sent < issued \/ fetched = served
             /\ z = before /\ UNCHANGED parsed
    <3>1. parsed = served BY <1>1, <2>1, <2>3, Counters
    <3> QED BY <1>1, <1>2, <2>3, <3>1 DEF Lost
  <2> QED BY <2>2, <2>3 DEF GetReply, Careful
<1> QED BY <1>1, <1>3, <1>4 DEF IInv

LEMMA RunReplyIInv == ASSUME Careful, IInv, TypeOK', RunReply PROVE IInv'
<1>1. PICK z \in Zvals :
        /\ GetReply(z, Null)
        /\ \E o \in DirectOutcomes(Fun[cmds[issued]], z) :
             IF o.end = "done"
             THEN /\ Finish("run", o.items)
                  /\ UNCHANGED <<mode, pipeline, multi, queue, head, at, out>>
             ELSE Die
  BY DEF RunReply
<1>2. PICK o \in DirectOutcomes(Fun[cmds[issued]], z) :
             IF o.end = "done"
             THEN /\ Finish("run", o.items)
                  /\ UNCHANGED <<mode, pipeline, multi, queue, head, at, out>>
             ELSE Die
  BY <1>1
<1>3. pc = "run" /\ Reading /\ Received /\ sock' = sock BY DEF RunReply, Reading
<1>4. /\ sock = "open" /\ ServerInv' /\ issued' = issued
      /\ \/ /\ InStep /\ parsed' = parsed + 1 /\ sent = issued
            /\ z.of = parsed + 1
         \/ Lost' /\ z = Null
  BY <1>1, <1>3, ReplyInStep
<1>5. CASE o.end # "done"
  BY <1>2, <1>3, <1>4, <1>5 DEF Die, IInv, RunAnswered
<1>6. CASE o.end = "done"
  <2>1. pc' = "idle" /\ ret' = Returned("run", o.items)
        /\ UNCHANGED <<mode, pipeline, multi, queue>>
    BY <1>2, <1>6 DEF Finish
  <2>2. o.items = Validated(Fun[cmds[issued]], z)
    <3>1. \A items : o = Done(items) => o.items = items BY DEF Done
    <3>2. o # Fault BY <1>6 DEF Fault
    <3> QED BY <1>2, <3>1, <3>2, Zenon DEF DirectOutcomes, Outcomes
  <2>3. o.items[1].of = z.of
    <3>1. z \in Zval BY ZvalsType DEF IInv
    <3>2. Fun[cmds[issued]] # "skip"
      BY <1>3 DEF IInv, TypeOK, WireType, AllOps, Fun
    <3> QED BY <2>2, <3>1, <3>2 DEF Validated, Zval
  <2>4. InStep => parsed + 1 = issued BY <1>3 DEF InStep, Due
  <2>5. z.of \in {issued, 0} BY <1>4, <2>4 DEF Null, Z
  <2>6. RunAnswered' BY <1>4, <2>1, <2>3, <2>5 DEF RunAnswered, Returned
  <2>7. CASE Lost' BY <1>3, <1>4, <2>1, <2>6, <2>7 DEF IInv
  <2>8. CASE InStep /\ parsed' = parsed + 1 /\ sent = issued
    <3>1. Reads BY <1>3, <2>8 DEF InStep
    <3>2. mode = "DIRECT" /\ pipeline = 0 /\ multi = 0 /\ ~Opened(cmds, issued)
      BY <1>3, <3>1 DEF Reads
    <3>3. Due' = 0 BY <2>1, <3>2 DEF Due
    <3>4. parsed' = issued /\ issued \in Nat BY <2>4, <2>8, Counters DEF IInv
    <3>5. cmds' = cmds /\ sent' = sent BY <1>3 DEF Received
    <3> QED BY <1>3, <1>4, <2>1, <2>6, <2>8, <3>2, <3>3, <3>4, <3>5
      DEF IInv, InStep, Rests, Reading
  <2> QED BY <1>4, <2>7, <2>8
<1> QED BY <1>5, <1>6

LEMMA MultiReplyIInv == ASSUME Careful, IInv, TypeOK', MultiReply PROVE IInv'
<1>1. PICK z \in Zvals :
         /\ GetReply(z, Garbage)
         /\ \/ /\ z.type \in {"true", "undef"}
               /\ NewTransaction
               /\ pc' = "idle" /\ ret' = Self
               /\ UNCHANGED <<pipeline, multi, queue, at, out>>
            \/ /\ z.type # "true"
               /\ pc' = "idle" /\ ret' = False
               /\ UNCHANGED <<mode, pipeline, multi, queue, head, at, out>>
            \/ z.type = "undef" /\ Die
  BY DEF MultiReply
<1>2. pc = "multi" /\ Reading /\ Received /\ sock' = sock BY DEF MultiReply, Reading
<1>3. /\ sock = "open" /\ ServerInv' /\ issued' = issued
      /\ \/ /\ InStep /\ parsed' = parsed + 1 /\ sent = issued /\ parsed < served
            /\ z = replies[parsed + 1]
         \/ Lost'
  BY <1>1, <1>2, ReplyInStep
<1>4. RunAnswered' BY <1>1 DEF Die, RunAnswered, Self, False, Returned
<1>5. CASE Lost' BY <1>2, <1>3, <1>1, <1>4, <1>5 DEF Die, IInv
<1>6. CASE /\ InStep /\ parsed' = parsed + 1 /\ sent = issued /\ parsed < served
           /\ z = replies[parsed + 1]
  <2>1. Reads /\ parsed + 1 = issued BY <1>2, <1>6 DEF InStep, Due
  <2>2. /\ pipeline = 0 /\ multi = 1 /\ queue = <<>>
        /\ cmds[issued] = "MULTI" /\ ~Opened(cmds, issued - 1)
    BY <1>2, <2>1 DEF Reads
  <2>3. issued \in 1 .. served /\ issued - 1 \in Nat
    BY <1>6, <2>1, Counters DEF IInv
  <2>4. z.type = "true" BY <1>6, <2>1, <2>2, <2>3 DEF IInv, ServerInv
  <2>5. /\ NewTransaction /\ pc' = "idle"
        /\ UNCHANGED <<pipeline, multi, queue, cmds, sent>>
    BY <1>1, <1>2, <2>4 DEF Received
  <2>6. Opened(cmds, issued) BY <2>2, <2>3, OpenStep
  <2>7. Due' = 0 BY <2>2, <2>5 DEF Due, NewTransaction
  <2>8. parsed' = issued BY <1>6, <2>1
  <2> QED BY <1>2, <1>3, <1>4, <1>6, <2>2, <2>3, <2>5, <2>6, <2>7, <2>8
    DEF IInv, InStep, Rests, Reading, NewTransaction
<1> QED BY <1>3, <1>5, <1>6

LEMMA SkipReplyIInv == ASSUME Careful, IInv, TypeOK', SkipReply PROVE IInv'
<1>1. PICK z \in Zvals : GetReply(z, Garbage) BY DEF SkipReply
<1>2. pc = "skip" /\ Reading /\ Received /\ sock' = sock BY DEF SkipReply, Reading
<1>3. /\ UNCHANGED <<mode, pipeline, multi, queue>>
      /\ \/ pc' = "dead"
         \/ /\ pc' = IF at = Len(queue) THEN "tab" ELSE "skip"
            /\ at' = at + 1
  BY DEF SkipReply, Die
<1>4. /\ sock = "open" /\ ServerInv' /\ issued' = issued
      /\ \/ InStep /\ parsed' = parsed + 1 /\ sent = issued
         \/ Lost'
  BY <1>1, <1>2, ReplyInStep
<1>5. pc' # "idle" /\ RunAnswered' BY <1>3 DEF RunAnswered
<1>6. CASE pc' = "dead" \/ Lost' BY <1>2, <1>4, <1>5, <1>6 DEF IInv
<1>7. CASE pc' # "dead" /\ InStep /\ parsed' = parsed + 1 /\ sent = issued
  <2>1. Reads /\ parsed + Due = issued /\ Due = Len(queue) - at + 2
    BY <1>2, <1>7 DEF InStep, Due
  <2>2. at \in 1 .. Len(queue) /\ Len(queue) \in Nat
    BY <1>2 DEF IInv, TypeOK, CallType, SockType, QueueType
  <2>3. Due' = Due - 1 BY <1>3, <1>7, <2>1, <2>2 DEF Due
  <2>4. parsed' + Due' = issued
    BY SMTT(30), <1>7, <2>1, <2>2, <2>3, Counters DEF IInv
  <2>5. cmds' = cmds /\ sent' = sent /\ pc' \in {"skip", "tab"} /\ issued \in Nat
    BY <1>2, <1>3, <1>7, Counters DEF Received, IInv
  <2> QED BY <1>2, <1>3, <1>4, <1>5, <1>7, <2>1, <2>4, <2>5
    DEF IInv, InStep, Reads, Reading
<1> QED BY <1>4, <1>6, <1>7

LEMMA TabReplyIInv == ASSUME Careful, IInv, TypeOK', TabReply PROVE IInv'
<1>1. PICK z \in Zvals : GetReply(z, Garbage) BY DEF TabReply
<1>2. pc = "tab" /\ Reading /\ Received /\ sock' = sock BY DEF TabReply, Reading
<1>3. \/ pc' = "dead"
      \/ /\ pc' = "idle" /\ multi' = 0 /\ mode' = "DIRECT"
         /\ UNCHANGED <<pipeline, queue>> /\ ret'.by = "exec"
  <2> DEFINE zvals(o) == [k \in DOMAIN o.items |-> Z(o.items[k].of, o.items[k].type)]
  <2>1. \E o : IF o.end = "done"
               THEN /\ Finish("exec", zvals(o)) /\ EndTransaction
                    /\ UNCHANGED <<pipeline, queue, at, out>>
               ELSE Die
    BY Zenon DEF TabReply
  <2> HIDE DEF zvals
  <2> QED BY <2>1 DEF Die, Finish, EndTransaction, Returned
<1>4. /\ sock = "open" /\ ServerInv' /\ issued' = issued
      /\ \/ InStep /\ parsed' = parsed + 1 /\ sent = issued
         \/ Lost'
  BY <1>1, <1>2, ReplyInStep
<1>5. RunAnswered' BY <1>3 DEF RunAnswered
<1>6. CASE pc' = "dead" \/ Lost' BY <1>2, <1>4, <1>5, <1>6 DEF IInv
<1>7. CASE pc' # "dead" /\ InStep /\ parsed' = parsed + 1 /\ sent = issued
  <2>1. Reads /\ parsed + 1 = issued BY <1>2, <1>7 DEF InStep, Due
  <2>2. pipeline = 0 /\ cmds[issued] = "EXEC" BY <1>2, <2>1 DEF Reads
  <2>3. parsed \in Nat BY Counters DEF IInv
  <2>4. ~Opened(cmds, issued) BY <2>1, <2>2, <2>3, OpenStep
  <2>5. Due' = 0 BY <1>3, <1>7, <2>2 DEF Due
  <2>6. cmds' = cmds /\ sent' = sent BY <1>2 DEF Received
  <2>7. parsed' = issued BY <1>7, <2>1
  <2> QED BY <1>2, <1>3, <1>4, <1>5, <1>7, <2>1, <2>2, <2>3, <2>4, <2>5, <2>6, <2>7
    DEF IInv, InStep, Rests, Reading
<1> QED BY <1>4, <1>6, <1>7

LEMMA SendReplyIInv == ASSUME Careful, IInv, TypeOK', SendReply PROVE IInv'
<1>1. PICK z \in Zvals : GetReply(z, Garbage) BY DEF SendReply
<1>2. pc = "send" /\ Reading /\ Received /\ sock' = sock BY DEF SendReply, Reading
<1>3. \/ pc' = "dead"
      \/ \E items : SendNext(items)
  BY Zenon DEF SendReply, Die
<1>4. /\ sock = "open" /\ ServerInv' /\ issued' = issued
      /\ \/ InStep /\ parsed' = parsed + 1 /\ sent = issued
         \/ Lost'
  BY <1>1, <1>2, ReplyInStep
<1>5. RunAnswered'
  BY <1>2, <1>3 DEF RunAnswered, SendNext, Finish, Returned
<1>6. CASE pc' = "dead" \/ Lost' BY <1>2, <1>4, <1>5, <1>6 DEF IInv
<1>7. CASE pc' # "dead" /\ InStep /\ parsed' = parsed + 1 /\ sent = issued
  <2>1. Reads /\ parsed + Due = issued /\ Due = Len(queue) - at + 1
    BY <1>2, <1>7 DEF InStep, Due
  <2>2. at \in 1 .. Len(queue) /\ Len(queue) \in Nat
    BY <1>2 DEF IInv, TypeOK, CallType, SockType, QueueType
  <2>3. mode = "DIRECT" /\ pipeline = 1 /\ multi = 0 /\ ~Opened(cmds, issued)
    BY <1>2, <2>1 DEF Reads
  <2>4. cmds' = cmds /\ sent' = sent /\ parsed \in Nat /\ issued \in Nat
    BY <1>2, Counters DEF Received, IInv
  <2>5. CASE at = Len(queue)
    <3>1. pipeline' = 0 /\ pc' = "idle" /\ UNCHANGED <<mode, multi>>
      BY <1>3, <1>7, <2>5 DEF SendNext, Finish
    <3>2. Due' = 0 /\ parsed' = issued BY <1>7, <2>1, <2>2, <2>3, <2>4, <2>5, <3>1 DEF Due
    <3> QED BY <1>2, <1>4, <1>5, <1>7, <2>3, <2>4, <3>1, <3>2
      DEF IInv, InStep, Rests, Reading
  <2>6. CASE at # Len(queue)
    <3>1. at' = at + 1 /\ UNCHANGED <<pipeline, queue, pc, mode, multi>>
      BY <1>3, <1>7, <2>6 DEF SendNext
    <3>2. parsed' + Due' = issued BY <1>2, <1>7, <2>1, <2>2, <2>4, <3>1 DEF Due
    <3> QED BY <1>2, <1>4, <1>5, <1>7, <2>1, <2>4, <3>1, <3>2
      DEF IInv, InStep, Reads, Reading
  <2> QED BY <2>5, <2>6
<1> QED BY <1>4, <1>6, <1>7

LEMMA NextIInv == ASSUME Careful, IInv, [Next]_vars PROVE IInv'
<1>1. TypeOK /\ TypeOK' BY SessionAssumption, NextType DEF IInv
<1>2. CASE Method
  BY <1>1, <1>2, ConnectIInv, RefusalIInv, CloseIInv, RunIInv, PipelineIInv,
     MultiIInv, MultiPipelinedIInv, ExecIInv, ExecPipelinedIInv, SendIInv
  DEF Method
<1>3. CASE Progress
  BY <1>1, <1>3, FlushIInv, FetchIInv, RunReplyIInv, MultiReplyIInv,
     SkipReplyIInv, TabReplyIInv, SendReplyIInv DEF Progress
<1>4. CASE Serve BY <1>1, <1>4, ServeIInv
<1>5. CASE ServerCloses BY <1>1, <1>5, ServerClosesIInv
<1>6. CASE UNCHANGED vars
  BY <1>1, <1>6 DEF vars, sockVars, callVars, wireVars, serverVars, IInv, ServerInv,
     RunAnswered, Lost, InStep, Rests, Reads, Reading, Due, issued, Opened
<1> QED BY <1>2, <1>3, <1>4, <1>5, <1>6 DEF Next

LEMMA Holds == ASSUME Careful PROVE Spec => []IInv
<1>1. Init => IInv BY InitIInv
<1>2. IInv /\ [Next]_vars => IInv' BY NextIInv
<1> QED BY <1>1, <1>2, PTL DEF Spec

-----------------------------------------------------------------------------
(***************************************************************************)
(* What the invariant is for.                                              *)
(***************************************************************************)

(***************************************************************************)
(* exec() and send() never wait for more replies than the server owes      *)
(* (redis.c:423-429, 532-545), however long the script and however many    *)
(* pipelines and transactions it runs.                                     *)
(***************************************************************************)
THEOREM NoOverRead == ASSUME Careful PROVE Spec => []NeverStarves
<1>1. IInv => NeverStarves
  <2> SUFFICES ASSUME IInv, Reading, link = "up" PROVE parsed < issued
    BY DEF NeverStarves
  <2>1. TypeOK /\ pc # "idle" /\ pc # "dead" /\ sock = "open"
    BY DEF IInv, Reading
  <2>2. parsed + Due = issued BY <2>1 DEF IInv, Lost, InStep
  <2>3. Due \in Nat /\ Due > 0
    BY <2>1 DEF Reading, Due, TypeOK, CallType, SockType, QueueType
  <2> QED BY <2>1, <2>2, <2>3, Counters
<1> QED BY <1>1, Holds, PTL

(***************************************************************************)
(* The queue that exec() and send() walk (redis.c:423, 533) has one node   *)
(* for every reply still to be read, until the connection is lost.         *)
(***************************************************************************)
THEOREM QueueAndRepliesMatch == ASSUME Careful PROVE Spec => []QueueMatchesReplies
<1>1. IInv => QueueMatchesReplies
  BY DEF IInv, Lost, InStep, QueueMatchesReplies
<1> QED BY <1>1, Holds, PTL

(***************************************************************************)
(* The reader that redis_sock_get replaces at every call (redis.c:209)     *)
(* never holds a reply, nor does the socket.                               *)
(***************************************************************************)
THEOREM NoReplyThrownAway == ASSUME Careful PROVE Spec => []NothingThrownAway
<1>1. IInv => NothingThrownAway
  BY Counters DEF IInv, Lost, InStep, Rests, NothingThrownAway
<1> QED BY <1>1, Holds, PTL

(***************************************************************************)
(* A direct call (macros.h: REDIS_RUN) returns the reply of its own        *)
(* command, or no reply at all when the connection is lost.                *)
(***************************************************************************)
THEOREM OwnReply == ASSUME Careful PROVE Spec => []RunAnswered
<1>1. IInv => RunAnswered BY DEF IInv
<1> QED BY <1>1, Holds, PTL

(***************************************************************************)
(* Between two calls redis_mode says what the server's transaction state   *)
(* is (redis.c:498, 575, 590).                                             *)
(***************************************************************************)
THEOREM SameMode == ASSUME Careful PROVE Spec => []ModesAgree
<1>1. IInv => ModesAgree
  <2> SUFFICES ASSUME IInv, pc = "idle", sock = "open", link = "up"
               PROVE  inTx = 1 <=> mode = "TRANSACTION" /\ pipeline = 0
    BY DEF ModesAgree
  <2>1. Rests BY DEF IInv, Lost, InStep
  <2>2. served = parsed BY <2>1, Counters DEF Rests, IInv
  <2> QED BY <2>1, <2>2 DEF Rests, IInv, ServerInv
<1> QED BY <1>1, Holds, PTL

-----------------------------------------------------------------------------
(***************************************************************************)
(* What the methods of HiRedisSession return: for every script, replies of *)
(* different commands in the order of the calls; for a script that keeps   *)
(* clear of the patterns, on a connection that holds, no fault and no      *)
(* value that a validator of another command rejected.                     *)
(***************************************************************************)

(***************************************************************************)
(* The order of the results.                                               *)
(***************************************************************************)
\* Every result accumulated so far is of a command whose reply was read.
OutInv == \A k \in DOMAIN out : out[k].of <= parsed /\ Rising(out[k].elems)

ReplyInv == \A i \in 1 .. served : replies[i].of = i /\ Rising(replies[i].elems)

TxqInv == \A j, k \in 1 .. Len(txq) : j < k => txq[j] < txq[k]

OrderInv == OutInv /\ ReplyInv /\ TxqInv /\ ResultsInOrder

LEMMA RisingNone == Rising(<<>>)
  BY DEF Rising

LEMMA RisingOne == ASSUME NEW x PROVE Rising(<<x>>)
  BY DEF Rising

\* Validators change types only.
LEMMA RisingOf ==
    ASSUME NEW S, NEW T, NEW xs \in Seq(S), NEW ys \in Seq(T), Rising(xs),
           Len(ys) <= Len(xs), \A k \in 1 .. Len(ys) : ys[k].of = xs[k].of
    PROVE  Rising(ys)
<1>1. DOMAIN ys = 1 .. Len(ys) /\ DOMAIN xs = 1 .. Len(xs) BY LenProperties
<1>2. 1 .. Len(ys) \subseteq 1 .. Len(xs) BY LenProperties
<1> QED BY <1>1, <1>2 DEF Rising

LEMMA RisingConcat ==
    ASSUME NEW xs \in Seq(Zval), NEW ys \in Seq(Zval), NEW n \in Nat,
           Rising(xs), Len(ys) <= 1,
           \A k \in 1 .. Len(xs) : xs[k].of <= n,
           \A k \in 1 .. Len(ys) : ys[k].of = n + 1 \/ ys[k].of = 0
    PROVE  Rising(xs \o ys)
<1> DEFINE z == xs \o ys
           l == Len(xs)
<1>1. l \in Nat /\ Len(ys) \in Nat BY LenProperties
<1>2. /\ z \in Seq(Zval) /\ Len(z) = l + Len(ys)
      /\ \A k \in 1 .. l + Len(ys) : z[k] = IF k <= l THEN xs[k] ELSE ys[k - l]
  BY ConcatProperties
<1>3. DOMAIN z = 1 .. l + Len(ys) BY <1>2, LenProperties
<1>4. ASSUME NEW j \in DOMAIN z, NEW k \in DOMAIN z, j < k
      PROVE  z[j].of < z[k].of \/ z[j].of = 0 \/ z[k].of = 0
  <2>1. j \in 1 .. l /\ z[j] = xs[j] BY <1>1, <1>2, <1>3, <1>4
  <2>2. xs[j].of \in Nat
    <3>1. xs[j] \in Zval BY <2>1, ElementOfSeq
    <3> QED BY <3>1 DEF Zval
  <2>3. CASE k <= l
    <3>1. z[k] = xs[k] /\ j \in DOMAIN xs /\ k \in DOMAIN xs
      BY <1>1, <1>2, <1>3, <2>1, <2>3, LenProperties
    <3> QED BY <1>4, <2>1, <3>1 DEF Rising
  <2>4. CASE k > l
    <3>1. z[k] = ys[k - l] /\ k - l \in 1 .. Len(ys) BY <1>1, <1>2, <1>3, <2>4
    <3> QED BY <2>1, <2>2, <3>1
  <2> QED BY <1>1, <1>3, <2>3, <2>4
<1> QED BY <1>4 DEF Rising

\* What GetReply yields.
LEMMA ReplyGot ==
    ASSUME TypeOK, ReplyInv, NEW z \in Zvals, NEW before \in {Null, Garbage},
           GetReply(z, before)
    PROVE  /\ z \in Zval /\ Rising(z.elems)
           /\ \/ z.of = parsed + 1 /\ parsed' = parsed + 1
              \/ z.of = 0 /\ parsed' = parsed
<1>1. z \in Zval BY ZvalsType
<1>2. CASE parsed < fetched /\ parsed' = parsed + 1 /\ z = replies[parsed + 1]
  <2>1. parsed + 1 \in 1 .. served BY <1>2, Counters
  <2> QED BY <1>1, <1>2, <2>1 DEF ReplyInv
<1>3. CASE z = before /\ UNCHANGED parsed
  <2>1. z.of = 0 /\ z.elems = <<>> BY <1>3 DEF Null, Garbage, Z
  <2> QED BY <1>1, <1>3, <2>1, RisingNone
<1> QED BY <1>2, <1>3 DEF GetReply

LEMMA ZippedRises ==
    ASSUME NEW list \in Seq(Node), NEW elems \in Seq(Leaf), Rising(elems)
    PROVE  Rising(Zipped(list, elems))
<1> DEFINE n == IF Len(list) <= Len(elems) THEN Len(list) ELSE Len(elems)
           ys == Zipped(list, elems)
<1>1. ys \in Seq(Leaf) BY ZippedType
<1>2. n \in Nat /\ n <= Len(elems) BY LenProperties
<1>3. ys = [k \in 1 .. n |-> [elems[k] EXCEPT !.type = ValidType(list[k].fun, @)]]
  BY DEF Zipped, Pairs
<1>4. Len(ys) = n /\ \A k \in 1 .. n : ys[k].of = elems[k].of
  <2>1. \A k \in 1 .. n : elems[k] \in Leaf BY <1>2, ElementOfSeq
  <2> QED BY <1>1, <1>2, <1>3, <2>1, LenProperties DEF Leaf
<1> QED BY <1>1, <1>2, <1>4, RisingOf

LEMMA ExecItems ==
    ASSUME NEW list \in Seq(Node), NEW z \in Zval, Rising(z.elems),
           NEW o \in ExecOutcomes(list, z)
    PROVE  o.items \in Seq(Leaf) /\ Rising(o.items)
<1>1. o.items \in Seq(Leaf) BY ExecOutcomesType
<1>2. o.items = Zipped(list, z.elems) \/ o.items = <<>>
  <2>1. CASE z.type = "undef" BY <2>1, OutcomesItems, Zenon DEF ExecOutcomes
  <2>2. CASE z.type \in Arrays
    <3>1. z.type # "undef" BY <2>2 DEF Arrays
    <3>2. PICK must, may : o \in Outcomes(IF must THEN {} ELSE {Zipped(list, z.elems)},
                                          must \/ may)
      BY <2>2, <3>1, Zenon DEF ExecOutcomes
    <3> QED BY <3>2, OutcomesItems, Zenon
  <2>3. CASE z.type \notin {"undef"} \cup Arrays
    BY <2>3, OutcomesItems, Zenon DEF ExecOutcomes
  <2> QED BY <2>1, <2>2, <2>3
<1>3. Rising(Zipped(list, z.elems)) BY ZippedRises DEF Zval
<1> QED BY <1>1, <1>2, <1>3, RisingNone

\* A single result, or none: of the command of z, with its elements.
Single(items, z) ==
    /\ items \in Seq(Zval) /\ Len(items) <= 1
    /\ \A k \in 1 .. Len(items) : items[k].of = z.of /\ Rising(items[k].elems)

LEMMA NoneSingle == ASSUME NEW z PROVE Single(<<>>, z)
  BY DEF Single

LEMMA ValidatedSingle ==
    ASSUME NEW fun, NEW z \in Zval, Rising(z.elems)
    PROVE  Single(Validated(fun, z), z)
<1>1. Validated(fun, z) \in Seq(Zval) BY ValidatedType
<1>2. CASE fun = "skip" BY <1>2, NoneSingle DEF Validated
<1>3. CASE fun # "skip"
  <2> DEFINE x == [z EXCEPT !.type = ValidType(fun, @)]
  <2>1. x.of = z.of /\ x.elems = z.elems BY DEF Zval
  <2> HIDE DEF x
  <2>2. Validated(fun, z) = <<x>> BY <1>3 DEF Validated, x
  <2> QED BY <1>1, <2>1, <2>2 DEF Single
<1> QED BY <1>2, <1>3

LEMMA PlainSingle ==
    ASSUME NEW fun, NEW z \in Zval, Rising(z.elems),
           NEW o \in PlainOutcomes(fun, z) \cup DirectOutcomes(fun, z)
    PROVE  Single(o.items, z)
<1>1. o.items \in {Validated(fun, z), <<>>}
  <2>1. CASE o \in PlainOutcomes(fun, z)
    BY <2>1, OutcomesItems, Zenon DEF PlainOutcomes
  <2>2. CASE o \in DirectOutcomes(fun, z)
    BY <2>2, OutcomesItems, Zenon DEF DirectOutcomes
  <2> QED BY <2>1, <2>2
<1> QED BY <1>1, ValidatedSingle, NoneSingle

LEMMA JoinedSingle ==
    ASSUME NEW z \in Zval, NEW items \in Seq(Leaf), Rising(items)
    PROVE  Single(<<[of |-> z.of, type |-> "array", elems |-> items]>>, z)
<1> DEFINE x == [of |-> z.of, type |-> "array", elems |-> items]
<1>1. x \in Zval BY DEF Zval, Types, Arrays
<1>2. x.of = z.of /\ x.elems = items OBVIOUS
<1> HIDE DEF x
<1>3. Single(<<x>>, z) BY <1>1, <1>2 DEF Single
<1> QED BY <1>3 DEF x

LEMMA InitOrder == Init => OrderInv
<1> SUFFICES ASSUME Init PROVE OrderInv OBVIOUS
<1>1. OutInv /\ ReplyInv /\ TxqInv BY DEF Init, OutInv, ReplyInv, TxqInv
<1>2. ResultsInOrder BY RisingNone DEF Init, ResultsInOrder, Self, Returned
<1> QED BY <1>1, <1>2 DEF OrderInv

LEMMA OutKept ==
    ASSUME TypeOK, OutInv, UNCHANGED out, parsed' \in Nat, parsed' >= parsed
    PROVE  OutInv'
<1>1. out \in Seq(Zval) /\ parsed \in Nat BY DEF TypeOK, CallType, WireType
<1>2. \A k \in DOMAIN out : out[k].of \in Nat
  <2>1. \A k \in DOMAIN out : out[k] \in Zval BY <1>1, LenProperties, ElementOfSeq
  <2> QED BY <2>1 DEF Zval
<1>3. \A k \in DOMAIN out : out[k].of <= parsed' BY <1>1, <1>2 DEF OutInv
<1> QED BY <1>3 DEF OutInv

\* Calls, and steps that read no reply.
LEMMA CallOrder ==
    ASSUME TypeOK, OrderInv,
           Method \/ Flush \/ Fetch \/ ServerCloses \/ UNCHANGED vars
    PROVE  OrderInv'
<1> USE DEF OrderInv
<1>1. CASE Connect
  <2>1. OutInv' /\ ReplyInv' /\ TxqInv' BY <1>1 DEF Connect, OutInv, ReplyInv, TxqInv
  <2>2. ret'.items = <<>> /\ out' = <<>> BY <1>1 DEF Connect, True, Returned
  <2>3. ResultsInOrder' BY <2>2, RisingNone DEF ResultsInOrder
  <2> QED BY <2>1, <2>3
<1>2. CASE ~Connect
  <2>1. UNCHANGED <<served, replies, txq>>
    BY <1>2 DEF Method, ConnectFails, Unconnected, Close, UseAfterClose, Run,
           AppendCommand, Pipeline, Multi, MultiPipelined, MultiRefused, Exec,
           ExecPipelined, Send, SendRefused, Flush, Fetch, ServerCloses, vars,
           wireVars, serverVars
  <2>2. ReplyInv' /\ TxqInv' BY <2>1 DEF ReplyInv, TxqInv
  <2>3. UNCHANGED out \/ out' = <<>>
    BY <1>2 DEF Method, ConnectFails, Unconnected, Close, UseAfterClose, Run,
           Pipeline, Multi, MultiPipelined, MultiRefused, Exec, ExecPipelined,
           Send, SendRefused, Flush, Fetch, ServerCloses, vars, callVars
  <2>4. parsed' = parsed \/ parsed' = fetched
    BY <1>2 DEF Method, ConnectFails, Unconnected, Close, UseAfterClose, Run,
           Pipeline, Multi, MultiPipelined, MultiRefused, Exec, ExecPipelined,
           Send, SendRefused, Begin, NewReader, Flush, Fetch, ServerCloses, vars,
           wireVars
  <2>5. OutInv'
    <3>1. CASE UNCHANGED out BY <2>4, <3>1, Counters, OutKept
    <3>2. CASE out' = <<>> BY <3>2 DEF OutInv
    <3> QED BY <2>3, <3>1, <3>2
  <2>6. UNCHANGED ret \/ \E by : ret' = Returned(by, <<>>)
    BY <1>2 DEF Method, ConnectFails, Unconnected, Close, UseAfterClose, Run,
           Pipeline, Multi, MultiPipelined, MultiRefused, Exec, ExecPipelined,
           Send, SendRefused, Flush, Fetch, ServerCloses, vars, callVars,
           False, True, Self
  <2>7. ResultsInOrder'
    <3>1. Rising(out') BY <2>3, RisingNone DEF ResultsInOrder
    <3>2. CASE UNCHANGED ret BY <3>1, <3>2 DEF ResultsInOrder
    <3>3. CASE \E by : ret' = Returned(by, <<>>)
      <4>1. ret'.items = <<>> /\ DOMAIN ret'.items = {} BY <3>3 DEF Returned
      <4> QED BY <3>1, <4>1, RisingNone DEF ResultsInOrder
    <3> QED BY <2>6, <3>2, <3>3
  <2> QED BY <2>2, <2>5, <2>7
<1> QED BY <1>1, <1>2

\* A reply that ends the call, or that the call drops.
LEMMA ReturnOrder ==
    ASSUME TypeOK, OrderInv, Received, UNCHANGED out, parsed' \in {parsed, parsed + 1},
           \/ UNCHANGED ret
           \/ /\ ret'.items \in Seq(Zval) /\ Rising(ret'.items)
              /\ \A k \in 1 .. Len(ret'.items) : Rising(ret'.items[k].elems)
    PROVE  OrderInv'
<1>1. ReplyInv' /\ TxqInv' BY DEF OrderInv, ReplyInv, TxqInv, Received, serverVars
<1>2. OutInv' BY OutKept, Counters DEF OrderInv
<1>3. ResultsInOrder'
  <2>1. CASE UNCHANGED ret BY <2>1 DEF OrderInv, ResultsInOrder
  <2>2. CASE /\ ret'.items \in Seq(Zval) /\ Rising(ret'.items)
             /\ \A k \in 1 .. Len(ret'.items) : Rising(ret'.items[k].elems)
    <3>1. DOMAIN ret'.items = 1 .. Len(ret'.items) BY <2>2, LenProperties
    <3> QED BY <2>2, <3>1 DEF OrderInv, ResultsInOrder
  <2> QED BY <2>1, <2>2
<1> QED BY <1>1, <1>2, <1>3 DEF OrderInv

LEMMA SingleRises ==
    ASSUME NEW items, NEW z, Single(items, z)
    PROVE  /\ items \in Seq(Zval) /\ Rising(items)
           /\ \A k \in 1 .. Len(items) : Rising(items[k].elems)
<1>1. items \in Seq(Zval) /\ Len(items) \in Nat /\ Len(items) <= 1
  BY LenProperties DEF Single
<1>2. DOMAIN items = 1 .. Len(items) BY <1>1, LenProperties
<1>3. \A j, k \in DOMAIN items : ~(j < k) BY <1>1, <1>2
<1> QED BY <1>1, <1>3 DEF Single, Rising

LEMMA RunReplyOrder == ASSUME TypeOK, OrderInv, RunReply PROVE OrderInv'
<1> DEFINE end(o) == IF o.end = "done"
                     THEN /\ Finish("run", o.items)
                          /\ UNCHANGED <<mode, pipeline, multi, queue, head, at, out>>
                     ELSE Die
<1>0. PICK z \in Zvals :
        GetReply(z, Null) /\ \E o \in DirectOutcomes(Fun[cmds[issued]], z) : end(o)
  BY DEF RunReply
<1>1. PICK o \in DirectOutcomes(Fun[cmds[issued]], z) : GetReply(z, Null) /\ end(o)
  BY <1>0
<1>2. z \in Zval /\ Rising(z.elems) /\ parsed' \in {parsed, parsed + 1}
  BY <1>1, ReplyGot DEF OrderInv
<1>3. Received /\ UNCHANGED out /\ (UNCHANGED ret \/ ret'.items = o.items)
  BY <1>1 DEF RunReply, Finish, Die, Returned
<1>4. Single(o.items, z) BY <1>1, <1>2, PlainSingle
<1> QED BY <1>2, <1>3, <1>4, SingleRises, ReturnOrder

LEMMA DroppedOrder == ASSUME TypeOK, OrderInv, MultiReply \/ SkipReply PROVE OrderInv'
<1>1. PICK z \in Zvals : GetReply(z, Garbage) BY DEF MultiReply, SkipReply
<1>2. parsed' \in {parsed, parsed + 1} BY <1>1, ReplyGot DEF OrderInv
<1>3. Received /\ UNCHANGED out /\ (UNCHANGED ret \/ ret'.items = <<>>)
  BY DEF MultiReply, SkipReply, Die, Self, False, Returned
<1>4. ASSUME ret'.items = <<>>
      PROVE  /\ ret'.items \in Seq(Zval) /\ Rising(ret'.items)
             /\ \A k \in 1 .. Len(ret'.items) : Rising(ret'.items[k].elems)
  <2>1. <<>> \in Seq(Zval) /\ Rising(<<>>) BY RisingNone
  <2>2. Len(ret'.items) = 0 BY <1>4
  <2> QED BY <1>4, <2>1, <2>2
<1> QED BY <1>2, <1>3, <1>4, ReturnOrder

LEMMA ListAtType == ASSUME TypeOK PROVE ListAt(head) \in Seq(Node)
<1>1. lists \in Seq(Seq(Node)) /\ head \in 0 .. Len(lists)
  BY DEF TypeOK, SockType, QueueType
<1>2. CASE head = 0
  <2>1. ListAt(head) = <<>> BY <1>2 DEF ListAt
  <2> QED BY <2>1
<1>3. CASE head # 0
  <2>1. head \in 1 .. Len(lists) BY <1>1, <1>3
  <2>2. lists[head] \in Seq(Node) BY <1>1, <2>1, ElementOfSeq
  <2> QED BY <1>3, <2>2 DEF ListAt
<1> QED BY <1>2, <1>3

LEMMA TabReplyOrder == ASSUME TypeOK, OrderInv, TabReply PROVE OrderInv'
<1> DEFINE zvals(o) == [k \in DOMAIN o.items |-> Z(o.items[k].of, o.items[k].type)]
           end(o) == IF o.end = "done"
                     THEN /\ Finish("exec", zvals(o)) /\ EndTransaction
                          /\ UNCHANGED <<pipeline, queue, at, out>>
                     ELSE Die
<1>0. PICK z \in Zvals :
        GetReply(z, Garbage) /\ \E o \in ExecOutcomes(ListAt(head), z) : end(o)
  BY Zenon DEF TabReply
<1>1. PICK o \in ExecOutcomes(ListAt(head), z) : GetReply(z, Garbage) /\ end(o)
  BY <1>0
<1>2. z \in Zval /\ Rising(z.elems) /\ parsed' \in {parsed, parsed + 1}
  BY <1>1, ReplyGot DEF OrderInv
<1>3. ListAt(head) \in Seq(Node) BY ListAtType
<1>4. o.items \in Seq(Leaf) /\ Rising(o.items) BY <1>1, <1>2, <1>3, ExecItems
<1>5. Received /\ UNCHANGED out /\ (UNCHANGED ret \/ ret'.items = zvals(o))
  BY <1>1 DEF TabReply, Finish, Die, Returned
<1>6. /\ zvals(o) \in Seq(Zval) /\ Len(zvals(o)) = Len(o.items)
      /\ \A k \in 1 .. Len(o.items) : /\ zvals(o)[k].of = o.items[k].of
                                      /\ zvals(o)[k].elems = <<>>
  <2>1. DOMAIN o.items = 1 .. Len(o.items) /\ Len(o.items) \in Nat
    BY <1>4, LenProperties
  <2>2. zvals(o) \in Seq(Zval) BY <1>4, LeavesType
  <2> QED BY <2>1, <2>2, LenProperties DEF Z
<1> HIDE DEF zvals
<1>7. Rising(zvals(o))
  <2>1. Len(o.items) \in Nat /\ Len(zvals(o)) <= Len(o.items) BY <1>4, <1>6, LenProperties
  <2>2. \A k \in 1 .. Len(zvals(o)) : zvals(o)[k].of = o.items[k].of BY <1>6
  <2> QED BY <1>4, <1>6, <2>1, <2>2, RisingOf
<1>8. \A k \in 1 .. Len(zvals(o)) : Rising(zvals(o)[k].elems) BY <1>6, RisingNone
<1> QED BY <1>2, <1>5, <1>6, <1>7, <1>8, ReturnOrder

\* send() goes on with one result more, or none.
LEMMA SendNextOrder ==
    ASSUME TypeOK, OrderInv, Received, NEW z \in Zval, NEW items,
           Single(items, z), SendNext(items),
           \/ z.of = parsed + 1 /\ parsed' = parsed + 1
           \/ z.of = 0 /\ parsed' = parsed
    PROVE  OrderInv'
<1> DEFINE all == out \o items
<1>1. /\ out \in Seq(Zval) /\ items \in Seq(Zval) /\ parsed \in Nat
      /\ Len(out) \in Nat /\ Len(items) \in Nat /\ Len(items) <= 1
  BY LenProperties DEF TypeOK, CallType, WireType, Single
<1>2. /\ \A k \in 1 .. Len(out) : out[k].of <= parsed /\ Rising(out[k].elems)
      /\ \A k \in 1 .. Len(out) : out[k].of \in Nat
      /\ Rising(out)
  <2>1. DOMAIN out = 1 .. Len(out) BY <1>1, LenProperties
  <2>2. \A k \in 1 .. Len(out) : out[k] \in Zval BY <1>1, ElementOfSeq
  <2> QED BY <2>1, <2>2 DEF OrderInv, OutInv, ResultsInOrder, Zval
<1>3. \A k \in 1 .. Len(items) : items[k].of = z.of /\ Rising(items[k].elems)
  BY DEF Single
<1>4. Rising(all) BY <1>1, <1>2, <1>3, RisingConcat
<1>5. /\ all \in Seq(Zval) /\ Len(all) = Len(out) + Len(items)
      /\ \A k \in 1 .. Len(out) + Len(items) :
            all[k] = IF k <= Len(out) THEN out[k] ELSE items[k - Len(out)]
  BY <1>1, ConcatProperties
<1>6. \A k \in 1 .. Len(all) : all[k].of <= parsed' /\ Rising(all[k].elems)
  <2> SUFFICES ASSUME NEW k \in 1 .. Len(all)
               PROVE  all[k].of <= parsed' /\ Rising(all[k].elems)
    OBVIOUS
  <2>1. CASE k <= Len(out)
    <3>1. k \in 1 .. Len(out) /\ all[k] = out[k] BY <1>1, <1>5, <2>1
    <3> QED BY <1>1, <1>2, <3>1
  <2>2. CASE k > Len(out)
    <3>1. k - Len(out) \in 1 .. Len(items) /\ all[k] = items[k - Len(out)]
      BY <1>1, <1>5, <2>2
    <3> QED BY <1>1, <1>3, <3>1
  <2> QED BY <1>1, <1>5, <2>1, <2>2
<1>7. ReplyInv' /\ TxqInv' BY DEF OrderInv, ReplyInv, TxqInv, Received, serverVars
<1>8. CASE at = Len(queue)
  <2>1. ret' = Returned("send", all) /\ UNCHANGED out BY <1>8 DEF SendNext, Finish
  <2>2. ret'.items = all BY <2>1 DEF Returned
  <2>3. \A k \in 1 .. Len(all) : Rising(all[k].elems) BY <1>6
  <2> HIDE DEF all
  <2> QED BY <1>1, <1>4, <1>5, <2>1, <2>2, <2>3, ReturnOrder
<1>9. CASE at # Len(queue)
  <2>1. out' = all /\ UNCHANGED ret BY <1>9 DEF SendNext
  <2> HIDE DEF all
  <2>2. DOMAIN all = 1 .. Len(all) BY <1>5, LenProperties
  <2>3. OutInv' BY <1>6, <2>1, <2>2 DEF OutInv
  <2>4. ResultsInOrder' BY <1>4, <2>1 DEF OrderInv, ResultsInOrder
  <2> QED BY <1>7, <2>3, <2>4 DEF OrderInv
<1> QED BY <1>8, <1>9

LEMMA SendReplyOrder == ASSUME TypeOK, OrderInv, SendReply PROVE OrderInv'
<1> DEFINE c == queue[at]
           Joined(z, items) == <<[of |-> z.of, type |-> "array", elems |-> items]>>
           outcomes(z) == IF c.list = 0 THEN PlainOutcomes(c.fun, z)
                          ELSE ExecOutcomes(lists[c.list], z)
           results(z, o) == IF c.list = 0 THEN o.items ELSE Joined(z, o.items)
<1>1. pc = "send" /\ Received /\ UNCHANGED <<sock, lists>>
  BY DEF SendReply
<1>2. PICK z \in Zvals :
        /\ GetReply(z, Garbage)
        /\ \E o \in outcomes(z) : IF o.end = "done" THEN SendNext(results(z, o)) ELSE Die
  BY Zenon DEF SendReply
<1>3. PICK o \in outcomes(z) : IF o.end = "done" THEN SendNext(results(z, o)) ELSE Die
  BY <1>2
<1>4. /\ z \in Zval /\ Rising(z.elems)
      /\ \/ z.of = parsed + 1 /\ parsed' = parsed + 1
         \/ z.of = 0 /\ parsed' = parsed
  BY <1>2, ReplyGot DEF OrderInv
<1>5. Single(results(z, o), z)
  <2>1. CASE c.list = 0 BY <2>1, <1>4, PlainSingle
  <2>2. CASE c.list # 0
    <3>1. at \in 1 .. Len(queue) BY <1>1 DEF TypeOK, CallType
    <3>2. c.list \in 1 .. Len(lists) BY <2>2, <3>1 DEF TypeOK, SockType, QueueType
    <3>3. lists[c.list] \in Seq(Node) BY <3>2 DEF TypeOK, SockType, QueueType
    <3>4. o.items \in Seq(Leaf) /\ Rising(o.items) BY <2>2, <3>3, <1>4, ExecItems
    <3> QED BY <2>2, <3>4, <1>4, JoinedSingle
  <2> QED BY <2>1, <2>2
<1> HIDE DEF results, outcomes, c
<1>6. CASE SendNext(results(z, o)) BY <1>1, <1>4, <1>5, <1>6, SendNextOrder
<1>7. CASE Die
  BY <1>1, <1>4, <1>7, ReturnOrder DEF Die
<1> QED BY <1>3, <1>6, <1>7

\* The elements of the reply to EXEC are those of the commands that were queued,
\* in their order.
LEMMA ServeOrder == ASSUME TypeOK, OrderInv, Serve PROVE OrderInv'
<1>1. /\ served' = served + 1 /\ served < sent /\ served \in Nat /\ served = Len(replies)
      /\ replies \in Seq(Zval) /\ UNCHANGED <<out, parsed, ret>>
  BY DEF Serve, TypeOK, WireType, callVars
<1>2. /\ txq \in Seq(Nat) /\ Len(txq) \in Nat /\ DOMAIN txq = 1 .. Len(txq)
      /\ \A k \in 1 .. Len(txq) : txq[k] \in 1 .. served
  BY LenProperties DEF TypeOK, ServerType
<1>3. \/ UNCHANGED txq
      \/ txq' = <<>>
      \/ cmds[served + 1] \in AllOps /\ txq' = Append(txq, served + 1)
  BY SessionAssumption, ServeCases
<1>4. TxqInv'
  <2>1. CASE txq' = Append(txq, served + 1)
    <3>1. /\ Len(txq') = Len(txq) + 1 /\ txq'[Len(txq) + 1] = served + 1
          /\ \A k \in 1 .. Len(txq) : txq'[k] = txq[k]
      BY <1>1, <1>2, <2>1, AppendProperties
    <3>2. ASSUME NEW j \in 1 .. Len(txq) + 1, NEW k \in 1 .. Len(txq) + 1, j < k
          PROVE  txq'[j] < txq'[k]
      <4>1. j \in 1 .. Len(txq) BY <1>2, <3>2
      <4>2. CASE k \in 1 .. Len(txq) BY <3>1, <3>2, <4>1, <4>2 DEF OrderInv, TxqInv
      <4>3. CASE k = Len(txq) + 1 BY <1>1, <1>2, <3>1, <4>1, <4>3
      <4> QED BY <1>2, <3>2, <4>2, <4>3
    <3> QED BY <3>1, <3>2 DEF TxqInv
  <2>2. CASE UNCHANGED txq BY <2>2 DEF OrderInv, TxqInv
  <2>3. CASE txq' = <<>> BY <2>3 DEF TxqInv
  <2> QED BY <1>3, <2>1, <2>2, <2>3
<1>5. \E t \in Types, elems \in Seq(Leaf) : Reply(t, elems) /\ Rising(elems)
  <2>1. PICK t \in Types, elems \in Seq(Leaf) : Reply(t, elems)
    BY SessionAssumption, ServeCases
  <2>2. \A t2, e2 : Reply(t2, e2) => elems = e2
    <3> SUFFICES ASSUME NEW t2, NEW e2, Reply(t2, e2) PROVE elems = e2 OBVIOUS
    <3>1. Append(replies, [of |-> served + 1, type |-> t, elems |-> elems])
             = Append(replies, [of |-> served + 1, type |-> t2, elems |-> e2])
      BY <2>1 DEF Reply
    <3> DEFINE x == [of |-> served + 1, type |-> t, elems |-> elems]
               y == [of |-> served + 1, type |-> t2, elems |-> e2]
    <3>2. x = y
      <4> HIDE DEF x, y
      <4>1. Append(replies, x)[Len(replies) + 1] = x BY <1>1
      <4>2. Append(replies, y)[Len(replies) + 1] = y BY <1>1
      <4> QED BY <3>1, <4>1, <4>2 DEF x, y
    <3> QED BY <3>2
  <2>3. Rising(elems)
    <3>1. (\E t2 : Reply(t2, <<>>)) => Rising(elems) BY <2>2, RisingNone
    <3>2. (\E t2, f : Reply(t2, [k \in 1 .. Len(txq) |-> [of |-> txq[k], type |-> f[k]]]))
          => Rising(elems)
      <4> SUFFICES ASSUME NEW f, elems = [k \in 1 .. Len(txq) |->
                                            [of |-> txq[k], type |-> f[k]]]
                   PROVE  Rising(elems)
        BY <2>2
      <4>1. DOMAIN elems = 1 .. Len(txq) /\ \A k \in 1 .. Len(txq) : elems[k].of = txq[k]
        OBVIOUS
      <4> QED BY <4>1 DEF Rising, OrderInv, TxqInv
    <3>3. \/ \E t2 : Reply(t2, <<>>)
          \/ \E t2, f : Reply(t2, [k \in 1 .. Len(txq) |-> [of |-> txq[k], type |-> f[k]]])
      <4>1. CASE cmds[served + 1] = "MULTI" BY <4>1 DEF Serve, ServeMulti
      <4>2. CASE cmds[served + 1] = "EXEC" BY <4>2 DEF Serve, ServeExec
      <4>3. CASE cmds[served + 1] \notin {"MULTI", "EXEC"}
        <5>1. ServeOp(cmds[served + 1]) BY <4>3 DEF Serve
        <5>2. inTx = 0 \/ inTx = 1 BY DEF TypeOK, ServerType
        <5> QED BY <5>1, <5>2 DEF ServeOp
      <4> QED BY <4>1, <4>2, <4>3
    <3> QED BY <3>1, <3>2, <3>3
  <2> QED BY <2>1, <2>3
<1>6. ReplyInv'
  <2>1. PICK t \in Types, elems \in Seq(Leaf) : Reply(t, elems) /\ Rising(elems) BY <1>5
  <2>2. /\ replies'[served + 1] = [of |-> served + 1, type |-> t, elems |-> elems]
        /\ \A i \in 1 .. served : replies'[i] = replies[i]
    BY <1>1, <2>1, ReplyType
  <2>3. ASSUME NEW i \in 1 .. served + 1
        PROVE  replies'[i].of = i /\ Rising(replies'[i].elems)
    <3>1. CASE i \in 1 .. served BY <2>2, <3>1 DEF OrderInv, ReplyInv
    <3>2. CASE i = served + 1 BY <2>1, <2>2, <3>2
    <3> QED BY <1>1, <2>3, <3>1, <3>2
  <2> QED BY <1>1, <2>3 DEF ReplyInv
<1>7. OutInv' /\ ResultsInOrder' BY <1>1 DEF OrderInv, OutInv, ResultsInOrder
<1> QED BY <1>4, <1>6, <1>7 DEF OrderInv

LEMMA NextOrder == ASSUME TypeOK, OrderInv, [Next]_vars PROVE OrderInv'
  BY CallOrder, RunReplyOrder, DroppedOrder, TabReplyOrder, SendReplyOrder, ServeOrder
     DEF Next, Progress

(***************************************************************************)
(* Whatever the script does, even out of step with the server, on a        *)
(* connection that may be lost: what exec() and send() return, and what is *)
(* within it, are replies of different commands in the order of the calls  *)
(* (redis.c: redis_sock_read_multibulk_multi_reply, PHP_METHOD send).      *)
(***************************************************************************)
THEOREM OrderKept == Spec => []ResultsInOrder
<1>1. Init => TypeOK /\ OrderInv BY InitType, InitOrder
<1>2. TypeOK /\ OrderInv /\ [Next]_vars => (TypeOK /\ OrderInv)'
  BY SessionAssumption, NextType, NextOrder
<1>3. OrderInv => ResultsInOrder BY DEF OrderInv
<1> QED BY <1>1, <1>2, <1>3, PTL DEF Spec

-----------------------------------------------------------------------------
(***************************************************************************)
(* No fault and no rejected value.  The script keeps clear of every        *)
(* pattern, the connection holds, no call is interrupted, the server       *)
(* queues what it is told to queue, and no setnx fails:                    *)
(* redis_reply_long_as_bool_ takes no error.                               *)
(***************************************************************************)
Tidy == /\ Avoid = Patterns
        /\ Ops \cap Malformed = {} /\ "MULTI" \notin Failing
        /\ "setnx" \notin Ops \cap Failing /\ ~MayInterrupt

Clean == Tidy /\ ~MayClose

\* The commands m .. n of s are a transaction not yet executed.
Tx(s, m, n) == m \in 1 .. n /\ s[m] = "MULTI" /\ \A j \in m + 1 .. n : s[j] \in Ops

\* Transactions are opened and executed by turns.
WellFormed ==
    \A i \in 1 .. issued :
        /\ cmds[i] \in Ops \cup {"MULTI", "EXEC"}
        /\ cmds[i] = "MULTI" => ~Opened(cmds, i - 1)
        /\ cmds[i] = "EXEC" => Opened(cmds, i - 1)

\* The server has queued the commands since MULTI, one after the other.
RightTxq ==
    inTx = 1 => \A m \in 1 .. served : Tx(cmds, m, served) =>
                    Len(txq) = served - m /\ \A k \in 1 .. served - m : txq[k] = m + k

\* What the reply to command i of s holds.
RightReply(s, z, i) ==
    /\ z.type # "undef"
    /\ s[i] \in Ops /\ ~Opened(s, i - 1) => z.type \in Answers(s[i]) /\ z.elems = <<>>
    /\ s[i] = "EXEC" =>
           /\ z.type = "array"
           /\ \A m \in 1 .. i - 1 : Tx(s, m, i - 1) =>
                /\ Len(z.elems) = i - 1 - m
                /\ \A k \in 1 .. i - 1 - m : /\ z.elems[k].of = m + k
                                             /\ z.elems[k].type \in Answers(s[m + k])
RightReplies == \A i \in 1 .. served : RightReply(cmds, replies[i], i)

\* list has the validators of the transaction that ends with command n of s;
\* the status node of a later multi() may follow them.
Fits(s, list, n) ==
    \A m \in 1 .. n : Tx(s, m, n) =>
        /\ Len(list) >= n - m
        /\ \A k \in 1 .. n - m : list[k].fun = Fun[s[m + k]] /\ s[m + k] # "hmget"

\* A node of a pipeline has the validator of its command, or its list.
RightNode(s, l, n) ==
    \/ n.list = 0 /\ n.fun = "skip"
    \/ /\ n.list = 0 /\ n.fun = Fun[s[n.of]]
       /\ s[n.of] \in Ops \ {"hmget"} /\ ~Opened(s, n.of - 1)
    \/ n.list # 0 /\ s[n.of] = "EXEC" /\ Fits(s, l[n.list], n.of - 1)

\* A pipeline has a node for each of the last commands, in their order.
RightQueue ==
    pipeline = 1 =>
        /\ Len(queue) <= issued
        /\ \A k \in 1 .. Len(queue) : /\ queue[k].of = issued - Len(queue) + k
                                      /\ RightNode(cmds, lists, queue[k])

\* The list that is being built, or that exec() is about to apply.
TxEnd == IF pc = "idle" THEN issued ELSE issued - 1
RightList ==
    mode = "TRANSACTION" =>
        /\ Fits(cmds, ListAt(head), TxEnd)
        /\ \A m \in 1 .. TxEnd : Tx(cmds, m, TxEnd) => Len(ListAt(head)) = TxEnd - m

ExecMode == pc \in {"skip", "tab"} => mode = "TRANSACTION"

\* Nothing was returned, or is about to be, that a validator rejected.
Honest(x) ==
    /\ x.type \in {"false", "null"} => RefusedByServer(x.of)
    /\ \A e \in DOMAIN x.elems :
         x.elems[e].type \in {"false", "null"} => RefusedByServer(x.elems[e].of)
HonestResults == /\ \A k \in DOMAIN ret.items : Honest(ret.items[k])
                 /\ \A k \in DOMAIN out : Honest(out[k])

FInv == /\ link = "up" /\ pc # "dead"
        /\ WellFormed /\ RightTxq /\ RightReplies
        /\ RightQueue /\ RightList /\ ExecMode /\ HonestResults

-----------------------------------------------------------------------------
(***************************************************************************)
(* Commands once issued, and nodes once enqueued, stay where they are.     *)
(***************************************************************************)
Grows(s, t) == Len(t) >= Len(s) /\ \A i \in 1 .. Len(s) : t[i] = s[i]

LEMMA GrowsBy ==
    ASSUME NEW S, NEW s \in Seq(S), NEW c \in S
    PROVE  Grows(s, s) /\ Grows(s, Append(s, c))
<1>1. Len(s) \in Nat BY LenProperties
<1>2. Len(Append(s, c)) = Len(s) + 1 /\ \A i \in 1 .. Len(s) : Append(s, c)[i] = s[i]
  BY AppendProperties
<1> QED BY <1>1, <1>2 DEF Grows

LEMMA TxNone == ASSUME NEW s, NEW m PROVE ~Tx(s, m, 0)
  BY DEF Tx

\* A transaction, one command at a time.
LEMMA TxStep ==
    ASSUME NEW s, NEW n \in Nat, NEW m, Tx(s, m, n + 1)
    PROVE  \/ m = n + 1 /\ s[n + 1] = "MULTI"
           \/ m \in 1 .. n /\ Tx(s, m, n) /\ s[n + 1] \in Ops
<1>1. m \in 1 .. n + 1 /\ s[m] = "MULTI" /\ \A j \in m + 1 .. n + 1 : s[j] \in Ops
  BY DEF Tx
<1>2. CASE m \in 1 .. n
  <2>1. n + 1 \in m + 1 .. n + 1 /\ m + 1 .. n \subseteq m + 1 .. n + 1 BY <1>2
  <2> QED BY <1>1, <1>2, <2>1 DEF Tx
<1>3. CASE m = n + 1 BY <1>1, <1>3
<1> QED BY <1>1, <1>2, <1>3

\* Where a transaction is open, one can say where it began.
LEMMA OpenTx ==
    ASSUME WellFormed, issued \in Nat, NEW n \in 0 .. issued, Opened(cmds, n)
    PROVE  \E m \in 1 .. n : Tx(cmds, m, n)
<1>1. PICK m \in 1 .. n : cmds[m] = "MULTI" /\ \A j \in m + 1 .. n : cmds[j] # "EXEC"
  BY DEF Opened
<1>2. ASSUME NEW j \in m + 1 .. n PROVE cmds[j] \in Ops
  <2>1. m \in 1 .. j - 1 /\ m + 1 .. j - 1 \subseteq m + 1 .. n /\ j \in 1 .. issued
    OBVIOUS
  <2>2. Opened(cmds, j - 1) BY <1>1, <2>1 DEF Opened
  <2> QED BY <1>1, <2>1, <2>2 DEF WellFormed
<1> QED BY <1>1, <1>2 DEF Tx

LEMMA GrowsTx ==
    ASSUME NEW s, NEW t, Grows(s, t), Len(s) \in Nat, NEW n \in 0 .. Len(s)
    PROVE  /\ Opened(t, n) <=> Opened(s, n)
           /\ \A m : Tx(t, m, n) <=> Tx(s, m, n)
<1>1. \A i \in 1 .. n : t[i] = s[i] BY DEF Grows
<1>2. ASSUME NEW i \in 1 .. n PROVE i + 1 .. n \subseteq 1 .. n OBVIOUS
<1> QED BY <1>1, <1>2 DEF Opened, Tx

LEMMA GrowsFits ==
    ASSUME NEW s, NEW t, Grows(s, t), Len(s) \in Nat, NEW n \in 0 .. Len(s),
           NEW x, NEW y, Grows(x, y), Len(x) \in Nat, Len(y) \in Nat, Fits(s, x, n)
    PROVE  Fits(t, y, n)
<1> SUFFICES ASSUME NEW m \in 1 .. n, Tx(t, m, n)
             PROVE  /\ Len(y) >= n - m
                    /\ \A k \in 1 .. n - m : y[k].fun = Fun[t[m + k]] /\ t[m + k] # "hmget"
  BY DEF Fits
<1>1. /\ Len(x) >= n - m
      /\ \A k \in 1 .. n - m : x[k].fun = Fun[s[m + k]] /\ s[m + k] # "hmget"
  BY GrowsTx DEF Fits
<1>2. \A k \in 1 .. n - m : m + k \in 1 .. Len(s) /\ k \in 1 .. Len(x) BY <1>1
<1>3. \A k \in 1 .. n - m : t[m + k] = s[m + k] /\ y[k] = x[k] BY <1>2 DEF Grows
<1> QED BY <1>1, <1>3 DEF Grows

LEMMA GrowsReply ==
    ASSUME NEW s, NEW t, Grows(s, t), Len(s) \in Nat, NEW i \in 1 .. Len(s),
           NEW z, RightReply(s, z, i)
    PROVE  RightReply(t, z, i)
<1>1. t[i] = s[i] /\ i - 1 \in 0 .. Len(s) BY DEF Grows
<1>2. /\ Opened(t, i - 1) <=> Opened(s, i - 1)
      /\ \A m : Tx(t, m, i - 1) <=> Tx(s, m, i - 1)
  BY <1>1, GrowsTx
<1>3. ASSUME NEW m \in 1 .. i - 1, NEW k \in 1 .. i - 1 - m PROVE t[m + k] = s[m + k]
  <2>1. m + k \in 1 .. Len(s) OBVIOUS
  <2> QED BY <2>1 DEF Grows
<1>4. ASSUME s[i] = "EXEC", NEW m \in 1 .. i - 1, Tx(s, m, i - 1)
      PROVE  /\ Len(z.elems) = i - 1 - m
             /\ \A k \in 1 .. i - 1 - m : /\ z.elems[k].of = m + k
                                          /\ z.elems[k].type \in Answers(t[m + k])
  <2>1. /\ Len(z.elems) = i - 1 - m
        /\ \A k \in 1 .. i - 1 - m : /\ z.elems[k].of = m + k
                                     /\ z.elems[k].type \in Answers(s[m + k])
    BY <1>4 DEF RightReply
  <2> QED BY <1>3, <2>1
<1> QED BY <1>1, <1>2, <1>4, Zenon DEF RightReply

LEMMA GrowsNode ==
    ASSUME NEW s, NEW t, Grows(s, t), Len(s) \in Nat, NEW n, n.of \in 1 .. Len(s),
           NEW l, NEW h, RightNode(s, l, n),
           n.list # 0 => /\ Grows(l[n.list], h[n.list])
                         /\ Len(l[n.list]) \in Nat /\ Len(h[n.list]) \in Nat
    PROVE  RightNode(t, h, n)
<1>1. t[n.of] = s[n.of] /\ n.of - 1 \in 0 .. Len(s) BY DEF Grows
<1>2. Opened(t, n.of - 1) <=> Opened(s, n.of - 1) BY <1>1, GrowsTx
<1>3. n.list # 0 /\ Fits(s, l[n.list], n.of - 1) => Fits(t, h[n.list], n.of - 1)
  BY <1>1, GrowsFits
<1> QED BY <1>1, <1>2, <1>3 DEF RightNode

-----------------------------------------------------------------------------
(***************************************************************************)
(* What the methods leave as it is.                                        *)
(***************************************************************************)
\* The commands of one connection: as they were, or one more, which opens a
\* transaction only when none is open and executes only one that is.
OneMore == \E c \in Ops \cup {"MULTI", "EXEC"} :
              /\ AppendCommand(c)
              /\ c = "MULTI" => ~Opened(cmds, issued)
              /\ c = "EXEC" => Opened(cmds, issued)

LEMMA CommandsGrow ==
    ASSUME TypeOK, UNCHANGED cmds \/ OneMore
    PROVE  /\ issued \in Nat /\ Grows(cmds, cmds')
           /\ issued' \in {issued, issued + 1}
<1>1. cmds \in Seq(AllOps \cup {"MULTI", "EXEC"}) /\ issued \in Nat
  BY Counters DEF TypeOK, WireType
<1>2. CASE UNCHANGED cmds
  BY <1>1, <1>2 DEF Grows, issued
<1>3. CASE OneMore
  <2>1. PICK c \in Ops \cup {"MULTI", "EXEC"} : AppendCommand(c) BY <1>3 DEF OneMore
  <2>2. c \in AllOps \cup {"MULTI", "EXEC"}
    BY SessionAssumption DEF SessionAssumption
  <2>3. cmds' = Append(cmds, c) BY <2>1 DEF AppendCommand
  <2> QED BY <1>1, <2>1, <2>2, <2>3, GrowsBy, AppendOpens
<1> QED BY <1>2, <1>3

LEMMA WellFormedKept ==
    ASSUME TypeOK, WellFormed, UNCHANGED cmds \/ OneMore
    PROVE  WellFormed'
<1>1. /\ issued \in Nat /\ issued' \in {issued, issued + 1}
      /\ issued = Len(cmds)
      /\ \A n \in 0 .. issued : Opened(cmds', n) <=> Opened(cmds, n)
      /\ \A i \in 1 .. issued : cmds'[i] = cmds[i]
  BY CommandsGrow, GrowsTx DEF Grows, issued
<1>2. ASSUME NEW i \in 1 .. issued
      PROVE  /\ cmds'[i] \in Ops \cup {"MULTI", "EXEC"}
             /\ cmds'[i] = "MULTI" => ~Opened(cmds', i - 1)
             /\ cmds'[i] = "EXEC" => Opened(cmds', i - 1)
  <2>1. i - 1 \in 0 .. issued /\ cmds'[i] = cmds[i] BY <1>1
  <2> QED BY <1>1, <2>1 DEF WellFormed
<1>3. CASE UNCHANGED cmds
  BY <1>2, <1>3 DEF WellFormed, issued
<1>4. CASE OneMore
  <2>1. PICK c \in Ops \cup {"MULTI", "EXEC"} :
              /\ AppendCommand(c)
              /\ c = "MULTI" => ~Opened(cmds, issued)
              /\ c = "EXEC" => Opened(cmds, issued)
    BY <1>4 DEF OneMore
  <2>2. c \in AllOps \cup {"MULTI", "EXEC"}
    BY SessionAssumption DEF SessionAssumption
  <2>3. issued' = issued + 1 /\ cmds'[issued + 1] = c BY <2>1, <2>2, AppendOpens
  <2>4. Opened(cmds', issued) <=> Opened(cmds, issued) BY <1>1
  <2>5. ASSUME NEW i \in 1 .. issued + 1
        PROVE  /\ cmds'[i] \in Ops \cup {"MULTI", "EXEC"}
               /\ cmds'[i] = "MULTI" => ~Opened(cmds', i - 1)
               /\ cmds'[i] = "EXEC" => Opened(cmds', i - 1)
    <3>1. CASE i \in 1 .. issued BY <1>2, <3>1
    <3>2. CASE i = issued + 1
      <4>1. i - 1 = issued BY <1>1, <3>2
      <4> QED BY <2>1, <2>3, <2>4, <3>2, <4>1
    <3> QED BY <1>1, <3>1, <3>2
  <2> QED BY <2>3, <2>5 DEF WellFormed
<1> QED BY <1>3, <1>4

LEMMA ServerSideKept ==
    ASSUME TypeOK, RightTxq, RightReplies, UNCHANGED cmds \/ OneMore,
           UNCHANGED <<served, replies, inTx, txq>>
    PROVE  RightTxq' /\ RightReplies'
<1>1. /\ served \in 0 .. issued /\ served \in Nat /\ issued = Len(cmds)
      /\ issued \in Nat /\ Grows(cmds, cmds')
  BY CommandsGrow, Counters DEF issued
<1>2. RightTxq' BY <1>1, GrowsTx DEF RightTxq
<1>3. ASSUME NEW i \in 1 .. served PROVE RightReply(cmds', replies[i], i)
  <2>1. RightReply(cmds, replies[i], i) /\ i \in 1 .. Len(cmds)
    BY <1>1 DEF RightReplies
  <2> QED BY <1>1, <2>1, GrowsReply
<1>4. RightReplies' BY <1>3 DEF RightReplies
<1> QED BY <1>2, <1>4

\* The replies that make a result honest stay.
RepliesGrow == /\ served' >= served
               /\ \A i \in 1 .. served : replies'[i] = replies[i]

LEMMA RefusedStays ==
    ASSUME TypeOK, RepliesGrow, served' \in Nat, NEW i, RefusedByServer(i)
    PROVE  RefusedByServer(i)'
<1>1. served \in Nat BY Counters
<1>2. PICK j \in 1 .. served :
        \/ j = i /\ replies[j].type = "false"
        \/ \E k \in DOMAIN replies[j].elems :
              replies[j].elems[k] = [of |-> i, type |-> "false"]
  BY DEF RefusedByServer
<1>3. j \in 1 .. served' /\ replies'[j] = replies[j] BY <1>1 DEF RepliesGrow
<1> QED BY <1>2, <1>3 DEF RefusedByServer

LEMMA HonestStays ==
    ASSUME TypeOK, RepliesGrow, served' \in Nat, NEW x, Honest(x)
    PROVE  Honest(x)'
  BY RefusedStays DEF Honest

LEMMA HonestCalls ==
    ASSUME TypeOK, HonestResults, RepliesGrow, served' \in Nat,
           UNCHANGED ret \/ ret'.items = <<>>, UNCHANGED out \/ out' = <<>>
    PROVE  HonestResults'
<1>1. (\A k \in DOMAIN ret.items : Honest(ret.items[k]))'
  <2>1. CASE UNCHANGED ret BY <2>1, HonestStays DEF HonestResults
  <2>2. CASE ret'.items = <<>> BY <2>2
  <2> QED BY <2>1, <2>2
<1>2. (\A k \in DOMAIN out : Honest(out[k]))'
  <2>1. CASE UNCHANGED out BY <2>1, HonestStays DEF HonestResults
  <2>2. CASE out' = <<>> BY <2>2
  <2> QED BY <2>1, <2>2
<1> QED BY <1>1, <1>2 DEF HonestResults

LEMMA CoreF ==
    ASSUME TypeOK, FInv, UNCHANGED cmds \/ OneMore,
           UNCHANGED <<served, replies, inTx, txq, link>>, pc' # "dead",
           UNCHANGED ret \/ ret'.items = <<>>, UNCHANGED out \/ out' = <<>>,
           RightQueue', RightList', ExecMode'
    PROVE  FInv'
<1>1. WellFormed' BY WellFormedKept DEF FInv
<1>2. RightTxq' /\ RightReplies' BY ServerSideKept DEF FInv
<1>3. RepliesGrow /\ served' \in Nat BY Counters DEF RepliesGrow
<1>4. HonestResults' BY <1>3, HonestCalls DEF FInv
<1> QED BY <1>1, <1>2, <1>4 DEF FInv

LEMMA ConnectF == ASSUME Connect PROVE FInv'
<1>1. issued' = 0 BY DEF Connect, issued
<1>2. WellFormed' BY <1>1 DEF WellFormed
<1>3. RightTxq' /\ RightReplies' /\ RightQueue' /\ RightList' /\ ExecMode'
  BY DEF Connect, RightTxq, RightReplies, RightQueue, RightList, ExecMode
<1>4. ret'.items = <<>> /\ out' = <<>> BY DEF Connect, True, Returned
<1>5. HonestResults' BY <1>4 DEF HonestResults
<1> QED BY <1>2, <1>3, <1>5 DEF FInv, Connect

\* Steps that concern neither the queue nor the wire.
LEMMA QuietF ==
    ASSUME TypeOK, FInv,
           UNCHANGED <<mode, pipeline, queue, lists, head, cmds, served, replies,
                       inTx, txq, link>>,
           pc' = pc \/ {pc, pc'} \subseteq {"skip", "tab"},
           UNCHANGED ret \/ ret'.items = <<>>, UNCHANGED out \/ out' = <<>>
    PROVE  FInv'
<1>1. issued' = issued /\ TxEnd' = TxEnd BY DEF issued, TxEnd
<1>2. ListAt(head)' = ListAt(head) BY DEF ListAt
<1>3. RightQueue' BY <1>1 DEF FInv, RightQueue
<1>4. RightList' BY <1>1, <1>2 DEF FInv, RightList
<1>5. ExecMode' /\ pc' # "dead" BY DEF FInv, ExecMode
<1> QED BY <1>3, <1>4, <1>5, CoreF

LEMMA RestingF ==
    ASSUME Tidy, IInv, FInv,
           \/ ConnectFails \/ Unconnected \/ MultiRefused \/ SendRefused
           \/ Close \/ UseAfterClose \/ Flush \/ Fetch \/ UNCHANGED vars
    PROVE  FInv'
<1>1. ~UseAfterClose BY DEF Tidy, Patterns, UseAfterClose
<1>2. /\ UNCHANGED <<mode, pipeline, queue, lists, head, cmds, served, replies,
                     inTx, txq, link, pc, out>>
      /\ UNCHANGED ret \/ ret'.items = <<>>
  BY <1>1 DEF ConnectFails, Unconnected, MultiRefused, SendRefused, Close, Flush,
              Fetch, vars, sockVars, callVars, wireVars, serverVars,
              True, False, Returned
<1> QED BY <1>2, QuietF DEF IInv, FInv

LEMMA PipelineF == ASSUME IInv, FInv, Pipeline PROVE FInv'
<1>1. pc = "idle" /\ UNCHANGED <<pc, mode, head, lists, cmds>>
  BY DEF Pipeline, Begin
<1>2. issued' = issued /\ TxEnd' = TxEnd /\ issued \in Nat
  BY <1>1, Counters DEF issued, TxEnd, IInv
<1>3. RightQueue'
  <2>1. CASE UNCHANGED <<pipeline, queue>>
    BY <1>1, <1>2, <2>1 DEF FInv, RightQueue
  <2>2. CASE queue' = <<>> BY <1>2, <2>2 DEF RightQueue
  <2> QED BY <2>1, <2>2 DEF Pipeline
<1>4. RightList' BY <1>1, <1>2 DEF FInv, RightList, ListAt
<1>5. ret'.items = <<>> BY DEF Pipeline, Self, False, Returned
<1> QED BY <1>1, <1>3, <1>4, <1>5, CoreF
  DEF Pipeline, IInv, FInv, ExecMode, serverVars

LEMMA SendF == ASSUME IInv, FInv, Send PROVE FInv'
<1>1. mode' = "DIRECT" /\ UNCHANGED <<cmds, queue, lists>> /\ issued' = issued
  BY DEF Send, issued
<1>2. RightList' BY <1>1 DEF RightList
<1>3. RightQueue' BY <1>1 DEF Send, FInv, RightQueue
<1>4. UNCHANGED ret \/ ret'.items = <<>> BY DEF Send, Returned
<1>5. UNCHANGED out \/ out' = <<>> BY DEF Send
<1>6. pc' # "dead" /\ ExecMode' BY DEF Send, Begin, ExecMode
<1> QED BY <1>1, <1>2, <1>3, <1>4, <1>5, <1>6, CoreF DEF Send, IInv, serverVars

\* One node more in a pipeline.
LEMMA QueueMore ==
    ASSUME TypeOK, RightQueue, OneMore, UNCHANGED pipeline,
           NEW n, queue' = Append(queue, n), n.of = issued + 1,
           RightNode(cmds', lists', n),
           \A h \in 1 .. Len(lists) : /\ Grows(lists[h], lists'[h])
                                      /\ Len(lists[h]) \in Nat /\ Len(lists'[h]) \in Nat
    PROVE  RightQueue'
<1> SUFFICES ASSUME pipeline = 1
             PROVE  /\ Len(queue') <= issued'
                    /\ \A k \in 1 .. Len(queue') :
                          /\ queue'[k].of = issued' - Len(queue') + k
                          /\ RightNode(cmds', lists', queue'[k])
  BY DEF RightQueue
<1>1. /\ issued \in Nat /\ issued' = issued + 1 /\ Grows(cmds, cmds')
      /\ issued = Len(cmds)
  <2>1. PICK c \in Ops \cup {"MULTI", "EXEC"} : AppendCommand(c) BY DEF OneMore
  <2>2. c \in AllOps \cup {"MULTI", "EXEC"}
    BY SessionAssumption DEF SessionAssumption
  <2> QED BY <2>1, <2>2, AppendOpens, CommandsGrow DEF issued
<1>2. queue \in Seq(Node) /\ Len(queue) \in Nat
      /\ \A k \in 1 .. Len(queue) : queue[k].list \in 0 .. Len(lists)
  BY LenProperties DEF TypeOK, SockType, QueueType
<1>3. /\ Len(queue') = Len(queue) + 1 /\ queue'[Len(queue) + 1] = n
      /\ \A k \in 1 .. Len(queue) : queue'[k] = queue[k]
  BY <1>2, AppendProperties
<1>4. ASSUME NEW k \in 1 .. Len(queue)
      PROVE  /\ queue'[k].of = issued' - Len(queue') + k
             /\ RightNode(cmds', lists', queue'[k])
  <2>1. /\ Len(queue) <= issued /\ queue[k].of = issued - Len(queue) + k
        /\ RightNode(cmds, lists, queue[k])
    BY DEF RightQueue
  <2>2. queue[k].of \in 1 .. Len(cmds) BY <1>1, <1>2, <2>1
  <2>3. queue[k].list # 0 => queue[k].list \in 1 .. Len(lists) BY <1>2
  <2>4. RightNode(cmds', lists', queue[k])
    BY <1>1, <2>1, <2>2, <2>3, GrowsNode
  <2> QED BY <1>1, <1>2, <1>3, <2>1, <2>4
<1>5. /\ n.of = issued' - Len(queue') + (Len(queue) + 1)
      /\ Len(queue') <= issued'
  <2>1. Len(queue) <= issued BY DEF RightQueue
  <2> QED BY <1>1, <1>2, <1>3, <2>1
<1>6. ASSUME NEW k \in 1 .. Len(queue')
      PROVE  /\ queue'[k].of = issued' - Len(queue') + k
             /\ RightNode(cmds', lists', queue'[k])
  <2>1. CASE k \in 1 .. Len(queue) BY <1>4, <2>1
  <2>2. CASE k = Len(queue) + 1 BY <1>3, <1>5, <2>2
  <2> QED BY <1>2, <1>3, <1>6, <2>1, <2>2
<1> QED BY <1>5, <1>6

\* What redis_enqueue does in a transaction: the list at hand grows, no list
\* changes otherwise.
LEMMA ListsGrow ==
    ASSUME SockType, NEW n \in Node, EnqueueInMulti(n)
    PROVE  /\ \A h \in 1 .. Len(lists) : /\ Grows(lists[h], lists'[h])
                                         /\ Len(lists[h]) \in Nat
                                         /\ Len(lists'[h]) \in Nat
           /\ lists'[IF head = 0 THEN Len(lists) + 1 ELSE head] = Append(ListAt(head), n)
           /\ ListAt(head) \in Seq(Node)
<1>1. /\ lists \in Seq(Seq(Node)) /\ Len(lists) \in Nat /\ head \in 0 .. Len(lists)
      /\ \A h \in 1 .. Len(lists) : lists[h] \in Seq(Node)
  BY LenProperties, ElementOfSeq DEF SockType, QueueType
<1>2. CASE head = 0
  <2>1. lists' = Append(lists, <<n>>) BY <1>2 DEF EnqueueInMulti
  <2>2. <<n>> \in Seq(Node) /\ Append(<<>>, n) = <<n>> /\ <<>> \in Seq(Node) OBVIOUS
  <2>3. /\ lists'[Len(lists) + 1] = <<n>>
        /\ \A h \in 1 .. Len(lists) : lists'[h] = lists[h]
    BY <1>1, <2>1, <2>2, AppendProperties
  <2>4. \A h \in 1 .. Len(lists) : Grows(lists[h], lists'[h]) /\ Len(lists[h]) \in Nat
    BY <1>1, <2>3, LenProperties DEF Grows
  <2> QED BY <1>2, <2>2, <2>3, <2>4 DEF ListAt
<1>3. CASE head # 0
  <2>1. head \in 1 .. Len(lists) /\ ListAt(head) = lists[head]
    BY <1>1, <1>3 DEF ListAt
  <2>2. lists[head] \in Seq(Node) BY <1>1, <2>1
  <2>3. lists' = [lists EXCEPT ![head] = Append(lists[head], n)]
    BY <1>3 DEF EnqueueInMulti
  <2>4. /\ lists'[head] = Append(lists[head], n)
        /\ \A h \in 1 .. Len(lists) : h # head => lists'[h] = lists[h]
    BY <1>1, <2>1, <2>3
  <2>5. Append(lists[head], n) \in Seq(Node) BY <2>2, AppendProperties
  <2>6. ASSUME NEW h \in 1 .. Len(lists)
        PROVE  /\ Grows(lists[h], lists'[h])
               /\ Len(lists[h]) \in Nat /\ Len(lists'[h]) \in Nat
    <3>1. CASE h = head BY <2>2, <2>4, <2>5, <3>1, GrowsBy, LenProperties
    <3>2. CASE h # head
      <4>1. lists'[h] = lists[h] /\ lists[h] \in Seq(Node) BY <1>1, <2>4, <3>2
      <4> QED BY <4>1, LenProperties DEF Grows
    <3> QED BY <3>1, <3>2
  <2> QED BY <1>3, <2>1, <2>2, <2>4, <2>6
<1> QED BY <1>2, <1>3

\* One command more in a transaction.
LEMMA ListMore ==
    ASSUME TypeOK, RightList, mode = "TRANSACTION", pc = "idle", pc' = "idle",
           NEW op \in Ops \ {"hmget"}, AppendCommand(op),
           NEW n \in Node, n.fun = Fun[op], EnqueueInMulti(n),
           head' = IF head = 0 THEN Len(lists) + 1 ELSE head
    PROVE  RightList'
<1>1. op \in AllOps \cup {"MULTI", "EXEC"} /\ op # "MULTI"
  BY SessionAssumption DEF SessionAssumption, AllOps
<1>2. /\ issued' = issued + 1 /\ issued \in Nat /\ cmds'[issued + 1] = op
      /\ Grows(cmds, cmds') /\ issued = Len(cmds)
  <2>1. /\ issued' = issued + 1 /\ issued \in Nat /\ cmds'[issued + 1] = op
        /\ cmds' = Append(cmds, op)
    BY <1>1, AppendOpens DEF AppendCommand
  <2>2. cmds \in Seq(AllOps \cup {"MULTI", "EXEC"}) BY DEF TypeOK, WireType
  <2> QED BY <1>1, <2>1, <2>2, GrowsBy DEF issued
<1>3. TxEnd = issued /\ TxEnd' = issued + 1 BY <1>2 DEF TxEnd
<1>4. lists'[head'] = Append(ListAt(head), n) /\ ListAt(head) \in Seq(Node)
  BY ListsGrow DEF TypeOK
<1>5. head' # 0 /\ ListAt(head)' = lists'[head']
  <2>1. head' # 0 BY LenProperties DEF TypeOK, SockType, QueueType
  <2> QED BY <2>1 DEF ListAt
<1> DEFINE old == ListAt(head)
           new == Append(old, n)
<1>6. /\ Len(old) \in Nat /\ Len(new) = Len(old) + 1 /\ new[Len(old) + 1] = n
      /\ \A k \in 1 .. Len(old) : new[k] = old[k]
  BY <1>4, LenProperties, AppendProperties
<1> HIDE DEF old, new
<1>7. ASSUME NEW m \in 1 .. issued + 1, Tx(cmds', m, issued + 1)
      PROVE  /\ Len(new) = issued + 1 - m
             /\ \A k \in 1 .. issued + 1 - m : /\ new[k].fun = Fun[cmds'[m + k]]
                                               /\ cmds'[m + k] # "hmget"
  <2>1. m \in 1 .. issued /\ Tx(cmds', m, issued)
    BY <1>1, <1>2, <1>7, TxStep
  <2>2. Tx(cmds, m, issued) BY <1>2, <2>1, GrowsTx
  <2>3. /\ Len(old) = issued - m
        /\ \A k \in 1 .. issued - m : old[k].fun = Fun[cmds[m + k]] /\ cmds[m + k] # "hmget"
    BY <1>3, <2>1, <2>2 DEF RightList, Fits, old
  <2>s. Len(old) = issued - m /\ issued \in Nat BY <1>2, <2>3
  <2>4. ASSUME NEW k \in 1 .. issued + 1 - m
        PROVE  new[k].fun = Fun[cmds'[m + k]] /\ cmds'[m + k] # "hmget"
    <3>1. CASE k \in 1 .. issued - m
      <4>1. m + k \in 1 .. issued /\ k \in 1 .. Len(old) BY <1>2, <2>1, <2>3, <3>1
      <4>2. \A i \in 1 .. issued : cmds'[i] = cmds[i] BY <1>2 DEF Grows
      <4>3. cmds'[m + k] = cmds[m + k] BY <4>1, <4>2
      <4>4. new[k] = old[k] BY <1>6, <4>1
      <4> QED BY <2>3, <3>1, <4>3, <4>4
    <3>2. CASE k = issued + 1 - m
      <4>1. m + k = issued + 1 /\ k = Len(old) + 1 BY <2>s, <3>2
      <4> QED BY <1>2, <1>6, <4>1
    <3> QED BY <1>2, <2>1, <3>1, <3>2
  <2>5. Len(new) = issued + 1 - m BY <1>6, <2>s
  <2> QED BY <2>4, <2>5
<1>8. Fits(cmds', new, issued + 1)
  BY <1>2, <1>6, <1>7 DEF Fits
<1>9. ListAt(head)' = new BY <1>4, <1>5 DEF new, old
<1>10. \A m \in 1 .. issued + 1 :
          Tx(cmds', m, issued + 1) => Len(new) = issued + 1 - m
  BY <1>7
<1>11. Fits(cmds, ListAt(head), TxEnd)' BY <1>3, <1>8, <1>9
<1>12. (\A m \in 1 .. TxEnd : Tx(cmds, m, TxEnd) => Len(ListAt(head)) = TxEnd - m)'
  <2>1. issued \in Nat BY <1>2
  <2> QED BY <1>3, <1>9, <1>10, <2>1
<1> QED BY <1>11, <1>12 DEF RightList

-----------------------------------------------------------------------------
(***************************************************************************)
(* The methods that send a command.                                        *)
(***************************************************************************)
LEMMA TidyCareful == Tidy => Careful
  BY DEF Tidy, Careful, Patterns

\* On a connection that holds the client is in step.
LEMMA UpInStep ==
    ASSUME IInv, FInv, sock = "open"
    PROVE  InStep /\ parsed + Due = issued /\ (pc = "idle" => Rests) /\ (Reading => Reads)
  BY DEF IInv, FInv, Lost, InStep

LEMMA Issues ==
    ASSUME TypeOK, NEW c \in Ops \cup {"MULTI", "EXEC"}, AppendCommand(c),
           c = "MULTI" => ~Opened(cmds, issued), c = "EXEC" => Opened(cmds, issued)
    PROVE  /\ OneMore
           /\ issued \in Nat /\ issued' = issued + 1 /\ issued = Len(cmds)
           /\ cmds'[issued + 1] = c /\ Grows(cmds, cmds')
           /\ Opened(cmds', issued) <=> Opened(cmds, issued)
           /\ UNCHANGED <<served, replies, link>>
<1>1. OneMore BY DEF OneMore
<1>2. c \in AllOps \cup {"MULTI", "EXEC"}
  BY SessionAssumption DEF SessionAssumption
<1>3. /\ issued \in Nat /\ issued' = issued + 1 /\ cmds'[issued + 1] = c
      /\ UNCHANGED <<served, replies, link>>
  BY <1>2, AppendOpens
<1>4. Grows(cmds, cmds') BY <1>1, CommandsGrow
<1>5. Opened(cmds', issued) <=> Opened(cmds, issued)
  BY <1>3, <1>4, GrowsTx DEF issued
<1> QED BY <1>1, <1>3, <1>4, <1>5 DEF issued

\* A transaction that MULTI has just opened.
LEMMA NewList ==
    ASSUME NEW n \in Nat, TxEnd' = n + 1, cmds'[n + 1] = "MULTI", ListAt(head)' = <<>>
    PROVE  RightList'
<1>1. ASSUME NEW m, Tx(cmds', m, n + 1) PROVE m = n + 1
  <2>1. "MULTI" \notin Ops BY SessionAssumption DEF SessionAssumption, AllOps
  <2> QED BY <1>1, <2>1, TxStep
<1>2. n + 1 - (n + 1) = 0 /\ 1 .. 0 = {} /\ Len(<<>>) = 0 OBVIOUS
<1>3. Fits(cmds', <<>>, n + 1) BY <1>1, <1>2 DEF Fits
<1>4. \A m : Tx(cmds', m, n + 1) => Len(<<>>) = n + 1 - m BY <1>1, <1>2
<1>5. Fits(cmds, ListAt(head), TxEnd)' BY <1>3
<1>6. (\A m \in 1 .. TxEnd : Tx(cmds, m, TxEnd) => Len(ListAt(head)) = TxEnd - m)'
  BY <1>4
<1> QED BY <1>5, <1>6 DEF RightList

LEMMA RunF == ASSUME Tidy, IInv, FInv, NEW op \in Ops, Run(op) PROVE FInv'
<1> DEFINE n == N(Fun[op], issued + 1)
<1>1. /\ pc = "idle" /\ sock = "open" /\ AppendCommand(op) /\ Enqueue(n)
      /\ op = "hmget" => pipeline = 0 /\ multi = 0
      /\ UNCHANGED <<sock, mode, pipeline, multi, at, out, inTx, txq>>
      /\ IF pipeline = 0 /\ multi = 0 THEN pc' = "run" /\ UNCHANGED ret
                                      ELSE pc' = "idle" /\ ret' = Self
  BY DEF Run, Begin, Tidy, Patterns, serverVars
<1>2. op \in AllOps /\ op # "MULTI" /\ op # "EXEC" /\ Fun[op] \in Funs
  BY SessionAssumption DEF SessionAssumption, AllOps, Fun, Funs
<1>3. TypeOK /\ Rests /\ RightQueue /\ RightList BY <1>1, UpInStep DEF IInv, FInv
<1>4. /\ OneMore /\ issued \in Nat /\ issued' = issued + 1 /\ issued = Len(cmds)
      /\ cmds'[issued + 1] = op /\ Grows(cmds, cmds')
      /\ Opened(cmds', issued) <=> Opened(cmds, issued)
      /\ UNCHANGED <<served, replies, link>>
  BY <1>1, <1>2, <1>3, Issues
<1>5. /\ n \in Node /\ n.list = 0 /\ n.of = issued + 1 /\ n.fun = Fun[op]
      /\ N("skip", issued + 1).list = 0 /\ N("skip", issued + 1).of = issued + 1
      /\ N("skip", issued + 1).fun = "skip"
  BY <1>2, <1>4 DEF N, Node
<1> HIDE DEF n
<1>6. RightQueue' /\ RightList'
  <2>1. pipeline \in {0, 1} /\ multi \in {0, 1} /\ mode \in {"DIRECT", "TRANSACTION"}
    BY <1>3 DEF TypeOK, SockType
  <2>2. CASE multi = 1
    <3>1. mode = "TRANSACTION" /\ op # "hmget" /\ pc' = "idle"
      BY <1>1, <1>3, <2>2 DEF Rests
    <3>2. /\ EnqueueInMulti(n)
          /\ head' = IF head = 0 THEN Len(lists) + 1 ELSE head
      BY <1>1, <2>2 DEF Enqueue
    <3>3. RightList' BY <1>1, <1>3, <1>5, <3>1, <3>2, ListMore
    <3>4. \A h \in 1 .. Len(lists) : /\ Grows(lists[h], lists'[h])
                                     /\ Len(lists[h]) \in Nat /\ Len(lists'[h]) \in Nat
      BY <1>3, <1>5, <3>2, ListsGrow DEF TypeOK
    <3>5. queue' = Append(queue, N("skip", issued + 1))
      BY <1>5, <3>2 DEF EnqueueInMulti
    <3>6. RightNode(cmds', lists', N("skip", issued + 1)) BY <1>5 DEF RightNode
    <3>7. RightQueue' BY <1>1, <1>3, <1>4, <1>5, <3>4, <3>5, <3>6, QueueMore
    <3> QED BY <3>3, <3>7
  <2>3. CASE multi = 0
    <3>1. mode' = "DIRECT" /\ ~Opened(cmds, issued) BY <1>1, <1>3, <2>1, <2>3 DEF Rests
    <3>2. RightList' BY <3>1 DEF RightList
    <3>3. CASE pipeline = 0 BY <1>1, <3>2, <3>3 DEF RightQueue
    <3>4. CASE pipeline = 1
      <4>1. queue' = Append(queue, n) /\ UNCHANGED lists BY <1>1, <2>3 DEF Enqueue
      <4>2. issued + 1 - 1 = issued BY <1>4
      <4>3. RightNode(cmds', lists', n)
        BY <1>1, <1>4, <1>5, <3>1, <3>4, <4>2 DEF RightNode
      <4>4. ASSUME NEW h \in 1 .. Len(lists)
            PROVE  /\ Grows(lists[h], lists'[h])
                   /\ Len(lists[h]) \in Nat /\ Len(lists'[h]) \in Nat
        <5>1. lists[h] \in Seq(Node) BY <1>3 DEF TypeOK, SockType, QueueType
        <5> QED BY <4>1, <5>1, LenProperties DEF Grows
      <4>5. RightQueue' BY <1>1, <1>3, <1>4, <1>5, <4>1, <4>3, <4>4, QueueMore
      <4> QED BY <3>2, <4>5
    <3> QED BY <2>1, <3>3, <3>4
  <2> QED BY <2>1, <2>2, <2>3
<1>7. UNCHANGED ret \/ ret'.items = <<>> BY <1>1 DEF Self, Returned
<1>8. pc' # "dead" /\ ExecMode' BY <1>1 DEF ExecMode
<1> QED BY <1>1, <1>3, <1>4, <1>6, <1>7, <1>8, CoreF

LEMMA MultiF == ASSUME Tidy, IInv, FInv, Multi PROVE FInv'
<1>1. /\ pc = "idle" /\ sock = "open" /\ AppendCommand("MULTI")
      /\ mode = "DIRECT" /\ pipeline = 0 /\ pc' = "multi"
      /\ UNCHANGED <<mode, pipeline, out, ret, inTx, txq>>
  BY DEF Multi, Begin, serverVars
<1>2. TypeOK /\ Rests BY <1>1, UpInStep DEF IInv
<1>3. OneMore /\ UNCHANGED <<served, replies, link>>
  BY <1>1, <1>2, Issues DEF Rests
<1>4. RightQueue' /\ RightList' /\ ExecMode'
  BY <1>1 DEF RightQueue, RightList, ExecMode
<1>5. pc' # "dead" BY <1>1
<1> QED BY <1>1, <1>2, <1>3, <1>4, <1>5, CoreF

LEMMA MultiPipelinedF == ASSUME Tidy, IInv, FInv, MultiPipelined PROVE FInv'
<1> DEFINE n == N("status", issued + 1)
<1>1. /\ pc = "idle" /\ sock = "open" /\ AppendCommand("MULTI")
      /\ mode = "DIRECT" /\ EnqueueInMulti(n) /\ NewTransaction /\ ret' = Self
      /\ UNCHANGED <<pipeline, pc, out, inTx, txq>>
  BY DEF MultiPipelined, Begin, serverVars
<1>2. TypeOK /\ Rests /\ RightQueue BY <1>1, UpInStep DEF IInv, FInv
<1>3. /\ OneMore /\ issued \in Nat /\ issued' = issued + 1
      /\ cmds'[issued + 1] = "MULTI" /\ UNCHANGED <<served, replies, link>>
  BY <1>1, <1>2, Issues DEF Rests
<1>4. /\ n \in Node /\ n.of = issued + 1
      /\ N("skip", issued + 1).list = 0 /\ N("skip", issued + 1).of = issued + 1
      /\ N("skip", issued + 1).fun = "skip"
  BY <1>3 DEF N, Node, Funs
<1> HIDE DEF n
<1>5. RightQueue'
  <2>1. \A h \in 1 .. Len(lists) : /\ Grows(lists[h], lists'[h])
                                   /\ Len(lists[h]) \in Nat /\ Len(lists'[h]) \in Nat
    BY <1>1, <1>2, <1>4, ListsGrow DEF TypeOK
  <2>2. queue' = Append(queue, N("skip", issued + 1))
    BY <1>1, <1>4 DEF EnqueueInMulti
  <2>3. RightNode(cmds', lists', N("skip", issued + 1)) BY <1>4 DEF RightNode
  <2> QED BY <1>1, <1>2, <1>3, <1>4, <2>1, <2>2, <2>3, QueueMore
<1>6. RightList'
  <2>1. TxEnd' = issued + 1 /\ ListAt(head)' = <<>>
    BY <1>1, <1>3 DEF TxEnd, NewTransaction, ListAt
  <2> QED BY <1>3, <2>1, NewList
<1>7. ret'.items = <<>> /\ pc' # "dead" /\ ExecMode'
  BY <1>1 DEF Self, Returned, ExecMode
<1> QED BY <1>1, <1>2, <1>3, <1>5, <1>6, <1>7, CoreF

LEMMA ExecF == ASSUME Tidy, IInv, FInv, Exec PROVE FInv'
<1>1. /\ pc = "idle" /\ sock = "open" /\ AppendCommand("EXEC")
      /\ pipeline = 0 /\ mode = "TRANSACTION" /\ pc' \in {"tab", "skip"}
      /\ out' = <<>> /\ UNCHANGED <<mode, pipeline, lists, head, ret, inTx, txq>>
  BY DEF Exec, ExecAllowed, Begin, Tidy, Patterns, serverVars, sockVars
<1>2. TypeOK /\ Rests /\ RightList BY <1>1, UpInStep DEF IInv, FInv
<1>3. /\ OneMore /\ issued \in Nat /\ issued' = issued + 1 /\ issued = Len(cmds)
      /\ Grows(cmds, cmds') /\ UNCHANGED <<served, replies, link>>
  BY <1>1, <1>2, Issues DEF Rests
<1>4. RightQueue' BY <1>1 DEF RightQueue
<1>5. RightList'
  <2>1. TxEnd = issued /\ TxEnd' = issued /\ ListAt(head)' = ListAt(head)
    BY <1>1, <1>3 DEF TxEnd, ListAt
  <2>2. \A m : Tx(cmds', m, issued) <=> Tx(cmds, m, issued) BY <1>3, GrowsTx
  <2>3. ListAt(head) \in Seq(Node) BY <1>2, ListAtType
  <2>4. Len(ListAt(head)) \in Nat /\ Grows(ListAt(head), ListAt(head))
    BY <2>3, LenProperties DEF Grows
  <2>5. Fits(cmds, ListAt(head), issued) BY <1>1, <1>2, <2>1 DEF RightList
  <2>6. Fits(cmds', ListAt(head), issued) BY <1>3, <2>4, <2>5, GrowsFits
  <2>7. \A m \in 1 .. issued : Tx(cmds', m, issued) => Len(ListAt(head)) = issued - m
    BY <1>1, <1>2, <2>1, <2>2 DEF RightList
  <2> QED BY <2>1, <2>6, <2>7 DEF RightList
<1>6. pc' # "dead" /\ ExecMode' BY <1>1 DEF ExecMode
<1> QED BY <1>1, <1>2, <1>3, <1>4, <1>5, <1>6, CoreF

LEMMA ExecPipelinedF == ASSUME Tidy, IInv, FInv, ExecPipelined PROVE FInv'
<1>1. /\ pc = "idle" /\ sock = "open" /\ AppendCommand("EXEC")
      /\ pipeline = 1 /\ mode = "TRANSACTION" /\ head # 0
      /\ UNCHANGED <<pipeline, lists, out, inTx, txq>>
  BY DEF ExecPipelined, ExecAllowed, Begin, Tidy, Patterns, serverVars
<1>2. TypeOK /\ Rests /\ RightQueue /\ RightList /\ parsed + Due = issued
  BY <1>1, UpInStep DEF IInv, FInv
<1>3. /\ OneMore /\ issued \in Nat /\ issued' = issued + 1 /\ issued = Len(cmds)
      /\ cmds'[issued + 1] = "EXEC"
      /\ Grows(cmds, cmds') /\ UNCHANGED <<served, replies, link>>
  BY <1>1, <1>2, Issues DEF Rests
<1>4. queue # <<>>
  <2>1. Due = Len(queue) BY <1>1 DEF Due
  <2>2. parsed # issued /\ parsed \in Nat BY <1>1, <1>2, Counters DEF Rests
  <2> QED BY <1>2, <1>3, <2>1, <2>2
<1>5. /\ queue' = Append(queue, Join) /\ mode' = "DIRECT" /\ ret' = Self
      /\ pc' = pc
  BY <1>4 DEF ExecPipelined
<1>6. RightList' BY <1>5 DEF RightList
<1>7. RightQueue'
  <2>1. Join.list = head /\ Join.of = issued + 1 BY DEF Join
  <2>2. head \in 1 .. Len(lists)
    BY <1>1, <1>2, LenProperties DEF TypeOK, SockType, QueueType
  <2>3. ASSUME NEW h \in 1 .. Len(lists)
        PROVE  /\ Grows(lists[h], lists'[h])
               /\ Len(lists[h]) \in Nat /\ Len(lists'[h]) \in Nat
    <3>1. lists[h] \in Seq(Node) BY <1>2 DEF TypeOK, SockType, QueueType
    <3> QED BY <1>1, <3>1, LenProperties DEF Grows
  <2>4. Fits(cmds, lists[head], issued)
    BY <1>1, <1>2 DEF RightList, TxEnd, ListAt
  <2>5. Fits(cmds', lists'[head], issued)
    BY <1>3, <2>2, <2>3, <2>4, GrowsFits
  <2>6. RightNode(cmds', lists', Join)
    <3>1. issued + 1 - 1 = issued BY <1>3
    <3> QED BY <1>1, <1>3, <2>1, <2>5, <3>1 DEF RightNode
  <2> QED BY <1>1, <1>2, <1>3, <1>5, <2>1, <2>3, <2>6, QueueMore
<1>8. ret'.items = <<>> /\ pc' # "dead" /\ ExecMode'
  BY <1>1, <1>5 DEF Self, Returned, ExecMode
<1> QED BY <1>1, <1>2, <1>3, <1>6, <1>7, <1>8, CoreF

-----------------------------------------------------------------------------
(***************************************************************************)
(* The server.                                                             *)
(***************************************************************************)
LEMMA ReplyMore ==
    ASSUME TypeOK, RightReplies, UNCHANGED cmds, served' = served + 1,
           NEW t, NEW elems, Reply(t, elems),
           RightReply(cmds, [of |-> served + 1, type |-> t, elems |-> elems], served + 1)
    PROVE  RightReplies' /\ RepliesGrow
<1> DEFINE z == [of |-> served + 1, type |-> t, elems |-> elems]
<1>1. replies \in Seq(Zval) /\ Len(replies) = served /\ served \in Nat
  BY DEF TypeOK, WireType
<1>2. replies' = Append(replies, z) BY DEF Reply
<1>3. RightReply(cmds, z, served + 1) OBVIOUS
<1> HIDE DEF z
<1>4. replies'[served + 1] = z BY <1>1, <1>2
<1>5. \A i \in 1 .. served : replies'[i] = replies[i] BY <1>1, <1>2
<1>6. RepliesGrow BY <1>1, <1>5 DEF RepliesGrow
<1>7. ASSUME NEW i \in 1 .. served + 1 PROVE RightReply(cmds, replies'[i], i)
  <2>1. CASE i \in 1 .. served BY <1>5, <2>1 DEF RightReplies
  <2>2. CASE i = served + 1 BY <1>3, <1>4, <2>2
  <2> QED BY <1>1, <2>1, <2>2
<1> QED BY <1>6, <1>7 DEF RightReplies

LEMMA ServeF == ASSUME Tidy, IInv, FInv, Serve PROVE FInv'
<1> DEFINE n == served + 1
           c == cmds[n]
<1>1. /\ link = "up" /\ served < sent /\ served' = n
      /\ UNCHANGED <<sockVars, callVars, cmds, sent, fetched, parsed, link, issued>>
      /\ TypeOK /\ WellFormed /\ RightTxq /\ RightReplies
  BY DEF Serve, IInv, FInv, issued
<1>2. /\ served \in Nat /\ n - 1 = served /\ n \in 1 .. issued /\ served \in 0 .. issued
      /\ inTx \in {0, 1} /\ issued \in Nat
  <2>1. /\ served \in Nat /\ sent \in Nat /\ issued \in Nat
        /\ served <= sent /\ sent <= issued
    BY <1>1, Counters
  <2>2. inTx \in {0, 1} BY <1>1 DEF TypeOK, ServerType
  <2> QED BY <1>1, <2>1, <2>2
<1>3. inTx = 1 <=> Opened(cmds, served) BY DEF IInv, ServerInv
<1>4. /\ c \in Ops \cup {"MULTI", "EXEC"}
      /\ c = "MULTI" => inTx = 0
      /\ c = "EXEC" => inTx = 1
  BY <1>1, <1>2, <1>3 DEF WellFormed
<1>5. "MULTI" \notin Ops /\ "EXEC" \notin Ops
  BY SessionAssumption DEF SessionAssumption, AllOps
<1>6. RightTxq' /\ RightReplies' /\ RepliesGrow
  <2>1. CASE c = "MULTI"
    <3>1. inTx' = 1 /\ txq' = <<>> /\ Reply("true", <<>>)
      BY <1>4, <2>1 DEF Serve, ServeMulti, Tidy
    <3>2. RightReply(cmds, [of |-> n, type |-> "true", elems |-> <<>>], n)
      BY <1>5, <2>1 DEF RightReply
    <3>3. RightTxq'
      <4>1. ASSUME NEW m, Tx(cmds, m, n) PROVE m = n
        BY <1>2, <1>5, <2>1, <4>1, TxStep
      <4>2. n - n = 0 /\ 1 .. 0 = {} /\ Len(<<>>) = 0 BY <1>2
      <4> QED BY <1>1, <3>1, <4>1, <4>2 DEF RightTxq
    <3> QED BY <1>1, <3>1, <3>2, <3>3, ReplyMore
  <2>2. CASE c = "EXEC"
    <3> DEFINE elems(t) == [k \in 1 .. Len(txq) |-> [of |-> txq[k], type |-> t[k]]]
    <3>1. ServeExec /\ inTx = 1 BY <1>4, <2>2 DEF Serve
    <3>2. inTx' = 0 BY <3>1 DEF ServeExec
    <3>3. PICK t : /\ \A k \in 1 .. Len(txq) : t[k] \in Answers(cmds[txq[k]])
                   /\ Reply("array", elems(t))
      BY <3>1 DEF ServeExec
    <3>4. ASSUME NEW m \in 1 .. served, Tx(cmds, m, served)
          PROVE  /\ Len(elems(t)) = served - m
                 /\ \A k \in 1 .. served - m : /\ elems(t)[k].of = m + k
                                               /\ elems(t)[k].type \in Answers(cmds[m + k])
      <4>1. Len(txq) = served - m /\ \A k \in 1 .. served - m : txq[k] = m + k
        BY <1>1, <3>1, <3>4 DEF RightTxq
      <4>2. Len(txq) \in Nat BY <1>2, <4>1
      <4>3. Len(elems(t)) = Len(txq) BY <4>2
      <4>4. \A k \in 1 .. Len(txq) : elems(t)[k].of = txq[k] /\ elems(t)[k].type = t[k]
        OBVIOUS
      <4> QED BY <3>3, <4>1, <4>3, <4>4
    <3> HIDE DEF elems
    <3>5. RightReply(cmds, [of |-> n, type |-> "array", elems |-> elems(t)], n)
      BY <1>2, <1>5, <2>2, <3>4 DEF RightReply
    <3>6. RightTxq' BY <3>2 DEF RightTxq
    <3> QED BY <1>1, <3>3, <3>5, <3>6, ReplyMore
  <2>3. CASE c \in Ops
    <3>1. ServeOp(c) /\ c \notin Malformed /\ c \in AllOps
      BY <1>5, <2>3, SessionAssumption DEF Serve, Tidy, SessionAssumption
    <3>2. CASE inTx = 1
      <4>1. Reply("true", <<>>) /\ txq' = Append(txq, n) /\ inTx' = inTx
        BY <3>1, <3>2 DEF ServeOp
      <4>2. RightReply(cmds, [of |-> n, type |-> "true", elems |-> <<>>], n)
        BY <1>2, <1>3, <1>5, <2>3, <3>2 DEF RightReply
      <4>3. ASSUME NEW m \in 1 .. n, Tx(cmds, m, n)
            PROVE  Len(txq') = n - m /\ \A k \in 1 .. n - m : txq'[k] = m + k
        <5>1. m \in 1 .. served /\ Tx(cmds, m, served)
          BY <1>2, <1>5, <2>3, <4>3, TxStep
        <5>2. Len(txq) = served - m /\ \A k \in 1 .. served - m : txq[k] = m + k
          BY <1>1, <3>2, <5>1 DEF RightTxq
        <5>3. txq \in Seq(Nat) BY <1>1 DEF TypeOK, ServerType
        <5>4. Len(txq') = n - m BY SMTT(30), <1>2, <4>1, <5>1, <5>2, <5>3
        <5>5. ASSUME NEW k \in 1 .. n - m PROVE txq'[k] = m + k
          <6>1. CASE k \in 1 .. served - m BY <4>1, <5>2, <5>3, <6>1
          <6>2. CASE k = n - m
            <7>1. k = Len(txq) + 1 /\ m + k = n BY <1>2, <5>1, <5>2, <6>2
            <7> QED BY <4>1, <5>3, <7>1
          <6> QED BY <1>2, <5>1, <6>1, <6>2
        <5> QED BY <5>4, <5>5
      <4>4. RightTxq' BY <1>1, <4>3 DEF RightTxq
      <4> QED BY <1>1, <4>1, <4>2, <4>4, ReplyMore
    <3>3. CASE inTx = 0
      <4>1. PICK t \in Answers(c) : Reply(t, <<>>) BY <3>1, <3>3 DEF ServeOp
      <4>2. inTx' = 0 BY <3>1, <3>3 DEF ServeOp, serverVars
      <4>3. t # "undef" BY <3>1, <4>1 DEF Answers, Answer, AllOps
      <4>4. RightReply(cmds, [of |-> n, type |-> t, elems |-> <<>>], n)
        BY <1>5, <2>3, <4>1, <4>3 DEF RightReply
      <4>5. RightTxq' BY <4>2 DEF RightTxq
      <4> QED BY <1>1, <4>1, <4>4, <4>5, ReplyMore
    <3> QED BY <1>2, <3>2, <3>3
  <2> QED BY <1>4, <2>1, <2>2, <2>3
<1>7. /\ WellFormed' /\ RightQueue' /\ RightList' /\ ExecMode'
      /\ link' = "up" /\ pc' # "dead"
  BY <1>1 DEF FInv, WellFormed, RightQueue, RightList, ExecMode, TxEnd, ListAt,
              sockVars, callVars
<1>8. served' \in Nat /\ UNCHANGED <<ret, out>> BY <1>1, <1>2 DEF callVars
<1>9. HonestResults' BY <1>1, <1>6, <1>8, HonestCalls DEF FInv
<1> QED BY <1>6, <1>7, <1>9 DEF FInv

-----------------------------------------------------------------------------
(***************************************************************************)
(* Replies meet the validators of their own commands.                      *)
(***************************************************************************)
LEMMA Certain ==
    ASSUME NEW items, NEW o \in Outcomes({items}, FALSE)
    PROVE  o.end = "done" /\ o.items = items
  BY DEF Outcomes, Done

LEMMA NoSkip == ASSUME NEW op \in Ops PROVE Fun[op] # "skip"
<1>1. op \in AllOps BY SessionAssumption DEF SessionAssumption
<1> QED BY <1>1 DEF AllOps, Fun

LEMMA OwnValidator ==
    ASSUME Tidy, NEW op \in Ops, NEW t \in Answers(op)
    PROVE  /\ ~MayFault(Fun[op], t)
           /\ op # "hmget" => ~MustFault(Fun[op], t)
           /\ ValidType(Fun[op], t) \in {"false", "null"} => t = "false"
<1>1. op \in AllOps BY SessionAssumption DEF SessionAssumption
<1>2. t = Answer[op] \/ (t = "false" /\ op # "setnx")
  BY DEF Answers, Tidy
<1>3. CASE op = "set"
  BY <1>2, <1>3 DEF Fun, Answer, MayFault, MustFault, ValidType, Accepts, Arrays
<1>4. CASE op = "get"
  BY <1>2, <1>4 DEF Fun, Answer, MayFault, MustFault, ValidType, Accepts, Arrays
<1>5. CASE op \in {"incr", "delete"}
  BY <1>2, <1>5 DEF Fun, Answer, MayFault, MustFault, ValidType, Accepts, Arrays
<1>6. CASE op = "setnx"
  BY <1>2, <1>6 DEF Fun, Answer, MayFault, MustFault, ValidType, Accepts, Arrays
<1>7. CASE op = "lrange"
  BY <1>2, <1>7 DEF Fun, Answer, MayFault, MustFault, ValidType, Accepts, Arrays
<1>8. CASE op = "hgetall"
  BY <1>2, <1>8 DEF Fun, Answer, MayFault, MustFault, ValidType, Accepts, Arrays
<1>9. CASE op = "hmget"
  BY <1>2, <1>9 DEF Fun, Answer, MayFault, MustFault, ValidType, Accepts, Arrays
<1> QED BY <1>1, <1>3, <1>4, <1>5, <1>6, <1>7, <1>8, <1>9 DEF AllOps

\* A reply outside a transaction.
LEMMA DirectHonest ==
    ASSUME Tidy, NEW op \in Ops, NEW i \in 1 .. served, NEW z \in Zval, z = replies[i],
           z.of = i, z.type \in Answers(op), z.elems = <<>>
    PROVE  \A k \in DOMAIN Validated(Fun[op], z) : Honest(Validated(Fun[op], z)[k])
<1> DEFINE x == [z EXCEPT !.type = ValidType(Fun[op], @)]
<1>1. x.of = i /\ x.elems = <<>> /\ x.type = ValidType(Fun[op], z.type) BY DEF Zval
<1> HIDE DEF x
<1>2. Fun[op] # "skip" BY NoSkip
<1>3. Validated(Fun[op], z) = <<x>> BY <1>2 DEF Validated, x
<1>4. x.type \in {"false", "null"} => RefusedByServer(i)
  BY <1>1, OwnValidator DEF RefusedByServer
<1>5. Honest(x) BY <1>1, <1>4 DEF Honest
<1> QED BY <1>3, <1>5

\* xs holds what came of the commands m + 1 .. n, in their order.
Numbered(xs, m, n) == DOMAIN xs = 1 .. n - m /\ \A k \in 1 .. n - m : xs[k].of = m + k

\* The reply to EXEC.
LEMMA ExecHonest ==
    ASSUME Tidy, IInv, FInv, NEW i \in 1 .. served, cmds[i] = "EXEC",
           NEW list \in Seq(Node), Fits(cmds, list, i - 1),
           NEW o \in ExecOutcomes(list, replies[i])
    PROVE  /\ o.end = "done"
           /\ \A k \in DOMAIN o.items :
                 o.items[k].type \in {"false", "null"} => RefusedByServer(o.items[k].of)
           /\ \E m \in 1 .. i - 1 : Tx(cmds, m, i - 1) /\ Numbered(o.items, m, i - 1)
<1> DEFINE z == replies[i]
<1>1. TypeOK /\ WellFormed /\ RightReplies BY DEF IInv, FInv
<1>2. /\ issued \in Nat /\ i \in 1 .. issued /\ i - 1 \in 0 .. issued /\ z \in Zval
  BY <1>1, Counters DEF TypeOK, WireType
<1>3. Opened(cmds, i - 1) BY <1>1, <1>2 DEF WellFormed
<1>4. PICK m \in 1 .. i - 1 : Tx(cmds, m, i - 1) BY <1>1, <1>2, <1>3, OpenTx
<1> DEFINE l == i - 1 - m
<1>5. /\ z.type = "array" /\ Len(z.elems) = l /\ l \in Nat
      /\ \A k \in 1 .. l : /\ z.elems[k].of = m + k
                           /\ z.elems[k].type \in Answers(cmds[m + k])
  <2>1. RightReply(cmds, z, i) BY <1>1 DEF RightReplies
  <2>2. i \in Nat /\ m \in Nat /\ m <= i - 1 BY <1>2, <1>4
  <2>3. l \in Nat BY <2>2
  <2> HIDE DEF z
  <2> QED BY <1>4, <2>1, <2>3 DEF RightReply
<1>6. /\ Len(list) >= l /\ Len(list) \in Nat
      /\ \A k \in 1 .. l : list[k].fun = Fun[cmds[m + k]] /\ cmds[m + k] # "hmget"
  BY <1>4, LenProperties DEF Fits
<1>7. \A k \in 1 .. l : cmds[m + k] \in Ops
  <2>1. \A k \in 1 .. l : m + k \in m + 1 .. i - 1 OBVIOUS
  <2> QED BY <1>4, <2>1 DEF Tx
<1>l. l = i - 1 - m OBVIOUS
<1> HIDE DEF z, l
<1>8. Pairs(list, z.elems) = 1 .. l BY <1>5, <1>6 DEF Pairs
<1>9. \A k \in 1 .. l : /\ ~MustFault(list[k].fun, z.elems[k].type)
                        /\ ~MayFault(list[k].fun, z.elems[k].type)
  BY <1>5, <1>6, <1>7, OwnValidator
<1>10. o \in Outcomes({Zipped(list, z.elems)}, FALSE)
  <2>1. ~\E k \in Pairs(list, z.elems) : MustFault(list[k].fun, z.elems[k].type)
    BY <1>8, <1>9
  <2>2. ~\E k \in Pairs(list, z.elems) : MayFault(list[k].fun, z.elems[k].type)
    BY <1>8, <1>9
  <2>3. z.type # "undef" /\ z.type \in Arrays BY <1>5 DEF Arrays
  <2>4. o \in ExecOutcomes(list, z) BY DEF z
  <2>5. o \in Outcomes({Zipped(list, z.elems)}, FALSE \/ FALSE)
    BY <2>1, <2>2, <2>3, <2>4, Zenon DEF ExecOutcomes
  <2> QED BY <2>5
<1>11. o.end = "done" /\ o.items = Zipped(list, z.elems) BY <1>10, Certain
<1>12. z.elems \in Seq(Leaf) BY <1>2 DEF z, Zval
<1>13. ASSUME NEW k \in 1 .. l
       PROVE  /\ Zipped(list, z.elems)[k].of = m + k
              /\ Zipped(list, z.elems)[k].type \in {"false", "null"} =>
                     RefusedByServer(Zipped(list, z.elems)[k].of)
  <2>1. z.elems[k] \in Leaf BY <1>5, <1>12, ElementOfSeq
  <2>2. /\ Zipped(list, z.elems)[k].of = z.elems[k].of
        /\ Zipped(list, z.elems)[k].type = ValidType(list[k].fun, z.elems[k].type)
    BY <1>8, <2>1 DEF Zipped, Leaf
  <2>3. Zipped(list, z.elems)[k].of = m + k BY <1>5, <2>2
  <2>4. ASSUME Zipped(list, z.elems)[k].type \in {"false", "null"}
        PROVE  RefusedByServer(Zipped(list, z.elems)[k].of)
    <3>1. z.elems[k].type = "false"
      BY <1>5, <1>6, <1>7, <2>2, <2>4, OwnValidator
    <3>2. z.elems[k] = [of |-> z.elems[k].of, type |-> "false"] BY <2>1, <3>1 DEF Leaf
    <3>3. k \in DOMAIN z.elems BY <1>5, <1>12, LenProperties
    <3> QED BY <2>2, <3>2, <3>3 DEF RefusedByServer, z
  <2> QED BY <2>3, <2>4
<1>14. DOMAIN Zipped(list, z.elems) = 1 .. l BY <1>8 DEF Zipped
<1>15. Numbered(o.items, m, i - 1) BY <1>l, <1>11, <1>13, <1>14 DEF Numbered
<1> QED BY <1>4, <1>11, <1>13, <1>14, <1>15

LEMMA ReplyUp ==
    ASSUME Tidy, IInv, FInv, Reading, Received, NEW z \in Zvals, NEW before, GetReply(z, before)
    PROVE  /\ TypeOK /\ InStep /\ Reads /\ parsed + Due = issued /\ z \in Zval
           /\ parsed + 1 \in 1 .. served /\ z = replies[parsed + 1] /\ z.of = parsed + 1
           /\ RightReply(cmds, z, parsed + 1)
           /\ WellFormed /\ issued \in Nat /\ parsed + 1 \in 1 .. issued
           /\ UNCHANGED <<cmds, served, replies, inTx, txq, link>>
<1>1. TypeOK /\ link' = "up" BY DEF IInv, FInv, Received
<1>2. /\ InStep /\ parsed < served /\ z = replies[parsed + 1] /\ z.of = parsed + 1
  BY <1>1, TidyCareful, ReplyInStep DEF Lost
<1>3. parsed + 1 \in 1 .. served /\ parsed + 1 \in 1 .. issued /\ issued \in Nat
  BY <1>1, <1>2, Counters
<1>4. RightReply(cmds, z, parsed + 1) BY <1>2, <1>3 DEF FInv, RightReplies
<1> QED BY <1>1, <1>2, <1>3, <1>4, ZvalsType
  DEF InStep, FInv, Received, serverVars

\* A call that ends with results, all of them honest.
LEMMA EndF ==
    ASSUME TypeOK, FInv, UNCHANGED <<cmds, served, replies, inTx, txq, link, out>>,
           pc' = "idle", RightQueue', RightList',
           \A k \in DOMAIN ret'.items : Honest(ret'.items[k])
    PROVE  FInv'
<1>1. RepliesGrow /\ served' \in Nat BY Counters DEF RepliesGrow
<1>2. (\A k \in DOMAIN ret.items : Honest(ret.items[k]))' BY <1>1, HonestStays
<1>3. (\A k \in DOMAIN out : Honest(out[k]))' BY <1>1, HonestStays DEF FInv, HonestResults
<1>4. HonestResults' BY <1>2, <1>3 DEF HonestResults
<1>5. WellFormed' BY WellFormedKept DEF FInv
<1>6. RightTxq' /\ RightReplies' BY ServerSideKept DEF FInv
<1>7. ExecMode' BY DEF ExecMode
<1>8. link' = "up" /\ pc' # "dead" BY DEF FInv
<1> QED BY <1>4, <1>5, <1>6, <1>7, <1>8 DEF FInv

LEMMA RunGives ==
    ASSUME Tidy, IInv, FInv, RunReply
    PROVE  /\ pc' = "idle" /\ ret'.by = "run" /\ pipeline = 0 /\ mode = "DIRECT"
           /\ \E x : ret'.items = <<x>> /\ x.of = issued /\ Honest(x)
           /\ UNCHANGED <<mode, pipeline, out>>
<1> DEFINE op == cmds[issued]
           end(o) == IF o.end = "done"
                     THEN /\ Finish("run", o.items)
                          /\ UNCHANGED <<mode, pipeline, multi, queue, head, at, out>>
                     ELSE Die
<1>1. PICK z \in Zvals : GetReply(z, Null) /\ \E o \in DirectOutcomes(Fun[op], z) : end(o)
  BY DEF RunReply
<1>2. PICK o \in DirectOutcomes(Fun[op], z) : end(o) BY <1>1
<1>3. pc = "run" /\ Reading /\ Received /\ UNCHANGED lists BY DEF RunReply, Reading
<1>4. /\ TypeOK /\ Reads /\ parsed + Due = issued /\ z \in Zval
      /\ parsed + 1 \in 1 .. served /\ z = replies[parsed + 1] /\ z.of = parsed + 1
      /\ RightReply(cmds, z, parsed + 1) /\ WellFormed
      /\ issued \in Nat /\ parsed + 1 \in 1 .. issued
      /\ UNCHANGED <<cmds, served, replies, inTx, txq, link>>
  BY <1>1, <1>3, ReplyUp
<1>5. /\ parsed + 1 = issued /\ op \in Ops /\ ~Opened(cmds, issued - 1)
      /\ pipeline = 0 /\ mode = "DIRECT"
  <2>1. parsed + 1 = issued /\ issued - 1 \in Nat /\ issued - 1 + 1 = issued
    BY <1>3, <1>4 DEF Due
  <2>2. op \in AllOps /\ ~Opened(cmds, issued) /\ pipeline = 0 /\ mode = "DIRECT"
    BY <1>3, <1>4 DEF TypeOK, WireType, Reads
  <2>3. op # "MULTI" /\ op # "EXEC" BY <2>2 DEF AllOps
  <2>4. op \in Ops BY <1>4, <2>1, <2>3 DEF WellFormed
  <2>5. ~Opened(cmds, issued - 1) BY <2>1, <2>2, <2>3, OpenStep
  <2> QED BY <2>1, <2>2, <2>4, <2>5
<1>6. z.type \in Answers(op) /\ z.elems = <<>> /\ z = replies[issued] /\ z.of = issued
      /\ issued \in 1 .. served
  BY <1>4, <1>5 DEF RightReply
<1>7. o.end = "done" /\ o.items = Validated(Fun[op], z)
  <2>1. ~MayFault(Fun[op], z.type) BY <1>5, <1>6, OwnValidator
  <2>2. o \in Outcomes({Validated(Fun[op], z)}, FALSE)
    BY <2>1 DEF DirectOutcomes, Outcomes
  <2> QED BY <2>2, Certain
<1>8. /\ pc' = "idle" /\ ret' = Returned("run", o.items)
      /\ UNCHANGED <<mode, pipeline, out>>
  BY <1>2, <1>7 DEF Finish
<1>9. ret'.by = "run" /\ ret'.items = Validated(Fun[op], z) BY <1>7, <1>8 DEF Returned
<1>10. \A k \in DOMAIN ret'.items : Honest(ret'.items[k])
  BY <1>4, <1>5, <1>6, <1>9, DirectHonest
<1>11. Fun[op] # "skip" BY <1>5, NoSkip
<1> DEFINE x == [z EXCEPT !.type = ValidType(Fun[op], @)]
<1>12. Validated(Fun[op], z) = <<x>> BY <1>11 DEF Validated
<1>13. x.of = issued BY <1>4, <1>6 DEF Zval
<1> HIDE DEF x
<1>14. Honest(x) BY <1>9, <1>10, <1>12
<1> QED BY <1>5, <1>8, <1>9, <1>12, <1>13, <1>14

LEMMA RunReplyF == ASSUME Tidy, IInv, FInv, RunReply PROVE FInv'
<1>1. /\ pc' = "idle" /\ pipeline = 0 /\ mode = "DIRECT"
      /\ UNCHANGED <<mode, pipeline, out>>
  BY RunGives
<1>2. \A k \in DOMAIN ret'.items : Honest(ret'.items[k])
  <2>1. PICK x : ret'.items = <<x>> /\ Honest(x) BY RunGives
  <2> QED BY <2>1
<1>3. RightQueue' /\ RightList' BY <1>1 DEF RightQueue, RightList
<1> QED BY <1>1, <1>2, <1>3, EndF DEF IInv, RunReply, Received, serverVars

LEMMA MultiGives ==
    ASSUME Tidy, IInv, FInv, MultiReply
    PROVE  /\ NewTransaction /\ pc' = "idle" /\ ret' = Self
           /\ issued - 1 \in Nat /\ cmds[issued] = "MULTI" /\ mode = "DIRECT"
           /\ pipeline = 0 /\ UNCHANGED <<pipeline, out>>
<1>1. PICK z \in Zvals :
         /\ GetReply(z, Garbage)
         /\ \/ /\ z.type \in {"true", "undef"}
               /\ NewTransaction
               /\ pc' = "idle" /\ ret' = Self
               /\ UNCHANGED <<pipeline, multi, queue, at, out>>
            \/ /\ z.type # "true"
               /\ pc' = "idle" /\ ret' = False
               /\ UNCHANGED <<mode, pipeline, multi, queue, head, at, out>>
            \/ z.type = "undef" /\ Die
  BY DEF MultiReply
<1>2. pc = "multi" /\ Reading /\ Received BY DEF MultiReply, Reading
<1>3. /\ TypeOK /\ Reads /\ parsed + Due = issued
      /\ parsed + 1 \in 1 .. served /\ z = replies[parsed + 1]
      /\ issued \in Nat /\ parsed + 1 \in 1 .. issued
  BY <1>1, <1>2, ReplyUp
<1>4. /\ parsed + 1 = issued /\ cmds[issued] = "MULTI" /\ ~Opened(cmds, issued - 1)
      /\ pipeline = 0 /\ mode = "DIRECT" /\ issued - 1 \in Nat
  BY <1>2, <1>3 DEF Reads, Due
<1>5. z.type = "true" BY <1>3, <1>4 DEF IInv, ServerInv
<1> QED BY <1>1, <1>4, <1>5

LEMMA MultiReplyF == ASSUME Tidy, IInv, FInv, MultiReply PROVE FInv'
<1>1. /\ NewTransaction /\ pc' = "idle" /\ ret' = Self
      /\ issued - 1 \in Nat /\ cmds[issued] = "MULTI"
      /\ pipeline = 0 /\ UNCHANGED <<pipeline, out>>
  BY MultiGives
<1>2. /\ UNCHANGED <<cmds, served, replies, inTx, txq, link>> /\ TypeOK
      /\ issued' = issued /\ issued \in Nat /\ issued - 1 + 1 = issued
  BY Counters DEF MultiReply, Received, serverVars, issued, IInv
<1>3. TxEnd' = issued /\ ListAt(head)' = <<>>
  BY <1>1, <1>2 DEF TxEnd, NewTransaction, ListAt
<1>4. RightList' BY <1>1, <1>2, <1>3, NewList
<1>5. RightQueue' BY <1>1 DEF RightQueue
<1>6. ret'.items = <<>> /\ pc' # "dead" /\ ExecMode'
  BY <1>1 DEF Self, Returned, ExecMode
<1> QED BY <1>1, <1>2, <1>4, <1>5, <1>6, CoreF

LEMMA SkipGives ==
    ASSUME Tidy, IInv, FInv, SkipReply
    PROVE  /\ {pc, pc'} \subseteq {"skip", "tab"}
           /\ UNCHANGED <<mode, pipeline, queue, head, out, ret>>
<1>1. PICK z \in Zvals :
         /\ GetReply(z, Garbage)
         /\ \/ /\ pc' = IF at = Len(queue) THEN "tab" ELSE "skip"
               /\ at' = at + 1
               /\ UNCHANGED <<mode, pipeline, multi, queue, head, out, ret>>
            \/ z.type = "undef" /\ Die
  BY DEF SkipReply
<1>2. pc = "skip" /\ Reading /\ Received BY DEF SkipReply, Reading
<1>3. RightReply(cmds, z, parsed + 1) BY <1>1, <1>2, ReplyUp
<1>4. z.type # "undef" BY <1>3 DEF RightReply
<1> QED BY <1>1, <1>2, <1>4

LEMMA SkipReplyF == ASSUME Tidy, IInv, FInv, SkipReply PROVE FInv'
<1>1. UNCHANGED <<cmds, lists, served, replies, inTx, txq, link>> /\ TypeOK
  BY DEF SkipReply, Received, serverVars, IInv
<1> QED BY <1>1, SkipGives, QuietF

LEMMA TabGives ==
    ASSUME Tidy, IInv, FInv, TabReply
    PROVE  /\ pc' = "idle" /\ ret'.by = "exec" /\ pipeline = 0 /\ mode' = "DIRECT"
           /\ \A k \in DOMAIN ret'.items : Honest(ret'.items[k])
           /\ issued \in Nat /\ \E m \in 1 .. issued - 1 :
                  Tx(cmds, m, issued - 1) /\ Numbered(ret'.items, m, issued - 1)
           /\ UNCHANGED <<pipeline, queue, out>>
<1> DEFINE zvals(o) == [k \in DOMAIN o.items |-> Z(o.items[k].of, o.items[k].type)]
           end(o) == IF o.end = "done"
                     THEN /\ Finish("exec", zvals(o)) /\ EndTransaction
                          /\ UNCHANGED <<pipeline, queue, at, out>>
                     ELSE Die
<1>1. PICK z \in Zvals :
        GetReply(z, Garbage) /\ \E o \in ExecOutcomes(ListAt(head), z) : end(o)
  BY Zenon DEF TabReply
<1>2. PICK o \in ExecOutcomes(ListAt(head), z) : end(o) BY <1>1
<1>3. pc = "tab" /\ Reading /\ Received /\ UNCHANGED lists
  BY DEF TabReply, Reading
<1>4. /\ TypeOK /\ Reads /\ parsed + Due = issued
      /\ parsed + 1 \in 1 .. served /\ z = replies[parsed + 1]
      /\ issued \in Nat
      /\ UNCHANGED <<cmds, served, replies, inTx, txq, link>>
  BY <1>1, <1>3, ReplyUp
<1>5. /\ parsed + 1 = issued /\ cmds[issued] = "EXEC" /\ pipeline = 0
      /\ issued \in 1 .. served /\ z = replies[issued]
  BY <1>3, <1>4 DEF Reads, Due
<1>6. Fits(cmds, ListAt(head), issued - 1)
  BY <1>3 DEF FInv, ExecMode, RightList, TxEnd
<1>7. /\ o.end = "done"
      /\ \A k \in DOMAIN o.items :
            o.items[k].type \in {"false", "null"} => RefusedByServer(o.items[k].of)
      /\ \E m \in 1 .. issued - 1 :
            Tx(cmds, m, issued - 1) /\ Numbered(o.items, m, issued - 1)
  BY <1>4, <1>5, <1>6, ListAtType, ExecHonest
<1>8. /\ pc' = "idle" /\ ret' = Returned("exec", zvals(o)) /\ mode' = "DIRECT"
      /\ UNCHANGED <<pipeline, queue, out>>
  BY <1>2, <1>7 DEF Finish, EndTransaction
<1>9. ret'.by = "exec" /\ ret'.items = zvals(o) BY <1>8 DEF Returned
<1>10. \A k \in DOMAIN ret'.items : Honest(ret'.items[k])
  <2> TAKE k \in DOMAIN ret'.items
  <2>1. k \in DOMAIN o.items /\ ret'.items[k] = Z(o.items[k].of, o.items[k].type)
    BY <1>9
  <2> QED BY <1>7, <2>1 DEF Honest, Z
<1>11. PICK m \in 1 .. issued - 1 :
          Tx(cmds, m, issued - 1) /\ Numbered(o.items, m, issued - 1)
  BY <1>7
<1>12. Numbered(ret'.items, m, issued - 1) BY <1>9, <1>11 DEF Numbered, Z
<1> HIDE DEF zvals, end
<1> QED BY <1>4, <1>5, <1>8, <1>9, <1>10, <1>11, <1>12

LEMMA TabReplyF == ASSUME Tidy, IInv, FInv, TabReply PROVE FInv'
<1>1. /\ pc' = "idle" /\ pipeline = 0 /\ mode' = "DIRECT"
      /\ \A k \in DOMAIN ret'.items : Honest(ret'.items[k])
      /\ UNCHANGED <<pipeline, out>>
  BY TabGives
<1>2. RightQueue' /\ RightList' BY <1>1 DEF RightQueue, RightList
<1>3. UNCHANGED <<cmds, served, replies, inTx, txq, link>>
  BY DEF TabReply, Received, serverVars
<1> QED BY <1>1, <1>2, <1>3, EndF DEF IInv

LEMMA SendNextF ==
    ASSUME IInv, FInv, pc = "send", Received, UNCHANGED lists, Reads,
           NEW items \in Seq(Zval), \A k \in DOMAIN items : Honest(items[k]),
           SendNext(items)
    PROVE  FInv'
<1> DEFINE all == out \o items
<1>1. /\ TypeOK /\ mode' = "DIRECT" /\ out \in Seq(Zval)
      /\ UNCHANGED <<cmds, served, replies, inTx, txq, link>>
  BY DEF IInv, TypeOK, CallType, SendNext, Reads, Received, serverVars
<1>2. \A k \in DOMAIN all : Honest(all[k])
  <2>1. /\ all \in Seq(Zval) /\ Len(all) = Len(out) + Len(items)
        /\ \A k \in 1 .. Len(out) + Len(items) :
              all[k] = IF k <= Len(out) THEN out[k] ELSE items[k - Len(out)]
    BY <1>1, ConcatProperties
  <2>2. /\ DOMAIN all = 1 .. Len(out) + Len(items) /\ DOMAIN out = 1 .. Len(out)
        /\ DOMAIN items = 1 .. Len(items) /\ Len(out) \in Nat /\ Len(items) \in Nat
    BY <1>1, <2>1, LenProperties
  <2>3. \A k \in 1 .. Len(out) : Honest(out[k]) BY <2>2 DEF FInv, HonestResults
  <2> HIDE DEF all
  <2>4. ASSUME NEW k \in 1 .. Len(out) + Len(items) PROVE Honest(all[k])
    <3>1. CASE k <= Len(out) BY <2>1, <2>2, <2>3, <3>1
    <3>2. CASE k > Len(out)
      <4>1. k - Len(out) \in DOMAIN items /\ all[k] = items[k - Len(out)]
        BY <2>1, <2>2, <3>2
      <4> QED BY <4>1
    <3> QED BY <2>2, <3>1, <3>2
  <2> QED BY <2>2, <2>4
<1>3. RightList' /\ issued' = issued BY <1>1 DEF RightList, issued
<1>4. CASE at = Len(queue)
  <2>1. /\ pipeline' = 0 /\ pc' = "idle" /\ ret' = Returned("send", all) /\ UNCHANGED out
    BY <1>4 DEF SendNext, Finish
  <2>2. ret'.items = all BY <2>1 DEF Returned
  <2>3. RightQueue' BY <2>1 DEF RightQueue
  <2> HIDE DEF all
  <2> QED BY <1>1, <1>2, <1>3, <2>1, <2>2, <2>3, EndF
<1>5. CASE at # Len(queue)
  <2>1. out' = all /\ UNCHANGED <<pipeline, queue, pc, ret>> BY <1>5 DEF SendNext
  <2>2. RightQueue' BY <1>1, <1>3, <2>1 DEF FInv, RightQueue
  <2>3. RepliesGrow /\ served' \in Nat BY <1>1, Counters DEF RepliesGrow
  <2> HIDE DEF all
  <2>4. (\A k \in DOMAIN out : Honest(out[k]))' BY <1>1, <1>2, <2>1, <2>3, HonestStays
  <2>5. (\A k \in DOMAIN ret.items : Honest(ret.items[k]))'
    BY <1>1, <2>1, <2>3, HonestStays DEF FInv, HonestResults
  <2>6. HonestResults' BY <2>4, <2>5 DEF HonestResults
  <2>7. WellFormed' BY <1>1, WellFormedKept DEF FInv
  <2>8. RightTxq' /\ RightReplies' BY <1>1, ServerSideKept DEF FInv
  <2> QED BY <1>1, <1>3, <2>1, <2>2, <2>6, <2>7, <2>8 DEF FInv, ExecMode
<1> QED BY <1>4, <1>5

\* What send() makes of the reply to the command of n.
Made(n, items) ==
    IF n.list # 0
    THEN \E x, m : /\ items = <<x>> /\ x.type = "array" /\ m \in 1 .. n.of - 1
                   /\ Tx(cmds, m, n.of - 1) /\ Numbered(x.elems, m, n.of - 1)
    ELSE IF n.fun = "skip" THEN items = <<>>
    ELSE \E x : items = <<x>> /\ x.of = n.of

LEMMA SendGives ==
    ASSUME Tidy, IInv, FInv, SendReply
    PROVE  Reads /\ \E items \in Seq(Zval) :
               /\ SendNext(items) /\ Made(queue[at], items)
               /\ \A k \in DOMAIN items : Honest(items[k])
<1> DEFINE c == queue[at]
           Joined(z, items) == <<[of |-> z.of, type |-> "array", elems |-> items]>>
           outcomes(z) == IF c.list = 0 THEN PlainOutcomes(c.fun, z)
                          ELSE ExecOutcomes(lists[c.list], z)
           results(z, o) == IF c.list = 0 THEN o.items ELSE Joined(z, o.items)
<1>1. pc = "send" /\ Reading /\ Received /\ UNCHANGED lists
  BY DEF SendReply, Reading
<1>2. PICK z \in Zvals :
        /\ GetReply(z, Garbage)
        /\ \E o \in outcomes(z) : IF o.end = "done" THEN SendNext(results(z, o)) ELSE Die
  BY Zenon DEF SendReply
<1>3. PICK o \in outcomes(z) : IF o.end = "done" THEN SendNext(results(z, o)) ELSE Die
  BY <1>2
<1>4. /\ TypeOK /\ Reads /\ parsed + Due = issued /\ z \in Zval
      /\ parsed + 1 \in 1 .. served /\ z = replies[parsed + 1] /\ z.of = parsed + 1
      /\ RightReply(cmds, z, parsed + 1)
      /\ issued \in Nat /\ parsed + 1 \in 1 .. issued
  BY <1>1, <1>2, ReplyUp
<1>5. /\ at \in 1 .. Len(queue) /\ Len(queue) \in Nat /\ pipeline = 1
      /\ RightQueue /\ parsed \in Nat
  BY <1>1, <1>4, LenProperties, Counters
     DEF TypeOK, CallType, SockType, QueueType, Reads, FInv
<1>6. c.of = parsed + 1 /\ RightNode(cmds, lists, c)
  <2>1. parsed + (Len(queue) - at + 1) = issued BY <1>1, <1>4 DEF Due
  <2>2. c.of = issued - Len(queue) + at /\ RightNode(cmds, lists, c)
    BY <1>5 DEF RightQueue
  <2> QED BY <1>4, <1>5, <2>1, <2>2
<1>7. c \in Node /\ c.list \in 0 .. Len(lists)
  BY <1>4, <1>5, ElementOfSeq DEF TypeOK, SockType, QueueType
<1>8. /\ o.end = "done" /\ results(z, o) \in Seq(Zval)
      /\ Made(c, results(z, o))
      /\ \A k \in DOMAIN results(z, o) : Honest(results(z, o)[k])
  <2> HIDE DEF c
  <2>1. CASE c.list = 0 /\ c.fun = "skip"
    <3>1. ~MustFault("skip", z.type) /\ ~MayFault("skip", z.type)
      BY DEF MustFault, MayFault
    <3>2. Validated("skip", z) = <<>> BY DEF Validated
    <3>3. o \in Outcomes({<<>>}, FALSE)
      BY <2>1, <3>1, <3>2 DEF PlainOutcomes, Outcomes
    <3>4. o.end = "done" /\ o.items = <<>> BY <3>3, Certain
    <3>5. results(z, o) = <<>> BY <2>1, <3>4
    <3>6. Made(c, <<>>) BY <2>1 DEF Made
    <3> QED BY <3>4, <3>5, <3>6
  <2>2. CASE /\ c.list = 0 /\ c.fun = Fun[cmds[c.of]]
             /\ cmds[c.of] \in Ops \ {"hmget"} /\ ~Opened(cmds, c.of - 1)
    <3> DEFINE op == cmds[c.of]
    <3>1. op \in Ops /\ op # "hmget" /\ c.fun = Fun[op] BY <2>2
    <3>2. z.type \in Answers(op) /\ z.elems = <<>>
      BY <1>4, <1>6, <2>2 DEF RightReply
    <3> HIDE DEF op
    <3>3. ~MustFault(Fun[op], z.type) /\ ~MayFault(Fun[op], z.type)
      BY <3>1, <3>2, OwnValidator
    <3>4. o \in Outcomes({Validated(Fun[op], z)}, FALSE)
      BY <2>2, <3>1, <3>3 DEF PlainOutcomes, Outcomes
    <3>5. o.end = "done" /\ o.items = Validated(Fun[op], z) BY <3>4, Certain
    <3>6. results(z, o) = Validated(Fun[op], z) BY <2>2, <3>5
    <3>7. \A k \in DOMAIN Validated(Fun[op], z) : Honest(Validated(Fun[op], z)[k])
      BY <1>4, <3>1, <3>2, DirectHonest
    <3>8. Validated(Fun[op], z) \in Seq(Zval) BY <1>4, ValidatedType
    <3>9. Made(c, Validated(Fun[op], z))
      <4>1. Fun[op] # "skip" BY <3>1, NoSkip
      <4> DEFINE x == [z EXCEPT !.type = ValidType(Fun[op], @)]
      <4>2. Validated(Fun[op], z) = <<x>> BY <4>1 DEF Validated
      <4>3. x.of = c.of BY <1>4, <1>6 DEF Zval
      <4> HIDE DEF x
      <4> QED BY <2>2, <3>1, <4>1, <4>2, <4>3 DEF Made
    <3> HIDE DEF results
    <3> QED BY <3>5, <3>6, <3>7, <3>8, <3>9
  <2>3. CASE /\ c.list # 0 /\ cmds[c.of] = "EXEC"
             /\ Fits(cmds, lists[c.list], c.of - 1)
    <3> DEFINE i == parsed + 1
               list == lists[c.list]
    <3>1. i \in 1 .. served /\ cmds[i] = "EXEC" /\ z = replies[i]
          /\ Fits(cmds, list, i - 1)
      BY <1>4, <1>6, <2>3
    <3>2. list \in Seq(Node)
      BY <1>4, <1>7, <2>3, ElementOfSeq DEF TypeOK, SockType, QueueType
    <3>3. o \in ExecOutcomes(list, replies[i]) BY <2>3, <3>1
    <3> HIDE DEF i, list
    <3>4. /\ o.end = "done"
          /\ \A k \in DOMAIN o.items :
                o.items[k].type \in {"false", "null"} => RefusedByServer(o.items[k].of)
          /\ \E m \in 1 .. i - 1 : Tx(cmds, m, i - 1) /\ Numbered(o.items, m, i - 1)
      BY <3>1, <3>2, <3>3, ExecHonest
    <3>5. o.items \in Seq(Leaf) BY <1>4, <3>1, <3>2, <3>3, ExecOutcomesType
    <3> DEFINE x == [of |-> z.of, type |-> "array", elems |-> o.items]
    <3>6. x \in Zval BY <1>4, <3>5 DEF Zval, Types, Arrays
    <3>7. Honest(x) BY <3>4 DEF Honest
    <3>8. results(z, o) = <<x>> BY <2>3
    <3>9. Made(c, <<x>>)
      <4>1. x.type = "array" /\ x.elems = o.items OBVIOUS
      <4>2. i = c.of BY <1>6 DEF i
      <4> HIDE DEF x
      <4> QED BY <2>3, <3>4, <4>1, <4>2 DEF Made
    <3> HIDE DEF x, results
    <3>10. <<x>> \in Seq(Zval) /\ \A k \in DOMAIN <<x>> : Honest(<<x>>[k])
      BY <3>6, <3>7
    <3> QED BY <3>4, <3>8, <3>9, <3>10
  <2> QED BY <1>6, <2>1, <2>2, <2>3 DEF RightNode
<1> HIDE DEF results, outcomes
<1>9. SendNext(results(z, o)) BY <1>3, <1>8
<1> QED BY <1>4, <1>8, <1>9

LEMMA SendReplyF == ASSUME Tidy, IInv, FInv, SendReply PROVE FInv'
<1>1. PICK items \in Seq(Zval) : SendNext(items) /\ \A k \in DOMAIN items : Honest(items[k])
  BY SendGives
<1>2. Reads BY SendGives
<1> QED BY <1>1, <1>2, SendNextF DEF SendReply

LEMMA NextF == ASSUME Tidy, IInv, FInv, [Next]_vars, ~ServerCloses PROVE FInv'
<1>1. CASE Method
  BY <1>1, ConnectF, RestingF, PipelineF, SendF, RunF, MultiF, MultiPipelinedF,
     ExecF, ExecPipelinedF DEF Method
<1>2. CASE Progress
  BY <1>2, RestingF, RunReplyF, MultiReplyF, SkipReplyF, TabReplyF, SendReplyF
     DEF Progress
<1> QED BY <1>1, <1>2, ServeF, RestingF DEF Next

LEMMA InitF == Init => FInv
<1> SUFFICES ASSUME Init PROVE FInv OBVIOUS
<1>1. WellFormed /\ RightTxq /\ RightReplies /\ RightQueue /\ RightList /\ ExecMode
  BY DEF Init, issued, WellFormed, RightTxq, RightReplies, RightQueue, RightList, ExecMode
<1>2. ret.items = <<>> /\ out = <<>> BY DEF Init, Self, Returned
<1>3. HonestResults BY <1>2 DEF HonestResults
<1> QED BY <1>1, <1>3 DEF FInv, Init

LEMMA CleanHolds == ASSUME Clean PROVE Spec => [](IInv /\ FInv)
<1>1. Init => IInv /\ FInv BY InitIInv, InitF
<1>2. IInv /\ FInv /\ [Next]_vars => (IInv /\ FInv)'
  BY TidyCareful, NextIInv, NextF DEF Clean, ServerCloses
<1> QED BY <1>1, <1>2, PTL DEF Spec

(***************************************************************************)
(* A script that keeps clear of the patterns brings no method to follow a  *)
(* NULL pointer, to take the reply to EXEC for an array when it is none,   *)
(* or to give a validator what it cannot take (redis.c: exec, send;        *)
(* library.c: the redis_reply_ functions), however long it runs.           *)
(***************************************************************************)
THEOREM NoFaults == ASSUME Clean PROVE Spec => []NoFault
<1>1. IInv /\ FInv => NoFault BY DEF FInv, NoFault
<1> QED BY <1>1, CleanHolds, PTL

(***************************************************************************)
(* ... and FALSE or NULL in what it gets, alone or in the array of exec(), *)
(* is always the server's refusal of that very command: no reply is given  *)
(* to the validator of another one (library.c: redis_enqueue; redis.c:     *)
(* redis_sock_read_multibulk_multi_reply).                                 *)
(***************************************************************************)
THEOREM RefusalsAreTheServers == ASSUME Clean PROVE Spec => []NoValueRejected
<1>1. IInv /\ FInv => NoValueRejected
  BY DEF FInv, HonestResults, Honest, NoValueRejected
<1> QED BY <1>1, CleanHolds, PTL
=============================================================================
