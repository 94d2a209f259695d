------------------------- MODULE AsyncContextProofs -------------------------
(***************************************************************************)
(* What holds of AsyncContext for any number of commands and every habit   *)
(* of the user's code, and what needs the user to keep clear of some.      *)
(***************************************************************************)
EXTENDS AsyncContext, SequenceTheorems, TLAPS

(***************************************************************************)
(* Types.                                                                  *)
(***************************************************************************)
LEMMA InitType == Init => TypeOK
  BY DEF Init, TypeOK

LEMMA UserType == ASSUME TypeOK, User PROVE TypeOK'
<1>1. ASSUME NEW fn \in {"fn", "NULL"}, Command(fn)
      PROVE  TypeOK'
  BY <1>1 DEF TypeOK, Command, PushCallback, ctxVars
<1>2. CASE AttachLibevent \/ AttachLibev
  BY <1>2 DEF TypeOK, AttachLibevent, AttachLibev, ctxVars, listVars, wireVars
<1>3. CASE SetDisconnectCallback \/ Disconnect
  BY ZenonT(60), <1>3 DEF TypeOK, SetDisconnectCallback, Disconnect, evVars, listVars, wireVars
<1> QED BY <1>1, <1>2, <1>3 DEF User

(***************************************************************************)
(* What a turn of redisProcessCallbacks or of the purge comes to.          *)
(***************************************************************************)
\* The callback at the head of the list is given reply r.
Shift(r) ==
    /\ callbacks # <<>> /\ callbacks' = Tail(callbacks)
    /\ calls' = Append(calls, [cb |-> Head(callbacks), reply |-> r])
    /\ UNCHANGED <<life, status, rd, wr, err, disconnecting>>

SameLists == UNCHANGED <<callbacks, calls, parsed>>

Deliver == /\ parsed < fetched /\ replies[parsed + 1] # Garbled
           /\ parsed' = parsed + 1
           /\ Shift(replies[parsed + 1]) /\ pc' \in {"process", "callback"}

NoTaker == /\ parsed < fetched /\ replies[parsed + 1] # Garbled
           /\ parsed' = parsed + 1 /\ callbacks = <<>>
           /\ Abort /\ UNCHANGED <<callbacks, calls, err, disconnecting>>

Misread == /\ parsed < fetched /\ replies[parsed + 1] = Garbled
           /\ BeginPurge("protocol")
           /\ SameLists /\ UNCHANGED <<life, status, rd, wr>>

Drained == /\ parsed = fetched /\ SameLists /\ UNCHANGED <<err, disconnecting>>
           /\ \/ DisconnectDue /\ callbacks = <<>> /\ Free("OK")
              \/ DisconnectDue /\ callbacks # <<>> /\ Abort
              \/ pc' = "idle" /\ UNCHANGED <<life, status, rd, wr>>

LEMMA ProcessSteps ==
    ASSUME Process
    PROVE  /\ life = "up" /\ pc = "process"
           /\ Deliver \/ NoTaker \/ Misread \/ Drained
           /\ UNCHANGED <<onDisconnect, silent, adapter, issued, sent, replies,
                          fetched, part, link>>
  BY DEF Process, Deliver, NoTaker, Misread, Drained, SameLists, Shift,
         CleanDisconnect

PurgeOne == /\ Shift(NULL) /\ pc' \in {"purge", "nullCallback"}

PurgeEnds == /\ callbacks = <<>> /\ Free("ERR")
             /\ UNCHANGED <<callbacks, calls, err, disconnecting>>

LEMMA PurgeSteps ==
    ASSUME Purge
    PROVE  /\ life = "up" /\ pc = "purge"
           /\ PurgeOne \/ PurgeEnds
           /\ UNCHANGED <<onDisconnect, silent, adapter, wireVars>>
  BY DEF Purge, PurgeOne, PurgeEnds, Shift

LEMMA ShiftType ==
    ASSUME TypeOK, NEW r \in Nat, Shift(r)
    PROVE  callbacks' \in Seq(Nat) /\ calls' \in Seq(Call)
<1>1. Head(callbacks) \in Nat /\ Tail(callbacks) \in Seq(Nat)
  BY HeadTailProperties DEF TypeOK, Shift
<1> QED BY <1>1 DEF TypeOK, Shift, Call

LEMMA ProcessType == ASSUME TypeOK, Process PROVE TypeOK'
<1>1. UNCHANGED <<onDisconnect, silent, adapter, issued, sent, replies, fetched,
                  part, link>>
  BY ProcessSteps
<1>2. CASE Deliver
  <2>1. replies[parsed + 1] \in Nat
    BY <1>2 DEF TypeOK, Deliver
  <2>2. callbacks' \in Seq(Nat) /\ calls' \in Seq(Call)
    BY <1>2, <2>1, ShiftType DEF Deliver
  <2> QED BY <1>1, <1>2, <2>2 DEF TypeOK, Deliver, Shift
<1>3. CASE NoTaker
  BY <1>1, <1>3 DEF TypeOK, NoTaker, Abort
<1>4. CASE Misread
  BY <1>1, <1>4 DEF TypeOK, Misread, BeginPurge, SameLists
<1>5. CASE Drained
  BY <1>1, <1>5 DEF TypeOK, Drained, Free, Abort, SameLists
<1> QED BY <1>2, <1>3, <1>4, <1>5, ProcessSteps

LEMMA PurgeType == ASSUME TypeOK, Purge PROVE TypeOK'
<1>1. UNCHANGED <<onDisconnect, silent, adapter, wireVars>>
  BY PurgeSteps
<1>2. CASE PurgeOne
  <2>1. callbacks' \in Seq(Nat) /\ calls' \in Seq(Call)
    BY <1>2, ShiftType DEF PurgeOne, NULL
  <2> QED BY <1>1, <1>2, <2>1 DEF TypeOK, PurgeOne, Shift, wireVars
<1>3. CASE PurgeEnds
  BY <1>1, <1>3 DEF TypeOK, PurgeEnds, Free, wireVars
<1> QED BY <1>2, <1>3, PurgeSteps

LEMMA EventType == ASSUME TypeOK, HandleRead \/ HandleWrite PROVE TypeOK'
<1>1. CASE HandleRead
  BY <1>1 DEF TypeOK, HandleRead, Read, BeginPurge, Add, Fired, listVars
<1>2. CASE HandleWrite
  BY <1>2 DEF TypeOK, HandleWrite, Written, BeginPurge, Add, Fired, listVars
<1> QED BY <1>1, <1>2

LEMMA WorldType ==
    ASSUME TypeOK, Return \/ Serve \/ Push \/ Garble \/ LinkFails
    PROVE  TypeOK'
<1> USE DEF TypeOK, ctxVars, listVars, evVars, wireVars
<1>1. CASE Return BY <1>1 DEF Return
<1>2. CASE Serve BY <1>2 DEF Serve
<1>3. CASE Push BY <1>3 DEF Push, Answered
<1>4. CASE Garble BY <1>4 DEF Garble, Garbled
<1>5. CASE LinkFails BY <1>5 DEF LinkFails
<1> QED BY <1>1, <1>2, <1>3, <1>4, <1>5

LEMMA NextType == ASSUME TypeOK, [Next]_vars PROVE TypeOK'
<1>1. CASE UNCHANGED vars
  BY <1>1 DEF TypeOK, vars, ctxVars, listVars, evVars, wireVars
<1> QED BY <1>1, UserType, ProcessType, PurgeType, EventType, WorldType DEF Next

\* The counters of the connection stay in order, and every variable in its
\* type, for every user and every failure.
THEOREM TypeCorrect == Spec => []TypeOK
<1> QED BY InitType, NextType, PTL DEF Spec

-----------------------------------------------------------------------------
(***************************************************************************)
(* The list of callbacks.  The commands that were taken off it and those   *)
(* that wait on it are together the commands issued, in their order.       *)
(***************************************************************************)
InOrder ==
    /\ Len(calls) + Len(callbacks) = issued
    /\ \A k \in 1 .. Len(calls) : calls[k].cb = k
    /\ \A k \in 1 .. Len(callbacks) : callbacks[k] = Len(calls) + k

ListInv == InOrder /\ (life = "freed" => callbacks = <<>>)

\* A step that leaves the lists alone and frees nothing.
SameList == UNCHANGED <<callbacks, calls, issued>> /\ life' # "freed"

LEMMA ShiftOrder ==
    ASSUME TypeOK, InOrder, NEW r, r \in Nat, Shift(r), issued' = issued
    PROVE  InOrder'
<1> DEFINE x == [cb |-> Head(callbacks), reply |-> r]
<1>1. x \in Call /\ x.cb = Len(calls) + 1
  BY SMTT(30) DEF TypeOK, InOrder, Shift, Call
<1>2. Len(callbacks') = Len(callbacks) - 1
      /\ \A k \in 1 .. Len(callbacks') : callbacks'[k] = callbacks[k + 1]
  BY HeadTailProperties DEF TypeOK, Shift
<1>3. Len(calls') = Len(calls) + 1 /\ calls'[Len(calls) + 1] = x
      /\ \A k \in 1 .. Len(calls) : calls'[k] = calls[k]
  BY <1>1, AppendProperties DEF TypeOK, Shift
<1> HIDE DEF x
<1>4. Len(callbacks) \in Nat /\ Len(calls) \in Nat BY LenProperties DEF TypeOK
<1>5. Len(calls') + Len(callbacks') = issued'
  BY <1>2, <1>3, <1>4 DEF InOrder
<1>6. ASSUME NEW k \in 1 .. Len(calls') PROVE calls'[k].cb = k
  BY <1>1, <1>3, <1>4, <1>6 DEF InOrder
<1>7. ASSUME NEW k \in 1 .. Len(callbacks') PROVE callbacks'[k] = Len(calls') + k
  BY <1>2, <1>3, <1>4, <1>7 DEF InOrder
<1> QED BY <1>5, <1>6, <1>7 DEF InOrder

LEMMA CommandOrder ==
    ASSUME TypeOK, ListInv, NEW fn, Command(fn)
    PROVE  ListInv'
<1>1. Len(callbacks') = Len(callbacks) + 1
      /\ callbacks'[Len(callbacks) + 1] = issued + 1
      /\ \A k \in 1 .. Len(callbacks) : callbacks'[k] = callbacks[k]
  BY AppendProperties DEF TypeOK, Command, PushCallback
<1>2. Len(callbacks) \in Nat /\ Len(calls) \in Nat BY LenProperties DEF TypeOK
<1>3. life' = "up" /\ issued' = issued + 1 /\ calls' = calls
  BY DEF Command, UserCode, ctxVars
<1>4. ASSUME NEW k \in 1 .. Len(callbacks')
      PROVE  callbacks'[k] = Len(calls) + k
  <2>1. k \in 1 .. Len(callbacks) \/ k = Len(callbacks) + 1
    BY <1>1, <1>2, <1>4
  <2>2. Len(calls) + Len(callbacks) = issued
        /\ \A j \in 1 .. Len(callbacks) : callbacks[j] = Len(calls) + j
    BY DEF ListInv, InOrder
  <2> QED BY <1>1, <1>2, <2>1, <2>2
<1>5. Len(calls) + Len(callbacks') = issued + 1
  BY <1>1, <1>2 DEF ListInv, InOrder
<1> QED BY <1>3, <1>4, <1>5 DEF ListInv, InOrder

LEMMA SameListOrder ==
    ASSUME ListInv, SameList \/ UNCHANGED <<callbacks, calls, issued, life>>
    PROVE  ListInv'
  BY DEF ListInv, InOrder, SameList

LEMMA ProcessOrder == ASSUME TypeOK, ListInv, Process PROVE ListInv'
<1>1. issued' = issued /\ life = "up" BY ProcessSteps
<1>2. CASE Deliver
  <2>1. replies[parsed + 1] \in Nat
    BY <1>2 DEF TypeOK, Deliver
  <2> QED BY <1>1, <1>2, <2>1, ShiftOrder DEF ListInv, Deliver, Shift
<1>3. CASE NoTaker \/ Misread
  BY <1>1, <1>3, SameListOrder DEF SameList, NoTaker, Misread, Abort, SameLists
<1>4. CASE Drained
  BY <1>1, <1>4 DEF ListInv, InOrder, Drained, Free, Abort, SameLists
<1> QED BY <1>2, <1>3, <1>4, ProcessSteps

LEMMA PurgeOrder == ASSUME TypeOK, ListInv, Purge PROVE ListInv'
<1>1. issued' = issued /\ life = "up" BY PurgeSteps DEF wireVars
<1>2. CASE PurgeOne
  BY <1>1, <1>2, ShiftOrder DEF ListInv, PurgeOne, Shift, NULL
<1>3. CASE PurgeEnds
  BY <1>1, <1>3 DEF ListInv, InOrder, PurgeEnds
<1> QED BY <1>2, <1>3, PurgeSteps

LEMMA NextOrder == ASSUME TypeOK, ListInv, [Next]_vars PROVE ListInv'
<1> USE DEF vars, ctxVars, listVars, evVars, wireVars
<1>1. CASE \/ AttachLibevent \/ AttachLibev \/ SetDisconnectCallback \/ Disconnect
           \/ Return \/ Serve \/ Push \/ Garble \/ LinkFails \/ UNCHANGED vars
  <2>1. UNCHANGED <<callbacks, calls, issued, life>>
    BY <1>1 DEF AttachLibevent, AttachLibev, SetDisconnectCallback, Disconnect,
                Return, Serve, Push, Garble, LinkFails
  <2> QED BY <2>1, SameListOrder
<1>2. CASE HandleRead \/ HandleWrite
  <2>1. UNCHANGED <<callbacks, calls, issued, life>>
    BY <1>2 DEF HandleRead, HandleWrite
  <2> QED BY <2>1, SameListOrder
<1> QED BY <1>1, <1>2, CommandOrder, ProcessOrder, PurgeOrder DEF Next, User

\* However the context came to be freed, no command it had accepted was left
\* on the list, and each was taken off it once and in its turn (async.c:156-172).
THEOREM FreedSettled == Spec => []Settled
<1>1. Init => ListInv BY DEF Init, ListInv, InOrder
<1>2. ListInv => Settled
  BY DEF ListInv, InOrder, Settled
<1> QED BY <1>1, <1>2, NextOrder, TypeCorrect, PTL DEF Spec

-----------------------------------------------------------------------------
(***************************************************************************)
(* The watchers.  While the context runs a watcher stands for all that is  *)
(* to be written and one for all that is to be read, in callbacks too; a   *)
(* context that is being purged needs none.                                *)
(***************************************************************************)
Serving == life = "up" /\ pc \in {"idle", "process", "callback"}

WatchInv ==
    /\ adapter = "none" => issued = 0
    /\ Serving => /\ sent < issued => wr = 1
                  /\ parsed < sent => rd = 1

LEMMA NextWatched ==
    ASSUME "earlyCommand" \in Avoid, TypeOK, WatchInv, [Next]_vars
    PROVE  WatchInv'
<1> USE DEF TypeOK, WatchInv, Serving
<1>1. CASE \/ AttachLibevent \/ AttachLibev \/ SetDisconnectCallback \/ Disconnect
           \/ Return \/ Serve \/ Push \/ Garble \/ LinkFails \/ UNCHANGED vars
  <2>1. UNCHANGED <<issued, sent, parsed, rd, wr, life>>
        /\ (Serving' => Serving) /\ (adapter' = adapter \/ adapter = "none")
        /\ (adapter' = "none" => adapter = "none")
    BY <1>1 DEF AttachLibevent, AttachLibev, SetDisconnectCallback, Disconnect,
                Return, Serve, Push, Garble, LinkFails, vars, ctxVars, listVars,
                evVars, wireVars
  <2> QED BY <2>1
<1>2. ASSUME NEW fn, Command(fn) PROVE WatchInv'
  BY <1>2 DEF Command, UserCode, ctxVars
<1>3. CASE HandleRead
  BY <1>3 DEF HandleRead, Read, BeginPurge, Add, Fired, listVars
<1>4. CASE HandleWrite
  BY <1>4 DEF HandleWrite, Written, BeginPurge, Add, Fired, listVars
<1>5. CASE Process
  <2>1. CASE Deliver
    BY <1>5, <2>1, ProcessSteps DEF Deliver, Shift
  <2>2. CASE NoTaker \/ Misread
    BY <1>5, <2>2, ProcessSteps DEF NoTaker, Misread, Abort, BeginPurge, SameLists
  <2>3. CASE Drained
    BY <1>5, <2>3, ProcessSteps DEF Drained, Free, Abort, SameLists
  <2> QED BY <1>5, <2>1, <2>2, <2>3, ProcessSteps
<1>6. CASE Purge
  BY <1>6, PurgeSteps DEF PurgeOne, PurgeEnds, Shift, Free, wireVars
<1> QED BY <1>1, <1>2, <1>3, <1>4, <1>5, <1>6 DEF Next, User

\* A user who attaches an adapter before the first command needs fear no hang:
\* between two events, what waits in the output buffer has a write watcher and
\* a reply still to come a read watcher (async.c:207-261, adapters/libevent.h,
\* adapters/libev.h).
THEOREM WatchersArmed == "earlyCommand" \in Avoid => (Spec => []Watched)
<1> SUFFICES ASSUME "earlyCommand" \in Avoid PROVE Spec => []Watched
  OBVIOUS
<1>1. Init => WatchInv BY DEF Init, WatchInv, Serving
<1>2. WatchInv => Watched BY DEF WatchInv, Serving, Watched
<1> QED BY <1>1, <1>2, NextWatched, TypeCorrect, PTL DEF Spec

-----------------------------------------------------------------------------
(***************************************************************************)
(* Answers.  With one message per command, and a user who disconnects only *)
(* when no callback is pending, the callbacks that ran are those of the    *)
(* replies that were parsed, and after them those that were purged.        *)
(***************************************************************************)
Answers ==
    /\ Len(replies) <= sent
    /\ \A k \in 1 .. Len(replies) :
         replies[k] = k \/ (replies[k] = Garbled /\ k = Len(replies))

Given ==
    /\ parsed <= Len(calls)
    /\ \A k \in 1 .. Len(calls) : calls[k].reply = IF k <= parsed THEN k ELSE NULL

Purging == life = "up" /\ pc \in {"purge", "nullCallback"}

Mode ==
    /\ life # "aborted"
    /\ Serving => /\ err = "none" /\ Len(calls) = parsed
                  /\ disconnecting = 1 => callbacks = <<>>
    /\ Purging => err # "none" /\ disconnecting = 1
    /\ life = "freed" => callbacks = <<>> /\ (err = "none" => Len(calls) = parsed)

AnswerInv == TypeOK /\ ListInv /\ Answers /\ Given /\ Mode

LEMMA ServeAnswers == ASSUME TypeOK, Answers, Serve PROVE Answers'
<1> DEFINE n == Len(replies)
<1>1. n \in Nat /\ sent \in Nat /\ n <= sent BY LenProperties DEF TypeOK, Answers
<1>2. \A k \in 1 .. n : replies[k] = k
  BY DEF Serve, Answers
<1>3. PICK i \in 1 .. sent :
         /\ \A j \in 1 .. sent : j \in Answered <=> j < i
         /\ replies' = Append(replies, i)
  BY DEF Serve
<1>4. \A j \in 1 .. sent : j \in Answered <=> j <= n
  <2> SUFFICES ASSUME NEW j \in 1 .. sent PROVE j \in Answered <=> j <= n
    OBVIOUS
  <2>1. ASSUME j \in Answered PROVE j <= n
    BY <1>2, <2>1 DEF Answered
  <2>2. ASSUME j <= n PROVE j \in Answered
    <3>1. j \in 1 .. n /\ replies[j] = j /\ j # Garbled
      BY <1>1, <1>2, <2>2 DEF Garbled
    <3> QED BY <3>1 DEF Answered
  <2> QED BY <2>1, <2>2
<1>5. i = n + 1
  <2>1. ~(i <= n) BY <1>3, <1>4
  <2>2. ~(n + 1 < i)
    <3>1. ASSUME n + 1 < i PROVE FALSE
      <4>1. n + 1 \in 1 .. sent BY <1>1, <1>3, <3>1
      <4> QED BY <1>1, <1>3, <1>4, <3>1, <4>1
    <3> QED BY <3>1
  <2> QED BY <1>1, <1>3, <2>1, <2>2
<1>6. Len(replies') = n + 1 /\ replies'[n + 1] = n + 1
      /\ \A k \in 1 .. n : replies'[k] = k
  BY <1>2, <1>3, <1>5, AppendProperties DEF TypeOK
<1>7. sent' = sent BY DEF Serve
<1> HIDE DEF n
<1> QED BY <1>1, <1>3, <1>5, <1>6, <1>7 DEF Answers

LEMMA GarbleAnswers == ASSUME TypeOK, Answers, Garble PROVE Answers'
<1>1. Len(replies) \in Nat /\ sent \in Nat BY LenProperties DEF TypeOK
<1>2. Len(replies') = Len(replies) + 1 /\ replies'[Len(replies) + 1] = Garbled
      /\ \A k \in 1 .. Len(replies) : replies'[k] = replies[k]
  BY AppendProperties DEF TypeOK, Garble, Garbled
<1>3. \A k \in 1 .. Len(replies) : replies[k] = k
  BY DEF Garble, Answers
<1>4. Len(replies) < sent /\ sent' = sent BY DEF Garble
<1> QED BY <1>1, <1>2, <1>3, <1>4 DEF Answers

\* The callback that is shifted is that of the reply, or is given NULL.
LEMMA ShiftGiven ==
    ASSUME AnswerInv, NEW r \in Nat, Shift(r),
           \/ r = NULL /\ parsed' = parsed
           \/ parsed' = parsed + 1 /\ parsed = Len(calls) /\ r = parsed + 1
    PROVE  Given' /\ Len(calls') = Len(calls) + 1
<1> USE DEF AnswerInv
<1> DEFINE x == [cb |-> Head(callbacks), reply |-> r]
<1>1. x \in Call /\ x.reply = r
  BY HeadTailProperties DEF TypeOK, Shift, Call
<1>2. Len(calls') = Len(calls) + 1 /\ calls'[Len(calls) + 1] = x
      /\ \A k \in 1 .. Len(calls) : calls'[k] = calls[k]
  BY <1>1, AppendProperties DEF TypeOK, Shift
<1> HIDE DEF x
<1>3. Len(calls) \in Nat /\ parsed \in Nat BY LenProperties DEF TypeOK
<1>4. ASSUME NEW k \in 1 .. Len(calls')
      PROVE  calls'[k].reply = IF k <= parsed' THEN k ELSE NULL
  <2>1. k \in 1 .. Len(calls) \/ k = Len(calls) + 1 BY <1>2, <1>3
  <2> QED BY <1>1, <1>2, <1>3, <2>1 DEF Given
<1> QED BY <1>2, <1>3, <1>4 DEF Given

LEMMA ProcessAnswers ==
    ASSUME AnswerInv, Process
    PROVE  Answers' /\ Given' /\ Mode'
<1> USE DEF AnswerInv
<1>1. /\ UNCHANGED <<issued, sent, replies, fetched>> /\ life = "up" /\ pc = "process"
      /\ err = "none" /\ Len(calls) = parsed /\ (disconnecting = 1 => callbacks = <<>>)
  BY ProcessSteps DEF Mode, Serving
<1>2. Answers' BY <1>1 DEF Answers
<1>3. parsed < fetched => callbacks # <<>>
  BY <1>1 DEF Answers, ListInv, InOrder, TypeOK
<1>4. CASE Deliver
  <2>1. replies[parsed + 1] = parsed + 1 /\ parsed + 1 \in Nat
    BY <1>4 DEF TypeOK, Answers, Deliver
  <2>2. Given' /\ Len(calls') = Len(calls) + 1
    BY <1>1, <1>4, <2>1, ShiftGiven DEF Deliver
  <2> QED BY <1>1, <1>2, <1>3, <1>4, <2>2 DEF Deliver, Shift, Mode, Serving, Purging
<1>5. CASE NoTaker BY <1>3, <1>5 DEF NoTaker
<1>6. CASE Misread
  BY <1>1, <1>2, <1>6 DEF Misread, BeginPurge, SameLists, Given, Mode, Serving, Purging
<1>7. CASE Drained
  BY <1>1, <1>2, <1>7
     DEF Drained, DisconnectDue, SameLists, Free, Given, Mode, Serving, Purging
<1> QED BY <1>4, <1>5, <1>6, <1>7, ProcessSteps

LEMMA PurgeAnswers ==
    ASSUME AnswerInv, Purge
    PROVE  Answers' /\ Given' /\ Mode'
<1> USE DEF AnswerInv
<1>1. /\ UNCHANGED <<issued, sent, replies, fetched, parsed>>
      /\ life = "up" /\ err # "none" /\ disconnecting = 1
  BY PurgeSteps DEF Mode, Purging, wireVars
<1>2. Answers' BY <1>1 DEF Answers
<1>3. CASE PurgeOne
  <2>1. Given' BY <1>1, <1>3, ShiftGiven DEF PurgeOne, NULL
  <2> QED BY <1>1, <1>2, <1>3, <2>1 DEF PurgeOne, Shift, Mode, Serving, Purging
<1>4. CASE PurgeEnds
  BY <1>1, <1>2, <1>4 DEF PurgeEnds, Free, Given, Mode, Serving, Purging
<1> QED BY <1>3, <1>4, PurgeSteps

LEMMA EventAnswers ==
    ASSUME AnswerInv, HandleRead \/ HandleWrite
    PROVE  Answers' /\ Given' /\ Mode'
<1> USE DEF AnswerInv
<1>1. Serving /\ UNCHANGED <<life, callbacks, calls, parsed, replies, issued>>
  BY DEF HandleRead, HandleWrite, Serving, listVars
<1>2. sent' >= sent /\ sent' \in Nat
  BY DEF HandleRead, HandleWrite, TypeOK
<1>3. \/ pc' \in {"idle", "process"} /\ UNCHANGED <<err, disconnecting>>
      \/ pc' = "purge" /\ err' # "none" /\ disconnecting' = 1
  BY DEF HandleRead, HandleWrite, BeginPurge
<1>4. Answers' BY <1>1, <1>2 DEF Answers, TypeOK
<1> QED BY <1>1, <1>3, <1>4 DEF Given, Mode, Serving, Purging

LEMMA UserAnswers ==
    ASSUME "hastyDisconnect" \in Avoid, AnswerInv, User
    PROVE  Answers' /\ Given' /\ Mode'
<1> USE DEF AnswerInv, ctxVars, listVars, evVars, wireVars, UserCode
<1>1. UNCHANGED <<calls, parsed, replies, sent, life, pc, err>> /\ life = "up"
  BY DEF User, AttachLibevent, AttachLibev, SetDisconnectCallback, Command, Disconnect
<1>2. Answers' /\ Given' BY <1>1 DEF Answers, Given
<1>3. \/ UNCHANGED <<disconnecting, callbacks>>
      \/ disconnecting = 0 /\ disconnecting' = 0
      \/ disconnecting' = 1 /\ UNCHANGED callbacks /\ callbacks = <<>>
  BY DEF User, AttachLibevent, AttachLibev, SetDisconnectCallback, Command, Disconnect
<1> QED BY <1>1, <1>2, <1>3 DEF Mode, Serving, Purging

LEMMA NextAnswers ==
    ASSUME "hastyDisconnect" \in Avoid, ~MayPush, AnswerInv, [Next]_vars
    PROVE  AnswerInv'
<1> USE DEF AnswerInv
<1>1. TypeOK' /\ ListInv' BY NextType, NextOrder
<1>2. CASE Serve \/ Garble
  <2>1. Answers' BY <1>2, ServeAnswers, GarbleAnswers
  <2> QED BY <1>1, <1>2, <2>1
          DEF Serve, Garble, Given, Mode, Serving, Purging, ctxVars, listVars
<1>3. CASE Return \/ LinkFails \/ UNCHANGED vars
  <2>1. UNCHANGED <<ctxVars, listVars, parsed, replies, sent>>
        /\ (Serving' <=> Serving) /\ (Purging' <=> Purging)
    BY <1>3 DEF Return, LinkFails, Serving, Purging, vars, ctxVars, listVars,
                evVars, wireVars
  <2> QED BY <1>1, <2>1 DEF Answers, Given, Mode, ctxVars, listVars
<1> QED BY <1>1, <1>2, <1>3, UserAnswers, EventAnswers, ProcessAnswers, PurgeAnswers
        DEF Next, Push

LEMMA InitAnswers == Init => AnswerInv
  BY InitType DEF Init, AnswerInv, ListInv, InOrder, Answers, Given, Mode,
                  Serving, Purging

LEMMA AnswersAlways ==
    ASSUME "hastyDisconnect" \in Avoid, ~MayPush
    PROVE  Spec => []AnswerInv
  BY InitAnswers, NextAnswers, PTL DEF Spec

\* With a user who disconnects only when no callback is pending, and a server
\* that sends one message per command, no assert fails, whatever the network
\* does (async.c:152, 195).
THEOREM NeverAborts ==
    "hastyDisconnect" \in Avoid /\ ~MayPush => (Spec => []NoAbort)
<1> SUFFICES ASSUME "hastyDisconnect" \in Avoid, ~MayPush
             PROVE  Spec => []NoAbort
  OBVIOUS
<1>1. AnswerInv => NoAbort BY DEF AnswerInv, Mode, NoAbort
<1> QED BY <1>1, AnswersAlways, PTL

-----------------------------------------------------------------------------
(***************************************************************************)
(* The refinement of CallbackPromise.                                      *)
(***************************************************************************)
\* The refinement mapping.
Outs(c) == [k \in DOMAIN c |->
               IF c[k] = [cb |-> k, reply |-> k] THEN "reply"
               ELSE IF c[k] = [cb |-> k, reply |-> NULL] THEN "NULL"
               ELSE "other"]

State == IF life = "freed"
         THEN IF err = "none" THEN "closed" ELSE "failed"
         ELSE IF disconnecting = 1 THEN "closing" ELSE "open"

LEMMA OutsType ==
    ASSUME NEW c \in Seq(Call)
    PROVE  /\ Outs(c) \in Seq({"reply", "NULL", "other"})
           /\ Len(Outs(c)) = Len(c) /\ DOMAIN Outs(c) = 1 .. Len(c)
<1>1. DOMAIN c = 1 .. Len(c) /\ Len(c) \in Nat BY LenProperties
<1>2. Outs(c) \in [1 .. Len(c) -> {"reply", "NULL", "other"}]
  BY <1>1 DEF Outs
<1>3. Outs(c) \in Seq({"reply", "NULL", "other"}) BY <1>1, <1>2, IsASeq
<1> QED BY <1>1, <1>2, <1>3, LenProperties

LEMMA OutsAppend ==
    ASSUME NEW c \in Seq(Call), NEW r \in {Len(c) + 1, NULL}
    PROVE  Outs(Append(c, [cb |-> Len(c) + 1, reply |-> r]))
             = Append(Outs(c), IF r = NULL THEN "NULL" ELSE "reply")
<1> DEFINE x == [cb |-> Len(c) + 1, reply |-> r]
           d == Append(c, x)
           o == IF r = NULL THEN "NULL" ELSE "reply"
<1>1. Len(c) \in Nat /\ x \in Call /\ o \in {"reply", "NULL", "other"}
  BY LenProperties DEF Call, NULL
<1>2. /\ d \in Seq(Call) /\ Len(d) = Len(c) + 1 /\ d[Len(c) + 1] = x
      /\ \A k \in 1 .. Len(c) : d[k] = c[k]
  BY <1>1, AppendProperties
<1>3. /\ Outs(d) \in Seq({"reply", "NULL", "other"})
      /\ Len(Outs(d)) = Len(c) + 1 /\ DOMAIN Outs(d) = 1 .. Len(c) + 1
      /\ DOMAIN d = 1 .. Len(c) + 1 /\ DOMAIN c = 1 .. Len(c)
  BY <1>2, OutsType, LenProperties
<1>4. /\ Append(Outs(c), o) \in Seq({"reply", "NULL", "other"})
      /\ Len(Append(Outs(c), o)) = Len(c) + 1
      /\ Append(Outs(c), o)[Len(c) + 1] = o
      /\ \A k \in 1 .. Len(c) : Append(Outs(c), o)[k] = Outs(c)[k]
  BY <1>1, OutsType, AppendProperties
<1>5. Outs(d)[Len(c) + 1] = o
  <2>1. d[Len(c) + 1] = [cb |-> Len(c) + 1, reply |-> r] BY <1>2
  <2> HIDE DEF d, x
  <2> QED BY <1>1, <1>3, <2>1 DEF Outs, NULL
<1>6. ASSUME NEW k \in 1 .. Len(c) PROVE Outs(d)[k] = Outs(c)[k]
  <2> HIDE DEF d
  <2> QED BY <1>1, <1>2, <1>3, <1>6 DEF Outs
<1> HIDE DEF d, o
<1>7. Outs(d) = Append(Outs(c), o)
  BY <1>1, <1>3, <1>4, <1>5, <1>6, SeqEqual
<1> QED BY <1>7 DEF d, o, x

LEMMA OutsOfCalls ==
    ASSUME AnswerInv
    PROVE  /\ DOMAIN Outs(calls) = 1 .. Len(calls) /\ Len(Outs(calls)) = Len(calls)
           /\ \A k \in 1 .. Len(calls) :
                Outs(calls)[k] = IF k <= parsed THEN "reply" ELSE "NULL"
<1>1. calls \in Seq(Call) /\ DOMAIN calls = 1 .. Len(calls) /\ Len(calls) \in Nat
  BY LenProperties DEF AnswerInv, TypeOK
<1>2. ASSUME NEW k \in 1 .. Len(calls)
      PROVE  Outs(calls)[k] = IF k <= parsed THEN "reply" ELSE "NULL"
  <2>1. calls[k] \in Call BY <1>1, <1>2
  <2>2. calls[k].cb = k /\ calls[k].reply = IF k <= parsed THEN k ELSE NULL
    BY <1>2 DEF AnswerInv, ListInv, InOrder, Given
  <2>3. calls[k] = [cb |-> k, reply |-> IF k <= parsed THEN k ELSE NULL]
    BY <2>1, <2>2 DEF Call
  <2>4. k # NULL BY <1>1, <1>2 DEF NULL
  <2> QED BY <1>1, <1>2, <2>3, <2>4 DEF Outs
<1> QED BY <1>1, <1>2, OutsType

LEMMA ShiftOuts ==
    ASSUME AnswerInv, NEW r \in {Len(calls) + 1, NULL}, Shift(r)
    PROVE  /\ Outs(calls') = Append(Outs(calls), IF r = NULL THEN "NULL" ELSE "reply")
           /\ Len(calls) < issued
<1>1. calls \in Seq(Call) /\ Len(calls) \in Nat /\ issued \in Nat
  BY LenProperties DEF AnswerInv, TypeOK
<1>2. Len(callbacks) \in Nat \ {0} /\ Head(callbacks) = callbacks[1]
  BY LenProperties, HeadTailProperties, EmptySeq DEF AnswerInv, TypeOK, Shift
<1>3. Head(callbacks) = Len(calls) + 1 /\ Len(calls) < issued
  BY <1>1, <1>2 DEF AnswerInv, ListInv, InOrder
<1>4. calls' = Append(calls, [cb |-> Len(calls) + 1, reply |-> r])
  BY <1>3 DEF Shift
<1> QED BY <1>1, <1>3, <1>4, OutsAppend

LEMMA InitPromise == Init => Promise!Init
  BY LenProperties DEF Init, Promise!Init

\* How the steps of the abstract specification look through the mapping.
LEMMA AcceptStep ==
    ASSUME State = "open", issued' = issued + 1, UNCHANGED <<calls, State>>
    PROVE  Promise!Next
  BY DEF Promise!Next, Promise!Accept, State, Outs

LEMMA StartStep ==
    ASSUME State = "open", State' = "closing", UNCHANGED <<calls, issued>>
    PROVE  Promise!Next
  BY DEF Promise!Next, Promise!StartClosing, State, Outs

LEMMA SettleStep ==
    ASSUME State \in {"open", "closing"}, UNCHANGED <<State, issued>>,
           Len(Outs(calls)) < issued, NEW o \in {"reply", "NULL"},
           Outs(calls)' = Append(Outs(calls), o),
           o = "reply" => \A k \in DOMAIN Outs(calls) : Outs(calls)[k] # "NULL",
           o = "NULL" => State = "closing"
    PROVE  Promise!Next
<1>1. Promise!Settle(o)
  BY DEF Promise!Settle, Promise!Running, Promise!Failing, State, Outs
<1> QED BY <1>1 DEF Promise!Next

LEMMA CloseStep ==
    ASSUME State = "closing", State' \in {"closed", "failed"},
           UNCHANGED <<calls, issued>>, Len(Outs(calls)) = issued,
           State' = "failed" \/ \A k \in DOMAIN Outs(calls) : Outs(calls)[k] # "NULL"
    PROVE  Promise!Next
  BY DEF Promise!Next, Promise!Close, Promise!Failing, State, Outs

LEMMA StutterStep ==
    ASSUME UNCHANGED <<State, calls, issued>>
    PROVE  UNCHANGED Promise!vars
  BY DEF Promise!vars, State, Outs

\* An error starts the closing, unless a disconnect did.
LEMMA BeginPurgePromise ==
    ASSUME AnswerInv, Serving, NEW e, BeginPurge(e), UNCHANGED <<life, calls, issued>>
    PROVE  [Promise!Next]_(Promise!vars)
<1>1. State' = "closing" /\ State \in {"open", "closing"}
  BY DEF BeginPurge, State, Serving
<1> QED BY <1>1, StartStep, StutterStep

LEMMA ProcessPromise ==
    ASSUME AnswerInv, Process
    PROVE  [Promise!Next]_(Promise!vars)
<1>1. /\ UNCHANGED <<issued, replies, fetched, sent>> /\ life = "up" /\ Serving
      /\ err = "none" /\ Len(calls) = parsed /\ (disconnecting = 1 => callbacks = <<>>)
  BY ProcessSteps DEF AnswerInv, Mode, Serving
<1>2. /\ Len(Outs(calls)) = Len(calls)
      /\ \A k \in DOMAIN Outs(calls) : Outs(calls)[k] = "reply"
  BY <1>1, OutsOfCalls
<1>3. CASE Deliver
  <2>1. replies[parsed + 1] = Len(calls) + 1 /\ Len(calls) + 1 # NULL
    BY <1>1, <1>3 DEF AnswerInv, TypeOK, Answers, Deliver, NULL
  <2>2. Outs(calls)' = Append(Outs(calls), "reply") /\ Len(calls) < issued
    BY <1>3, <2>1, ShiftOuts DEF Deliver
  <2>3. State' = State /\ State \in {"open", "closing"}
    BY <1>1, <1>3 DEF Deliver, Shift, State
  <2> QED BY <1>1, <1>2, <2>2, <2>3, SettleStep
<1>4. CASE NoTaker
  <2>1. Len(callbacks) = 0 /\ parsed < Len(replies) BY <1>4 DEF NoTaker, AnswerInv, TypeOK
  <2> QED BY <1>1, <2>1 DEF AnswerInv, ListInv, InOrder, TypeOK, Answers
<1>5. CASE Misread
  BY <1>1, <1>5, BeginPurgePromise DEF Misread, SameLists
<1>6. CASE Drained
  <2>1. UNCHANGED <<calls, err, disconnecting, callbacks>>
    BY <1>6 DEF Drained, SameLists
  <2>2. CASE DisconnectDue /\ callbacks = <<>> /\ Free("OK")
    <3>1. State = "closing" /\ State' = "closed"
      BY <1>1, <2>1, <2>2 DEF State, DisconnectDue, Free
    <3>2. Len(calls) = issued
      BY <2>2 DEF AnswerInv, ListInv, InOrder, TypeOK
    <3> QED BY <1>1, <1>2, <2>1, <3>1, <3>2, CloseStep
  <2>3. CASE pc' = "idle" /\ UNCHANGED <<life, status, rd, wr>>
    BY <1>1, <2>1, <2>3, StutterStep DEF State
  <2> QED BY <1>1, <1>6, <2>2, <2>3 DEF Drained, DisconnectDue
<1> QED BY <1>3, <1>4, <1>5, <1>6, ProcessSteps

LEMMA PurgePromise ==
    ASSUME AnswerInv, Purge
    PROVE  [Promise!Next]_(Promise!vars)
<1>1. /\ issued' = issued /\ life = "up" /\ err # "none" /\ disconnecting = 1
  BY PurgeSteps DEF AnswerInv, Mode, Purging, wireVars
<1>2. State = "closing" BY <1>1 DEF State
<1>3. Len(Outs(calls)) = Len(calls) BY OutsOfCalls
<1>4. CASE PurgeOne
  <2>1. Outs(calls)' = Append(Outs(calls), "NULL") /\ Len(calls) < issued
    BY <1>4, ShiftOuts DEF PurgeOne
  <2>2. State' = State BY <1>4 DEF PurgeOne, Shift, State
  <2> QED BY <1>1, <1>2, <1>3, <2>1, <2>2, SettleStep
<1>5. CASE PurgeEnds
  <2>1. State' = "failed" BY <1>1, <1>5 DEF PurgeEnds, Free, State
  <2>2. Len(calls) = issued
    BY <1>5 DEF AnswerInv, ListInv, InOrder, TypeOK, PurgeEnds
  <2> QED BY <1>1, <1>2, <1>3, <1>5, <2>1, <2>2, CloseStep DEF PurgeEnds
<1> QED BY <1>4, <1>5, PurgeSteps

LEMMA NextPromise ==
    ASSUME AnswerInv, ~MayPush, [Next]_vars
    PROVE  [Promise!Next]_(Promise!vars)
<1>1. CASE \/ AttachLibevent \/ AttachLibev \/ SetDisconnectCallback \/ Return
           \/ Serve \/ Garble \/ LinkFails \/ UNCHANGED vars
  <2>1. UNCHANGED <<life, err, disconnecting, calls, issued>>
    BY <1>1 DEF AttachLibevent, AttachLibev, SetDisconnectCallback, Return, Serve,
                Garble, LinkFails, vars, ctxVars, listVars, evVars, wireVars
  <2> QED BY <2>1, StutterStep DEF State
<1>2. ASSUME NEW fn, Command(fn) PROVE [Promise!Next]_(Promise!vars)
  BY <1>2, AcceptStep DEF Command, UserCode, ctxVars, State
<1>3. CASE Disconnect
  BY <1>3, StartStep, StutterStep DEF Disconnect, UserCode, listVars, wireVars, State
<1>4. CASE HandleRead \/ HandleWrite
  <2>1. Serving /\ UNCHANGED <<life, calls, issued>>
    BY <1>4 DEF HandleRead, HandleWrite, Serving, listVars
  <2>2. UNCHANGED <<err, disconnecting>> \/ \E e : BeginPurge(e)
    BY <1>4 DEF HandleRead, HandleWrite
  <2> QED BY <2>1, <2>2, BeginPurgePromise, StutterStep DEF State
<1> QED BY <1>1, <1>2, <1>3, <1>4, ProcessPromise, PurgePromise DEF Next, User, Push

\* With the same user and server the context implements CallbackPromise:
\* callbacks run once each, in the order of their commands, with their own
\* replies, and with NULL from the first that could not be answered; nothing
\* is accepted once closing began; and the context is freed with no callback
\* left, without an error only if all were answered (async.c:140-204).
THEOREM PromiseKept ==
    "hastyDisconnect" \in Avoid /\ ~MayPush => (Spec => KeepsPromise)
<1> SUFFICES ASSUME "hastyDisconnect" \in Avoid, ~MayPush
             PROVE  Spec => KeepsPromise
  OBVIOUS
<1>1. AnswerInv /\ [Next]_vars => [Promise!Next]_(Promise!vars)
  BY NextPromise
<1> QED BY <1>1, InitPromise, AnswersAlways, PTL DEF Spec, KeepsPromise, Promise!Spec

=============================================================================
