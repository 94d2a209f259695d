---------------------------- MODULE AsyncContext ----------------------------
(***************************************************************************)
(* redisAsyncContext: commands with callbacks on a non-blocking context,   *)
(* driven by an event loop through the libevent or the libev adapter.      *)
(*                                                                         *)
(* Commands are numbered in the order they are accepted.  Commands          *)
(* sent+1..issued are in the output buffer, replies parsed+1..fetched in    *)
(* the reply reader and the rest of replies in the socket.  A command that *)
(* is partly written counts as unsent; "part" is 1 when the reader holds a *)
(* piece of the next reply.                                                *)
(*                                                                         *)
(* User code runs between two events and inside callbacks; everything else *)
(* runs to its next call of user code in one step.                         *)
(***************************************************************************)
EXTENDS Integers, Sequences

CONSTANTS
    Avoid,      \* what the user's code keeps clear of
    MayFail,    \* may the connection be closed, reset or garbled?
    MayPush,    \* may the server send more than one message for a command?
    MaxCmds     \* bound on the number of commands, and on pushed messages

Habits == {"hastyDisconnect",   \* disconnecting with replies outstanding
           "idleDisconnect",    \* disconnecting outside a callback
           "earlyCommand"}      \* a command before an adapter is attached

ASSUME AsyncAssumption ==
    /\ Avoid \subseteq Habits
    /\ MayFail \in BOOLEAN /\ MayPush \in BOOLEAN
    /\ MaxCmds \in Nat

VARIABLES
    life,           \* "up", "freed", or "aborted" by an assert
    err,            \* c.err, copied to ac.err by __redisAsyncDisconnect
    disconnecting,  \* REDIS_DISCONNECTING
    status,         \* what onDisconnect was told: "none", "OK" or "ERR"
    onDisconnect,   \* is a disconnect callback set?
    callbacks,      \* ac.replies: the commands whose callbacks are pending
    silent,         \* the commands issued with a NULL callback
    calls,          \* the shifted callbacks and the replies they were given
    pc,             \* what runs: the event loop ("idle"), redisProcessCallbacks,
                    \* a callback it calls, the error purge, or one of its calls
    adapter, rd, wr,                                 \* hooks and watchers
    issued, sent, replies, fetched, part, parsed,    \* the connection
    link            \* "up", "eof" or "reset"

ctxVars  == <<life, err, disconnecting, status, onDisconnect>>
listVars == <<callbacks, silent, calls>>
evVars   == <<adapter, rd, wr>>
wireVars == <<issued, sent, replies, fetched, part, parsed, link>>
vars     == <<ctxVars, listVars, pc, evVars, wireVars>>

\* A call with reply 0 is one with a NULL reply.
NULL == 0
Call == [cb : Nat, reply : Nat]

\* What stands in the stream for bytes the reader cannot make sense of.
Garbled == 0

-----------------------------------------------------------------------------
(***************************************************************************)
(* Setting up.                                                             *)
(***************************************************************************)
Init ==
    /\ life = "up" /\ err = "none" /\ disconnecting = 0
    /\ status = "none" /\ onDisconnect = 0
    /\ callbacks = <<>> /\ silent = {} /\ calls = <<>>
    /\ pc = "idle"
    /\ adapter = "none" /\ rd = 0 /\ wr = 0
    /\ issued = 0 /\ sent = 0 /\ replies = <<>> /\ fetched = 0 /\ part = 0
    /\ parsed = 0 /\ link = "up"

UserCode == life = "up" /\ pc \in {"idle", "callback", "nullCallback"}

\* Attaching arms no watcher.
AttachLibevent ==
    /\ UserCode /\ adapter = "none"
    /\ adapter' = "libevent"
    /\ UNCHANGED <<ctxVars, listVars, pc, rd, wr, wireVars>>

AttachLibev ==
    /\ UserCode /\ adapter = "none"
    /\ adapter' = "libev"
    /\ UNCHANGED <<ctxVars, listVars, pc, rd, wr, wireVars>>

SetDisconnectCallback ==
    /\ UserCode /\ onDisconnect = 0
    /\ onDisconnect' = 1
    /\ UNCHANGED <<life, err, disconnecting, status, listVars, pc, evVars, wireVars>>

\* The hooks are NULL until an adapter is attached.
Add == IF adapter = "none" THEN 0 ELSE 1

\* A libevent event is not EV_PERSIST: it is gone once it fired.  An ev_io
\* stays until it is stopped.
Fired == IF adapter = "libevent" THEN 0 ELSE 1

-----------------------------------------------------------------------------
(***************************************************************************)
(* Issuing commands and disconnecting.                                     *)
(***************************************************************************)
\* Mutant: the callback goes to the head of the list.
PushAtHead(i) == callbacks' = <<i>> \o callbacks

PushCallback(i) == callbacks' = Append(callbacks, i)

\* fn is "fn", or "NULL" for a command whose reply nobody wants.  (When the
\* context is being disconnected the call returns REDIS_ERR: no step.)
Command(fn) ==
    /\ UserCode /\ disconnecting = 0 /\ issued < MaxCmds
    /\ "earlyCommand" \in Avoid => adapter # "none"
    /\ issued' = issued + 1
    /\ PushCallback(issued + 1)
    /\ silent' = IF fn = "NULL" THEN silent \cup {issued + 1} ELSE silent
    /\ wr' = IF adapter = "none" THEN wr ELSE 1
    /\ UNCHANGED <<ctxVars, calls, pc, adapter, rd, sent, replies, fetched,
                   part, parsed, link>>

Disconnect ==
    /\ UserCode
    /\ "hastyDisconnect" \in Avoid => callbacks = <<>>
    /\ "idleDisconnect" \in Avoid => pc # "idle"
    /\ disconnecting' = 1
    /\ UNCHANGED <<life, err, status, onDisconnect, listVars, pc, evVars, wireVars>>

-----------------------------------------------------------------------------
(***************************************************************************)
(* Tearing down.                                                           *)
(***************************************************************************)
\* evCleanup stops both watchers, onDisconnect is told, the context is freed.
Free(how) ==
    /\ rd' = 0 /\ wr' = 0
    /\ status' = IF onDisconnect = 1 THEN how ELSE "none"
    /\ life' = "freed" /\ pc' = "idle"

Abort == life' = "aborted" /\ UNCHANGED <<status, pc, rd, wr>>

\* __redisAsyncDisconnect without an error asserts that nothing is pending.
CleanDisconnect == IF callbacks = <<>> THEN Free("OK") ELSE Abort

\* Mutant: callbacks may issue commands while they are being purged.
PurgeWithoutFlag(e) == err' = e /\ UNCHANGED disconnecting /\ pc' = "purge"

\* __redisAsyncDisconnect with an error.
BeginPurge(e) == err' = e /\ disconnecting' = 1 /\ pc' = "purge"

\* Mutant: the purge stops at a command without a callback.
PurgeUpToSilent ==
    /\ life = "up" /\ pc = "purge"
    /\ IF callbacks # <<>> /\ Head(callbacks) \notin silent
       THEN /\ callbacks' = Tail(callbacks)
            /\ calls' = Append(calls, [cb |-> Head(callbacks), reply |-> NULL])
            /\ pc' = "nullCallback"
            /\ UNCHANGED <<life, status, rd, wr>>
       ELSE /\ Free("ERR")
            /\ UNCHANGED <<callbacks, calls>>
    /\ UNCHANGED <<err, disconnecting, onDisconnect, silent, adapter, wireVars>>

\* One turn of the loop that runs the pending callbacks with a NULL reply.
Purge ==
    /\ life = "up" /\ pc = "purge"
    /\ IF callbacks # <<>>
       THEN /\ callbacks' = Tail(callbacks)
            /\ calls' = Append(calls, [cb |-> Head(callbacks), reply |-> NULL])
            /\ pc' = IF Head(callbacks) \in silent THEN pc ELSE "nullCallback"
            /\ UNCHANGED <<life, status, rd, wr>>
       ELSE /\ Free("ERR")
            /\ UNCHANGED <<callbacks, calls>>
    /\ UNCHANGED <<err, disconnecting, onDisconnect, silent, adapter, wireVars>>

Return ==
    /\ life = "up" /\ pc \in {"callback", "nullCallback"}
    /\ pc' = IF pc = "callback" THEN "process" ELSE "purge"
    /\ UNCHANGED <<ctxVars, listVars, evVars, wireVars>>

-----------------------------------------------------------------------------
(***************************************************************************)
(* Events.                                                                 *)
(***************************************************************************)
\* Mutant: the read watcher is not added again.
ReadWithoutRearm ==
    /\ rd' = Fired
    /\ \/ \E n \in fetched + 1 .. Len(replies), p \in {0, 1} :
             /\ p = 1 => n < Len(replies)
             /\ fetched' = n /\ part' = p
       \/ fetched < Len(replies) /\ part = 0 /\ part' = 1 /\ UNCHANGED fetched

\* Mutant: the reader is fed more than was read.
ReadTooMuch ==
    /\ rd' = Add
    /\ \E n \in fetched + 1 .. Len(replies) + 1 : fetched' = n /\ part' = 0

\* redisBufferRead takes in some of what arrived: whole replies and perhaps a
\* piece of the next.  The read is always scheduled again.
Read ==
    /\ rd' = Add
    /\ \/ \E n \in fetched + 1 .. Len(replies), p \in {0, 1} :
             /\ p = 1 => n < Len(replies)
             /\ fetched' = n /\ part' = p
       \/ fetched < Len(replies) /\ part = 0 /\ part' = 1 /\ UNCHANGED fetched

HandleRead ==
    /\ life = "up" /\ pc = "idle" /\ rd = 1
    /\ \/ /\ link # "reset" /\ Read
          /\ pc' = "process"
          /\ UNCHANGED <<err, disconnecting>>
       \/ /\ link = "eof" /\ fetched = Len(replies)
          /\ BeginPurge("eof")
          /\ rd' = Fired /\ UNCHANGED <<fetched, part>>
       \/ /\ link = "reset"
          /\ BeginPurge("io")
          /\ rd' = Fired /\ UNCHANGED <<fetched, part>>
    /\ UNCHANGED <<life, status, onDisconnect, listVars, adapter, wr, issued,
                   sent, replies, parsed, link>>

\* Mutant: with nothing left to read the connection is closed, asked or not.
DisconnectUnasked == sent = issued

\* Mutant: the test of the output buffer is the wrong way round.
DisconnectWhileUnwritten == disconnecting = 1 /\ sent < issued

\* "When the connection is being disconnected and there are no more replies"
DisconnectDue == disconnecting = 1 /\ sent = issued

\* One turn of redisProcessCallbacks: redisGetReply on the reader, which writes
\* and reads nothing on a non-blocking context, then the callback.
Process ==
    /\ life = "up" /\ pc = "process"
    /\ \/ /\ parsed < fetched /\ replies[parsed + 1] = Garbled
          /\ BeginPurge("protocol")
          /\ UNCHANGED <<life, status, rd, wr, callbacks, calls, parsed>>
       \/ /\ parsed < fetched /\ replies[parsed + 1] # Garbled
          /\ parsed' = parsed + 1
          /\ IF callbacks = <<>>
             THEN Abort /\ UNCHANGED <<callbacks, calls>>
             ELSE /\ callbacks' = Tail(callbacks)
                  /\ calls' = Append(calls, [cb    |-> Head(callbacks),
                                             reply |-> replies[parsed + 1]])
                  /\ pc' = IF Head(callbacks) \in silent THEN pc ELSE "callback"
                  /\ UNCHANGED <<life, status, rd, wr>>
          /\ UNCHANGED <<err, disconnecting>>
       \/ /\ parsed = fetched
          /\ IF DisconnectDue THEN CleanDisconnect
             ELSE pc' = "idle" /\ UNCHANGED <<life, status, rd, wr>>
          /\ UNCHANGED <<err, disconnecting, callbacks, calls, parsed>>
    /\ UNCHANGED <<onDisconnect, silent, adapter, issued, sent, replies,
                   fetched, part, link>>

\* Mutant: evAddRead is left to HandleRead.
WrittenWithoutRead ==
    /\ wr' = IF sent' < issued THEN 1 ELSE 0
    /\ UNCHANGED rd

\* Continue writing when not done, stop otherwise; always schedule a read.
Written ==
    /\ wr' = IF sent' < issued THEN Add ELSE 0
    /\ rd' = Add

HandleWrite ==
    /\ life = "up" /\ pc = "idle" /\ wr = 1
    /\ \/ /\ sent' \in sent .. issued
          /\ Written
          /\ UNCHANGED <<err, disconnecting, pc>>
       \/ /\ link # "up" /\ sent < issued
          /\ BeginPurge("io")
          /\ wr' = Fired /\ UNCHANGED <<rd, sent>>
    /\ UNCHANGED <<life, status, onDisconnect, listVars, adapter, issued,
                   replies, fetched, part, parsed, link>>

-----------------------------------------------------------------------------
(***************************************************************************)
(* The server and the network (external).                                  *)
(***************************************************************************)
Answered == {replies[i] : i \in 1 .. Len(replies)} \ {Garbled}

Serve ==
    /\ link = "up" /\ Garbled \notin {replies[i] : i \in 1 .. Len(replies)}
    /\ \E i \in 1 .. sent :
         /\ \A j \in 1 .. sent : j \in Answered <=> j < i
         /\ replies' = Append(replies, i)
    /\ UNCHANGED <<ctxVars, listVars, pc, evVars, issued, sent, fetched, part,
                   parsed, link>>

\* A further message for a command that was answered (SUBSCRIBE, MONITOR).
Push ==
    /\ MayPush /\ link = "up" /\ Len(replies) < 2 * MaxCmds
    /\ \E i \in Answered : replies' = Append(replies, i)
    /\ UNCHANGED <<ctxVars, listVars, pc, evVars, issued, sent, fetched, part,
                   parsed, link>>

Garble ==
    /\ MayFail /\ link = "up" /\ Len(replies) < sent
    /\ Garbled \notin {replies[i] : i \in 1 .. Len(replies)}
    /\ replies' = Append(replies, Garbled)
    /\ UNCHANGED <<ctxVars, listVars, pc, evVars, issued, sent, fetched, part,
                   parsed, link>>

LinkFails ==
    /\ MayFail /\ life = "up" /\ link = "up"
    /\ link' \in {"eof", "reset"}
    /\ UNCHANGED <<ctxVars, listVars, pc, evVars, issued, sent, replies,
                   fetched, part, parsed>>

-----------------------------------------------------------------------------
User == \/ AttachLibevent \/ AttachLibev \/ SetDisconnectCallback
        \/ \E fn \in {"fn", "NULL"} : Command(fn)
        \/ Disconnect

Next == \/ User \/ Return
        \/ HandleRead \/ HandleWrite \/ Process \/ Purge
        \/ Serve \/ Push \/ Garble \/ LinkFails

Spec == Init /\ [][Next]_vars

\* Callbacks return, handlers run on, the event loop runs the handler of a
\* watcher that is armed and ready (a writable socket takes at least a byte),
\* and the server answers what it receives.  The user owes no call, and the
\* network no failure.
FairSpec ==
    /\ Spec
    /\ WF_vars(Return) /\ WF_vars(Process) /\ WF_vars(Purge)
    /\ SF_vars(HandleRead) /\ SF_vars(HandleWrite /\ (sent' > sent \/ pc' = "purge"))
    /\ WF_vars(Serve)

-----------------------------------------------------------------------------
(***************************************************************************)
(* Properties.                                                             *)
(***************************************************************************)
\* Every variable stays in its type and the counters in their order.
TypeOK ==
    /\ life \in {"up", "freed", "aborted"}
    /\ err \in {"none", "eof", "io", "protocol"}
    /\ disconnecting \in {0, 1} /\ onDisconnect \in {0, 1}
    /\ status \in {"none", "OK", "ERR"}
    /\ callbacks \in Seq(Nat) /\ silent \in SUBSET (1 .. issued)
    /\ calls \in Seq(Call)
    /\ pc \in {"idle", "process", "callback", "purge", "nullCallback"}
    /\ adapter \in {"none", "libevent", "libev"}
    /\ rd \in {0, 1} /\ wr \in {0, 1}
    /\ issued \in Nat /\ sent \in 0 .. issued
    /\ replies \in Seq(Nat)
    /\ fetched \in 0 .. Len(replies) /\ parsed \in 0 .. fetched
    /\ part \in {0, 1}
    /\ link \in {"up", "eof", "reset"}

\* No assert of async.c fails: a clean disconnect finds no pending callback,
\* a reply always finds one.
NoAbort == life # "aborted"

\* However the context came to be freed, every command it had accepted was
\* taken off the list once and in order, so no callback is lost or run twice.
Settled == life = "freed" =>
               /\ Len(calls) = issued
               /\ \A k \in 1 .. issued : calls[k].cb = k

\* Between two events every command that waits in the output buffer and every
\* reply still to come has a watcher that will get to it, although a libevent
\* event is spent each time it fires.
Watched == life = "up" /\ pc = "idle" =>
               /\ sent < issued => wr = 1
               /\ parsed < sent => rd = 1

\* Every accepted command is disposed of: its callback runs (or would).
EveryCommandEnds ==
    \A i \in 1 .. MaxCmds : issued >= i ~> Len(calls) >= i

\* A disconnect that was asked for ends in the context being freed.
DisconnectEnds == disconnecting = 1 ~> life = "freed"

\* The context implements CallbackPromise.
Promise == INSTANCE CallbackPromise WITH
    accepted <- issued,
    outcomes <- [k \in DOMAIN calls |->
                    IF calls[k] = [cb |-> k, reply |-> k] THEN "reply"
                    ELSE IF calls[k] = [cb |-> k, reply |-> NULL] THEN "NULL"
                    ELSE "other"],
    state    <- IF life = "freed"
                THEN IF err = "none" THEN "closed" ELSE "failed"
                ELSE IF disconnecting = 1 THEN "closing" ELSE "open"

\* Callbacks run once each, in the order of their commands, with their own
\* replies and after the first NULL only with NULL; nothing is accepted once
\* closing began; the context is freed with no callback left, and without an
\* error only if all were answered.
KeepsPromise == Promise!Spec
=============================================================================
