--------------------------- MODULE CommandSession ---------------------------
(***************************************************************************)
(* What a HiRedis object promises its PHP script, with no queue, buffer,   *)
(* reader or server in sight: a method called outside a batch returns the  *)
(* reply to its own command; exec() and send() return the replies to the   *)
(* commands of their batch, one each, in the order of the calls; a         *)
(* transaction inside a pipeline is one array among the results of send(). *)
(* Once the connection is lost, a direct call still returns no other       *)
(* command's reply, and nothing else is promised until the next connect(). *)
(***************************************************************************)
EXTENDS Integers, Sequences

VARIABLES
    phase,  \* "none", "direct", "multi", "pipeline", "pipelinedMulti", "lost",
            \* "closed"
    busy,   \* the method that is waiting for the server, or "no"
    last,   \* the number of the last command
    txn,    \* the numbers of the commands in the open transaction
    batch,  \* what send() has to return, one entry per element
    ret     \* what the last method returned

vars == <<phase, busy, last, txn, batch, ret>>

One(i)   == [tab |-> FALSE, ids |-> <<i>>]
Tab(ids) == [tab |-> TRUE, ids |-> ids]

Satisfies(item, want) ==
    IF want.tab
    THEN /\ item.type = "array"
         /\ [k \in DOMAIN item.elems |-> item.elems[k].of] = want.ids
    ELSE <<item.of>> = want.ids

Delivers(items, wants) ==
    /\ Len(items) = Len(wants)
    /\ \A k \in 1 .. Len(wants) : Satisfies(items[k], wants[k])

Init == /\ phase = "none" /\ busy = "no" /\ last = 0
        /\ txn = <<>> /\ batch = <<>>
        /\ ret = [by |-> "self", items |-> <<>>]

Idle == busy = "no"
Open == Idle /\ phase \notin {"none", "lost", "closed"}

Connect == /\ Idle
           /\ phase' = "direct" /\ last' = 0 /\ txn' = <<>> /\ batch' = <<>>
           /\ ret' = [by |-> "TRUE", items |-> <<>>]
           /\ UNCHANGED busy

Refuse == /\ Idle
          /\ ret' = [by |-> "FALSE", items |-> <<>>]
          /\ UNCHANGED <<phase, busy, last, txn, batch>>

Close == /\ Open \/ phase = "lost"
         /\ phase' = "closed" /\ txn' = <<>> /\ batch' = <<>>
         /\ ret' = [by |-> "TRUE", items |-> <<>>]
         /\ UNCHANGED <<busy, last>>

\* The method returns the object itself, to chain the next call on.
Chain == ret' = [by |-> "self", items |-> <<>>] /\ UNCHANGED busy
Wait(method) == busy' = method /\ UNCHANGED ret

Command ==
    /\ Open /\ last' = last + 1
    /\ \/ phase = "direct" /\ Wait("run") /\ UNCHANGED <<txn, batch>>
       \/ /\ phase = "pipeline" /\ Chain
          /\ batch' = Append(batch, One(last + 1)) /\ UNCHANGED txn
       \/ /\ phase \in {"multi", "pipelinedMulti"} /\ Chain
          /\ txn' = Append(txn, last + 1) /\ UNCHANGED batch
    /\ UNCHANGED phase

Pipeline == /\ Open /\ phase = "direct" /\ Chain
            /\ phase' = "pipeline"
            /\ UNCHANGED <<last, txn, batch>>

Multi == /\ Open /\ last' = last + 1
         /\ \/ phase = "direct" /\ Wait("multi") /\ UNCHANGED phase
            \/ phase = "pipeline" /\ Chain /\ phase' = "pipelinedMulti"
         /\ UNCHANGED <<txn, batch>>

Exec == /\ Open /\ last' = last + 1
        /\ \/ phase = "multi" /\ Wait("exec") /\ UNCHANGED <<phase, txn, batch>>
           \/ /\ phase = "pipelinedMulti" /\ Chain
              /\ phase' = "pipeline"
              /\ batch' = Append(batch, Tab(txn)) /\ txn' = <<>>

Send == /\ Open /\ phase = "pipeline"
        /\ Wait("send")
        /\ UNCHANGED <<phase, last, txn, batch>>

SendNothing == /\ Open /\ phase = "pipeline" /\ batch = <<>>
               /\ phase' = "direct"
               /\ ret' = [by |-> "send", items |-> <<>>]
               /\ UNCHANGED <<busy, last, txn, batch>>

Return ==
    /\ busy' = "no" /\ UNCHANGED last
    /\ \/ /\ busy = "run" /\ ret'.by = "run"
          /\ Delivers(ret'.items, <<One(last)>>)
          /\ UNCHANGED <<phase, txn, batch>>
       \/ /\ busy = "multi" /\ ret'.by = "self"
          /\ phase' = "multi" /\ UNCHANGED <<txn, batch>>
       \/ /\ busy = "exec" /\ ret'.by = "exec"
          /\ Delivers(ret'.items, [k \in DOMAIN txn |-> One(txn[k])])
          /\ phase' = "direct" /\ txn' = <<>> /\ UNCHANGED batch
       \/ /\ busy = "send" /\ ret'.by = "send"
          /\ Delivers(ret'.items, batch)
          /\ phase' = "direct" /\ batch' = <<>> /\ UNCHANGED txn

Lose == /\ phase \notin {"none", "lost", "closed"}
        /\ phase' = "lost" /\ busy' = "no" /\ txn' = <<>> /\ batch' = <<>>
        /\ UNCHANGED <<last, ret>>

\* A call, or the rest of one, without a connection.
Drift == /\ phase = "lost" /\ last' \in {last, last + 1}
         /\ ret' # ret /\ ret'.by = "run" =>
                Len(ret'.items) = 1 /\ ret'.items[1].of \in {last', 0}
         /\ UNCHANGED <<phase, busy, txn, batch>>

Next == \/ Connect \/ Refuse \/ Close \/ Command \/ Pipeline \/ Multi \/ Exec
        \/ Send \/ SendNothing \/ Return \/ Lose \/ Drift

Spec == Init /\ [][Next]_vars
=============================================================================
