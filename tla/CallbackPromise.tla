--------------------------- MODULE CallbackPromise --------------------------
(***************************************************************************)
(* What an asynchronous context promises to those who issue commands on    *)
(* it: every accepted command has one outcome, its own reply or NULL, and  *)
(* outcomes come in the order of the commands.  Once one outcome was NULL  *)
(* the rest are, and no command is accepted any more.  The context closes  *)
(* when every command has its outcome.                                     *)
(***************************************************************************)
EXTENDS Naturals, Sequences

VARIABLES
    accepted,   \* how many commands were accepted
    outcomes,   \* the outcomes, "reply" or "NULL", of the first of them
    state       \* "open", "closing", "closed", or "failed"

vars == <<accepted, outcomes, state>>

Running == state \in {"open", "closing"}
Failing == \E k \in DOMAIN outcomes : outcomes[k] = "NULL"

Init == accepted = 0 /\ outcomes = <<>> /\ state = "open"

Accept ==
    /\ state = "open"
    /\ accepted' = accepted + 1
    /\ UNCHANGED <<outcomes, state>>

Settle(outcome) ==
    /\ Running /\ Len(outcomes) < accepted
    /\ outcome = "reply" => ~Failing
    /\ outcome = "NULL" => state = "closing"
    /\ outcomes' = Append(outcomes, outcome)
    /\ UNCHANGED <<accepted, state>>

StartClosing ==
    /\ state = "open"
    /\ state' = "closing"
    /\ UNCHANGED <<accepted, outcomes>>

Close ==
    /\ state = "closing" /\ Len(outcomes) = accepted
    /\ state' \in {"closed", "failed"}
    /\ Failing => state' = "failed"
    /\ UNCHANGED <<accepted, outcomes>>

Next == Accept \/ Settle("reply") \/ Settle("NULL") \/ StartClosing \/ Close

Spec == Init /\ [][Next]_vars
=============================================================================
