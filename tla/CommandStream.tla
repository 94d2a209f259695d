---------------------------- MODULE CommandStream ----------------------------
(***************************************************************************)
(* What a redisContext promises its user, with no buffer, socket or reader *)
(* in sight: on one connection commands are answered and replies handed    *)
(* out in the order the commands were issued, each once, none before the   *)
(* server gave it.                                                         *)
(***************************************************************************)
EXTENDS Naturals

VARIABLES
    up,         \* is there a connection?
    asked,      \* commands issued
    answered,   \* commands the server has answered
    given,      \* replies handed out, and the last of them
    reply       \* what the last call returned: 0 stands for NULL

vars == <<up, asked, answered, given, reply>>

Init == up = FALSE /\ asked = 0 /\ answered = 0 /\ given = 0 /\ reply = 0

\* A new connection starts from nothing.
Start == /\ ~up /\ up' \in BOOLEAN
         /\ asked' = 0 /\ answered' = 0 /\ given' = 0 /\ reply' = 0

Stop == up /\ ~up' /\ reply' = 0 /\ UNCHANGED <<asked, answered, given>>

\* A reply is NULL when the object functions make nothing of it.
Give == /\ given < answered
        /\ given' = given + 1
        /\ reply' \in {given + 1, 0}

GiveNothing == reply' = 0 /\ UNCHANGED given

\* A call may issue a command and hand out a reply that was there already.
Ask == /\ up /\ asked' = asked + 1
       /\ Give \/ GiveNothing \/ UNCHANGED <<given, reply>>
       /\ UNCHANGED <<up, answered>>

Return == up /\ (Give \/ GiveNothing) /\ UNCHANGED <<up, asked, answered>>

Answer == /\ up /\ answered < asked
          /\ answered' = answered + 1
          /\ UNCHANGED <<up, asked, given, reply>>

Next == Start \/ Stop \/ Ask \/ Return \/ Answer

Spec == Init /\ [][Next]_vars
=============================================================================
