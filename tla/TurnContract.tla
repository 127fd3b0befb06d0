---------------------------- MODULE TurnContract ----------------------------
(***************************************************************************)
(* What a session promises the caller of run() (AgentSession in            *)
(* agent-sdk-types.ts), whatever provider serves it: turns are settled one *)
(* at a time and once each; a verdict is about the turn it is given for;   *)
(* only a turn that was asked to stop is canceled, by then it can be       *)
(* neither completed nor failed, and it is settled without further ado.    *)
(***************************************************************************)
EXTENDS Naturals

CONSTANTS MaxTurns, None

Turns == 1 .. MaxTurns

VARIABLES
    current,    \* the turn whose run() has not returned, or None
    asked,      \* the turns the user asked to stop, by interrupt() or close()
    verdict     \* per turn: what run() returned

vars == <<current, asked, verdict>>

Verdicts == {"turn_completed", "turn_failed", "turn_canceled", "rejected"}

Init ==
    /\ current = None
    /\ asked = {}
    /\ verdict = [t \in Turns |-> None]

IsNext(t) == verdict[t] = None /\ \A u \in 1 .. (t - 1) : verdict[u] # None

Begin(t) ==
    /\ current = None /\ IsNext(t)
    /\ current' = t
    /\ UNCHANGED <<asked, verdict>>

\* The agent is not there any more: run() rejects at once.
Refuse(t) ==
    /\ current = None /\ IsNext(t)
    /\ verdict' = [verdict EXCEPT ![t] = "rejected"]
    /\ UNCHANGED <<current, asked>>

AskToStop ==
    /\ current # None
    /\ asked' = asked \cup {current}
    /\ UNCHANGED <<current, verdict>>

Settle(v) ==
    /\ current # None
    /\ IF current \in asked THEN v \in {"turn_canceled", "rejected"}
                            ELSE v \in Verdicts \ {"turn_canceled"}
    /\ verdict' = [verdict EXCEPT ![current] = v]
    /\ current' = None
    /\ UNCHANGED asked

\* close() asks and settles in one step.
StopAtOnce ==
    /\ current # None
    /\ asked' = asked \cup {current}
    /\ verdict' = [verdict EXCEPT ![current] = "turn_canceled"]
    /\ current' = None

SettleAsked == current \in asked /\ \E v \in Verdicts : Settle(v)

Next ==
    \/ \E t \in Turns : Begin(t) \/ Refuse(t)
    \/ AskToStop
    \/ StopAtOnce
    \/ \E v \in Verdicts : Settle(v)

Safety == Init /\ [][Next]_vars

Spec == Safety /\ WF_vars(SettleAsked)

=============================================================================
