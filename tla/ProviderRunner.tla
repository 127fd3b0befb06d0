--------------------------- MODULE ProviderRunner ---------------------------
(***************************************************************************)
(* runProviderTurn (provider-runner.ts): one run() of a session.  It       *)
(* subscribes to the session's events, starts the turn, and waits for a    *)
(* terminal event.  Events that arrive before startTurn returns are kept   *)
(* and looked at when it does.  No event is matched with the turn: the     *)
(* first terminal event settles the run.  A session has at most one run    *)
(* (AgentManager.prompt), so one record is enough.  Timeline events are    *)
(* left out: they never settle a run.                                      *)
(***************************************************************************)
EXTENDS Naturals, Sequences

CONSTANTS
    MaxTurns,   \* bound: the number of prompts sent to the session
    None

ASSUME TurnsAssumption == MaxTurns \in Nat \ {0} /\ None \notin Nat

Turns == 1 .. MaxTurns

VARIABLES
    run,        \* the run under way: turn, phase, the terminal events it keeps
    outcome     \* per turn: the event run() settled with, None until then

(***************************************************************************)
(* An event's `turn` is the turn it is really about, which the code does   *)
(* not know: the turn the agent ended, the turn the user interrupted.      *)
(***************************************************************************)
Event == [type : {"turn_completed", "turn_failed", "turn_canceled"},
          turn : Turns \cup {None}]

\* run() rejects: startTurn threw.
Rejected == [type |-> "rejected", turn |-> None]

Outcomes == Event \cup {Rejected, None}

ASSUME NoneAssumption == None \notin Event \cup {Rejected}

\* What a run can be told, as a word, is not None either.
ASSUME WordAssumption ==
    None \notin {"turn_completed", "turn_failed", "turn_canceled", "rejected"}

NoRun == [turn |-> None, phase |-> "idle", buffer |-> <<>>]

Run == [turn : Turns, phase : {"starting", "waiting"}, buffer : Seq(Event)] \cup {NoRun}

RunnerTypeOK == run \in Run /\ outcome \in [Turns -> Outcomes]

RunnerInit == run = NoRun /\ outcome = [t \in Turns |-> None]

-----------------------------------------------------------------------------
Settle(o) ==
    /\ outcome' = [outcome EXCEPT ![run.turn] = o]
    /\ run' = NoRun

\* Prompts are numbered in the order they are sent.
IsNext(t) == outcome[t] = None /\ \A u \in 1 .. (t - 1) : outcome[u] # None

StartRun(t) ==
    /\ run.phase = "idle" /\ IsNext(t)
    /\ run' = [turn |-> t, phase |-> "starting", buffer |-> <<>>]
    /\ UNCHANGED outcome

\* The subscription's callback.
Observe(e) ==
    \/ /\ run.phase = "idle"
       /\ UNCHANGED <<run, outcome>>
    \/ /\ run.phase = "starting"
       /\ run' = [run EXCEPT !.buffer = Append(@, e)]
       /\ UNCHANGED outcome
    \/ /\ run.phase = "waiting"
       /\ Settle(e)

\* Variant: what arrived before startTurn returned is dropped.
StartTurnReturnsUnbuffered ==
    /\ run.phase = "starting"
    /\ run' = [run EXCEPT !.phase = "waiting", !.buffer = <<>>]
    /\ UNCHANGED outcome

\* startTurn resolved: the kept events are processed, the first settles.
StartTurnReturns ==
    /\ run.phase = "starting"
    /\ IF run.buffer = <<>>
       THEN run' = [run EXCEPT !.phase = "waiting"] /\ UNCHANGED outcome
       ELSE Settle(Head(run.buffer))

StartTurnFails ==
    /\ run.phase = "starting"
    /\ Settle(Rejected)

-----------------------------------------------------------------------------
\* What the caller of run() is told about turn t, or that it is told of another.
Verdict(t) ==
    IF outcome[t] = None THEN None
    ELSE IF outcome[t] = Rejected \/ outcome[t].turn = t THEN outcome[t].type
    ELSE "of another turn"

=============================================================================
