---------------------------- MODULE OpencodeTurn ----------------------------
(***************************************************************************)
(* The turns of one OpenCode session (opencode/agent.ts).  Requests go to  *)
(* the shared server over HTTP; what the agent does comes back over an     *)
(* event stream, without any order between the two.  The events name the   *)
(* session and no turn: they settle whatever turn is active.               *)
(*                                                                         *)
(* An action is the code between two awaits.  Timeline events and the      *)
(* contents of a prompt are left out.  The server is external; `up` is     *)
(* whether its process lives.  It is assumed to work on one turn at a time *)
(* and to report its end once, as idle, after an error or not.             *)
(***************************************************************************)
EXTENDS ProviderRunner

VARIABLES
    active,     \* activeTurnId: the turn it was set for, None when null
    prompting,  \* the turn whose promptAsync is awaited
    aborts,     \* the turns whose interrupt() awaits an abort
    stream,     \* the event stream: "up" or "ended"
    closing,    \* close(): "no", "draining" (closed), or "done" (no subscribers)
    stopped,    \* history: the turns interrupted while they ran
    crowded,    \* history: the turns that began while some work, event or abort
                \*   of an earlier one was under way
    taken,      \* external: the server has accepted the prompt that is awaited
    working,    \* external: the turn it works on
    events      \* external: sent over the stream and not handled

turnVars == <<run, outcome, active, prompting, aborts, stream, closing, stopped,
              crowded, taken, working, events>>

StreamEvent == [type : {"idle", "error"}, turn : Turns]

TurnTypeOK ==
    /\ RunnerTypeOK
    /\ active \in Turns \cup {None}
    /\ prompting \in Turns \cup {None}
    /\ aborts \subseteq Turns
    /\ stream \in {"up", "ended"}
    /\ closing \in {"no", "draining", "done"}
    /\ stopped \subseteq Turns
    /\ crowded \subseteq Turns
    /\ taken \in BOOLEAN
    /\ working \in Turns \cup {None}
    /\ events \in Seq(StreamEvent)

TurnInit ==
    /\ RunnerInit
    /\ active = None
    /\ prompting = None
    /\ aborts = {}
    /\ stream = "up"
    /\ closing = "no"
    /\ stopped = {}
    /\ crowded = {}
    /\ taken = FALSE
    /\ working = None
    /\ events = <<>>

-----------------------------------------------------------------------------
closed == closing # "no"

\* emit(): close() has dropped the subscribers when it is done.
Emit(type, turn) ==
    IF closing = "done" THEN UNCHANGED <<run, outcome>>
                        ELSE Observe([type |-> type, turn |-> turn])

\* Nothing of the turns so far is under way.
Quiet == working = None /\ events = <<>> /\ aborts = {}

-----------------------------------------------------------------------------
(* Calls of the daemon's clients and what they await                       *)

\* startTurn, up to promptAsync.
StartTurn(t) ==
    /\ ~closed
    /\ StartRun(t)
    /\ active' = t
    /\ prompting' = t
    /\ crowded' = IF Quiet THEN crowded ELSE crowded \cup {t}
    /\ UNCHANGED <<aborts, stream, closing, stopped, taken, working, events>>

\* The session is closed: startTurn throws.
StartTurnThrows(t) ==
    /\ closed
    /\ run.phase = "idle" /\ IsNext(t)
    /\ outcome' = [outcome EXCEPT ![t] = Rejected]
    /\ UNCHANGED <<run, active, prompting, aborts, stream, closing, stopped, crowded,
                   taken, working, events>>

PromptAccepted ==
    /\ prompting # None /\ taken
    /\ prompting' = None /\ taken' = FALSE
    /\ StartTurnReturns
    /\ UNCHANGED <<active, aborts, stream, closing, stopped, crowded, working,
                   events>>

\* The response is an error: finishTurnFailed, then startTurn returns.
PromptRefused ==
    LET failed == [type |-> "turn_failed", turn |-> prompting]
        kept == IF active # None THEN Append(run.buffer, failed) ELSE run.buffer IN
    /\ prompting # None /\ ~taken
    /\ prompting' = None
    /\ active' = None
    /\ IF kept = <<>> THEN run' = [run EXCEPT !.phase = "waiting"] /\ UNCHANGED outcome
                      ELSE Settle(Head(kept))
    /\ UNCHANGED <<aborts, stream, closing, stopped, crowded, taken, working, events>>

\* No response: startTurn throws and the turn stays active, whether the server
\* has taken the prompt or not.
PromptThrows ==
    /\ prompting # None
    /\ prompting' = None /\ taken' = FALSE
    /\ StartTurnFails
    /\ UNCHANGED <<active, aborts, stream, closing, stopped, crowded, working,
                   events>>

\* Variant: the turn stays active until the abort is answered.
InterruptKeepsActive ==
    /\ ~closed /\ active # None
    /\ aborts' = aborts \cup {active}
    /\ stopped' = stopped \cup {t \in Turns : t = active /\ t = run.turn}
    /\ UNCHANGED <<run, outcome, active, prompting, stream, closing, crowded, taken,
                   working, events>>

\* With no active turn interrupt() only asks the server to stop, which it may do
\* at any time (AgentStops).
Interrupt ==
    /\ ~closed /\ active # None
    /\ active' = None
    /\ aborts' = aborts \cup {active}
    /\ stopped' = stopped \cup {t \in Turns : t = active /\ t = run.turn}
    /\ UNCHANGED <<run, outcome, prompting, stream, closing, crowded, taken, working,
                   events>>

\* The finally clause: whether the server did abort or not.
AbortReturns(turn) ==
    /\ turn \in aborts
    /\ aborts' = aborts \ {turn}
    /\ Emit("turn_canceled", turn)
    /\ UNCHANGED <<active, prompting, stream, closing, stopped, crowded, taken,
                   working, events>>

\* Variant: the active turn is not settled first.
CloseSilently ==
    /\ ~closed
    /\ active' = None
    /\ closing' = "draining"
    /\ UNCHANGED <<run, outcome, prompting, aborts, stream, stopped, crowded, taken,
                   working, events>>

\* close(): the active turn is settled, the stream is told to end.
Close ==
    /\ ~closed
    /\ IF active # None THEN Emit("turn_canceled", active)
                        ELSE UNCHANGED <<run, outcome>>
    /\ active' = None
    /\ closing' = "draining"
    /\ UNCHANGED <<prompting, aborts, stream, stopped, crowded, taken, working, events>>

\* The stream has ended: the subscribers are dropped, whether an abort is awaited
\* or not.
CloseReturns ==
    /\ closing = "draining"
    /\ stream = "ended"
    /\ closing' = "done"
    /\ UNCHANGED <<run, outcome, active, prompting, aborts, stream, stopped, crowded,
                   taken, working, events>>

-----------------------------------------------------------------------------
(* The server                                                              *)

AgentTakes(up) ==
    /\ up
    /\ prompting # None /\ ~taken
    /\ working = None
    /\ taken' = TRUE
    /\ working' = prompting
    /\ UNCHANGED <<run, outcome, active, prompting, aborts, stream, closing, events,
                   stopped, crowded>>

\* The agent is done, has failed, or was aborted.
AgentStops(up) ==
    LET idle == [type |-> "idle", turn |-> working]
        error == [type |-> "error", turn |-> working] IN
    /\ up
    /\ working # None
    /\ working' = None
    /\ \E ending \in {<<idle>>, <<error, idle>>} :
          events' = IF stream = "up" THEN events \o ending ELSE events
    /\ UNCHANGED <<run, outcome, active, prompting, aborts, stream, closing, stopped,
                   crowded, taken>>

Handles(type) ==
    /\ stream = "up"
    /\ events # <<>> /\ Head(events).type = type
    /\ events' = Tail(events)
    /\ UNCHANGED <<prompting, aborts, stream, closing, stopped, crowded, taken, working>>

\* Variant: the event of the server is handed on untranslated.
SessionIdleUntranslated ==
    /\ Handles("idle")
    /\ IF active # None THEN Emit("idle", Head(events).turn)
                        ELSE UNCHANGED <<run, outcome>>
    /\ active' = None

\* session.idle: the active turn is completed.
SessionIdle ==
    /\ Handles("idle")
    /\ IF active # None THEN Emit("turn_completed", Head(events).turn)
                        ELSE UNCHANGED <<run, outcome>>
    /\ active' = None

\* session.error: the active turn has failed.
SessionError ==
    /\ Handles("error")
    /\ IF active # None THEN Emit("turn_failed", Head(events).turn)
                        ELSE UNCHANGED <<run, outcome>>
    /\ active' = None

\* A session.error without a session id, about whatever session of the server:
\* the active turn has failed.
UnnamedError ==
    /\ stream = "up"
    /\ active # None
    /\ Emit("turn_failed", active)
    /\ active' = None
    /\ UNCHANGED <<prompting, aborts, stream, closing, stopped, crowded, taken,
                   working, events>>

StreamGone ==
    /\ stream = "up"
    /\ stream' = "ended"
    /\ events' = <<>>
    /\ UNCHANGED <<prompting, aborts, closing, stopped, crowded, taken, working>>

\* The stream ends without an error: the active turn is not settled, and no
\* later one will be.
StreamEnds ==
    /\ StreamGone
    /\ UNCHANGED <<run, outcome, active>>

StreamFails ==
    /\ StreamGone
    /\ IF ~closed /\ active # None
       THEN Emit("turn_failed", active) /\ active' = None
       ELSE UNCHANGED <<run, outcome, active>>

-----------------------------------------------------------------------------
(* Properties                                                              *)

\* The session and the run agree on the turn, and while run() waits its turn is
\* active or being interrupted: interrupt() and close() reach it, whatever became
\* of earlier turns, prompts, aborts and events.  The exception: a close() that
\* did not wait for an awaited abort has dropped the run's subscription.
SameTurn ==
    /\ active # None /\ run # NoRun => active = run.turn
    /\ run.phase = "waiting" =>
          \/ active = run.turn
          \/ run.turn \in aborts
          \/ run.turn \in stopped /\ closing = "done"

\* What run() tells its caller.  The events name no turn: only for a turn that
\* began when nothing of the earlier ones was under way is it the turn's own end.
Told(t) ==
    IF t \in crowded /\ outcome[t] # None THEN outcome[t].type ELSE Verdict(t)

\* The session keeps the contract of run().  close() asks all turns to stop, and
\* the abort of an earlier turn a crowded one.
Contract == INSTANCE TurnContract WITH
    current <- run.turn,
    asked <- stopped \cup
             {t \in Turns : /\ closed \/ t \in crowded
                           /\ outcome[t] # None /\ outcome[t].type = "turn_canceled"},
    verdict <- [t \in Turns |-> Told(t)]

=============================================================================
