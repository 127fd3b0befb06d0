------------------------------ MODULE CodexTurn ------------------------------
(***************************************************************************)
(* The turns of one Codex session (codex/agent.ts) over its app-server     *)
(* transport (codex/app-server-transport.ts), as run() sees them.          *)
(*                                                                         *)
(* A line of the app-server's stdout is handled when it is read.  A        *)
(* response settles a promise, and the code awaiting it runs as a          *)
(* microtask: after the lines of the same chunk, before anything else that *)
(* can happen to the daemon (`micro` is the microtask queue; lines may be  *)
(* read while it is not empty, requests of clients and timers may not).    *)
(*                                                                         *)
(* The app-server is external.  It is modelled as serial: it begins a turn *)
(* when the previous one has ended, answers turn/start and announces       *)
(* turn/started in either order, and ends the turn after both.  It answers *)
(* turn/interrupt at any time, before or after the turn's end; a turn it   *)
(* has stopped can only end interrupted.                                   *)
(***************************************************************************)
EXTENDS ProviderRunner

CONSTANT
    Obliging    \* TRUE: the app-server answers turn/start in less than
                \* TURN_START_TIMEOUT_MS and refuses no interrupt

ASSUME ObligingAssumption == Obliging \in BOOLEAN

VARIABLES
    active,     \* activeTurnId: the turn it was set for, None when null
    closed,     \* CodexAppServerAgentSession.closed
    process,    \* "up", "exited" by itself, or "disposed" by the client
    pending,    \* CodexAppServerClient.pending, in the order of the requests
    micro,      \* promises settled whose continuations have not run yet
    server      \* external: turns it was asked for, and what it said of the first

vars == <<run, outcome, active, closed, process, pending, micro, server>>

\* `turn` of an interrupt is the run the user interrupted, None between runs.
Requests == [kind : {"start", "interrupt"}, turn : Turns \cup {None}]

Continuations == [kind : {"start", "interrupt"}, turn : Turns \cup {None}, ok : BOOLEAN]

Silent(todo) == [todo |-> todo, answered |-> FALSE, started |-> FALSE, stopped |-> FALSE]

\* The type of a Codex session's state: only terminal events the code knows
\* reach the run, and only the two kinds of request are in flight.
TypeOK ==
    /\ RunnerTypeOK
    /\ active \in Turns \cup {None}
    /\ closed \in BOOLEAN
    /\ process \in {"up", "exited", "disposed"}
    /\ pending \in Seq(Requests)
    /\ micro \in Seq(Continuations)
    /\ server \in [todo : Seq(Turns), answered : BOOLEAN, started : BOOLEAN,
                   stopped : BOOLEAN]

Init ==
    /\ RunnerInit
    /\ active = None
    /\ closed = FALSE
    /\ process = "up"
    /\ pending = <<>>
    /\ micro = <<>>
    /\ server = Silent(<<>>)

-----------------------------------------------------------------------------
(* Helpers                                                                 *)

Without(s, k) == SubSeq(s, 1, k - 1) \o SubSeq(s, k + 1, Len(s))

\* The promise of a request settles; its continuation is queued.
Settled(request, ok) == [kind |-> request.kind, turn |-> request.turn, ok |-> ok]

\* emit: subscribers.clear() has cut the run off once the session is closed.
Emit(type, turn) ==
    IF closed THEN UNCHANGED <<run, outcome>> ELSE Observe([type |-> type, turn |-> turn])

\* Nothing but lines of the current chunk comes between a settled promise and
\* its continuation.
Idle == micro = <<>>

\* The first pending turn/start or turn/interrupt for this turn is answered.
Answer(kind, turn, ok) ==
    IF \E k \in 1 .. Len(pending) : pending[k] = [kind |-> kind, turn |-> turn]
    THEN \E k \in 1 .. Len(pending) :
            /\ pending[k] = [kind |-> kind, turn |-> turn]
            /\ pending' = Without(pending, k)
            /\ micro' = Append(micro, Settled(pending[k], ok))
    ELSE UNCHANGED <<pending, micro>>

-----------------------------------------------------------------------------
(* Calls of the daemon's clients                                           *)

\* run() with a live process: turn/start is written and awaited.
Prompt(t) ==
    /\ Idle
    /\ ~closed /\ process = "up"
    /\ StartRun(t)
    /\ pending' = Append(pending, [kind |-> "start", turn |-> t])
    /\ server' = [server EXCEPT !.todo = Append(@, t)]
    /\ UNCHANGED <<active, closed, process, micro>>

\* run() after the app-server died: request() rejects.
PromptFails(t) ==
    /\ Idle
    /\ ~closed /\ process = "exited"
    /\ run.phase = "idle" /\ IsNext(t)
    /\ outcome' = [outcome EXCEPT ![t] = Rejected]
    /\ UNCHANGED <<run, active, closed, process, pending, micro, server>>

\* interrupt() with no active turn returns at once and has no action.
Interrupt ==
    /\ Idle
    /\ ~closed /\ active # None
    /\ active' = None
    /\ pending' = Append(pending, [kind |-> "interrupt", turn |-> run.turn])
    /\ UNCHANGED <<run, outcome, closed, process, micro, server>>

\* close(): the active turn is settled, the subscribers are dropped, the client
\* is disposed.  dispose() rejects no pending request.
Close ==
    /\ Idle
    /\ ~closed
    /\ closed' = TRUE
    /\ IF active # None THEN Emit("turn_canceled", active) ELSE UNCHANGED <<run, outcome>>
    /\ active' = None
    /\ process' = IF process = "up" THEN "disposed" ELSE process
    /\ UNCHANGED <<pending, micro, server>>

-----------------------------------------------------------------------------
(* Continuations of startTurn, run and interrupt                           *)

\* turn/start resolved: a placeholder id unless turn/started came first.
StartReturns ==
    /\ micro # <<>> /\ Head(micro).kind = "start" /\ Head(micro).ok
    /\ micro' = Tail(micro)
    /\ active' = IF active = None THEN run.turn ELSE active
    /\ StartTurnReturns
    /\ UNCHANGED <<closed, process, pending, server>>

\* turn/start rejected: an error, the timeout or the end of the process.
StartFails ==
    /\ micro # <<>> /\ Head(micro).kind = "start" /\ ~Head(micro).ok
    /\ micro' = Tail(micro)
    /\ StartTurnFails
    /\ UNCHANGED <<active, closed, process, pending, server>>

\* Variant: no finally clause, a rejected interrupt reports nothing.
InterruptReturnsUnsettled ==
    /\ micro # <<>> /\ Head(micro).kind = "interrupt"
    /\ micro' = Tail(micro)
    /\ IF Head(micro).ok THEN Emit("turn_canceled", Head(micro).turn)
                         ELSE UNCHANGED <<run, outcome>>
    /\ UNCHANGED <<active, closed, process, pending, server>>

\* The finally clause of interrupt().
InterruptReturns ==
    /\ micro # <<>> /\ Head(micro).kind = "interrupt"
    /\ micro' = Tail(micro)
    /\ Emit("turn_canceled", Head(micro).turn)
    /\ UNCHANGED <<active, closed, process, pending, server>>

\* Variant: the timer is shorter than what an app-server may take.
StartTimesOutEarly ==
    /\ Idle
    /\ \E k \in 1 .. Len(pending) :
          /\ pending[k].kind = "start"
          /\ pending' = Without(pending, k)
          /\ micro' = Append(micro, Settled(pending[k], FALSE))
    /\ UNCHANGED <<run, outcome, active, closed, process, server>>

\* The timer of turn/start: dispose() leaves it running.  (That of
\* turn/interrupt takes 14 days; when the session is closed by then, the
\* turn_canceled it leads to has no subscriber left.)
StartTimesOut ==
    /\ Idle
    /\ ~Obliging \/ process = "disposed"
    /\ \E k \in 1 .. Len(pending) :
          /\ pending[k].kind = "start"
          /\ pending' = Without(pending, k)
          /\ micro' = Append(micro, Settled(pending[k], FALSE))
    /\ UNCHANGED <<run, outcome, active, closed, process, server>>

-----------------------------------------------------------------------------
(* Lines of the app-server                                                 *)

Turn == Head(server.todo)

\* The answer to turn/start; it is dropped when nothing waits for it any more.
StartAnswered ==
    /\ process = "up"
    /\ server.todo # <<>> /\ ~server.answered
    /\ server' = [server EXCEPT !.answered = TRUE]
    /\ Answer("start", Turn, TRUE)
    /\ UNCHANGED <<run, outcome, active, closed, process>>

StartRefused ==
    /\ process = "up"
    /\ server.todo # <<>> /\ ~server.answered /\ ~server.started
    /\ server' = Silent(Tail(server.todo))
    /\ Answer("start", Turn, FALSE)
    /\ UNCHANGED <<run, outcome, active, closed, process>>

InterruptAnswered ==
    /\ process = "up"
    /\ \E t \in Turns \cup {None}, ok \in BOOLEAN :
          /\ Obliging => ok
          /\ \E k \in 1 .. Len(pending) : pending[k] = [kind |-> "interrupt", turn |-> t]
          /\ Answer("interrupt", t, ok)
          /\ server' = IF ok /\ server.todo # <<>> /\ Turn = t
                       THEN [server EXCEPT !.stopped = TRUE] ELSE server
    /\ UNCHANGED <<run, outcome, active, closed, process>>

TurnStarted ==
    /\ process = "up"
    /\ server.todo # <<>> /\ ~server.started
    /\ server' = [server EXCEPT !.started = TRUE]
    /\ active' = Turn
    /\ UNCHANGED <<run, outcome, closed, process, pending, micro>>

\* Variant: the status "interrupted" is passed on as the event's type.
TurnEndsByStatus(type) ==
    /\ process = "up"
    /\ server.todo # <<>> /\ server.started /\ server.answered
    /\ server.stopped => type = "turn_canceled"
    /\ server' = Silent(Tail(server.todo))
    /\ IF active = None THEN UNCHANGED <<run, outcome>>
       ELSE Emit(IF type = "turn_canceled" THEN "interrupted" ELSE type, Turn)
    /\ active' = None
    /\ UNCHANGED <<closed, process, pending, micro>>

\* The turn has ended, one way or another.
TurnEnds(type) ==
    /\ process = "up"
    /\ server.todo # <<>> /\ server.started /\ server.answered
    /\ server.stopped => type = "turn_canceled"
    /\ server' = Silent(Tail(server.todo))
    /\ IF active = None THEN UNCHANGED <<run, outcome>> ELSE Emit(type, Turn)
    /\ active' = None
    /\ UNCHANGED <<closed, process, pending, micro>>

-----------------------------------------------------------------------------
\* The app-server exits by itself: every pending request is rejected, and the
\* active turn fails.
ProcessExits ==
    /\ Idle
    /\ process = "up"
    /\ process' = "exited"
    /\ micro' = [k \in 1 .. Len(pending) |-> Settled(pending[k], FALSE)]
    /\ pending' = <<>>
    /\ IF active # None THEN Emit("turn_failed", active) ELSE UNCHANGED <<run, outcome>>
    /\ active' = None
    /\ UNCHANGED <<closed, server>>

-----------------------------------------------------------------------------
Continue == StartReturns \/ StartFails \/ InterruptReturns

Lines ==
    \/ StartAnswered \/ StartRefused \/ InterruptAnswered \/ TurnStarted
    \/ \E type \in {"turn_completed", "turn_failed", "turn_canceled"} : TurnEnds(type)

Next ==
    \/ \E t \in Turns : Prompt(t) \/ PromptFails(t)
    \/ Interrupt
    \/ Close
    \/ StartTimesOut
    \/ Continue
    \/ Lines
    \/ ProcessExits

\* Node runs queued microtasks and expired timers; the app-server answers what
\* it is asked.  It need not end a turn, and nobody has to interrupt or close.
Fairness ==
    /\ WF_vars(Continue)
    /\ WF_vars(StartTimesOut)
    /\ WF_vars(StartAnswered \/ StartRefused)
    /\ WF_vars(InterruptAnswered)

Spec == Init /\ [][Next]_vars /\ Fairness

-----------------------------------------------------------------------------
(* Properties                                                              *)

\* A turn is active only on a live app-server, so interrupt() never asks a
\* process that cannot answer.
ActiveHasProcess == active # None => process = "up"

\* An interrupt whose turn_canceled is still to come.
Interrupting ==
    \/ \E k \in 1 .. Len(pending) : pending[k].kind = "interrupt"
    \/ \E k \in 1 .. Len(micro) : micro[k].kind = "interrupt"

\* A run that waits can still be settled: its turn has not ended and its end
\* will not be ignored, or an interrupt will report it.  In particular a turn
\* that ends before startTurn has returned is not lost.
NoLostSettle ==
    run.phase = "waiting" /\ ~closed =>
        \/ Interrupting
        \/ /\ active # None
           /\ \E k \in 1 .. Len(server.todo) : server.todo[k] = run.turn

\* run() reports a turn completed only when the agent completed that turn: the
\* end of one turn never settles the run of another.
CompletedIsOwn ==
    \A t \in Turns :
        outcome[t] # None /\ outcome[t].type = "turn_completed" => outcome[t].turn = t

\* That holds as long as no turn has been interrupted, however the answers, the
\* notifications and the ends of the turns interleave.
UninterruptedIsOwn ==
    /\ ~Interrupting
    /\ \A t \in Turns : outcome[t] # None => outcome[t].type # "turn_canceled"
    => CompletedIsOwn

\* Interrupting a turn settles its run, whatever the app-server answers and
\* even when it dies instead of answering, unless the session is closed.
InterruptSettles ==
    \A t \in Turns :
        (run.turn = t /\ run.phase = "waiting" /\ active = None /\ ~closed)
            ~> (outcome[t] # None \/ closed)

\* Closing the session settles its run ("otherwise run() never resolves").
CloseSettles == \A t \in Turns : (run.turn = t /\ closed) ~> outcome[t] # None

=============================================================================
