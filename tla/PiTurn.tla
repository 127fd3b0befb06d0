------------------------------- MODULE PiTurn -------------------------------
(***************************************************************************)
(* The turns of one Pi session (pi/agent.ts) over its JSONL-RPC process    *)
(* (pi/runtime.ts, jsonl-rpc-process.ts), as run() sees them.  Actions are *)
(* cut as in CodexTurn: a line of stdout is handled when it is read, what  *)
(* awaits a response runs after the lines of the same chunk and before     *)
(* requests of clients, timers and the exit of the process.  Which of      *)
(* several settled promises is continued first depends on how many awaits  *)
(* lie between; any order is allowed here.                                 *)
(*                                                                         *)
(* Unlike Codex, the end of a turn names no turn, activeTurnId is set only *)
(* when the prompt has been acknowledged, interrupt() sends its abort      *)
(* whether a turn is active or not, every request has the same timeout,    *)
(* and close() rejects what is pending and keeps the subscribers.          *)
(*                                                                         *)
(* Pi is external.  It is assumed to take a prompt only when it is idle    *)
(* and has answered what was sent before, to acknowledge it before it      *)
(* works on it, and to acknowledge an abort only when it is idle.  It may  *)
(* refuse either at any time, and need never answer.                       *)
(***************************************************************************)
EXTENDS ProviderRunner

CONSTANT MaxRequests    \* bound: the requests sent to the process

ASSUME RequestsAssumption == MaxRequests \in Nat

VARIABLES
    active,     \* activeTurnId: the turn it was set for, None when null
    closed,     \* PiRpcAgentSession.closed
    process,    \* "up", "exited" by itself, or "disposed" by close()
    nextId,     \* JsonlRpcProcess.nextRequestId
    pending,    \* JsonlRpcProcess.pending; the ids give the insertion order
    micro,      \* requests settled whose continuations have not run yet
    inbox,      \* external: the requests Pi has not answered
    working     \* external: the turn Pi works on

vars == <<run, outcome, active, closed, process, nextId, pending, micro,
          inbox, working>>

\* `turn` of an abort is the turn that was active when the user interrupted.
Request == [kind : {"prompt", "abort"}, turn : Turns \cup {None}, id : 1 .. MaxRequests]

Settled == [request : Request, ok : BOOLEAN]

\* The type of a Pi session's state: only terminal events the code knows reach
\* the run, and only the two kinds of request are in flight.
TypeOK ==
    /\ RunnerTypeOK
    /\ active \in Turns \cup {None}
    /\ closed \in BOOLEAN
    /\ process \in {"up", "exited", "disposed"}
    /\ nextId \in 1 .. (MaxRequests + 1)
    /\ pending \subseteq Request
    /\ micro \subseteq Settled
    /\ inbox \subseteq Request
    /\ working \in Turns \cup {None}

Init ==
    /\ RunnerInit
    /\ active = None
    /\ closed = FALSE
    /\ process = "up"
    /\ nextId = 1
    /\ pending = {}
    /\ micro = {}
    /\ inbox = {}
    /\ working = None

-----------------------------------------------------------------------------
(* The JSONL-RPC process                                                   *)

Idle == micro = {}

\* startRequest: the request is pending and written to stdin.
Send(kind, turn) ==
    LET request == [kind |-> kind, turn |-> turn, id |-> nextId] IN
    /\ nextId <= MaxRequests
    /\ nextId' = nextId + 1
    /\ pending' = pending \cup {request}
    /\ inbox' = inbox \cup {request}

\* The promises of these requests, when they are pending, settle.
SettleRequests(requests, ok) ==
    /\ pending' = pending \ requests
    /\ micro' = micro \cup [request : requests \cap pending, ok : {ok}]

\* handleResponse: nothing waits for the answer of a request that timed out.
Respond(request, ok) ==
    /\ process = "up"
    /\ request \in inbox
    /\ inbox' = inbox \ {request}
    /\ SettleRequests({request}, ok)
    /\ UNCHANGED <<run, outcome, active, closed, process, nextId>>

\* failAll
RejectPending == SettleRequests(pending, FALSE)

\* All requests have the same timeout: the oldest one's timer is the next.
RequestTimesOut ==
    /\ Idle
    /\ \E request \in pending :
          /\ \A r \in pending : request.id <= r.id
          /\ SettleRequests({request}, FALSE)
    /\ UNCHANGED <<run, outcome, active, closed, process, nextId, inbox, working>>

\* The session reports a turn, if there is one, canceled.
Cancel(turn) ==
    IF turn # None THEN Observe([type |-> "turn_canceled", turn |-> turn])
                   ELSE UNCHANGED <<run, outcome>>

-----------------------------------------------------------------------------
(* Calls of the daemon's clients                                           *)

Prompt(t) ==
    /\ Idle
    /\ ~closed /\ process = "up"
    /\ StartRun(t)
    /\ Send("prompt", t)
    /\ UNCHANGED <<active, closed, process, micro, working>>

\* run() after the process died: startRequest rejects.
PromptFails(t) ==
    /\ Idle
    /\ ~closed /\ process = "exited"
    /\ run.phase = "idle" /\ IsNext(t)
    /\ outcome' = [outcome EXCEPT ![t] = Rejected]
    /\ UNCHANGED <<run, active, closed, process, nextId, pending, micro, inbox,
                   working>>

\* Variant: the active turn is not settled first.
InterruptKeepsActive ==
    /\ Idle
    /\ ~closed /\ process = "up"
    /\ Send("abort", active)
    /\ UNCHANGED <<run, outcome, active, closed, process, micro, working>>

\* interrupt() of a dead process changes nothing and has no action.
Interrupt ==
    /\ Idle
    /\ ~closed /\ process = "up"
    /\ active' = None
    /\ Send("abort", active)
    /\ UNCHANGED <<run, outcome, closed, process, micro, working>>

\* Variant: the active turn is not settled.
CloseSilently ==
    /\ Idle
    /\ ~closed
    /\ closed' = TRUE
    /\ active' = None
    /\ IF process = "up" THEN process' = "disposed" /\ RejectPending
                         ELSE UNCHANGED <<process, pending, micro>>
    /\ UNCHANGED <<run, outcome, nextId, inbox, working>>

\* close(): the active turn is settled, the process's events are no longer
\* listened to, and its pending requests are rejected before it is killed.
Close ==
    /\ Idle
    /\ ~closed
    /\ closed' = TRUE
    /\ Cancel(active)
    /\ active' = None
    /\ IF process = "up" THEN process' = "disposed" /\ RejectPending
                         ELSE UNCHANGED <<process, pending, micro>>
    /\ UNCHANGED <<nextId, inbox, working>>

-----------------------------------------------------------------------------
(* Continuations of startTurn, run and interrupt                           *)

Resumes(settled, kind) ==
    /\ settled \in micro /\ settled.request.kind = kind
    /\ micro' = micro \ {settled}
    /\ UNCHANGED <<closed, process, nextId, pending, inbox, working>>

\* The prompt is acknowledged: the turn is active from here on.
StartReturns(settled) ==
    /\ Resumes(settled, "prompt") /\ settled.ok
    /\ active' = settled.request.turn
    /\ StartTurnReturns

\* The prompt was refused, timed out, or its process ended.
StartFails(settled) ==
    /\ Resumes(settled, "prompt") /\ ~settled.ok
    /\ StartTurnFails
    /\ UNCHANGED active

\* Variant: no finally clause, a rejected abort reports nothing.
InterruptReturnsUnsettled(settled) ==
    /\ Resumes(settled, "abort")
    /\ Cancel(IF settled.ok THEN settled.request.turn ELSE None)
    /\ UNCHANGED active

\* The finally clause of interrupt(): the turn that was active is canceled.
InterruptReturns(settled) ==
    /\ Resumes(settled, "abort")
    /\ Cancel(settled.request.turn)
    /\ UNCHANGED active

-----------------------------------------------------------------------------
(* Lines of Pi                                                             *)

\* The acknowledgement; Pi may also handle a prompt without its agent
\* (agentInvoked FALSE): such a turn never ends.
PromptAccepted(request) ==
    /\ request.kind = "prompt"
    /\ \A r \in inbox : request.id <= r.id
    /\ working = None
    /\ working' \in {request.turn, None}
    /\ Respond(request, TRUE)

AbortAccepted(request) ==
    /\ request.kind = "abort"
    /\ working = None
    /\ UNCHANGED working
    /\ Respond(request, TRUE)

Refused(request) ==
    /\ UNCHANGED working
    /\ Respond(request, FALSE)

\* agent_end, by itself or because of an abort.
AgentStops ==
    /\ process = "up"
    /\ working # None
    /\ working' = None

\* Variant: the event's own type is passed on.
AgentEndsUntranslated ==
    /\ AgentStops
    /\ IF active # None THEN Observe([type |-> "agent_end", turn |-> working])
                        ELSE UNCHANGED <<run, outcome>>
    /\ active' = None
    /\ UNCHANGED <<closed, process, nextId, pending, micro, inbox>>

\* Variant: the turn stays active after its end.
AgentEndsStaysActive ==
    /\ AgentStops
    /\ IF active # None THEN Observe([type |-> "turn_completed", turn |-> working])
                        ELSE UNCHANGED <<run, outcome>>
    /\ UNCHANGED <<active, closed, process, nextId, pending, micro, inbox>>

\* An agent_end that finds no active turn is dropped.
AgentEnds ==
    /\ AgentStops
    /\ IF active # None THEN Observe([type |-> "turn_completed", turn |-> working])
                        ELSE UNCHANGED <<run, outcome>>
    /\ active' = None
    /\ UNCHANGED <<closed, process, nextId, pending, micro, inbox>>

\* The process exits by itself: the active turn fails, then every pending
\* request is rejected.
ProcessExits ==
    /\ Idle
    /\ process = "up"
    /\ process' = "exited"
    /\ IF active # None THEN Observe([type |-> "turn_failed", turn |-> active])
                        ELSE UNCHANGED <<run, outcome>>
    /\ active' = None
    /\ RejectPending
    /\ UNCHANGED <<closed, nextId, inbox, working>>

-----------------------------------------------------------------------------
Continue == \E c \in micro : StartReturns(c) \/ StartFails(c) \/ InterruptReturns(c)

Lines ==
    \/ \E r \in inbox : PromptAccepted(r) \/ AbortAccepted(r) \/ Refused(r)
    \/ AgentEnds

Next ==
    \/ \E t \in Turns : Prompt(t) \/ PromptFails(t)
    \/ Interrupt
    \/ Close
    \/ RequestTimesOut
    \/ Continue
    \/ Lines
    \/ ProcessExits

\* Node runs queued microtasks and expired timers.  Nothing is asked of Pi or
\* of the clients.
Fairness == WF_vars(Continue) /\ WF_vars(RequestTimesOut)

Spec == Init /\ [][Next]_vars /\ Fairness

-----------------------------------------------------------------------------
(* Properties                                                              *)

\* The requests whose senders have not been continued.
Awaited == pending \cup {c.request : c \in micro}

\* An abort of this turn whose turn_canceled is still to come.
Interrupting(t) == \E r \in Awaited : r.kind = "abort" /\ r.turn = t

\* The session and the run agree on the turn: an active turn is the one run()
\* waits for, on a live process, and a run that waits is active or being
\* interrupted.  So interrupt(), close() and the exit of the process settle
\* it, even when its agent_end was dropped.
SameTurn ==
    /\ active # None => run.phase = "waiting" /\ run.turn = active /\ process = "up"
    /\ run.phase = "waiting" => active = run.turn \/ Interrupting(run.turn)

\* The event a run settles with is about its own turn, however late prompts and
\* aborts are answered and whatever timed out before.
OwnOutcome ==
    \A t \in Turns : outcome[t] \in Event => outcome[t].turn = t

\* While an abort of a turn that was active is unanswered the turn is not
\* reported completed: it is no longer active when it ends ("settle first, so
\* that agent_end during the abort does not emit turn_completed").
InterruptedNotCompleted ==
    \A t \in Turns :
        outcome[t] # None /\ outcome[t].type = "turn_completed" => ~Interrupting(t)

\* Closing the session, or the end of its process, settles its run.
EndSettles ==
    \A t \in Turns :
        (run.turn = t /\ (closed \/ process # "up")) ~> outcome[t] # None

\* The session keeps the contract of run(): an interrupted turn, in particular,
\* is settled as canceled, even if Pi never answers the abort.  `asked` are the
\* turns with an abort under way or already canceled.
Asked ==
    {t \in Turns : Interrupting(t)} \cup
    {t \in Turns : outcome[t] # None /\ outcome[t].type = "turn_canceled"}

Contract == INSTANCE TurnContract WITH
    current <- run.turn,
    asked <- Asked,
    verdict <- [t \in Turns |-> Verdict(t)]

ImplementsContract == Contract!Spec

=============================================================================
