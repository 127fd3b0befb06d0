------------------------------ MODULE Opencode ------------------------------
(***************************************************************************)
(* An OpenCode session on the server it shares (opencode/agent.ts and      *)
(* opencode/server-manager.ts together).  The session is opened on the     *)
(* server its acquire() was given, and talks to it as long as its process  *)
(* lives; the other callers of acquire() list models.  The orchestrator    *)
(* closes its sessions before it shuts the server down, but a session that *)
(* is being opened meanwhile is opened all the same.                       *)
(***************************************************************************)
EXTENDS OpencodeServer, OpencodeTurn

CONSTANT Owner      \* the caller of acquire() that opens the session

ASSUME OwnerAssumption == Owner \in Requests

VARIABLE opened     \* createSession / resumeSession has returned the session

vars == <<serverVars, turnVars, opened>>

TypeOK == ServerTypeOK /\ TurnTypeOK /\ opened \in BOOLEAN

Init == ServerInit /\ TurnInit /\ opened = FALSE

-----------------------------------------------------------------------------
Live == opened /\ daemon # "exited"

\* The server of the session still answers.
Up == asks[Owner].server # NoServer /\ proc[asks[Owner].server] \in {"up", "killed"}

\* createSession after acquire(): the server makes a session (or has it, for
\* resumeSession, which does not ask).
OpenSession ==
    /\ Runs(Owner, "using") /\ ~opened
    /\ opened' = TRUE
    /\ UNCHANGED <<serverVars, turnVars>>

\* The server refuses or does not answer.
OpenFails ==
    /\ ~opened
    /\ Release(Owner)
    /\ UNCHANGED <<turnVars, opened>>

\* close() ends: the server is released.
CloseSession ==
    /\ opened
    /\ Release(Owner)
    /\ CloseReturns
    /\ UNCHANGED opened

\* fetchModels is done with the server.
ModelsListed(c) ==
    /\ c # Owner
    /\ Release(c)
    /\ UNCHANGED <<turnVars, opened>>

\* AgentManager.shutdown: the sessions it knows are closed by now.
ShutdownServer ==
    /\ opened => closing = "done"
    /\ Shutdown
    /\ UNCHANGED <<turnVars, opened>>

\* What the process of the session's server was doing ends with it.
ServerEnds(s) ==
    /\ ProcessEnds(s)
    /\ working' = IF s = asks[Owner].server THEN None ELSE working
    /\ UNCHANGED <<run, outcome, active, prompting, aborts, stream, closing, stopped,
                   crowded, taken, events, opened>>

Callers(c) ==
    /\ c = Owner => ~opened
    /\ Acquire(c) \/ AcquireReturns(c) \/ AcquireFails(c)
    /\ UNCHANGED <<turnVars, opened>>

Starts ==
    /\ \/ PortFound \/ PortFails
       \/ \E s \in Servers : BecomesReady(s) \/ StartupTimesOut(s)
    /\ UNCHANGED <<turnVars, opened>>

ExitDaemon == Exit /\ UNCHANGED <<turnVars, opened>>

Session ==
    /\ Live
    /\ \/ \E t \in Turns : daemon = "up" /\ (StartTurn(t) \/ StartTurnThrows(t))
       \/ PromptAccepted \/ PromptRefused \/ PromptThrows
       \/ Interrupt
       \/ \E t \in aborts : AbortReturns(t)
       \/ Close
       \/ AgentTakes(Up) \/ AgentStops(Up)
       \/ SessionIdle \/ SessionError \/ UnnamedError
       \/ StreamEnds \/ StreamFails
    /\ UNCHANGED <<serverVars, opened>>

Next ==
    \/ \E c \in Requests : Callers(c) \/ ModelsListed(c)
    \/ Starts
    \/ \E s \in Servers : ServerEnds(s)
    \/ OpenSession \/ OpenFails
    \/ Session
    \/ CloseSession
    \/ ShutdownServer \/ ExitDaemon

-----------------------------------------------------------------------------
\* A session's step with its frame.
Step(A) == Live /\ A /\ UNCHANGED <<serverVars, opened>>

StreamGoes == StreamEnds \/ StreamFails

\* Timers expire and continuations run; a request that is not answered is given
\* up by the HTTP client; an aborted stream, or one of a dead process, ends.
Fairness ==
    /\ WF_vars(Starts)
    /\ \A c \in Requests : WF_vars(AcquireReturns(c) /\ UNCHANGED <<turnVars, opened>>)
    /\ \A c \in Requests : WF_vars(AcquireFails(c) /\ UNCHANGED <<turnVars, opened>>)
    /\ WF_vars(Step(PromptAccepted \/ PromptRefused \/ PromptThrows))
    /\ \A t \in Turns : WF_vars(Step(AbortReturns(t)))
    /\ WF_vars(Step((closed \/ ~Up) /\ StreamGoes))

Spec == Init /\ [][Next]_vars /\ Fairness

-----------------------------------------------------------------------------
(* Properties                                                              *)

\* The session keeps the contract of run() on a server that may die, be shut
\* down or lose its event stream at any moment: turns are settled one at a time
\* and once each, and one that was interrupted is never told completed or failed.
\* What a turn is told is its own end, and it is canceled only if it was stopped,
\* unless it began while work, an event or an abort of an earlier turn was under
\* way: session.idle, session.error and a late abort end whatever turn runs.
ImplementsContract == Contract!Safety

\* Interrupting or closing the session settles its run ("otherwise run() never
\* resolves"), also when its server is gone, shut down or hangs.  The exception:
\* close() does not wait for an abort that is awaited, and drops the subscriber
\* it would have told.
StopSettlesRun ==
    (run # NoRun /\ (closed \/ run.turn \in stopped))
        ~> \/ run = NoRun
           \/ run.turn \in stopped /\ closing = "done"
           \/ daemon = "exited"

=============================================================================
