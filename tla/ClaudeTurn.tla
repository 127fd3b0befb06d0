----------------------------- MODULE ClaudeTurn -----------------------------
(***************************************************************************)
(* The turns of one Claude session (claude/agent.ts).  Every turn is a     *)
(* query of its own: the SDK starts a CLI for it and streams its messages. *)
(* The stream of an earlier query may still be consumed while the next     *)
(* turn runs.  activeTurnId is set before run() waits and cleared by       *)
(* whatever settles the turn first: the result, an error of a stream,      *)
(* interrupt() or close().                                                 *)
(*                                                                         *)
(* An action is the code between two awaits.  Timeline messages and the    *)
(* model and effort handed to each query are left out.                     *)
(*                                                                         *)
(* The SDK is external.  A query is assumed to send its init before        *)
(* anything else, to send one result at most and none while a permission   *)
(* is asked, and to end its stream, with or without an error, when it is   *)
(* told to return.  Nothing else is assumed of when its messages arrive:   *)
(* the init, the result and the error of an earlier query may come while   *)
(* a later turn runs.                                                      *)
(***************************************************************************)
EXTENDS ProviderRunner

VARIABLES
    active,     \* activeTurnId: the turn it was set for, None when null
    query,      \* this.query: the turn it was started for
    streams,    \* the turns whose query is still consumed by consumeQuery
    resumed,    \* per turn: the conversation its query was told to resume
    session,    \* sessionId once it is real: a conversation, named by the turn
                \*   whose query opened it; None while it is the made-up id
    inited,     \* external: the queries that have sent their init
    answered,   \* external: the queries that have sent their result
    asking,     \* pendingPermissions: the turns whose query waits for one
    interrupts, \* the turns whose query.interrupt() is awaited by interrupt()
    closing     \* close(): "no", "returning" (closed and aborted), or "done"
                \*   (the subscribers are gone)

vars == <<run, outcome, active, query, streams, resumed, session, inited,
          answered, asking, interrupts, closing>>

TurnOrNone == Turns \cup {None}

\* The type of a Claude session's state: only the terminal events the code knows
\* reach the run, and every conversation is one some turn opened.
TypeOK ==
    /\ RunnerTypeOK
    /\ active \in TurnOrNone
    /\ query \in TurnOrNone
    /\ streams \subseteq Turns
    /\ resumed \in [Turns -> TurnOrNone]
    /\ session \in TurnOrNone
    /\ inited \subseteq Turns
    /\ answered \subseteq Turns
    /\ asking \subseteq Turns
    /\ interrupts \subseteq Turns
    /\ closing \in {"no", "returning", "done"}

Init ==
    /\ RunnerInit
    /\ active = None
    /\ query = None
    /\ streams = {}
    /\ resumed = [t \in Turns |-> None]
    /\ session = None
    /\ inited = {} /\ answered = {}
    /\ asking = {}
    /\ interrupts = {}
    /\ closing = "no"

-----------------------------------------------------------------------------
closed == closing # "no"

\* No continuation is due: clients' requests are not handled before it.
Idle == run.phase # "starting"

\* emit(): close() has dropped the subscribers when it is done.
Emit(type, turn) ==
    IF closing = "done" THEN UNCHANGED <<run, outcome>>
                        ELSE Observe([type |-> type, turn |-> turn])

-----------------------------------------------------------------------------
(* Calls of the daemon's clients                                           *)

\* startTurn: the turn is active and its query runs when it returns.
StartTurn(t) ==
    /\ Idle /\ ~closed
    /\ StartRun(t)
    /\ active' = t
    /\ query' = t
    /\ streams' = streams \cup {t}
    /\ resumed' = [resumed EXCEPT ![t] = session]
    /\ UNCHANGED <<session, inited, answered, asking, interrupts, closing>>

TurnReturns ==
    /\ StartTurnReturns
    /\ UNCHANGED <<active, query, streams, resumed, session, inited, answered,
                   asking, interrupts, closing>>

Interrupt ==
    /\ Idle
    /\ active # None
    /\ active' = None
    /\ interrupts' = interrupts \cup {active}
    /\ UNCHANGED <<run, outcome, query, streams, resumed, session, inited, answered,
                   asking, closing>>

\* Variant: no finally, a refused interrupt() is not reported.
InterruptReturnsUnlessRefused(t) ==
    /\ t \in interrupts
    /\ interrupts' = interrupts \ {t}
    /\ Emit("turn_canceled", t) \/ UNCHANGED <<run, outcome>>
    /\ UNCHANGED <<active, query, streams, resumed, session, inited, answered,
                   asking, closing>>

\* The finally clause: whether the SDK did interrupt the query or not.
InterruptReturns(t) ==
    /\ t \in interrupts
    /\ interrupts' = interrupts \ {t}
    /\ Emit("turn_canceled", t)
    /\ UNCHANGED <<active, query, streams, resumed, session, inited, answered,
                   asking, closing>>

\* close(): the active turn is settled, the queries are aborted, and the last
\* one is told to return.
Close ==
    /\ Idle /\ ~closed
    /\ IF active # None THEN Emit("turn_canceled", active)
                        ELSE UNCHANGED <<run, outcome>>
    /\ active' = None
    /\ closing' = IF query = None THEN "done" ELSE "returning"
    /\ UNCHANGED <<query, streams, resumed, session, inited, answered, asking,
                   interrupts>>

\* return() has resolved and the stream of the last query has been consumed; an
\* interrupt() that is still awaited finds no subscriber any more.
CloseReturns ==
    /\ closing = "returning"
    /\ query \notin streams
    /\ closing' = "done"
    /\ UNCHANGED <<run, outcome, active, query, streams, resumed, session, inited,
                   answered, asking, interrupts>>

\* respondToPermission: the query goes on with the answer.
RespondToPermission(t) ==
    /\ t \in asking
    /\ asking' = asking \ {t}
    /\ UNCHANGED <<run, outcome, active, query, streams, resumed, session, inited,
                   answered, interrupts, closing>>

-----------------------------------------------------------------------------
(* Messages of the SDK                                                     *)

\* handlePermissionRequest; the signal of a closed session is aborted already,
\* and then nothing is kept.
PermissionRequested(t) ==
    /\ t \in streams /\ t \in inited /\ t \notin answered /\ t \notin asking
    /\ ~closed
    /\ asking' = asking \cup {t}
    /\ UNCHANGED <<run, outcome, active, query, streams, resumed, session, inited,
                   answered, interrupts, closing>>

\* The signal of a request is aborted, by an interrupt or by close().
PermissionAborted(t) ==
    /\ t \in asking
    /\ t # active
    /\ asking' = asking \ {t}
    /\ UNCHANGED <<run, outcome, active, query, streams, resumed, session, inited,
                   answered, interrupts, closing>>

\* Variant: a session that was resumed takes a new conversation for its own.
SystemInitForks(t) ==
    /\ t \in streams /\ t \notin inited
    /\ inited' = inited \cup {t}
    /\ session' = t
    /\ UNCHANGED <<run, outcome, active, query, streams, resumed, answered, asking,
                   interrupts, closing>>

\* The conversation a query belongs to.
Conversation(t) == IF resumed[t] = None THEN t ELSE resumed[t]

\* Whichever query it comes from.
SystemInit(t) ==
    /\ t \in streams /\ t \notin inited
    /\ inited' = inited \cup {t}
    /\ session' = Conversation(t)
    /\ UNCHANGED <<run, outcome, active, query, streams, resumed, answered, asking,
                   interrupts, closing>>

\* Variant: the SDK's own word for a failure is handed on.
ResultUntranslated(t) ==
    /\ t \in streams \cap inited /\ t \notin answered \cup asking
    /\ answered' = answered \cup {t}
    /\ IF active = t
       THEN /\ \E type \in {"turn_completed", "error_max_turns"} : Emit(type, t)
            /\ active' = None
       ELSE UNCHANGED <<run, outcome, active>>
    /\ UNCHANGED <<query, streams, resumed, session, inited, asking, interrupts, closing>>

\* The result of a query settles its own turn, or nothing.
Result(t) ==
    /\ t \in streams \cap inited /\ t \notin answered \cup asking
    /\ answered' = answered \cup {t}
    /\ IF active = t
       THEN /\ \E type \in {"turn_completed", "turn_failed"} : Emit(type, t)
            /\ active' = None
       ELSE UNCHANGED <<run, outcome, active>>
    /\ UNCHANGED <<query, streams, resumed, session, inited, asking, interrupts, closing>>

StreamGone(t) ==
    /\ t \in streams \ asking
    /\ streams' = streams \ {t}
    /\ UNCHANGED <<query, resumed, session, inited, answered, asking, interrupts, closing>>

\* The end of the stream settles nothing, not even without a result.
StreamEnds(t) ==
    /\ StreamGone(t)
    /\ UNCHANGED <<run, outcome, active>>

\* Variant: an error settles nothing.
StreamFailsSilently(t) ==
    /\ StreamGone(t)
    /\ active' = None
    /\ UNCHANGED <<run, outcome>>

\* The catch clause of consumeQuery: fails whatever turn is active, which need
\* not be the query's.
StreamFails(t) ==
    /\ StreamGone(t)
    /\ IF ~closed /\ active # None
       THEN Emit("turn_failed", t) /\ active' = None
       ELSE UNCHANGED <<run, outcome, active>>

-----------------------------------------------------------------------------
Sdk(t) ==
    \/ PermissionRequested(t) \/ PermissionAborted(t)
    \/ SystemInit(t) \/ Result(t) \/ StreamEnds(t) \/ StreamFails(t)

Next ==
    \/ \E t \in Turns : \/ StartTurn(t) \/ InterruptReturns(t)
                        \/ RespondToPermission(t) \/ Sdk(t)
    \/ TurnReturns
    \/ Interrupt
    \/ Close
    \/ CloseReturns

\* Continuations run.  The SDK answers every interrupt(), and aborts the
\* permissions and ends the streams of a session that is closed.
Fairness ==
    /\ WF_vars(TurnReturns) /\ WF_vars(CloseReturns)
    /\ \A t \in Turns :
          /\ WF_vars(InterruptReturns(t))
          /\ WF_vars(closed /\ PermissionAborted(t))
          /\ WF_vars(closed /\ StreamEnds(t))

Spec == Init /\ [][Next]_vars /\ Fairness

-----------------------------------------------------------------------------
(* Properties                                                              *)

\* The session and the run agree on the turn: the active turn is the one run()
\* waits for and the last query is its own, and a run that waits is active or
\* being interrupted.  So interrupt() and close() reach it, whatever an earlier
\* query sends late.  The exception: a close() that did not wait for an awaited
\* interrupt() has dropped the run's subscription.
SameTurn ==
    /\ active # None => run.turn = active /\ query = active
    /\ run.phase = "waiting" =>
          \/ active = run.turn
          \/ run.turn \in interrupts
          \/ closing = "done"

\* Once a turn has completed, later turns go on with its conversation.  The
\* exception: the query of an earlier turn that was stopped or failed sends its
\* init late, and the session goes over to that query's conversation.
OneConversation ==
    \A t, u \in Turns :
        /\ t < u /\ outcome[t] # None /\ outcome[t].type = "turn_completed"
        /\ (outcome[u] # None \/ run.turn = u)
        => \/ Conversation(u) = Conversation(t)
           \/ \E w \in inited : /\ w < t /\ outcome[w].type # "turn_completed"
                                /\ Conversation(u) = Conversation(w)

\* What run() tells its caller: its own turn's end, or the failure of some
\* query of the session, the catch clause does not ask which.
Told(t) ==
    IF outcome[t] # None /\ outcome[t].type = "turn_failed" THEN "turn_failed"
    ELSE Verdict(t)

\* The session keeps the contract of run(): turns are settled one at a time,
\* completed and canceled only by their own end, and a turn that was stopped is
\* told that it was canceled, whatever other queries send.  `asked` are those whose
\* interrupt() is awaited, that are left in a closed session or were canceled.
\* And an interrupt settles its turn in the end, unless the session is closed
\* before the SDK has answered it.
Contract == INSTANCE TurnContract WITH
    current <- run.turn,
    asked <- interrupts \cup {t \in Turns : closed /\ run.turn = t} \cup
             {t \in Turns : outcome[t] # None /\ outcome[t].type = "turn_canceled"},
    verdict <- [t \in Turns |-> Told(t)]

ImplementsContract ==
    /\ Contract!Safety
    /\ \A t \in Turns : t \in interrupts ~> outcome[t] # None \/ closing = "done"

=============================================================================
