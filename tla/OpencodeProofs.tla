--------------------------- MODULE OpencodeProofs ---------------------------
(***************************************************************************)
(* Proofs about an OpenCode session and the server it shares, for any      *)
(* number of callers, servers and turns: only the current server runs; and *)
(* the session's state keeps its type, the session agrees with run() on    *)
(* the turn, and it implements TurnContract.                               *)
(***************************************************************************)
EXTENDS Opencode, TLAPS

-----------------------------------------------------------------------------
(* The server                                                              *)

\* While a server is being started the last one, if any, does not run.
StartsAlone == starting => current = NoServer \/ proc[current] # "up"

ServerInv == ServerTypeOK /\ OnlyCurrentRuns /\ StartsAlone

ServerNext ==
    \/ \E c \in Requests : Acquire(c) \/ AcquireReturns(c) \/ AcquireFails(c) \/ Release(c)
    \/ PortFound \/ PortFails
    \/ \E s \in Servers : BecomesReady(s) \/ StartupTimesOut(s) \/ ProcessEnds(s)
    \/ Shutdown \/ Exit

LEMMA KillIs ==
    ASSUME ServerTypeOK, NEW s \in Servers
    PROVE  /\ Kill(s) \in [Servers -> Processes]
           /\ \A r \in Servers : Kill(s)[r] =
                 IF r = s /\ proc[s] = "up" THEN "killed" ELSE proc[r]
BY DEF ServerTypeOK, Kill, Processes

\* Every step of the composition is a step of the server, or does not touch it.
LEMMA StepOfServer ==
    ASSUME [Next]_vars
    PROVE  ServerNext \/ UNCHANGED serverVars
<1>1. CASE UNCHANGED vars
  BY <1>1 DEF vars
<1>2. ASSUME NEW c \in Requests, Callers(c) \/ ModelsListed(c) PROVE ServerNext
  BY <1>2 DEF Callers, ModelsListed, ServerNext
<1>3. CASE Starts
  BY <1>3 DEF Starts, ServerNext
<1>4. ASSUME NEW s \in Servers, ServerEnds(s) PROVE ServerNext
  BY <1>4 DEF ServerEnds, ServerNext
<1>5. CASE OpenSession \/ Session
  BY <1>5 DEF OpenSession, Session
<1>6. CASE OpenFails \/ CloseSession
  BY <1>6, OwnerAssumption DEF OpenFails, CloseSession, ServerNext
<1>7. CASE ShutdownServer \/ ExitDaemon
  BY <1>7 DEF ShutdownServer, ExitDaemon, ServerNext
<1> QED BY <1>1, <1>2, <1>3, <1>4, <1>5, <1>6, <1>7 DEF Next

\* What the callers do leaves the servers alone.
LEMMA CallerStep ==
    ASSUME ServerInv, UNCHANGED <<current, proc, ready, daemon>>,
           asks' \in [Requests -> Ask], starting' \in BOOLEAN, starting' => starting \/ ~HasCurrent
    PROVE  ServerInv'
<1>1. ServerTypeOK' /\ OnlyCurrentRuns'
  BY DEF ServerInv, ServerTypeOK, OnlyCurrentRuns
<1>2. StartsAlone'
  BY DEF ServerInv, StartsAlone, HasCurrent
<1> QED BY <1>1, <1>2 DEF ServerInv

LEMMA ServerStep ==
    ASSUME ServerInv, ServerNext \/ UNCHANGED serverVars
    PROVE  ServerInv'
<1>0. NoServer \notin Servers /\ NoAsk \in Ask
  BY ServersAssumption DEF Servers, NoAsk, Ask
<1>1. ASSUME NEW c \in Requests, Acquire(c) PROVE ServerInv'
  <2>1. CASE HasCurrent
    <3>1. [step |-> "ready", server |-> current, shared |-> TRUE] \in Ask
      BY DEF ServerInv, ServerTypeOK, Ask
    <3>2. asks' \in [Requests -> Ask]
      BY <1>1, <2>1, <3>1 DEF Acquire, ServerInv, ServerTypeOK
    <3> QED BY <1>1, <2>1, <3>2, CallerStep DEF Acquire, ServerInv, ServerTypeOK
  <2>2. CASE ~HasCurrent
    <3>1. [NoAsk EXCEPT !.step = "port"] \in Ask
      BY <1>0 DEF Ask
    <3>2. asks' \in [Requests -> Ask]
      BY <1>1, <2>2, <3>1 DEF Acquire, ServerInv, ServerTypeOK
    <3> QED BY <1>1, <2>2, <3>2, CallerStep DEF Acquire
  <2> QED BY <2>1, <2>2
<1>2. ASSUME NEW c \in Requests, AcquireReturns(c) PROVE ServerInv'
  <2> DEFINE given == IF asks[c].shared THEN current ELSE asks[c].server
  <2>1. [step |-> "using", server |-> given, shared |-> FALSE] \in Ask
    BY DEF ServerInv, ServerTypeOK, Ask
  <2>2. asks' \in [Requests -> Ask]
    BY <1>0, <1>2, <2>1 DEF AcquireReturns, Answer, ServerInv, ServerTypeOK
  <2> QED BY <1>2, <2>2, CallerStep DEF AcquireReturns, ServerInv, ServerTypeOK
<1>3. ASSUME NEW c \in Requests, AcquireFails(c) \/ Release(c) PROVE ServerInv'
  <2>1. asks' \in [Requests -> Ask]
    BY <1>0, <1>3 DEF AcquireFails, Release, Answer, ServerInv, ServerTypeOK
  <2> QED BY <1>3, <2>1, CallerStep DEF AcquireFails, Release, ServerInv, ServerTypeOK
<1> USE DEF ServerInv, StartsAlone, OnlyCurrentRuns, ServerTypeOK
<1>4. CASE PortFound
  <2>1. PICK s \in Servers : /\ proc[s] = "unused" /\ proc' = [proc EXCEPT ![s] = "up"]
                             /\ current' = s /\ asks' = PortWaiters("ready", s)
    BY <1>4 DEF PortFound
  <2>2. /\ starting = TRUE /\ starting' = FALSE /\ daemon' = daemon /\ daemon # "exited"
        /\ ready' = ready
    BY <1>4 DEF PortFound, ServerTypeOK
  <2>3. asks' \in [Requests -> Ask]
    <3>1. [step |-> "ready", server |-> s, shared |-> FALSE] \in Ask
      BY DEF Ask
    <3> QED BY <2>1, <3>1 DEF PortWaiters
  <2>4. \A r \in Servers : proc[r] # "up"
    BY <1>0, <2>2
  <2> QED BY <2>1, <2>2, <2>3, <2>4 DEF Processes
<1>5. CASE PortFails
  <2>1. [step |-> "idle", server |-> NoServer, shared |-> FALSE] \in Ask
    BY DEF Ask
  <2>2. asks' \in [Requests -> Ask]
    BY <1>5, <2>1 DEF PortFails, PortWaiters
  <2> QED BY <1>5, <2>2, CallerStep DEF PortFails
<1>6. ASSUME NEW s \in Servers, BecomesReady(s) PROVE ServerInv'
  BY <1>6 DEF BecomesReady
<1>7. ASSUME NEW s \in Servers, StartupTimesOut(s) PROVE ServerInv'
  BY <1>7, KillIs DEF StartupTimesOut
<1>8. ASSUME NEW s \in Servers, ProcessEnds(s) PROVE ServerInv'
  BY <1>8 DEF ProcessEnds, Processes
<1>9. CASE Shutdown
  <2>1. CASE current = NoServer
    BY <1>0, <1>9, <2>1 DEF Shutdown
  <2>2. CASE current # NoServer
    BY <1>9, <2>2, KillIs DEF Shutdown
  <2> QED BY <2>1, <2>2
<1>10. CASE Exit
  <2>1. CASE current = NoServer
    BY <1>0, <1>10, <2>1 DEF Exit
  <2>2. CASE current # NoServer
    BY <1>10, <2>2, KillIs DEF Exit
  <2> QED BY <2>1, <2>2
<1>11. CASE UNCHANGED serverVars
  BY <1>11 DEF serverVars
<1> QED BY <1>1, <1>2, <1>3, <1>4, <1>5, <1>6, <1>7, <1>8, <1>9, <1>10, <1>11 DEF ServerNext

LEMMA ServerStarts == Init => ServerInv
<1> SUFFICES ASSUME Init PROVE ServerInv
  OBVIOUS
<1>1. ServerInit
  BY DEF Init
<1>2. NoAsk \in Ask
  BY DEF NoAsk, Ask
<1>3. ServerTypeOK
  BY <1>1, <1>2 DEF ServerInit, ServerTypeOK, Processes
<1>4. OnlyCurrentRuns /\ StartsAlone
  BY <1>1 DEF ServerInit, OnlyCurrentRuns, StartsAlone
<1> QED BY <1>3, <1>4 DEF ServerInv

\* Two callers never start two servers, and whatever was replaced, timed out or
\* was spawned during the shutdown is told to end: only the current server runs,
\* and none outlives the daemon.
THEOREM OnlyCurrentRunsAlways == Spec => []OnlyCurrentRuns
<1>1. ServerInv /\ [Next]_vars => ServerInv'
  BY StepOfServer, ServerStep
<1>2. ServerInv => OnlyCurrentRuns
  BY DEF ServerInv
<1> QED BY <1>1, <1>2, ServerStarts, PTL DEF Spec

-----------------------------------------------------------------------------
(* The session                                                             *)

\* Until startTurn returns its turn is active or being interrupted, or the event
\* that ended it is kept, or close() has dropped the one of its interrupt; and a
\* prompt is awaited only then.
Starting ==
    /\ run.phase = "starting" /\ run.buffer = <<>> =>
          \/ active = run.turn
          \/ run.turn \in aborts
          \/ run.turn \in stopped /\ closing = "done"
    /\ prompting # None => run.phase = "starting" /\ prompting = run.turn

\* A closed session has no active turn.
ClosedIsIdle == closed => active = None

\* A turn that is stopped, aborted or active is the run's or an earlier one; the
\* run's is not settled, and aborted only when it was stopped.
Ran ==
    /\ run # NoRun => outcome[run.turn] = None
    /\ run # NoRun /\ run.turn \in aborts => run.turn \in stopped
    /\ \A t \in Turns :
          t \in stopped \cup aborts \/ t = active => t = run.turn \/ outcome[t] # None

\* A stopped turn is not active, and what is kept first of a turn that is active or
\* stopped is an abort's.
StopsFirst ==
    run # NoRun =>
        /\ run.turn \in stopped => active = None
        /\ run.buffer # <<>> /\ (active # None \/ run.turn \in stopped) =>
              Head(run.buffer).type = "turn_canceled"

RunInv == SameTurn /\ Starting /\ ClosedIsIdle /\ Ran /\ StopsFirst

LEMMA NoneApart == None \notin Turns
BY TurnsAssumption DEF Turns

LEMMA RunShape ==
    ASSUME RunnerTypeOK
    PROVE  /\ run.phase \in {"idle", "starting", "waiting"}
           /\ run.phase = "idle" <=> run = NoRun
           /\ run = NoRun => run.turn = None /\ run.buffer = <<>>
           /\ run # NoRun =>
                /\ run.turn \in Turns /\ run.buffer \in Seq(Event)
                /\ run = [turn |-> run.turn, phase |-> run.phase, buffer |-> run.buffer]
BY DEF RunnerTypeOK, Run, NoRun

LEMMA RunTyped ==
    ASSUME NEW t \in Turns, NEW phase \in {"starting", "waiting"}, NEW b \in Seq(Event)
    PROVE  [turn |-> t, phase |-> phase, buffer |-> b] \in Run
BY DEF Run

LEMMA SettleIs ==
    ASSUME RunnerTypeOK, NEW o \in Outcomes, Settle(o), run # NoRun
    PROVE  /\ RunnerTypeOK' /\ run' = NoRun /\ run'.phase = "idle"
           /\ run'.turn = None /\ run'.buffer = <<>>
           /\ \A t \in Turns : outcome'[t] = IF t = run.turn THEN o ELSE outcome[t]
<1>1. run.turn \in Turns
  BY RunShape
<1> QED BY <1>1 DEF RunnerTypeOK, Settle, Run, NoRun

\* An event reaches nobody, is kept, or settles the run.
LEMMA ObserveIs ==
    ASSUME RunnerTypeOK, NEW e \in Event, Observe(e)
    PROVE  /\ RunnerTypeOK'
           /\ \/ run = NoRun /\ UNCHANGED <<run, outcome>>
              \/ /\ run.phase = "starting" /\ run # NoRun /\ outcome' = outcome
                 /\ run'.phase = "starting" /\ run'.turn = run.turn /\ run' # NoRun
                 /\ run'.buffer # <<>>
                 /\ Head(run'.buffer) = IF run.buffer = <<>> THEN e ELSE Head(run.buffer)
              \/ run.phase = "waiting" /\ run # NoRun /\ Settle(e)
<1>1. CASE run.phase = "idle"
  BY <1>1, RunShape DEF Observe, RunnerTypeOK
<1>2. CASE run.phase = "starting"
  <2>1. run' = [run EXCEPT !.buffer = Append(@, e)] /\ outcome' = outcome
    BY <1>2 DEF Observe
  <2>2. /\ run # NoRun /\ run.turn \in Turns /\ run.buffer \in Seq(Event)
        /\ run = [turn |-> run.turn, phase |-> run.phase, buffer |-> run.buffer]
    BY <1>2, RunShape
  <2>3. run' = [turn |-> run.turn, phase |-> "starting", buffer |-> Append(run.buffer, e)]
    BY <1>2, <2>1, <2>2
  <2>4. /\ Append(run.buffer, e) \in Seq(Event) /\ Append(run.buffer, e) # <<>>
        /\ Head(Append(run.buffer, e)) = IF run.buffer = <<>> THEN e ELSE Head(run.buffer)
    <3>1. CASE run.buffer = <<>>
      BY <3>1
    <3>2. CASE run.buffer # <<>>
      BY <2>2, <3>2
    <3> QED BY <3>1, <3>2
  <2>5. run' \in Run /\ run' # NoRun
    BY <2>2, <2>3, <2>4, RunTyped DEF NoRun
  <2> QED BY <1>2, <2>1, <2>2, <2>3, <2>4, <2>5 DEF RunnerTypeOK
<1>3. CASE run.phase = "waiting"
  <2>1. Settle(e) /\ run # NoRun
    BY <1>3 DEF Observe, NoRun
  <2> QED BY <1>3, <2>1, SettleIs DEF Outcomes
<1> QED BY <1>1, <1>2, <1>3, RunShape

\* A settled run leaves its turn to the past.
LEMMA SettledRan ==
    ASSUME TypeOK, RunInv, run # NoRun, NEW o \in Event \cup {Rejected}, Settle(o),
           active' \in {active, None}, aborts' \subseteq aborts, stopped' = stopped,
           prompting' = None \/ (prompting' = prompting /\ run.phase = "waiting"),
           closing' = closing \/ active' = None
    PROVE  RunnerTypeOK' /\ RunInv'
<1>1. /\ RunnerTypeOK' /\ run' = NoRun /\ run'.phase = "idle" /\ run'.turn = None
      /\ \A t \in Turns : outcome'[t] = IF t = run.turn THEN o ELSE outcome[t]
  BY SettleIs DEF TypeOK, TurnTypeOK, Outcomes
<1>2. o # None
  BY NoneAssumption
<1>3. SameTurn' /\ Starting' /\ ClosedIsIdle' /\ StopsFirst'
  BY <1>1 DEF RunInv, SameTurn, Starting, ClosedIsIdle, StopsFirst, closed
<1>4. Ran'
  BY <1>1, <1>2, NoneApart DEF RunInv, Ran, TypeOK, TurnTypeOK
<1> QED BY <1>1, <1>3, <1>4 DEF RunInv

\* A step that hands an event on: of an abort, or one that ends the active turn.
LEMMA EventStep ==
    ASSUME TypeOK, RunInv, NEW type \in {"turn_completed", "turn_failed", "turn_canceled"},
           NEW t \in Turns \cup {None}, Emit(type, t), closing # "done",
           active' \in {active, None}, aborts' \subseteq aborts,
           UNCHANGED <<prompting, stopped>>,
           type = "turn_canceled" \/ (active # None /\ active' = None),
           closing' = closing \/ active' = None
    PROVE  RunnerTypeOK' /\ RunInv'
<1> DEFINE e == [type |-> type, turn |-> t]
<1>1. Observe(e) /\ e \in Event /\ e.type = type
  BY DEF Emit, Event
<1> HIDE DEF e
<1>2. RunnerTypeOK /\ RunnerTypeOK'
  BY <1>1, ObserveIs DEF TypeOK, TurnTypeOK
<1>3. CASE run = NoRun /\ UNCHANGED <<run, outcome>>
  <2>1. run.phase = "idle"
    BY <1>3 DEF NoRun
  <2> QED BY <1>2, <1>3, <2>1, NoneApart
          DEF RunInv, SameTurn, Starting, ClosedIsIdle, Ran, StopsFirst, closed, TypeOK,
              TurnTypeOK
<1>4. CASE /\ run.phase = "starting" /\ run # NoRun /\ outcome' = outcome
           /\ run'.phase = "starting" /\ run'.turn = run.turn /\ run' # NoRun
           /\ run'.buffer # <<>>
           /\ Head(run'.buffer) = IF run.buffer = <<>> THEN e ELSE Head(run.buffer)
  <2>1. SameTurn' /\ Starting' /\ ClosedIsIdle'
    BY <1>4 DEF RunInv, SameTurn, Starting, ClosedIsIdle, closed
  <2>2. Ran'
    BY <1>4, NoneApart DEF RunInv, Ran
  <2>3. StopsFirst'
    <3>1. run'.turn \in stopped' => active' = None
      BY <1>4 DEF RunInv, StopsFirst
    <3>2. ASSUME active' # None \/ run'.turn \in stopped'
          PROVE  Head(run'.buffer).type = "turn_canceled"
      <4>1. active # None \/ run.turn \in stopped
        BY <1>4, <3>2
      <4>2. CASE run.buffer = <<>>
        <5>1. type = "turn_canceled"
          BY <1>4, <3>2 DEF RunInv, StopsFirst
        <5> QED BY <1>1, <1>4, <4>2, <5>1
      <4>3. CASE run.buffer # <<>>
        BY <1>4, <4>1, <4>3 DEF RunInv, StopsFirst
      <4> QED BY <4>2, <4>3
    <3> QED BY <3>1, <3>2 DEF StopsFirst
  <2> QED BY <1>2, <2>1, <2>2, <2>3 DEF RunInv
<1>5. CASE run.phase = "waiting" /\ run # NoRun /\ Settle(e)
  BY <1>1, <1>5, SettledRan
<1> QED BY <1>1, <1>2, <1>3, <1>4, <1>5, ObserveIs

\* A step that tells run() nothing, the end of an abort on a closed session too.
LEMMA StillStep ==
    ASSUME TypeOK, RunInv, UNCHANGED <<run, outcome, active, prompting, stopped>>,
           aborts' = aborts \/ (closing = "done" /\ aborts' \subseteq aborts),
           closing' = closing \/ (closing = "draining" /\ closing' = "done")
    PROVE  RunnerTypeOK' /\ RunInv'
<1>1. RunnerTypeOK' /\ run.phase = "waiting" => run # NoRun
  BY DEF TypeOK, TurnTypeOK, RunnerTypeOK, NoRun
<1>2. run.phase = "starting" => run # NoRun
  BY DEF NoRun
<1>3. RunnerTypeOK'
  BY DEF TypeOK, TurnTypeOK, RunnerTypeOK
<1>4. SameTurn'
  BY <1>1, <1>3 DEF RunInv, SameTurn, Ran
<1>5. Starting'
  BY <1>2 DEF RunInv, Starting, Ran
<1>6. ClosedIsIdle' /\ Ran' /\ StopsFirst'
  BY DEF RunInv, ClosedIsIdle, Ran, StopsFirst, closed
<1> QED BY <1>3, <1>4, <1>5, <1>6 DEF RunInv

LEMMA StartTurnStep ==
    ASSUME TypeOK, RunInv, NEW t \in Turns, StartTurn(t)
    PROVE  RunnerTypeOK' /\ RunInv'
<1>1. /\ run' = [turn |-> t, phase |-> "starting", buffer |-> <<>>] /\ outcome' = outcome
      /\ active' = t /\ prompting' = t /\ UNCHANGED <<aborts, closing, stopped>> /\ ~closed
      /\ outcome[t] = None /\ run.phase = "idle"
  BY DEF StartTurn, StartRun, IsNext
<1>2. run'.phase = "starting" /\ run'.turn = t /\ run'.buffer = <<>>
  BY <1>1
<1>3. run' \in Run
  <2>1. <<>> \in Seq(Event)
    OBVIOUS
  <2> QED BY <1>1, <2>1, RunTyped
<1>4. RunnerTypeOK'
  BY <1>1, <1>3 DEF TypeOK, TurnTypeOK, RunnerTypeOK
<1>5. t \notin stopped /\ t \notin aborts
  <2>1. run.turn = None
    BY <1>1, RunShape DEF TypeOK, TurnTypeOK
  <2> QED BY <1>1, <2>1, NoneApart DEF RunInv, Ran
<1>6. SameTurn' /\ Starting' /\ ClosedIsIdle' /\ StopsFirst'
  BY <1>1, <1>2, <1>5 DEF RunInv, SameTurn, Starting, ClosedIsIdle, StopsFirst, closed
<1>7. Ran'
  <2>1. run.turn = None
    BY <1>1, RunShape DEF TypeOK, TurnTypeOK
  <2> QED BY <1>1, <1>2, <1>5, <2>1, NoneApart DEF RunInv, Ran
<1> QED BY <1>4, <1>6, <1>7 DEF RunInv

\* promptAsync has been answered and nothing was kept: the run waits.
LEMMA WaitStep ==
    ASSUME TypeOK, RunInv, run.phase = "starting", run.buffer = <<>>, UNCHANGED outcome,
           run' = [run EXCEPT !.phase = "waiting"], prompting' = None,
           UNCHANGED <<aborts, closing, stopped>>,
           \/ active' = active
           \/ active' = None /\ active # run.turn
    PROVE  RunnerTypeOK' /\ RunInv'
<1>1. /\ run # NoRun /\ run.turn \in Turns
      /\ run = [turn |-> run.turn, phase |-> run.phase, buffer |-> run.buffer]
  BY RunShape DEF TypeOK, TurnTypeOK
<1>2. run' = [turn |-> run.turn, phase |-> "waiting", buffer |-> <<>>]
  BY <1>1
<1>3. run'.phase = "waiting" /\ run'.turn = run.turn /\ run'.buffer = <<>>
  BY <1>2
<1>4. run' \in Run
  <2>1. <<>> \in Seq(Event)
    OBVIOUS
  <2> QED BY <1>1, <1>2, <2>1, RunTyped
<1>5. RunnerTypeOK'
  BY <1>4 DEF TypeOK, TurnTypeOK, RunnerTypeOK
<1>6. active = run.turn \/ run.turn \in aborts \/ (run.turn \in stopped /\ closing = "done")
  BY DEF RunInv, Starting
<1>7. active # None => active = run.turn
  BY <1>1 DEF RunInv, SameTurn
<1>8. SameTurn' /\ Starting' /\ ClosedIsIdle'
  BY <1>1, <1>3, <1>6, <1>7 DEF RunInv, SameTurn, Starting, ClosedIsIdle, closed
<1>9. Ran' /\ StopsFirst'
  BY <1>1, <1>3, NoneApart DEF RunInv, Ran, StopsFirst, TypeOK, TurnTypeOK
<1> QED BY <1>5, <1>8, <1>9 DEF RunInv

LEMMA PromptStep ==
    ASSUME TypeOK, RunInv, PromptAccepted \/ PromptRefused \/ PromptThrows
    PROVE  RunnerTypeOK' /\ RunInv'
<1>1. /\ prompting # None /\ prompting' = None /\ UNCHANGED <<aborts, closing, stopped>>
      /\ active' \in {active, None}
  BY NoneApart DEF PromptAccepted, PromptRefused, PromptThrows, TypeOK, TurnTypeOK
<1>2. run.phase = "starting" /\ run # NoRun
  BY <1>1 DEF RunInv, Starting, NoRun
<1>3. run.buffer \in Seq(Event) /\ run.turn \in Turns
  BY <1>2, RunShape DEF TypeOK, TurnTypeOK
<1>4. CASE PromptAccepted
  <2>1. active' = active
    BY <1>4 DEF PromptAccepted
  <2>2. CASE run.buffer = <<>>
    BY <1>1, <1>2, <1>4, <2>1, <2>2, WaitStep DEF PromptAccepted, StartTurnReturns
  <2>3. CASE run.buffer # <<>>
    <3>1. Head(run.buffer) \in Event
      BY <1>3, <2>3
    <3> QED BY <1>1, <1>2, <1>4, <2>3, <3>1, SettledRan DEF PromptAccepted, StartTurnReturns
  <2> QED BY <2>2, <2>3
<1>5. CASE PromptRefused
  <2> DEFINE failed == [type |-> "turn_failed", turn |-> prompting]
             kept == IF active # None THEN Append(run.buffer, failed) ELSE run.buffer
  <2>1. /\ active' = None
        /\ IF kept = <<>> THEN run' = [run EXCEPT !.phase = "waiting"] /\ UNCHANGED outcome
                          ELSE Settle(Head(kept))
    BY <1>5 DEF PromptRefused
  <2>2. failed \in Event
    BY <1>1 DEF TypeOK, TurnTypeOK, Event
  <2>3. kept \in Seq(Event)
    BY <1>3, <2>2
  <2>4. CASE kept = <<>>
    <3>1. active = None /\ run.buffer = <<>>
      BY <1>3, <2>2, <2>4
    <3>2. active # run.turn
      BY <3>1, <1>3, NoneApart
    <3> QED BY <1>1, <1>2, <2>1, <2>4, <3>1, <3>2, WaitStep
  <2>5. CASE kept # <<>>
    <3>1. Head(kept) \in Event
      BY <2>3, <2>5
    <3> QED BY <1>1, <1>2, <2>1, <2>5, <3>1, SettledRan
  <2> QED BY <2>4, <2>5
<1>6. CASE PromptThrows
  BY <1>1, <1>2, <1>6, SettledRan DEF PromptThrows, StartTurnFails
<1> QED BY <1>4, <1>5, <1>6

LEMMA InterruptStep ==
    ASSUME TypeOK, RunInv, Interrupt
    PROVE  RunnerTypeOK' /\ RunInv'
<1>1. /\ ~closed /\ active \in Turns /\ active' = None /\ aborts' = aborts \cup {active}
      /\ stopped' = stopped \cup {t \in Turns : t = active /\ t = run.turn}
      /\ UNCHANGED <<run, outcome, prompting, closing>>
  BY DEF Interrupt, TypeOK, TurnTypeOK
<1>2. RunnerTypeOK'
  BY <1>1 DEF TypeOK, TurnTypeOK, RunnerTypeOK
<1>3. run # NoRun => active = run.turn
  BY <1>1, NoneApart DEF RunInv, SameTurn
<1>4. /\ run = NoRun => run.turn = None /\ run.phase = "idle" /\ stopped' = stopped
      /\ run # NoRun => stopped' = stopped \cup {run.turn}
  BY <1>1, <1>3, NoneApart DEF NoRun
<1>5. SameTurn' /\ Starting' /\ ClosedIsIdle'
  BY <1>1, <1>3, <1>4 DEF RunInv, SameTurn, Starting, ClosedIsIdle, closed
<1>6. Ran'
  BY <1>1, <1>3, <1>4, NoneApart DEF RunInv, Ran
<1>7. StopsFirst'
  BY <1>1, <1>3, <1>4, NoneApart DEF RunInv, StopsFirst
<1> QED BY <1>2, <1>5, <1>6, <1>7 DEF RunInv

LEMMA AbortReturnsStep ==
    ASSUME TypeOK, RunInv, NEW t \in aborts, AbortReturns(t)
    PROVE  RunnerTypeOK' /\ RunInv'
<1>1. /\ t \in Turns /\ aborts' \subseteq aborts /\ Emit("turn_canceled", t)
      /\ UNCHANGED <<active, prompting, closing, stopped>>
  BY DEF AbortReturns, TypeOK, TurnTypeOK
<1>2. CASE closing # "done"
  BY <1>1, <1>2, EventStep
<1>3. CASE closing = "done"
  BY <1>1, <1>3, StillStep DEF Emit
<1> QED BY <1>2, <1>3

LEMMA CloseStep ==
    ASSUME TypeOK, RunInv, Close
    PROVE  RunnerTypeOK' /\ RunInv'
<1>1. /\ closing = "no" /\ active' = None /\ closing' = "draining"
      /\ UNCHANGED <<prompting, aborts, stopped>>
  BY DEF Close, closed
<1>2. CASE active # None
  <2>1. Emit("turn_canceled", active) /\ active \in Turns
    BY <1>2 DEF Close, TypeOK, TurnTypeOK
  <2> QED BY <1>1, <2>1, EventStep
<1>3. CASE active = None
  <2>1. UNCHANGED <<run, outcome>>
    BY <1>3 DEF Close
  <2>2. RunnerTypeOK'
    BY <2>1 DEF TypeOK, TurnTypeOK, RunnerTypeOK
  <2>3. SameTurn' /\ Starting' /\ ClosedIsIdle' /\ Ran' /\ StopsFirst'
    BY <1>1, <1>3, <2>1
       DEF RunInv, SameTurn, Starting, ClosedIsIdle, Ran, StopsFirst, closed
  <2> QED BY <2>2, <2>3 DEF RunInv
<1> QED BY <1>2, <1>3

\* The events of the server and the end of the stream.
LEMMA ServerEventStep ==
    ASSUME TypeOK, RunInv, SessionIdle \/ SessionError \/ UnnamedError \/ StreamFails
    PROVE  RunnerTypeOK' /\ RunInv'
<1>1. UNCHANGED <<prompting, aborts, closing, stopped>>
  BY DEF SessionIdle, SessionError, UnnamedError, StreamFails, Handles, StreamGone
<1>2. CASE active # None
  <2>1. ~closed /\ closing # "done" /\ active \in Turns
    BY <1>2 DEF RunInv, ClosedIsIdle, closed, TypeOK, TurnTypeOK
  <2>2. active' = None
    BY <1>2, <2>1 DEF SessionIdle, SessionError, UnnamedError, StreamFails
  <2>3. \E type \in {"turn_completed", "turn_failed"}, t \in Turns : Emit(type, t)
    <3>1. CASE SessionIdle \/ SessionError
      <4>1. Head(events) \in StreamEvent
        BY <3>1 DEF SessionIdle, SessionError, Handles, TypeOK, TurnTypeOK
      <4> QED BY <1>2, <3>1, <4>1 DEF SessionIdle, SessionError, StreamEvent
    <3>2. CASE UnnamedError \/ StreamFails
      BY <1>2, <2>1, <3>2 DEF UnnamedError, StreamFails
    <3> QED BY <3>1, <3>2
  <2> QED BY <1>1, <1>2, <2>1, <2>2, <2>3, EventStep
<1>3. CASE active = None
  <2>1. UNCHANGED <<run, outcome, active>>
    BY <1>3 DEF SessionIdle, SessionError, UnnamedError, StreamFails
  <2> QED BY <1>1, <2>1, StillStep
<1> QED BY <1>2, <1>3

\* What the runner's state and the flags do not show.
LEMMA RestTyped ==
    ASSUME TypeOK, [Next]_vars
    PROVE  /\ active' \in Turns \cup {None} /\ prompting' \in Turns \cup {None}
           /\ aborts' \subseteq Turns /\ stream' \in {"up", "ended"}
           /\ closing' \in {"no", "draining", "done"} /\ stopped' \subseteq Turns
           /\ taken' \in BOOLEAN /\ crowded' \subseteq Turns
           /\ working' \in Turns \cup {None}
           /\ events' \in Seq(StreamEvent) /\ opened' \in BOOLEAN
<1> USE DEF TypeOK, TurnTypeOK
<1> DEFINE Rest ==
      /\ active \in Turns \cup {None} /\ prompting \in Turns \cup {None}
      /\ aborts \subseteq Turns /\ stream \in {"up", "ended"}
      /\ closing \in {"no", "draining", "done"} /\ stopped \subseteq Turns
      /\ taken \in BOOLEAN /\ crowded \subseteq Turns /\ working \in Turns \cup {None}
      /\ events \in Seq(StreamEvent) /\ opened \in BOOLEAN
<1>1. CASE Session
  <2>0. opened' = opened
    BY <1>1 DEF Session
  <2>1. ASSUME NEW t \in Turns, StartTurn(t) \/ StartTurnThrows(t) PROVE Rest'
    BY <2>0, <2>1 DEF StartTurn, StartTurnThrows
  <2>2. CASE PromptAccepted \/ PromptRefused \/ PromptThrows
    BY <2>0, <2>2 DEF PromptAccepted, PromptRefused, PromptThrows
  <2>3. CASE Interrupt \/ Close
    BY <2>0, <2>3 DEF Interrupt, Close
  <2>4. ASSUME NEW t \in aborts, AbortReturns(t) PROVE Rest'
    BY <2>0, <2>4 DEF AbortReturns
  <2>5. CASE AgentTakes(Up)
    BY <2>0, <2>5 DEF AgentTakes
  <2>6. CASE AgentStops(Up)
    <3> DEFINE idle == [type |-> "idle", turn |-> working]
               error == [type |-> "error", turn |-> working]
    <3>1. idle \in StreamEvent /\ error \in StreamEvent
      BY <2>6 DEF AgentStops, StreamEvent
    <3>2. <<idle>> \in Seq(StreamEvent) /\ <<error, idle>> \in Seq(StreamEvent)
      BY <3>1
    <3>3. PICK ending \in {<<idle>>, <<error, idle>>} :
             events' = IF stream = "up" THEN events \o ending ELSE events
      BY <2>6, Zenon DEF AgentStops
    <3>4. ending \in Seq(StreamEvent)
      BY <3>2, <3>3
    <3>5. events' \in Seq(StreamEvent)
      BY <3>3, <3>4
    <3> QED BY <2>0, <2>6, <3>5 DEF AgentStops
  <2>7. CASE SessionIdle \/ SessionError
    <3>1. events # <<>> /\ events' = Tail(events)
      BY <2>7 DEF SessionIdle, SessionError, Handles
    <3>2. events' \in Seq(StreamEvent)
      BY <3>1
    <3> QED BY <2>0, <2>7, <3>2 DEF SessionIdle, SessionError, Handles
  <2>8. CASE UnnamedError
    BY <2>0, <2>8 DEF UnnamedError
  <2>9. CASE StreamEnds \/ StreamFails
    <3>1. <<>> \in Seq(StreamEvent) /\ events' = <<>>
      BY <2>9 DEF StreamEnds, StreamFails, StreamGone
    <3>2. events' \in Seq(StreamEvent)
      BY <3>1
    <3> QED BY <2>0, <2>9, <3>2 DEF StreamEnds, StreamFails, StreamGone
  <2> QED BY <1>1, <2>1, <2>2, <2>3, <2>4, <2>5, <2>6, <2>7, <2>8, <2>9 DEF Session
<1>2. CASE CloseSession
  BY <1>2 DEF CloseSession, CloseReturns
<1>3. ASSUME NEW s \in Servers, ServerEnds(s) PROVE Rest'
  BY <1>3 DEF ServerEnds
<1>4. CASE OpenSession
  BY <1>4 DEF OpenSession, turnVars
<1>5. CASE \/ \E c \in Requests : Callers(c) \/ ModelsListed(c)
           \/ Starts \/ OpenFails \/ ShutdownServer \/ ExitDaemon
  BY <1>5 DEF Callers, ModelsListed, Starts, OpenFails, ShutdownServer, ExitDaemon, turnVars
<1>6. CASE UNCHANGED vars
  BY <1>6 DEF vars, turnVars
<1> QED BY <1>1, <1>2, <1>3, <1>4, <1>5, <1>6 DEF Next

LEMMA SessionStep ==
    ASSUME TypeOK, RunInv, [Next]_vars
    PROVE  RunnerTypeOK' /\ RunInv'
<1>1. CASE Session
  <2>1. ASSUME NEW t \in Turns, StartTurn(t) PROVE RunnerTypeOK' /\ RunInv'
    BY <2>1, StartTurnStep
  <2>2. ASSUME NEW t \in Turns, StartTurnThrows(t) PROVE RunnerTypeOK' /\ RunInv'
    <3>1. /\ UNCHANGED <<run, active, prompting, aborts, closing, stopped>>
          /\ outcome' = [outcome EXCEPT ![t] = Rejected] /\ run = NoRun
      BY <2>2, RunShape DEF StartTurnThrows, TypeOK, TurnTypeOK
    <3>2. RunnerTypeOK'
      BY <3>1 DEF TypeOK, TurnTypeOK, RunnerTypeOK, Outcomes
    <3>3. \A u \in Turns : outcome[u] # None => outcome'[u] # None
      BY <3>1, NoneAssumption DEF TypeOK, TurnTypeOK, RunnerTypeOK
    <3> QED BY <3>1, <3>2, <3>3
            DEF RunInv, SameTurn, Starting, ClosedIsIdle, Ran, StopsFirst, closed
  <2>3. CASE PromptAccepted \/ PromptRefused \/ PromptThrows
    BY <2>3, PromptStep
  <2>4. CASE Interrupt
    BY <2>4, InterruptStep
  <2>5. ASSUME NEW t \in aborts, AbortReturns(t) PROVE RunnerTypeOK' /\ RunInv'
    BY <2>5, AbortReturnsStep
  <2>6. CASE Close
    BY <2>6, CloseStep
  <2>7. CASE AgentTakes(Up) \/ AgentStops(Up) \/ StreamEnds
    <3>1. UNCHANGED <<run, outcome, active, prompting, aborts, closing, stopped>>
      BY <2>7 DEF AgentTakes, AgentStops, StreamEnds, StreamGone
    <3> QED BY <3>1, StillStep
  <2>8. CASE SessionIdle \/ SessionError \/ UnnamedError \/ StreamFails
    BY <2>8, ServerEventStep
  <2> QED BY <1>1, <2>1, <2>2, <2>3, <2>4, <2>5, <2>6, <2>7, <2>8 DEF Session
<1>2. CASE CloseSession
  <2>1. /\ UNCHANGED <<run, outcome, active, prompting, aborts, stopped>>
        /\ closing = "draining" /\ closing' = "done"
    BY <1>2 DEF CloseSession, CloseReturns
  <2> QED BY <2>1, StillStep
<1>3. CASE \/ \E c \in Requests : Callers(c) \/ ModelsListed(c)
           \/ \E s \in Servers : ServerEnds(s)
           \/ Starts \/ OpenSession \/ OpenFails \/ ShutdownServer \/ ExitDaemon
           \/ UNCHANGED vars
  <2>1. UNCHANGED <<run, outcome, active, prompting, aborts, closing, stopped>>
    BY <1>3 DEF Callers, ModelsListed, ServerEnds, Starts, OpenSession, OpenFails,
                ShutdownServer, ExitDaemon, turnVars, vars
  <2> QED BY <2>1, StillStep
<1> QED BY <1>1, <1>2, <1>3 DEF Next

LEMMA SessionStarts == Init => TypeOK /\ RunInv
<1> SUFFICES ASSUME Init PROVE TypeOK /\ RunInv
  OBVIOUS
<1>1. /\ run = NoRun /\ run.phase = "idle" /\ outcome = [t \in Turns |-> None]
      /\ active = None /\ prompting = None /\ aborts = {} /\ closing = "no" /\ stopped = {}
  BY DEF Init, TurnInit, RunnerInit, NoRun
<1>2. TurnTypeOK
  <2>1. RunnerTypeOK
    BY <1>1 DEF RunnerTypeOK, Run, Outcomes
  <2>2. stream = "up" /\ crowded = {} /\ taken = FALSE /\ working = None /\ events = <<>>
    BY DEF Init, TurnInit
  <2>3. <<>> \in Seq(StreamEvent)
    OBVIOUS
  <2> QED BY <1>1, <2>1, <2>2, <2>3 DEF TurnTypeOK
<1>3. TypeOK
  BY <1>2, ServerStarts DEF TypeOK, ServerInv, Init
<1>4. RunInv
  BY <1>1, NoneApart DEF RunInv, SameTurn, Starting, ClosedIsIdle, Ran, StopsFirst, closed
<1> QED BY <1>3, <1>4

LEMMA OpencodeInv == Spec => [](TypeOK /\ RunInv)
<1>1. TypeOK /\ RunInv /\ ServerInv /\ [Next]_vars => (TypeOK /\ RunInv /\ ServerInv)'
  BY SessionStep, RestTyped, StepOfServer, ServerStep DEF TypeOK, TurnTypeOK, ServerInv
<1> QED BY <1>1, SessionStarts, ServerStarts, PTL DEF Spec

\* The state of the server and of a session on it keeps its type, whatever the
\* callers, the processes and the event stream do: no event of the server
\* reaches run() untranslated.
THEOREM TypeCorrect == Spec => []TypeOK
BY OpencodeInv, PTL

\* The session and the run agree on the turn, however the answers to the
\* requests, the events, the aborts and the end of the stream cross each other
\* and those of earlier turns; and only a close() that overtook the abort of its
\* turn leaves a run whose turn is neither active nor being interrupted.
THEOREM SameTurnAlways == Spec => []SameTurn
<1>1. RunInv => SameTurn
  BY DEF RunInv
<1> QED BY <1>1, OpencodeInv, PTL

-----------------------------------------------------------------------------
(* What the server does while a turn runs is about that turn, unless it    *)
(* began while something of an earlier one was under way                   *)

\* What ended a turn is about it, and canceled it only if it was stopped or the
\* session closed.
Own(t, event) ==
    /\ event.turn = t
    /\ event.type = "turn_canceled" => closed \/ t \in stopped

OwnOutcome == \A t \in Turns \ crowded : outcome[t] \in Event => Own(t, outcome[t])

EventsOf(t) == [type : {"idle", "error"}, turn : {t}]

\* While a turn that is not crowded runs, the server does nothing about another one
\* and nothing of another one is still to be heard, and what is kept first ended it.
ServedAlone ==
    run # NoRun /\ run.turn \notin crowded =>
        /\ working \in {run.turn, None}
        /\ aborts \subseteq {run.turn}
        /\ events \in Seq(EventsOf(run.turn))
        /\ run.buffer # <<>> => Own(run.turn, Head(run.buffer))

OwnInv == OwnOutcome /\ ServedAlone

LEMMA OwnStarts ==
    ASSUME Init
    PROVE  OwnInv
<1>1. /\ run = NoRun /\ \A t \in Turns : outcome[t] = None
  BY DEF Init, TurnInit, RunnerInit
<1> QED BY <1>1, NoneAssumption DEF OwnInv, OwnOutcome, ServedAlone

LEMMA OwnSettles ==
    ASSUME TypeOK, OwnInv, run # NoRun, NEW e \in Event \cup {Rejected}, Settle(e),
           run.turn \notin crowded /\ e \in Event =>
              /\ e.turn = run.turn
              /\ e.type = "turn_canceled" => closed' \/ run.turn \in stopped,
           UNCHANGED <<stopped, crowded>>, closed => closed'
    PROVE  OwnInv'
<1>1. /\ run' = NoRun
      /\ \A t \in Turns : outcome'[t] = IF t = run.turn THEN e ELSE outcome[t]
  BY SettleIs DEF TypeOK, TurnTypeOK, Outcomes
<1>2. OwnOutcome'
  BY <1>1 DEF OwnInv, OwnOutcome, Own
<1>3. ServedAlone'
  BY <1>1 DEF ServedAlone
<1> QED BY <1>2, <1>3 DEF OwnInv

LEMMA OwnStill ==
    ASSUME OwnInv, UNCHANGED <<run, outcome, crowded>>, stopped \subseteq stopped',
           closed => closed', aborts' \subseteq aborts \cup {run.turn},
           run # NoRun /\ run.turn \notin crowded =>
              working' \in {run.turn, None} /\ events' \in Seq(EventsOf(run.turn))
    PROVE  OwnInv'
<1>1. OwnOutcome'
  BY DEF OwnInv, OwnOutcome, Own
<1>2. ServedAlone'
  BY DEF OwnInv, ServedAlone, Own
<1> QED BY <1>1, <1>2 DEF OwnInv

\* An event ends the active turn, or the abort of the one that was.
LEMMA OwnEmits ==
    ASSUME TypeOK, OwnInv, NEW type \in {"turn_completed", "turn_failed", "turn_canceled"},
           NEW t \in Turns, Emit(type, t), closing # "done",
           UNCHANGED <<working, stopped, crowded>>, closed => closed', aborts' \subseteq aborts,
           run # NoRun /\ run.turn \notin crowded =>
              /\ t = run.turn
              /\ type = "turn_canceled" => closed' \/ run.turn \in stopped
              /\ events' \in Seq(EventsOf(run.turn))
    PROVE  OwnInv'
<1> DEFINE e == [type |-> type, turn |-> t]
<1>1. e \in Event /\ Observe(e) /\ e.turn = t /\ e.type = type
  BY DEF Emit, Event
<1> HIDE DEF e
<1>2. CASE run = NoRun /\ UNCHANGED <<run, outcome>>
  <2>1. OwnOutcome'
    BY <1>2 DEF OwnInv, OwnOutcome, Own
  <2>2. ServedAlone'
    BY <1>2 DEF ServedAlone
  <2> QED BY <2>1, <2>2 DEF OwnInv
<1>3. CASE /\ run.phase = "starting" /\ run # NoRun /\ outcome' = outcome
           /\ run'.phase = "starting" /\ run'.turn = run.turn /\ run' # NoRun
           /\ run'.buffer # <<>>
           /\ Head(run'.buffer) = IF run.buffer = <<>> THEN e ELSE Head(run.buffer)
  <2>1. OwnOutcome'
    BY <1>3 DEF OwnInv, OwnOutcome, Own
  <2>2. ASSUME run.turn \notin crowded
        PROVE  /\ Head(run'.buffer).turn = run.turn
               /\ Head(run'.buffer).type = "turn_canceled" => closed' \/ run.turn \in stopped
    <3>1. CASE run.buffer = <<>>
      BY <1>1, <1>3, <2>2, <3>1
    <3>2. CASE run.buffer # <<>>
      BY <1>3, <2>2, <3>2 DEF OwnInv, ServedAlone, Own
    <3> QED BY <3>1, <3>2
  <2>3. ServedAlone'
    BY <1>3, <2>2 DEF OwnInv, ServedAlone, Own
  <2> QED BY <2>1, <2>3 DEF OwnInv
<1>4. CASE run.phase = "waiting" /\ run # NoRun /\ Settle(e)
  BY <1>1, <1>4, OwnSettles
<1> QED BY <1>1, <1>2, <1>3, <1>4, ObserveIs DEF TypeOK, TurnTypeOK

LEMMA OwnStartTurn ==
    ASSUME TypeOK, OwnInv, NEW t \in Turns, StartTurn(t)
    PROVE  OwnInv'
<1>1. /\ run' = [turn |-> t, phase |-> "starting", buffer |-> <<>>]
      /\ UNCHANGED <<outcome, working, events, aborts, stopped, closing>>
      /\ crowded' = IF Quiet THEN crowded ELSE crowded \cup {t}
  BY DEF StartTurn, StartRun
<1>2. run'.turn = t /\ run'.buffer = <<>>
  BY <1>1
<1>3. OwnOutcome'
  BY <1>1 DEF OwnInv, OwnOutcome, Own, closed
<1>4. ServedAlone'
  <2>1. t \notin crowded' => working = None /\ events = <<>> /\ aborts = {}
    BY <1>1 DEF Quiet
  <2>2. <<>> \in Seq(EventsOf(t))
    OBVIOUS
  <2> QED BY <1>1, <1>2, <2>1, <2>2 DEF ServedAlone
<1> QED BY <1>3, <1>4 DEF OwnInv

LEMMA OwnPrompt ==
    ASSUME TypeOK, RunInv, OwnInv, PromptAccepted \/ PromptRefused \/ PromptThrows
    PROVE  OwnInv'
<1>1. /\ prompting # None /\ UNCHANGED <<working, events, aborts, stopped, crowded, closing>>
  BY DEF PromptAccepted, PromptRefused, PromptThrows
<1>2. /\ run.phase = "starting" /\ run # NoRun /\ prompting = run.turn /\ run.turn \in Turns
      /\ run.buffer \in Seq(Event)
      /\ run = [turn |-> run.turn, phase |-> run.phase, buffer |-> run.buffer]
  <2>1. run.phase = "starting" /\ prompting = run.turn
    BY <1>1 DEF RunInv, Starting
  <2>2. run # NoRun
    BY <2>1 DEF NoRun
  <2> QED BY <2>1, <2>2, RunShape DEF TypeOK, TurnTypeOK
<1>3. ASSUME run' = [run EXCEPT !.phase = "waiting"], outcome' = outcome, run.buffer = <<>>
      PROVE  OwnInv'
  <2>1. run' = [turn |-> run.turn, phase |-> "waiting", buffer |-> <<>>]
    BY <1>2, <1>3
  <2>2. run'.turn = run.turn /\ run'.buffer = <<>>
    BY <2>1
  <2>3. OwnOutcome'
    BY <1>1, <1>3 DEF OwnInv, OwnOutcome, Own, closed
  <2>4. ServedAlone'
    BY <1>1, <1>2, <2>2 DEF OwnInv, ServedAlone
  <2> QED BY <2>3, <2>4 DEF OwnInv
<1>4. ASSUME run.buffer # <<>>, Settle(Head(run.buffer)) PROVE OwnInv'
  <2>1. Head(run.buffer) \in Event
    BY <1>2, <1>4
  <2>2. /\ run.turn \notin crowded => Own(run.turn, Head(run.buffer))
        /\ closed' = closed
    BY <1>1, <1>2, <1>4 DEF OwnInv, ServedAlone, closed
  <2> QED BY <1>1, <1>2, <1>4, <2>1, <2>2, OwnSettles DEF Own
<1>5. CASE PromptAccepted
  BY <1>3, <1>4, <1>5 DEF PromptAccepted, StartTurnReturns
<1>6. CASE PromptRefused
  <2> DEFINE e == [type |-> "turn_failed", turn |-> prompting]
             kept == IF active # None THEN Append(run.buffer, e) ELSE run.buffer
  <2>1. IF kept = <<>> THEN run' = [run EXCEPT !.phase = "waiting"] /\ UNCHANGED outcome
                       ELSE Settle(Head(kept))
    BY <1>6 DEF PromptRefused
  <2>2. /\ e \in Event \cup {Rejected} /\ e.turn = run.turn /\ e.type = "turn_failed"
        /\ Append(run.buffer, e) # <<>>
    BY <1>1, <1>2 DEF Event, TypeOK, TurnTypeOK
  <2>3. CASE active = None
    BY <1>3, <1>4, <2>1, <2>3
  <2>4. CASE active # None /\ run.buffer # <<>>
    <3>1. Head(kept) = Head(run.buffer) /\ kept # <<>>
      BY <1>2, <2>2, <2>4
    <3> QED BY <1>4, <2>1, <2>4, <3>1
  <2>5. CASE active # None /\ run.buffer = <<>>
    <3>1. kept # <<>> /\ Head(kept) = e
      BY <2>5
    <3>2. Settle(e) /\ closed' = closed
      BY <1>1, <2>1, <3>1 DEF closed
    <3> HIDE DEF e, kept
    <3> QED BY <1>1, <1>2, <2>2, <3>2, OwnSettles
  <2> QED BY <2>3, <2>4, <2>5
<1>7. CASE PromptThrows
  <2>1. Settle(Rejected) /\ Rejected \notin Event /\ closed' = closed
    BY <1>1, <1>7 DEF PromptThrows, StartTurnFails, Rejected, Event, closed
  <2> QED BY <1>1, <1>2, <2>1, OwnSettles
<1> QED BY <1>5, <1>6, <1>7

\* The run whose turn is active has not been stopped.
LEMMA ActiveIsOpen ==
    ASSUME RunInv, active # None, run # NoRun
    PROVE  active = run.turn /\ run.turn \notin stopped /\ ~closed
BY DEF RunInv, SameTurn, StopsFirst, ClosedIsIdle

LEMMA OwnInterrupt ==
    ASSUME TypeOK, RunInv, OwnInv, Interrupt
    PROVE  OwnInv'
<1>1. /\ active # None /\ aborts' = aborts \cup {active} /\ stopped \subseteq stopped'
      /\ UNCHANGED <<run, outcome, working, events, crowded, closing>>
  BY DEF Interrupt
<1>2. CASE run = NoRun
  <2>1. OwnOutcome'
    BY <1>1 DEF OwnInv, OwnOutcome, Own, closed
  <2>2. ServedAlone'
    BY <1>1, <1>2 DEF ServedAlone
  <2> QED BY <2>1, <2>2 DEF OwnInv
<1>3. CASE run # NoRun
  <2>1. active = run.turn
    BY <1>1, <1>3, ActiveIsOpen
  <2> QED BY <1>1, <1>3, <2>1, OwnStill DEF OwnInv, ServedAlone, closed
<1> QED BY <1>2, <1>3

LEMMA OwnAbortReturns ==
    ASSUME TypeOK, RunInv, OwnInv, NEW t \in aborts, AbortReturns(t)
    PROVE  OwnInv'
<1>1. /\ t \in Turns /\ Emit("turn_canceled", t) /\ aborts' \subseteq aborts
      /\ UNCHANGED <<working, events, stopped, crowded, closing>>
  BY DEF AbortReturns, TypeOK, TurnTypeOK
<1>2. run # NoRun /\ run.turn \notin crowded =>
         /\ working \in {run.turn, None} /\ events \in Seq(EventsOf(run.turn))
         /\ t = run.turn /\ run.turn \in stopped
  BY <1>1 DEF RunInv, Ran, OwnInv, ServedAlone
<1>3. closed' = closed
  BY <1>1 DEF closed
<1>4. CASE closing = "done"
  BY <1>1, <1>2, <1>3, <1>4, OwnStill DEF Emit
<1>5. CASE closing # "done"
  BY <1>1, <1>2, <1>3, <1>5, OwnEmits
<1> QED BY <1>4, <1>5

\* The events that end the active turn.
LEMMA OwnEnds ==
    ASSUME TypeOK, RunInv, OwnInv,
           Close \/ SessionIdle \/ SessionError \/ UnnamedError \/ StreamFails
    PROVE  OwnInv'
<1>1. /\ UNCHANGED <<working, stopped, crowded, aborts>> /\ (closed => closed')
      /\ events' = events \/ (events # <<>> /\ events' = Tail(events)) \/ events' = <<>>
  <2>1. CASE Close
    BY <2>1 DEF Close, closed
  <2>2. CASE SessionIdle \/ SessionError
    BY <2>2 DEF SessionIdle, SessionError, Handles, closed
  <2>3. CASE UnnamedError
    BY <2>3 DEF UnnamedError, closed
  <2>4. CASE StreamFails
    BY <2>4 DEF StreamFails, StreamGone, closed
  <2> QED BY <2>1, <2>2, <2>3, <2>4
<1>2. ASSUME run # NoRun, run.turn \notin crowded
      PROVE  working \in {run.turn, None} /\ events' \in Seq(EventsOf(run.turn))
  <2>1. events \in Seq(EventsOf(run.turn)) /\ working \in {run.turn, None}
    BY <1>2 DEF OwnInv, ServedAlone
  <2>2. <<>> \in Seq(EventsOf(run.turn))
    OBVIOUS
  <2>3. CASE events # <<>> /\ events' = Tail(events)
    BY <2>1, <2>3
  <2> QED BY <1>1, <2>1, <2>2, <2>3
<1>3. CASE active = None
  <2>1. UNCHANGED <<run, outcome>>
    BY <1>3 DEF Close, SessionIdle, SessionError, UnnamedError, StreamFails
  <2> QED BY <1>1, <1>2, <2>1, OwnStill
<1>4. CASE active # None
  <2>1. ~closed /\ closing # "done" /\ active \in Turns
    BY <1>4 DEF RunInv, ClosedIsIdle, closed, TypeOK, TurnTypeOK
  <2>2. PICK type \in {"turn_completed", "turn_failed", "turn_canceled"}, t \in Turns :
           /\ Emit(type, t)
           /\ type = "turn_canceled" => closed'
           /\ run # NoRun /\ run.turn \notin crowded => t = run.turn
    <3>1. run # NoRun => active = run.turn
      BY <1>4, ActiveIsOpen
    <3>2. CASE Close \/ UnnamedError \/ StreamFails
      <4>1. CASE Close
        BY <1>4, <2>1, <3>1, <4>1 DEF Close, closed
      <4>2. CASE UnnamedError \/ StreamFails
        BY <1>4, <2>1, <3>1, <4>2 DEF UnnamedError, StreamFails
      <4> QED BY <3>2, <4>1, <4>2
    <3>3. CASE SessionIdle \/ SessionError
      <4>1. events # <<>> /\ Head(events) \in StreamEvent
        BY <3>3 DEF SessionIdle, SessionError, Handles, TypeOK, TurnTypeOK
      <4>2. Head(events).turn \in Turns
        BY <4>1 DEF StreamEvent
      <4>3. run # NoRun /\ run.turn \notin crowded => Head(events).turn = run.turn
        <5>1. ASSUME run # NoRun, run.turn \notin crowded PROVE Head(events).turn = run.turn
          <6>1. events \in Seq(EventsOf(run.turn))
            BY <5>1 DEF OwnInv, ServedAlone
          <6>2. Head(events) \in EventsOf(run.turn)
            BY <4>1, <6>1
          <6> QED BY <6>2 DEF EventsOf
        <5> QED BY <5>1
      <4> QED BY <1>4, <3>3, <4>2, <4>3 DEF SessionIdle, SessionError
    <3> QED BY <3>2, <3>3
  <2> QED BY <1>1, <1>2, <2>1, <2>2, OwnEmits
<1> QED BY <1>3, <1>4

LEMMA OwnStep ==
    ASSUME TypeOK, RunInv, OwnInv, [Next]_vars
    PROVE  OwnInv'
<1>1. CASE Session
  <2>1. ASSUME NEW t \in Turns, StartTurn(t) PROVE OwnInv'
    BY <2>1, OwnStartTurn
  <2>2. ASSUME NEW t \in Turns, StartTurnThrows(t) PROVE OwnInv'
    <3>1. /\ run = NoRun /\ run' = run /\ UNCHANGED <<stopped, crowded, closing>>
          /\ \A u \in Turns : outcome'[u] = IF u = t THEN Rejected ELSE outcome[u]
      BY <2>2, RunShape DEF StartTurnThrows, TypeOK, TurnTypeOK, RunnerTypeOK
    <3>2. Rejected \notin Event
      BY DEF Rejected, Event
    <3>3. OwnOutcome'
      BY <3>1, <3>2 DEF OwnInv, OwnOutcome, Own, closed
    <3>4. ServedAlone'
      BY <3>1 DEF ServedAlone
    <3> QED BY <3>3, <3>4 DEF OwnInv
  <2>3. CASE PromptAccepted \/ PromptRefused \/ PromptThrows
    BY <2>3, OwnPrompt
  <2>4. CASE Interrupt
    BY <2>4, OwnInterrupt
  <2>5. ASSUME NEW t \in aborts, AbortReturns(t) PROVE OwnInv'
    BY <2>5, OwnAbortReturns
  <2>6. CASE Close \/ SessionIdle \/ SessionError \/ UnnamedError \/ StreamFails
    BY <2>6, OwnEnds
  <2>7. CASE AgentTakes(Up)
    <3>1. /\ UNCHANGED <<run, outcome, aborts, stopped, crowded, events, closing>>
          /\ prompting # None /\ working' = prompting
      BY <2>7 DEF AgentTakes
    <3>2. prompting = run.turn
      BY <3>1 DEF RunInv, Starting
    <3> QED BY <3>1, <3>2, OwnStill DEF OwnInv, ServedAlone, closed
  <2>8. CASE AgentStops(Up)
    <3> DEFINE idle == [type |-> "idle", turn |-> working]
               error == [type |-> "error", turn |-> working]
    <3>1. PICK ending \in {<<idle>>, <<error, idle>>} :
             events' = IF stream = "up" THEN events \o ending ELSE events
      BY <2>8, Zenon DEF AgentStops
    <3>2. /\ UNCHANGED <<run, outcome, aborts, stopped, crowded, closing>>
          /\ working # None /\ working' = None
      BY <2>8 DEF AgentStops
    <3>3. ASSUME run # NoRun, run.turn \notin crowded
          PROVE  events' \in Seq(EventsOf(run.turn))
      <4>1. events \in Seq(EventsOf(run.turn)) /\ working = run.turn
        BY <3>2, <3>3 DEF OwnInv, ServedAlone
      <4>2. idle \in EventsOf(run.turn) /\ error \in EventsOf(run.turn)
        BY <4>1 DEF EventsOf
      <4>3. <<idle>> \in Seq(EventsOf(run.turn)) /\ <<error, idle>> \in Seq(EventsOf(run.turn))
        BY <4>2
      <4>4. ending \in Seq(EventsOf(run.turn))
        BY <3>1, <4>3
      <4> HIDE DEF idle, error
      <4>5. events \o ending \in Seq(EventsOf(run.turn))
        BY <4>1, <4>4
      <4> QED BY <3>1, <4>1, <4>5
    <3> QED BY <3>2, <3>3, OwnStill DEF closed
  <2>9. CASE StreamEnds
    <3>1. /\ UNCHANGED <<run, outcome, aborts, stopped, crowded, closing, working>>
          /\ events' = <<>>
      BY <2>9 DEF StreamEnds, StreamGone
    <3>2. <<>> \in Seq(EventsOf(run.turn))
      OBVIOUS
    <3> QED BY <3>1, <3>2, OwnStill DEF OwnInv, ServedAlone, closed
  <2> QED BY <1>1, <2>1, <2>2, <2>3, <2>4, <2>5, <2>6, <2>7, <2>8, <2>9 DEF Session
<1>2. CASE \/ \E c \in Requests : Callers(c) \/ ModelsListed(c)
           \/ \E s \in Servers : ServerEnds(s)
           \/ Starts \/ OpenSession \/ OpenFails \/ CloseSession
           \/ ShutdownServer \/ ExitDaemon \/ UNCHANGED vars
  <2>1. /\ UNCHANGED <<run, outcome, aborts, stopped, crowded, events>>
        /\ working' \in {working, None} /\ (closing' = closing \/ closing' = "done")
    BY <1>2 DEF Callers, ModelsListed, ServerEnds, Starts, OpenSession, OpenFails, CloseSession,
                CloseReturns, ShutdownServer, ExitDaemon, turnVars, vars
  <2> QED BY <2>1, OwnStill DEF OwnInv, ServedAlone, closed
<1> QED BY <1>1, <1>2 DEF Next

-----------------------------------------------------------------------------
(* The session keeps the contract of run()                                 *)

Canceled(t) == outcome[t] # None /\ outcome[t].type = "turn_canceled"

Asked == stopped \cup {t \in Turns : /\ closed \/ t \in crowded
                                     /\ outcome[t] # None /\ outcome[t].type = "turn_canceled"}

Verdicts == [t \in Turns |-> Told(t)]

SessionInv == TypeOK /\ RunInv /\ OwnInv

LEMMA ToldIs ==
    ASSUME SessionInv, NEW t \in Turns
    PROVE  /\ Told(t) = IF outcome[t] = None THEN None ELSE outcome[t].type
           /\ Told(t) = None <=> outcome[t] = None
<1>1. outcome[t] \in Event \cup {Rejected, None}
  BY DEF SessionInv, TypeOK, TurnTypeOK, RunnerTypeOK, Outcomes
<1>2. CASE outcome[t] \in Event
  <2>1. outcome[t].type # None /\ outcome[t] # None
    BY <1>2, WordAssumption, NoneAssumption DEF Event
  <2>2. t \notin crowded => outcome[t].turn = t
    BY <1>2 DEF SessionInv, OwnInv, OwnOutcome, Own
  <2> QED BY <2>1, <2>2 DEF Told, Verdict
<1>3. CASE outcome[t] = Rejected
  <2>1. outcome[t].type # None /\ outcome[t] # None
    BY <1>3, WordAssumption, NoneAssumption DEF Rejected
  <2> QED BY <1>3, <2>1 DEF Told, Verdict
<1> QED BY <1>1, <1>2, <1>3 DEF Told, Verdict

\* A turn that is not crowded is canceled when it was asked to stop.
LEMMA CanceledWasAsked ==
    ASSUME SessionInv, NEW t \in Turns, Canceled(t)
    PROVE  t \in stopped \/ closed \/ t \in crowded
<1>1. outcome[t] \in Event
  BY DEF Canceled, Rejected, SessionInv, TypeOK, TurnTypeOK, RunnerTypeOK, Outcomes
<1> QED BY <1>1 DEF Canceled, SessionInv, OwnInv, OwnOutcome, Own

\* What the contract sees of a step that settles no run.
LEMMA SilentStep ==
    ASSUME SessionInv, UNCHANGED <<outcome, stopped, crowded>>, run'.turn = run.turn,
           closed => closed'
    PROVE  UNCHANGED <<run.turn, Asked, Verdicts>>
<1>1. Asked' = Asked
  BY CanceledWasAsked DEF Asked, Canceled
<1>2. Verdicts' = Verdicts
  BY DEF Verdicts, Told, Verdict
<1> QED BY <1>1, <1>2

\* The run's verdict: canceled if the turn was stopped, and only when it was asked to.
LEMMA ContractSettles ==
    ASSUME SessionInv, SessionInv', NEW e \in Event \cup {Rejected}, run # NoRun, Settle(e),
           UNCHANGED <<stopped, crowded>>, closed => closed',
           run.turn \in stopped => e.type \in {"turn_canceled", "rejected"}
    PROVE  Contract!Next
<1>1. /\ run.turn \in Turns /\ run.turn # None /\ run'.turn = None /\ outcome[run.turn] = None
      /\ \A t \in Turns : outcome'[t] = IF t = run.turn THEN e ELSE outcome[t]
  BY RunShape, SettleIs, NoneApart DEF SessionInv, RunInv, Ran, TypeOK, TurnTypeOK, Outcomes
<1>2. e # None /\ e.type \in {"turn_completed", "turn_failed", "turn_canceled", "rejected"}
  BY NoneAssumption DEF Event, Rejected
<1>3. ASSUME run.turn \notin crowded, e \in Event
      PROVE  e.turn = run.turn /\ (e.type = "turn_canceled" => closed' \/ run.turn \in stopped)
  <2>1. outcome'[run.turn] = e /\ run.turn \notin crowded'
    BY <1>1, <1>3
  <2>2. /\ outcome'[run.turn].turn = run.turn
        /\ outcome'[run.turn].type = "turn_canceled" => closed' \/ run.turn \in stopped'
    BY <1>1, <1>3, <2>1 DEF SessionInv, OwnInv, OwnOutcome, Own
  <2> QED BY <2>1, <2>2
<1>4. e \notin Event => e = Rejected /\ e.type = "rejected"
  BY DEF Rejected
<1>5. ASSUME NEW t \in Turns
      PROVE  Told(t)' = IF t = run.turn THEN e.type ELSE Told(t)
  <2>1. CASE t = run.turn
    BY <1>1, <1>2, <1>3, <1>4, <2>1 DEF Told, Verdict
  <2>2. CASE t # run.turn
    BY <1>1, <2>2 DEF Told, Verdict
  <2> QED BY <2>1, <2>2
<1>6. Verdicts' = [Verdicts EXCEPT ![run.turn] = e.type]
  BY <1>1, <1>5 DEF Verdicts
<1>7. ASSUME NEW t \in Turns, t # run.turn
      PROVE  t \in Asked' <=> t \in Asked
  BY <1>1, <1>7, CanceledWasAsked DEF Asked, Canceled
<1>8. stopped \subseteq Turns /\ Asked \subseteq Turns /\ Asked' \subseteq Turns
  BY DEF SessionInv, TypeOK, TurnTypeOK, Asked
<1>9. run.turn \in Asked => run.turn \in stopped
  BY <1>1 DEF Asked
<1>10. CASE e.type = "turn_canceled"
  <2>1. run.turn \in Asked'
    BY <1>1, <1>2, <1>3, <1>4, <1>10 DEF Asked
  <2>2. Asked' = Asked \cup {run.turn}
    BY <1>1, <1>7, <1>8, <2>1
  <2> QED BY <1>1, <1>6, <1>10, <2>2 DEF Contract!Next, Contract!StopAtOnce, Asked, Verdicts
<1>11. CASE e.type # "turn_canceled"
  <2>1. run.turn \in Asked' <=> run.turn \in Asked
    BY <1>1, <1>11 DEF Asked
  <2>2. Asked' = Asked
    BY <1>7, <1>8, <2>1
  <2>3. Contract!Settle(e.type)
    BY <1>1, <1>2, <1>6, <1>9, <1>11, <2>2
       DEF Contract!Settle, Contract!Verdicts, Asked, Verdicts
  <2> QED BY <1>2, <2>3 DEF Contract!Next, Contract!Verdicts
<1> QED BY <1>10, <1>11

\* An event that ends the active turn, or an abort, is its verdict or is kept.
LEMMA ContractEmits ==
    ASSUME SessionInv, SessionInv',
           NEW type \in {"turn_completed", "turn_failed", "turn_canceled"},
           NEW t \in Turns, Emit(type, t), closing # "done",
           UNCHANGED <<stopped, crowded>>, closed => closed',
           run # NoRun /\ run.turn \in stopped => type = "turn_canceled"
    PROVE  Contract!Next \/ UNCHANGED <<run.turn, Asked, Verdicts>>
<1> DEFINE e == [type |-> type, turn |-> t]
<1>1. e \in Event /\ Observe(e) /\ e.type = type
  BY DEF Emit, Event
<1> HIDE DEF e
<1>2. CASE run.phase = "waiting" /\ run # NoRun /\ Settle(e)
  BY <1>1, <1>2, ContractSettles
<1>3. CASE outcome' = outcome /\ run'.turn = run.turn
  BY <1>3, SilentStep
<1> QED BY <1>1, <1>2, <1>3, ObserveIs DEF SessionInv, TypeOK, TurnTypeOK

LEMMA ContractInit == Init => Contract!Init
<1> SUFFICES ASSUME Init PROVE Contract!Init
  OBVIOUS
<1>1. run.turn = None /\ stopped = {} /\ \A t \in Turns : outcome[t] = None
  BY DEF Init, TurnInit, RunnerInit, NoRun
<1> QED BY <1>1 DEF Contract!Init, Told, Verdict, Contract!Turns, Turns

LEMMA ContractIsNext ==
    ASSUME SessionInv, NEW t \in Turns, IsNext(t)
    PROVE  Contract!IsNext(t)
<1>1. t \in Nat /\ \A u \in 1 .. (t - 1) : u \in Turns
  BY TurnsAssumption DEF Turns
<1> QED BY <1>1, ToldIs DEF Contract!IsNext, IsNext

LEMMA ContractStarts ==
    ASSUME SessionInv, NEW t \in Turns, StartTurn(t)
    PROVE  Contract!Next
<1>1. /\ run.turn = None /\ run'.turn = t /\ UNCHANGED <<outcome, stopped, closing>>
      /\ IsNext(t) /\ outcome[t] = None /\ crowded' \in {crowded, crowded \cup {t}}
  BY RunShape DEF StartTurn, StartRun, IsNext, SessionInv, TypeOK, TurnTypeOK
<1>2. Asked' = Asked /\ Verdicts' = Verdicts
  BY <1>1 DEF Asked, Verdicts, Told, Verdict, closed
<1>3. Contract!Begin(t)
  BY <1>1, <1>2, ContractIsNext DEF Contract!Begin, Asked, Verdicts
<1> QED BY <1>3 DEF Contract!Next, Contract!Turns, Turns

LEMMA ContractThrows ==
    ASSUME SessionInv, NEW t \in Turns, StartTurnThrows(t)
    PROVE  Contract!Next
<1>1. /\ run.turn = None /\ run' = run /\ UNCHANGED <<stopped, crowded, closing>> /\ IsNext(t)
      /\ outcome[t] = None
      /\ \A u \in Turns : outcome'[u] = IF u = t THEN Rejected ELSE outcome[u]
  BY RunShape DEF StartTurnThrows, SessionInv, IsNext, TypeOK, TurnTypeOK, RunnerTypeOK
<1>2. Rejected.type = "rejected" /\ Rejected # None
  BY NoneAssumption DEF Rejected
<1>3. Verdicts' = [Verdicts EXCEPT ![t] = "rejected"]
  <2>1. ASSUME NEW u \in Turns
        PROVE  Told(u)' = IF u = t THEN "rejected" ELSE Told(u)
    BY <1>1, <1>2 DEF Told, Verdict
  <2> QED BY <2>1 DEF Verdicts
<1>4. Asked' = Asked
  BY <1>1, <1>2 DEF Asked, closed
<1>5. Contract!Refuse(t)
  BY <1>1, <1>3, <1>4, ContractIsNext DEF Contract!Refuse, Asked, Verdicts
<1> QED BY <1>5 DEF Contract!Next, Contract!Turns, Turns

LEMMA ContractPrompt ==
    ASSUME SessionInv, SessionInv', PromptAccepted \/ PromptRefused \/ PromptThrows
    PROVE  Contract!Next \/ UNCHANGED <<run.turn, Asked, Verdicts>>
<1>1. prompting # None /\ UNCHANGED <<stopped, crowded, closing>> /\ closed' = closed
  BY DEF PromptAccepted, PromptRefused, PromptThrows, closed
<1>2. /\ run.phase = "starting" /\ run # NoRun /\ run.turn \in Turns
      /\ run.buffer \in Seq(Event)
      /\ run = [turn |-> run.turn, phase |-> run.phase, buffer |-> run.buffer]
  <2>1. run.phase = "starting" /\ run # NoRun
    BY <1>1 DEF SessionInv, RunInv, Starting, NoRun
  <2> QED BY <2>1, RunShape DEF SessionInv, TypeOK, TurnTypeOK
<1>3. ASSUME run' = [run EXCEPT !.phase = "waiting"], outcome' = outcome
      PROVE  UNCHANGED <<run.turn, Asked, Verdicts>>
  <2>1. run'.turn = run.turn
    BY <1>2, <1>3
  <2> QED BY <1>1, <1>3, <2>1, SilentStep
<1>4. ASSUME run.buffer # <<>>, Settle(Head(run.buffer)) PROVE Contract!Next
  <2>1. Head(run.buffer) \in Event
    BY <1>2, <1>4
  <2>2. run.turn \in stopped => Head(run.buffer).type = "turn_canceled"
    BY <1>2, <1>4 DEF SessionInv, RunInv, StopsFirst
  <2> QED BY <1>1, <1>2, <1>4, <2>1, <2>2, ContractSettles
<1>5. CASE PromptAccepted
  BY <1>3, <1>4, <1>5 DEF PromptAccepted, StartTurnReturns
<1>6. CASE PromptRefused
  <2> DEFINE e == [type |-> "turn_failed", turn |-> prompting]
             kept == IF active # None THEN Append(run.buffer, e) ELSE run.buffer
  <2>1. IF kept = <<>> THEN run' = [run EXCEPT !.phase = "waiting"] /\ UNCHANGED outcome
                       ELSE Settle(Head(kept))
    BY <1>6 DEF PromptRefused
  <2>2. e \in Event \cup {Rejected} /\ Append(run.buffer, e) # <<>>
    BY <1>1, <1>2 DEF Event, SessionInv, TypeOK, TurnTypeOK
  <2>3. CASE active = None
    BY <1>3, <1>4, <2>1, <2>3
  <2>4. CASE active # None /\ run.buffer # <<>>
    <3>1. Head(kept) = Head(run.buffer) /\ kept # <<>>
      BY <1>2, <2>2, <2>4
    <3> QED BY <1>4, <2>1, <2>4, <3>1
  <2>5. CASE active # None /\ run.buffer = <<>>
    <3>1. run.turn \notin stopped
      BY <1>2, <2>5, ActiveIsOpen DEF SessionInv
    <3>2. kept # <<>> /\ Head(kept) = e
      BY <2>5
    <3>3. Settle(e)
      BY <2>1, <3>2
    <3> HIDE DEF e, kept
    <3> QED BY <1>1, <1>2, <2>2, <3>1, <3>3, ContractSettles
  <2> QED BY <2>3, <2>4, <2>5
<1>7. CASE PromptThrows
  <2>1. Settle(Rejected) /\ Rejected.type = "rejected"
    BY <1>7 DEF PromptThrows, StartTurnFails, Rejected
  <2> QED BY <1>1, <1>2, <2>1, ContractSettles
<1> QED BY <1>5, <1>6, <1>7

LEMMA ContractInterrupt ==
    ASSUME SessionInv, Interrupt
    PROVE  Contract!Next \/ UNCHANGED <<run.turn, Asked, Verdicts>>
<1>1. /\ active \in Turns
      /\ stopped' = stopped \cup {t \in Turns : t = active /\ t = run.turn}
      /\ UNCHANGED <<run, outcome, crowded, closing>> /\ closed' = closed
  BY DEF Interrupt, SessionInv, TypeOK, TurnTypeOK, closed
<1>2. CASE run = NoRun
  <2>1. stopped' = stopped
    BY <1>1, <1>2, NoneApart DEF NoRun
  <2> QED BY <1>1, <2>1, SilentStep
<1>3. CASE run # NoRun
  <2>1. active = run.turn /\ run.turn # None
    BY <1>1, <1>3, NoneApart, ActiveIsOpen DEF SessionInv
  <2>2. Asked' = Asked \cup {run.turn} /\ Verdicts' = Verdicts
    BY <1>1, <2>1 DEF Asked, Verdicts, Told, Verdict
  <2> QED BY <1>1, <2>1, <2>2 DEF Contract!Next, Contract!AskToStop, Asked, Verdicts
<1> QED BY <1>2, <1>3

LEMMA ContractAbortReturns ==
    ASSUME SessionInv, SessionInv', NEW t \in aborts, AbortReturns(t)
    PROVE  Contract!Next \/ UNCHANGED <<run.turn, Asked, Verdicts>>
<1>1. /\ t \in Turns /\ Emit("turn_canceled", t) /\ UNCHANGED <<stopped, crowded>>
      /\ closed' = closed
  BY DEF AbortReturns, SessionInv, TypeOK, TurnTypeOK, closed
<1>2. CASE closing = "done"
  BY <1>1, <1>2, SilentStep DEF Emit
<1>3. CASE closing # "done"
  BY <1>1, <1>3, ContractEmits
<1> QED BY <1>2, <1>3

LEMMA ContractEnds ==
    ASSUME SessionInv, SessionInv',
           Close \/ SessionIdle \/ SessionError \/ UnnamedError \/ StreamFails
    PROVE  Contract!Next \/ UNCHANGED <<run.turn, Asked, Verdicts>>
<1>1. UNCHANGED <<stopped, crowded>> /\ (closed => closed')
  BY DEF Close, SessionIdle, SessionError, UnnamedError, StreamFails, Handles, StreamGone,
         closed
<1>2. CASE active = None
  <2>1. UNCHANGED <<run, outcome>>
    BY <1>2 DEF Close, SessionIdle, SessionError, UnnamedError, StreamFails
  <2> QED BY <1>1, <2>1, SilentStep
<1>3. CASE active # None
  <2>1. ~closed /\ closing # "done" /\ active \in Turns
    BY <1>3 DEF SessionInv, RunInv, ClosedIsIdle, closed, TypeOK, TurnTypeOK
  <2>2. PICK type \in {"turn_completed", "turn_failed", "turn_canceled"}, t \in Turns :
           Emit(type, t)
    <3>1. CASE Close \/ UnnamedError \/ StreamFails
      BY <1>3, <2>1, <3>1 DEF Close, UnnamedError, StreamFails
    <3>2. CASE SessionIdle \/ SessionError
      <4>1. events # <<>> /\ Head(events) \in StreamEvent
        BY <3>2 DEF SessionIdle, SessionError, Handles, SessionInv, TypeOK, TurnTypeOK
      <4>2. Head(events).turn \in Turns
        BY <4>1 DEF StreamEvent
      <4> QED BY <1>3, <3>2, <4>2 DEF SessionIdle, SessionError
    <3> QED BY <3>1, <3>2
  <2>3. run # NoRun => run.turn \notin stopped
    BY <1>3, ActiveIsOpen DEF SessionInv
  <2> QED BY <1>1, <2>1, <2>2, <2>3, ContractEmits
<1> QED BY <1>2, <1>3

\* Every step is one of the contract's, or none.
LEMMA ContractStep ==
    ASSUME SessionInv, SessionInv', [Next]_vars
    PROVE  [Contract!Next]_(Contract!vars)
<1> SUFFICES Contract!Next \/ UNCHANGED <<run.turn, Asked, Verdicts>>
  BY DEF Contract!vars, Asked, Verdicts
<1>1. CASE Session
  <2>1. CASE AgentTakes(Up) \/ AgentStops(Up) \/ StreamEnds
    <3>1. UNCHANGED <<run, outcome, stopped, crowded, closing>> /\ closed' = closed
      BY <2>1 DEF AgentTakes, AgentStops, StreamEnds, StreamGone, closed
    <3> QED BY <3>1, SilentStep
  <2> QED BY <1>1, <2>1, ContractStarts, ContractThrows, ContractPrompt, ContractInterrupt,
             ContractAbortReturns, ContractEnds DEF Session
<1>2. CASE \/ \E c \in Requests : Callers(c) \/ ModelsListed(c)
           \/ \E s \in Servers : ServerEnds(s)
           \/ Starts \/ OpenSession \/ OpenFails \/ CloseSession
           \/ ShutdownServer \/ ExitDaemon \/ UNCHANGED vars
  <2>1. /\ UNCHANGED <<run, outcome, stopped, crowded>>
        /\ closing' = closing \/ closing' = "done"
    BY <1>2 DEF Callers, ModelsListed, ServerEnds, Starts, OpenSession, OpenFails, CloseSession,
                CloseReturns, ShutdownServer, ExitDaemon, turnVars, vars
  <2> QED BY <2>1, SilentStep DEF closed
<1> QED BY <1>1, <1>2 DEF Next

LEMMA SessionInvariant == Spec => []SessionInv
<1>1. SessionInv /\ ServerInv /\ [Next]_vars => (SessionInv /\ ServerInv)'
  BY SessionStep, OwnStep, RestTyped, StepOfServer, ServerStep
     DEF SessionInv, TypeOK, TurnTypeOK, ServerInv
<1>2. Init => SessionInv
  BY SessionStarts, OwnStarts DEF SessionInv
<1> QED BY <1>1, <1>2, ServerStarts, PTL DEF Spec

\* A session keeps what it promises the caller of run(), whatever becomes of the
\* server's process, its answers and its event stream: turns are settled one at a
\* time and once each, and one that was interrupted neither completes nor fails.
\* A turn that began when nothing of an earlier one was under way is settled by its
\* own end, and canceled only if it was stopped or the session closed.
THEOREM KeepsContract == Spec => ImplementsContract
<1>1. SessionInv /\ SessionInv' /\ [Next]_vars => [Contract!Next]_(Contract!vars)
  BY ContractStep
<1> QED BY ContractInit, <1>1, SessionInvariant, PTL
        DEF Spec, ImplementsContract, Contract!Safety

=============================================================================
