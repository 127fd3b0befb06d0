---------------------------- MODULE PiTurnProofs ----------------------------
(***************************************************************************)
(* Proofs about PiTurn for any number of prompts and requests: its         *)
(* invariants, and that it implements TurnContract.                        *)
(***************************************************************************)
EXTENDS PiTurn, TLAPS

\* A request the run depends on: the prompt that starts it, or the abort of an
\* interrupt that found it active.  (Other aborts report nothing.)
Decides(r) == r.kind = "prompt" \/ r.turn # None

\* Such a request is about the run under way, and there is at most one.
DecidersAreTheRuns ==
    /\ \A r \in Awaited : Decides(r) =>
          /\ r.turn = run.turn
          /\ active = None
          /\ run.phase = IF r.kind = "prompt" THEN "starting" ELSE "waiting"
    /\ \A r, q \in Awaited : Decides(r) /\ Decides(q) => r = q

\* A promise settles once.
SettledOnce ==
    /\ \A c \in micro : c.request \notin pending
    /\ \A c, d \in micro : c.request = d.request => c = d

IdsAreFresh ==
    /\ \A r \in inbox \cup Awaited : r.id < nextId
    /\ \A r, q \in inbox \cup pending : r.id = q.id => r = q

\* The prompt that is pending is the last one sent.
PendingPromptIsLast ==
    \A p \in pending, r \in inbox :
        p.kind = "prompt" /\ r.kind = "prompt" => r.id <= p.id

\* Pi has acknowledged the run's prompt.
Acked ==
    \/ run.phase = "waiting"
    \/ \E c \in micro : c.request.kind = "prompt" /\ c.ok

\* Then it has no other prompt to take, and works on nothing else.
AckedIsAlone ==
    Acked => /\ \A r \in inbox : r.kind # "prompt"
             /\ working \in {run.turn, None}

\* An acknowledgement that startTurn has still to see: no chunk boundary has
\* passed since, so the process cannot have been seen to exit.
AckedOnLiveProcess ==
    \A c \in micro : c.request.kind = "prompt" /\ c.ok => process = "up"

\* Nothing reaches a run before its prompt is acknowledged, nor after it has
\* settled.
RunIsOpen ==
    /\ run.buffer = <<>>
    /\ run.phase # "idle" => outcome[run.turn] = None

\* The inductive invariant.
IInv ==
    /\ TypeOK
    /\ SameTurn
    /\ OwnOutcome
    /\ DecidersAreTheRuns
    /\ SettledOnce
    /\ IdsAreFresh
    /\ PendingPromptIsLast
    /\ AckedIsAlone
    /\ AckedOnLiveProcess
    /\ RunIsOpen

-----------------------------------------------------------------------------
(* Constants, the run and its requests                                     *)

LEMMA NoneApart == None \notin Turns /\ Turns \subseteq Nat
BY TurnsAssumption DEF Turns

LEMMA RunShape ==
    ASSUME TypeOK
    PROVE  /\ run.phase \in {"idle", "starting", "waiting"}
           /\ run.phase = "idle" => run = NoRun
           /\ run.phase # "idle" => run.turn \in Turns
BY DEF TypeOK, RunnerTypeOK, Run, NoRun

\* What settling requests does to those still awaited: nothing.
LEMMA SettleKeepsAwaited ==
    ASSUME NEW R, NEW ok, SettleRequests(R, ok)
    PROVE  Awaited' = Awaited
<1>1. ASSUME NEW r PROVE r \in Awaited' <=> r \in Awaited
  <2>1. r \in Awaited' <=> r \in pending' \/ \E c \in micro' : c.request = r
    BY DEF Awaited
  <2>2. r \in Awaited <=> r \in pending \/ \E c \in micro : c.request = r
    BY DEF Awaited
  <2>3. ASSUME r \in pending' PROVE r \in pending
    BY <2>3 DEF SettleRequests
  <2>4. ASSUME NEW c \in micro', c.request = r PROVE r \in Awaited
    BY <2>2, <2>4 DEF SettleRequests
  <2>5. ASSUME r \in pending, r \notin pending'
        PROVE  \E c \in micro' : c.request = r
    <3>1. [request |-> r, ok |-> ok] \in micro'
      BY <2>5 DEF SettleRequests
    <3> QED BY <3>1
  <2>6. micro \subseteq micro'
    BY DEF SettleRequests
  <2> QED BY <2>1, <2>2, <2>3, <2>4, <2>5, <2>6
<1> QED BY <1>1

LEMMA SettleKeepsOnce ==
    ASSUME NEW R, NEW ok \in BOOLEAN, TypeOK, SettledOnce, SettleRequests(R, ok)
    PROVE  /\ pending' \subseteq Request
           /\ micro' \subseteq Settled
           /\ SettledOnce'
<1>1. pending' \subseteq Request /\ micro' \subseteq Settled
  BY DEF TypeOK, SettleRequests, Settled
<1>2. \A c \in micro' : c.request \notin pending'
  BY DEF SettleRequests, SettledOnce
<1>3. ASSUME NEW c \in micro', NEW d \in micro', c.request = d.request
      PROVE  c = d
  BY <1>3 DEF SettleRequests, SettledOnce
<1> QED BY <1>1, <1>2, <1>3 DEF SettledOnce

\* A prompt or an abort leaves the process for the first time.
LEMMA SendEffect ==
    ASSUME NEW kind \in {"prompt", "abort"}, NEW turn \in Turns \cup {None},
           IInv, Idle, Send(kind, turn), micro' = micro
    PROVE  \E request \in Request :
              /\ request.kind = kind /\ request.turn = turn /\ request.id = nextId
              /\ pending' = pending \cup {request}
              /\ inbox' = inbox \cup {request}
              /\ Awaited' = Awaited \cup {request}
              /\ nextId' = nextId + 1
              /\ nextId' \in 1 .. (MaxRequests + 1)
              /\ SettledOnce' /\ IdsAreFresh'
<1> DEFINE request == [kind |-> kind, turn |-> turn, id |-> nextId]
<1>1. /\ nextId \in 1 .. MaxRequests
      /\ nextId' = nextId + 1
      /\ pending' = pending \cup {request}
      /\ inbox' = inbox \cup {request}
  BY RequestsAssumption DEF Send, IInv, TypeOK
<1>2. request \in Request
  BY <1>1 DEF Request
<1>3. micro = {} /\ micro' = {}
  BY DEF Idle
<1>4. Awaited' = Awaited \cup {request} /\ Awaited = pending
  BY <1>1, <1>3 DEF Awaited
<1>5. SettledOnce'
  BY <1>3 DEF SettledOnce
<1>6. IdsAreFresh'
  <2>0. request.id = nextId
    OBVIOUS
  <2>1. \A r \in inbox \cup pending : r \in Request /\ r.id < nextId /\ r.id \in Nat
    BY <1>4 DEF IInv, TypeOK, IdsAreFresh, Request
  <2> HIDE DEF request
  <2>2. \A r \in inbox' \cup Awaited' : r.id < nextId'
    BY <1>1, <1>4, <2>0, <2>1
  <2>3. \A r, q \in inbox' \cup pending' : r.id = q.id => r = q
    BY <1>1, <2>0, <2>1 DEF IInv, IdsAreFresh
  <2> QED BY <2>2, <2>3 DEF IdsAreFresh
<1>7. nextId' \in 1 .. (MaxRequests + 1)
  BY <1>1, RequestsAssumption
<1> QED BY <1>1, <1>2, <1>4, <1>5, <1>6, <1>7

-----------------------------------------------------------------------------
(* The initial states                                                      *)

LEMMA InitIInv == Init => IInv
<1> SUFFICES ASSUME Init PROVE IInv
  OBVIOUS
<1>0. Awaited = {} /\ run = NoRun /\ run.phase = "idle"
  BY DEF Init, RunnerInit, Awaited, NoRun
<1>1. TypeOK
  <2>1. RunnerTypeOK
    BY <1>0 DEF Init, RunnerInit, RunnerTypeOK, Run, Outcomes
  <2>2. nextId \in 1 .. (MaxRequests + 1)
    BY RequestsAssumption DEF Init
  <2> QED BY <2>1, <2>2 DEF Init, TypeOK
<1>2. SameTurn
  BY <1>0 DEF Init, SameTurn
<1>3. OwnOutcome
  BY NoneAssumption DEF Init, RunnerInit, OwnOutcome
<1>4. DecidersAreTheRuns /\ SettledOnce /\ IdsAreFresh /\ PendingPromptIsLast
  BY <1>0 DEF Init, DecidersAreTheRuns, SettledOnce, IdsAreFresh, PendingPromptIsLast
<1>5. AckedIsAlone /\ AckedOnLiveProcess /\ RunIsOpen
  BY <1>0 DEF Init, AckedIsAlone, Acked, AckedOnLiveProcess, RunIsOpen, NoRun
<1> QED BY <1>1, <1>2, <1>3, <1>4, <1>5 DEF IInv

-----------------------------------------------------------------------------
(* Steps that leave the run and the active turn alone                      *)

LEMMA StillStep ==
    ASSUME IInv,
           UNCHANGED <<run, outcome, active, nextId>>,
           closed' \in BOOLEAN, process' \in {"up", "exited", "disposed"},
           active # None => process' = "up",
           Awaited' \subseteq Awaited,
           \A r \in Awaited : Decides(r) => r \in Awaited',
           pending' \subseteq pending, micro' \subseteq Settled, SettledOnce',
           inbox' \subseteq inbox,
           working' \in Turns \cup {None}, AckedIsAlone', AckedOnLiveProcess'
    PROVE  IInv'
<1>1. TypeOK'
  BY DEF IInv, TypeOK, RunnerTypeOK
<1>2. SameTurn'
  <2>1. ASSUME run.phase = "waiting", Interrupting(run.turn)
        PROVE  Interrupting(run.turn)'
    <3>1. run.turn # None
      BY <2>1, RunShape, NoneApart DEF IInv
    <3> QED BY <2>1, <3>1 DEF Interrupting, Decides
  <2> QED BY <2>1 DEF IInv, SameTurn
<1>3. OwnOutcome' /\ RunIsOpen'
  BY DEF IInv, OwnOutcome, RunIsOpen
<1>4. DecidersAreTheRuns'
  BY DEF IInv, DecidersAreTheRuns, Decides
<1>5. IdsAreFresh'
  BY DEF IInv, IdsAreFresh
<1>6. PendingPromptIsLast'
  BY DEF IInv, PendingPromptIsLast
<1> QED BY <1>1, <1>2, <1>3, <1>4, <1>5, <1>6 DEF IInv

LEMMA QuietStep ==
    ASSUME NEW R, NEW ok \in BOOLEAN, IInv, SettleRequests(R, ok),
           UNCHANGED <<run, outcome, active, closed, process, nextId>>,
           inbox' \subseteq inbox,
           working' \in Turns \cup {None},
           AckedIsAlone', ok => process = "up"
    PROVE  IInv'
<1>1. Awaited' = Awaited
  BY SettleKeepsAwaited
<1>2. pending' \subseteq pending /\ micro' \subseteq Settled /\ SettledOnce'
  BY SettleKeepsOnce DEF IInv, SettleRequests
<1>3. /\ closed' \in BOOLEAN /\ process' \in {"up", "exited", "disposed"}
      /\ active # None => process' = "up"
  BY DEF IInv, TypeOK, SameTurn
<1>4. AckedOnLiveProcess'
  <2>1. \A c \in micro' \ micro : c.ok => process = "up"
    BY DEF SettleRequests
  <2> QED BY <2>1 DEF IInv, AckedOnLiveProcess
<1> QED BY <1>1, <1>2, <1>3, <1>4, StillStep

LEMMA RequestTimesOutStep == IInv /\ RequestTimesOut => IInv'
<1> SUFFICES ASSUME IInv, RequestTimesOut PROVE IInv'
  OBVIOUS
<1>1. PICK request \in pending : SettleRequests({request}, FALSE)
  BY DEF RequestTimesOut
<1>2. AckedIsAlone'
  <2>1. Acked' => Acked
    BY <1>1 DEF Acked, SettleRequests, RequestTimesOut
  <2> QED BY <2>1 DEF IInv, AckedIsAlone, RequestTimesOut
<1>3. working' \in Turns \cup {None}
  BY DEF RequestTimesOut, IInv, TypeOK
<1> QED BY <1>1, <1>2, <1>3, QuietStep DEF RequestTimesOut

LEMMA PromptAcceptedStep ==
    ASSUME NEW r \in inbox, IInv, PromptAccepted(r)
    PROVE  IInv'
<1>1. /\ r \in Request /\ r.kind = "prompt" /\ r.turn \in Turns \cup {None}
      /\ SettleRequests({r}, TRUE)
      /\ inbox' = inbox \ {r}
      /\ working = None /\ working' \in {r.turn, None}
      /\ process = "up"
      /\ UNCHANGED <<run, outcome, active, closed, process, nextId>>
  BY DEF PromptAccepted, Respond, IInv, TypeOK, Request
<1>2. AckedIsAlone'
  <2> SUFFICES ASSUME Acked'
               PROVE  (\A q \in inbox' : q.kind # "prompt") /\ working' \in {run.turn, None}
    BY <1>1 DEF AckedIsAlone
  <2>1. ~Acked
    BY <1>1 DEF IInv, AckedIsAlone
  <2>2. r \in pending
    <3>1. PICK c \in micro' : c.request.kind = "prompt" /\ c.ok /\ c \notin micro
      BY <1>1, <2>1 DEF Acked
    <3>2. c \in [request : {r} \cap pending, ok : {TRUE}]
      BY <1>1, <3>1 DEF SettleRequests
    <3> QED BY <3>2
  <2>3. r.turn = run.turn
    BY <1>1, <2>2 DEF IInv, DecidersAreTheRuns, Decides, Awaited
  <2>4. ASSUME NEW q \in inbox', q.kind = "prompt" PROVE FALSE
    <3>1. q \in inbox /\ q # r /\ r.id <= q.id /\ q.id <= r.id
      BY <1>1, <2>2, <2>4 DEF IInv, PendingPromptIsLast, PromptAccepted
    <3>2. q.id \in Nat /\ r.id \in Nat
      BY <3>1 DEF IInv, TypeOK, Request
    <3>3. q.id = r.id
      BY <3>1, <3>2
    <3> QED BY <3>1, <3>3 DEF IInv, IdsAreFresh
  <2> QED BY <1>1, <2>3, <2>4
<1> QED BY <1>1, <1>2, QuietStep

LEMMA OtherAnswerStep ==
    ASSUME NEW r \in inbox, IInv, AbortAccepted(r) \/ Refused(r)
    PROVE  IInv'
<1>1. PICK ok \in BOOLEAN :
          Respond(r, ok) /\ (ok => r.kind = "abort") /\ process = "up"
  BY DEF AbortAccepted, Refused, Respond
<1>2. UNCHANGED <<run, outcome, active, closed, process, nextId, working>>
  BY DEF AbortAccepted, Refused, Respond
<1>3. SettleRequests({r}, ok) /\ inbox' = inbox \ {r}
  BY <1>1 DEF Respond
<1>4. Acked' => Acked
  <2>1. \A c \in micro' \ micro : c.request = r /\ c.ok = ok
    BY <1>3 DEF SettleRequests
  <2> QED BY <1>1, <1>2, <2>1 DEF Acked
<1>5. AckedIsAlone'
  BY <1>2, <1>3, <1>4 DEF IInv, AckedIsAlone
<1>6. working' \in Turns \cup {None}
  BY <1>2 DEF IInv, TypeOK
<1> QED BY <1>1, <1>2, <1>3, <1>5, <1>6, QuietStep

-----------------------------------------------------------------------------
(* Steps that start or settle the run                                      *)

LEMMA SettlingStep ==
    ASSUME IInv, run.phase # "idle",
           NEW e \in Event \cup {Rejected},
           e \in Event => e.turn = run.turn,
           run' = NoRun, outcome' = [outcome EXCEPT ![run.turn] = e],
           active' = None, nextId' = nextId,
           closed' \in BOOLEAN, process' \in {"up", "exited", "disposed"},
           Awaited' \subseteq Awaited, \A r \in Awaited' : ~Decides(r),
           pending' \subseteq pending, micro' \subseteq Settled, SettledOnce',
           inbox' \subseteq inbox,
           working' \in Turns \cup {None}
    PROVE  IInv'
<1>0. /\ run.turn \in Turns /\ outcome \in [Turns -> Outcomes]
      /\ run'.phase = "idle" /\ run'.buffer = <<>>
  BY RunShape DEF IInv, TypeOK, RunnerTypeOK, NoRun
<1>1. TypeOK'
  <2>1. run' \in Run /\ outcome' \in [Turns -> Outcomes]
    BY <1>0 DEF Run, Outcomes
  <2> QED BY <2>1 DEF IInv, TypeOK, RunnerTypeOK
<1>2. SameTurn'
  BY <1>0 DEF SameTurn
<1>3. OwnOutcome'
  BY <1>0 DEF IInv, OwnOutcome
<1>4. DecidersAreTheRuns'
  BY DEF DecidersAreTheRuns, Decides
<1>5. IdsAreFresh'
  BY DEF IInv, IdsAreFresh
<1>6. PendingPromptIsLast'
  BY DEF IInv, PendingPromptIsLast
<1>7. AckedIsAlone'
  <2>1. ~Acked'
    BY <1>0 DEF Acked, Awaited, Decides
  <2> QED BY <2>1 DEF AckedIsAlone
<1>8. RunIsOpen' /\ AckedOnLiveProcess'
  BY <1>0 DEF RunIsOpen, AckedOnLiveProcess, Awaited, Decides
<1> QED BY <1>1, <1>2, <1>3, <1>4, <1>5, <1>6, <1>7, <1>8 DEF IInv

\* An active turn is the one run() waits for: nothing else will settle it.
LEMMA ActiveDecides ==
    ASSUME IInv, active # None
    PROVE  /\ run.phase = "waiting" /\ run.turn = active /\ process = "up"
           /\ active \in Turns
           /\ \A r \in Awaited : ~Decides(r)
BY RunShape DEF IInv, SameTurn, DecidersAreTheRuns

LEMMA PromptStep ==
    ASSUME NEW t \in Turns, IInv, Prompt(t)
    PROVE  IInv'
<1>0. /\ Idle /\ StartRun(t) /\ Send("prompt", t) /\ process = "up"
      /\ UNCHANGED <<active, closed, process, micro, working>>
  BY DEF Prompt
<1>1. PICK request \in Request :
              /\ request.kind = "prompt" /\ request.turn = t /\ request.id = nextId
              /\ pending' = pending \cup {request}
              /\ inbox' = inbox \cup {request}
              /\ Awaited' = Awaited \cup {request}
              /\ nextId' = nextId + 1
              /\ nextId' \in 1 .. (MaxRequests + 1)
              /\ SettledOnce' /\ IdsAreFresh'
  BY <1>0, SendEffect
<1>2. /\ run.phase = "idle" /\ outcome[t] = None
      /\ run' = [turn |-> t, phase |-> "starting", buffer |-> <<>>]
      /\ outcome' = outcome
  BY <1>0 DEF StartRun, IsNext
<1>3. active = None
  BY <1>2 DEF IInv, SameTurn
<1>4. \A r \in Awaited : ~Decides(r)
  BY <1>2 DEF IInv, DecidersAreTheRuns
<1>5. TypeOK'
  <2>1. run' \in Run
    <3>1. <<>> \in Seq(Event)
      OBVIOUS
    <3> QED BY <1>2, <3>1 DEF Run
  <2> QED BY <1>0, <1>1, <1>2, <2>1 DEF IInv, TypeOK, RunnerTypeOK
<1>6. SameTurn'
  BY <1>0, <1>2, <1>3 DEF SameTurn
<1>7. OwnOutcome' /\ RunIsOpen'
  BY <1>2 DEF IInv, OwnOutcome, RunIsOpen
<1>8. DecidersAreTheRuns'
  BY <1>0, <1>1, <1>2, <1>3, <1>4 DEF DecidersAreTheRuns, Decides
<1>9. PendingPromptIsLast'
  <2>1. \A r \in inbox \cup pending : r.id \in Nat /\ r.id < nextId
    BY DEF IInv, TypeOK, IdsAreFresh, Request, Awaited
  <2>2. \A p \in pending : p.kind # "prompt"
    BY <1>4 DEF Awaited, Decides
  <2>3. nextId \in Nat
    BY DEF IInv, TypeOK
  <2> QED BY <1>1, <2>1, <2>2, <2>3 DEF PendingPromptIsLast
<1>10. AckedIsAlone' /\ AckedOnLiveProcess'
  <2>1. ~Acked' /\ micro' = {}
    BY <1>0, <1>2 DEF Acked, Idle
  <2> QED BY <2>1 DEF AckedIsAlone, AckedOnLiveProcess
<1> QED BY <1>1, <1>5, <1>6, <1>7, <1>8, <1>9, <1>10 DEF IInv

LEMMA PromptFailsStep ==
    ASSUME NEW t \in Turns, IInv, PromptFails(t)
    PROVE  IInv'
<1>0. /\ run.phase = "idle"
      /\ outcome' = [outcome EXCEPT ![t] = Rejected]
      /\ UNCHANGED <<run, active, closed, process, nextId, pending, micro, inbox,
                     working>>
  BY DEF PromptFails
<1>1. Awaited' = Awaited
  BY <1>0 DEF Awaited
<1>2. TypeOK'
  BY <1>0 DEF IInv, TypeOK, RunnerTypeOK, Outcomes
<1>3. SameTurn' /\ DecidersAreTheRuns'
  BY <1>0, <1>1 DEF IInv, SameTurn, Interrupting, DecidersAreTheRuns, Decides
<1>4. OwnOutcome'
  <2>1. Rejected \notin Event
    BY DEF Rejected, Event
  <2> QED BY <1>0, <2>1 DEF IInv, OwnOutcome, TypeOK, RunnerTypeOK
<1>5. SettledOnce' /\ IdsAreFresh' /\ PendingPromptIsLast'
  BY <1>0, <1>1 DEF IInv, SettledOnce, IdsAreFresh, PendingPromptIsLast
<1>6. AckedIsAlone' /\ AckedOnLiveProcess' /\ RunIsOpen'
  BY <1>0 DEF IInv, AckedIsAlone, Acked, AckedOnLiveProcess, RunIsOpen
<1> QED BY <1>2, <1>3, <1>4, <1>5, <1>6 DEF IInv

LEMMA InterruptStep == IInv /\ Interrupt => IInv'
<1> SUFFICES ASSUME IInv, Interrupt PROVE IInv'
  OBVIOUS
<1>0. /\ Idle /\ active' = None /\ Send("abort", active)
      /\ UNCHANGED <<run, outcome, closed, process, micro, working>>
      /\ active \in Turns \cup {None}
  BY DEF Interrupt, IInv, TypeOK
<1>1. PICK request \in Request :
              /\ request.kind = "abort" /\ request.turn = active /\ request.id = nextId
              /\ pending' = pending \cup {request}
              /\ inbox' = inbox \cup {request}
              /\ Awaited' = Awaited \cup {request}
              /\ nextId' = nextId + 1
              /\ nextId' \in 1 .. (MaxRequests + 1)
              /\ SettledOnce' /\ IdsAreFresh'
  BY <1>0, SendEffect
<1>2. TypeOK'
  BY <1>0, <1>1 DEF IInv, TypeOK, RunnerTypeOK
<1>3. SameTurn'
  <2>1. ASSUME run.phase = "waiting" PROVE Interrupting(run.turn)'
    <3>1. CASE active = None
      BY <1>0, <1>1, <2>1, <3>1, RunShape, NoneApart DEF IInv, SameTurn, Interrupting
    <3>2. CASE active # None
      BY <1>0, <1>1, <2>1, <3>2 DEF IInv, SameTurn, Interrupting
    <3> QED BY <3>1, <3>2
  <2> QED BY <1>0, <2>1 DEF SameTurn
<1>4. OwnOutcome' /\ RunIsOpen'
  BY <1>0 DEF IInv, OwnOutcome, RunIsOpen
<1>5. DecidersAreTheRuns'
  <2>1. CASE active = None
    BY <1>0, <1>1, <2>1 DEF IInv, DecidersAreTheRuns, Decides
  <2>2. CASE active # None
    BY <1>0, <1>1, <2>2, ActiveDecides DEF DecidersAreTheRuns, Decides
  <2> QED BY <2>1, <2>2
<1>6. PendingPromptIsLast' /\ AckedIsAlone' /\ AckedOnLiveProcess'
  BY <1>0, <1>1 DEF IInv, PendingPromptIsLast, AckedIsAlone, Acked, AckedOnLiveProcess
<1> QED BY <1>1, <1>2, <1>3, <1>4, <1>5, <1>6 DEF IInv

\* close() and the exit of the process settle the run by an event about the
\* active turn, and reject what is pending.
LEMMA EndStep ==
    ASSUME IInv, Idle, active' = None,
           NEW type \in {"turn_canceled", "turn_failed"},
           IF active # None THEN Observe([type |-> type, turn |-> active])
                            ELSE UNCHANGED <<run, outcome>>,
           RejectPending \/ UNCHANGED <<pending, micro>>,
           closed' \in BOOLEAN, process' \in {"up", "exited", "disposed"},
           UNCHANGED <<nextId, inbox, working>>
    PROVE  IInv'
<1>1. /\ Awaited' = Awaited /\ pending' \subseteq pending
      /\ micro' \subseteq Settled /\ SettledOnce'
  <2>1. CASE RejectPending
    BY <2>1, SettleKeepsAwaited, SettleKeepsOnce DEF IInv, RejectPending, SettleRequests
  <2>2. CASE UNCHANGED <<pending, micro>>
    BY <2>2 DEF IInv, TypeOK, SettledOnce, Awaited
  <2> QED BY <2>1, <2>2
<1>2. working' \in Turns \cup {None} /\ inbox' \subseteq inbox
  BY DEF IInv, TypeOK
<1>3. CASE active = None
  <2>0. \A c \in micro' : ~c.ok
    <3>1. CASE RejectPending
      <4>1. micro' = [request : pending, ok : {FALSE}]
        BY <3>1 DEF RejectPending, SettleRequests, Idle
      <4> QED BY <4>1
    <3>2. CASE UNCHANGED <<pending, micro>>
      BY <3>2 DEF Idle
    <3> QED BY <3>1, <3>2
  <2>1. Acked' => Acked
    BY <1>3, <2>0 DEF Acked
  <2>2. AckedIsAlone'
    BY <1>3, <2>1 DEF IInv, AckedIsAlone
  <2>3. AckedOnLiveProcess'
    BY <2>0 DEF AckedOnLiveProcess
  <2> QED BY <1>1, <1>2, <1>3, <2>2, <2>3, StillStep
<1>4. CASE active # None
  <2> DEFINE e == [type |-> type, turn |-> active]
  <2>1. /\ run.phase = "waiting" /\ run.turn = active /\ active \in Turns
        /\ \A r \in Awaited : ~Decides(r)
    BY <1>4, ActiveDecides
  <2>2. run' = NoRun /\ outcome' = [outcome EXCEPT ![run.turn] = e]
    BY <1>4, <2>1 DEF Observe, Settle
  <2>3. e \in Event \cup {Rejected} /\ e.turn = run.turn
    BY <2>1 DEF Event
  <2>4. run.phase # "idle" /\ nextId' = nextId
    BY <2>1
  <2>5. Awaited' \subseteq Awaited /\ \A r \in Awaited' : ~Decides(r)
    BY <1>1, <2>1
  <2> HIDE DEF e
  <2> QED BY <1>1, <1>2, <2>2, <2>3, <2>4, <2>5, SettlingStep
<1> QED BY <1>3, <1>4

LEMMA CloseStep == IInv /\ Close => IInv'
<1> SUFFICES ASSUME IInv, Close PROVE IInv'
  OBVIOUS
<1>1. /\ Idle /\ active' = None
      /\ UNCHANGED <<nextId, inbox, working>>
      /\ closed' \in BOOLEAN
  BY DEF Close
<1>2. IF active # None THEN Observe([type |-> "turn_canceled", turn |-> active])
                       ELSE UNCHANGED <<run, outcome>>
  BY DEF Close, Cancel
<1>3. /\ RejectPending \/ UNCHANGED <<pending, micro>>
      /\ process' \in {"up", "exited", "disposed"}
  BY DEF Close, IInv, TypeOK
<1> QED BY <1>1, <1>2, <1>3, EndStep

LEMMA ProcessExitsStep == IInv /\ ProcessExits => IInv'
<1> SUFFICES ASSUME IInv, ProcessExits PROVE IInv'
  OBVIOUS
<1>1. /\ Idle /\ active' = None /\ RejectPending
      /\ UNCHANGED <<nextId, inbox, working>>
      /\ closed' \in BOOLEAN /\ process' \in {"up", "exited", "disposed"}
  BY DEF ProcessExits, IInv, TypeOK
<1>2. IF active # None THEN Observe([type |-> "turn_failed", turn |-> active])
                       ELSE UNCHANGED <<run, outcome>>
  BY DEF ProcessExits
<1> QED BY <1>1, <1>2, EndStep

-----------------------------------------------------------------------------
(* Continuations and the end of a turn                                     *)

\* A continuation is taken off the queue.
LEMMA ResumesEffect ==
    ASSUME NEW c \in micro, NEW kind, IInv, Resumes(c, kind)
    PROVE  /\ c.request \in Request /\ c.request.kind = kind /\ c.ok \in BOOLEAN
           /\ c.request \in Awaited
           /\ Awaited' = Awaited \ {c.request}
           /\ pending' = pending /\ micro' \subseteq micro /\ micro' \subseteq Settled
           /\ SettledOnce'
           /\ UNCHANGED <<closed, process, nextId, inbox, working>>
<1>1. /\ micro' = micro \ {c} /\ c.request.kind = kind
      /\ UNCHANGED <<closed, process, nextId, pending, inbox, working>>
  BY DEF Resumes
<1>2. c \in Settled /\ micro \subseteq Settled
  BY DEF IInv, TypeOK
<1>3. c.request \in Request /\ c.ok \in BOOLEAN
  BY <1>2 DEF Settled
<1>4. c.request \in Awaited
  BY DEF Awaited
<1>5. Awaited' = Awaited \ {c.request}
  <2>1. ASSUME NEW r PROVE r \in Awaited' <=> r \in Awaited /\ r # c.request
    <3>1. r \in Awaited' <=> r \in pending \/ \E d \in micro \ {c} : d.request = r
      BY <1>1 DEF Awaited
    <3>2. r \in Awaited <=> r \in pending \/ \E d \in micro : d.request = r
      BY DEF Awaited
    <3>3. c.request \notin pending /\ \A d \in micro : d.request = c.request => d = c
      BY DEF IInv, SettledOnce
    <3> QED BY <3>1, <3>2, <3>3
  <2> QED BY <2>1
<1>6. SettledOnce'
  BY <1>1 DEF IInv, SettledOnce
<1> QED BY <1>1, <1>2, <1>3, <1>4, <1>5, <1>6

\* Once the request the run depends on is gone, no other decides.
LEMMA LastDecider ==
    ASSUME NEW r \in Awaited, IInv, Decides(r), Awaited' = Awaited \ {r}
    PROVE  \A q \in Awaited' : ~Decides(q)
BY DEF IInv, DecidersAreTheRuns, Decides

LEMMA StartReturnsStep ==
    ASSUME NEW c \in micro, IInv, StartReturns(c)
    PROVE  IInv'
<1>0. Resumes(c, "prompt") /\ c.ok /\ StartTurnReturns /\ active' = c.request.turn
  BY DEF StartReturns
<1>1. /\ c.request \in Request /\ c.request.kind = "prompt"
      /\ c.request \in Awaited
      /\ Awaited' = Awaited \ {c.request}
      /\ pending' = pending /\ micro' \subseteq micro /\ micro' \subseteq Settled
      /\ SettledOnce'
      /\ UNCHANGED <<closed, process, nextId, inbox, working>>
  BY <1>0, ResumesEffect
<1>2. Decides(c.request)
  BY <1>1 DEF Decides
<1>3. /\ run.phase = "starting" /\ c.request.turn = run.turn /\ run.turn \in Turns
      /\ run.buffer = <<>>
  BY <1>1, <1>2, RunShape DEF IInv, DecidersAreTheRuns, RunIsOpen
<1>4. run' = [run EXCEPT !.phase = "waiting", !.buffer = <<>>] /\ outcome' = outcome
  <2>1. run' = [run EXCEPT !.phase = "waiting"] /\ outcome' = outcome
    BY <1>0, <1>3 DEF StartTurnReturns
  <2>2. run \in [turn : Turns, phase : {"starting", "waiting"}, buffer : Seq(Event)]
    BY <1>3 DEF IInv, TypeOK, RunnerTypeOK, Run, NoRun
  <2> QED BY <1>3, <2>1, <2>2
<1>5. /\ run' \in Run /\ run'.phase = "waiting" /\ run'.turn = run.turn
      /\ run'.buffer = <<>>
  <2>1. run \in [turn : Turns, phase : {"starting", "waiting"}, buffer : Seq(Event)]
    BY <1>3 DEF IInv, TypeOK, RunnerTypeOK, Run, NoRun
  <2>2. <<>> \in Seq(Event)
    OBVIOUS
  <2> QED BY <1>4, <2>1, <2>2 DEF Run
<1>6. \A q \in Awaited' : ~Decides(q)
  BY <1>1, <1>2, LastDecider
<1>7. TypeOK'
  BY <1>0, <1>1, <1>3, <1>4, <1>5 DEF IInv, TypeOK, RunnerTypeOK
<1>8. process = "up"
  BY <1>0, <1>1 DEF IInv, AckedOnLiveProcess
<1>9. SameTurn'
  BY <1>0, <1>1, <1>3, <1>5, <1>8, NoneApart DEF SameTurn
<1>10. OwnOutcome'
  BY <1>4 DEF IInv, OwnOutcome
<1>11. DecidersAreTheRuns'
  BY <1>6 DEF DecidersAreTheRuns, Decides
<1>12. IdsAreFresh' /\ PendingPromptIsLast'
  BY <1>1 DEF IInv, IdsAreFresh, PendingPromptIsLast
<1>13. AckedIsAlone' /\ AckedOnLiveProcess'
  BY <1>0, <1>1, <1>5 DEF IInv, AckedIsAlone, Acked, AckedOnLiveProcess
<1>14. RunIsOpen'
  BY <1>3, <1>4, <1>5 DEF IInv, RunIsOpen
<1> QED
  BY <1>1, <1>7, <1>9, <1>10, <1>11, <1>12, <1>13, <1>14 DEF IInv

LEMMA StartFailsStep ==
    ASSUME NEW c \in micro, IInv, StartFails(c)
    PROVE  IInv'
<1>0. Resumes(c, "prompt") /\ StartTurnFails /\ active' = active
  BY DEF StartFails
<1>1. /\ c.request \in Request /\ c.request.kind = "prompt"
      /\ c.request \in Awaited
      /\ Awaited' = Awaited \ {c.request}
      /\ pending' = pending /\ micro' \subseteq Settled /\ SettledOnce'
      /\ UNCHANGED <<closed, process, nextId, inbox, working>>
  BY <1>0, ResumesEffect
<1>2. Decides(c.request)
  BY <1>1 DEF Decides
<1>3. active = None
  BY <1>1, <1>2 DEF IInv, DecidersAreTheRuns
<1>4. /\ run.phase # "idle"
      /\ run' = NoRun /\ outcome' = [outcome EXCEPT ![run.turn] = Rejected]
  BY <1>0 DEF StartTurnFails, Settle
<1>5. \A q \in Awaited' : ~Decides(q)
  BY <1>1, <1>2, LastDecider
<1>6. Rejected \notin Event
  BY DEF Rejected, Event
<1>7. /\ closed' \in BOOLEAN /\ process' \in {"up", "exited", "disposed"}
      /\ working' \in Turns \cup {None}
  BY <1>1 DEF IInv, TypeOK
<1>8. active' = None /\ Awaited' \subseteq Awaited
  BY <1>0, <1>1, <1>3
<1> QED BY <1>1, <1>4, <1>5, <1>6, <1>7, <1>8, SettlingStep

LEMMA InterruptReturnsStep ==
    ASSUME NEW c \in micro, IInv, InterruptReturns(c)
    PROVE  IInv'
<1>0. Resumes(c, "abort") /\ Cancel(c.request.turn) /\ active' = active
  BY DEF InterruptReturns
<1>1. /\ c.request \in Request /\ c.request.kind = "abort"
      /\ c.request \in Awaited
      /\ Awaited' = Awaited \ {c.request}
      /\ pending' = pending /\ micro' \subseteq micro
      /\ micro' \subseteq Settled /\ SettledOnce'
      /\ UNCHANGED <<closed, process, nextId, inbox, working>>
  BY <1>0, ResumesEffect
<1>2. /\ closed' \in BOOLEAN /\ process' \in {"up", "exited", "disposed"}
      /\ working' \in Turns \cup {None}
      /\ inbox' \subseteq inbox
  BY <1>1 DEF IInv, TypeOK
<1>3. CASE c.request.turn = None
  <2>1. UNCHANGED <<run, outcome, active, nextId>>
    BY <1>0, <1>1, <1>3 DEF Cancel
  <2>2. ~Decides(c.request)
    BY <1>1, <1>3 DEF Decides
  <2>3. \A r \in Awaited : Decides(r) => r \in Awaited'
    BY <1>1, <2>2
  <2>4. AckedIsAlone' /\ AckedOnLiveProcess'
    BY <1>1, <2>1 DEF IInv, AckedIsAlone, Acked, AckedOnLiveProcess
  <2>5. active # None => process' = "up"
    BY <1>1 DEF IInv, SameTurn
  <2> QED BY <1>1, <1>2, <2>1, <2>3, <2>4, <2>5, StillStep
<1>4. CASE c.request.turn # None
  <2> DEFINE e == [type |-> "turn_canceled", turn |-> c.request.turn]
  <2>1. Decides(c.request)
    BY <1>4 DEF Decides
  <2>2. /\ run.phase = "waiting" /\ run.turn = c.request.turn /\ active = None
        /\ run.turn \in Turns
    BY <1>1, <2>1, RunShape DEF IInv, DecidersAreTheRuns
  <2>3. run' = NoRun /\ outcome' = [outcome EXCEPT ![run.turn] = e]
    BY <1>0, <1>4, <2>2 DEF Cancel, Observe, Settle
  <2>4. e \in Event \cup {Rejected} /\ e.turn = run.turn
    BY <2>2 DEF Event
  <2>5. \A q \in Awaited' : ~Decides(q)
    BY <1>1, <2>1, LastDecider
  <2>6. run.phase # "idle" /\ active' = None /\ Awaited' \subseteq Awaited
    BY <1>0, <1>1, <2>2
  <2> HIDE DEF e
  <2> QED BY <1>1, <1>2, <2>3, <2>4, <2>5, <2>6, SettlingStep
<1> QED BY <1>3, <1>4

\* A turn that ends while a turn is active is that turn.
LEMMA AgentEndsStep == IInv /\ AgentEnds => IInv'
<1> SUFFICES ASSUME IInv, AgentEnds PROVE IInv'
  OBVIOUS
<1>0. /\ working \in Turns /\ working' = None
      /\ active' = None
      /\ UNCHANGED <<closed, process, nextId, pending, micro, inbox>>
  BY DEF AgentEnds, AgentStops, IInv, TypeOK
<1>1. /\ Awaited' = Awaited /\ SettledOnce' /\ micro' \subseteq Settled
      /\ closed' \in BOOLEAN /\ process' \in {"up", "exited", "disposed"}
      /\ pending' \subseteq pending /\ inbox' \subseteq inbox
      /\ Awaited' \subseteq Awaited
  BY <1>0 DEF Awaited, IInv, TypeOK, SettledOnce
<1>2. CASE active = None
  <2>1. UNCHANGED <<run, outcome, active, nextId>>
    BY <1>0, <1>2 DEF AgentEnds
  <2>2. AckedIsAlone' /\ AckedOnLiveProcess'
    BY <1>0, <2>1 DEF IInv, AckedIsAlone, Acked, AckedOnLiveProcess
  <2> QED BY <1>0, <1>1, <1>2, <2>1, <2>2, StillStep
<1>3. CASE active # None
  <2> DEFINE e == [type |-> "turn_completed", turn |-> working]
  <2>1. /\ run.phase = "waiting" /\ run.turn = active
        /\ \A r \in Awaited : ~Decides(r)
    BY <1>3, ActiveDecides
  <2>2. working = run.turn
    BY <1>0, <2>1, NoneApart DEF IInv, AckedIsAlone, Acked
  <2>3. run' = NoRun /\ outcome' = [outcome EXCEPT ![run.turn] = e]
    BY <1>3, <2>1 DEF AgentEnds, Observe, Settle
  <2>4. e \in Event \cup {Rejected} /\ e.turn = run.turn
    BY <1>0, <2>2 DEF Event
  <2>5. run.phase # "idle" /\ \A r \in Awaited' : ~Decides(r)
    BY <1>1, <2>1
  <2>6. working' \in Turns \cup {None}
    BY <1>0
  <2> HIDE DEF e
  <2> QED BY <1>0, <1>1, <2>3, <2>4, <2>5, <2>6, SettlingStep
<1> QED BY <1>2, <1>3

-----------------------------------------------------------------------------
(* The theorems                                                            *)

LEMMA StutterStep == IInv /\ UNCHANGED vars => IInv'
<1> SUFFICES ASSUME IInv, UNCHANGED vars PROVE IInv'
  OBVIOUS
<1>1. Awaited' = Awaited
  BY DEF vars, Awaited
<1>2. AckedIsAlone' /\ AckedOnLiveProcess' /\ SettledOnce'
  BY DEF vars, IInv, AckedIsAlone, Acked, AckedOnLiveProcess, SettledOnce
<1>3. /\ closed' \in BOOLEAN /\ process' \in {"up", "exited", "disposed"}
      /\ active # None => process' = "up"
      /\ micro' \subseteq Settled
      /\ working' \in Turns \cup {None}
  BY DEF vars, IInv, TypeOK, SameTurn
<1> QED BY <1>1, <1>2, <1>3, StillStep DEF vars

LEMMA NextStep == IInv /\ [Next]_vars => IInv'
<1> SUFFICES ASSUME IInv, [Next]_vars PROVE IInv'
  OBVIOUS
<1>1. ASSUME NEW t \in Turns, Prompt(t) \/ PromptFails(t) PROVE IInv'
  BY <1>1, PromptStep, PromptFailsStep
<1>2. CASE Interrupt \/ Close \/ RequestTimesOut \/ ProcessExits
  BY <1>2, InterruptStep, CloseStep, RequestTimesOutStep, ProcessExitsStep
<1>3. CASE Continue
  BY <1>3, StartReturnsStep, StartFailsStep, InterruptReturnsStep DEF Continue
<1>4. CASE Lines
  BY <1>4, PromptAcceptedStep, OtherAnswerStep, AgentEndsStep DEF Lines
<1>5. CASE UNCHANGED vars
  BY <1>5, StutterStep
<1> QED BY <1>1, <1>2, <1>3, <1>4, <1>5 DEF Next

\* The inductive invariant of a Pi session: at most one request decides the
\* run, and once its prompt is acknowledged Pi works on nothing else.
THEOREM IInvInvariant == Spec => []IInv
<1>1. Init => IInv
  BY InitIInv
<1>2. IInv /\ [Next]_vars => IInv'
  BY NextStep
<1> QED BY <1>1, <1>2, PTL DEF Spec

\* The state of a Pi session keeps its type, for any number of prompts and
\* requests.
THEOREM TypeCorrect == Spec => []TypeOK
<1>1. IInv => TypeOK
  BY DEF IInv
<1> QED BY <1>1, IInvInvariant, PTL

\* The session and the run agree on the turn: a waiting run can always be
\* settled by an interrupt, a close or the exit of the process.
THEOREM SameTurnAlways == Spec => []SameTurn
<1>1. IInv => SameTurn
  BY DEF IInv
<1> QED BY <1>1, IInvInvariant, PTL

\* No run is settled by an event of another turn, whatever is late or times out.
THEOREM OwnOutcomeAlways == Spec => []OwnOutcome
<1>1. IInv => OwnOutcome
  BY DEF IInv
<1> QED BY <1>1, IInvInvariant, PTL

\* A turn interrupted while active is not reported completed.
THEOREM InterruptedNotCompletedAlways == Spec => []InterruptedNotCompleted
<1>1. IInv => InterruptedNotCompleted
  <2> SUFFICES ASSUME IInv, NEW t \in Turns, Interrupting(t)
               PROVE  outcome[t] = None
    BY NoneApart DEF InterruptedNotCompleted
  <2>1. PICK r \in Awaited : r.kind = "abort" /\ r.turn = t
    BY DEF Interrupting
  <2>2. run.phase = "waiting" /\ run.turn = t
    BY <2>1, NoneApart DEF IInv, DecidersAreTheRuns, Decides
  <2> QED BY <2>2 DEF IInv, RunIsOpen
<1> QED BY <1>1, IInvInvariant, PTL

-----------------------------------------------------------------------------
(* The session keeps the contract of run()                                 *)

Canceled(t) == outcome[t] # None /\ outcome[t].type = "turn_canceled"

Verdicts == [t \in Turns |-> Verdict(t)]

\* What the contract sees of a step that settles no run and sends no abort.
LEMMA SilentStep ==
    ASSUME UNCHANGED <<run, outcome>>, \A t \in Turns : Interrupting(t)' <=> Interrupting(t)
    PROVE  UNCHANGED <<run.turn, Asked, Verdicts>>
<1>1. Asked' = Asked
  BY DEF Asked
<1>2. Verdicts' = Verdicts
  BY DEF Verdicts, Verdict
<1> QED BY <1>1, <1>2

LEMMA SilentWhenAwaited ==
    ASSUME UNCHANGED <<run, outcome>>, Awaited' = Awaited
    PROVE  UNCHANGED <<run.turn, Asked, Verdicts>>
BY SilentStep DEF Interrupting

LEMMA VerdictOf ==
    ASSUME IInv, NEW t \in Turns
    PROVE  /\ Verdict(t) = IF outcome[t] = None THEN None ELSE outcome[t].type
           /\ Verdict(t) = None <=> outcome[t] = None
<1>1. outcome[t] \in Event \cup {Rejected, None}
  BY DEF IInv, TypeOK, RunnerTypeOK, Outcomes
<1>2. CASE outcome[t] \in Event
  <2>1. outcome[t].turn = t /\ outcome[t].type # None /\ outcome[t] # None
    BY <1>2, WordAssumption, NoneAssumption DEF IInv, OwnOutcome, Event
  <2> QED BY <2>1 DEF Verdict
<1>3. CASE outcome[t] = Rejected
  <2>1. outcome[t].type # None /\ outcome[t] # None
    BY <1>3, WordAssumption, NoneAssumption DEF Rejected
  <2> QED BY <1>3, <2>1 DEF Verdict
<1> QED BY <1>1, <1>2, <1>3 DEF Verdict

\* What it sees of one that settles the run.
LEMMA ContractSettles ==
    ASSUME IInv, IInv', NEW e \in Event \cup {Rejected},
           run.phase # "idle", Settle(e)
    PROVE  /\ run.turn \in Turns /\ run.turn # None /\ run'.turn = None
           /\ Verdicts' = [Verdicts EXCEPT ![run.turn] = e.type]
           /\ \A t \in Turns : Canceled(t)' <=>
                 Canceled(t) \/ (t = run.turn /\ e.type = "turn_canceled")
           /\ ~Canceled(run.turn)
<1>1. /\ run.turn \in Turns /\ run' = NoRun /\ outcome[run.turn] = None
      /\ outcome \in [Turns -> Outcomes]
      /\ outcome' = [outcome EXCEPT ![run.turn] = e]
  BY RunShape DEF Settle, IInv, RunIsOpen, TypeOK, RunnerTypeOK
<1>2. e # None
  BY NoneAssumption
<1>3. ASSUME NEW t \in Turns
      PROVE  Verdict(t)' = IF t = run.turn THEN e.type ELSE Verdict(t)
  <2>1. CASE t = run.turn
    <3>1. outcome'[t] = e
      BY <1>1, <2>1
    <3>2. e = Rejected \/ e.turn = t
      BY <3>1 DEF IInv, OwnOutcome
    <3> QED BY <1>2, <2>1, <3>1, <3>2 DEF Verdict
  <2>2. CASE t # run.turn
    BY <1>1, <2>2 DEF Verdict
  <2> QED BY <2>1, <2>2
<1>4. Verdicts' = [Verdicts EXCEPT ![run.turn] = e.type]
  BY <1>1, <1>3 DEF Verdicts
<1> QED BY <1>1, <1>2, <1>4, NoneApart DEF Canceled, NoRun

LEMMA ContractInit == Init => Contract!Init
<1> SUFFICES ASSUME Init PROVE Contract!Init
  OBVIOUS
<1>1. run.turn = None /\ Awaited = {} /\ \A t \in Turns : outcome[t] = None
  BY DEF Init, RunnerInit, NoRun, Awaited
<1> QED BY <1>1 DEF Contract!Init, Asked, Interrupting, Verdict, Contract!Turns, Turns

LEMMA ContractIsNext ==
    ASSUME IInv, NEW t \in Turns, IsNext(t)
    PROVE  Contract!IsNext(t)
<1>1. t \in Nat /\ \A u \in 1 .. (t - 1) : u \in Turns
  BY TurnsAssumption DEF Turns
<1> QED BY <1>1, VerdictOf DEF Contract!IsNext, IsNext

\* The contract's steps, of the state it sees.
LEMMA ContractVerdict ==
    ASSUME NEW type \in {"turn_completed", "turn_failed", "turn_canceled", "rejected"},
           run.turn # None, run'.turn = None, Asked' = Asked,
           IF run.turn \in Asked THEN type \in {"turn_canceled", "rejected"}
                                 ELSE type # "turn_canceled",
           Verdicts' = [Verdicts EXCEPT ![run.turn] = type]
    PROVE  Contract!Next
<1>1. Contract!Settle(type)
  BY DEF Contract!Settle, Contract!Verdicts, Verdicts
<1> QED BY <1>1 DEF Contract!Next, Contract!Verdicts

LEMMA ContractStops ==
    ASSUME run.turn # None, run'.turn = None, Asked' = Asked \cup {run.turn},
           Verdicts' = [Verdicts EXCEPT ![run.turn] = "turn_canceled"]
    PROVE  Contract!Next
BY DEF Contract!Next, Contract!StopAtOnce, Verdicts

LEMMA ContractPrompt ==
    ASSUME NEW t \in Turns, IInv, Prompt(t)
    PROVE  Contract!Next
<1>1. /\ Idle /\ Send("prompt", t) /\ micro' = micro
      /\ run.turn = None /\ run'.turn = t /\ outcome' = outcome /\ IsNext(t)
  BY RunShape DEF Prompt, StartRun, IInv, NoRun
<1>2. PICK request \in Request : request.kind = "prompt" /\ Awaited' = Awaited \cup {request}
  BY <1>1, SendEffect
<1>3. Asked' = Asked /\ Verdicts' = Verdicts
  BY <1>1, <1>2 DEF Asked, Interrupting, Verdicts, Verdict
<1>4. Contract!Begin(t)
  BY <1>1, <1>3, ContractIsNext DEF Contract!Begin, Verdicts
<1> QED BY <1>4 DEF Contract!Next, Contract!Turns, Turns

LEMMA ContractPromptFails ==
    ASSUME NEW t \in Turns, IInv, IInv', PromptFails(t)
    PROVE  Contract!Next
<1>1. /\ run.turn = None /\ run' = run /\ Awaited' = Awaited /\ IsNext(t)
      /\ outcome' = [outcome EXCEPT ![t] = Rejected]
      /\ outcome \in [Turns -> Outcomes] /\ outcome[t] = None
  BY RunShape DEF PromptFails, IInv, NoRun, Awaited, IsNext, TypeOK, RunnerTypeOK
<1>2. Rejected.type = "rejected" /\ Rejected # None
  BY NoneAssumption DEF Rejected
<1>3. Verdicts' = [Verdicts EXCEPT ![t] = "rejected"]
  <2>1. ASSUME NEW u \in Turns
        PROVE  Verdict(u)' = IF u = t THEN "rejected" ELSE Verdict(u)
    BY <1>1, <1>2 DEF Verdict
  <2> QED BY <2>1 DEF Verdicts
<1>4. Asked' = Asked
  BY <1>1, <1>2 DEF Asked, Interrupting
<1>5. Contract!Refuse(t)
  BY <1>1, <1>3, <1>4, ContractIsNext DEF Contract!Refuse, Verdicts
<1> QED BY <1>5 DEF Contract!Next, Contract!Turns, Turns

LEMMA ContractInterrupt ==
    ASSUME IInv, Interrupt
    PROVE  Contract!Next \/ UNCHANGED <<run.turn, Asked, Verdicts>>
<1>1. /\ Idle /\ Send("abort", active) /\ active \in Turns \cup {None}
      /\ UNCHANGED <<run, outcome, micro>>
  BY DEF Interrupt, IInv, TypeOK
<1>2. PICK request \in Request :
          request.kind = "abort" /\ request.turn = active /\ Awaited' = Awaited \cup {request}
  BY <1>1, SendEffect
<1>3. CASE active = None
  <2>1. \A t \in Turns : Interrupting(t)' <=> Interrupting(t)
    BY <1>2, <1>3, NoneApart DEF Interrupting
  <2> QED BY <1>1, <2>1, SilentStep
<1>4. CASE active # None
  <2>1. run.turn = active /\ active \in Turns
    BY <1>4, ActiveDecides
  <2>2. \A t \in Turns : Interrupting(t)' <=> Interrupting(t) \/ t = active
    BY <1>2 DEF Interrupting
  <2>3. Asked' = Asked \cup {run.turn}
    BY <1>1, <2>1, <2>2 DEF Asked
  <2>4. Verdicts' = Verdicts
    BY <1>1 DEF Verdicts, Verdict
  <2> QED BY <1>1, <1>4, <2>1, <2>3, <2>4 DEF Contract!Next, Contract!AskToStop, Verdicts
<1> QED BY <1>3, <1>4

\* An event about the active turn is its verdict: no interrupt of it is under way.
LEMMA ActiveSettles ==
    ASSUME IInv, IInv', active # None, Awaited' = Awaited,
           NEW e \in Event, Observe(e)
    PROVE  /\ run.turn \in Turns /\ run.turn # None /\ run'.turn = None
           /\ Verdicts' = [Verdicts EXCEPT ![run.turn] = e.type]
           /\ run.turn \notin Asked
           /\ Asked' = IF e.type = "turn_canceled" THEN Asked \cup {run.turn} ELSE Asked
<1>1. run.phase = "waiting" /\ \A r \in Awaited : ~Decides(r)
  BY ActiveDecides
<1>2. Settle(e)
  BY <1>1 DEF Observe
<1>3. /\ run.turn \in Turns /\ run.turn # None /\ run'.turn = None
      /\ Verdicts' = [Verdicts EXCEPT ![run.turn] = e.type]
      /\ \A t \in Turns : Canceled(t)' <=> Canceled(t) \/ (t = run.turn /\ e.type = "turn_canceled")
      /\ ~Canceled(run.turn)
  BY <1>1, <1>2, ContractSettles
<1>4. ~Interrupting(run.turn)
  BY <1>1, <1>3 DEF Interrupting, Decides
<1>5. \A t \in Turns : Interrupting(t)' <=> Interrupting(t)
  BY DEF Interrupting
<1> QED BY <1>3, <1>4, <1>5 DEF Asked, Canceled

LEMMA ContractClose ==
    ASSUME IInv, IInv', Close
    PROVE  Contract!Next \/ UNCHANGED <<run.turn, Asked, Verdicts>>
<1>1. Cancel(active)
  BY DEF Close
<1>2. Awaited' = Awaited
  <2>1. RejectPending \/ UNCHANGED <<pending, micro>>
    BY DEF Close
  <2> QED BY <2>1, SettleKeepsAwaited DEF RejectPending, Awaited
<1>3. CASE active = None
  <2>1. UNCHANGED <<run, outcome>>
    BY <1>1, <1>3 DEF Cancel
  <2> QED BY <1>2, <2>1, SilentWhenAwaited
<1>4. CASE active # None
  <2> DEFINE e == [type |-> "turn_canceled", turn |-> active]
  <2>1. e \in Event /\ Observe(e) /\ e.type = "turn_canceled"
    BY <1>1, <1>4 DEF Cancel, Event, IInv, TypeOK
  <2> HIDE DEF e
  <2> QED BY <1>2, <1>4, <2>1, ActiveSettles, ContractStops
<1> QED BY <1>3, <1>4

LEMMA ContractEnds ==
    ASSUME IInv, IInv', AgentEnds \/ ProcessExits
    PROVE  Contract!Next \/ UNCHANGED <<run.turn, Asked, Verdicts>>
<1>1. Awaited' = Awaited
  BY SettleKeepsAwaited DEF AgentEnds, ProcessExits, RejectPending, Awaited
<1>2. CASE active = None
  <2>1. UNCHANGED <<run, outcome>>
    BY <1>2 DEF AgentEnds, ProcessExits
  <2> QED BY <1>1, <2>1, SilentWhenAwaited
<1>3. CASE active # None
  <2>1. PICK e \in Event : Observe(e) /\ e.type \in {"turn_completed", "turn_failed"}
    BY <1>3 DEF AgentEnds, ProcessExits, Event, IInv, TypeOK
  <2>2. e.type # "turn_canceled"
    BY <2>1
  <2>3. /\ run.turn # None /\ run'.turn = None
        /\ Verdicts' = [Verdicts EXCEPT ![run.turn] = e.type]
        /\ run.turn \notin Asked /\ Asked' = Asked
    BY <1>1, <1>3, <2>1, <2>2, ActiveSettles
  <2> QED BY <2>1, <2>2, <2>3, ContractVerdict
<1> QED BY <1>2, <1>3

LEMMA ContractStartReturns ==
    ASSUME NEW c \in micro, IInv, StartReturns(c)
    PROVE  UNCHANGED <<run.turn, Asked, Verdicts>>
<1>1. Resumes(c, "prompt") /\ StartTurnReturns
  BY DEF StartReturns
<1>2. c.request.kind = "prompt" /\ Awaited' = Awaited \ {c.request}
  BY <1>1, ResumesEffect
<1>3. run.phase = "starting" /\ run.buffer = <<>> /\ run.turn \in Turns
  BY <1>1, RunShape DEF StartTurnReturns, IInv, RunIsOpen
<1>4. run' = [run EXCEPT !.phase = "waiting"] /\ outcome' = outcome
  BY <1>1, <1>3 DEF StartTurnReturns
<1>5. run'.turn = run.turn
  BY <1>3, <1>4 DEF IInv, TypeOK, RunnerTypeOK, Run, NoRun
<1>6. Asked' = Asked /\ Verdicts' = Verdicts
  BY <1>2, <1>4 DEF Asked, Interrupting, Verdicts, Verdict
<1> QED BY <1>5, <1>6

LEMMA ContractStartFails ==
    ASSUME NEW c \in micro, IInv, IInv', StartFails(c)
    PROVE  Contract!Next
<1>1. Resumes(c, "prompt") /\ Settle(Rejected) /\ run.phase # "idle"
  BY DEF StartFails, StartTurnFails
<1>2. c.request.kind = "prompt" /\ Awaited' = Awaited \ {c.request}
  BY <1>1, ResumesEffect
<1>3. Rejected \in Event \cup {Rejected} /\ Rejected.type = "rejected"
  BY DEF Rejected
<1>4. /\ run.turn # None /\ run'.turn = None
      /\ Verdicts' = [Verdicts EXCEPT ![run.turn] = "rejected"]
      /\ \A t \in Turns : Canceled(t)' <=> Canceled(t)
  BY <1>1, <1>3, ContractSettles
<1>5. \A t \in Turns : Interrupting(t)' <=> Interrupting(t)
  BY <1>2 DEF Interrupting
<1>6. Asked' = Asked
  BY <1>4, <1>5 DEF Asked, Canceled
<1> QED BY <1>4, <1>6, ContractVerdict

LEMMA ContractInterruptReturns ==
    ASSUME NEW c \in micro, IInv, IInv', InterruptReturns(c)
    PROVE  Contract!Next \/ UNCHANGED <<run.turn, Asked, Verdicts>>
<1>1. Resumes(c, "abort") /\ Cancel(c.request.turn)
  BY DEF InterruptReturns
<1>2. /\ c.request.kind = "abort" /\ c.request \in Awaited
      /\ Awaited' = Awaited \ {c.request}
  BY <1>1, ResumesEffect
<1>3. CASE c.request.turn = None
  <2>1. UNCHANGED <<run, outcome>>
    BY <1>1, <1>3 DEF Cancel
  <2>2. \A t \in Turns : Interrupting(t)' <=> Interrupting(t)
    BY <1>2, <1>3, NoneApart DEF Interrupting
  <2> QED BY <2>1, <2>2, SilentStep
<1>4. CASE c.request.turn # None
  <2> DEFINE e == [type |-> "turn_canceled", turn |-> c.request.turn]
  <2>1. Decides(c.request)
    BY <1>4 DEF Decides
  <2>2. run.phase = "waiting" /\ run.turn = c.request.turn /\ run.turn \in Turns
    BY <1>2, <2>1, RunShape DEF IInv, DecidersAreTheRuns
  <2>3. e \in Event \cup {Rejected} /\ Settle(e) /\ e.type = "turn_canceled"
    BY <1>1, <1>4, <2>2 DEF Cancel, Observe, Event
  <2> HIDE DEF e
  <2>4. /\ run.turn # None /\ run'.turn = None
        /\ Verdicts' = [Verdicts EXCEPT ![run.turn] = "turn_canceled"]
        /\ \A t \in Turns : Canceled(t)' <=> Canceled(t) \/ t = run.turn
    BY <2>2, <2>3, ContractSettles
  <2>5. Interrupting(run.turn)
    BY <1>2, <2>2 DEF Interrupting
  <2>6. \A t \in Turns : Interrupting(t)' \/ t = run.turn <=> Interrupting(t)
    BY <1>2, <2>2, <2>5 DEF Interrupting, Decides
  <2>7. Asked' = Asked /\ run.turn \in Asked
    BY <2>2, <2>4, <2>5, <2>6 DEF Asked, Canceled
  <2> QED BY <2>4, <2>7, ContractVerdict
<1> QED BY <1>3, <1>4

\* Every step is one of the contract's, or none.
LEMMA ContractStep ==
    ASSUME IInv, IInv', [Next]_vars
    PROVE  [Contract!Next]_(Contract!vars)
<1> SUFFICES Contract!Next \/ UNCHANGED <<run.turn, Asked, Verdicts>>
  BY DEF Contract!vars, Verdicts
<1>1. ASSUME NEW t \in Turns, Prompt(t) \/ PromptFails(t) PROVE Contract!Next
  BY <1>1, ContractPrompt, ContractPromptFails
<1>2. CASE RequestTimesOut
  <2>1. Awaited' = Awaited /\ UNCHANGED <<run, outcome>>
    BY <1>2, SettleKeepsAwaited DEF RequestTimesOut
  <2> QED BY <2>1, SilentWhenAwaited
<1>3. ASSUME NEW r \in inbox, PromptAccepted(r) \/ AbortAccepted(r) \/ Refused(r)
      PROVE  UNCHANGED <<run.turn, Asked, Verdicts>>
  <2>1. Awaited' = Awaited /\ UNCHANGED <<run, outcome>>
    BY <1>3, SettleKeepsAwaited DEF PromptAccepted, AbortAccepted, Refused, Respond
  <2> QED BY <2>1, SilentWhenAwaited
<1>4. CASE Continue
  BY <1>4, ContractStartReturns, ContractStartFails, ContractInterruptReturns DEF Continue
<1>5. CASE UNCHANGED vars
  BY <1>5, SilentWhenAwaited DEF vars, Awaited
<1> QED BY <1>1, <1>2, <1>3, <1>4, <1>5, ContractInterrupt, ContractClose, ContractEnds
        DEF Next, Lines

\* A Pi session keeps what a session promises the caller of run(), however late
\* Pi answers and whatever times out: turns are settled one at a time and once
\* each, by their own events, and a turn whose abort was sent while it was active
\* is canceled.  (That it is settled then is left to the run, which checks
\* ImplementsContract.)
THEOREM KeepsContract == Spec => Contract!Safety
<1>1. IInv /\ IInv' /\ [Next]_vars => [Contract!Next]_(Contract!vars)
  BY ContractStep
<1> QED BY ContractInit, <1>1, IInvInvariant, PTL DEF Spec, Contract!Safety

=============================================================================
