-------------------------- MODULE ClaudeTurnProofs --------------------------
(***************************************************************************)
(* Proofs about ClaudeTurn for any number of prompts, and whenever the     *)
(* messages of earlier queries arrive.                                     *)
(***************************************************************************)
EXTENDS ClaudeTurn, TLAPS

Began(t) == outcome[t] # None \/ run.turn = t

Ended(t) == outcome[t] # None /\ outcome[t].type = "turn_completed"

Reported(type) == [type |-> type, turn |-> run.turn]

\* A failure is reported by whichever query met it.
Failed(t) == [type |-> "turn_failed", turn |-> t]

\* The last query is the last turn that began, and the run's if there is one.
QueryIsLast ==
    /\ query = None => inited = {} /\ streams = {} /\ \A t \in Turns : ~Began(t)
    /\ query # None => /\ \A t \in Turns : t <= query <=> Began(t)
                       /\ \A t \in inited \cup streams : t <= query
    /\ run.phase # "idle" => run.turn = query

\* A run that has not settled; what reached it before it waited can settle it.
RunIsOpen ==
    /\ run.phase # "idle" => outcome[run.turn] = None
    /\ run.phase # "starting" => run.buffer = <<>>
    /\ run.phase = "starting" =>
          /\ closing = "no"
          /\ \/ run.buffer = <<>> /\ active = run.turn
             \/ /\ active = None
                /\ \/ run.buffer = <<Reported("turn_completed")>> /\ run.turn \in inited
                   \/ \E t \in Turns : run.buffer = <<Failed(t)>>

\* An awaited interrupt() is about the run.
InterruptsAreTheRuns ==
    \A t \in interrupts : run.turn = t /\ run.phase = "waiting" /\ active = None

ClosedIsIdle == closed => active = None

\* Every run is settled by its own turn or a failure, and none rejects.
OwnOutcome ==
    \A t \in Turns : outcome[t] # None =>
        /\ outcome[t] # Rejected
        /\ outcome[t].turn = t \/ outcome[t].type = "turn_failed"

\* A conversation the session may be in once turn t has told its own: that one,
\* or one an earlier turn told that never completed.
Follows(k, t) ==
    \/ k = Conversation(t)
    \/ \E w \in inited : w < t /\ ~Ended(w) /\ k = Conversation(w)

\* That is where it is after every turn that completed, and while the last
\* query has told its own; a turn does not complete before.
SessionFollows ==
    /\ \A t \in Turns : Ended(t) => t \in inited /\ Follows(session, t)
    /\ query \in inited => Follows(session, query)

\* OneConversation in these words.
TurnsFollow ==
    \A t, u \in Turns : t < u /\ Ended(t) /\ Began(u) => Follows(Conversation(u), t)

\* The inductive invariant.
IInv ==
    /\ TypeOK
    /\ SameTurn
    /\ QueryIsLast
    /\ RunIsOpen
    /\ InterruptsAreTheRuns
    /\ ClosedIsIdle
    /\ OwnOutcome
    /\ TurnsFollow
    /\ SessionFollows

-----------------------------------------------------------------------------
(* Constants and shapes                                                    *)

LEMMA NoneApart == None \notin Turns /\ Turns \subseteq Nat /\ None \notin Event
BY TurnsAssumption, NoneAssumption DEF Turns

LEMMA RunShape ==
    ASSUME TypeOK
    PROVE  /\ run.phase \in {"idle", "starting", "waiting"}
           /\ run.phase = "idle" => run = NoRun /\ run.turn = None /\ run.buffer = <<>>
           /\ run.phase # "idle" =>
                /\ run.turn \in Turns /\ run.buffer \in Seq(Event)
                /\ run = [turn |-> run.turn, phase |-> run.phase, buffer |-> run.buffer]
BY DEF TypeOK, RunnerTypeOK, Run, NoRun

LEMMA RunTyped ==
    ASSUME NEW t \in Turns, NEW phase \in {"starting", "waiting"}, NEW b \in Seq(Event)
    PROVE  [turn |-> t, phase |-> phase, buffer |-> b] \in Run
BY DEF Run

LEMMA InitIInv == Init => IInv
<1> SUFFICES ASSUME Init PROVE IInv
  OBVIOUS
<1>1. run = NoRun /\ run.turn = None /\ run.phase = "idle" /\ run.buffer = <<>>
      /\ \A t \in Turns : outcome[t] = None
  BY DEF Init, RunnerInit, NoRun
<1>2. TypeOK
  BY <1>1 DEF TypeOK, RunnerTypeOK, Init, RunnerInit, Run, Outcomes, TurnOrNone
<1>3. \A t \in Turns : ~Began(t) /\ ~Ended(t)
  BY <1>1, NoneApart DEF Began, Ended
<1>4. SameTurn /\ QueryIsLast /\ RunIsOpen /\ InterruptsAreTheRuns /\ ClosedIsIdle
  BY <1>1, <1>3 DEF SameTurn, QueryIsLast, RunIsOpen, InterruptsAreTheRuns, ClosedIsIdle,
                    closed, Init
<1>5. OwnOutcome /\ TurnsFollow /\ SessionFollows
  BY <1>1, <1>3 DEF OwnOutcome, TurnsFollow, SessionFollows, Ended, Init
<1> QED BY <1>2, <1>4, <1>5 DEF IInv

-----------------------------------------------------------------------------
(* The kinds of steps                                                      *)

\* The conversations are not touched.
LEMMA TalkKept ==
    ASSUME IInv, UNCHANGED <<query, resumed, session, inited>>,
           \A t \in Turns : (Began(t)' <=> Began(t)) /\ (Ended(t)' <=> Ended(t))
    PROVE  TurnsFollow' /\ SessionFollows'
<1>1. \A t : Conversation(t)' = Conversation(t)
  BY DEF Conversation
<1>2. inited \subseteq Turns /\ query \in TurnOrNone
  BY DEF IInv, TypeOK
<1>3. \A k, t : Follows(k, t) => \/ k = Conversation(t)'
                                 \/ \E w \in inited' : /\ w < t /\ ~Ended(w)'
                                                       /\ k = Conversation(w)'
  BY <1>1, <1>2 DEF Follows
<1>4. TurnsFollow'
  BY <1>1, <1>3 DEF IInv, TurnsFollow, Follows
<1>5. SessionFollows'
  BY <1>1, <1>3 DEF IInv, SessionFollows, Follows
<1> QED BY <1>4, <1>5

\* Neither the run nor the conversation changes; close() may be done.
LEMMA StillStep ==
    ASSUME IInv,
           UNCHANGED <<run, outcome, active, query, resumed, session, inited, interrupts>>,
           \/ closing' = closing
           \/ closing = "returning" /\ closing' = "done",
           streams' \subseteq streams, answered' \subseteq Turns, asking' \subseteq Turns
    PROVE  IInv'
<1>1. TypeOK'
  BY DEF IInv, TypeOK, RunnerTypeOK, TurnOrNone
<1>2. \A t \in Turns : (Began(t)' <=> Began(t)) /\ (Ended(t)' <=> Ended(t))
  BY DEF Began, Ended
<1>3. SameTurn' /\ OwnOutcome' /\ QueryIsLast'
  BY <1>2 DEF IInv, SameTurn, OwnOutcome, QueryIsLast
<1>4. RunIsOpen'
  BY DEF IInv, RunIsOpen, Reported, Failed
<1>5. InterruptsAreTheRuns' /\ ClosedIsIdle'
  BY DEF IInv, InterruptsAreTheRuns, ClosedIsIdle, closed
<1>6. TurnsFollow' /\ SessionFollows'
  BY <1>2, TalkKept
<1> QED BY <1>1, <1>3, <1>4, <1>5, <1>6 DEF IInv

\* The run is settled, by an event of its own turn or by a failure.
LEMMA SettleStep ==
    ASSUME IInv, NEW e \in Event,
           run.phase # "idle", Settle(e),
           e.turn = run.turn \/ e.type = "turn_failed",
           e.type = "turn_completed" => run.turn \in inited,
           active' = None, interrupts' = {},
           closing' \in {"no", "returning", "done"},
           UNCHANGED <<query, resumed, session, inited>>,
           streams' \subseteq streams, answered' \subseteq Turns, asking' \subseteq Turns
    PROVE  IInv'
<1> DEFINE r == run.turn
<1>1. r \in Turns /\ r = query /\ outcome[r] = None /\ r # None
  BY RunShape, NoneApart DEF IInv, QueryIsLast, RunIsOpen
<1>2. /\ run' = NoRun /\ run'.turn = None /\ run'.phase = "idle" /\ run'.buffer = <<>>
      /\ outcome' = [outcome EXCEPT ![r] = e]
      /\ outcome \in [Turns -> Outcomes]
  BY DEF Settle, NoRun, IInv, TypeOK, RunnerTypeOK
<1>3. e # None /\ e # Rejected
  BY <1>1, NoneApart DEF Event, Rejected
<1>4. /\ outcome' \in [Turns -> Outcomes] /\ outcome'[r] = e
      /\ \A t \in Turns : t # r => outcome'[t] = outcome[t]
  BY <1>1, <1>2, <1>3 DEF Outcomes
<1>5. TypeOK'
  BY <1>2, <1>4 DEF IInv, TypeOK, RunnerTypeOK, Run, TurnOrNone
<1>6. \A t \in Turns : Began(t)' <=> Began(t)
  BY <1>1, <1>2, <1>3, <1>4, NoneApart DEF Began
<1>7. \A t \in Turns : Conversation(t)' = Conversation(t)
  BY DEF Conversation
<1>8. \A t \in Turns : Ended(t)' => Ended(t) \/ (t = r /\ r \in inited)
  BY <1>4 DEF Ended
<1>9. \A t, w \in Turns : Began(t) /\ w < t => (Ended(w)' <=> Ended(w))
  <2> SUFFICES ASSUME NEW t \in Turns, NEW w \in Turns, Began(t), w < t
               PROVE  Ended(w)' <=> Ended(w)
    OBVIOUS
  <2>1. t <= r /\ r \in Nat /\ t \in Nat /\ w \in Nat
    BY <1>1, NoneApart DEF IInv, QueryIsLast
  <2>2. w # r
    BY <2>1
  <2> QED BY <1>4, <2>2 DEF Ended
<1> DEFINE FollowsNext(k, t) ==
             \/ k = Conversation(t)'
             \/ \E w \in inited' : w < t /\ ~Ended(w)' /\ k = Conversation(w)'
<1>10. ASSUME NEW t \in Turns, NEW k, Began(t), Follows(k, t)
       PROVE  FollowsNext(k, t)
  <2>1. CASE k = Conversation(t)
    BY <2>1, <1>7
  <2>2. ASSUME NEW w \in inited, w < t, ~Ended(w), k = Conversation(w)
        PROVE  FollowsNext(k, t)
    <3>1. w \in Turns /\ w \in inited' /\ ~Ended(w)' /\ Conversation(w)' = Conversation(w)
      BY <1>10, <2>2, <1>7, <1>9 DEF IInv, TypeOK
    <3> QED BY <2>2, <3>1
  <2> QED BY <1>10, <2>1, <2>2 DEF Follows
<1>11. \A t \in Turns : Ended(t)' => t \in inited /\ Began(t) /\ Follows(session, t)
  BY <1>1, <1>8, NoneApart DEF IInv, SessionFollows, Began, Ended
<1>12. SameTurn' /\ InterruptsAreTheRuns' /\ ClosedIsIdle' /\ RunIsOpen'
  BY <1>2 DEF SameTurn, InterruptsAreTheRuns, ClosedIsIdle, RunIsOpen
<1>13. QueryIsLast'
  BY <1>2, <1>6 DEF IInv, QueryIsLast
<1>14. OwnOutcome'
  BY <1>3, <1>4 DEF IInv, OwnOutcome
<1>15. SessionFollows'
  <2>1. query \in inited => Began(query) /\ query \in Turns /\ Follows(session, query)
    BY <1>1, <1>2, NoneApart DEF IInv, SessionFollows, Began
  <2>2. query \in inited => FollowsNext(session, query)
    BY <1>10, <2>1
  <2>3. \A t \in Turns : Ended(t)' => t \in inited /\ FollowsNext(session, t)
    BY <1>10, <1>11
  <2> QED BY <2>2, <2>3 DEF SessionFollows, Follows
<1>16. TurnsFollow'
  <2> SUFFICES ASSUME NEW t \in Turns, NEW u \in Turns, t < u, Ended(t)', Began(u)'
               PROVE  FollowsNext(Conversation(u)', t)
    BY DEF TurnsFollow, Follows
  <2>1. Ended(t) /\ Began(t) /\ Began(u)
    <3>1. Began(u) /\ Began(t)
      BY <1>6, <1>11
    <3> QED BY <3>1, <1>9
  <2>2. Follows(Conversation(u), t)
    BY <2>1 DEF IInv, TurnsFollow
  <2>3. FollowsNext(Conversation(u), t)
    BY <1>10, <2>1, <2>2
  <2> QED BY <2>3, <1>7
<1> QED BY <1>5, <1>12, <1>13, <1>14, <1>15, <1>16 DEF IInv

\* The end of a query is kept until startTurn has returned.
LEMMA KeepStep ==
    ASSUME IInv, NEW e \in Event,
           run.phase = "starting", active # None,
           run' = [run EXCEPT !.buffer = Append(@, e)],
           \/ e = Reported("turn_completed") /\ run.turn \in inited
           \/ \E t \in Turns : e = Failed(t),
           active' = None,
           UNCHANGED <<outcome, query, resumed, session, inited, interrupts, closing>>,
           streams' \subseteq streams, answered' \subseteq Turns, asking' \subseteq Turns
    PROVE  IInv'
<1>1. /\ run.turn \in Turns /\ run.buffer = <<>> /\ closing = "no" /\ run.turn = query
      /\ run = [turn |-> run.turn, phase |-> run.phase, buffer |-> run.buffer]
  BY RunShape DEF IInv, RunIsOpen, QueryIsLast
<1>2. run' = [turn |-> run.turn, phase |-> "starting", buffer |-> <<e>>]
  BY <1>1
<1>3. Reported("turn_completed")' = Reported("turn_completed")
      /\ \A t \in Turns : Failed(t)' = Failed(t)
  BY <1>1, <1>2 DEF Reported, Failed
<1>4. TypeOK'
  <2>1. <<e>> \in Seq(Event)
    OBVIOUS
  <2>2. run' \in Run
    BY <1>1, <1>2, <2>1, RunTyped
  <2> QED BY <2>2 DEF IInv, TypeOK, RunnerTypeOK, TurnOrNone
<1>5. \A t \in Turns : (Began(t)' <=> Began(t)) /\ (Ended(t)' <=> Ended(t))
                       /\ Conversation(t)' = Conversation(t)
  BY <1>2 DEF Began, Ended, Conversation
<1>6. SameTurn' /\ InterruptsAreTheRuns' /\ ClosedIsIdle' /\ OwnOutcome'
  BY <1>1, <1>2 DEF IInv, SameTurn, InterruptsAreTheRuns, ClosedIsIdle, OwnOutcome, closed
<1>7. RunIsOpen'
  BY <1>1, <1>2, <1>3 DEF IInv, RunIsOpen
<1>8. QueryIsLast'
  BY <1>1, <1>2, <1>5 DEF IInv, QueryIsLast
<1>9. TurnsFollow' /\ SessionFollows'
  BY <1>5, TalkKept
<1> QED BY <1>4, <1>6, <1>7, <1>8, <1>9 DEF IInv

-----------------------------------------------------------------------------
(* The steps                                                               *)

LEMMA StartTurnStep ==
    ASSUME IInv, NEW t \in Turns, StartTurn(t)
    PROVE  IInv'
<1>1. /\ run.phase = "idle" /\ run.turn = None /\ closing = "no"
      /\ outcome[t] = None /\ \A u \in 1 .. (t - 1) : outcome[u] # None
      /\ run' = [turn |-> t, phase |-> "starting", buffer |-> <<>>]
      /\ UNCHANGED <<outcome, session, inited, interrupts, closing>>
      /\ active' = t /\ query' = t /\ resumed' = [resumed EXCEPT ![t] = session]
      /\ streams' = streams \cup {t} /\ answered' = answered /\ asking' = asking
  BY RunShape DEF StartTurn, StartRun, IsNext, closed, IInv, TypeOK
<1>2. interrupts = {}
  BY <1>1 DEF IInv, InterruptsAreTheRuns
<1>3. TypeOK'
  BY <1>1 DEF IInv, TypeOK, RunnerTypeOK, Run, TurnOrNone
<1>4. t # None /\ \A u \in Turns : u # None /\ u \in Nat
  BY NoneApart
<1>5. \A u \in Turns : (Began(u)' <=> Began(u) \/ u = t) /\ (Ended(u)' <=> Ended(u))
  BY <1>1, <1>4 DEF Began, Ended
<1>6. ~Began(t) /\ ~Ended(t)
  BY <1>1, <1>4 DEF Began, Ended
<1>7. \A u \in Turns : Began(u) <=> u < t
  <2> SUFFICES ASSUME NEW u \in Turns PROVE Began(u) <=> u < t
    OBVIOUS
  <2>1. ASSUME u < t PROVE Began(u)
    <3>1. u \in 1 .. (t - 1)
      BY <2>1, <1>4 DEF Turns
    <3> QED BY <3>1, <1>1 DEF Began
  <2>2. ASSUME Began(u) PROVE u < t
    <3>1. query # None /\ query \in Turns
      BY <2>2 DEF IInv, QueryIsLast, TypeOK, TurnOrNone
    <3>2. u <= query /\ ~(t <= query)
      BY <3>1, <2>2, <1>6 DEF IInv, QueryIsLast
    <3> QED BY <3>1, <3>2, <1>4
  <2> QED BY <2>1, <2>2
<1>8. \A u \in inited \cup streams : u \in Turns /\ Began(u)
  BY DEF IInv, QueryIsLast, TypeOK, TurnOrNone
<1>9. QueryIsLast'
  <2>1. \A u \in Turns : u <= t <=> Began(u)'
    BY <1>4, <1>5, <1>7
  <2>2. \A u \in inited \cup streams \cup {t} : u <= t
    BY <1>4, <1>7, <1>8
  <2> QED BY <2>1, <2>2, <1>1, <1>4 DEF QueryIsLast
<1>10. SameTurn' /\ RunIsOpen' /\ InterruptsAreTheRuns' /\ ClosedIsIdle'
  BY <1>1, <1>2 DEF SameTurn, RunIsOpen, InterruptsAreTheRuns, ClosedIsIdle, closed
<1>11. OwnOutcome'
  BY <1>1 DEF IInv, OwnOutcome
<1>12. /\ \A u \in Turns : u # t => Conversation(u)' = Conversation(u)
       /\ \A u \in Turns : Conversation(u) \in Turns
       /\ session # None => Conversation(t)' = session
  BY <1>1, <1>4 DEF Conversation, IInv, TypeOK, TurnOrNone
<1>13. \A v \in Turns : \A k : Ended(v) /\ Follows(k, v) =>
          \/ k = Conversation(v)'
          \/ \E w \in inited' : w < v /\ ~Ended(w)' /\ k = Conversation(w)'
  <2>1. \A w \in inited : w \in Turns /\ w # t
    BY <1>6, <1>8
  <2> QED BY <1>1, <1>5, <1>6, <1>12, <2>1 DEF Follows
<1>14. \A v \in Turns : Ended(v) => session # None /\ Follows(session, v) /\ v \in inited
  <2>1. \A v \in Turns : Ended(v) => Follows(session, v) /\ v \in inited
    BY DEF IInv, SessionFollows
  <2>2. \A w \in inited : Conversation(w) \in Turns
    BY <1>8, <1>12
  <2> QED BY <1>4, <1>12, <2>1, <2>2 DEF Follows
<1>15. TurnsFollow'
  <2> SUFFICES ASSUME NEW v \in Turns, NEW u \in Turns, v < u, Ended(v)', Began(u)'
               PROVE  Follows(Conversation(u), v)'
    BY DEF TurnsFollow
  <2>1. Ended(v) /\ v # t
    BY <1>5, <1>6
  <2>2. Follows(Conversation(u)', v)
    <3>1. CASE u = t
      BY <2>1, <3>1, <1>12, <1>14
    <3>2. CASE u # t
      <4>1. Began(u) /\ Conversation(u)' = Conversation(u)
        BY <3>2, <1>5, <1>12
      <4> QED BY <2>1, <4>1 DEF IInv, TurnsFollow
    <3> QED BY <3>1, <3>2
  <2> QED BY <2>1, <2>2, <1>13 DEF Follows
<1>16. SessionFollows'
  <2>1. \A u \in Turns : Ended(u)' => u \in inited /\ Ended(u) /\ Follows(session, u)
    BY <1>5, <1>14
  <2>2. query' \notin inited'
    BY <1>1, <1>6, <1>8
  <2> QED BY <2>1, <2>2, <1>1, <1>13 DEF SessionFollows, Follows
<1> QED BY <1>3, <1>9, <1>10, <1>11, <1>15, <1>16 DEF IInv

\* startTurn has returned and nothing was kept: the run waits.
LEMMA WaitsStep ==
    ASSUME IInv, TurnReturns, run.buffer = <<>>
    PROVE  IInv'
<1>1. /\ run.phase = "starting" /\ run' = [run EXCEPT !.phase = "waiting"]
      /\ UNCHANGED <<outcome, active, query, streams, resumed, session, inited, answered,
                     asking, interrupts, closing>>
  BY DEF TurnReturns, StartTurnReturns
<1>2. /\ run.turn \in Turns /\ run.turn = query /\ closing = "no" /\ active = run.turn
      /\ run' = [turn |-> run.turn, phase |-> "waiting", buffer |-> <<>>]
  BY <1>1, RunShape, NoneApart DEF IInv, RunIsOpen, QueryIsLast
<1>3. TypeOK'
  <2>1. <<>> \in Seq(Event)
    OBVIOUS
  <2>2. run' \in Run
    BY <1>2, <2>1, RunTyped
  <2> QED BY <1>1, <2>2 DEF IInv, TypeOK, RunnerTypeOK, TurnOrNone
<1>4. \A t \in Turns : (Began(t)' <=> Began(t)) /\ (Ended(t)' <=> Ended(t))
                       /\ Conversation(t)' = Conversation(t)
  BY <1>1, <1>2 DEF Began, Ended, Conversation
<1>5. SameTurn' /\ RunIsOpen' /\ InterruptsAreTheRuns' /\ ClosedIsIdle' /\ OwnOutcome'
  BY <1>1, <1>2 DEF IInv, SameTurn, RunIsOpen, InterruptsAreTheRuns, ClosedIsIdle, closed,
                    OwnOutcome
<1>6. QueryIsLast'
  BY <1>1, <1>2, <1>4 DEF IInv, QueryIsLast
<1>7. TurnsFollow' /\ SessionFollows'
  BY <1>1, <1>4, TalkKept
<1> QED BY <1>3, <1>5, <1>6, <1>7 DEF IInv

\* ... and the event that was kept settles it otherwise.
LEMMA TurnReturnsStep ==
    ASSUME IInv, TurnReturns
    PROVE  IInv'
<1>1. CASE run.buffer = <<>>
  BY <1>1, WaitsStep
<1>2. CASE run.buffer # <<>>
  <2>1. /\ run.phase = "starting" /\ Settle(Head(run.buffer))
        /\ UNCHANGED <<active, query, streams, resumed, session, inited, answered, asking,
                       interrupts, closing>>
    BY <1>2 DEF TurnReturns, StartTurnReturns
  <2>2. PICK e \in Event :
           /\ run.buffer = <<e>> /\ active = None
           /\ e.turn = run.turn \/ e.type = "turn_failed"
           /\ e.type = "turn_completed" => run.turn \in inited
    BY <1>2, <2>1, RunShape DEF IInv, RunIsOpen, Reported, Failed, Event
  <2>3. Settle(e) /\ interrupts = {}
    BY <2>1, <2>2 DEF IInv, InterruptsAreTheRuns
  <2> QED BY <2>1, <2>2, <2>3, SettleStep DEF IInv, TypeOK
<1> QED BY <1>1, <1>2

LEMMA InterruptStep ==
    ASSUME IInv, Interrupt
    PROVE  IInv'
<1>1. /\ run.phase = "waiting" /\ active \in Turns /\ run.turn = active /\ query = active
      /\ active' = None /\ interrupts' = interrupts \cup {active}
      /\ UNCHANGED <<run, outcome, query, streams, resumed, session, inited, answered,
                     asking, closing>>
  BY RunShape, NoneApart DEF Interrupt, Idle, IInv, SameTurn, TypeOK, TurnOrNone
<1>2. interrupts = {} /\ closing = "no" /\ active # None
  BY <1>1, NoneApart DEF IInv, InterruptsAreTheRuns, ClosedIsIdle, closed
<1>3. TypeOK'
  BY <1>1 DEF IInv, TypeOK, RunnerTypeOK, TurnOrNone
<1>4. \A t \in Turns : (Began(t)' <=> Began(t)) /\ (Ended(t)' <=> Ended(t))
                       /\ Conversation(t)' = Conversation(t)
  BY <1>1 DEF Began, Ended, Conversation
<1>5. SameTurn' /\ RunIsOpen' /\ InterruptsAreTheRuns' /\ ClosedIsIdle' /\ OwnOutcome'
  BY <1>1, <1>2 DEF IInv, SameTurn, RunIsOpen, InterruptsAreTheRuns, ClosedIsIdle, OwnOutcome
<1>6. QueryIsLast'
  BY <1>1, <1>4 DEF IInv, QueryIsLast
<1>7. TurnsFollow' /\ SessionFollows'
  BY <1>1, <1>4, TalkKept
<1> QED BY <1>3, <1>5, <1>6, <1>7 DEF IInv

\* It settles the run, or close() has dropped the run's subscription.
LEMMA InterruptReturnsStep ==
    ASSUME IInv, NEW t \in Turns, InterruptReturns(t)
    PROVE  IInv'
<1>1. /\ run.turn = t /\ run.phase = "waiting" /\ active = None
      /\ interrupts \ {t} = {}
      /\ UNCHANGED <<active, query, streams, resumed, session, inited, answered, asking,
                     closing>>
      /\ interrupts' = interrupts \ {t}
  BY DEF InterruptReturns, IInv, InterruptsAreTheRuns, TypeOK
<1>2. CASE closing # "done"
  <2>1. Settle(Reported("turn_canceled"))
    BY <1>1, <1>2 DEF InterruptReturns, Emit, Observe, Reported
  <2>2. /\ Reported("turn_canceled") \in Event /\ Reported("turn_canceled").turn = run.turn
        /\ Reported("turn_canceled").type = "turn_canceled"
    BY <1>1 DEF Reported, Event
  <2> QED BY <1>1, <2>1, <2>2, SettleStep DEF IInv, TypeOK
<1>3. CASE closing = "done"
  <2>1. UNCHANGED <<run, outcome>>
    BY <1>3 DEF InterruptReturns, Emit
  <2>2. TypeOK'
    BY <1>1, <2>1 DEF IInv, TypeOK, RunnerTypeOK, TurnOrNone
  <2>3. \A u \in Turns : (Began(u)' <=> Began(u)) /\ (Ended(u)' <=> Ended(u))
    BY <2>1 DEF Began, Ended
  <2>4. SameTurn' /\ RunIsOpen' /\ InterruptsAreTheRuns' /\ ClosedIsIdle' /\ OwnOutcome'
    BY <1>1, <1>3, <2>1 DEF IInv, SameTurn, RunIsOpen, InterruptsAreTheRuns, ClosedIsIdle,
                            OwnOutcome
  <2>5. QueryIsLast'
    BY <1>1, <2>1, <2>3 DEF IInv, QueryIsLast
  <2>6. TurnsFollow' /\ SessionFollows'
    BY <1>1, <2>3, TalkKept
  <2> QED BY <2>2, <2>4, <2>5, <2>6 DEF IInv
<1> QED BY <1>2, <1>3

LEMMA CloseStep ==
    ASSUME IInv, Close
    PROVE  IInv'
<1>1. /\ run.phase # "starting" /\ closing = "no"
      /\ active' = None /\ closing' = IF query = None THEN "done" ELSE "returning"
      /\ UNCHANGED <<query, streams, resumed, session, inited, answered, asking, interrupts>>
  BY DEF Close, Idle, closed
<1>2. CASE active # None
  <2>1. run.turn = active /\ run.phase = "waiting" /\ interrupts = {}
    BY <1>1, <1>2, RunShape, NoneApart DEF IInv, SameTurn, InterruptsAreTheRuns
  <2>2. Settle(Reported("turn_canceled"))
    BY <1>1, <1>2, <2>1 DEF Close, Emit, Observe, Reported
  <2>3. /\ Reported("turn_canceled") \in Event /\ Reported("turn_canceled").turn = run.turn
        /\ Reported("turn_canceled").type = "turn_canceled"
    BY <1>2, <2>1 DEF Reported, Event, IInv, TypeOK, TurnOrNone
  <2> QED BY <1>1, <2>1, <2>2, <2>3, SettleStep DEF IInv, TypeOK
<1>3. CASE active = None
  <2>1. UNCHANGED <<run, outcome, active>>
    BY <1>1, <1>3 DEF Close
  <2>2. TypeOK'
    BY <1>1, <2>1 DEF IInv, TypeOK, RunnerTypeOK, TurnOrNone
  <2>3. \A t \in Turns : (Began(t)' <=> Began(t)) /\ (Ended(t)' <=> Ended(t))
                         /\ Conversation(t)' = Conversation(t)
    BY <1>1, <2>1 DEF Began, Ended, Conversation
  <2>4. SameTurn' /\ RunIsOpen' /\ ClosedIsIdle' /\ OwnOutcome'
    BY <1>1, <1>3, <2>1 DEF IInv, SameTurn, RunIsOpen, ClosedIsIdle, OwnOutcome
  <2>5. InterruptsAreTheRuns'
    <3>1. ASSUME NEW t \in interrupts PROVE query # None
      BY NoneApart DEF IInv, InterruptsAreTheRuns, QueryIsLast, TypeOK
    <3> QED BY <1>1, <2>1, <3>1 DEF IInv, InterruptsAreTheRuns
  <2>6. QueryIsLast'
    BY <1>1, <2>1, <2>3 DEF IInv, QueryIsLast
  <2>7. TurnsFollow' /\ SessionFollows'
    BY <1>1, <2>3, TalkKept
  <2> QED BY <2>2, <2>4, <2>5, <2>6, <2>7 DEF IInv
<1> QED BY <1>2, <1>3

\* A message that ends the active turn, while the run waits or before.
LEMMA EmitStep ==
    ASSUME IInv, NEW e \in Event, Emit(e.type, e.turn),
           active # None, active' = None,
           \/ e = [type |-> "turn_completed", turn |-> active] /\ active \in inited
           \/ \E t \in Turns : e = Failed(t),
           UNCHANGED <<query, resumed, session, inited, interrupts, closing>>,
           streams' \subseteq streams, answered' \subseteq Turns, asking' \subseteq Turns
    PROVE  IInv'
<1>1. run.turn = active /\ run.phase # "idle" /\ closing = "no" /\ interrupts = {}
  BY RunShape, NoneApart DEF IInv, SameTurn, InterruptsAreTheRuns, ClosedIsIdle, closed,
                             TypeOK
<1>2. Observe(e)
  BY <1>1 DEF Emit, Event
<1>3. \/ e = Reported("turn_completed") /\ run.turn \in inited
      \/ \E t \in Turns : e = Failed(t)
  BY <1>1 DEF Reported
<1>4. /\ e.turn = run.turn \/ e.type = "turn_failed"
      /\ e.type = "turn_completed" => run.turn \in inited
  BY <1>3 DEF Reported, Failed
<1>5. CASE run.phase = "starting"
  <2>1. run' = [run EXCEPT !.buffer = Append(@, e)] /\ UNCHANGED outcome
    BY <1>2, <1>5 DEF Observe
  <2> QED BY <1>3, <1>5, <2>1, KeepStep
<1>6. CASE run.phase = "waiting"
  <2>1. Settle(e)
    BY <1>2, <1>6 DEF Observe
  <2> QED BY <1>1, <1>4, <1>6, <2>1, SettleStep
<1> QED BY <1>1, <1>5, <1>6, RunShape DEF IInv

LEMMA ResultStep ==
    ASSUME IInv, NEW t \in Turns, Result(t)
    PROVE  IInv'
<1>1. /\ t \in inited
      /\ streams' = streams /\ answered' = answered \cup {t} /\ asking' = asking
      /\ UNCHANGED <<query, resumed, session, inited, interrupts, closing>>
      /\ streams' \subseteq streams /\ answered' \subseteq Turns /\ asking' \subseteq Turns
  BY DEF Result, IInv, TypeOK
<1>2. CASE active = t
  <2>1. active # None
    BY <1>2, NoneApart
  <2>2. PICK type \in {"turn_completed", "turn_failed"} : Emit(type, t)
    BY <1>2 DEF Result
  <2>3. active' = None
    BY <1>2 DEF Result
  <2> DEFINE e == [type |-> type, turn |-> t]
  <2>4. e \in Event /\ e.type = type /\ e.turn = t
    BY DEF Event
  <2>5. \/ e = [type |-> "turn_completed", turn |-> active] /\ active \in inited
        \/ \E u \in Turns : e = Failed(u)
    BY <1>1, <1>2 DEF Failed
  <2> HIDE DEF e
  <2> QED BY <1>1, <2>1, <2>2, <2>3, <2>4, <2>5, EmitStep
<1>3. CASE active # t
  BY <1>1, <1>3, StillStep DEF Result
<1> QED BY <1>2, <1>3

\* The error of a query fails the active turn, its own or a later one.
LEMMA StreamFailsStep ==
    ASSUME IInv, NEW t \in Turns, StreamFails(t)
    PROVE  IInv'
<1>1. /\ streams' = streams \ {t}
      /\ UNCHANGED <<query, resumed, session, inited, answered, asking, interrupts, closing>>
      /\ streams' \subseteq streams /\ answered' \subseteq Turns /\ asking' \subseteq Turns
  BY DEF StreamFails, StreamGone, IInv, TypeOK
<1>2. CASE ~closed /\ active # None
  <2>1. Emit("turn_failed", t) /\ active' = None
    BY <1>2 DEF StreamFails
  <2>2. Failed(t) \in Event /\ Failed(t).type = "turn_failed" /\ Failed(t).turn = t
    BY DEF Failed, Event
  <2> QED BY <1>1, <1>2, <2>1, <2>2, EmitStep
<1>3. CASE ~(~closed /\ active # None)
  BY <1>1, <1>3, StillStep DEF StreamFails
<1> QED BY <1>2, <1>3

\* A query tells its conversation, also when its turn is over: then that turn did
\* not complete.
LEMMA SystemInitStep ==
    ASSUME IInv, NEW t \in Turns, SystemInit(t)
    PROVE  IInv'
<1>1. /\ t \in streams /\ t \notin inited /\ t # None
      /\ inited' = inited \cup {t} /\ session' = Conversation(t)
      /\ UNCHANGED <<run, outcome, active, query, streams, resumed, answered, asking,
                     interrupts, closing>>
  BY NoneApart DEF SystemInit
<1>2. Conversation(t) \in Turns
  BY <1>1 DEF Conversation, IInv, TypeOK, TurnOrNone
<1>3. TypeOK'
  BY <1>1, <1>2 DEF IInv, TypeOK, RunnerTypeOK, TurnOrNone
<1>4. \A u \in Turns : (Began(u)' <=> Began(u)) /\ (Ended(u)' <=> Ended(u))
                       /\ Conversation(u)' = Conversation(u)
  BY <1>1 DEF Began, Ended, Conversation
<1>5. SameTurn' /\ InterruptsAreTheRuns' /\ ClosedIsIdle' /\ OwnOutcome'
  BY <1>1 DEF IInv, SameTurn, InterruptsAreTheRuns, ClosedIsIdle, closed, OwnOutcome
<1>6. RunIsOpen'
  BY <1>1 DEF IInv, RunIsOpen, Reported, Failed
<1>7. query # None /\ query \in Turns /\ t <= query /\ Began(t)
  BY <1>1 DEF IInv, QueryIsLast, TypeOK, TurnOrNone
<1>8. QueryIsLast'
  BY <1>1, <1>4, <1>7 DEF IInv, QueryIsLast
<1>9. ~Ended(t) /\ inited \subseteq Turns /\ Turns \subseteq Nat
  BY <1>1, NoneApart DEF IInv, SessionFollows, TypeOK
<1>10. \A k, u : Follows(k, u) /\ u \in Turns => Follows(k, u)'
  BY <1>1, <1>4, <1>9 DEF Follows
<1>11. TurnsFollow'
  <2> SUFFICES ASSUME NEW v \in Turns, NEW u \in Turns, v < u, Ended(v)', Began(u)'
               PROVE  Follows(Conversation(u), v)'
    BY DEF TurnsFollow
  <2>1. Follows(Conversation(u), v)
    BY <1>4 DEF IInv, TurnsFollow
  <2> QED BY <1>1, <1>4, <1>9, <2>1 DEF Follows
<1>12. \A u \in Turns : Ended(u) \/ u = query => Follows(Conversation(t), u)'
  <2> SUFFICES ASSUME NEW u \in Turns, Ended(u) \/ u = query
               PROVE  Follows(Conversation(t), u)'
    OBVIOUS
  <2>1. CASE t < u
    BY <2>1, <1>1, <1>4, <1>9 DEF Follows
  <2>2. CASE t = u
    BY <2>2, <1>4 DEF Follows
  <2>3. CASE u < t
    <3>1. Ended(u)
      BY <2>3, <1>7, <1>9
    <3>2. Follows(Conversation(t), u)
      BY <2>3, <3>1, <1>7 DEF IInv, TurnsFollow
    <3> QED BY <3>2, <1>1, <1>4, <1>9 DEF Follows
  <2> QED BY <2>1, <2>2, <2>3, <1>9
<1>13. SessionFollows'
  <2>1. \A u \in Turns : Ended(u)' => Ended(u) /\ u \in inited'
    BY <1>1, <1>4 DEF IInv, SessionFollows
  <2> QED BY <1>1, <1>4, <1>7, <1>12, <2>1 DEF SessionFollows, Follows
<1> QED BY <1>3, <1>5, <1>6, <1>8, <1>11, <1>13 DEF IInv

LEMMA OtherStep ==
    ASSUME IInv,
           \/ CloseReturns
           \/ \E t \in Turns : \/ RespondToPermission(t) \/ PermissionRequested(t)
                               \/ PermissionAborted(t) \/ StreamEnds(t)
    PROVE  IInv'
<1>1. CASE CloseReturns
  <2>1. /\ closing = "returning" /\ closing' = "done"
        /\ UNCHANGED <<run, outcome, active, query, streams, resumed, session, inited,
                       answered, asking, interrupts>>
    BY <1>1 DEF CloseReturns
  <2> QED BY <2>1, StillStep DEF IInv, TypeOK
<1>2. ASSUME NEW t \in Turns,
             \/ RespondToPermission(t) \/ PermissionRequested(t)
             \/ PermissionAborted(t) \/ StreamEnds(t)
      PROVE  IInv'
  <2>1. /\ UNCHANGED <<run, outcome, active, query, resumed, session, inited, answered,
                       interrupts, closing>>
        /\ streams' \subseteq streams /\ asking' \subseteq asking \cup {t}
    BY <1>2 DEF RespondToPermission, PermissionRequested, PermissionAborted, StreamEnds,
                StreamGone
  <2> QED BY <2>1, StillStep DEF IInv, TypeOK
<1> QED BY <1>1, <1>2

LEMMA NextStep ==
    ASSUME IInv, [Next]_vars
    PROVE  IInv'
<1>1. ASSUME NEW t \in Turns, StartTurn(t) \/ InterruptReturns(t) \/ RespondToPermission(t)
      PROVE  IInv'
  BY <1>1, StartTurnStep, InterruptReturnsStep, OtherStep
<1>2. ASSUME NEW t \in Turns, Sdk(t) PROVE IInv'
  BY <1>2, OtherStep, SystemInitStep, ResultStep, StreamFailsStep DEF Sdk
<1>3. CASE TurnReturns \/ Interrupt \/ Close \/ CloseReturns
  BY <1>3, TurnReturnsStep, InterruptStep, CloseStep, OtherStep
<1>4. CASE UNCHANGED vars
  BY <1>4, StillStep DEF vars, IInv, TypeOK
<1> QED BY <1>1, <1>2, <1>3, <1>4 DEF Next

\* The inductive invariant of a Claude session: the last query is the run's, an
\* awaited interrupt is about it, and the session is in a conversation of the
\* turns that completed or of one that sent its init late.
THEOREM IInvInvariant == Spec => []IInv
<1>1. IInv /\ [Next]_vars => IInv'
  BY NextStep
<1> QED BY InitIInv, <1>1, PTL DEF Spec

\* The state of a Claude session keeps its type, for any number of prompts.
THEOREM TypeCorrect == Spec => []TypeOK
<1>1. IInv => TypeOK
  BY DEF IInv
<1> QED BY <1>1, IInvInvariant, PTL

\* The session and the run agree on the turn: interrupt() and close() reach the
\* run that waits, whatever the queries of earlier turns send; only a close()
\* during an awaited interrupt() leaves it waiting for ever.
THEOREM SameTurnAlways == Spec => []SameTurn
<1>1. IInv => SameTurn
  BY DEF IInv
<1> QED BY <1>1, IInvInvariant, PTL

\* Once a turn has completed, later turns go on with its conversation, or with
\* that of an earlier turn that did not complete and sent its init late.
THEOREM OneConversationAlways == Spec => []OneConversation
<1>1. IInv => OneConversation
  <2> SUFFICES ASSUME IInv, NEW t \in Turns, NEW u \in Turns, t < u, Ended(t), Began(u)
               PROVE  \/ Conversation(u) = Conversation(t)
                      \/ \E w \in inited : /\ w < t /\ outcome[w].type # "turn_completed"
                                           /\ Conversation(u) = Conversation(w)
    BY DEF OneConversation, Ended, Began
  <2>1. Follows(Conversation(u), t)
    BY DEF IInv, TurnsFollow
  <2>2. ASSUME NEW w \in inited, w < t, ~Ended(w) PROVE outcome[w].type # "turn_completed"
    <3>1. w \in Turns /\ Began(w) /\ Began(t)
      BY <2>2, NoneApart DEF IInv, TypeOK, QueryIsLast, Ended, Began, TurnOrNone
    <3>2. query # None /\ query \in Turns /\ t <= query /\ Turns \subseteq Nat
      BY <3>1, NoneApart DEF IInv, QueryIsLast, TypeOK, TurnOrNone
    <3>3. run.turn # w
      BY <2>2, <3>1, <3>2, RunShape, NoneApart DEF IInv, QueryIsLast
    <3> QED BY <2>2, <3>1, <3>3 DEF Began, Ended
  <2> QED BY <2>1, <2>2 DEF Follows
<1> QED BY <1>1, IInvInvariant, PTL

-----------------------------------------------------------------------------
(* The session keeps the contract of run()                                 *)

Canceled(t) == outcome[t] # None /\ outcome[t].type = "turn_canceled"

Asked == interrupts \cup {t \in Turns : closed /\ run.turn = t} \cup
         {t \in Turns : outcome[t] # None /\ outcome[t].type = "turn_canceled"}

Verdicts == [t \in Turns |-> Told(t)]

LEMMA VerdictOf ==
    ASSUME OwnOutcome, NEW t \in Turns
    PROVE  Told(t) = IF outcome[t] = None THEN None ELSE outcome[t].type
BY DEF OwnOutcome, Told, Verdict

\* What the contract sees of a step that settles no run.
LEMMA SilentStep ==
    ASSUME UNCHANGED <<outcome, interrupts>>, run'.turn = run.turn,
           closed' = closed \/ run.turn \in interrupts \cup {None}
    PROVE  UNCHANGED <<run.turn, Asked, Verdicts>>
<1>1. Asked' = Asked
  BY NoneApart DEF Asked
<1>2. Verdicts' = Verdicts
  BY DEF Verdicts, Told, Verdict
<1> QED BY <1>1, <1>2

\* What it sees of one that settles the run.
LEMMA ContractSettles ==
    ASSUME IInv, IInv', NEW e \in Event, run.phase # "idle", Settle(e)
    PROVE  /\ run.turn \in Turns /\ run'.turn = None /\ run.turn # None
           /\ Verdicts' = [Verdicts EXCEPT ![run.turn] = e.type]
           /\ \A t \in Turns :
                 Canceled(t)' <=> Canceled(t) \/ (t = run.turn /\ e.type = "turn_canceled")
           /\ ~Canceled(run.turn)
<1>1. /\ run.turn \in Turns /\ run' = NoRun /\ outcome[run.turn] = None
      /\ outcome \in [Turns -> Outcomes]
      /\ outcome' = [outcome EXCEPT ![run.turn] = e]
  BY RunShape DEF Settle, IInv, RunIsOpen, TypeOK, RunnerTypeOK
<1>2. e # None
  BY NoneApart
<1>3. \A t \in Turns : Told(t)' = IF t = run.turn THEN e.type ELSE Told(t)
  <2> SUFFICES ASSUME NEW t \in Turns
               PROVE  Told(t)' = IF t = run.turn THEN e.type ELSE Told(t)
    OBVIOUS
  <2>1. Told(t) = IF outcome[t] = None THEN None ELSE outcome[t].type
    BY VerdictOf DEF IInv
  <2>2. Told(t)' = IF outcome'[t] = None THEN None ELSE outcome'[t].type
    BY DEF IInv, OwnOutcome, Told, Verdict
  <2> QED BY <1>1, <1>2, <2>1, <2>2
<1>4. Verdicts' = [Verdicts EXCEPT ![run.turn] = e.type]
  BY <1>1, <1>3 DEF Verdicts
<1> QED BY <1>1, <1>2, <1>4, NoneApart DEF Canceled, NoRun

LEMMA ContractInit == Init => Contract!Init
<1> SUFFICES ASSUME Init PROVE Contract!Init
  OBVIOUS
<1>1. run.turn = None /\ interrupts = {} /\ ~closed /\ \A t \in Turns : outcome[t] = None
  BY DEF Init, RunnerInit, NoRun, closed
<1> QED BY <1>1 DEF Contract!Init, Told, Verdict, Contract!Turns, Turns

\* The contract's steps, of the state it sees.
LEMMA ContractBegins ==
    ASSUME NEW t \in Turns, run.turn = None, run'.turn = t,
           outcome[t] = None, \A u \in 1 .. (t - 1) : outcome[u] # None,
           IInv, Asked' = Asked, Verdicts' = Verdicts
    PROVE  Contract!Next
<1>1. ASSUME NEW u \in Turns
      PROVE  Verdicts[u] = None <=> outcome[u] = None
  <2>1. Verdicts[u] = IF outcome[u] = None THEN None ELSE outcome[u].type
    BY VerdictOf DEF Verdicts, IInv
  <2>2. outcome[u] \in Outcomes
    BY DEF IInv, TypeOK, RunnerTypeOK
  <2>3. CASE outcome[u] \in Event
    BY <2>1, <2>3, WordAssumption DEF Event
  <2>4. CASE outcome[u] = Rejected
    BY <2>1, <2>4, WordAssumption DEF Rejected
  <2> QED BY <2>1, <2>2, <2>3, <2>4 DEF Outcomes
<1>2. t \in Nat /\ \A u \in 1 .. (t - 1) : u \in Turns
  BY TurnsAssumption DEF Turns
<1>3. Contract!IsNext(t)
  BY <1>1, <1>2 DEF Contract!IsNext, Verdicts
<1>4. Contract!Begin(t)
  BY <1>3 DEF Contract!Begin, Asked, Verdicts
<1> QED BY <1>4 DEF Contract!Next, Contract!Begin, Contract!IsNext, Contract!Turns, Turns,
                    Asked, Verdicts

LEMMA ContractAsks ==
    ASSUME run.turn # None, run'.turn = run.turn, Asked' = Asked \cup {run.turn},
           Verdicts' = Verdicts
    PROVE  Contract!Next
BY DEF Contract!Next, Contract!AskToStop, Asked, Verdicts

LEMMA ContractStops ==
    ASSUME run.turn # None, run'.turn = None, Asked' = Asked \cup {run.turn},
           Verdicts' = [Verdicts EXCEPT ![run.turn] = "turn_canceled"]
    PROVE  Contract!Next
BY DEF Contract!Next, Contract!StopAtOnce, Asked, Verdicts

LEMMA ContractVerdict ==
    ASSUME NEW type \in {"turn_completed", "turn_failed", "turn_canceled"},
           run.turn # None, run'.turn = None, Asked' = Asked,
           run.turn \in Asked <=> type = "turn_canceled",
           Verdicts' = [Verdicts EXCEPT ![run.turn] = type]
    PROVE  Contract!Next
<1>1. Contract!Settle(type)
  BY DEF Contract!Settle, Contract!Verdicts, Asked, Verdicts
<1> QED BY <1>1 DEF Contract!Next, Contract!Verdicts

\* The event that ends the active turn is the run's verdict, or is kept.
LEMMA ContractEmits ==
    ASSUME IInv, IInv', NEW e \in Event, e.type \in {"turn_completed", "turn_failed"},
           active # None, Emit(e.type, e.turn), UNCHANGED <<interrupts, closing>>
    PROVE  Contract!Next \/ UNCHANGED <<run.turn, Asked, Verdicts>>
<1>1. run.turn = active /\ run.phase # "idle" /\ ~closed /\ interrupts = {}
  BY RunShape, NoneApart DEF IInv, SameTurn, InterruptsAreTheRuns, ClosedIsIdle, TypeOK
<1>2. Observe(e)
  BY <1>1 DEF Emit, Event, closed
<1>3. CASE run.phase = "starting"
  <2>1. run' = [run EXCEPT !.buffer = Append(@, e)] /\ UNCHANGED outcome
    BY <1>2, <1>3 DEF Observe
  <2>2. run'.turn = run.turn
    BY <2>1, RunShape DEF IInv
  <2> QED BY <1>1, <2>1, <2>2, SilentStep DEF closed
<1>4. CASE run.phase = "waiting"
  <2>1. Settle(e)
    BY <1>2, <1>4 DEF Observe
  <2>2. /\ run'.turn = None /\ run.turn # None
        /\ Verdicts' = [Verdicts EXCEPT ![run.turn] = e.type]
        /\ \A t \in Turns : Canceled(t)' <=> Canceled(t)
        /\ ~Canceled(run.turn)
    BY <1>4, <2>1, ContractSettles
  <2>3. Asked' = Asked /\ run.turn \notin Asked
    BY <1>1, <2>2 DEF Asked, Canceled, closed
  <2> QED BY <2>2, <2>3, ContractVerdict
<1> QED BY <1>1, <1>3, <1>4, RunShape DEF IInv

LEMMA ContractTurnReturns ==
    ASSUME IInv, IInv', TurnReturns
    PROVE  Contract!Next \/ UNCHANGED <<run.turn, Asked, Verdicts>>
<1>1. /\ run.phase = "starting" /\ UNCHANGED <<interrupts, closing>>
      /\ interrupts = {} /\ ~closed
  BY DEF TurnReturns, StartTurnReturns, IInv, RunIsOpen, InterruptsAreTheRuns, closed
<1>2. CASE run.buffer = <<>>
  <2>1. run' = [run EXCEPT !.phase = "waiting"] /\ UNCHANGED outcome
    BY <1>2 DEF TurnReturns, StartTurnReturns
  <2>2. run'.turn = run.turn
    BY <1>1, <2>1, RunShape DEF IInv
  <2> QED BY <1>1, <2>1, <2>2, SilentStep DEF closed
<1>3. CASE run.buffer # <<>>
  <2>1. PICK e \in Event : /\ run.buffer = <<e>>
                           /\ e.type \in {"turn_completed", "turn_failed"}
    BY <1>1, <1>3, RunShape DEF IInv, RunIsOpen, Reported, Failed, Event
  <2>2. Settle(e)
    BY <1>3, <2>1 DEF TurnReturns, StartTurnReturns
  <2>3. /\ run'.turn = None /\ run.turn # None
        /\ Verdicts' = [Verdicts EXCEPT ![run.turn] = e.type]
        /\ \A t \in Turns : Canceled(t)' <=> Canceled(t)
        /\ ~Canceled(run.turn)
    BY <1>1, <2>1, <2>2, ContractSettles
  <2>4. Asked' = Asked /\ run.turn \notin Asked
    BY <1>1, <2>3 DEF Asked, Canceled, closed
  <2> QED BY <2>1, <2>3, <2>4, ContractVerdict
<1> QED BY <1>2, <1>3

LEMMA ContractInterruptReturns ==
    ASSUME IInv, IInv', NEW t \in Turns, InterruptReturns(t)
    PROVE  Contract!Next \/ UNCHANGED <<run.turn, Asked, Verdicts>>
<1>1. /\ run.turn = t /\ run.phase = "waiting" /\ closing' = closing
      /\ t \in interrupts /\ interrupts' = interrupts \ {t}
  BY DEF InterruptReturns, IInv, InterruptsAreTheRuns
<1>2. CASE closing # "done"
  <2> DEFINE e == Reported("turn_canceled")
  <2>1. Settle(e) /\ e \in Event /\ e.type = "turn_canceled"
    BY <1>1, <1>2 DEF InterruptReturns, Emit, Observe, Reported, Event
  <2> HIDE DEF e
  <2>2. /\ run'.turn = None /\ run.turn # None
        /\ Verdicts' = [Verdicts EXCEPT ![run.turn] = "turn_canceled"]
        /\ \A u \in Turns : Canceled(u)' <=> Canceled(u) \/ u = run.turn
    BY <1>1, <2>1, ContractSettles
  <2>3. Asked' = Asked /\ run.turn \in Asked
    BY <1>1, <2>2, NoneApart DEF Asked, Canceled, closed
  <2> QED BY <2>2, <2>3, ContractVerdict
<1>3. CASE closing = "done"
  <2>1. UNCHANGED <<run, outcome>>
    BY <1>3 DEF InterruptReturns, Emit
  <2>2. Asked' = Asked
    BY <1>1, <1>3, <2>1 DEF Asked, closed
  <2>3. Verdicts' = Verdicts
    BY <2>1 DEF Verdicts, Told, Verdict
  <2> QED BY <2>1, <2>2, <2>3
<1> QED BY <1>2, <1>3

LEMMA ContractInterrupt ==
    ASSUME IInv, Interrupt
    PROVE  Contract!Next
<1>1. /\ run.turn = active /\ active # None /\ UNCHANGED <<run, outcome, closing>>
      /\ active \in Turns /\ interrupts' = interrupts \cup {active}
  BY NoneApart DEF Interrupt, IInv, SameTurn, TypeOK, TurnOrNone
<1>2. Asked' = Asked \cup {run.turn} /\ Verdicts' = Verdicts
  BY <1>1 DEF Asked, Verdicts, Told, Verdict, closed
<1> QED BY <1>1, <1>2, ContractAsks

LEMMA ContractCloses ==
    ASSUME IInv, IInv', Close
    PROVE  Contract!Next \/ UNCHANGED <<run.turn, Asked, Verdicts>>
<1>1. run.phase # "starting" /\ closing = "no" /\ closed' /\ interrupts' = interrupts
  BY DEF Close, Idle, closed
<1>2. CASE active # None
  <2>1. run.turn = active /\ run.phase = "waiting" /\ interrupts = {}
    BY <1>1, <1>2, RunShape, NoneApart DEF IInv, SameTurn, InterruptsAreTheRuns
  <2> DEFINE e == Reported("turn_canceled")
  <2>2. Settle(e) /\ e \in Event /\ e.type = "turn_canceled"
    BY <1>1, <1>2, <2>1 DEF Close, Emit, Observe, Reported, Event, IInv, TypeOK, TurnOrNone
  <2> HIDE DEF e
  <2>3. /\ run.turn \in Turns /\ run'.turn = None /\ run.turn # None
        /\ Verdicts' = [Verdicts EXCEPT ![run.turn] = "turn_canceled"]
        /\ \A u \in Turns : Canceled(u)' <=> Canceled(u) \/ u = run.turn
    BY <2>1, <2>2, ContractSettles
  <2>4. Asked' = Asked \cup {run.turn}
    BY <1>1, <2>1, <2>3, NoneApart DEF Asked, Canceled, closed
  <2> QED BY <2>3, <2>4, ContractStops
<1>3. CASE active = None
  <2>1. UNCHANGED <<run, outcome>>
    BY <1>1, <1>3 DEF Close
  <2>2. run.turn \in interrupts \cup {None}
    BY <1>1, <1>3, RunShape DEF IInv, SameTurn
  <2> QED BY <1>1, <2>1, <2>2, SilentStep
<1> QED BY <1>2, <1>3

\* Every step is one of the contract's, or none.
LEMMA ContractStep ==
    ASSUME IInv, IInv', [Next]_vars
    PROVE  [Contract!Next]_(Contract!vars)
<1> SUFFICES Contract!Next \/ UNCHANGED <<run.turn, Asked, Verdicts>>
  BY DEF Contract!vars, Asked, Verdicts
<1>1. ASSUME NEW t \in Turns, StartTurn(t) PROVE Contract!Next
  <2>1. /\ run.turn = None /\ run'.turn = t /\ ~closed /\ UNCHANGED <<outcome, interrupts, closing>>
        /\ outcome[t] = None /\ \A u \in 1 .. (t - 1) : outcome[u] # None
    BY <1>1, RunShape DEF StartTurn, StartRun, IsNext, IInv
  <2>2. Asked' = Asked /\ Verdicts' = Verdicts
    BY <2>1 DEF Asked, Verdicts, Told, Verdict, closed
  <2> QED BY <2>1, <2>2, ContractBegins DEF IInv
<1>2. ASSUME NEW t \in Turns,
             \/ RespondToPermission(t) \/ PermissionRequested(t) \/ PermissionAborted(t)
             \/ StreamEnds(t) \/ SystemInit(t)
      PROVE  UNCHANGED <<run.turn, Asked, Verdicts>>
  <2>1. UNCHANGED <<run, outcome, interrupts, closing>>
    BY <1>2 DEF RespondToPermission, PermissionRequested, PermissionAborted, StreamEnds,
                StreamGone, SystemInit
  <2> QED BY <2>1, SilentStep DEF closed
<1>3. ASSUME NEW t \in Turns, Result(t)
      PROVE  Contract!Next \/ UNCHANGED <<run.turn, Asked, Verdicts>>
  <2>1. UNCHANGED <<interrupts, closing>>
    BY <1>3 DEF Result
  <2>2. CASE active = t
    <3>1. PICK type \in {"turn_completed", "turn_failed"} : Emit(type, t)
      BY <1>3, <2>2 DEF Result
    <3> DEFINE e == [type |-> type, turn |-> t]
    <3>2. e \in Event /\ e.type = type /\ e.turn = t
      BY DEF Event
    <3> HIDE DEF e
    <3> QED BY <2>1, <2>2, <3>1, <3>2, ContractEmits, NoneApart
  <2>3. CASE active # t
    <3>1. UNCHANGED <<run, outcome>>
      BY <1>3, <2>3 DEF Result
    <3> QED BY <2>1, <3>1, SilentStep DEF closed
  <2> QED BY <2>2, <2>3
<1>4. ASSUME NEW t \in Turns, StreamFails(t)
      PROVE  Contract!Next \/ UNCHANGED <<run.turn, Asked, Verdicts>>
  <2>1. UNCHANGED <<interrupts, closing>>
    BY <1>4 DEF StreamFails, StreamGone
  <2>2. CASE ~closed /\ active # None
    <3>1. Emit("turn_failed", t)
      BY <1>4, <2>2 DEF StreamFails
    <3>2. Failed(t) \in Event /\ Failed(t).type = "turn_failed" /\ Failed(t).turn = t
      BY DEF Failed, Event
    <3> QED BY <2>1, <2>2, <3>1, <3>2, ContractEmits
  <2>3. CASE ~(~closed /\ active # None)
    <3>1. UNCHANGED <<run, outcome>>
      BY <1>4, <2>3 DEF StreamFails
    <3> QED BY <2>1, <3>1, SilentStep DEF closed
  <2> QED BY <2>2, <2>3
<1>5. CASE CloseReturns
  <2>1. UNCHANGED <<run, outcome, interrupts>> /\ closed /\ closed'
    BY <1>5 DEF CloseReturns, closed
  <2> QED BY <2>1, SilentStep
<1>6. CASE UNCHANGED vars
  BY <1>6, SilentStep DEF vars, closed
<1> QED BY <1>1, <1>2, <1>3, <1>4, <1>5, <1>6, ContractTurnReturns, ContractInterruptReturns,
           ContractInterrupt, ContractCloses DEF Next, Sdk

\* A Claude session keeps what a session promises the caller of run(), whatever
\* the queries of earlier turns send: turns are settled one at a time and once
\* each, completed and canceled only by their own end, and a turn that was stopped
\* is told that it was canceled; a failure may be that of an earlier query.  (That
\* an interrupt settles its turn is left to the run, which checks
\* ImplementsContract.)
THEOREM KeepsContract == Spec => Contract!Safety
<1>1. IInv /\ IInv' /\ [Next]_vars => [Contract!Next]_(Contract!vars)
  BY ContractStep
<1> QED BY ContractInit, <1>1, IInvInvariant, PTL DEF Spec, Contract!Safety

=============================================================================
