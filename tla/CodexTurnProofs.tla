--------------------------- MODULE CodexTurnProofs ---------------------------
(***************************************************************************)
(* Proofs about CodexTurn for any number of prompts, and for app-servers   *)
(* that oblige or do not.                                                  *)
(***************************************************************************)
EXTENDS CodexTurn, SequenceTheorems, TLAPS

\* An acknowledged turn/start that startTurn has still to see: no chunk
\* boundary has passed since, so the app-server cannot have died.
AckedOnLiveProcess ==
    \A k \in 1 .. Len(micro) :
        micro[k].kind = "start" /\ micro[k].ok => process = "up"

\* The turn/start requests and their continuations are those of the run that
\* is starting, which has exactly one.
StartsAreTheRuns ==
    /\ \A k \in 1 .. Len(pending) :
          pending[k].kind = "start" => run.phase = "starting" /\ pending[k].turn = run.turn
    /\ \A k \in 1 .. Len(micro) :
          micro[k].kind = "start" => run.phase = "starting" /\ micro[k].turn = run.turn
    /\ \A j, k \in 1 .. Len(pending) :
          pending[j].kind = "start" /\ pending[k].kind = "start" => j = k
    /\ \A j, k \in 1 .. Len(micro) :
          micro[j].kind = "start" /\ micro[k].kind = "start" => j = k
    /\ \A j \in 1 .. Len(pending), k \in 1 .. Len(micro) :
          ~(pending[j].kind = "start" /\ micro[k].kind = "start")
    /\ run.phase = "starting" =>
          \/ \E k \in 1 .. Len(pending) : pending[k].kind = "start"
          \/ \E k \in 1 .. Len(micro) : micro[k].kind = "start"

WaitingKeepsNothing == run.phase = "waiting" => run.buffer = <<>>

\* The app-server says nothing of turns it was not asked for.
SilentWhenDone == server.todo = <<>> => ~server.answered /\ ~server.started

\* The turns the app-server still has are the run's and those of settled runs.
TodoIsUsed ==
    \A k \in 1 .. Len(server.todo) :
        server.todo[k] = run.turn \/ outcome[server.todo[k]] # None

Heads(turn) == server.todo # <<>> /\ Head(server.todo) = turn

\* While turn/start is pending, the app-server has yet to answer it.
PendingIsUnanswered ==
    \A k \in 1 .. Len(pending) :
        pending[k].kind = "start" /\ process = "up" =>
            /\ \E j \in 1 .. Len(server.todo) : server.todo[j] = run.turn
            /\ Heads(run.turn) => ~server.answered

\* Nothing has settled the run and no interrupt will: it depends on the end of
\* its own turn.
Dependent ==
    /\ ~closed
    /\ ~Interrupting
    /\ run.phase # "idle"
    /\ run.buffer = <<>>

Acked ==
    \/ run.phase = "waiting"
    \/ \E k \in 1 .. Len(micro) : micro[k].kind = "start" /\ micro[k].ok

\* That turn is then the one the app-server works on...
DependentHeads == Dependent /\ Acked => Heads(run.turn) /\ server.answered

\* ...and its end will not be ignored.
DependentActive ==
    /\ Dependent /\ run.phase = "waiting" => active # None
    /\ Dependent /\ process = "up" /\ Heads(run.turn) /\ server.started => active # None

\* The inductive invariant.
IInv ==
    /\ TypeOK
    /\ ActiveHasProcess
    /\ AckedOnLiveProcess
    /\ StartsAreTheRuns
    /\ WaitingKeepsNothing
    /\ SilentWhenDone
    /\ TodoIsUsed
    /\ PendingIsUnanswered
    /\ DependentHeads
    /\ DependentActive

-----------------------------------------------------------------------------
(* Sequences                                                               *)

LEMMA WithoutProperties ==
    ASSUME NEW S, NEW s \in Seq(S), NEW k \in 1 .. Len(s)
    PROVE  /\ Without(s, k) \in Seq(S)
           /\ Len(Without(s, k)) = Len(s) - 1
           /\ \A i \in 1 .. Len(s) - 1 :
                 Without(s, k)[i] = IF i < k THEN s[i] ELSE s[i + 1]
<1> DEFINE a == SubSeq(s, 1, k - 1)
           b == SubSeq(s, k + 1, Len(s))
<1>0. Len(s) \in Nat
  BY LenProperties
<1>1. /\ a \in Seq(S)
      /\ Len(a) = k - 1
      /\ \A i \in 1 .. k - 1 : a[i] = s[i]
  <2>1. \A i \in 1 .. k - 1 : s[i] \in S
    BY <1>0, ElementOfSeq
  <2> QED BY <1>0, <2>1, SubSeqProperties
<1>2. /\ b \in Seq(S)
      /\ Len(b) = Len(s) - k
      /\ \A i \in 1 .. Len(s) - k : b[i] = s[i + k]
  <2>1. \A i \in k + 1 .. Len(s) : s[i] \in S
    BY <1>0, ElementOfSeq
  <2>2. /\ b \in Seq(S)
        /\ Len(b) = IF k + 1 <= Len(s) THEN Len(s) - (k + 1) + 1 ELSE 0
        /\ \A i \in 1 .. Len(s) - (k + 1) + 1 : b[i] = s[(k + 1) + i - 1]
    BY <1>0, <2>1, SubSeqProperties
  <2> QED BY <1>0, <2>2
<1>3. Without(s, k) = a \o b
  BY DEF Without
<1> HIDE DEF a, b
<1>4. /\ a \o b \in Seq(S)
      /\ Len(a \o b) = Len(a) + Len(b)
      /\ \A i \in 1 .. Len(a) + Len(b) :
            (a \o b)[i] = IF i <= Len(a) THEN a[i] ELSE b[i - Len(a)]
  BY <1>1, <1>2, ConcatProperties
<1>5. ASSUME NEW i \in 1 .. Len(s) - 1
      PROVE  (a \o b)[i] = IF i < k THEN s[i] ELSE s[i + 1]
  <2>1. CASE i < k
    BY <2>1, <1>0, <1>1, <1>2, <1>4
  <2>2. CASE ~(i < k)
    <3>1. i - Len(a) \in 1 .. Len(s) - k /\ (i - Len(a)) + k = i + 1
      BY <2>2, <1>0, <1>1
    <3>2. (a \o b)[i] = b[i - Len(a)]
      BY <2>2, <1>0, <1>1, <1>2, <1>4
    <3>3. b[i - Len(a)] = s[(i - Len(a)) + k]
      BY <3>1, <1>2
    <3> QED BY <2>2, <3>1, <3>2, <3>3
  <2> QED BY <2>1, <2>2
<1> QED BY <1>0, <1>1, <1>2, <1>3, <1>4, <1>5

LEMMA TailIndices ==
    ASSUME NEW S, NEW s \in Seq(S), s # <<>>
    PROVE  /\ \A i \in 1 .. Len(Tail(s)) : i + 1 \in 1 .. Len(s) /\ Tail(s)[i] = s[i + 1]
           /\ \A i \in 1 .. Len(s) :
                 i = 1 \/ (i - 1 \in 1 .. Len(Tail(s)) /\ Tail(s)[i - 1] = s[i])
<1>1. /\ Len(Tail(s)) = Len(s) - 1
      /\ \A i \in 1 .. Len(Tail(s)) : Tail(s)[i] = s[i + 1]
  BY HeadTailProperties
<1>2. Len(s) \in Nat
  BY LenProperties
<1>3. ASSUME NEW i \in 1 .. Len(s), i # 1
      PROVE  i - 1 \in 1 .. Len(Tail(s)) /\ Tail(s)[i - 1] = s[i]
  <2>1. i - 1 \in 1 .. Len(Tail(s)) /\ (i - 1) + 1 = i
    BY <1>1, <1>2, <1>3
  <2>2. Tail(s)[i - 1] = s[(i - 1) + 1]
    BY <1>1, <2>1
  <2> QED BY <2>1, <2>2
<1> QED BY <1>1, <1>2, <1>3

LEMMA FunctionIsSeq ==
    ASSUME NEW S, NEW n \in Nat, NEW f \in [1 .. n -> S]
    PROVE  f \in Seq(S) /\ Len(f) = n
OBVIOUS

LEMMA SettledType ==
    ASSUME NEW r \in Requests, NEW ok \in BOOLEAN
    PROVE  /\ Settled(r, ok) \in Continuations
           /\ Settled(r, ok).kind = r.kind
           /\ Settled(r, ok).turn = r.turn
           /\ Settled(r, ok).ok = ok
BY DEF Settled, Requests, Continuations

\* A request is taken from `pending` and its continuation queued.
Moves(k, ok) ==
    /\ pending' = Without(pending, k)
    /\ micro' = Append(micro, Settled(pending[k], ok))

LEMMA MovesProperties ==
    ASSUME TypeOK, NEW k \in 1 .. Len(pending), NEW ok \in BOOLEAN, Moves(k, ok)
    PROVE  /\ pending' \in Seq(Requests)
           /\ micro' \in Seq(Continuations)
           /\ Len(pending) \in Nat /\ Len(micro) \in Nat
           /\ Len(pending') = Len(pending) - 1
           /\ \A i \in 1 .. Len(pending) - 1 :
                 pending'[i] = IF i < k THEN pending[i] ELSE pending[i + 1]
           /\ Len(micro') = Len(micro) + 1
           /\ \A i \in 1 .. Len(micro) : micro'[i] = micro[i]
           /\ micro'[Len(micro) + 1].kind = pending[k].kind
           /\ micro'[Len(micro) + 1].turn = pending[k].turn
           /\ micro'[Len(micro) + 1].ok = ok
<1>1. pending \in Seq(Requests) /\ micro \in Seq(Continuations)
  BY DEF TypeOK
<1>2. pending[k] \in Requests
  BY <1>1, ElementOfSeq
<1>3. Settled(pending[k], ok) \in Continuations
  BY <1>2, SettledType
<1>4. /\ Settled(pending[k], ok).kind = pending[k].kind
      /\ Settled(pending[k], ok).turn = pending[k].turn
      /\ Settled(pending[k], ok).ok = ok
  BY <1>2, SettledType
<1>5. Len(pending) \in Nat /\ Len(micro) \in Nat
  BY <1>1, LenProperties
<1>6. /\ pending' \in Seq(Requests)
      /\ Len(pending') = Len(pending) - 1
      /\ \A i \in 1 .. Len(pending) - 1 :
            pending'[i] = IF i < k THEN pending[i] ELSE pending[i + 1]
  BY <1>1, WithoutProperties DEF Moves
<1>7. /\ micro' \in Seq(Continuations)
      /\ Len(micro') = Len(micro) + 1
      /\ \A i \in 1 .. Len(micro) : micro'[i] = micro[i]
      /\ micro'[Len(micro) + 1] = Settled(pending[k], ok)
  BY <1>1, <1>3, AppendProperties DEF Moves
<1> QED BY <1>4, <1>5, <1>6, <1>7

\* The requests that stay pending keep their order: the ones behind the settled request
\* move up by one place.
LEMMA MovesKeepOrder ==
    ASSUME TypeOK, NEW k \in 1 .. Len(pending), NEW ok \in BOOLEAN, Moves(k, ok)
    PROVE  \A i \in 1 .. Len(pending') : \E j \in 1 .. Len(pending) :
              pending'[i] = pending[j] /\ j # k /\ (j = i \/ j = i + 1) /\ (j = i <=> i < k)
<1>1. /\ Len(pending) \in Nat
      /\ Len(pending') = Len(pending) - 1
      /\ \A i \in 1 .. Len(pending') :
            pending'[i] = IF i < k THEN pending[i] ELSE pending[i + 1]
  BY MovesProperties
<1>2. SUFFICES ASSUME NEW i \in 1 .. Len(pending')
               PROVE  \E j \in 1 .. Len(pending) :
                         /\ pending'[i] = pending[j] /\ j # k
                         /\ (j = i \/ j = i + 1) /\ (j = i <=> i < k)
  OBVIOUS
<1>3. CASE i < k
  <2>1. i \in 1 .. Len(pending) /\ pending'[i] = pending[i] /\ i # k
    BY <1>1, <1>3
  <2> QED BY <1>3, <2>1
<1>4. CASE ~(i < k)
  <2>1. i + 1 \in 1 .. Len(pending) /\ pending'[i] = pending[i + 1] /\ i + 1 # k
    BY <1>1, <1>4
  <2>2. i + 1 # i
    OBVIOUS
  <2> QED BY <1>4, <2>1, <2>2
<1> QED BY <1>3, <1>4

LEMMA MovesKeepInterrupting ==
    ASSUME TypeOK, NEW k \in 1 .. Len(pending), NEW ok \in BOOLEAN, Moves(k, ok)
    PROVE  Interrupting => Interrupting'
<1> USE MovesProperties
<1>1. ASSUME NEW i \in 1 .. Len(pending), pending[i].kind = "interrupt"
      PROVE  Interrupting'
  <2>1. CASE i = k
    <3>1. Len(micro) + 1 \in 1 .. Len(micro') /\ micro'[Len(micro) + 1].kind = "interrupt"
      BY <1>1, <2>1
    <3> QED BY <3>1 DEF Interrupting
  <2>2. CASE i < k
    <3>1. i \in 1 .. Len(pending') /\ pending'[i].kind = "interrupt"
      BY <1>1, <2>2
    <3> QED BY <3>1 DEF Interrupting
  <2>3. CASE i > k
    <3>1. i - 1 \in 1 .. Len(pending') /\ pending'[i - 1] = pending[i]
      BY <1>1, <2>3
    <3> QED BY <1>1, <3>1 DEF Interrupting
  <2> QED BY <2>1, <2>2, <2>3
<1>2. ASSUME NEW i \in 1 .. Len(micro), micro[i].kind = "interrupt"
      PROVE  Interrupting'
  <2>1. i \in 1 .. Len(micro') /\ micro'[i].kind = "interrupt"
    BY <1>2
  <2> QED BY <2>1 DEF Interrupting
<1> QED BY <1>1, <1>2 DEF Interrupting

LEMMA MovesKeepStarts ==
    ASSUME TypeOK, StartsAreTheRuns, NEW k \in 1 .. Len(pending), NEW ok \in BOOLEAN,
           Moves(k, ok), run' = run
    PROVE  StartsAreTheRuns'
<1>1. \A i \in 1 .. Len(pending') : \E j \in 1 .. Len(pending) :
         pending'[i] = pending[j] /\ j # k /\ (j = i \/ j = i + 1) /\ (j = i <=> i < k)
  BY MovesKeepOrder
<1>2. \A i \in 1 .. Len(micro') :
         \/ i \in 1 .. Len(micro) /\ micro'[i] = micro[i]
         \/ i = Len(micro) + 1 /\ micro'[i].kind = pending[k].kind
                               /\ micro'[i].turn = pending[k].turn
  BY MovesProperties
<1>3. ASSUME NEW i \in 1 .. Len(pending'), pending'[i].kind = "start"
      PROVE  run.phase = "starting" /\ pending'[i].turn = run.turn
  <2>1. PICK j \in 1 .. Len(pending) : pending'[i] = pending[j]
    BY <1>1
  <2> QED BY <1>3, <2>1 DEF StartsAreTheRuns
<1>4. ASSUME NEW i \in 1 .. Len(micro'), micro'[i].kind = "start"
      PROVE  run.phase = "starting" /\ micro'[i].turn = run.turn
  BY <1>2, <1>4 DEF StartsAreTheRuns
<1>5. ASSUME NEW i \in 1 .. Len(pending'), NEW j \in 1 .. Len(pending'),
             pending'[i].kind = "start", pending'[j].kind = "start"
      PROVE  i = j
  <2>1. PICK m \in 1 .. Len(pending) : pending'[i] = pending[m] /\ m # k
              /\ (m = i \/ m = i + 1) /\ (m = i <=> i < k)
    BY <1>1
  <2>2. PICK n \in 1 .. Len(pending) : pending'[j] = pending[n] /\ n # k
              /\ (n = j \/ n = j + 1) /\ (n = j <=> j < k)
    BY <1>1
  <2>3. m = n
    BY <1>5, <2>1, <2>2 DEF StartsAreTheRuns
  <2> QED BY <2>1, <2>2, <2>3
<1>6. ASSUME NEW i \in 1 .. Len(micro'), NEW j \in 1 .. Len(micro'),
             micro'[i].kind = "start", micro'[j].kind = "start"
      PROVE  i = j
  BY <1>2, <1>6 DEF StartsAreTheRuns
<1>7. ASSUME NEW i \in 1 .. Len(pending'), NEW j \in 1 .. Len(micro')
      PROVE  ~(pending'[i].kind = "start" /\ micro'[j].kind = "start")
  <2>1. PICK m \in 1 .. Len(pending) : pending'[i] = pending[m] /\ m # k
    BY <1>1
  <2> QED BY <1>2, <2>1 DEF StartsAreTheRuns
<1>8. ASSUME run.phase = "starting"
      PROVE  \/ \E i \in 1 .. Len(pending') : pending'[i].kind = "start"
             \/ \E i \in 1 .. Len(micro') : micro'[i].kind = "start"
  <2>1. CASE \E i \in 1 .. Len(micro) : micro[i].kind = "start"
    BY <2>1, MovesProperties
  <2>2. ASSUME NEW i \in 1 .. Len(pending), pending[i].kind = "start"
        PROVE  \/ \E j \in 1 .. Len(pending') : pending'[j].kind = "start"
               \/ \E j \in 1 .. Len(micro') : micro'[j].kind = "start"
    <3>1. CASE i = k
      BY <2>2, <3>1, MovesProperties
    <3>2. CASE i < k
      <4>1. i \in 1 .. Len(pending') /\ pending'[i] = pending[i]
        BY <3>2, MovesProperties
      <4> QED BY <2>2, <4>1
    <3>3. CASE i > k
      <4>1. i - 1 \in 1 .. Len(pending') /\ pending'[i - 1] = pending[i]
        BY <3>3, MovesProperties
      <4> QED BY <2>2, <4>1
    <3> QED BY <3>1, <3>2, <3>3
  <2> QED BY <1>8, <2>1, <2>2 DEF StartsAreTheRuns
<1> QED BY <1>3, <1>4, <1>5, <1>6, <1>7, <1>8 DEF StartsAreTheRuns

LEMMA MovesAcked ==
    ASSUME TypeOK, NEW k \in 1 .. Len(pending), NEW ok \in BOOLEAN, Moves(k, ok),
           run' = run, Acked'
    PROVE  Acked \/ (pending[k].kind = "start" /\ ok)
<1>1. \A i \in 1 .. Len(micro') :
         \/ i \in 1 .. Len(micro) /\ micro'[i] = micro[i]
         \/ micro'[i].kind = pending[k].kind /\ micro'[i].ok = ok
  BY MovesProperties
<1> QED BY <1>1 DEF Acked

-----------------------------------------------------------------------------
(* The run                                                                 *)

\* What an event may do to the run: keep it starting, leave it alone, settle it.
RunMoves ==
    /\ RunnerTypeOK'
    /\ run'.phase = "starting" <=> run.phase = "starting"
    /\ run.phase = "starting" => run'.turn = run.turn
    /\ run'.phase = "waiting" => run' = run
    /\ run'.phase \in {run.phase, "idle"}
    /\ \A t \in Turns : outcome[t] # None => outcome'[t] # None
    /\ \A t \in Turns : t = run.turn => t = run'.turn \/ outcome'[t] # None

\* An event that reaches the run leaves it settled or about to be.
LEMMA EmitEffect ==
    ASSUME TypeOK, NEW type \in {"turn_completed", "turn_failed", "turn_canceled"},
           NEW turn \in Turns \cup {None}, Emit(type, turn)
    PROVE  /\ RunMoves
           /\ closed \/ run'.phase = "idle" \/ run'.buffer # <<>>
<1> USE DEF RunMoves
<1> DEFINE e == [type |-> type, turn |-> turn]
<1>1. e \in Event /\ e # None
  BY NoneAssumption DEF Event
<1>2. CASE closed \/ (run.phase = "idle" /\ UNCHANGED <<run, outcome>>)
  BY <1>2 DEF Emit, Observe, TypeOK, RunnerTypeOK, Run, NoRun
<1>3. CASE ~closed /\ run.phase = "starting"
  <2>1. run \in [turn : Turns, phase : {"starting", "waiting"}, buffer : Seq(Event)]
    BY <1>3 DEF TypeOK, RunnerTypeOK, Run, NoRun
  <2>2. run' = [run EXCEPT !.buffer = Append(run.buffer, e)] /\ outcome' = outcome
    BY <1>3 DEF Emit, Observe
  <2>3. Append(run.buffer, e) \in Seq(Event) /\ Append(run.buffer, e) # <<>>
    BY <1>1, <2>1, AppendProperties
  <2>4. /\ run' \in [turn : Turns, phase : {"starting", "waiting"}, buffer : Seq(Event)]
        /\ run'.turn = run.turn /\ run'.phase = run.phase
        /\ run'.buffer = Append(run.buffer, e)
    BY <2>1, <2>2, <2>3
  <2> QED BY <1>3, <2>2, <2>3, <2>4 DEF TypeOK, RunnerTypeOK, Run
<1>4. CASE ~closed /\ run.phase = "waiting"
  <2>1. run.turn \in Turns
    BY <1>4 DEF TypeOK, RunnerTypeOK, Run, NoRun
  <2>2. run' = NoRun /\ outcome' = [outcome EXCEPT ![run.turn] = e]
    BY <1>4 DEF Emit, Observe, Settle
  <2> QED BY <1>1, <1>4, <2>1, <2>2 DEF TypeOK, RunnerTypeOK, Run, NoRun, Outcomes
<1>5. run.phase \in {"idle", "starting", "waiting"}
  BY DEF TypeOK, RunnerTypeOK, Run, NoRun
<1> QED BY <1>2, <1>3, <1>4, <1>5 DEF Emit, Observe

LEMMA SettleEffect ==
    ASSUME TypeOK, run.phase # "idle", NEW o \in Event \cup {Rejected}, Settle(o)
    PROVE  /\ RunnerTypeOK'
           /\ run' = NoRun
           /\ \A t \in Turns : outcome[t] # None => outcome'[t] # None
           /\ \A t \in Turns : t = run.turn => outcome'[t] # None
BY NoneAssumption DEF Settle, TypeOK, RunnerTypeOK, Run, NoRun, Outcomes

\* The app-server's list survives an event: a turn is the run's or settled.
LEMMA TodoStaysUsed ==
    ASSUME TypeOK, TodoIsUsed,
           \A t \in Turns : outcome[t] # None => outcome'[t] # None,
           \A t \in Turns : t = run.turn => t = run'.turn \/ outcome'[t] # None
    PROVE  \A k \in 1 .. Len(server.todo) :
              server.todo[k] = run'.turn \/ outcome'[server.todo[k]] # None
<1> TAKE k \in 1 .. Len(server.todo)
<1>1. server.todo \in Seq(Turns)
  BY DEF TypeOK
<1>2. server.todo[k] \in Turns
  BY <1>1, ElementOfSeq
<1> QED BY <1>2 DEF TodoIsUsed

-----------------------------------------------------------------------------
(* The inductive invariant, action by action                               *)

LEMMA NoRunWhenIdle == TypeOK => (run.phase = "idle" <=> run = NoRun)
BY DEF TypeOK, RunnerTypeOK, Run, NoRun

LEMMA TurnOfRun == TypeOK /\ run.phase # "idle" => run.turn \in Turns /\ run.buffer \in Seq(Event)
BY DEF TypeOK, RunnerTypeOK, Run, NoRun

LEMMA TurnsNotNone == None \notin Turns /\ Turns \subseteq Nat
BY TurnsAssumption DEF Turns

LEMMA InitIInv == Init => IInv
<1> SUFFICES ASSUME Init PROVE IInv
  OBVIOUS
<1> USE DEF Init, RunnerInit, Silent, NoRun
<1>0. <<>> \in Seq(Turns) /\ <<>> \in Seq(Requests) /\ <<>> \in Seq(Continuations)
  BY EmptySeq
<1>1. TypeOK
  <2>1. RunnerTypeOK
    BY DEF RunnerTypeOK, Run, Outcomes
  <2> QED BY <1>0, <2>1 DEF TypeOK
<1>2. Len(pending) = 0 /\ Len(micro) = 0 /\ Len(server.todo) = 0
  OBVIOUS
<1>3. StartsAreTheRuns /\ TodoIsUsed /\ PendingIsUnanswered /\ AckedOnLiveProcess
  BY <1>2 DEF StartsAreTheRuns, TodoIsUsed, PendingIsUnanswered, AckedOnLiveProcess
<1>4. ActiveHasProcess /\ WaitingKeepsNothing /\ SilentWhenDone
  BY DEF ActiveHasProcess, WaitingKeepsNothing, SilentWhenDone
<1>5. DependentHeads /\ DependentActive
  BY DEF DependentHeads, DependentActive, Dependent
<1> QED BY <1>1, <1>3, <1>4, <1>5 DEF IInv

LEMMA StutterStep == IInv /\ UNCHANGED vars => IInv'
BY DEF IInv, vars, TypeOK, RunnerTypeOK, ActiveHasProcess, AckedOnLiveProcess,
       StartsAreTheRuns, WaitingKeepsNothing, SilentWhenDone, TodoIsUsed,
       PendingIsUnanswered, Heads, DependentHeads, DependentActive, Dependent, Acked,
       Interrupting

LEMMA PromptStep ==
    ASSUME IInv, NEW t \in Turns, Prompt(t)
    PROVE  IInv'
<1> USE DEF IInv
<1>1. run = NoRun /\ micro = <<>> /\ process = "up" /\ outcome[t] = None
  BY NoRunWhenIdle DEF Prompt, StartRun, IsNext, Idle
<1>2. /\ run' = [turn |-> t, phase |-> "starting", buffer |-> <<>>]
      /\ pending' = Append(pending, [kind |-> "start", turn |-> t])
      /\ server' = [server EXCEPT !.todo = Append(server.todo, t)]
      /\ UNCHANGED <<outcome, active, closed, process, micro>>
  BY DEF Prompt, StartRun
<1>3. server.todo \in Seq(Turns) /\ pending \in Seq(Requests)
  BY DEF TypeOK
<1>4. /\ server'.todo \in Seq(Turns)
      /\ Len(server'.todo) = Len(server.todo) + 1
      /\ \A k \in 1 .. Len(server.todo) : server'.todo[k] = server.todo[k]
      /\ server'.todo[Len(server.todo) + 1] = t
      /\ Len(server.todo) \in Nat
      /\ server'.todo = Append(server.todo, t)
      /\ server'.answered = server.answered /\ server'.started = server.started
      /\ server' \in [todo : Seq(Turns), answered : BOOLEAN, started : BOOLEAN,
                      stopped : BOOLEAN]
  <2>1. server'.todo = Append(server.todo, t)
    BY <1>2 DEF TypeOK
  <2>2. Append(server.todo, t) \in Seq(Turns)
    BY <1>3, AppendProperties
  <2>3. server' \in [todo : Seq(Turns), answered : BOOLEAN, started : BOOLEAN,
                     stopped : BOOLEAN]
    BY <1>2, <2>2 DEF TypeOK
  <2>4. server'.answered = server.answered /\ server'.started = server.started
    BY <1>2 DEF TypeOK
  <2> QED BY <1>3, <2>1, <2>3, <2>4, AppendProperties, LenProperties
<1>5. /\ pending' \in Seq(Requests)
      /\ Len(pending') = Len(pending) + 1
      /\ \A k \in 1 .. Len(pending) : pending'[k] = pending[k]
      /\ pending'[Len(pending) + 1] = [kind |-> "start", turn |-> t]
      /\ Len(pending) \in Nat
  <2>1. [kind |-> "start", turn |-> t] \in Requests
    BY DEF Requests
  <2> QED BY <1>2, <1>3, <2>1, AppendProperties, LenProperties
<1>6. Len(micro) = 0 /\ Len(micro') = 0
  BY <1>1, <1>2
<1>7. \A k \in 1 .. Len(pending) : pending[k].kind # "start"
  BY <1>1 DEF StartsAreTheRuns, NoRun
<1>8. \A k \in 1 .. Len(server.todo) : server.todo[k] # t /\ outcome[server.todo[k]] # None
  <2> TAKE k \in 1 .. Len(server.todo)
  <2>1. server.todo[k] \in Turns
    BY <1>3, ElementOfSeq
  <2>2. server.todo[k] # run.turn
    BY <1>1, <2>1, TurnsNotNone DEF NoRun
  <2> QED BY <1>1, <2>2 DEF TodoIsUsed
<1>9. Heads(t)' => ~server.answered /\ ~server.started
  <2>1. CASE server.todo = <<>>
    BY <2>1 DEF SilentWhenDone
  <2>2. CASE server.todo # <<>>
    <3>1. Head(server'.todo) = Head(server.todo)
      BY <1>3, <1>4, <2>2, HeadTailAppend
    <3>2. Head(server.todo) = server.todo[1] /\ 1 \in 1 .. Len(server.todo)
      BY <1>3, <2>2, EmptySeq
    <3> QED BY <1>8, <3>1, <3>2 DEF Heads
  <2> QED BY <2>1, <2>2
<1>10. TypeOK'
  <2>1. RunnerTypeOK'
    BY <1>2 DEF TypeOK, RunnerTypeOK, Run
  <2> QED BY <1>2, <1>4, <1>5, <2>1 DEF TypeOK
<1>11. ActiveHasProcess' /\ AckedOnLiveProcess' /\ WaitingKeepsNothing'
  BY <1>2, <1>6 DEF ActiveHasProcess, AckedOnLiveProcess, WaitingKeepsNothing
<1>12. StartsAreTheRuns'
  <2>1. \A k \in 1 .. Len(pending') : pending'[k].kind = "start" => k = Len(pending) + 1
    BY <1>5, <1>7
  <2>2. Len(pending) + 1 \in 1 .. Len(pending')
    BY <1>5
  <2> QED BY <1>2, <1>5, <1>6, <2>1, <2>2 DEF StartsAreTheRuns
<1>13. SilentWhenDone'
  BY <1>4 DEF SilentWhenDone
<1>14. TodoIsUsed'
  BY <1>2, <1>4, <1>8 DEF TodoIsUsed
<1>15. PendingIsUnanswered'
  <2>1. Len(server.todo) + 1 \in 1 .. Len(server'.todo)
    BY <1>4
  <2> QED BY <1>2, <1>4, <1>9, <2>1 DEF PendingIsUnanswered
<1>16. DependentHeads' /\ DependentActive'
  <2>1. ~Acked' /\ run'.phase = "starting"
    BY <1>2, <1>6 DEF Acked
  <2> QED BY <1>2, <1>4, <1>9, <2>1 DEF DependentHeads, DependentActive
<1> QED BY <1>10, <1>11, <1>12, <1>13, <1>14, <1>15, <1>16

LEMMA NoEventEffect == TypeOK /\ UNCHANGED <<run, outcome>> => RunMoves
BY DEF RunMoves, TypeOK, RunnerTypeOK, Run, NoRun

LEMMA StartsKept ==
    ASSUME StartsAreTheRuns, RunMoves, UNCHANGED <<pending, micro>>
    PROVE  StartsAreTheRuns'
BY DEF StartsAreTheRuns, RunMoves

LEMMA PromptFailsStep ==
    ASSUME IInv, NEW t \in Turns, PromptFails(t)
    PROVE  IInv'
<1> USE DEF IInv
<1>1. RunMoves
  BY NoneAssumption DEF PromptFails, RunMoves, TypeOK, RunnerTypeOK, Run, NoRun, Outcomes
<1>2. UNCHANGED <<run, active, closed, process, pending, micro, server>> /\ run.phase = "idle"
  BY DEF PromptFails
<1>3. TypeOK'
  BY <1>1, <1>2 DEF TypeOK, RunMoves
<1>4. StartsAreTheRuns'
  BY <1>1, <1>2, StartsKept
<1>5. TodoIsUsed'
  BY <1>1, <1>2, TodoStaysUsed DEF TodoIsUsed, RunMoves
<1>6. /\ ActiveHasProcess' /\ AckedOnLiveProcess' /\ WaitingKeepsNothing'
      /\ SilentWhenDone' /\ PendingIsUnanswered'
  BY <1>2 DEF ActiveHasProcess, AckedOnLiveProcess, WaitingKeepsNothing, SilentWhenDone,
              PendingIsUnanswered, Heads
<1>7. DependentHeads' /\ DependentActive'
  BY <1>2 DEF DependentHeads, DependentActive, Dependent
<1> QED BY <1>3, <1>4, <1>5, <1>6, <1>7

LEMMA InterruptStep ==
    ASSUME IInv, Interrupt
    PROVE  IInv'
<1> USE DEF IInv
<1> DEFINE r == [kind |-> "interrupt", turn |-> run.turn]
<1>1. /\ pending' = Append(pending, r)
      /\ active' = None
      /\ UNCHANGED <<run, outcome, closed, process, micro, server>>
  BY DEF Interrupt
<1>2. pending \in Seq(Requests) /\ r \in Requests
  BY DEF TypeOK, RunnerTypeOK, Run, NoRun, Requests
<1>3. /\ pending' \in Seq(Requests)
      /\ Len(pending') = Len(pending) + 1
      /\ \A k \in 1 .. Len(pending) : pending'[k] = pending[k]
      /\ pending'[Len(pending) + 1].kind = "interrupt"
      /\ Len(pending) \in Nat
  BY <1>1, <1>2, AppendProperties, LenProperties
<1>4. \A k \in 1 .. Len(pending') : pending'[k].kind = "start" =>
         k \in 1 .. Len(pending) /\ pending'[k] = pending[k]
  BY <1>3
<1>5. TypeOK'
  BY <1>1, <1>3 DEF TypeOK, RunnerTypeOK
<1>6. StartsAreTheRuns'
  <2>1. 1 .. Len(pending) \subseteq 1 .. Len(pending')
    BY <1>3
  <2> QED BY <1>1, <1>3, <1>4, <2>1 DEF StartsAreTheRuns
<1>7. PendingIsUnanswered'
  BY <1>1, <1>4 DEF PendingIsUnanswered, Heads
<1>8. /\ ActiveHasProcess' /\ AckedOnLiveProcess' /\ WaitingKeepsNothing'
      /\ SilentWhenDone' /\ TodoIsUsed'
  BY <1>1 DEF ActiveHasProcess, AckedOnLiveProcess, WaitingKeepsNothing, SilentWhenDone,
              TodoIsUsed
<1>9. DependentHeads' /\ DependentActive'
  <2>1. Len(pending) + 1 \in 1 .. Len(pending')
    BY <1>3
  <2>2. Interrupting'
    BY <1>3, <2>1 DEF Interrupting
  <2> QED BY <2>2 DEF DependentHeads, DependentActive, Dependent
<1> QED BY <1>5, <1>6, <1>7, <1>8, <1>9

LEMMA CloseStep ==
    ASSUME IInv, Close
    PROVE  IInv'
<1> USE DEF IInv
<1>1. RunMoves
  <2>1. CASE active # None
    <3>1. active \in Turns /\ Emit("turn_canceled", active)
      BY <2>1 DEF Close, TypeOK
    <3> QED BY <3>1, EmitEffect
  <2>2. CASE active = None
    BY <2>2, NoEventEffect DEF Close
  <2> QED BY <2>1, <2>2
<1>2. /\ closed' = TRUE /\ active' = None
      /\ process' \in {process, "disposed"}
      /\ micro = <<>>
      /\ UNCHANGED <<pending, micro, server>>
  BY DEF Close, Idle
<1>3. TypeOK'
  BY <1>1, <1>2 DEF TypeOK, RunMoves
<1>4. StartsAreTheRuns'
  BY <1>1, <1>2, StartsKept
<1>5. TodoIsUsed'
  BY <1>1, <1>2, TodoStaysUsed DEF TodoIsUsed, RunMoves
<1>6. WaitingKeepsNothing' /\ ActiveHasProcess' /\ SilentWhenDone' /\ AckedOnLiveProcess'
  BY <1>1, <1>2 DEF RunMoves, WaitingKeepsNothing, ActiveHasProcess, SilentWhenDone,
                    AckedOnLiveProcess
<1>7. PendingIsUnanswered'
  BY <1>1, <1>2 DEF PendingIsUnanswered, Heads, StartsAreTheRuns, RunMoves
<1>8. DependentHeads' /\ DependentActive'
  BY <1>2 DEF DependentHeads, DependentActive, Dependent
<1> QED BY <1>3, <1>4, <1>5, <1>6, <1>7, <1>8

\* A continuation is taken from the queue.
LEMMA TakesMicro ==
    ASSUME TypeOK, micro # <<>>, micro' = Tail(micro)
    PROVE  /\ micro' \in Seq(Continuations)
           /\ Len(micro) \in Nat /\ 1 \in 1 .. Len(micro)
           /\ Head(micro) = micro[1] /\ micro[1] \in Continuations
           /\ Len(micro') = Len(micro) - 1
           /\ \A i \in 1 .. Len(micro') : i + 1 \in 1 .. Len(micro) /\ micro'[i] = micro[i + 1]
           /\ \A i \in 1 .. Len(micro) :
                 i = 1 \/ (i - 1 \in 1 .. Len(micro') /\ micro'[i - 1] = micro[i])
<1>1. micro \in Seq(Continuations)
  BY DEF TypeOK
<1>2. /\ Tail(micro) \in Seq(Continuations)
      /\ Len(Tail(micro)) = Len(micro) - 1
      /\ \A i \in 1 .. Len(Tail(micro)) : Tail(micro)[i] = micro[i + 1]
  BY <1>1, HeadTailProperties
<1>3. Len(micro) \in Nat \ {0}
  BY <1>1, EmptySeq
<1>4. Head(micro) = micro[1] /\ micro[1] \in Continuations
  BY <1>1, <1>3, ElementOfSeq
<1> QED BY <1>2, <1>3, <1>4

\* The only turn/start has come back: none is left.
LEMMA LastStart ==
    ASSUME TypeOK, StartsAreTheRuns, micro # <<>>, Head(micro).kind = "start",
           micro' = Tail(micro)
    PROVE  /\ run.phase = "starting"
           /\ \A k \in 1 .. Len(pending) : pending[k].kind # "start"
           /\ \A k \in 1 .. Len(micro') : micro'[k].kind # "start"
<1>1. 1 \in 1 .. Len(micro) /\ micro[1].kind = "start"
  BY TakesMicro
<1>2. \A i \in 1 .. Len(micro) : micro[i].kind = "start" => i = 1
  BY <1>1 DEF StartsAreTheRuns
<1>3. \A i \in 1 .. Len(micro') : i + 1 \in 1 .. Len(micro) /\ i + 1 # 1 /\ micro'[i] = micro[i + 1]
  BY TakesMicro
<1> QED BY <1>1, <1>2, <1>3 DEF StartsAreTheRuns

LEMMA StartReturnsStep ==
    ASSUME IInv, StartReturns
    PROVE  IInv'
<1> USE DEF IInv
<1>1. /\ micro # <<>> /\ Head(micro).kind = "start" /\ Head(micro).ok
      /\ micro' = Tail(micro)
      /\ active' = IF active = None THEN run.turn ELSE active
      /\ UNCHANGED <<closed, process, pending, server>>
  BY DEF StartReturns
<1>2. /\ run.phase = "starting"
      /\ \A k \in 1 .. Len(pending) : pending[k].kind # "start"
      /\ \A k \in 1 .. Len(micro') : micro'[k].kind # "start"
  BY <1>1, LastStart
<1>3. run.turn \in Turns /\ run.turn # None /\ run.buffer \in Seq(Event)
  BY <1>2, TurnOfRun, TurnsNotNone
<1>4. 1 \in 1 .. Len(micro) /\ Head(micro) = micro[1]
  BY <1>1, TakesMicro
<1>5. process = "up" /\ Acked
  BY <1>1, <1>4 DEF AckedOnLiveProcess, Acked
<1>6. active' \in Turns /\ active' # None
  BY <1>1, <1>3, TurnsNotNone DEF TypeOK
<1>7. /\ RunnerTypeOK'
      /\ run'.phase # "starting"
      /\ run'.phase = "waiting" => run.buffer = <<>> /\ run' = [run EXCEPT !.phase = "waiting"]
      /\ \A t \in Turns : outcome[t] # None => outcome'[t] # None
      /\ \A t \in Turns : t = run.turn => t = run'.turn \/ outcome'[t] # None
  <2>1. CASE run.buffer = <<>>
    <3>1. run' = [run EXCEPT !.phase = "waiting"] /\ outcome' = outcome
      BY <2>1 DEF StartReturns, StartTurnReturns
    <3>2. run \in [turn : Turns, phase : {"starting", "waiting"}, buffer : Seq(Event)]
      BY <1>2 DEF TypeOK, RunnerTypeOK, Run, NoRun
    <3> QED BY <2>1, <3>1, <3>2 DEF TypeOK, RunnerTypeOK, Run
  <2>2. CASE run.buffer # <<>>
    <3>1. Head(run.buffer) \in Event
      BY <1>3, <2>2, HeadTailProperties
    <3>2. Settle(Head(run.buffer))
      BY <2>2 DEF StartReturns, StartTurnReturns
    <3> QED BY <1>2, <3>1, <3>2, SettleEffect DEF NoRun
  <2> QED BY <2>1, <2>2
<1>8. run'.phase = "waiting" => run'.turn = run.turn /\ run'.buffer = <<>>
  BY <1>2, <1>7 DEF TypeOK, RunnerTypeOK, Run, NoRun
<1>9. TypeOK'
  BY <1>1, <1>6, <1>7, TakesMicro DEF TypeOK
<1>10. StartsAreTheRuns'
  BY <1>1, <1>2, <1>7 DEF StartsAreTheRuns
<1>11. TodoIsUsed'
  BY <1>1, <1>7, TodoStaysUsed DEF TodoIsUsed
<1>12. /\ ActiveHasProcess' /\ AckedOnLiveProcess' /\ WaitingKeepsNothing'
       /\ SilentWhenDone' /\ PendingIsUnanswered'
  BY <1>1, <1>2, <1>5, <1>8 DEF ActiveHasProcess, AckedOnLiveProcess, WaitingKeepsNothing,
       SilentWhenDone, PendingIsUnanswered
<1>13. Interrupting => Interrupting'
  <2>1. \A i \in 1 .. Len(micro) : micro[i].kind = "interrupt" =>
           i - 1 \in 1 .. Len(micro') /\ micro'[i - 1] = micro[i]
    BY <1>1, <1>4, TakesMicro
  <2> QED BY <1>1, <2>1 DEF Interrupting
<1>14. DependentHeads' /\ DependentActive'
  <2>1. Dependent' => Dependent /\ run'.turn = run.turn
    BY <1>1, <1>2, <1>7, <1>8, <1>13 DEF Dependent, TypeOK, RunnerTypeOK, Run, NoRun
  <2>2. Dependent' => Heads(run.turn) /\ server.answered
    BY <1>5, <2>1 DEF DependentHeads
  <2> QED BY <1>1, <1>6, <2>1, <2>2 DEF DependentHeads, DependentActive, Heads
<1> QED BY <1>9, <1>10, <1>11, <1>12, <1>14

LEMMA StartFailsStep ==
    ASSUME IInv, StartFails
    PROVE  IInv'
<1> USE DEF IInv
<1>1. /\ micro # <<>> /\ Head(micro).kind = "start"
      /\ micro' = Tail(micro)
      /\ UNCHANGED <<active, closed, process, pending, server>>
      /\ Settle(Rejected)
  BY DEF StartFails, StartTurnFails
<1>2. /\ run.phase = "starting"
      /\ \A k \in 1 .. Len(pending) : pending[k].kind # "start"
      /\ \A k \in 1 .. Len(micro') : micro'[k].kind # "start"
  BY <1>1, LastStart
<1>3. /\ RunnerTypeOK'
      /\ run'.phase = "idle"
      /\ \A t \in Turns : outcome[t] # None => outcome'[t] # None
      /\ \A t \in Turns : t = run.turn => outcome'[t] # None
  BY <1>1, <1>2, SettleEffect DEF NoRun
<1>4. TypeOK'
  BY <1>1, <1>3, TakesMicro DEF TypeOK
<1>5. StartsAreTheRuns'
  BY <1>1, <1>2, <1>3 DEF StartsAreTheRuns
<1>6. TodoIsUsed'
  BY <1>1, <1>3, TodoStaysUsed DEF TodoIsUsed
<1>7. /\ ActiveHasProcess' /\ AckedOnLiveProcess' /\ WaitingKeepsNothing'
      /\ SilentWhenDone' /\ PendingIsUnanswered'
  BY <1>1, <1>2, <1>3 DEF ActiveHasProcess, AckedOnLiveProcess, WaitingKeepsNothing,
       SilentWhenDone, PendingIsUnanswered
<1>8. DependentHeads' /\ DependentActive'
  BY <1>3 DEF DependentHeads, DependentActive, Dependent
<1> QED BY <1>4, <1>5, <1>6, <1>7, <1>8

LEMMA InterruptReturnsStep ==
    ASSUME IInv, InterruptReturns
    PROVE  IInv'
<1> USE DEF IInv
<1>1. /\ micro # <<>> /\ Head(micro).kind = "interrupt"
      /\ micro' = Tail(micro)
      /\ Emit("turn_canceled", Head(micro).turn)
      /\ UNCHANGED <<active, closed, process, pending, server>>
  BY DEF InterruptReturns
<1>2. Head(micro) = micro[1] /\ Head(micro).turn \in Turns \cup {None}
  BY <1>1, TakesMicro DEF Continuations
<1>3. RunMoves /\ (closed \/ run'.phase = "idle" \/ run'.buffer # <<>>)
  BY <1>1, <1>2, EmitEffect
<1>4. /\ \A i \in 1 .. Len(micro') : i + 1 \in 1 .. Len(micro) /\ micro'[i] = micro[i + 1]
      /\ \A i \in 1 .. Len(micro) : micro[i].kind = "start" =>
            i - 1 \in 1 .. Len(micro') /\ micro'[i - 1] = micro[i]
      /\ micro' \in Seq(Continuations) /\ Len(micro') \in Nat
  BY <1>1, <1>2, TakesMicro
<1>5. TypeOK'
  BY <1>1, <1>3, <1>4 DEF TypeOK, RunMoves
<1>6. StartsAreTheRuns'
  <2>1. \A j, k \in 1 .. Len(micro') :
           micro'[j].kind = "start" /\ micro'[k].kind = "start" => j = k
    <3> SUFFICES ASSUME NEW j \in 1 .. Len(micro'), NEW k \in 1 .. Len(micro'),
                        micro'[j].kind = "start", micro'[k].kind = "start"
                 PROVE  j = k
      OBVIOUS
    <3>1. j + 1 = k + 1
      BY <1>4 DEF StartsAreTheRuns
    <3> QED BY <3>1, <1>4
  <2>2. \A k \in 1 .. Len(micro') : micro'[k].kind = "start" =>
           /\ run.phase = "starting" /\ micro'[k].turn = run.turn
           /\ \A j \in 1 .. Len(pending) : pending[j].kind # "start"
    BY <1>4 DEF StartsAreTheRuns
  <2>3. run.phase = "starting" =>
           \/ \E k \in 1 .. Len(pending) : pending[k].kind = "start"
           \/ \E k \in 1 .. Len(micro') : micro'[k].kind = "start"
    BY <1>4 DEF StartsAreTheRuns
  <2> QED BY <1>1, <1>3, <2>1, <2>2, <2>3 DEF StartsAreTheRuns, RunMoves
<1>7. TodoIsUsed'
  BY <1>1, <1>3, TodoStaysUsed DEF TodoIsUsed, RunMoves
<1>8. AckedOnLiveProcess'
  BY <1>1, <1>4 DEF AckedOnLiveProcess
<1>9. ActiveHasProcess' /\ WaitingKeepsNothing' /\ SilentWhenDone'
  BY <1>1, <1>3 DEF ActiveHasProcess, WaitingKeepsNothing, SilentWhenDone, RunMoves
<1>10. PendingIsUnanswered'
  BY <1>1, <1>3 DEF PendingIsUnanswered, Heads, StartsAreTheRuns, RunMoves
<1>11. DependentHeads' /\ DependentActive'
  BY <1>1, <1>3 DEF DependentHeads, DependentActive, Dependent
<1> QED BY <1>5, <1>6, <1>7, <1>8, <1>9, <1>10, <1>11

LEMMA AnswerCases ==
    ASSUME NEW kind, NEW turn, NEW ok, Answer(kind, turn, ok)
    PROVE  \/ \E k \in 1 .. Len(pending) :
                 pending[k] = [kind |-> kind, turn |-> turn] /\ Moves(k, ok)
           \/ /\ \A k \in 1 .. Len(pending) : pending[k] # [kind |-> kind, turn |-> turn]
              /\ UNCHANGED <<pending, micro>>
BY DEF Answer, Moves

\* What holds when a request has moved to the queue and the run has not changed.
LEMMA MovesKeepRest ==
    ASSUME IInv, NEW k \in 1 .. Len(pending), NEW ok \in BOOLEAN, Moves(k, ok),
           UNCHANGED <<run, closed, process>>,
           ok => process = "up"
    PROVE  /\ AckedOnLiveProcess'
           /\ StartsAreTheRuns'
           /\ Dependent' => Dependent
           /\ Acked' => Acked \/ (pending[k].kind = "start" /\ ok)
           /\ \A i \in 1 .. Len(pending') : pending'[i].kind = "start" =>
                 /\ pending[k].kind # "start"
                 /\ \E j \in 1 .. Len(pending) : pending[j].kind = "start"
<1> USE DEF IInv
<1>1. AckedOnLiveProcess'
  <2>1. \A i \in 1 .. Len(micro') :
           \/ i \in 1 .. Len(micro) /\ micro'[i] = micro[i]
           \/ micro'[i].ok = ok
    BY MovesProperties
  <2> QED BY <2>1 DEF AckedOnLiveProcess
<1>2. StartsAreTheRuns'
  BY MovesKeepStarts
<1>3. Dependent' => Dependent
  BY MovesKeepInterrupting DEF Dependent
<1>4. Acked' => Acked \/ (pending[k].kind = "start" /\ ok)
  BY MovesAcked
<1>5. ASSUME NEW i \in 1 .. Len(pending'), pending'[i].kind = "start"
      PROVE  /\ pending[k].kind # "start"
             /\ \E j \in 1 .. Len(pending) : pending[j].kind = "start"
  <2>1. Len(micro) + 1 \in 1 .. Len(micro') /\ micro'[Len(micro) + 1].kind = pending[k].kind
    BY MovesProperties
  <2>2. pending[k].kind # "start"
    BY <1>2, <1>5, <2>1 DEF StartsAreTheRuns
  <2>3. \E j \in 1 .. Len(pending) : pending'[i] = pending[j]
    <3>1. i \in 1 .. Len(pending) /\ i + 1 \in 1 .. Len(pending)
      BY MovesProperties
    <3>2. pending'[i] = pending[i] \/ pending'[i] = pending[i + 1]
      BY MovesProperties
    <3> QED BY <3>1, <3>2
  <2> QED BY <1>5, <2>2, <2>3
<1> QED BY <1>1, <1>2, <1>3, <1>4, <1>5

LEMMA StartTimesOutStep ==
    ASSUME IInv, StartTimesOut
    PROVE  IInv'
<1> USE DEF IInv
<1>1. PICK k \in 1 .. Len(pending) : pending[k].kind = "start" /\ Moves(k, FALSE)
  BY DEF StartTimesOut, Moves
<1>2. UNCHANGED <<run, outcome, active, closed, process, server>>
  BY DEF StartTimesOut
<1>3. pending' \in Seq(Requests) /\ micro' \in Seq(Continuations)
  BY <1>1, MovesProperties
<1>4. /\ AckedOnLiveProcess'
      /\ StartsAreTheRuns'
      /\ Dependent' => Dependent
      /\ Acked' => Acked
      /\ \A i \in 1 .. Len(pending') : pending'[i].kind # "start"
  BY <1>1, <1>2, MovesKeepRest
<1>5. TypeOK'
  BY <1>2, <1>3 DEF TypeOK, RunnerTypeOK
<1>6. /\ ActiveHasProcess' /\ WaitingKeepsNothing' /\ SilentWhenDone' /\ TodoIsUsed'
      /\ PendingIsUnanswered'
  BY <1>2, <1>4 DEF ActiveHasProcess, WaitingKeepsNothing, SilentWhenDone, TodoIsUsed,
       PendingIsUnanswered
<1>7. DependentHeads' /\ DependentActive'
  BY <1>2, <1>4 DEF DependentHeads, DependentActive, Heads
<1> QED BY <1>4, <1>5, <1>6, <1>7

LEMMA InterruptAnsweredStep ==
    ASSUME IInv, InterruptAnswered
    PROVE  IInv'
<1> USE DEF IInv
<1>1. PICK t \in Turns \cup {None}, ok \in BOOLEAN :
         /\ \E k \in 1 .. Len(pending) : pending[k] = [kind |-> "interrupt", turn |-> t]
         /\ Answer("interrupt", t, ok)
         /\ server' \in {server, [server EXCEPT !.stopped = TRUE]}
  BY DEF InterruptAnswered
<1>2. PICK k \in 1 .. Len(pending) :
         pending[k] = [kind |-> "interrupt", turn |-> t] /\ Moves(k, ok)
  BY <1>1, AnswerCases
<1>3. UNCHANGED <<run, outcome, active, closed, process>> /\ process = "up"
  BY DEF InterruptAnswered
<1>4. /\ server'.todo = server.todo
      /\ server'.answered = server.answered /\ server'.started = server.started
      /\ server' \in [todo : Seq(Turns), answered : BOOLEAN, started : BOOLEAN,
                      stopped : BOOLEAN]
  BY <1>1 DEF TypeOK
<1>5. pending' \in Seq(Requests) /\ micro' \in Seq(Continuations)
  BY <1>2, MovesProperties
<1>6. /\ AckedOnLiveProcess'
      /\ StartsAreTheRuns'
      /\ Dependent' => Dependent
      /\ Acked' => Acked
      /\ \A i \in 1 .. Len(pending') : pending'[i].kind = "start" =>
            \E j \in 1 .. Len(pending) : pending[j].kind = "start"
  BY <1>2, <1>3, MovesKeepRest
<1>7. TypeOK'
  BY <1>3, <1>4, <1>5 DEF TypeOK, RunnerTypeOK
<1>8. /\ ActiveHasProcess' /\ WaitingKeepsNothing' /\ SilentWhenDone' /\ TodoIsUsed'
      /\ PendingIsUnanswered'
  BY <1>3, <1>4, <1>6 DEF ActiveHasProcess, WaitingKeepsNothing, SilentWhenDone, TodoIsUsed,
       PendingIsUnanswered, Heads
<1>9. DependentHeads' /\ DependentActive'
  BY <1>3, <1>4, <1>6 DEF DependentHeads, DependentActive, Heads
<1> QED BY <1>6, <1>7, <1>8, <1>9

LEMMA StartAnsweredStep ==
    ASSUME IInv, StartAnswered
    PROVE  IInv'
<1> USE DEF IInv
<1>1. /\ process = "up" /\ server.todo # <<>>
      /\ server' = [server EXCEPT !.answered = TRUE]
      /\ Answer("start", Turn, TRUE)
      /\ UNCHANGED <<run, outcome, active, closed, process>>
  BY DEF StartAnswered
<1>2. /\ server'.todo = server.todo /\ server'.answered /\ server'.started = server.started
      /\ server' \in [todo : Seq(Turns), answered : BOOLEAN, started : BOOLEAN,
                      stopped : BOOLEAN]
  BY <1>1 DEF TypeOK
<1>3. ActiveHasProcess' /\ WaitingKeepsNothing' /\ SilentWhenDone' /\ TodoIsUsed'
  BY <1>1, <1>2 DEF ActiveHasProcess, WaitingKeepsNothing, SilentWhenDone, TodoIsUsed
<1>4. ASSUME NEW k \in 1 .. Len(pending), pending[k] = [kind |-> "start", turn |-> Turn],
             Moves(k, TRUE)
      PROVE  IInv'
  <2>1. pending' \in Seq(Requests) /\ micro' \in Seq(Continuations)
    BY <1>4, MovesProperties
  <2>2. pending[k].kind = "start" /\ pending[k].turn = Turn
    BY <1>4
  <2>3. /\ AckedOnLiveProcess'
        /\ StartsAreTheRuns'
        /\ Dependent' => Dependent
        /\ \A i \in 1 .. Len(pending') : pending'[i].kind # "start"
    BY <1>1, <1>4, <2>2, MovesKeepRest
  <2>4. Heads(run.turn)
    BY <1>1, <2>2 DEF StartsAreTheRuns, Heads, Turn
  <2>5. TypeOK'
    BY <1>1, <1>2, <2>1 DEF TypeOK, RunnerTypeOK
  <2>6. PendingIsUnanswered'
    BY <2>3 DEF PendingIsUnanswered
  <2>7. DependentHeads'
    BY <1>1, <1>2, <2>4 DEF DependentHeads, Heads
  <2>8. DependentActive'
    BY <1>1, <1>2, <2>3 DEF DependentActive, Heads
  <2> QED BY <1>3, <2>3, <2>5, <2>6, <2>7, <2>8
<1>5. ASSUME \A k \in 1 .. Len(pending) : pending[k] # [kind |-> "start", turn |-> Turn],
             UNCHANGED <<pending, micro>>
      PROVE  IInv'
  <2>1. TypeOK'
    BY <1>1, <1>2, <1>5 DEF TypeOK, RunnerTypeOK
  <2>2. StartsAreTheRuns' /\ AckedOnLiveProcess'
    BY <1>1, <1>5 DEF StartsAreTheRuns, AckedOnLiveProcess
  <2>3. PendingIsUnanswered'
    <3>1. ASSUME NEW k \in 1 .. Len(pending), pending[k].kind = "start"
          PROVE  ~Heads(run.turn)
      <4>1. pending[k] \in Requests
        BY ElementOfSeq DEF TypeOK
      <4>2. pending[k] = [kind |-> "start", turn |-> run.turn]
        BY <3>1, <4>1 DEF Requests, StartsAreTheRuns
      <4> QED BY <1>5, <4>2 DEF Heads, Turn
    <3> QED BY <1>1, <1>2, <1>5, <3>1 DEF PendingIsUnanswered, Heads
  <2>4. DependentHeads' /\ DependentActive'
    BY <1>1, <1>2, <1>5 DEF DependentHeads, DependentActive, Dependent, Interrupting, Acked,
         Heads
  <2> QED BY <1>3, <2>1, <2>2, <2>3, <2>4
<1> QED BY <1>1, <1>4, <1>5, AnswerCases

\* The app-server is done with the first of its turns.
LEMMA ServerMovesOn ==
    ASSUME TypeOK, server.todo # <<>>, server' = Silent(Tail(server.todo))
    PROVE  /\ server' \in [todo : Seq(Turns), answered : BOOLEAN, started : BOOLEAN,
                           stopped : BOOLEAN]
           /\ ~server'.answered /\ ~server'.started
           /\ 1 \in 1 .. Len(server.todo) /\ Turn = server.todo[1] /\ Turn \in Turns
           /\ \A i \in 1 .. Len(server'.todo) :
                 i + 1 \in 1 .. Len(server.todo) /\ server'.todo[i] = server.todo[i + 1]
           /\ \A i \in 1 .. Len(server.todo) :
                 i = 1 \/ (i - 1 \in 1 .. Len(server'.todo)
                           /\ server'.todo[i - 1] = server.todo[i])
<1>1. server.todo \in Seq(Turns)
  BY DEF TypeOK
<1>2. /\ Tail(server.todo) \in Seq(Turns)
      /\ Len(Tail(server.todo)) = Len(server.todo) - 1
      /\ \A i \in 1 .. Len(Tail(server.todo)) : Tail(server.todo)[i] = server.todo[i + 1]
  BY <1>1, HeadTailProperties
<1>3. Len(server.todo) \in Nat \ {0}
  BY <1>1, EmptySeq
<1>4. Turn = server.todo[1] /\ Turn \in Turns
  BY <1>1, <1>3, ElementOfSeq DEF Turn
<1>5. server'.todo = Tail(server.todo) /\ ~server'.answered /\ ~server'.started
  BY DEF Silent
<1>6. server' \in [todo : Seq(Turns), answered : BOOLEAN, started : BOOLEAN,
                   stopped : BOOLEAN]
  BY <1>2 DEF Silent
<1>7. /\ \A i \in 1 .. Len(server'.todo) :
            i + 1 \in 1 .. Len(server.todo) /\ server'.todo[i] = server.todo[i + 1]
      /\ \A i \in 1 .. Len(server.todo) :
            i = 1 \/ (i - 1 \in 1 .. Len(server'.todo) /\ server'.todo[i - 1] = server.todo[i])
  <2> DEFINE rest == Tail(server.todo)
  <2>1. /\ \A i \in 1 .. Len(rest) : i + 1 \in 1 .. Len(server.todo) /\ rest[i] = server.todo[i + 1]
        /\ \A i \in 1 .. Len(server.todo) :
              i = 1 \/ (i - 1 \in 1 .. Len(rest) /\ rest[i - 1] = server.todo[i])
    BY <1>1, TailIndices
  <2>2. server'.todo = rest
    BY <1>5
  <2> HIDE DEF rest
  <2> QED BY <2>1, <2>2
<1> QED BY <1>3, <1>4, <1>5, <1>6, <1>7

LEMMA StartRefusedStep ==
    ASSUME IInv, StartRefused
    PROVE  IInv'
<1> USE DEF IInv
<1>1. /\ process = "up" /\ server.todo # <<>> /\ ~server.answered
      /\ server' = Silent(Tail(server.todo))
      /\ Answer("start", Turn, FALSE)
      /\ UNCHANGED <<run, outcome, active, closed, process>>
  BY DEF StartRefused
<1>2. ActiveHasProcess' /\ WaitingKeepsNothing' /\ SilentWhenDone'
  BY <1>1, ServerMovesOn DEF ActiveHasProcess, WaitingKeepsNothing, SilentWhenDone
<1>3. TodoIsUsed'
  BY <1>1, ServerMovesOn DEF TodoIsUsed
<1>4. ASSUME NEW i \in 1 .. Len(pending), pending[i].kind = "start", Turn # run.turn
      PROVE  \E j \in 1 .. Len(server'.todo) : server'.todo[j] = run.turn
  <2>1. PICK j \in 1 .. Len(server.todo) : server.todo[j] = run.turn
    BY <1>1, <1>4 DEF PendingIsUnanswered
  <2> QED BY <1>1, <1>4, <2>1, ServerMovesOn
<1>5. ASSUME NEW k \in 1 .. Len(pending), pending[k] = [kind |-> "start", turn |-> Turn],
             Moves(k, FALSE)
      PROVE  IInv'
  <2>1. pending' \in Seq(Requests) /\ micro' \in Seq(Continuations)
    BY <1>5, MovesProperties
  <2>2. pending[k].kind = "start"
    BY <1>5
  <2>3. /\ AckedOnLiveProcess'
        /\ StartsAreTheRuns'
        /\ Dependent' => Dependent
        /\ Acked' => Acked
        /\ \A i \in 1 .. Len(pending') : pending'[i].kind # "start"
    BY <1>1, <1>5, <2>2, MovesKeepRest
  <2>4. TypeOK'
    BY <1>1, <2>1, ServerMovesOn DEF TypeOK, RunnerTypeOK
  <2>5. PendingIsUnanswered'
    BY <2>3 DEF PendingIsUnanswered
  <2>6. DependentHeads'
    BY <1>1, <2>3 DEF DependentHeads
  <2>7. DependentActive'
    BY <1>1, <2>3, ServerMovesOn DEF DependentActive
  <2> QED BY <1>2, <1>3, <2>3, <2>4, <2>5, <2>6, <2>7
<1>6. ASSUME \A k \in 1 .. Len(pending) : pending[k] # [kind |-> "start", turn |-> Turn],
             UNCHANGED <<pending, micro>>
      PROVE  IInv'
  <2>1. TypeOK'
    BY <1>1, <1>6, ServerMovesOn DEF TypeOK, RunnerTypeOK
  <2>2. StartsAreTheRuns' /\ AckedOnLiveProcess'
    BY <1>1, <1>6 DEF StartsAreTheRuns, AckedOnLiveProcess
  <2>3. PendingIsUnanswered'
    <3>1. ASSUME NEW k \in 1 .. Len(pending), pending[k].kind = "start"
          PROVE  Turn # run.turn
      <4>1. pending[k] \in Requests
        BY ElementOfSeq DEF TypeOK
      <4>2. pending[k] = [kind |-> "start", turn |-> run.turn]
        BY <3>1, <4>1 DEF Requests, StartsAreTheRuns
      <4> QED BY <1>6, <4>2
    <3> QED BY <1>1, <1>4, <1>6, <3>1, ServerMovesOn DEF PendingIsUnanswered
  <2>4. (Dependent' => Dependent) /\ (Acked' => Acked)
    BY <1>1, <1>6 DEF Dependent, Interrupting, Acked
  <2>5. DependentHeads'
    BY <1>1, <2>4 DEF DependentHeads
  <2>6. DependentActive'
    BY <1>1, <2>4, ServerMovesOn DEF DependentActive
  <2> QED BY <1>2, <1>3, <2>1, <2>2, <2>3, <2>5, <2>6
<1> QED BY <1>1, <1>5, <1>6, AnswerCases

LEMMA TurnStartedStep ==
    ASSUME IInv, TurnStarted
    PROVE  IInv'
<1> USE DEF IInv
<1>1. /\ process = "up" /\ server.todo # <<>>
      /\ server' = [server EXCEPT !.started = TRUE]
      /\ active' = Turn
      /\ UNCHANGED <<run, outcome, closed, process, pending, micro>>
  BY DEF TurnStarted
<1>2. /\ server'.todo = server.todo /\ server'.answered = server.answered
      /\ server' \in [todo : Seq(Turns), answered : BOOLEAN, started : BOOLEAN,
                      stopped : BOOLEAN]
  BY <1>1 DEF TypeOK
<1>3. active' \in Turns /\ active' # None
  <2>1. Head(server.todo) \in Turns
    BY <1>1, HeadTailProperties DEF TypeOK
  <2> QED BY <1>1, <2>1, TurnsNotNone DEF Turn
<1>4. TypeOK'
  BY <1>1, <1>2, <1>3 DEF TypeOK, RunnerTypeOK
<1>5. /\ ActiveHasProcess' /\ AckedOnLiveProcess' /\ StartsAreTheRuns' /\ WaitingKeepsNothing'
      /\ TodoIsUsed'
  BY <1>1, <1>2 DEF ActiveHasProcess, AckedOnLiveProcess, StartsAreTheRuns,
       WaitingKeepsNothing, TodoIsUsed
<1>6. SilentWhenDone' /\ PendingIsUnanswered'
  BY <1>1, <1>2 DEF SilentWhenDone, PendingIsUnanswered, Heads
<1>7. DependentHeads' /\ DependentActive'
  BY <1>1, <1>2, <1>3 DEF DependentHeads, DependentActive, Dependent, Interrupting, Acked, Heads
<1> QED BY <1>4, <1>5, <1>6, <1>7

LEMMA TurnEndsStep ==
    ASSUME IInv, NEW type \in {"turn_completed", "turn_failed", "turn_canceled"},
           TurnEnds(type)
    PROVE  IInv'
<1> USE DEF IInv
<1>1. /\ process = "up" /\ server.todo # <<>> /\ server.started /\ server.answered
      /\ server' = Silent(Tail(server.todo))
      /\ active' = None
      /\ IF active = None THEN UNCHANGED <<run, outcome>> ELSE Emit(type, Turn)
      /\ UNCHANGED <<closed, process, pending, micro>>
  BY DEF TurnEnds
<1>2. active # None => RunMoves /\ (closed \/ run'.phase = "idle" \/ run'.buffer # <<>>)
  <2>1. Turn \in Turns \cup {None}
    BY <1>1, ServerMovesOn
  <2> QED BY <1>1, <2>1, EmitEffect
<1>3. RunMoves
  BY <1>1, <1>2, NoEventEffect
<1>4. TypeOK'
  BY <1>1, <1>3, ServerMovesOn DEF TypeOK, RunMoves
<1>5. StartsAreTheRuns'
  BY <1>1, <1>3, StartsKept
<1>6. TodoIsUsed'
  <2>1. \A k \in 1 .. Len(server.todo) :
           server.todo[k] = run'.turn \/ outcome'[server.todo[k]] # None
    BY <1>3, TodoStaysUsed DEF RunMoves
  <2> QED BY <1>1, <2>1, ServerMovesOn DEF TodoIsUsed
<1>7. /\ ActiveHasProcess' /\ AckedOnLiveProcess' /\ WaitingKeepsNothing' /\ SilentWhenDone'
  BY <1>1, <1>3, ServerMovesOn DEF ActiveHasProcess, AckedOnLiveProcess, WaitingKeepsNothing,
       SilentWhenDone, RunMoves
<1>8. PendingIsUnanswered'
  <2>1. ASSUME NEW k \in 1 .. Len(pending), pending[k].kind = "start"
        PROVE  \E j \in 1 .. Len(server'.todo) : server'.todo[j] = run'.turn
    <3>1. run'.turn = run.turn
      BY <1>3, <2>1 DEF StartsAreTheRuns, RunMoves
    <3>2. PICK j \in 1 .. Len(server.todo) : server.todo[j] = run.turn
      BY <1>1, <2>1 DEF PendingIsUnanswered
    <3>3. Turn # run.turn
      BY <1>1, <2>1 DEF PendingIsUnanswered, Heads, Turn
    <3>4. j # 1
      BY <1>1, <3>2, <3>3, ServerMovesOn
    <3>5. j - 1 \in 1 .. Len(server'.todo) /\ server'.todo[j - 1] = server.todo[j]
      BY <1>1, <3>4, ServerMovesOn
    <3> QED BY <3>1, <3>2, <3>5
  <2> QED BY <1>1, <2>1, ServerMovesOn DEF PendingIsUnanswered
<1>9. Dependent' => Dependent /\ active = None /\ run' = run
  BY <1>1, <1>2 DEF Dependent, Interrupting
<1>10. ASSUME Dependent' PROVE ~Acked' /\ run'.phase # "waiting"
  <2>1. ~Acked
    BY <1>1, <1>9, <1>10 DEF DependentHeads, DependentActive
  <2> QED BY <1>1, <1>9, <1>10, <2>1 DEF Acked
<1>11. DependentHeads' /\ DependentActive'
  BY <1>1, <1>10, ServerMovesOn DEF DependentHeads, DependentActive
<1> QED BY <1>4, <1>5, <1>6, <1>7, <1>8, <1>11

LEMMA ProcessExitsStep ==
    ASSUME IInv, ProcessExits
    PROVE  IInv'
<1> USE DEF IInv
<1>1. /\ micro = <<>> /\ process' = "exited"
      /\ micro' = [k \in 1 .. Len(pending) |-> Settled(pending[k], FALSE)]
      /\ pending' = <<>>
      /\ active' = None
      /\ UNCHANGED <<closed, server>>
  BY DEF ProcessExits, Idle
<1>2. pending \in Seq(Requests) /\ Len(pending) \in Nat
  BY LenProperties DEF TypeOK
<1>3. \A k \in 1 .. Len(pending) :
         /\ Settled(pending[k], FALSE) \in Continuations
         /\ Settled(pending[k], FALSE).kind = pending[k].kind
         /\ Settled(pending[k], FALSE).turn = pending[k].turn
         /\ ~Settled(pending[k], FALSE).ok
  BY <1>2, ElementOfSeq, SettledType
<1>4. /\ micro' \in Seq(Continuations)
      /\ Len(micro') = Len(pending)
      /\ Len(pending') = 0 /\ Len(micro) = 0
      /\ \A k \in 1 .. Len(micro') :
            /\ micro'[k].kind = pending[k].kind
            /\ micro'[k].turn = pending[k].turn
            /\ ~micro'[k].ok
  <2> DEFINE failed == [k \in 1 .. Len(pending) |-> Settled(pending[k], FALSE)]
  <2>1. failed \in [1 .. Len(pending) -> Continuations]
    BY <1>3
  <2>2. failed \in Seq(Continuations) /\ Len(failed) = Len(pending)
    BY <1>2, <2>1, FunctionIsSeq
  <2>3. \A k \in 1 .. Len(pending) : failed[k] = Settled(pending[k], FALSE)
    OBVIOUS
  <2>4. micro' = failed
    BY <1>1
  <2> HIDE DEF failed
  <2>5. Len(pending') = 0 /\ Len(micro) = 0
    BY <1>1
  <2> QED BY <1>3, <2>2, <2>3, <2>4, <2>5
<1>5. active # None => RunMoves /\ (closed \/ run'.phase = "idle" \/ run'.buffer # <<>>)
  <2>1. active # None => active \in Turns /\ Emit("turn_failed", active)
    BY DEF ProcessExits, TypeOK
  <2> QED BY <2>1, EmitEffect
<1>6. active = None => UNCHANGED <<run, outcome>>
  BY DEF ProcessExits
<1>7. RunMoves
  BY <1>5, <1>6, NoEventEffect
<1>8. TypeOK'
  <2>1. pending' \in Seq(Requests)
    BY <1>1, EmptySeq
  <2> QED BY <1>1, <1>4, <1>7, <2>1 DEF TypeOK, RunMoves
<1>9. StartsAreTheRuns'
  BY <1>4, <1>7 DEF StartsAreTheRuns, RunMoves
<1>10. TodoIsUsed'
  BY <1>1, <1>7, TodoStaysUsed DEF TodoIsUsed, RunMoves
<1>11. /\ ActiveHasProcess' /\ AckedOnLiveProcess' /\ WaitingKeepsNothing' /\ SilentWhenDone'
       /\ PendingIsUnanswered'
  BY <1>1, <1>4, <1>7 DEF ActiveHasProcess, AckedOnLiveProcess, WaitingKeepsNothing,
       SilentWhenDone, PendingIsUnanswered, RunMoves
<1>12. Dependent' => run'.phase # "waiting"
  <2>1. Interrupting => Interrupting'
    BY <1>4 DEF Interrupting
  <2>2. Dependent' => Dependent /\ active = None /\ run' = run
    BY <1>1, <1>5, <1>6, <2>1 DEF Dependent
  <2> QED BY <2>2 DEF DependentActive
<1>13. DependentHeads' /\ DependentActive'
  BY <1>1, <1>4, <1>12 DEF DependentHeads, DependentActive, Acked
<1> QED BY <1>8, <1>9, <1>10, <1>11, <1>13

LEMMA NextStep == IInv /\ [Next]_vars => IInv'
<1> SUFFICES ASSUME IInv, [Next]_vars PROVE IInv'
  OBVIOUS
<1>1. CASE UNCHANGED vars
  BY <1>1, StutterStep
<1>2. CASE Next
  BY <1>2, PromptStep, PromptFailsStep, InterruptStep, CloseStep, StartTimesOutStep,
     StartReturnsStep, StartFailsStep, InterruptReturnsStep, StartAnsweredStep,
     StartRefusedStep, InterruptAnsweredStep, TurnStartedStep, TurnEndsStep, ProcessExitsStep
     DEF Next, Continue, Lines
<1> QED BY <1>1, <1>2

LEMMA NoLostSettleFromIInv == IInv => NoLostSettle
<1> SUFFICES ASSUME IInv, run.phase = "waiting", ~closed, ~Interrupting
             PROVE  /\ active # None
                    /\ \E k \in 1 .. Len(server.todo) : server.todo[k] = run.turn
  BY DEF NoLostSettle
<1>1. Dependent /\ Acked
  BY DEF IInv, WaitingKeepsNothing, Dependent, Acked
<1>2. Heads(run.turn) /\ active # None
  BY <1>1 DEF IInv, DependentHeads, DependentActive
<1>3. 1 \in 1 .. Len(server.todo) /\ Head(server.todo) = server.todo[1]
  BY <1>2, EmptySeq DEF IInv, TypeOK, Heads
<1> QED BY <1>2, <1>3 DEF Heads

-----------------------------------------------------------------------------
(* The end of one turn settles no other, until a turn is interrupted.      *)

Canceled == \E t \in Turns : outcome[t] # None /\ outcome[t].type = "turn_canceled"

Unsettled == run.phase # "idle" => outcome[run.turn] = None

Own ==
    /\ CompletedIsOwn
    /\ run.phase # "idle" =>
          \A k \in 1 .. Len(run.buffer) :
              run.buffer[k].type = "turn_completed" => run.buffer[k].turn = run.turn

Refused == \E k \in 1 .. Len(micro) : micro[k].kind = "start" /\ ~micro[k].ok

Ended == \E k \in 1 .. Len(run.buffer) : run.buffer[k].type # "turn_canceled"

\* The app-server has nothing to do but the turn of the run, and nothing at all
\* once that has been refused or has ended.
Ahead ==
    process = "up" =>
        /\ server.todo \in {<<>>, <<run.turn>>}
        /\ Refused \/ Ended => server.todo = <<>>

\* The inductive invariant behind UninterruptedIsOwn, on top of IInv.  A turn
\* reported canceled may leave the app-server with work for a run that is over;
\* nothing else does.
OwnInv == Unsettled /\ (~Canceled => Own /\ Ahead)

LEMMA InitOwnInv == Init => OwnInv
<1> SUFFICES ASSUME Init PROVE OwnInv
  OBVIOUS
<1>1. Len(micro) = 0 /\ Len(run.buffer) = 0 /\ server.todo = <<>>
  BY DEF Init, RunnerInit, NoRun, Silent
<1> QED BY <1>1 DEF Init, RunnerInit, NoRun, OwnInv, Unsettled, Own, CompletedIsOwn, Ahead,
           Refused, Ended

\* The run is settled with `o`, which is its own if it is a completion.
LEMMA SettleOwn ==
    ASSUME TypeOK, Unsettled, run.phase # "idle", NEW o \in Event \cup {Rejected}, Settle(o)
    PROVE  /\ run' = NoRun /\ Unsettled'
           /\ Canceled => Canceled'
           /\ o.type = "turn_canceled" => Canceled'
           /\ Own /\ (o.type = "turn_completed" => o.turn = run.turn) => Own'
<1>1. run.turn \in Turns /\ o # None
  BY TurnOfRun, NoneAssumption
<1>2. /\ run' = NoRun /\ outcome'[run.turn] = o
      /\ \A t \in Turns \ {run.turn} : outcome'[t] = outcome[t]
  BY <1>1 DEF Settle, TypeOK, RunnerTypeOK
<1>3. outcome[run.turn] = None
  BY DEF Unsettled
<1>4. Canceled => Canceled'
  BY <1>2, <1>3 DEF Canceled
<1>5. o.type = "turn_canceled" => Canceled'
  BY <1>1, <1>2 DEF Canceled
<1>6. Own /\ (o.type = "turn_completed" => o.turn = run.turn) => Own'
  BY <1>2 DEF Own, CompletedIsOwn, NoRun
<1> QED BY <1>2, <1>4, <1>5, <1>6 DEF Unsettled, NoRun

\* An event the session emits is missed, kept for later, or settles the run.
LEMMA EmitOwn ==
    ASSUME TypeOK, Unsettled, NEW type \in {"turn_completed", "turn_failed", "turn_canceled"},
           NEW turn \in Turns \cup {None}, Emit(type, turn),
           type = "turn_completed" /\ run.phase # "idle" /\ ~Canceled => turn = run.turn
    PROVE  /\ Unsettled'
           /\ Canceled => Canceled'
           /\ Own /\ ~Canceled => Own'
           /\ \/ run' = run
              \/ /\ run'.turn = run.turn
                 /\ type = "turn_canceled" /\ Ended' => Ended
              \/ /\ run' = NoRun
                 /\ type = "turn_canceled" => Canceled'
<1> DEFINE e == [type |-> type, turn |-> turn]
<1>1. e \in Event /\ e.type = type /\ e.turn = turn
  BY DEF Event
<1>2. CASE closed \/ run.phase = "idle"
  <2>1. UNCHANGED <<run, outcome>>
    BY <1>2 DEF Emit, Observe
  <2> QED BY <2>1 DEF Unsettled, Canceled, Own, CompletedIsOwn
<1>3. CASE ~closed /\ run.phase = "starting"
  <2>1. /\ run \in [turn : Turns, phase : {"starting", "waiting"}, buffer : Seq(Event)]
        /\ run.buffer \in Seq(Event)
    BY <1>3 DEF TypeOK, RunnerTypeOK, Run, NoRun
  <2>2. run' = [run EXCEPT !.buffer = Append(run.buffer, e)] /\ outcome' = outcome
    BY <1>3 DEF Emit, Observe
  <2>3. /\ run'.turn = run.turn /\ run'.phase = run.phase
        /\ run'.buffer = Append(run.buffer, e)
    BY <2>1, <2>2
  <2> HIDE DEF e
  <2>4. /\ Len(run'.buffer) = Len(run.buffer) + 1 /\ Len(run.buffer) \in Nat
        /\ \A k \in 1 .. Len(run.buffer) : run'.buffer[k] = run.buffer[k]
        /\ run'.buffer[Len(run.buffer) + 1] = e
    BY <1>1, <2>1, <2>3, AppendProperties, LenProperties
  <2>5. \A k \in 1 .. Len(run'.buffer) : k \in 1 .. Len(run.buffer) \/ run'.buffer[k] = e
    BY <2>4
  <2>6. Unsettled' /\ (Canceled => Canceled')
    BY <2>2, <2>3 DEF Unsettled, Canceled
  <2>7. Own /\ ~Canceled => Own'
    BY <1>1, <1>3, <2>2, <2>3, <2>4, <2>5 DEF Own, CompletedIsOwn
  <2>8. type = "turn_canceled" /\ Ended' => Ended
    BY <1>1, <2>4, <2>5 DEF Ended
  <2> QED BY <2>3, <2>6, <2>7, <2>8
<1>4. CASE ~closed /\ run.phase = "waiting"
  <2>1. Settle(e)
    BY <1>4 DEF Emit, Observe
  <2> HIDE DEF e
  <2> QED BY <1>1, <1>4, <2>1, SettleOwn
<1>5. run.phase \in {"idle", "starting", "waiting"}
  BY DEF TypeOK, RunnerTypeOK, Run, NoRun
<1> QED BY <1>2, <1>3, <1>4, <1>5

LEMMA AheadKept ==
    ASSUME Ahead, process' = "up" => process = "up", server'.todo = server.todo,
           run'.turn = run.turn, process = "up" /\ Refused' => Refused, Ended' => Ended
    PROVE  Ahead'
BY DEF Ahead

LEMMA AheadDone ==
    ASSUME process' = "up" => server'.todo = <<>>
    PROVE  Ahead'
BY DEF Ahead

\* A request that moves to the queue brings no refusal with it.
LEMMA MovesRefuseNothing ==
    ASSUME TypeOK, NEW k \in 1 .. Len(pending), NEW ok \in BOOLEAN, Moves(k, ok),
           ok \/ pending[k].kind = "interrupt"
    PROVE  Refused' => Refused
<1>1. \A i \in 1 .. Len(micro') :
         \/ i \in 1 .. Len(micro) /\ micro'[i] = micro[i]
         \/ micro'[i].kind = pending[k].kind /\ micro'[i].ok = ok
  BY MovesProperties
<1> QED BY <1>1 DEF Refused

LEMMA TakenRefusesNothing ==
    ASSUME TypeOK, micro # <<>>, micro' = Tail(micro)
    PROVE  Refused' => Refused
BY TakesMicro DEF Refused

LEMMA OwnStep ==
    ASSUME IInv, OwnInv, [Next]_vars, Obliging
    PROVE  OwnInv'
<1> TypeOK /\ Unsettled
  BY DEF IInv, OwnInv
<1> DEFINE Good == Unsettled' /\ (Canceled => Canceled') /\ (~Canceled' => Own' /\ Ahead')
<1>1. ASSUME UNCHANGED <<run, outcome>>
      PROVE  Unsettled' /\ (Canceled <=> Canceled') /\ (Own => Own') /\ (Ended <=> Ended')
  BY <1>1 DEF Unsettled, Canceled, Own, CompletedIsOwn, Ended
<1>2. ASSUME UNCHANGED <<run, outcome, micro>>, server'.todo = server.todo,
             process' = "up" => process = "up"
      PROVE  Good
  <2>1. Refused' => Refused
    BY <1>2 DEF Refused
  <2> QED BY <1>1, <1>2, <2>1, AheadKept DEF OwnInv
<1>3. ASSUME NEW t \in Turns, Prompt(t) PROVE Good
  <2>1. /\ run = NoRun /\ micro' = <<>> /\ outcome' = outcome /\ outcome[t] = None
        /\ run' = [turn |-> t, phase |-> "starting", buffer |-> <<>>]
        /\ server' = [server EXCEPT !.todo = Append(server.todo, t)]
        /\ process = "up"
    BY <1>3, NoRunWhenIdle DEF Prompt, StartRun, IsNext, Idle
  <2>2. Unsettled' /\ (Canceled <=> Canceled')
    BY <2>1 DEF Unsettled, Canceled
  <2>3. ~Refused' /\ ~Ended' /\ (Own => Own')
    <3>1. Len(run'.buffer) = 0 /\ Len(micro') = 0
      BY <2>1
    <3> QED BY <2>1, <3>1 DEF Refused, Ended, Own, CompletedIsOwn
  <2>4. Ahead => Ahead'
    <3>1. server.todo \in Seq(Turns) /\ server'.todo = Append(server.todo, t)
      BY <2>1 DEF TypeOK
    <3>2. server.todo # <<None>>
      BY <3>1, TurnsNotNone
    <3>3. Ahead => server.todo = <<>>
      BY <2>1, <3>2 DEF Ahead, NoRun
    <3>4. Append(<<>>, t) = <<t>>
      OBVIOUS
    <3>5. Ahead => server'.todo = <<t>>
      BY <3>1, <3>3, <3>4
    <3>6. run'.turn = t
      BY <2>1
    <3> QED BY <2>3, <3>5, <3>6 DEF Ahead
  <2> QED BY <2>2, <2>3, <2>4 DEF OwnInv
<1>4. ASSUME NEW t \in Turns, PromptFails(t) PROVE Good
  <2>1. /\ run' = run /\ run.phase = "idle" /\ process' = "exited" /\ outcome[t] = None
        /\ outcome'[t] = Rejected /\ \A u \in Turns \ {t} : outcome'[u] = outcome[u]
    BY <1>4 DEF PromptFails, IsNext, TypeOK, RunnerTypeOK
  <2>2. Unsettled' /\ (Canceled => Canceled') /\ (Own => Own')
    BY <2>1, NoneAssumption DEF Unsettled, Canceled, Own, CompletedIsOwn, Rejected
  <2> QED BY <2>1, <2>2, AheadDone DEF OwnInv
<1>5. ASSUME Interrupt PROVE Good
  BY <1>2, <1>5 DEF Interrupt
\* close() and the end of the process leave no app-server to wait for.
<1>6. ASSUME Close \/ ProcessExits PROVE Good
  <2>1. process' # "up"
    BY <1>6 DEF Close, ProcessExits
  <2>2. \/ UNCHANGED <<run, outcome>>
        \/ \E type \in {"turn_failed", "turn_canceled"}, t \in Turns : Emit(type, t)
    BY <1>6 DEF Close, ProcessExits, TypeOK
  <2>3. Unsettled' /\ (Canceled => Canceled') /\ (Own /\ ~Canceled => Own')
    BY <1>1, <2>2, EmitOwn
  <2> QED BY <2>1, <2>3, AheadDone DEF OwnInv
<1>7. ASSUME StartTimesOut PROVE Good
  <2>1. UNCHANGED <<run, outcome, server, process>> /\ process = "disposed"
    BY <1>7 DEF StartTimesOut
  <2> QED BY <1>1, <2>1, AheadDone DEF OwnInv
<1>8. ASSUME StartReturns PROVE Good
  <2>1. /\ micro # <<>> /\ Head(micro).kind = "start" /\ micro' = Tail(micro)
        /\ StartTurnReturns /\ UNCHANGED <<process, server>>
    BY <1>8 DEF StartReturns
  <2>2. Refused' => Refused
    BY <2>1, TakenRefusesNothing
  <2>3. /\ run.phase = "starting"
        /\ run \in [turn : Turns, phase : {"starting", "waiting"}, buffer : Seq(Event)]
    BY <2>1, LastStart DEF IInv, TypeOK, RunnerTypeOK, Run, NoRun
  <2>4. CASE run.buffer = <<>>
    <3>1. run' = [run EXCEPT !.phase = "waiting"] /\ outcome' = outcome
      BY <2>1, <2>4 DEF StartTurnReturns
    <3>2. run'.turn = run.turn /\ run'.buffer = run.buffer /\ run'.phase # "idle"
      BY <2>3, <3>1
    <3>3. /\ Unsettled' /\ (Canceled <=> Canceled') /\ (Own => Own') /\ (Ended' => Ended)
      BY <2>3, <3>1, <3>2 DEF Unsettled, Canceled, Own, CompletedIsOwn, Ended
    <3> QED BY <2>1, <2>2, <3>2, <3>3, AheadKept DEF OwnInv
  <2>5. CASE run.buffer # <<>>
    <3> DEFINE e == Head(run.buffer)
    <3>1. /\ e \in Event /\ 1 \in 1 .. Len(run.buffer) /\ e = run.buffer[1]
      BY <2>3, <2>5, EmptySeq, HeadTailProperties
    <3>2. Settle(e)
      BY <2>1, <2>5 DEF StartTurnReturns
    <3>3. Own => (e.type = "turn_completed" => e.turn = run.turn)
      BY <2>3, <3>1 DEF Own
    <3>4. e.type # "turn_canceled" => Ended
      BY <3>1 DEF Ended
    <3> HIDE DEF e
    <3>5. Unsettled' /\ (Canceled => Canceled') /\ (Own => Own')
          /\ (e.type = "turn_canceled" => Canceled')
      BY <2>3, <3>1, <3>2, <3>3, SettleOwn
    <3>6. Ahead /\ Ended => Ahead'
      BY <2>1, AheadDone DEF Ahead
    <3> QED BY <3>4, <3>5, <3>6 DEF OwnInv
  <2> QED BY <2>4, <2>5
<1>9. ASSUME StartFails PROVE Good
  <2>1. /\ micro # <<>> /\ Head(micro).kind = "start" /\ ~Head(micro).ok
        /\ run.phase # "idle" /\ Settle(Rejected) /\ UNCHANGED <<process, server>>
    BY <1>9 DEF StartFails, StartTurnFails
  <2>2. Refused
    <3>1. 1 \in 1 .. Len(micro) /\ Head(micro) = micro[1]
      BY <2>1, EmptySeq DEF TypeOK
    <3> QED BY <2>1, <3>1 DEF Refused
  <2>3. Unsettled' /\ (Canceled => Canceled') /\ (Own => Own')
    <3>1. Rejected.type # "turn_completed"
      BY DEF Rejected
    <3> QED BY <2>1, <3>1, SettleOwn
  <2>4. Ahead => Ahead'
    BY <2>1, <2>2, AheadDone DEF Ahead
  <2> QED BY <2>3, <2>4 DEF OwnInv
<1>10. ASSUME InterruptReturns PROVE Good
  <2>1. /\ micro # <<>> /\ micro' = Tail(micro) /\ Head(micro).turn \in Turns \cup {None}
        /\ Emit("turn_canceled", Head(micro).turn) /\ UNCHANGED <<process, server>>
    BY <1>10, TakesMicro DEF InterruptReturns, Continuations
  <2>2. Refused' => Refused
    BY <2>1, TakenRefusesNothing
  <2>3. /\ Unsettled' /\ (Canceled => Canceled') /\ (Own /\ ~Canceled => Own')
        /\ run' = run \/ (run'.turn = run.turn /\ (Ended' => Ended)) \/ Canceled'
    BY <2>1, EmitOwn
  <2>4. Ahead /\ ~Canceled' => Ahead'
    <3>1. run' = run => (Ended' => Ended)
      BY DEF Ended
    <3> QED BY <2>1, <2>2, <2>3, <3>1, AheadKept
  <2> QED BY <2>3, <2>4 DEF OwnInv
<1>11. ASSUME StartAnswered PROVE Good
  <2>1. UNCHANGED <<run, outcome, process>> /\ server'.todo = server.todo
    BY <1>11 DEF StartAnswered, TypeOK
  <2>2. Refused' => Refused
    BY <1>11, AnswerCases, MovesRefuseNothing DEF StartAnswered, Refused
  <2> QED BY <1>1, <2>1, <2>2, AheadKept DEF OwnInv
<1>12. ASSUME InterruptAnswered PROVE Good
  <2>1. UNCHANGED <<run, outcome, process>> /\ server'.todo = server.todo
    BY <1>12 DEF InterruptAnswered, TypeOK
  <2>2. PICK t \in Turns \cup {None}, ok \in BOOLEAN : Answer("interrupt", t, ok)
    BY <1>12 DEF InterruptAnswered
  <2>3. ASSUME UNCHANGED <<pending, micro>> PROVE Good
    BY <1>2, <2>1, <2>3
  <2>4. ASSUME NEW k \in 1 .. Len(pending), pending[k].kind = "interrupt", Moves(k, ok)
        PROVE  Good
    <3>1. Refused' => Refused
      BY <2>4, MovesRefuseNothing
    <3> QED BY <1>1, <2>1, <3>1, AheadKept DEF OwnInv
  <2>5. \/ UNCHANGED <<pending, micro>>
        \/ \E k \in 1 .. Len(pending) :
              pending[k] = [kind |-> "interrupt", turn |-> t] /\ Moves(k, ok)
    BY <2>2, AnswerCases
  <2> QED BY <2>3, <2>4, <2>5
<1>13. ASSUME TurnStarted PROVE Good
  BY <1>2, <1>13 DEF TurnStarted, TypeOK
\* The only turn the app-server had is over.
<1>14. ASSUME Ahead, process = "up", server.todo # <<>>, server' = Silent(Tail(server.todo))
       PROVE  Ahead' /\ Turn = run.turn
  <2>1. server.todo = <<run.turn>>
    BY <1>14 DEF Ahead
  <2>2. Tail(server.todo) = <<>> /\ Turn = run.turn
    BY <2>1 DEF Turn
  <2> QED BY <1>14, <2>2, AheadDone DEF Silent
<1>15. ASSUME StartRefused PROVE Good
  <2>1. /\ UNCHANGED <<run, outcome>> /\ process = "up" /\ server.todo # <<>>
        /\ server' = Silent(Tail(server.todo))
    BY <1>15 DEF StartRefused
  <2> QED BY <1>1, <1>14, <2>1 DEF OwnInv
<1>16. ASSUME NEW type \in {"turn_completed", "turn_failed", "turn_canceled"}, TurnEnds(type)
       PROVE  Good
  <2>1. /\ process = "up" /\ server.todo # <<>> /\ server' = Silent(Tail(server.todo))
        /\ UNCHANGED <<run, outcome>> \/ Emit(type, Turn)
    BY <1>16 DEF TurnEnds
  <2>2. Turn \in Turns
    BY <2>1, ServerMovesOn
  <2>3. ~Canceled => Ahead' /\ Turn = run.turn
    BY <1>14, <2>1 DEF OwnInv
  <2>4. Unsettled' /\ (Canceled => Canceled') /\ (Own /\ ~Canceled => Own')
    BY <1>1, <2>1, <2>2, <2>3, EmitOwn
  <2> QED BY <2>3, <2>4 DEF OwnInv
<1>17. ASSUME UNCHANGED vars PROVE Good
  <2>1. UNCHANGED <<run, outcome, micro, process, server>>
    BY <1>17 DEF vars
  <2> QED BY <1>2, <2>1
<1>18. CASE Next
  BY <1>3, <1>4, <1>5, <1>6, <1>7, <1>8, <1>9, <1>10, <1>11, <1>12, <1>13, <1>15, <1>16, <1>18
     DEF Next, Continue, Lines, OwnInv
<1> QED BY <1>17, <1>18 DEF OwnInv

-----------------------------------------------------------------------------
(* Theorems                                                                *)

\* The inductive invariant holds of every reachable state.
THEOREM IInvInvariant == Spec => []IInv
BY InitIInv, NextStep, PTL DEF Spec

\* The state of a Codex session keeps its type: in particular every event that
\* reaches run() is a terminal event the code knows.
THEOREM TypeCorrect == Spec => []TypeOK
<1>1. IInv => TypeOK
  BY DEF IInv
<1> QED BY <1>1, IInvInvariant, PTL

\* interrupt() and close() only ever act for a turn on a live app-server.
THEOREM ActiveHasProcessAlways == Spec => []ActiveHasProcess
<1>1. IInv => ActiveHasProcess
  BY DEF IInv
<1> QED BY <1>1, IInvInvariant, PTL

\* A waiting run() has not missed what settles it, however the answers, the
\* notifications, the timer, the interrupts and the end of the process
\* interleave, for any number of prompts and any app-server.
THEOREM NoLostSettleAlways == Spec => []NoLostSettle
BY NoLostSettleFromIInv, IInvInvariant, PTL

\* With an app-server that answers turn/start in time, a run is never reported
\* completed by the end of another turn unless some turn was reported canceled
\* before: a refused or failed turn leaves nothing behind that the next run
\* could take for its own.
THEOREM UninterruptedIsOwnAlways ==
    ASSUME Obliging
    PROVE  Spec => []UninterruptedIsOwn
<1>1. IInv /\ OwnInv /\ [Next]_vars => OwnInv'
  BY OwnStep
<1>2. Spec => []OwnInv
  BY InitOwnInv, <1>1, IInvInvariant, PTL DEF Spec
<1>3. OwnInv => UninterruptedIsOwn
  BY DEF OwnInv, Own, Canceled, UninterruptedIsOwn
<1> QED BY <1>2, <1>3, PTL

=============================================================================
