--------------------------- MODULE DashboardProofs ---------------------------
(***************************************************************************)
(* Proofs about the dashboard for any sessions, projects, queue lengths    *)
(* and breaks of the connection: no exit of the shell forgets the daemon,  *)
(* the state keeps its type, and what the window shows follows the daemon  *)
(* once everything that was pushed has arrived.                            *)
(***************************************************************************)
EXTENDS Dashboard, SequenceTheorems, TLAPS

-----------------------------------------------------------------------------
(* The shell                                                               *)

\* A child the shell has let go of was told to end or has ended, and the shell
\* cleans up after one only.
LetGoOf ==
    /\ ~held => child \in {"told", "ended"}
    /\ app = "cleaning" => ~held

ShellInv == ShellTypeOK /\ LetGoOf /\ DaemonTold

ShellNext ==
    \/ ChildListens \/ ChildDies \/ ChildStops \/ PortFreed
    \/ PollProbes \/ PortAnswers \/ ProbeFails \/ PollFindsNoChild \/ PollTimesOut
    \/ Quit \/ QuitAgain \/ GraceEnds \/ CleanedUp

\* Every step of the dashboard is a step of the shell, or does not touch it.
LEMMA StepOfShell ==
    ASSUME [Next]_vars
    PROVE  ShellNext \/ UNCHANGED shell
<1>1. CASE UNCHANGED vars
  BY <1>1 DEF vars
<1>2. CASE Shell
  BY <1>2 DEF Shell, ShellNext
<1>3. CASE DaemonEnds
  BY <1>3 DEF DaemonEnds, DaemonGoes, ShellNext
<1>4. CASE Connection
  BY <1>4 DEF Connection, LinkBreaks, WindowOpens, TimerFires, Connects, ConnectFails,
              ShellNext
<1>5. CASE Daemon
  BY <1>5 DEF Daemon, DoList, DoCreate, DoDelete, DeleteGoesOn, DoResume, ResumeEnds,
              DoPrompt, DoInterrupt, DoClose, CloseEnds, TurnStarts, TurnEnds, LeftSettles,
              Served
<1>6. CASE Receive
  BY <1>6 DEF Receive, ListArrives, ResumedArrives, CreatedArrives, TurnStartedArrives,
              TurnEndedArrives, ClosedArrives, Received
<1>7. CASE User
  BY <1>7 DEF User, SwitchWorkspace, DeleteProject, NewSessionDraft, SwitchSession,
              CloseSession, SendDraft, Send, Interrupt, Imported, Used
<1> QED BY <1>1, <1>2, <1>3, <1>4, <1>5, <1>6, <1>7 DEF Next

LEMMA ShellStep ==
    ASSUME ShellInv, ShellNext \/ UNCHANGED shell
    PROVE  ShellInv'
<1> USE DEF ShellInv, ShellTypeOK, LetGoOf, DaemonTold
<1>1. CASE ChildListens
  BY <1>1 DEF ChildListens
<1>8. CASE ChildDies
  BY <1>8 DEF ChildDies
<1>9. CASE ChildStops
  BY <1>9 DEF ChildStops
<1>10. CASE PortFreed
  BY <1>10 DEF PortFreed
<1>11. CASE PollProbes
  BY <1>11 DEF PollProbes
<1>2. CASE PortAnswers
  BY <1>2 DEF PortAnswers
<1>12. CASE ProbeFails
  BY <1>12 DEF ProbeFails
<1>6. CASE PollFindsNoChild
  BY <1>6 DEF PollFindsNoChild
<1>7. CASE PollTimesOut
  BY <1>7 DEF PollTimesOut
<1>3. CASE Quit
  BY <1>3 DEF Quit
<1>4. CASE QuitAgain \/ GraceEnds \/ CleanedUp
  BY <1>4 DEF QuitAgain, GraceEnds, CleanedUp
<1>5. CASE UNCHANGED shell
  BY <1>5 DEF shell
<1> QED BY <1>1, <1>2, <1>3, <1>4, <1>5, <1>6, <1>7, <1>8, <1>9, <1>10, <1>11,
           <1>12 DEF ShellNext

LEMMA ShellStarts == Init => ShellInv
BY DEF Init, ShellInit, ShellInv, ShellTypeOK, LetGoOf, DaemonTold

\* However the shell comes to exit (a quit while the daemon boots, a second quit,
\* a daemon that died), it has told a daemon that still runs to end, unless it
\* gave up waiting for it.
THEOREM DaemonToldAlways == Spec => []DaemonTold
<1>1. ShellInv /\ [Next]_vars => ShellInv'
  BY StepOfShell, ShellStep
<1>2. ShellInv => DaemonTold
  BY DEF ShellInv
<1> QED BY <1>1, <1>2, ShellStarts, PTL DEF Spec

-----------------------------------------------------------------------------
(* Sequences of messages: what is left when all of them have been received *)

\* A message of `on` is in q and none of `off` comes after it.
Lasts(q, on, off) ==
    \E i \in DOMAIN q : q[i] \in on /\ \A j \in DOMAIN q : j > i => q[j] \notin off

Free(q, off) == \A i \in DOMAIN q : q[i] \notin off

LEMMA LastsConcat ==
    ASSUME NEW S, NEW q \in Seq(S), NEW r \in Seq(S), NEW on, NEW off
    PROVE  /\ q \o r \in Seq(S)
           /\ Lasts(q \o r, on, off) <=> Lasts(r, on, off) \/ (Lasts(q, on, off) /\ Free(r, off))
           /\ Free(q \o r, off) <=> Free(q, off) /\ Free(r, off)
<1> DEFINE p == q \o r
<1>1. /\ p \in Seq(S) /\ Len(p) = Len(q) + Len(r)
      /\ \A i \in 1 .. Len(q) + Len(r) : p[i] = IF i <= Len(q) THEN q[i] ELSE r[i - Len(q)]
  BY ConcatProperties
<1>2. /\ DOMAIN p = 1 .. Len(q) + Len(r) /\ DOMAIN q = 1 .. Len(q) /\ DOMAIN r = 1 .. Len(r)
      /\ Len(q) \in Nat /\ Len(r) \in Nat
  BY <1>1
<1>3. /\ \A i \in 1 .. Len(q) : p[i] = q[i]
      /\ \A i \in 1 .. Len(r) : p[Len(q) + i] = r[i] /\ Len(q) + i \in 1 .. Len(q) + Len(r)
  BY <1>1, <1>2
<1> HIDE DEF p
<1>4. Free(p, off) <=> Free(q, off) /\ Free(r, off)
  <2>1. ASSUME Free(p, off) PROVE Free(q, off) /\ Free(r, off)
    <3>1. \A i \in 1 .. Len(q) + Len(r) : p[i] \notin off
      BY <1>2, <2>1 DEF Free
    <3>2. \A i \in 1 .. Len(q) : i \in 1 .. Len(q) + Len(r) /\ p[i] = q[i]
      BY <1>2, <1>3
    <3>3. \A i \in DOMAIN q : q[i] \notin off
      BY <1>2, <3>1, <3>2
    <3>4. \A i \in DOMAIN r : r[i] \notin off
      BY <1>2, <1>3, <3>1
    <3> QED BY <3>3, <3>4 DEF Free
  <2>2. ASSUME Free(q, off), Free(r, off) PROVE Free(p, off)
    <3> SUFFICES ASSUME NEW i \in 1 .. Len(q) + Len(r) PROVE p[i] \notin off
      BY <1>2 DEF Free
    <3>1. CASE i <= Len(q)
      BY <1>2, <1>3, <2>2, <3>1 DEF Free
    <3>2. CASE i > Len(q)
      <4>1. i - Len(q) \in 1 .. Len(r) /\ p[i] = r[i - Len(q)]
        BY <1>1, <1>2, <3>2 DEF p
      <4> QED BY <1>2, <2>2, <4>1 DEF Free
    <3> QED BY <1>2, <3>1, <3>2
  <2> QED BY <2>1, <2>2
<1>5. ASSUME Lasts(p, on, off)
      PROVE  Lasts(r, on, off) \/ (Lasts(q, on, off) /\ Free(r, off))
  <2>1. PICK i \in 1 .. Len(q) + Len(r) :
           p[i] \in on /\ \A j \in 1 .. Len(q) + Len(r) : j > i => p[j] \notin off
    BY <1>2, <1>5 DEF Lasts
  <2>2. CASE i <= Len(q)
    <3>1. i \in 1 .. Len(q) /\ q[i] \in on
      BY <1>2, <1>3, <2>1, <2>2
    <3>2. \A j \in 1 .. Len(q) : j > i => q[j] \notin off
      BY <1>2, <1>3, <2>1
    <3>3. \A j \in 1 .. Len(r) : r[j] \notin off
      <4> SUFFICES ASSUME NEW j \in 1 .. Len(r) PROVE r[j] \notin off
        OBVIOUS
      <4>1. Len(q) + j \in 1 .. Len(q) + Len(r) /\ Len(q) + j > i /\ p[Len(q) + j] = r[j]
        BY <1>2, <1>3, <2>2
      <4> QED BY <2>1, <4>1
    <3> QED BY <1>2, <3>1, <3>2, <3>3 DEF Lasts, Free
  <2>3. CASE i > Len(q)
    <3>1. i - Len(q) \in 1 .. Len(r) /\ p[i] = r[i - Len(q)]
      BY <1>1, <1>2, <2>3 DEF p
    <3>2. ASSUME NEW j \in 1 .. Len(r), j > i - Len(q) PROVE r[j] \notin off
      <4>1. Len(q) + j \in 1 .. Len(q) + Len(r) /\ Len(q) + j > i /\ p[Len(q) + j] = r[j]
        BY <1>2, <1>3, <3>2
      <4> QED BY <2>1, <4>1
    <3> QED BY <1>2, <2>1, <3>1, <3>2 DEF Lasts
  <2> QED BY <1>2, <2>2, <2>3
<1>6. ASSUME Lasts(r, on, off) PROVE Lasts(p, on, off)
  <2>1. PICK i \in 1 .. Len(r) :
           r[i] \in on /\ \A j \in 1 .. Len(r) : j > i => r[j] \notin off
    BY <1>2, <1>6 DEF Lasts
  <2>2. Len(q) + i \in 1 .. Len(q) + Len(r) /\ p[Len(q) + i] \in on
    BY <1>2, <1>3, <2>1
  <2>3. ASSUME NEW j \in 1 .. Len(q) + Len(r), j > Len(q) + i PROVE p[j] \notin off
    <3>1. j - Len(q) \in 1 .. Len(r) /\ j - Len(q) > i /\ p[j] = r[j - Len(q)]
      BY <1>1, <1>2, <2>3 DEF p
    <3> QED BY <2>1, <3>1
  <2> QED BY <1>2, <2>2, <2>3 DEF Lasts
<1>7. ASSUME Lasts(q, on, off), Free(r, off) PROVE Lasts(p, on, off)
  <2>1. PICK i \in 1 .. Len(q) :
           q[i] \in on /\ \A j \in 1 .. Len(q) : j > i => q[j] \notin off
    BY <1>2, <1>7 DEF Lasts
  <2>2. i \in 1 .. Len(q) + Len(r) /\ p[i] \in on
    BY <1>2, <1>3, <2>1
  <2>3. ASSUME NEW j \in 1 .. Len(q) + Len(r), j > i PROVE p[j] \notin off
    <3>1. CASE j <= Len(q)
      BY <1>2, <1>3, <2>1, <2>3, <3>1
    <3>2. CASE j > Len(q)
      <4>1. j - Len(q) \in 1 .. Len(r) /\ p[j] = r[j - Len(q)]
        BY <1>1, <1>2, <3>2 DEF p
      <4> QED BY <1>2, <1>7, <4>1 DEF Free
    <3> QED BY <1>2, <3>1, <3>2
  <2> QED BY <1>2, <2>2, <2>3 DEF Lasts
<1> QED BY <1>1, <1>4, <1>5, <1>6, <1>7 DEF p

LEMMA LastsTail ==
    ASSUME NEW S, NEW q \in Seq(S), q # <<>>, NEW on, NEW off
    PROVE  /\ Head(q) \in S /\ Tail(q) \in Seq(S)
           /\ Lasts(q, on, off) <=>
                 Lasts(Tail(q), on, off) \/ (Head(q) \in on /\ Free(Tail(q), off))
           /\ Free(q, off) <=> Head(q) \notin off /\ Free(Tail(q), off)
<1> DEFINE p == Tail(q)
<1>1. /\ Head(q) \in S /\ p \in Seq(S) /\ Len(p) = Len(q) - 1
      /\ \A i \in 1 .. Len(p) : p[i] = q[i + 1]
      /\ Head(q) = q[1]
  BY HeadTailProperties
<1>2. /\ DOMAIN q = 1 .. Len(q) /\ DOMAIN p = 1 .. Len(p) /\ Len(p) \in Nat
      /\ Len(q) = Len(p) + 1
  BY <1>1
<1> HIDE DEF p
<1>3. \A j \in 1 .. Len(q) : j > 1 => j - 1 \in 1 .. Len(p) /\ q[j] = p[j - 1]
  BY <1>1, <1>2
<1>4. \A i \in 1 .. Len(p) : i + 1 \in 1 .. Len(q)
  BY <1>2
<1>5. Free(q, off) <=> Head(q) \notin off /\ Free(p, off)
  <2>1. ASSUME Free(q, off) PROVE Head(q) \notin off /\ Free(p, off)
    BY <1>1, <1>2, <1>4, <2>1 DEF Free
  <2>2. ASSUME Head(q) \notin off, Free(p, off) PROVE Free(q, off)
    <3>1. ASSUME NEW j \in 1 .. Len(q) PROVE q[j] \notin off
      <4>1. CASE j = 1
        BY <1>1, <2>2, <4>1
      <4>2. CASE j > 1
        BY <1>2, <1>3, <2>2, <4>2 DEF Free
      <4> QED BY <1>2, <4>1, <4>2
    <3> QED BY <1>2, <3>1 DEF Free
  <2> QED BY <2>1, <2>2
<1>6. ASSUME Lasts(q, on, off) PROVE Lasts(p, on, off) \/ (Head(q) \in on /\ Free(p, off))
  <2>1. PICK i \in 1 .. Len(q) : q[i] \in on /\ \A j \in 1 .. Len(q) : j > i => q[j] \notin off
    BY <1>2, <1>6 DEF Lasts
  <2>2. ASSUME NEW j \in 1 .. Len(p), j > i - 1 PROVE p[j] \notin off
    <3>1. j + 1 \in 1 .. Len(q) /\ j + 1 > i /\ p[j] = q[j + 1]
      BY <1>1, <1>4, <2>2
    <3> QED BY <2>1, <3>1
  <2>3. CASE i = 1
    <3>1. \A j \in 1 .. Len(p) : p[j] \notin off
      BY <2>2, <2>3
    <3> QED BY <1>1, <1>2, <2>1, <2>3, <3>1 DEF Free
  <2>4. CASE i > 1
    <3>1. i - 1 \in 1 .. Len(p) /\ p[i - 1] \in on
      BY <1>3, <2>1, <2>4
    <3> QED BY <1>2, <2>2, <3>1 DEF Lasts
  <2> QED BY <2>3, <2>4
<1>7. ASSUME Lasts(p, on, off) PROVE Lasts(q, on, off)
  <2>1. PICK i \in 1 .. Len(p) : p[i] \in on /\ \A j \in 1 .. Len(p) : j > i => p[j] \notin off
    BY <1>2, <1>7 DEF Lasts
  <2>2. i + 1 \in 1 .. Len(q) /\ q[i + 1] \in on
    BY <1>1, <1>4, <2>1
  <2>3. ASSUME NEW j \in 1 .. Len(q), j > i + 1 PROVE q[j] \notin off
    <3>1. j - 1 \in 1 .. Len(p) /\ j - 1 > i /\ q[j] = p[j - 1]
      BY <1>3, <2>3
    <3> QED BY <2>1, <3>1
  <2> QED BY <1>2, <2>2, <2>3 DEF Lasts
<1>8. ASSUME Head(q) \in on, Free(p, off) PROVE Lasts(q, on, off)
  <2>1. 1 \in 1 .. Len(q) /\ q[1] \in on
    BY <1>1, <1>2, <1>8
  <2>2. \A j \in 1 .. Len(q) : j > 1 => q[j] \notin off
    BY <1>2, <1>3, <1>8 DEF Free
  <2> QED BY <1>2, <2>1, <2>2 DEF Lasts
<1> QED BY <1>1, <1>5, <1>6, <1>7, <1>8 DEF p

LEMMA LastsShort ==
    ASSUME NEW on, NEW off
    PROVE  /\ ~Lasts(<<>>, on, off) /\ Free(<<>>, off)
           /\ \A m : /\ Lasts(<<m>>, on, off) <=> m \in on
                     /\ Free(<<m>>, off) <=> m \notin off
           /\ \A m, n : /\ Lasts(<<m, n>>, on, off) <=> n \in on \/ (m \in on /\ n \notin off)
                        /\ Free(<<m, n>>, off) <=> m \notin off /\ n \notin off
BY DEF Lasts, Free

-----------------------------------------------------------------------------
(* The window                                                              *)

\* The messages that open a session in the list, those that take the mark away,
\* and those that start and end its running mark.
Opens(s) ==
    {m \in Messages : \/ m.tell = "listed" /\ m.view[s] = "active"
                      \/ m.tell \in {"created", "resumed"} /\ m.session = s}
Shuts(s) ==
    {m \in Messages : \/ m.tell = "listed" /\ m.view[s] # "active"
                      \/ m.tell = "closed" /\ m.session = s}
Starts(s) == {m \in Messages : m.tell = "turn_started" /\ m.session = s}
Ends(s) == {m \in Messages : m.tell \in {"turn_ended", "closed"} /\ m.session = s}

\* What the list and the running mark say once everything has arrived.
WillShow(s) ==
    \/ Lasts(inbox, Opens(s), Shuts(s))
    \/ loaded /\ view[s] = "active" /\ Free(inbox, Shuts(s))
WillMark(s) ==
    \/ Lasts(inbox, Starts(s), Ends(s))
    \/ running[s] /\ Free(inbox, Ends(s))

Shown == \A s \in Sessions : WillShow(s) => MayShow(s)
Marked == \A s \in Sessions : Sure(s) => (WillMark(s) <=> run[s] = "turn")

\* Only an open connection has a list and turns that began over it; the timer
\* runs only while there is none, and not before the port has answered.
LinkInv ==
    /\ link # "open" => ~loaded /\ \A s \in Sessions : ~fresh[s]
    /\ timer => link = "closed"
    /\ polling => link = "closed" /\ ~timer

\* A deletion closes sessions of its project only: its rows go when they are closed.
OfProject ==
    \A c \in Shutting : closes[c] # Nothing /\ closes[c].cwd # Nothing =>
        /\ CwdOf[closes[c].session] = closes[c].cwd
        /\ \A t \in closes[c].todo : CwdOf[t] = closes[c].cwd

Follows == Shown /\ Marked

WindowInv == TypeOK /\ LinkInv /\ OfProject /\ Follows

\* What the messages say, each of its session.
LEMMA SaysOfSession ==
    ASSUME NEW t \in Sessions,
           NEW tell \in {"resumed", "created", "turn_started", "turn_ended", "closed"}
    PROVE  LET m == [tell |-> tell, session |-> t]
           IN  /\ m \in Messages
               /\ \A s \in Sessions :
                    /\ m \in Opens(s) <=> tell \in {"resumed", "created"} /\ s = t
                    /\ m \in Shuts(s) <=> tell = "closed" /\ s = t
                    /\ m \in Starts(s) <=> tell = "turn_started" /\ s = t
                    /\ m \in Ends(s) <=> tell \in {"turn_ended", "closed"} /\ s = t
<1> DEFINE m == [tell |-> tell, session |-> t]
<1>1. m.tell = tell /\ m.session = t
  OBVIOUS
<1>2. m \in Messages
  BY DEF Messages
<1> HIDE DEF m
<1> QED BY <1>1, <1>2 DEF Opens, Shuts, Starts, Ends, m

LEMMA SaysOfAll ==
    ASSUME NEW v \in [Sessions -> {"absent", "idle", "active"}]
    PROVE  LET m == [tell |-> "listed", view |-> v]
           IN  /\ m \in Messages
               /\ \A s \in Sessions :
                    /\ m \in Opens(s) <=> v[s] = "active"
                    /\ m \in Shuts(s) <=> v[s] # "active"
                    /\ m \notin Starts(s) /\ m \notin Ends(s)
<1> DEFINE m == [tell |-> "listed", view |-> v]
<1>1. m.tell = "listed" /\ m.view = v
  OBVIOUS
<1>2. m \in Messages
  BY DEF Messages
<1> HIDE DEF m
<1> QED BY <1>1, <1>2 DEF Opens, Shuts, Starts, Ends, m

\* What is told of agents that end: nothing of it opens a row or starts a mark.
Farewells == {Ended(s) : s \in Sessions} \cup {Closed(s) : s \in Sessions}

LEMMA FarewellIs ==
    ASSUME NEW t \in Sessions
    PROVE  /\ Ended(t) \in Farewells /\ Closed(t) \in Farewells
           /\ \A s \in Sessions :
                /\ Ended(t) \notin Shuts(s) /\ (Closed(t) \in Shuts(s) <=> s = t)
                /\ Ended(t) \in Ends(s) <=> s = t
                /\ Closed(t) \in Ends(s) <=> s = t
BY SaysOfSession DEF Ended, Closed, Farewells

LEMMA FarewellSays ==
    ASSUME NEW t \in Sessions
    PROVE  /\ <<Ended(t)>> \in Seq(Farewells)
           /\ \A s \in Sessions : /\ Free(<<Ended(t)>>, Shuts(s))
                                  /\ Free(<<Ended(t)>>, Ends(s)) <=> s # t
<1>1. <<Ended(t)>> \in Seq(Farewells)
  BY FarewellIs
<1> QED BY <1>1, FarewellIs, LastsShort

LEMMA FarewellsOpenNothing ==
    ASSUME NEW q \in Seq(Farewells)
    PROVE  /\ q \in Seq(Messages)
           /\ \A s \in Sessions : /\ ~Lasts(q, Opens(s), Shuts(s))
                                  /\ ~Lasts(q, Starts(s), Ends(s))
<1>1. ASSUME NEW m \in Farewells
      PROVE  m \in Messages /\ \A s \in Sessions : m \notin Opens(s) /\ m \notin Starts(s)
  <2>1. PICK t \in Sessions, tell \in {"turn_ended", "closed"} :
           m = [tell |-> tell, session |-> t]
    BY DEF Farewells, Ended, Closed
  <2> QED BY <2>1, SaysOfSession
<1>2. \A i \in DOMAIN q : q[i] \in Farewells
  OBVIOUS
<1> QED BY <1>1, <1>2 DEF Lasts

\* A message that arrives has the fields of its kind.
LEMMA MessageFields ==
    ASSUME NEW m \in Messages
    PROVE  /\ m.tell \in {"listed", "resumed", "created", "turn_started", "turn_ended",
                          "closed"}
           /\ m.tell = "listed" => m.view \in [Sessions -> {"absent", "idle", "active"}]
           /\ m.tell \in {"resumed", "created", "turn_started", "turn_ended", "closed"} =>
                 m.session \in Sessions
BY DEF Messages

\* The request of a session or of a project is one.
LEMMA RequestIs ==
    /\ [ask |-> "list"] \in Requests
    /\ \A ask \in {"resume", "prompt", "interrupt", "close"} : \A s \in Sessions :
          [ask |-> ask, session |-> s] \in Requests
    /\ \A ask \in {"create", "delete"} : \A cwd \in Cwds :
          [ask |-> ask, cwd |-> cwd] \in Requests
BY DEF Requests

-----------------------------------------------------------------------------
(* The types, and the connection                                           *)

\* The shell polls the port once.
LEMMA PollsOnce ==
    ASSUME ShellTypeOK, ShellNext \/ UNCHANGED shell, polling'
    PROVE  polling
BY DEF ShellTypeOK, ShellNext, shell, ChildListens, ChildDies, ChildStops, PortFreed, PollProbes,
       PortAnswers, ProbeFails, PollFindsNoChild, PollTimesOut, Quit, QuitAgain, GraceEnds,
       CleanedUp

\* A step that leaves the connection as it is and the shell where it waits.
Steady == UNCHANGED <<link, timer, drops>> /\ ShellTypeOK' /\ (polling' => polling)

\* A request was taken, or none.
Taken == requests' = requests \/ (requests # <<>> /\ requests' = Tail(requests))

\* What the daemon pushes is put at the end of what has not arrived.
LEMMA TellIs ==
    ASSUME TypeOK, NEW messages \in Seq(Messages), Tell(messages)
    PROVE  /\ inbox' \in Seq(Messages)
           /\ link # "open" => inbox' = <<>>
           /\ link = "open" => inbox' = inbox \o messages
BY LastsConcat DEF TypeOK, Tell

\* A request goes out over an open connection only, after those before it.
LEMMA AskIs ==
    ASSUME TypeOK, NEW r \in Requests, Ask(r)
    PROVE  /\ requests' \in Seq(Requests)
           /\ link # "open" => requests' = <<>>
<1>1. requests \in Seq(Requests) /\ (link # "open" => requests = <<>>)
  BY DEF TypeOK
<1>2. Append(requests, r) \in Seq(Requests)
  BY <1>1, AppendProperties
<1> QED BY <1>1, <1>2 DEF Ask

\* Without a connection nothing is under way and nothing is known to be open.
LEMMA OfflineFollows ==
    ASSUME TypeOK', LinkInv', link' # "open"
    PROVE  Follows'
<1>1. requests' = <<>> /\ inbox' = <<>> /\ loaded' = FALSE /\ \A s \in Sessions : fresh'[s] = FALSE
  BY DEF TypeOK, LinkInv
<1>2. Shown' /\ Marked'
  BY <1>1, LastsShort DEF Shown, Marked, WillShow, Sure
<1> QED BY <1>2 DEF Follows

\* The daemon pushes messages: what the window will show and mark is what the
\* messages say last, else what it would have shown and marked.
LEMMA DaemonStep ==
    ASSUME WindowInv, Steady, UNCHANGED ui,
           NEW messages \in Seq(Messages), Tell(messages), Taken,
           DaemonTypeOK', OfProject',
           link # "open" => \A s \in Sessions : ~fresh'[s],
           \A s \in Sessions :
              link = "open" /\ (\/ Lasts(messages, Opens(s), Shuts(s))
                                \/ WillShow(s) /\ Free(messages, Shuts(s)))
              => MayShow(s)',
           \A s \in Sessions :
              link = "open" /\ Sure(s)' =>
                 ((\/ Lasts(messages, Starts(s), Ends(s))
                   \/ WillMark(s) /\ Free(messages, Ends(s))) <=> run'[s] = "turn")
    PROVE  WindowInv'
<1> USE DEF WindowInv
<1>1. /\ requests' \in Seq(Requests)
      /\ link # "open" => requests' = <<>>
  BY HeadTailProperties DEF TypeOK, Taken
<1>2. /\ inbox' \in Seq(Messages) /\ inbox \in Seq(Messages)
      /\ link # "open" => inbox' = <<>>
      /\ link = "open" => inbox' = inbox \o messages
  BY TellIs DEF TypeOK
<1>3. TypeOK'
  BY <1>1, <1>2 DEF TypeOK, Steady, ui
<1>4. LinkInv'
  BY DEF LinkInv, Steady, ui
<1>5. CASE link' # "open"
  BY <1>3, <1>4, <1>5, OfflineFollows
<1>6. CASE link' = "open"
  <2>1. link = "open" /\ inbox' = inbox \o messages /\ UNCHANGED <<loaded, view, running>>
    BY <1>2, <1>6 DEF Steady, ui
  <2>2. ASSUME NEW s \in Sessions
        PROVE  WillShow(s)' <=> \/ Lasts(messages, Opens(s), Shuts(s))
                                \/ WillShow(s) /\ Free(messages, Shuts(s))
    <3>1. Lasts(inbox', Opens(s), Shuts(s)) <=>
            \/ Lasts(messages, Opens(s), Shuts(s))
            \/ Lasts(inbox, Opens(s), Shuts(s)) /\ Free(messages, Shuts(s))
      BY <1>2, <2>1, LastsConcat
    <3>2. Free(inbox', Shuts(s)) <=> Free(inbox, Shuts(s)) /\ Free(messages, Shuts(s))
      BY <1>2, <2>1, LastsConcat
    <3> QED BY <2>1, <3>1, <3>2 DEF WillShow, Opens, Shuts
  <2>3. ASSUME NEW s \in Sessions
        PROVE  WillMark(s)' <=> \/ Lasts(messages, Starts(s), Ends(s))
                                \/ WillMark(s) /\ Free(messages, Ends(s))
    <3>1. Lasts(inbox', Starts(s), Ends(s)) <=>
            \/ Lasts(messages, Starts(s), Ends(s))
            \/ Lasts(inbox, Starts(s), Ends(s)) /\ Free(messages, Ends(s))
      BY <1>2, <2>1, LastsConcat
    <3>2. Free(inbox', Ends(s)) <=> Free(inbox, Ends(s)) /\ Free(messages, Ends(s))
      BY <1>2, <2>1, LastsConcat
    <3> QED BY <2>1, <3>1, <3>2 DEF WillMark, Starts, Ends
  <2>4. Shown'
    BY <2>1, <2>2 DEF Shown
  <2>5. Marked'
    BY <2>1, <2>3 DEF Marked
  <2> QED BY <1>3, <1>4, <2>4, <2>5 DEF Follows
<1> QED BY <1>3, <1>4, <1>5, <1>6

\* The daemon tells of agents that end, or nothing: a session that leaves the map is
\* on the way out or its end is told, and so is the end of a turn.
LEMMA EndsStep ==
    ASSUME WindowInv, Steady, UNCHANGED <<ui, fresh>>,
           NEW messages \in Seq(Farewells), Tell(messages), Taken,
           DaemonTypeOK', OfProject',
           \A s \in Sessions : Free(messages, Shuts(s)) /\ MayShow(s) => MayShow(s)',
           \A s \in Sessions : Sure(s)' =>
              IF Free(messages, Ends(s)) THEN Sure(s) /\ (run'[s] = "turn" <=> run[s] = "turn")
              ELSE run'[s] # "turn"
    PROVE  WindowInv'
<1>1. /\ messages \in Seq(Messages)
      /\ \A s \in Sessions : /\ ~Lasts(messages, Opens(s), Shuts(s))
                             /\ ~Lasts(messages, Starts(s), Ends(s))
  BY FarewellsOpenNothing
<1>2. link # "open" => \A s \in Sessions : ~fresh'[s]
  BY DEF WindowInv, LinkInv
<1>3. \A s \in Sessions : /\ WillShow(s) => MayShow(s)
                          /\ Sure(s) => (WillMark(s) <=> run[s] = "turn")
  BY DEF WindowInv, Follows, Shown, Marked
<1>4. \A s \in Sessions : WillShow(s) /\ Free(messages, Shuts(s)) => MayShow(s)'
  BY <1>3
<1>5. ASSUME NEW s \in Sessions, Sure(s)'
      PROVE  (WillMark(s) /\ Free(messages, Ends(s))) <=> run'[s] = "turn"
  BY <1>3, <1>5
<1> QED BY <1>1, <1>2, <1>4, <1>5, DaemonStep

\* The daemon tells nothing, and what is open and what runs stays.
LEMMA SilentStep ==
    ASSUME WindowInv, Steady, UNCHANGED <<ui, inbox, fresh, rows, open, closes, unmarked>>,
           Taken, DaemonTypeOK',
           \A s \in Sessions : run'[s] = "turn" <=> run[s] = "turn"
    PROVE  WindowInv'
<1>1. <<>> \in Seq(Farewells)
  OBVIOUS
<1>2. Tell(<<>>)
  <2>1. inbox \in Seq(Messages)
    BY DEF WindowInv, TypeOK
  <2> QED BY <2>1, ConcatEmptySeq DEF Tell
<1>3. \A s \in Sessions : Free(<<>>, Shuts(s)) /\ Free(<<>>, Ends(s))
  BY LastsShort
<1>4. OfProject'
  BY DEF WindowInv, OfProject
<1>5. \A s \in Sessions : /\ MayShow(s)' <=> MayShow(s)
                          /\ Sure(s)' <=> Sure(s)
  BY DEF MayShow, Sure, Closing, Deleting
<1> QED BY <1>1, <1>2, <1>3, <1>4, <1>5, EndsStep

-----------------------------------------------------------------------------
(* The daemon                                                              *)

\* A request the daemon takes, and a step of the daemon without one.
LEMMA Serves ==
    ASSUME Serving, Served, ShellTypeOK'
    PROVE  /\ Steady /\ UNCHANGED ui
           /\ requests' = requests \/ (\E r : Dispatch(r)) => Taken
BY DEF Serving, Served, Steady, ui, shell, Dispatch, Taken

LEMMA DaemonTypes ==
    ASSUME WindowInv
    PROVE  /\ DaemonTypeOK /\ fresh \in [Sessions -> BOOLEAN]
           /\ \A s \in Sessions : fresh[s] => link = "open"
           /\ \A s \in Sessions : /\ WillShow(s) => MayShow(s)
                                  /\ Sure(s) => (WillMark(s) <=> run[s] = "turn")
BY DEF WindowInv, TypeOK, LinkInv, DaemonTypeOK, Follows, Shown, Marked

\* Nothing is neither a resume nor a close, and an awaited one has its fields.
LEMMA SlotFields ==
    ASSUME DaemonTypeOK
    PROVE  /\ \A c \in Opening : resumes[c] # Nothing =>
                 resumes[c] \in Resumes /\ resumes[c].session \in Sessions
           /\ \A c \in Shutting : closes[c] # Nothing =>
                 /\ closes[c] \in Closes /\ closes[c].session \in Sessions
                 /\ closes[c].cwd \in Cwds \cup {Nothing} /\ closes[c].todo \subseteq Sessions
BY DEF DaemonTypeOK, Resumes, Closes

LEMMA ListFollows ==
    ASSUME WindowInv, ShellTypeOK', DoList
    PROVE  WindowInv'
<1> DEFINE v == [s \in Sessions |-> IF s \notin rows THEN "absent"
                                    ELSE IF s \in open THEN "active" ELSE "idle"]
           m == [tell |-> "listed", view |-> v]
<1>1. /\ Steady /\ UNCHANGED <<ui, daemon>> /\ Taken /\ Tell(<<m>>)
  BY Serves DEF DoList
<1>2. /\ v \in [Sessions -> {"absent", "idle", "active"}]
      /\ \A s \in Sessions : v[s] = "active" <=> s \in rows \cap open
  OBVIOUS
<1> HIDE DEF v
<1>3. /\ m \in Messages
      /\ \A s \in Sessions : /\ m \in Opens(s) <=> v[s] = "active"
                             /\ m \in Shuts(s) <=> v[s] # "active"
                             /\ m \notin Starts(s) /\ m \notin Ends(s)
  BY <1>2, SaysOfAll
<1> HIDE DEF m
<1>4. <<m>> \in Seq(Messages)
  BY <1>3
<1>5. \A s \in Sessions :
         /\ Lasts(<<m>>, Opens(s), Shuts(s)) <=> s \in rows \cap open
         /\ Free(<<m>>, Shuts(s)) <=> s \in rows \cap open
         /\ Free(<<m>>, Ends(s)) /\ ~Lasts(<<m>>, Starts(s), Ends(s))
  <2>1. \A on, off : /\ Lasts(<<m>>, on, off) <=> m \in on
                     /\ Free(<<m>>, off) <=> m \notin off
    BY LastsShort
  <2> QED BY <1>2, <1>3, <2>1, Zenon
<1>6. DaemonTypeOK' /\ OfProject'
  BY <1>1, DaemonTypes DEF daemon, DaemonTypeOK, Busy, OfProject, WindowInv
<1>7. \A s \in Sessions : s \in open => MayShow(s)'
  BY <1>1 DEF daemon, MayShow
<1>8. \A s \in Sessions : (Sure(s)' <=> Sure(s)) /\ run'[s] = run[s] /\ fresh'[s] = fresh[s]
  BY <1>1 DEF daemon, Sure, Closing
<1> QED BY <1>1, <1>4, <1>5, <1>6, <1>7, <1>8, DaemonTypes, DaemonStep

\* A session that was opened or began its turn is told so.
LEMMA DaemonTells ==
    ASSUME WindowInv, Steady, UNCHANGED ui, Taken,
           NEW s \in Sessions, NEW tell \in {"resumed", "created", "turn_started"},
           Tell(<<[tell |-> tell, session |-> s]>>),
           DaemonTypeOK', OfProject',
           link # "open" => \A t \in Sessions : ~fresh'[t],
           tell # "turn_started" => s \in open',
           \A t \in Sessions : MayShow(t) => MayShow(t)',
           \A t \in Sessions : Sure(t)' =>
              IF tell = "turn_started" /\ t = s THEN run'[t] = "turn"
              ELSE Sure(t) /\ run'[t] = run[t]
    PROVE  WindowInv'
<1> DEFINE m == [tell |-> tell, session |-> s]
<1>1. /\ m \in Messages
      /\ \A t \in Sessions :
           /\ m \in Opens(t) <=> tell \in {"resumed", "created"} /\ t = s
           /\ m \in Shuts(t) <=> tell = "closed" /\ t = s
           /\ m \in Starts(t) <=> tell = "turn_started" /\ t = s
           /\ m \in Ends(t) <=> tell \in {"turn_ended", "closed"} /\ t = s
  BY SaysOfSession
<1>2. Tell(<<m>>)
  OBVIOUS
<1> HIDE DEF m
<1>3. <<m>> \in Seq(Messages)
  BY <1>1
<1>4. \A t \in Sessions :
         /\ Lasts(<<m>>, Opens(t), Shuts(t)) <=> tell # "turn_started" /\ t = s
         /\ Free(<<m>>, Shuts(t)) /\ Free(<<m>>, Ends(t))
         /\ Lasts(<<m>>, Starts(t), Ends(t)) <=> tell = "turn_started" /\ t = s
  <2>1. \A on, off : /\ Lasts(<<m>>, on, off) <=> m \in on
                     /\ Free(<<m>>, off) <=> m \notin off
    BY LastsShort
  <2> QED BY <1>1, <2>1
<1>5. tell # "turn_started" => MayShow(s)'
  BY DEF MayShow
<1>6. \A t \in Sessions : /\ WillShow(t) => MayShow(t)'
                          /\ Sure(t) => (WillMark(t) <=> run[t] = "turn")
  BY DaemonTypes
<1>7. ASSUME NEW t \in Sessions,
             Lasts(<<m>>, Opens(t), Shuts(t)) \/ (WillShow(t) /\ Free(<<m>>, Shuts(t)))
      PROVE  MayShow(t)'
  BY <1>4, <1>5, <1>6, <1>7
<1>8. ASSUME NEW t \in Sessions, Sure(t)'
      PROVE  (Lasts(<<m>>, Starts(t), Ends(t)) \/ (WillMark(t) /\ Free(<<m>>, Ends(t))))
                <=> run'[t] = "turn"
  BY <1>4, <1>6, <1>8
<1> QED BY <1>2, <1>3, <1>7, <1>8, DaemonStep

LEMMA ResumeFollows ==
    ASSUME WindowInv, ShellTypeOK', NEW s \in Sessions, DoResume(s)
    PROVE  WindowInv'
<1>1. /\ Steady /\ Taken
      /\ UNCHANGED <<ui, inbox, rows, open, run, displaced, closes, unborn, unmarked, fresh>>
  BY Serves DEF DoResume
<1>2. resumes' \in [Opening -> Resumes \cup {Nothing}]
  <2>1. resumes \in [Opening -> Resumes \cup {Nothing}]
    BY DaemonTypes DEF DaemonTypeOK
  <2>2. [session |-> s, seen |-> TRUE] \in Resumes
    BY DEF Resumes
  <2> QED BY <2>1, <2>2 DEF DoResume
<1>3. DaemonTypeOK'
  BY <1>1, <1>2, DaemonTypes DEF DaemonTypeOK, Busy
<1> QED BY <1>1, <1>3, SilentStep

LEMMA PromptFollows ==
    ASSUME WindowInv, ShellTypeOK', NEW s \in Sessions, DoPrompt(s) \/ DoInterrupt(s)
    PROVE  WindowInv'
<1>1. /\ Steady /\ Taken
      /\ UNCHANGED <<ui, inbox, rows, open, displaced, resumes, closes, unborn, unmarked, fresh>>
  BY Serves DEF DoPrompt, DoInterrupt, daemon
<1>2. \/ UNCHANGED run
      \/ run[s] = "none" /\ run' = [run EXCEPT ![s] = "asked"]
  BY DEF DoPrompt, DoInterrupt, daemon
<1>3. /\ run' \in [Sessions -> {"none", "asked", "turn", "left"}]
      /\ \A t \in Sessions : run'[t] = "turn" <=> run[t] = "turn"
      /\ Busy \subseteq Busy'
  BY <1>2, DaemonTypes DEF DaemonTypeOK, Busy
<1>4. DaemonTypeOK'
  BY <1>1, <1>3, DaemonTypes DEF DaemonTypeOK
<1> QED BY <1>1, <1>3, <1>4, SilentStep

LEMMA ResumeEndsFollows ==
    ASSUME WindowInv, ShellTypeOK', NEW c \in Opening, ResumeEnds(c)
    PROVE  WindowInv'
<1> DEFINE s == resumes[c].session
<1>1. /\ Steady /\ Taken /\ s \in Sessions
      /\ resumes' = [resumes EXCEPT ![c] = Nothing]
      /\ UNCHANGED <<ui, run, closes, unborn, unmarked, fresh>>
  BY Serves, DaemonTypes, SlotFields DEF ResumeEnds
<1>2. \/ /\ rows' = rows \cup {s} /\ open' = open \cup {s}
         /\ displaced' = displaced \cup ({s} \cap Busy)
         /\ Tell(IF resumes[c].seen THEN <<[tell |-> "resumed", session |-> s]>> ELSE <<>>)
      \/ UNCHANGED <<inbox, rows, open, displaced>>
  BY DEF ResumeEnds
<1> HIDE DEF s
<1>3. DaemonTypeOK'
  <2>1. resumes' \in [Opening -> Resumes \cup {Nothing}]
    BY <1>1, DaemonTypes DEF DaemonTypeOK
  <2>2. /\ rows' \subseteq Sessions /\ open' \subseteq Sessions
        /\ displaced' \subseteq Busy'
    BY <1>1, <1>2, DaemonTypes DEF DaemonTypeOK, Busy
  <2> QED BY <1>1, <2>1, <2>2, DaemonTypes DEF DaemonTypeOK
<1>4. OfProject'
  BY <1>1 DEF WindowInv, OfProject
<1>5. \A t \in Sessions : Sure(t)' <=> Sure(t)
  BY <1>1 DEF Sure, Closing
<1>6. CASE UNCHANGED <<inbox, rows, open, displaced>>
  BY <1>1, <1>3, <1>6, SilentStep
<1>7. ASSUME rows' = rows \cup {s}, open' = open \cup {s}
      PROVE  /\ s \in open'
             /\ \A t \in Sessions : MayShow(t) => MayShow(t)'
  BY <1>1, <1>7 DEF MayShow, Closing, Deleting
<1>8. ASSUME rows' = rows \cup {s}, open' = open \cup {s},
             Tell(<<[tell |-> "resumed", session |-> s]>>)
      PROVE  WindowInv'
  <2>1. link # "open" => \A t \in Sessions : ~fresh'[t]
    BY <1>1 DEF WindowInv, LinkInv
  <2>2. \A t \in Sessions : Sure(t)' => Sure(t) /\ run'[t] = run[t]
    BY <1>1, <1>5
  <2> QED BY <1>1, <1>3, <1>4, <1>7, <1>8, <2>1, <2>2, DaemonTells
<1>9. ASSUME rows' = rows \cup {s}, open' = open \cup {s}, Tell(<<>>)
      PROVE  WindowInv'
  <2>1. <<>> \in Seq(Farewells)
    OBVIOUS
  <2>2. \A t \in Sessions : Free(<<>>, Shuts(t)) /\ Free(<<>>, Ends(t))
    BY LastsShort
  <2> QED BY <1>1, <1>3, <1>4, <1>5, <1>7, <1>9, <2>1, <2>2, EndsStep
<1> QED BY <1>2, <1>6, <1>8, <1>9

LEMMA CreateFollows ==
    ASSUME WindowInv, ShellTypeOK', NEW cwd \in Cwds, DoCreate(cwd)
    PROVE  WindowInv'
<1>1. /\ Steady /\ Taken
      /\ UNCHANGED <<ui, run, displaced, resumes, closes, unmarked, fresh>>
  BY Serves DEF DoCreate
<1>2. \/ \E s \in unborn :
            /\ unborn' = unborn \ {s}
            /\ rows' = rows \cup {s} /\ open' = open \cup {s}
            /\ Tell(<<[tell |-> "created", session |-> s]>>)
      \/ UNCHANGED <<inbox, unborn, rows, open>>
  BY DEF DoCreate
<1>3. DaemonTypeOK'
  BY <1>1, <1>2, DaemonTypes DEF DaemonTypeOK, Busy
<1>4. CASE UNCHANGED <<inbox, unborn, rows, open>>
  BY <1>1, <1>3, <1>4, SilentStep
<1>5. ASSUME NEW s \in unborn, rows' = rows \cup {s}, open' = open \cup {s},
             Tell(<<[tell |-> "created", session |-> s]>>)
      PROVE  WindowInv'
  <2>1. s \in Sessions /\ s \in open'
    BY <1>5, DaemonTypes DEF DaemonTypeOK
  <2>2. OfProject'
    BY <1>1 DEF WindowInv, OfProject
  <2>3. \A t \in Sessions : /\ MayShow(t) => MayShow(t)'
                            /\ Sure(t)' => Sure(t) /\ run'[t] = run[t]
    BY <1>1, <1>5 DEF MayShow, Sure, Closing, Deleting
  <2>4. link # "open" => \A t \in Sessions : ~fresh'[t]
    BY <1>1 DEF WindowInv, LinkInv
  <2> QED BY <1>1, <1>3, <1>5, <2>1, <2>2, <2>3, <2>4, DaemonTells
<1> QED BY <1>2, <1>4, <1>5

LEMMA TurnStartsFollows ==
    ASSUME WindowInv, ShellTypeOK', NEW s \in Sessions, TurnStarts(s)
    PROVE  WindowInv'
<1>1. /\ Steady /\ Taken
      /\ UNCHANGED <<ui, rows, open, displaced, resumes, closes, unborn, unmarked>>
      /\ run[s] = "asked" /\ run' = [run EXCEPT ![s] = "turn"]
      /\ Tell(<<[tell |-> "turn_started", session |-> s]>>)
      /\ fresh' = [fresh EXCEPT ![s] = (link = "open")]
  BY Serves DEF TurnStarts
<1>2. /\ DaemonTypeOK' /\ run'[s] = "turn"
      /\ \A t \in Sessions : t # s => run'[t] = run[t] /\ fresh'[t] = fresh[t]
      /\ fresh'[s] = (link = "open")
  BY <1>1, DaemonTypes DEF DaemonTypeOK, Busy
<1>3. OfProject' /\ \A t \in Sessions : MayShow(t) => MayShow(t)'
  BY <1>1 DEF WindowInv, OfProject, MayShow, Closing, Deleting
<1>4. link # "open" => \A t \in Sessions : ~fresh'[t]
  BY <1>2, DaemonTypes
<1>5. \A t \in Sessions : Sure(t)' => IF t = s THEN run'[t] = "turn"
                                      ELSE Sure(t) /\ run'[t] = run[t]
  BY <1>1, <1>2 DEF Sure, Closing
<1> QED BY <1>1, <1>2, <1>3, <1>4, <1>5, DaemonTells

\* The end of the turn is told, or there was none.
LEMMA TurnEndsFollows ==
    ASSUME WindowInv, ShellTypeOK', NEW s \in Sessions, TurnEnds(s)
    PROVE  WindowInv'
<1>1. /\ Steady /\ Taken
      /\ UNCHANGED <<ui, rows, open, resumes, closes, unborn, fresh>>
      /\ run' = [run EXCEPT ![s] = "none"] /\ displaced' = displaced \ {s}
      /\ unmarked' = {t \in unmarked : run'[t] = "turn"}
      /\ Tell(IF run[s] = "turn" THEN <<Ended(s)>> ELSE <<>>)
  BY Serves DEF TurnEnds, Unmark
<1>2. /\ run' \in [Sessions -> {"none", "asked", "turn", "left"}] /\ run'[s] = "none"
      /\ \A t \in Sessions : t # s => run'[t] = run[t]
      /\ unmarked \subseteq {t \in Sessions : run[t] = "turn"}
  BY <1>1, DaemonTypes DEF DaemonTypeOK
<1>3. DaemonTypeOK'
  BY <1>1, <1>2, DaemonTypes DEF DaemonTypeOK, Busy
<1>4. OfProject' /\ \A t \in Sessions : MayShow(t) => MayShow(t)'
  BY <1>1 DEF WindowInv, OfProject, MayShow, Closing, Deleting
<1>5. ASSUME NEW t \in Sessions, Sure(t)'
      PROVE  run[t] # "turn" \/ t # s => Sure(t)
  BY <1>1, <1>2, <1>5 DEF Sure, Closing
<1>6. CASE run[s] = "turn"
  <2>1. <<Ended(s)>> \in Seq(Farewells)
    BY FarewellSays
  <2>2. \A t \in Sessions : /\ Free(<<Ended(s)>>, Shuts(t))
                            /\ Free(<<Ended(s)>>, Ends(t)) <=> t # s
    BY FarewellSays
  <2> QED BY <1>1, <1>2, <1>3, <1>4, <1>5, <1>6, <2>1, <2>2, EndsStep
<1>7. CASE run[s] # "turn"
  <2>1. <<>> \in Seq(Farewells)
    OBVIOUS
  <2>2. \A t \in Sessions : Free(<<>>, Shuts(t)) /\ Free(<<>>, Ends(t))
    BY LastsShort
  <2> QED BY <1>1, <1>2, <1>3, <1>4, <1>5, <1>7, <2>1, <2>2, EndsStep
<1> QED BY <1>6, <1>7

LEMMA LeftSettlesFollows ==
    ASSUME WindowInv, ShellTypeOK', NEW s \in Sessions, LeftSettles(s)
    PROVE  WindowInv'
<1>1. /\ Steady /\ Taken
      /\ UNCHANGED <<ui, rows, open, displaced, resumes, closes, unborn, unmarked, fresh>>
      /\ run[s] = "left" /\ run' = [run EXCEPT ![s] = "none"]
      /\ UNCHANGED inbox \/ Tell(<<Ended(s)>>)
  BY Serves DEF LeftSettles
<1>2. /\ run' \in [Sessions -> {"none", "asked", "turn", "left"}] /\ run'[s] = "none"
      /\ \A t \in Sessions : t # s => run'[t] = run[t]
  BY <1>1, DaemonTypes DEF DaemonTypeOK
<1>3. DaemonTypeOK'
  BY <1>1, <1>2, DaemonTypes DEF DaemonTypeOK, Busy
<1>4. CASE UNCHANGED inbox
  BY <1>1, <1>2, <1>3, <1>4, SilentStep
<1>5. CASE Tell(<<Ended(s)>>)
  <2>1. <<Ended(s)>> \in Seq(Farewells)
    BY FarewellSays
  <2>2. \A t \in Sessions : /\ Free(<<Ended(s)>>, Shuts(t))
                            /\ Free(<<Ended(s)>>, Ends(t)) <=> t # s
    BY FarewellSays
  <2>3. OfProject' /\ \A t \in Sessions : /\ MayShow(t) => MayShow(t)'
                                          /\ Sure(t)' => Sure(t)
    BY <1>1 DEF WindowInv, OfProject, MayShow, Sure, Closing, Deleting
  <2> QED BY <1>1, <1>2, <1>3, <1>5, <2>1, <2>2, <2>3, EndsStep
<1> QED BY <1>1, <1>4, <1>5

\* A session that leaves the map: its agent tells the end of its turn, or not yet.
LEMMA LetGoIs ==
    ASSUME DaemonTypeOK, NEW s \in Sessions, NEW before \in Seq(Farewells), LetGo(s, before)
    PROVE  /\ open' = open \ {s}
           /\ run' \in [Sessions -> {"none", "asked", "turn", "left"}]
           /\ \A t \in Sessions : t # s => run'[t] = run[t]
           /\ displaced \subseteq Busy'
           /\ \E q \in Seq(Farewells) :
                 /\ Tell(q)
                 /\ \A t \in Sessions : /\ Free(q, Shuts(t)) <=> Free(before, Shuts(t))
                                        /\ t # s => (Free(q, Ends(t)) <=> Free(before, Ends(t)))
<1>1. /\ open' = open \ {s}
      /\ run' \in [Sessions -> {"none", "asked", "turn", "left"}]
      /\ \A t \in Sessions : t # s => run'[t] = run[t]
      /\ displaced \subseteq Busy'
  BY DEF LetGo, DaemonTypeOK, Busy
<1>2. CASE Tell(before)
  BY <1>1, <1>2
<1>3. CASE Tell(before \o <<Ended(s)>>)
  <2> DEFINE q == before \o <<Ended(s)>>
  <2>1. <<Ended(s)>> \in Seq(Farewells)
    BY FarewellSays
  <2>2. \A t \in Sessions : /\ Free(<<Ended(s)>>, Shuts(t))
                            /\ Free(<<Ended(s)>>, Ends(t)) <=> t # s
    BY FarewellSays
  <2>3. /\ q \in Seq(Farewells)
        /\ \A off : Free(q, off) <=> Free(before, off) /\ Free(<<Ended(s)>>, off)
    BY <2>1, LastsConcat
  <2>4. Tell(q)
    BY <1>3
  <2> HIDE DEF q
  <2>5. \A t \in Sessions : /\ Free(q, Shuts(t)) <=> Free(before, Shuts(t))
                            /\ t # s => (Free(q, Ends(t)) <=> Free(before, Ends(t)))
    BY <2>2, <2>3
  <2> QED BY <1>1, <2>3, <2>4, <2>5
<1> QED BY <1>2, <1>3 DEF LetGo

\* What Unmark leaves: turns that go on, of which an end was told or had been told.
LEMMA UnmarkIs ==
    ASSUME DaemonTypeOK, NEW ids \in SUBSET Sessions, Unmark(ids)
    PROVE  /\ unmarked' \subseteq {s \in Sessions : run'[s] = "turn"}
           /\ \A s \in Sessions : s \notin unmarked' =>
                 /\ s \in ids => run'[s] # "turn"
                 /\ s \in unmarked => run'[s] # run[s]
BY DEF DaemonTypeOK, Unmark

\* agent.close: the session is on the way out, or was not open and is told closed.
LEMMA CloseFollows ==
    ASSUME WindowInv, ShellTypeOK', NEW s \in Sessions, DoClose(s)
    PROVE  WindowInv'
<1>1. /\ Steady /\ Taken /\ UNCHANGED <<ui, rows, displaced, resumes, unborn, fresh>>
  BY Serves DEF DoClose
<1>2. DaemonTypeOK /\ {} \in SUBSET Sessions /\ {s} \in SUBSET Sessions
  BY DaemonTypes
<1>3. CASE s \in open
  <2> DEFINE r == [session |-> s, cwd |-> Nothing, todo |-> {}]
  <2>1. PICK c \in Shutting : closes[c] = Nothing /\ closes' = [closes EXCEPT ![c] = r]
    BY <1>3 DEF DoClose
  <2>2. LetGo(s, <<>>) /\ Unmark({})
    BY <1>3 DEF DoClose
  <2>3. r \in Closes /\ r # Nothing /\ r.session = s /\ r.cwd = Nothing
    BY DashboardAssumption DEF Closes
  <2> HIDE DEF r
  <2>4. /\ closes' \in [Shutting -> Closes \cup {Nothing}] /\ closes'[c] = r
        /\ \A d \in Shutting : d # c => closes'[d] = closes[d]
    BY <1>2, <2>1, <2>3 DEF DaemonTypeOK
  <2>5. <<>> \in Seq(Farewells)
    OBVIOUS
  <2>6. /\ open' = open \ {s}
        /\ run' \in [Sessions -> {"none", "asked", "turn", "left"}]
        /\ \A t \in Sessions : t # s => run'[t] = run[t]
        /\ displaced \subseteq Busy'
    BY <1>2, <2>2, <2>5, LetGoIs
  <2>7. PICK q \in Seq(Farewells) :
          /\ Tell(q)
          /\ \A t \in Sessions : /\ Free(q, Shuts(t)) <=> Free(<<>>, Shuts(t))
                                 /\ t # s => (Free(q, Ends(t)) <=> Free(<<>>, Ends(t)))
    BY <1>2, <2>2, <2>5, LetGoIs
  <2>8. \A t \in Sessions : Free(q, Shuts(t)) /\ (t # s => Free(q, Ends(t)))
    BY <2>7, LastsShort
  <2>9. /\ unmarked' \subseteq {t \in Sessions : run'[t] = "turn"}
        /\ \A t \in Sessions : t \notin unmarked' /\ t \in unmarked => run'[t] # run[t]
    BY <1>2, <2>2, UnmarkIs
  <2>10. DaemonTypeOK'
    BY <1>1, <1>2, <2>4, <2>6, <2>9 DEF DaemonTypeOK
  <2>11. OfProject'
    BY <2>3, <2>4 DEF WindowInv, OfProject
  <2>12. /\ Closing(s)'
         /\ \A t \in Sessions : /\ Closing(t) => Closing(t)'
                                /\ Deleting(t) => Deleting(t)'
    BY <2>1, <2>3, <2>4 DEF Closing, Deleting
  <2>13. \A t \in Sessions : MayShow(t) => MayShow(t)'
    BY <1>1, <2>6, <2>12 DEF MayShow
  <2>14. \A t \in Sessions : Sure(t)' => t # s /\ Sure(t) /\ run'[t] = run[t]
    BY <1>1, <2>6, <2>9, <2>12 DEF Sure
  <2> QED BY <1>1, <2>7, <2>8, <2>10, <2>11, <2>13, <2>14, EndsStep
<1>4. CASE s \notin open
  <2>1. UNCHANGED <<closes, open, run>> /\ Tell(<<Closed(s)>>) /\ Unmark({s})
    BY <1>4 DEF DoClose
  <2>2. /\ unmarked' \subseteq {t \in Sessions : run'[t] = "turn"}
        /\ s \notin unmarked' => run'[s] # "turn"
        /\ \A t \in Sessions : t \notin unmarked' /\ t \in unmarked => run'[t] # run[t]
    BY <1>2, <2>1, UnmarkIs
  <2>3. DaemonTypeOK'
    BY <1>1, <1>2, <2>1, <2>2 DEF DaemonTypeOK, Busy
  <2>4. OfProject' /\ \A t \in Sessions : MayShow(t) => MayShow(t)'
    BY <1>1, <2>1 DEF WindowInv, OfProject, MayShow, Closing, Deleting
  <2>5. \A t \in Sessions : Sure(t)' => /\ t = s => run'[t] # "turn"
                                        /\ Sure(t) /\ run'[t] = run[t]
    BY <1>1, <2>1, <2>2 DEF Sure, Closing
  <2>6. <<Closed(s)>> \in Seq(Farewells)
    BY FarewellIs
  <2>7. \A t \in Sessions : Free(<<Closed(s)>>, Ends(t)) <=> t # s
    BY FarewellIs, LastsShort
  <2> QED BY <1>1, <2>1, <2>3, <2>4, <2>5, <2>6, <2>7, EndsStep
<1> QED BY <1>3, <1>4

\* The session is told closed when nothing says any more that it is on the way out.
LEMMA CloseEndsFollows ==
    ASSUME WindowInv, ShellTypeOK', NEW c \in Shutting, CloseEnds(c)
    PROVE  WindowInv'
<1> DEFINE s == closes[c].session
           q == <<Ended(s), Closed(s)>>
<1>1. /\ Steady /\ Taken
      /\ UNCHANGED <<ui, rows, open, run, displaced, resumes, unborn, fresh>>
      /\ closes[c] # Nothing /\ closes[c].cwd = Nothing
      /\ closes' = [closes EXCEPT ![c] = Nothing]
      /\ Tell(q) /\ Unmark({s})
  BY Serves DEF CloseEnds
<1>2. DaemonTypeOK /\ s \in Sessions /\ {s} \in SUBSET Sessions
  BY <1>1, DaemonTypes, SlotFields
<1>3. /\ q \in Seq(Farewells)
      /\ \A t \in Sessions : /\ Free(q, Shuts(t)) <=> t # s
                             /\ Free(q, Ends(t)) <=> t # s
  <2> DEFINE m == Ended(s)
             n == Closed(s)
  <2>1. /\ m \in Farewells /\ n \in Farewells
        /\ \A t \in Sessions : /\ m \notin Shuts(t) /\ (n \in Shuts(t) <=> t = s)
                               /\ m \in Ends(t) <=> t = s
                               /\ n \in Ends(t) <=> t = s
    BY <1>2, FarewellIs
  <2> HIDE DEF m, n, s
  <2>2. <<m, n>> \in Seq(Farewells)
    BY <2>1
  <2>3. \A t \in Sessions : /\ Free(<<m, n>>, Shuts(t)) <=> m \notin Shuts(t) /\ n \notin Shuts(t)
                            /\ Free(<<m, n>>, Ends(t)) <=> m \notin Ends(t) /\ n \notin Ends(t)
    BY LastsShort
  <2> QED BY <2>1, <2>2, <2>3 DEF m, n
<1> HIDE DEF q
<1>4. /\ unmarked' \subseteq {t \in Sessions : run'[t] = "turn"}
      /\ s \notin unmarked' => run'[s] # "turn"
      /\ \A t \in Sessions : t \notin unmarked' /\ t \in unmarked => run'[t] # run[t]
  BY <1>1, <1>2, UnmarkIs
<1>5. /\ closes' \in [Shutting -> Closes \cup {Nothing}] /\ closes'[c] = Nothing
      /\ \A d \in Shutting : d # c => closes'[d] = closes[d]
  BY <1>1, <1>2 DEF DaemonTypeOK
<1>6. DaemonTypeOK'
  BY <1>1, <1>2, <1>4, <1>5 DEF DaemonTypeOK, Busy
<1>7. OfProject'
  BY <1>5 DEF WindowInv, OfProject
<1>8. \A t \in Sessions : /\ t # s /\ Closing(t) => Closing(t)'
                          /\ Deleting(t) => Deleting(t)'
  <2>1. \A t \in Sessions : CwdOf[t] # Nothing
    BY DashboardAssumption
  <2> QED BY <1>1, <1>5, <2>1 DEF Closing, Deleting
<1>9. \A t \in Sessions : t # s /\ MayShow(t) => MayShow(t)'
  BY <1>1, <1>8 DEF MayShow
<1>10. \A t \in Sessions : Sure(t)' => IF t # s THEN Sure(t) /\ run'[t] = run[t]
                                       ELSE run'[t] # "turn"
  BY <1>1, <1>2, <1>4, <1>8 DEF Sure
<1> HIDE DEF s
<1> QED BY <1>1, <1>3, <1>6, <1>7, <1>9, <1>10, EndsStep

\* A deletion goes on: the session closed before is of the project, whose rows are
\* still there and on the way out, or go now.
LEMMA DeleteFromFollows ==
    ASSUME WindowInv, Steady, UNCHANGED <<ui, displaced, resumes, unborn, fresh>>, Taken,
           NEW c \in Shutting, NEW cwd \in Cwds,
           NEW todo \in SUBSET {t \in Sessions : CwdOf[t] = cwd},
           NEW ids \in SUBSET Sessions, NEW before \in Seq(Farewells),
           \A t \in Sessions : /\ Free(before, Shuts(t))
                               /\ Free(before, Ends(t)) <=> t \notin ids,
           closes[c] # Nothing => closes[c].cwd = cwd /\ closes[c].session \in ids,
           DeleteFrom(c, cwd, todo, before), Unmark(ids)
    PROVE  WindowInv'
<1>1. DaemonTypeOK
  BY DaemonTypes
<1>2. /\ unmarked' \subseteq {t \in Sessions : run'[t] = "turn"}
      /\ \A t \in Sessions : t \notin unmarked' =>
            /\ t \in ids => run'[t] # "turn"
            /\ t \in unmarked => run'[t] # run[t]
  BY <1>1, UnmarkIs
<1>3. closes[c] # Nothing => CwdOf[closes[c].session] = cwd
  <2>1. cwd # Nothing
    BY DashboardAssumption
  <2> QED BY <2>1 DEF WindowInv, OfProject
<1>4. ASSUME NEW s \in todo \cap open \cap rows,
             closes' = [closes EXCEPT ![c] =
                          [session |-> s, cwd |-> cwd, todo |-> todo \ {s}]],
             LetGo(s, before), UNCHANGED rows
      PROVE  WindowInv'
  <2> DEFINE r == [session |-> s, cwd |-> cwd, todo |-> todo \ {s}]
  <2>1. /\ r \in Closes /\ r # Nothing /\ r.session = s /\ r.cwd = cwd
        /\ s \in Sessions /\ CwdOf[s] = cwd /\ \A t \in r.todo : CwdOf[t] = cwd
    BY DashboardAssumption DEF Closes
  <2>2. closes' = [closes EXCEPT ![c] = r]
    BY <1>4
  <2> HIDE DEF r
  <2>3. /\ closes' \in [Shutting -> Closes \cup {Nothing}] /\ closes'[c] = r
        /\ \A d \in Shutting : d # c => closes'[d] = closes[d]
    BY <1>1, <2>1, <2>2 DEF DaemonTypeOK
  <2>4. /\ open' = open \ {s}
        /\ run' \in [Sessions -> {"none", "asked", "turn", "left"}]
        /\ \A t \in Sessions : t # s => run'[t] = run[t]
        /\ displaced \subseteq Busy'
    BY <1>1, <1>4, <2>1, LetGoIs
  <2>5. PICK q \in Seq(Farewells) :
          /\ Tell(q)
          /\ \A t \in Sessions : /\ Free(q, Shuts(t)) <=> Free(before, Shuts(t))
                                 /\ t # s => (Free(q, Ends(t)) <=> Free(before, Ends(t)))
    BY <1>1, <1>4, <2>1, LetGoIs
  <2>6. DaemonTypeOK'
    BY <1>1, <1>2, <1>4, <2>3, <2>4 DEF DaemonTypeOK
  <2>7. OfProject'
    BY <2>1, <2>3 DEF WindowInv, OfProject
  <2>8. \A t \in Sessions : /\ t \notin ids /\ Closing(t) => Closing(t)'
                            /\ Closing(t) => Closing(t)' \/ Deleting(t)'
                            /\ Deleting(t) => Deleting(t)'
    BY <1>3, <2>1, <2>3 DEF Closing, Deleting
  <2>9. Closing(s)'
    BY <2>1, <2>3 DEF Closing
  <2>10. \A t \in Sessions : MayShow(t) => MayShow(t)'
    BY <1>4, <2>4, <2>8, <2>9 DEF MayShow
  <2>11. \A t \in Sessions : Sure(t)' => /\ t # s /\ run'[t] = run[t]
                                         /\ IF t \in ids THEN run'[t] # "turn" ELSE Sure(t)
    BY <1>2, <2>4, <2>8, <2>9 DEF Sure
  <2> QED BY <2>5, <2>6, <2>7, <2>10, <2>11, EndsStep
<1>5. ASSUME closes' = [closes EXCEPT ![c] = Nothing],
             rows' = {s \in rows : CwdOf[s] # cwd}, Tell(before), UNCHANGED <<open, run>>
      PROVE  WindowInv'
  <2>1. /\ closes' \in [Shutting -> Closes \cup {Nothing}] /\ closes'[c] = Nothing
        /\ \A d \in Shutting : d # c => closes'[d] = closes[d]
    BY <1>1, <1>5 DEF DaemonTypeOK
  <2>2. DaemonTypeOK'
    BY <1>1, <1>2, <1>5, <2>1 DEF DaemonTypeOK, Busy
  <2>3. OfProject'
    BY <2>1 DEF WindowInv, OfProject
  <2>4. \A t \in Sessions : /\ t \notin ids /\ Closing(t) => Closing(t)'
                            /\ CwdOf[t] # cwd /\ Closing(t) => Closing(t)'
                            /\ CwdOf[t] # cwd /\ Deleting(t) => Deleting(t)'
    BY <1>3, <2>1 DEF Closing, Deleting
  <2>5. \A t \in Sessions : MayShow(t) => MayShow(t)'
    BY <1>5, <2>4 DEF MayShow
  <2>6. \A t \in Sessions : Sure(t)' => /\ run'[t] = run[t]
                                        /\ IF t \in ids THEN run'[t] # "turn" ELSE Sure(t)
    BY <1>2, <1>5, <2>4 DEF Sure
  <2> QED BY <1>5, <2>2, <2>3, <2>5, <2>6, EndsStep
<1> QED BY <1>4, <1>5 DEF DeleteFrom

LEMMA DeleteFollows ==
    ASSUME WindowInv, ShellTypeOK', NEW cwd \in Cwds, DoDelete(cwd)
    PROVE  WindowInv'
<1>1. Steady /\ Taken /\ UNCHANGED <<ui, displaced, resumes, unborn, fresh>>
  BY Serves DEF DoDelete
<1> DEFINE todo == {s \in open : CwdOf[s] = cwd}
<1>2. PICK c \in Shutting : /\ closes[c] = Nothing
                            /\ DeleteFrom(c, cwd, todo, <<>>) /\ Unmark({})
  BY DEF DoDelete
<1>3. todo \in SUBSET {t \in Sessions : CwdOf[t] = cwd}
  BY DaemonTypes DEF DaemonTypeOK
<1>4. <<>> \in Seq(Farewells) /\ {} \in SUBSET Sessions
  OBVIOUS
<1>5. \A t \in Sessions : Free(<<>>, Shuts(t)) /\ (Free(<<>>, Ends(t)) <=> t \notin {})
  BY LastsShort
<1> HIDE DEF todo
<1> QED BY <1>1, <1>2, <1>3, <1>4, <1>5, DeleteFromFollows

LEMMA DeleteGoesOnFollows ==
    ASSUME WindowInv, ShellTypeOK', NEW c \in Shutting, DeleteGoesOn(c)
    PROVE  WindowInv'
<1> DEFINE s == closes[c].session
           cwd == closes[c].cwd
           todo == closes[c].todo
<1>1. /\ Steady /\ Taken /\ UNCHANGED <<ui, displaced, resumes, unborn, fresh>>
      /\ closes[c] # Nothing /\ cwd # Nothing
      /\ DeleteFrom(c, cwd, todo, <<Ended(s)>>) /\ Unmark({s})
  BY Serves DEF DeleteGoesOn
<1>2. s \in Sessions /\ {s} \in SUBSET Sessions /\ cwd \in Cwds /\ todo \subseteq Sessions
  BY <1>1, DaemonTypes, SlotFields
<1>3. todo \in SUBSET {t \in Sessions : CwdOf[t] = cwd}
  BY <1>1, <1>2 DEF WindowInv, OfProject
<1>4. <<Ended(s)>> \in Seq(Farewells)
  BY <1>2, FarewellSays
<1>5. \A t \in Sessions : /\ Free(<<Ended(s)>>, Shuts(t))
                          /\ Free(<<Ended(s)>>, Ends(t)) <=> t \notin {s}
  <2>1. \A t \in Sessions : /\ Free(<<Ended(s)>>, Shuts(t))
                            /\ Free(<<Ended(s)>>, Ends(t)) <=> t # s
    BY <1>2, FarewellSays
  <2> QED BY <2>1
<1>6. closes[c] # Nothing => closes[c].cwd = cwd /\ closes[c].session \in {s}
  OBVIOUS
<1> HIDE DEF s, cwd, todo
<1> QED BY <1>1, <1>2, <1>3, <1>4, <1>5, <1>6, DeleteFromFollows

LEMMA DaemonFollows ==
    ASSUME WindowInv, ShellTypeOK', Daemon
    PROVE  WindowInv'
BY ListFollows, ResumeFollows, ResumeEndsFollows, CreateFollows, PromptFollows,
   TurnStartsFollows, TurnEndsFollows, LeftSettlesFollows, CloseFollows, CloseEndsFollows,
   DeleteFollows, DeleteGoesOnFollows DEF Daemon

-----------------------------------------------------------------------------
(* The window receives                                                     *)

\* A message arrives: the row and the mark become what the message says, and what
\* will be shown and marked in the end stays what it was.
LEMMA ReceiveStep ==
    ASSUME WindowInv, Received, ShellTypeOK',
           inbox # <<>>, inbox' = Tail(inbox),
           loaded' \in BOOLEAN,
           view' \in [Sessions -> {"absent", "idle", "active"}],
           activeCwd' \in Cwds \cup {Nothing},
           active' \in Sessions \cup {Nothing},
           draft' \in Cwds \cup {Nothing},
           running' \in [Sessions -> BOOLEAN],
           \/ requests' = requests
           \/ \E s \in Sessions :
                 requests' = Append(requests, [ask |-> "prompt", session |-> s]),
           \A s \in Sessions : loaded' /\ view'[s] = "active" =>
              \/ Head(inbox) \in Opens(s)
              \/ loaded /\ view[s] = "active" /\ Head(inbox) \notin Shuts(s),
           \A s \in Sessions : running'[s] <=>
              \/ Head(inbox) \in Starts(s)
              \/ running[s] /\ Head(inbox) \notin Ends(s)
    PROVE  WindowInv'
<1> USE DEF WindowInv
<1>1. /\ inbox \in Seq(Messages) /\ inbox' \in Seq(Messages) /\ link = "open"
      /\ requests \in Seq(Requests)
  BY HeadTailProperties DEF TypeOK
<1>2. requests' \in Seq(Requests)
  <2>1. \A s \in Sessions : [ask |-> "prompt", session |-> s] \in Requests
    BY RequestIs
  <2>2. \A r \in Requests : Append(requests, r) \in Seq(Requests)
    BY <1>1, AppendProperties
  <2> QED BY <1>1, <2>1, <2>2
<1>3. TypeOK'
  BY <1>1, <1>2 DEF TypeOK, DaemonTypeOK, Busy, Received, daemon
<1>4. LinkInv'
  BY <1>1 DEF LinkInv, Received, shell, daemon
<1>5. Shown'
  <2> SUFFICES ASSUME NEW s \in Sessions, WillShow(s)' PROVE MayShow(s)
    BY DEF Shown, MayShow, Closing, Deleting, Received, daemon
  <2>1. \/ Lasts(inbox', Opens(s), Shuts(s))
        \/ loaded' /\ view'[s] = "active" /\ Free(inbox', Shuts(s))
    BY DEF WillShow, Opens, Shuts
  <2>2. /\ Lasts(inbox, Opens(s), Shuts(s)) <=>
             \/ Lasts(inbox', Opens(s), Shuts(s))
             \/ Head(inbox) \in Opens(s) /\ Free(inbox', Shuts(s))
        /\ Free(inbox, Shuts(s)) <=> Head(inbox) \notin Shuts(s) /\ Free(inbox', Shuts(s))
    BY <1>1, LastsTail
  <2>3. WillShow(s)
    BY <2>1, <2>2 DEF WillShow
  <2> QED BY <2>3 DEF Follows, Shown
<1>6. Marked'
  <2> SUFFICES ASSUME NEW s \in Sessions, Sure(s) PROVE WillMark(s)' <=> run[s] = "turn"
    BY DEF Marked, Sure, Closing, Received, daemon
  <2>1. WillMark(s)' <=> \/ Lasts(inbox', Starts(s), Ends(s))
                         \/ running'[s] /\ Free(inbox', Ends(s))
    BY DEF WillMark, Starts, Ends
  <2>2. /\ Lasts(inbox, Starts(s), Ends(s)) <=>
             \/ Lasts(inbox', Starts(s), Ends(s))
             \/ Head(inbox) \in Starts(s) /\ Free(inbox', Ends(s))
        /\ Free(inbox, Ends(s)) <=> Head(inbox) \notin Ends(s) /\ Free(inbox', Ends(s))
    BY <1>1, LastsTail
  <2>3. WillMark(s)' <=> WillMark(s)
    BY <2>1, <2>2 DEF WillMark
  <2> QED BY <2>3 DEF Follows, Marked
<1>7. OfProject'
  BY DEF OfProject, Received, daemon
<1> QED BY <1>3, <1>4, <1>5, <1>6, <1>7 DEF Follows

\* What is known of the message that arrives, and of the window.
LEMMA ArrivesIs ==
    ASSUME WindowInv, NEW tell, Message(tell)
    PROVE  /\ inbox # <<>> /\ inbox' = Tail(inbox)
           /\ Head(inbox) \in Messages /\ Head(inbox).tell = tell
           /\ tell = "listed" => Head(inbox).view \in [Sessions -> {"absent", "idle", "active"}]
           /\ tell \in {"resumed", "created", "turn_started", "turn_ended", "closed"} =>
                 Head(inbox).session \in Sessions
           /\ loaded \in BOOLEAN /\ view \in [Sessions -> {"absent", "idle", "active"}]
           /\ activeCwd \in Cwds \cup {Nothing} /\ active \in Sessions \cup {Nothing}
           /\ draft \in Cwds \cup {Nothing} /\ running \in [Sessions -> BOOLEAN]
<1>1. Head(inbox) \in Messages
  BY HeadTailProperties DEF WindowInv, TypeOK, Message
<1> QED BY <1>1, MessageFields DEF WindowInv, TypeOK, Message

LEMMA ListArrivesFollows ==
    ASSUME WindowInv, ShellTypeOK', ListArrives
    PROVE  WindowInv'
<1>1. Message("listed") /\ Received /\ UNCHANGED <<activeCwd, active, draft, running, requests>>
      /\ view' = Head(inbox).view /\ loaded' = TRUE
  BY DEF ListArrives
<1>2. /\ \A s \in Sessions : view'[s] = "active" => Head(inbox) \in Opens(s)
      /\ \A s \in Sessions : Head(inbox) \notin Starts(s) /\ Head(inbox) \notin Ends(s)
  BY <1>1, ArrivesIs DEF Opens, Starts, Ends
<1> QED BY <1>1, <1>2, ArrivesIs, ReceiveStep

LEMMA ResumedArrivesFollows ==
    ASSUME WindowInv, ShellTypeOK', ResumedArrives
    PROVE  WindowInv'
<1> DEFINE h == Head(inbox)
<1>1. Message("resumed") /\ Received
      /\ UNCHANGED <<loaded, activeCwd, active, draft, running, requests>>
      /\ view' = [view EXCEPT ![h.session] = IF @ = "absent" THEN @ ELSE "active"]
  BY DEF ResumedArrives
<1>2. h \in Messages /\ h.tell = "resumed" /\ h.session \in Sessions
      /\ view \in [Sessions -> {"absent", "idle", "active"}]
  BY <1>1, ArrivesIs
<1> HIDE DEF h
<1>3. /\ view' \in [Sessions -> {"absent", "idle", "active"}]
      /\ \A s \in Sessions : view'[s] = "active" => s = h.session \/ view[s] = "active"
  BY <1>1, <1>2
<1>4. /\ h \in Opens(h.session)
      /\ \A s \in Sessions : h \notin Starts(s) /\ h \notin Ends(s) /\ h \notin Shuts(s)
  BY <1>2 DEF Opens, Starts, Ends, Shuts
<1> QED BY <1>1, <1>3, <1>4, ArrivesIs, ReceiveStep DEF h

LEMMA CreatedArrivesFollows ==
    ASSUME WindowInv, ShellTypeOK', CreatedArrives
    PROVE  WindowInv'
<1> DEFINE h == Head(inbox)
<1>1. Message("created") /\ Received /\ UNCHANGED <<loaded, running>>
      /\ view' = [view EXCEPT ![h.session] = "active"]
      /\ activeCwd' = CwdOf[h.session] /\ active' = h.session /\ draft' = Nothing
      /\ requests' = Append(requests, [ask |-> "prompt", session |-> h.session])
  BY DEF CreatedArrives
<1>2. h \in Messages /\ h.tell = "created" /\ h.session \in Sessions
      /\ view \in [Sessions -> {"absent", "idle", "active"}]
  BY <1>1, ArrivesIs
<1> HIDE DEF h
<1>3. /\ view' \in [Sessions -> {"absent", "idle", "active"}]
      /\ \A s \in Sessions : view'[s] = "active" => s = h.session \/ view[s] = "active"
      /\ activeCwd' \in Cwds \cup {Nothing} /\ active' \in Sessions \cup {Nothing}
      /\ draft' \in Cwds \cup {Nothing}
  BY <1>1, <1>2, DashboardAssumption
<1>4. /\ h \in Opens(h.session)
      /\ \A s \in Sessions : h \notin Starts(s) /\ h \notin Ends(s) /\ h \notin Shuts(s)
  BY <1>2 DEF Opens, Starts, Ends, Shuts
<1>5. loaded' \in BOOLEAN /\ running' \in [Sessions -> BOOLEAN]
  BY <1>1, ArrivesIs
<1>6. inbox # <<>> /\ inbox' = Tail(inbox)
  BY <1>1, ArrivesIs
<1>7. \A s \in Sessions : loaded' /\ view'[s] = "active" =>
              \/ h \in Opens(s)
              \/ loaded /\ view[s] = "active" /\ h \notin Shuts(s)
  BY <1>1, <1>3, <1>4
<1>8. \A s \in Sessions : running'[s] <=> h \in Starts(s) \/ (running[s] /\ h \notin Ends(s))
  BY <1>1, <1>4
<1>9. \E s \in Sessions : requests' = Append(requests, [ask |-> "prompt", session |-> s])
  BY <1>1, <1>2, <1>4
<1> QED BY <1>1, <1>3, <1>5, <1>6, <1>7, <1>8, <1>9, ReceiveStep DEF h

\* A message about a turn touches the running mark of its session only, the end of
\* a session its row too.
LEMMA MarkArrivesFollows ==
    ASSUME WindowInv, ShellTypeOK', TurnStartedArrives \/ TurnEndedArrives \/ ClosedArrives
    PROVE  WindowInv'
<1> DEFINE h == Head(inbox)
<1>1. PICK tell \in {"turn_started", "turn_ended", "closed"} :
        /\ Message(tell) /\ Received /\ UNCHANGED <<loaded, activeCwd, active, draft, requests>>
        /\ running' = [running EXCEPT ![h.session] = (tell = "turn_started")]
        /\ view' = IF tell = "closed"
                   THEN [view EXCEPT ![h.session] = IF @ = "absent" THEN @ ELSE "idle"]
                   ELSE view
  <2>1. CASE TurnStartedArrives
    BY <2>1 DEF TurnStartedArrives
  <2>2. CASE TurnEndedArrives
    BY <2>2 DEF TurnEndedArrives
  <2>3. CASE ClosedArrives
    BY <2>3 DEF ClosedArrives
  <2> QED BY <2>1, <2>2, <2>3
<1>2. h \in Messages /\ h.tell = tell /\ h.session \in Sessions
      /\ view \in [Sessions -> {"absent", "idle", "active"}]
      /\ running \in [Sessions -> BOOLEAN]
  BY <1>1, ArrivesIs
<1> HIDE DEF h
<1>3. /\ view' \in [Sessions -> {"absent", "idle", "active"}]
      /\ \A s \in Sessions : view'[s] = "active" =>
            view[s] = "active" /\ (s = h.session => tell # "closed")
      /\ running' \in [Sessions -> BOOLEAN] /\ running'[h.session] = (tell = "turn_started")
      /\ \A s \in Sessions : s # h.session => running'[s] = running[s]
  BY <1>1, <1>2
<1>4. \A s \in Sessions : /\ h \in Starts(s) <=> tell = "turn_started" /\ s = h.session
                          /\ h \in Ends(s) <=> tell \in {"turn_ended", "closed"} /\ s = h.session
                          /\ h \in Shuts(s) <=> tell = "closed" /\ s = h.session
  BY <1>1, <1>2 DEF Starts, Ends, Shuts
<1>5. inbox # <<>> /\ inbox' = Tail(inbox) /\ loaded' \in BOOLEAN
      /\ activeCwd' \in Cwds \cup {Nothing} /\ active' \in Sessions \cup {Nothing}
      /\ draft' \in Cwds \cup {Nothing}
  BY <1>1, ArrivesIs
<1>6. \A s \in Sessions : loaded' /\ view'[s] = "active" =>
         loaded /\ view[s] = "active" /\ h \notin Shuts(s)
  BY <1>1, <1>3, <1>4
<1>7. ASSUME NEW s \in Sessions
      PROVE  running'[s] <=> h \in Starts(s) \/ (running[s] /\ h \notin Ends(s))
  <2>1. CASE s = h.session
    BY <1>1, <1>3, <1>4, <2>1
  <2>2. CASE s # h.session
    BY <1>3, <1>4, <2>2
  <2> QED BY <2>1, <2>2
<1> QED BY <1>1, <1>3, <1>5, <1>6, <1>7, ReceiveStep DEF h

LEMMA ReceiveFollows ==
    ASSUME WindowInv, ShellTypeOK', Receive
    PROVE  WindowInv'
BY ListArrivesFollows, ResumedArrivesFollows, CreatedArrivesFollows, MarkArrivesFollows
   DEF Receive

-----------------------------------------------------------------------------
(* The user                                                                *)

\* What the user does opens no row by itself.
LEMMA UserStep ==
    ASSUME WindowInv, Used, ShellTypeOK',
           activeCwd' \in Cwds \cup {Nothing},
           active' \in Sessions \cup {Nothing},
           draft' \in Cwds \cup {Nothing},
           view' \in [Sessions -> {"absent", "idle", "active"}],
           \A s \in Sessions : view'[s] = "active" => view[s] = "active",
           \/ requests' = requests
           \/ \E r \in Requests : Ask(r)
    PROVE  WindowInv'
<1> USE DEF WindowInv
<1>1. /\ requests' \in Seq(Requests) /\ requests \in Seq(Requests)
      /\ link # "open" => requests' = <<>>
  <2>1. CASE requests' = requests
    BY <2>1 DEF TypeOK
  <2>2. ASSUME NEW r \in Requests, Ask(r)
        PROVE  requests' \in Seq(Requests) /\ (link # "open" => requests' = <<>>)
    BY <2>2, AskIs
  <2> QED BY <2>1, <2>2 DEF TypeOK
<1>2. TypeOK'
  BY <1>1 DEF TypeOK, DaemonTypeOK, Busy, Used, daemon
<1>3. LinkInv' /\ OfProject'
  BY DEF LinkInv, OfProject, Used, shell, daemon
<1>4. Shown'
  BY DEF Shown, WillShow, Opens, Shuts, MayShow, Closing, Deleting, Follows, Used, daemon
<1>5. Marked'
  BY DEF Marked, WillMark, Starts, Ends, Sure, Closing, Follows, Used, daemon
<1> QED BY <1>2, <1>3, <1>4, <1>5 DEF Follows

LEMMA UserFollows ==
    ASSUME WindowInv, ShellTypeOK', User
    PROVE  WindowInv'
<1>1. /\ activeCwd \in Cwds \cup {Nothing} /\ active \in Sessions \cup {Nothing}
      /\ draft \in Cwds \cup {Nothing}
      /\ view \in [Sessions -> {"absent", "idle", "active"}]
  BY DEF WindowInv, TypeOK
<1>2. /\ \A s \in Sessions : /\ [ask |-> "resume", session |-> s] \in Requests
                             /\ [ask |-> "close", session |-> s] \in Requests
                             /\ [ask |-> "prompt", session |-> s] \in Requests
                             /\ [ask |-> "interrupt", session |-> s] \in Requests
      /\ \A cwd \in Cwds : /\ [ask |-> "create", cwd |-> cwd] \in Requests
                           /\ [ask |-> "delete", cwd |-> cwd] \in Requests
      /\ [ask |-> "list"] \in Requests
  BY RequestIs
<1>3. ASSUME NEW cwd \in Cwds, SwitchWorkspace(cwd) \/ NewSessionDraft(cwd)
      PROVE  WindowInv'
  <2>1. /\ Used /\ UNCHANGED <<view, requests>>
        /\ activeCwd' = cwd /\ active' = Nothing /\ draft' \in Cwds \cup {Nothing}
    BY <1>3 DEF SwitchWorkspace, NewSessionDraft
  <2> QED BY <1>1, <2>1, UserStep
<1>4. ASSUME NEW cwd \in Cwds, DeleteProject(cwd)
      PROVE  WindowInv'
  <2> DEFINE r == [ask |-> "delete", cwd |-> cwd]
  <2>1. /\ Used /\ Ask(r)
        /\ view' = [s \in Sessions |-> IF CwdOf[s] = cwd THEN "absent" ELSE view[s]]
        /\ activeCwd' \in Cwds \cup {Nothing} /\ active' \in Sessions \cup {Nothing}
        /\ draft' \in Cwds \cup {Nothing}
    BY <1>1, <1>4 DEF DeleteProject
  <2>2. r \in Requests
    BY <1>2
  <2> HIDE DEF r
  <2>3. /\ view' \in [Sessions -> {"absent", "idle", "active"}]
        /\ \A s \in Sessions : view'[s] = "active" => view[s] = "active"
    BY <1>1, <2>1
  <2> QED BY <2>1, <2>2, <2>3, UserStep
<1>5. ASSUME NEW s \in Sessions, SwitchSession(s)
      PROVE  WindowInv'
  <2> DEFINE r == [ask |-> "resume", session |-> s]
  <2>1. /\ Used /\ UNCHANGED <<view, activeCwd, draft>> /\ active' = s
        /\ Ask(r) \/ requests' = requests
    BY <1>5 DEF SwitchSession
  <2>2. r \in Requests
    BY <1>2
  <2> HIDE DEF r
  <2> QED BY <1>1, <2>1, <2>2, UserStep
<1>6. ASSUME NEW s \in Sessions, CloseSession(s)
      PROVE  WindowInv'
  <2> DEFINE r == [ask |-> "close", session |-> s]
  <2>1. /\ Used /\ Ask(r) /\ UNCHANGED <<activeCwd, draft>>
        /\ view' = [view EXCEPT ![s] = "absent"]
        /\ active' \in Sessions \cup {Nothing}
    BY <1>1, <1>6 DEF CloseSession
  <2>2. r \in Requests
    BY <1>2
  <2> HIDE DEF r
  <2>3. /\ view' \in [Sessions -> {"absent", "idle", "active"}]
        /\ \A t \in Sessions : view'[t] = "active" => view[t] = "active"
    BY <1>1, <2>1
  <2> QED BY <1>1, <2>1, <2>2, <2>3, UserStep
<1>7. ASSUME SendDraft \/ Send \/ Interrupt \/ Imported
      PROVE  WindowInv'
  <2>1. Used /\ UNCHANGED <<view, activeCwd, active, draft>>
    BY <1>7 DEF SendDraft, Send, Interrupt, Imported
  <2>2. \/ requests' = requests
        \/ \E r \in Requests : Ask(r)
    <3>1. CASE SendDraft
      <4>1. draft \in Cwds /\ Ask([ask |-> "create", cwd |-> draft])
        BY <1>1, <3>1 DEF SendDraft
      <4> QED BY <1>2, <4>1
    <3>2. CASE Send
      BY <1>1, <1>2, <3>2 DEF Send
    <3>3. CASE Interrupt
      <4>1. active \in Sessions /\ Ask([ask |-> "interrupt", session |-> active])
        BY <1>1, <3>3 DEF Interrupt
      <4> QED BY <1>2, <4>1
    <3>4. CASE Imported
      BY <1>2, <3>4 DEF Imported
    <3> QED BY <1>7, <3>1, <3>2, <3>3, <3>4
  <2> QED BY <1>1, <2>1, <2>2, UserStep
<1> QED BY <1>3, <1>4, <1>5, <1>6, <1>7 DEF User

-----------------------------------------------------------------------------
(* The connection and the shell                                            *)

\* The connection breaks: the window keeps its rows, and knows of none any more
\* whether it is open.
LEMMA BreakFollows ==
    ASSUME WindowInv, Disconnected, ShellTypeOK', polling' => polling,
           ~polling, DaemonTypeOK', OfProject', drops' \in 0 .. MaxDrops
    PROVE  WindowInv'
<1>1. TypeOK'
  <2>1. /\ link' = "closed" /\ timer' = TRUE /\ loaded' = FALSE
        /\ requests' \in Seq(Requests) /\ inbox' \in Seq(Messages)
        /\ requests' = <<>> /\ inbox' = <<>>
        /\ UNCHANGED <<view, activeCwd, active, draft, running>>
    BY DEF Disconnected
  <2> QED BY <2>1 DEF WindowInv, TypeOK
<1>2. LinkInv'
  BY DEF LinkInv, Disconnected
<1> QED BY <1>1, <1>2, OfflineFollows DEF WindowInv, Disconnected

LEMMA LinkBreaksFollows ==
    ASSUME WindowInv, ShellTypeOK', LinkBreaks
    PROVE  WindowInv'
<1>1. Disconnected /\ UNCHANGED polling /\ ~polling
  BY DEF LinkBreaks, shell, WindowInv, LinkInv
<1>2. /\ UNCHANGED <<rows, open, run, displaced, closes, unborn, unmarked>>
      /\ resumes' = Unseen
  BY DEF LinkBreaks
<1>3. resumes' \in [Opening -> Resumes \cup {Nothing}]
  <2>1. \A c \in Opening : resumes[c] # Nothing => [resumes[c] EXCEPT !.seen = FALSE] \in Resumes
    BY DaemonTypes, SlotFields DEF Resumes
  <2> QED BY <1>2, <2>1 DEF Unseen
<1>4. fresh' \in [Sessions -> BOOLEAN]
  BY <1>1 DEF Disconnected
<1>5. DaemonTypeOK'
  BY <1>2, <1>3, <1>4, DaemonTypes DEF DaemonTypeOK, Busy
<1>6. OfProject'
  BY <1>2 DEF WindowInv, OfProject
<1>7. drops' \in 0 .. MaxDrops
  BY DashboardAssumption DEF LinkBreaks, WindowInv, TypeOK
<1> QED BY <1>1, <1>5, <1>6, <1>7, BreakFollows

\* A step that leaves a window without a connection.
LEMMA OfflineStep ==
    ASSUME WindowInv, ShellTypeOK', link # "open", link' # "open",
           link' \in {"closed", "opening"}, timer' \in BOOLEAN, timer' => link' = "closed",
           polling' => link' = "closed" /\ ~timer',
           DaemonTypeOK', OfProject',
           UNCHANGED <<loaded, view, activeCwd, active, draft, running, requests, inbox, fresh,
                       drops>>
    PROVE  WindowInv'
<1>1. TypeOK'
  BY DEF WindowInv, TypeOK
<1>2. LinkInv'
  BY DEF WindowInv, LinkInv
<1> QED BY <1>1, <1>2, OfflineFollows DEF WindowInv

LEMMA DaemonEndsFollows ==
    ASSUME WindowInv, ShellTypeOK', polling' => polling, DaemonEnds
    PROVE  WindowInv'
<1>1. /\ open' = {} /\ run' = [s \in Sessions |-> "none"] /\ displaced' = {}
      /\ resumes' = [c \in Opening |-> Nothing] /\ closes' = [c \in Shutting |-> Nothing]
      /\ unmarked' = {} /\ UNCHANGED <<rows, unborn, drops>>
  BY DEF DaemonEnds
<1>2. fresh' \in [Sessions -> BOOLEAN]
  BY DaemonTypes DEF DaemonEnds, Disconnected
<1>3. DaemonTypeOK' /\ OfProject'
  BY <1>1, <1>2, DaemonTypes DEF DaemonTypeOK, OfProject
<1>4. CASE link = "open"
  <2>1. Disconnected /\ ~polling /\ drops' \in 0 .. MaxDrops
    BY <1>1, <1>4 DEF DaemonEnds, WindowInv, LinkInv, TypeOK
  <2> QED BY <1>3, <2>1, BreakFollows
<1>5. CASE link # "open"
  <2>1. UNCHANGED <<ui, requests, inbox, fresh>>
    BY <1>5 DEF DaemonEnds
  <2> QED BY <1>1, <1>3, <1>5, <2>1, OfflineStep DEF ui, WindowInv, TypeOK, LinkInv
<1> QED BY <1>4, <1>5

\* What a step of the window alone leaves to the daemon.
LEMMA DaemonStays ==
    ASSUME WindowInv, UNCHANGED daemon
    PROVE  DaemonTypeOK' /\ OfProject'
BY DaemonTypes DEF WindowInv, DaemonTypeOK, Busy, OfProject, daemon

LEMMA ConnectsFollows ==
    ASSUME WindowInv, ShellTypeOK', Connects
    PROVE  WindowInv'
<1>1. /\ UNCHANGED <<shell, timer, loaded, view, activeCwd, active, draft, running, inbox,
                     daemon, drops>>
      /\ link = "opening" /\ link' = "open"
      /\ requests' = <<[ask |-> "list"]>>
  BY DEF Connects
<1>2. /\ requests = <<>> /\ inbox = <<>> /\ ~loaded /\ ~timer /\ ~polling
      /\ \A s \in Sessions : ~fresh[s]
  BY <1>1 DEF WindowInv, TypeOK, LinkInv
<1>3. requests' \in Seq(Requests)
  BY <1>1, RequestIs
<1>4. DaemonTypeOK' /\ OfProject' /\ UNCHANGED fresh
  BY <1>1, DaemonStays DEF daemon
<1>5. TypeOK'
  BY <1>1, <1>3, <1>4 DEF WindowInv, TypeOK
<1>6. LinkInv'
  BY <1>1, <1>2, <1>4 DEF WindowInv, LinkInv, shell
<1>7. Shown' /\ Marked'
  BY <1>1, <1>2, <1>4, LastsShort DEF Shown, Marked, WillShow, Sure
<1> QED BY <1>4, <1>5, <1>6, <1>7 DEF WindowInv, Follows

LEMMA ConnectionFollows ==
    ASSUME WindowInv, ShellTypeOK', Connection
    PROVE  WindowInv'
<1>1. ASSUME WindowOpens \/ TimerFires \/ ConnectFails
      PROVE  DaemonTypeOK' /\ OfProject' /\ UNCHANGED fresh
  <2>1. UNCHANGED daemon
    BY <1>1 DEF WindowOpens, TimerFires, ConnectFails
  <2> QED BY <2>1, DaemonStays DEF daemon
<1>2. CASE WindowOpens
  <2>1. /\ link' = "opening" /\ ~polling'
        /\ UNCHANGED <<timer, loaded, view, activeCwd, active, draft, running, requests,
                       inbox, drops>>
    BY <1>2 DEF WindowOpens, PortAnswers
  <2>2. link # "open" /\ ~timer /\ timer \in BOOLEAN
    BY <1>2 DEF WindowOpens, PortAnswers, WindowInv, LinkInv, TypeOK
  <2>3. DaemonTypeOK' /\ OfProject' /\ UNCHANGED fresh
    BY <1>1, <1>2
  <2>4. link' # "open" /\ link' \in {"closed", "opening"}
    BY <2>1
  <2>5. timer' \in BOOLEAN /\ (timer' => link' = "closed")
    BY <2>1, <2>2
  <2>6. polling' => link' = "closed" /\ ~timer'
    BY <2>1
  <2> QED BY <2>1, <2>2, <2>3, <2>4, <2>5, <2>6, OfflineStep
<1>3. CASE TimerFires
  BY <1>1, <1>3, OfflineStep DEF TimerFires, shell, WindowInv, LinkInv, TypeOK
<1>4. CASE ConnectFails
  BY <1>1, <1>4, OfflineStep DEF ConnectFails, shell, WindowInv, LinkInv, TypeOK
<1> QED BY <1>2, <1>3, <1>4, LinkBreaksFollows, ConnectsFollows DEF Connection

LEMMA StutterFollows ==
    ASSUME WindowInv, ShellTypeOK', polling' => polling,
           UNCHANGED <<ui, requests, inbox, daemon, drops>>
    PROVE  WindowInv'
<1>1. DaemonTypeOK' /\ OfProject'
  BY DaemonStays
<1>2. TypeOK' /\ LinkInv'
  BY <1>1 DEF WindowInv, TypeOK, LinkInv, ui, daemon
<1>3. Shown'
  BY DEF WindowInv, Follows, Shown, WillShow, Opens, Shuts, MayShow, Closing, Deleting, ui,
         daemon
<1>4. Marked'
  BY DEF WindowInv, Follows, Marked, WillMark, Starts, Ends, Sure, Closing, ui, daemon
<1> QED BY <1>1, <1>2, <1>3, <1>4 DEF WindowInv, Follows

\* The window goes with the shell.
LEMMA ShellFollows ==
    ASSUME WindowInv, ShellTypeOK', polling' => polling, Shell
    PROVE  WindowInv'
<1>1. UNCHANGED <<rows, open, run, displaced, resumes, closes, unborn, unmarked, drops>>
  BY DEF Shell
<1>2. CASE app' = "exited"
  <2>1. WindowGoes
    BY <1>2 DEF Shell
  <2>2. /\ link' = "closed" /\ timer' = FALSE /\ loaded' = FALSE
        /\ view' \in [Sessions -> {"absent", "idle", "active"}]
        /\ activeCwd' = Nothing /\ active' = Nothing /\ draft' = Nothing
        /\ running' \in [Sessions -> BOOLEAN] /\ fresh' \in [Sessions -> BOOLEAN]
        /\ requests' \in Seq(Requests) /\ inbox' \in Seq(Messages)
        /\ requests' = <<>> /\ inbox' = <<>>
    BY <2>1 DEF WindowGoes
  <2>3. DaemonTypeOK' /\ OfProject'
    BY <1>1, <2>2, DaemonTypes DEF WindowInv, DaemonTypeOK, Busy, OfProject
  <2>4. TypeOK'
    BY <1>1, <2>2, <2>3 DEF WindowInv, TypeOK
  <2>5. LinkInv'
    BY <2>1 DEF LinkInv, WindowGoes
  <2> QED BY <2>2, <2>3, <2>4, <2>5, OfflineFollows DEF WindowInv
<1>3. CASE app' # "exited"
  BY <1>1, <1>3, StutterFollows DEF Shell, daemon
<1> QED BY <1>2, <1>3

LEMMA WindowStep ==
    ASSUME ShellInv, WindowInv, [Next]_vars
    PROVE  WindowInv'
<1>1. ShellTypeOK' /\ (polling' => polling)
  BY StepOfShell, ShellStep, PollsOnce DEF ShellInv
<1>2. CASE UNCHANGED vars
  BY <1>1, <1>2, StutterFollows DEF vars
<1> QED BY <1>1, <1>2, ShellFollows, DaemonEndsFollows, ConnectionFollows, DaemonFollows,
           ReceiveFollows, UserFollows DEF Next

LEMMA WindowStarts == Init => WindowInv
<1> SUFFICES ASSUME Init PROVE WindowInv
  OBVIOUS
<1>1. DaemonTypeOK /\ OfProject
  BY DashboardAssumption DEF Init, DaemonTypeOK, Busy, OfProject
<1>2. TypeOK
  <2>1. /\ ShellTypeOK
        /\ link = "closed" /\ timer = FALSE /\ loaded = FALSE
        /\ activeCwd = Nothing /\ active = Nothing /\ draft = Nothing
    BY DEF Init, ShellInit, ShellTypeOK
  <2>2. /\ view \in [Sessions -> {"absent", "idle", "active"}]
        /\ running \in [Sessions -> BOOLEAN]
    BY DEF Init
  <2>3. /\ requests \in Seq(Requests) /\ inbox \in Seq(Messages)
        /\ requests = <<>> /\ inbox = <<>> /\ drops \in 0 .. MaxDrops
    BY DashboardAssumption DEF Init
  <2> QED BY <1>1, <2>1, <2>2, <2>3 DEF TypeOK
<1>3. LinkInv
  BY DEF Init, LinkInv
<1>4. Shown /\ Marked
  BY LastsShort DEF Init, Shown, Marked, WillShow, Sure
<1> QED BY <1>1, <1>2, <1>3, <1>4 DEF WindowInv, Follows

\* The state of the dashboard keeps its type, however the shell, the connection,
\* the daemon and the user take turns.
THEOREM TypeCorrect == Spec => []TypeOK
<1>1. ShellInv /\ WindowInv /\ [Next]_vars => ShellInv' /\ WindowInv'
  BY StepOfShell, ShellStep, WindowStep
<1>2. WindowInv => TypeOK
  BY DEF WindowInv
<1> QED BY <1>1, <1>2, ShellStarts, WindowStarts, PTL DEF Spec

\* Once everything that was pushed has arrived, the window of App.tsx marks a
\* session as open only when it is open, is being closed, or its row was or is being
\* deleted; and a session whose turn began over this connection as running exactly
\* while its turn runs, unless it is being closed or the end of a closed agent was
\* told during the turn of another one: for any sessions and projects, however many
\* requests, messages, resumes, closes and deletions are under way.
THEOREM ViewTracksAlways == Spec => []ViewTracks
<1>1. ShellInv /\ WindowInv /\ [Next]_vars => ShellInv' /\ WindowInv'
  BY StepOfShell, ShellStep, WindowStep
<1>2. WindowInv => ViewTracks
  <2> SUFFICES ASSUME WindowInv, loaded, inbox = <<>>, NEW s \in Sessions
               PROVE  /\ view[s] = "active" => MayShow(s)
                      /\ Sure(s) => (running[s] <=> run[s] = "turn")
    BY DEF ViewTracks
  <2>1. /\ ~Lasts(inbox, Opens(s), Shuts(s)) /\ Free(inbox, Shuts(s))
        /\ ~Lasts(inbox, Starts(s), Ends(s)) /\ Free(inbox, Ends(s))
    BY LastsShort
  <2> QED BY <2>1 DEF WindowInv, Follows, Shown, Marked, WillShow, WillMark
<1> QED BY <1>1, <1>2, ShellStarts, WindowStarts, PTL DEF Spec

=============================================================================
