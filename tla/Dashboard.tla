------------------------------ MODULE Dashboard ------------------------------
(***************************************************************************)
(* The view of one window: the list of sessions, the selection and the     *)
(* running marks of App.tsx, its connection and the requests under way     *)
(* (ws.ts), against a daemon that answers and pushes over one ordered      *)
(* socket (ws-server.ts), under the shell of module Desktop.               *)
(*                                                                         *)
(* Sessions are abstracted to where they are; which of two sessions comes  *)
(* first in the list is a constant.  AgentManager models what the daemon   *)
(* does with a request; here it is the order of its pushes and replies.    *)
(***************************************************************************)
EXTENDS Desktop, Naturals, Sequences

CONSTANTS
    Sessions,
    Cwds,
    CwdOf,          \* Sessions -> Cwds
    Rank,           \* Sessions -> Nat, the order of the list
    Kept,           \* the sessions in the library from the start
    Nothing,
    Opening, Shutting,  \* bound the resumes, and the closes and deletions, that are
                    \* awaited at once
    MaxQueue,       \* bounds the requests, and the messages, under way
    MaxDrops        \* bounds the breaks of the connection

\* A resume that is awaited; its answer may have lost its connection.
Resumes == [session : Sessions, seen : BOOLEAN]

\* The session that is being closed; of a deletion, its project and those after it.
Closes == [session : Sessions, cwd : Cwds \cup {Nothing}, todo : SUBSET Sessions]

ASSUME DashboardAssumption ==
    /\ CwdOf \in [Sessions -> Cwds] /\ Rank \in [Sessions -> Nat]
    /\ \A s, t \in Sessions : Rank[s] = Rank[t] => s = t
    /\ Kept \subseteq Sessions
    /\ Nothing \notin Sessions \cup Cwds \cup Resumes \cup Closes
    /\ MaxQueue \in Nat /\ MaxDrops \in Nat

VARIABLES
    link,       \* the socket: "closed", "opening" or "open"
    timer,      \* the reconnect timer is set
    loaded,     \* the list has been loaded over this connection
    view,       \* per session: "absent" from the list, or "idle" or "active" in it
    activeCwd, active, draft,   \* the selection, or Nothing
    running,    \* per session: its running mark
    requests,   \* what the daemon has not dispatched yet
    inbox,      \* what the window has not received yet
    rows,       \* daemon: the sessions with a row in the library
    open,       \* daemon: the sessions in its map
    run,        \* daemon, per session: "none", "asked" (a prompt was accepted),
                \* "turn" (turn_started is out) or "left" (the prompt of an agent
                \* that was closed is not settled)
    displaced,  \* daemon: the sessions whose run is that of an agent which a
                \* second resume has put out of the map
    resumes,    \* daemon: the resumes it awaits, or Nothing
    closes,     \* daemon: the closes and deletions it awaits, or Nothing
    unborn,     \* the sessions that were never created
    unmarked,   \* history: the end of an earlier agent was told during the turn
    fresh,      \* history: the last turn began over this connection
    drops       \* how often the connection broke

ui == <<link, timer, loaded, view, activeCwd, active, draft, running>>

daemon == <<rows, open, run, displaced, resumes, closes, unborn, unmarked, fresh>>

vars == <<shell, ui, requests, inbox, daemon, drops>>

-----------------------------------------------------------------------------
(* What is shown                                                           *)

Listed == {s \in Sessions : view[s] # "absent"}

First(ids) == CHOOSE s \in ids : \A t \in ids : Rank[s] <= Rank[t]

Under(cwd) == {s \in Listed : CwdOf[s] = cwd}

\* The workspace shown: the active one, else the first.
ActiveWorkspace ==
    IF activeCwd # Nothing THEN activeCwd
    ELSE IF Listed = {} THEN Nothing ELSE CwdOf[First(Listed)]

\* The session shown.
EffectiveSession ==
    IF draft # Nothing \/ ActiveWorkspace = Nothing \/ Under(ActiveWorkspace) = {}
    THEN Nothing
    ELSE IF active \in Under(ActiveWorkspace) THEN active
    ELSE First(Under(ActiveWorkspace))

-----------------------------------------------------------------------------
Requests ==
    [ask : {"list"}] \cup
    [ask : {"resume", "prompt", "interrupt", "close"}, session : Sessions] \cup
    [ask : {"create", "delete"}, cwd : Cwds]

Messages ==
    [tell : {"listed"}, view : [Sessions -> {"absent", "idle", "active"}]] \cup
    [tell : {"resumed", "created", "turn_started", "turn_ended", "closed"},
     session : Sessions]

\* The sessions with a prompt that an agent works on.
Busy == {s \in Sessions : run[s] \in {"asked", "turn"}}

DaemonTypeOK ==
    /\ rows \subseteq Sessions /\ open \subseteq Sessions
    /\ run \in [Sessions -> {"none", "asked", "turn", "left"}]
    /\ displaced \subseteq Busy
    /\ resumes \in [Opening -> Resumes \cup {Nothing}]
    /\ closes \in [Shutting -> Closes \cup {Nothing}]
    /\ unborn \subseteq Sessions
    /\ unmarked \subseteq {s \in Sessions : run[s] = "turn"}
    /\ fresh \in [Sessions -> BOOLEAN]

TypeOK ==
    /\ ShellTypeOK
    /\ link \in {"closed", "opening", "open"}
    /\ timer \in BOOLEAN
    /\ loaded \in BOOLEAN
    /\ view \in [Sessions -> {"absent", "idle", "active"}]
    /\ activeCwd \in Cwds \cup {Nothing}
    /\ active \in Sessions \cup {Nothing}
    /\ draft \in Cwds \cup {Nothing}
    /\ running \in [Sessions -> BOOLEAN]
    /\ requests \in Seq(Requests)
    /\ inbox \in Seq(Messages)
    /\ DaemonTypeOK
    /\ drops \in 0 .. MaxDrops
    /\ link # "open" => requests = <<>> /\ inbox = <<>>

Init ==
    /\ ShellInit
    /\ link = "closed" /\ timer = FALSE /\ loaded = FALSE
    /\ view = [s \in Sessions |-> "absent"]
    /\ activeCwd = Nothing /\ active = Nothing /\ draft = Nothing
    /\ running = [s \in Sessions |-> FALSE]
    /\ requests = <<>> /\ inbox = <<>>
    /\ rows = Kept /\ open = {}
    /\ run = [s \in Sessions |-> "none"] /\ displaced = {}
    /\ resumes = [c \in Opening |-> Nothing]
    /\ closes = [c \in Shutting |-> Nothing]
    /\ unborn = Sessions \ Kept
    /\ unmarked = {}
    /\ fresh = [s \in Sessions |-> FALSE]
    /\ drops = 0

-----------------------------------------------------------------------------
(* The connection                                                          *)

\* A request goes out, or is rejected at once.
Ask(r) ==
    IF link = "open" THEN Len(requests) < MaxQueue /\ requests' = Append(requests, r)
    ELSE UNCHANGED requests

\* Pushes and replies reach the window that is connected, in order.
Tell(messages) ==
    inbox' = IF link = "open" THEN inbox \o messages ELSE inbox

\* Variant: nobody reconnects when an established connection breaks.
GoneForGood ==
    /\ link' = "closed" /\ loaded' = FALSE
    /\ requests' = <<>> /\ inbox' = <<>>
    /\ fresh' = [s \in Sessions |-> FALSE]
    /\ UNCHANGED <<timer, view, activeCwd, active, draft, running>>

\* Variant: the requests under way are not rejected.
PendingKept ==
    /\ link' = "closed" /\ timer' = TRUE /\ loaded' = FALSE
    /\ inbox' = <<>>
    /\ fresh' = [s \in Sessions |-> FALSE]
    /\ UNCHANGED <<view, activeCwd, active, draft, running, requests>>

\* onclose: what is under way is lost, and the one timer is set.
Disconnected ==
    /\ link' = "closed" /\ timer' = TRUE /\ loaded' = FALSE
    /\ requests' = <<>> /\ inbox' = <<>>
    /\ fresh' = [s \in Sessions |-> FALSE]
    /\ UNCHANGED <<view, activeCwd, active, draft, running>>

\* A resume asked for over a connection that broke goes on, and its answer is lost.
Unseen ==
    [c \in Opening |-> IF resumes[c] = Nothing THEN Nothing
                      ELSE [resumes[c] EXCEPT !.seen = FALSE]]

\* The network, or a daemon that was told to end, closes the socket.
LinkBreaks ==
    /\ link = "open"
    /\ \/ drops < MaxDrops /\ drops' = drops + 1
       \/ child = "told" /\ UNCHANGED drops
    /\ Disconnected
    /\ resumes' = Unseen
    /\ UNCHANGED <<shell, rows, open, run, displaced, closes, unborn, unmarked>>

\* The daemon is gone, its sessions with it; their rows stay.
DaemonEnds ==
    /\ DaemonGoes
    /\ open' = {} /\ run' = [s \in Sessions |-> "none"] /\ displaced' = {}
    /\ resumes' = [c \in Opening |-> Nothing]
    /\ closes' = [c \in Shutting |-> Nothing]
    /\ unmarked' = {}
    /\ IF link = "open" THEN Disconnected
       ELSE UNCHANGED <<ui, requests, inbox, fresh>>
    /\ UNCHANGED <<rows, unborn, drops>>

\* The window opens, and connects.
WindowOpens ==
    /\ PortAnswers
    /\ link' = "opening"
    /\ UNCHANGED <<timer, loaded, view, activeCwd, active, draft, running, requests, inbox,
                   daemon, drops>>

TimerFires ==
    /\ app \in {"up", "cleaning"} /\ timer
    /\ timer' = FALSE /\ link' = "opening"
    /\ UNCHANGED <<shell, loaded, view, activeCwd, active, draft, running, requests, inbox,
                   daemon, drops>>

\* The list is asked for as soon as the socket is open.
Connects ==
    /\ app \in {"up", "cleaning"} /\ link = "opening" /\ child = "listening"
    /\ link' = "open"
    /\ requests' = <<[ask |-> "list"]>>
    /\ UNCHANGED <<shell, timer, loaded, view, activeCwd, active, draft, running, inbox,
                   daemon, drops>>

\* Nobody listens, or somebody else who does not know the token.
ConnectFails ==
    /\ app \in {"up", "cleaning"} /\ link = "opening" /\ child # "listening"
    /\ link' = "closed" /\ timer' = TRUE
    /\ UNCHANGED <<shell, loaded, view, activeCwd, active, draft, running, requests, inbox,
                   daemon, drops>>

-----------------------------------------------------------------------------
(* The daemon                                                              *)

Serving == child = "listening" /\ Len(inbox) < MaxQueue

Served == UNCHANGED <<shell, ui, drops>>

Dispatch(r) == requests # <<>> /\ Head(requests) = r /\ requests' = Tail(requests)

Ended(s) == [tell |-> "turn_ended", session |-> s]
Closed(s) == [tell |-> "closed", session |-> s]

\* An end is told of those sessions: where the turn of another agent of the session
\* goes on, it loses its mark.
Unmark(ids) == unmarked' = {s \in unmarked \cup ids : run'[s] = "turn"}

\* sessions.list: which rows there are, and which sessions are open now.
DoList ==
    /\ Serving /\ Dispatch([ask |-> "list"])
    /\ Tell(<<[tell |-> "listed",
               view |-> [s \in Sessions |-> IF s \notin rows THEN "absent"
                                            ELSE IF s \in open THEN "active" ELSE "idle"]]>>)
    /\ UNCHANGED daemon /\ Served

\* session.resume: the row is looked up, whatever is open, and the agent awaited;
\* a row without a handle cannot be resumed.
DoResume(s) ==
    /\ Serving /\ Dispatch([ask |-> "resume", session |-> s])
    /\ \/ /\ s \in rows
          /\ \E c \in Opening :
                /\ resumes[c] = Nothing
                /\ resumes' = [resumes EXCEPT ![c] = [session |-> s, seen |-> TRUE]]
       \/ UNCHANGED resumes
    /\ UNCHANGED <<inbox, rows, open, run, displaced, closes, unborn, unmarked, fresh>> /\ Served

\* The row is written again, and the agent takes the place of one that is open; or
\* an error.  The answer goes to the connection the request came over.
ResumeEnds(c) ==
    LET s == resumes[c].session
    IN  /\ Serving /\ resumes[c] # Nothing
        /\ resumes' = [resumes EXCEPT ![c] = Nothing]
        /\ \/ /\ rows' = rows \cup {s} /\ open' = open \cup {s}
              /\ displaced' = displaced \cup ({s} \cap Busy)
              /\ Tell(IF resumes[c].seen THEN <<[tell |-> "resumed", session |-> s]>> ELSE <<>>)
           \/ UNCHANGED <<inbox, rows, open, displaced>>
        /\ UNCHANGED <<requests, run, closes, unborn, unmarked, fresh>> /\ Served

\* agent.create: a new session of the project, or an error.
DoCreate(cwd) ==
    /\ Serving /\ Dispatch([ask |-> "create", cwd |-> cwd])
    /\ \/ \E s \in unborn :
            /\ CwdOf[s] = cwd
            /\ unborn' = unborn \ {s}
            /\ rows' = rows \cup {s} /\ open' = open \cup {s}
            /\ Tell(<<[tell |-> "created", session |-> s]>>)
       \/ UNCHANGED <<inbox, unborn, rows, open>>
    /\ UNCHANGED <<run, displaced, resumes, closes, unmarked, fresh>> /\ Served

\* agent.prompt: refused without an open session, or while a prompt is under way.
DoPrompt(s) ==
    /\ Serving /\ Dispatch([ask |-> "prompt", session |-> s])
    /\ run' = IF s \in open /\ run[s] = "none" THEN [run EXCEPT ![s] = "asked"] ELSE run
    /\ UNCHANGED <<inbox, rows, open, displaced, resumes, closes, unborn, unmarked, fresh>>
    /\ Served

TurnStarts(s) ==
    /\ Serving /\ run[s] = "asked"
    /\ run' = [run EXCEPT ![s] = "turn"]
    /\ Tell(<<[tell |-> "turn_started", session |-> s]>>)
    /\ fresh' = [fresh EXCEPT ![s] = (link = "open")]
    /\ UNCHANGED <<requests, rows, open, displaced, resumes, closes, unborn, unmarked>> /\ Served

\* turn_completed, turn_failed or turn_canceled; or an error, and no turn.
TurnEnds(s) ==
    /\ Serving /\ s \in Busy
    /\ run' = [run EXCEPT ![s] = "none"]
    /\ displaced' = displaced \ {s} /\ Unmark({})
    /\ Tell(IF run[s] = "turn" THEN <<Ended(s)>> ELSE <<>>)
    /\ UNCHANGED <<requests, rows, open, resumes, closes, unborn, fresh>> /\ Served

\* The prompt of an agent that was closed settles, if it does; its end may be told
\* only now.
LeftSettles(s) ==
    /\ Serving /\ run[s] = "left"
    /\ run' = [run EXCEPT ![s] = "none"]
    /\ UNCHANGED inbox \/ Tell(<<Ended(s)>>)
    /\ UNCHANGED <<requests, rows, open, displaced, resumes, closes, unborn, unmarked, fresh>>
    /\ Served

\* The agent ends the turn later, if it does.
DoInterrupt(s) ==
    /\ Serving /\ Dispatch([ask |-> "interrupt", session |-> s])
    /\ UNCHANGED <<inbox, daemon>> /\ Served

\* closeSession up to its await, after what was told before: the session leaves the
\* map, and its agent ends the turn; an interrupt under way may keep it from that.
LetGo(s, before) ==
    /\ open' = open \ {s}
    /\ IF s \in Busy \ displaced
       THEN /\ run' = [run EXCEPT ![s] = "left"]
            /\ Tell(before) \/ Tell(before \o <<Ended(s)>>)
       ELSE UNCHANGED run /\ Tell(before)

\* agent.close: of a session that is not open, agent.closed goes out at once.
DoClose(s) ==
    /\ Serving /\ Dispatch([ask |-> "close", session |-> s])
    /\ IF s \in open
       THEN /\ \E c \in Shutting :
                  /\ closes[c] = Nothing
                  /\ closes' = [closes EXCEPT ![c] =
                                  [session |-> s, cwd |-> Nothing, todo |-> {}]]
            /\ LetGo(s, <<>>) /\ Unmark({})
       ELSE UNCHANGED <<closes, open, run>> /\ Tell(<<Closed(s)>>) /\ Unmark({s})
    /\ UNCHANGED <<rows, displaced, resumes, unborn, fresh>> /\ Served

\* The agent is closed: turn_canceled, then agent.closed.
CloseEnds(c) ==
    LET s == closes[c].session
    IN  /\ Serving /\ closes[c] # Nothing /\ closes[c].cwd = Nothing
        /\ closes' = [closes EXCEPT ![c] = Nothing]
        /\ UNCHANGED <<requests, rows, open, run, displaced, resumes, unborn, fresh>> /\ Served
        /\ Tell(<<Ended(s), Closed(s)>>) /\ Unmark({s})

\* The loop of deleteProject: the next session that is open and has a row is closed
\* and awaited; after the last the rows go, and no agent.closed goes out.
DeleteFrom(c, cwd, todo, before) ==
    LET left == todo \cap open \cap rows
    IN  \/ \E s \in left :
             /\ closes' = [closes EXCEPT ![c] = [session |-> s, cwd |-> cwd, todo |-> todo \ {s}]]
             /\ LetGo(s, before)
             /\ UNCHANGED rows
        \/ /\ left = {}
           /\ closes' = [closes EXCEPT ![c] = Nothing]
           /\ rows' = {s \in rows : CwdOf[s] # cwd}
           /\ Tell(before)
           /\ UNCHANGED <<open, run>>

\* sessions.deleteProject: the sessions open now are gone through.
DoDelete(cwd) ==
    /\ Serving /\ Dispatch([ask |-> "delete", cwd |-> cwd])
    /\ \E c \in Shutting :
          /\ closes[c] = Nothing
          /\ DeleteFrom(c, cwd, {s \in open : CwdOf[s] = cwd}, <<>>) /\ Unmark({})
    /\ UNCHANGED <<displaced, resumes, unborn, fresh>> /\ Served

DeleteGoesOn(c) ==
    LET s == closes[c].session
    IN  /\ Serving /\ closes[c] # Nothing /\ closes[c].cwd # Nothing
        /\ DeleteFrom(c, closes[c].cwd, closes[c].todo, <<Ended(s)>>) /\ Unmark({s})
        /\ UNCHANGED <<requests, displaced, resumes, unborn, fresh>> /\ Served

-----------------------------------------------------------------------------
(* The window receives                                                     *)

Received == UNCHANGED <<shell, link, timer, daemon, drops>>

Message(tell) == inbox # <<>> /\ Head(inbox).tell = tell /\ inbox' = Tail(inbox)

ListArrives ==
    /\ Message("listed")
    /\ view' = Head(inbox).view /\ loaded' = TRUE
    /\ UNCHANGED <<activeCwd, active, draft, running, requests>> /\ Received

\* The row is replaced where it still is.
ResumedArrives ==
    /\ Message("resumed")
    /\ view' = [view EXCEPT ![Head(inbox).session] = IF @ = "absent" THEN @ ELSE "active"]
    /\ UNCHANGED <<loaded, activeCwd, active, draft, running, requests>> /\ Received

\* handleCreated, then the message of the draft is prompted.
CreatedArrives ==
    LET s == Head(inbox).session
    IN  /\ Message("created")
        /\ view' = [view EXCEPT ![s] = "active"]
        /\ activeCwd' = CwdOf[s] /\ active' = s /\ draft' = Nothing
        /\ requests' = Append(requests, [ask |-> "prompt", session |-> s])
        /\ UNCHANGED <<loaded, running>> /\ Received

\* applyEvent
TurnStartedArrives ==
    /\ Message("turn_started")
    /\ running' = [running EXCEPT ![Head(inbox).session] = TRUE]
    /\ UNCHANGED <<loaded, view, activeCwd, active, draft, requests>> /\ Received

TurnEndedArrives ==
    /\ Message("turn_ended")
    /\ running' = [running EXCEPT ![Head(inbox).session] = FALSE]
    /\ UNCHANGED <<loaded, view, activeCwd, active, draft, requests>> /\ Received

\* Variant: the row is not marked.
ClosedUnmarked ==
    /\ Message("closed")
    /\ running' = [running EXCEPT ![Head(inbox).session] = FALSE]
    /\ UNCHANGED <<loaded, view, activeCwd, active, draft, requests>> /\ Received

ClosedArrives ==
    /\ Message("closed")
    /\ running' = [running EXCEPT ![Head(inbox).session] = FALSE]
    /\ view' = [view EXCEPT ![Head(inbox).session] = IF @ = "absent" THEN @ ELSE "idle"]
    /\ UNCHANGED <<loaded, activeCwd, active, draft, requests>> /\ Received

-----------------------------------------------------------------------------
(* The user                                                                *)

Using == app = "up"

Used == UNCHANGED <<shell, link, timer, loaded, running, inbox, daemon, drops>>

SwitchWorkspace(cwd) ==
    /\ Using /\ Under(cwd) # {}
    /\ activeCwd' = cwd /\ active' = Nothing /\ draft' = Nothing
    /\ UNCHANGED <<view, requests>> /\ Used

\* A row of any expanded project: the project does not become the active one.
SwitchSession(s) ==
    /\ Using /\ view[s] # "absent"
    /\ active' = s
    /\ IF view[s] = "idle" THEN Ask([ask |-> "resume", session |-> s]) ELSE UNCHANGED requests
    /\ UNCHANGED <<view, activeCwd, draft>> /\ Used

CloseSession(s) ==
    /\ Using /\ view[s] # "absent"
    /\ view' = [view EXCEPT ![s] = "absent"]
    /\ active' = IF active = s THEN Nothing ELSE active
    /\ Ask([ask |-> "close", session |-> s])
    /\ UNCHANGED <<activeCwd, draft>> /\ Used

DeleteProject(cwd) ==
    /\ Using /\ Under(cwd) # {}
    /\ view' = [s \in Sessions |-> IF CwdOf[s] = cwd THEN "absent" ELSE view[s]]
    /\ IF ActiveWorkspace = cwd
       THEN activeCwd' = Nothing /\ active' = Nothing /\ draft' = Nothing
       ELSE UNCHANGED <<activeCwd, active, draft>>
    /\ Ask([ask |-> "delete", cwd |-> cwd])
    /\ Used

\* A second click on the same project takes the draft back.
NewSessionDraft(cwd) ==
    /\ Using
    /\ activeCwd' = cwd /\ active' = Nothing
    /\ draft' = IF draft = cwd THEN Nothing ELSE cwd
    /\ UNCHANGED <<view, requests>> /\ Used

\* The composer, with a draft: the session is created first.
SendDraft ==
    /\ Using /\ draft # Nothing
    /\ Ask([ask |-> "create", cwd |-> draft])
    /\ UNCHANGED <<view, activeCwd, active, draft>> /\ Used

\* The composer, under the session shown: the message goes to the active one,
\* or nowhere.
Send ==
    /\ Using /\ EffectiveSession # Nothing /\ ~running[EffectiveSession]
    /\ IF active # Nothing THEN Ask([ask |-> "prompt", session |-> active])
       ELSE UNCHANGED requests
    /\ UNCHANGED <<view, activeCwd, active, draft>> /\ Used

Interrupt ==
    /\ Using /\ EffectiveSession # Nothing /\ running[EffectiveSession]
    /\ active # Nothing
    /\ Ask([ask |-> "interrupt", session |-> active])
    /\ UNCHANGED <<view, activeCwd, active, draft>> /\ Used

\* An import is through: the list is loaded again.
Imported ==
    /\ Using /\ link = "open"
    /\ Ask([ask |-> "list"])
    /\ UNCHANGED <<view, activeCwd, active, draft>> /\ Used

-----------------------------------------------------------------------------
\* With the shell its window goes.
WindowGoes ==
    /\ link' = "closed" /\ timer' = FALSE /\ loaded' = FALSE
    /\ view' = [s \in Sessions |-> "absent"]
    /\ activeCwd' = Nothing /\ active' = Nothing /\ draft' = Nothing
    /\ running' = [s \in Sessions |-> FALSE]
    /\ requests' = <<>> /\ inbox' = <<>>
    /\ fresh' = [s \in Sessions |-> FALSE]

Shell ==
    /\ \/ ChildListens \/ PortFreed \/ PollProbes \/ ProbeFails \/ PollFindsNoChild
       \/ PollTimesOut
       \/ Quit \/ QuitAgain \/ CleanedUp
    /\ IF app' = "exited"
       THEN WindowGoes
       ELSE UNCHANGED <<ui, requests, inbox, fresh>>
    /\ UNCHANGED <<rows, open, run, displaced, resumes, closes, unborn, unmarked, drops>>

Connection == LinkBreaks \/ WindowOpens \/ TimerFires \/ Connects \/ ConnectFails

Daemon ==
    \/ DoList \/ \E cwd \in Cwds : DoCreate(cwd) \/ DoDelete(cwd)
    \/ \E s \in Sessions :
          \/ DoResume(s) \/ DoPrompt(s) \/ DoInterrupt(s) \/ DoClose(s)
          \/ TurnStarts(s) \/ TurnEnds(s) \/ LeftSettles(s)
    \/ \E c \in Opening : ResumeEnds(c)
    \/ \E c \in Shutting : CloseEnds(c) \/ DeleteGoesOn(c)

Receive ==
    \/ ListArrives \/ ResumedArrives \/ CreatedArrives \/ TurnStartedArrives
    \/ TurnEndedArrives \/ ClosedArrives

User ==
    \/ \E cwd \in Cwds : SwitchWorkspace(cwd) \/ DeleteProject(cwd) \/ NewSessionDraft(cwd)
    \/ \E s \in Sessions : SwitchSession(s) \/ CloseSession(s)
    \/ SendDraft \/ Send \/ Interrupt \/ Imported

Next == Shell \/ DaemonEnds \/ Connection \/ Daemon \/ Receive \/ User

\* The event loops of the window and of the daemon take what is there to take,
\* and the timer fires; the user and the agents may do nothing.
Fairness ==
    /\ WF_vars(TimerFires \/ Connects \/ ConnectFails)
    /\ WF_vars(Receive)
    /\ WF_vars(requests # <<>> /\ Daemon)

Spec == Init /\ [][Next]_vars /\ Fairness

-----------------------------------------------------------------------------
(* Properties                                                              *)

\* The session's agent is being closed; a deletion of its project is under way.
Closing(s) == \E c \in Shutting : closes[c] # Nothing /\ closes[c].session = s
Deleting(s) == \E c \in Shutting : closes[c] # Nothing /\ closes[c].cwd = CwdOf[s]

\* What the window may show of the daemon: a session marked as open is open, unless
\* its row was deleted (no push says so) or it is on the way out; and the mark of a
\* turn that began over this connection is right, unless the session is being closed
\* or the end of a closed agent was told during the turn of another one.
MayShow(s) == s \in open \/ s \notin rows \/ Closing(s) \/ Deleting(s)
Sure(s) == fresh[s] /\ ~Closing(s) /\ s \notin unmarked

\* However prompts, turns, double resumes, slow closes, deletions and reloads of
\* the list cross each other: once everything that was pushed has arrived, App.tsx
\* marks no session as open that MayShow excludes, and a session of which it is
\* Sure as running exactly while its turn runs.
ViewTracks ==
    link = "open" /\ loaded /\ inbox = <<>> =>
        \A s \in Sessions :
            /\ view[s] = "active" => MayShow(s)
            /\ Sure(s) => (running[s] <=> run[s] = "turn")

\* A window whose daemon stays up gets its connection and the list back,
\* however often the connection broke (App.tsx, scheduleReconnect).
Reconnects ==
    <>[](app = "up" /\ child = "listening") => <>[](link = "open" /\ loaded)

=============================================================================
