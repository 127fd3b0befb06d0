---------------------------- MODULE AgentManager ----------------------------
(***************************************************************************)
(* The session orchestrator of the daemon (agent-manager.ts) with the      *)
(* session rows it keeps (session-store.ts) and the requests that reach it *)
(* (ws-server.ts).                                                         *)
(*                                                                         *)
(* The daemon is one JavaScript thread: an action is the code that runs    *)
(* between two awaits.  Requests are dispatched as they arrive and are not *)
(* queued, so the segments of any two requests may interleave; what a      *)
(* request captured before an await is in its entry of `calls`.  A request *)
(* that fails before its first await changes nothing and has no action.    *)
(***************************************************************************)
CONSTANTS
    Ids,            \* session ids, the keys of the sessions map and of the store
    Instances,      \* AgentSession objects: one connection to one agent process
    Requests,       \* slots for the requests in flight (bounds their number)
    Cwds,           \* directories
    DefaultCwd,     \* config.defaultCwd, None when it is not configured
    Home,           \* homedir()
    Models,         \* model ids
    Levels,         \* thinking option ids
    None,           \* undefined / null
    CreateConfigs,  \* configurations agent.create asks for
    StoredRows      \* rows an earlier run of the daemon can have left

Row == [cwd : Cwds \cup {None}, model : Models \cup {None},
        level : Levels \cup {None}, handle : BOOLEAN]

ASSUME ConstantsAssumption ==
    /\ None \notin Ids /\ None \notin Instances
    /\ None \notin Cwds /\ None \notin Models /\ None \notin Levels
    /\ None \notin Row
    /\ DefaultCwd \in Cwds \cup {None} /\ Home \in Cwds
    /\ CreateConfigs \subseteq {r \in Row : r.cwd \in Cwds /\ ~r.handle}
    /\ StoredRows \subseteq Row

VARIABLES
    sessions,   \* AgentManager.sessions: id -> instance, None when not loaded
    running,    \* AgentManager.running: the ids with a turn under way
    store,      \* the rows of sessions.db: id -> row, None when there is none
    issued,     \* the ids some agent or some earlier run has handed out
    instance,   \* the AgentSession objects: life cycle, id, settings in force
    calls,      \* the requests in flight: where they wait, what they captured
    daemon,     \* "up", "closing" (in AgentManager.shutdown) or "exited"
    draining,   \* the instances AgentManager.shutdown is closing
    displaced   \* history: the instances another registration has taken the key of

vars == <<sessions, running, store, issued, instance, calls, daemon, draining, displaced>>

(***************************************************************************)
(* An instance is "opening" while its client starts the agent and shakes   *)
(* hands, "open" once it is registered, "closing" during AgentSession.close*)
(* and "closed" when its agent process is gone.  It is "leaked" when its    *)
(* client failed to open it and left the agent process running.  `model` is *)
(* the one its agent uses; `drifted` is history: a change of the model that *)
(* the orchestrator took for failed has come into force.                   *)
(***************************************************************************)
Phases == {"unused", "opening", "open", "closing", "closed", "leaked"}

Instance == [phase : Phases, id : Ids \cup {None}, model : Models \cup {None},
             handle : BOOLEAN, drifted : BOOLEAN]

Unused == [phase |-> "unused", id |-> None, model |-> None,
           handle |-> FALSE, drifted |-> FALSE]

(***************************************************************************)
(* A request: the await it is suspended at (op), the session id it names,  *)
(* the instance it awaits, the row it captured, its argument, and the keys *)
(* deleteProject has still to look at.  A setModel is at "modelSet" once    *)
(* the agent has changed its model and its answer is awaited; "late" is one *)
(* that has been answered with a timeout and whose agent may yet act on it. *)
(***************************************************************************)
Ops == {"idle", "create", "resume", "prompt", "setModel", "modelSet", "late",
        "setLevel", "close", "delete"}

Call == [op : Ops, id : Ids \cup {None}, inst : Instances \cup {None},
         row : Row \cup {None}, arg : Models \cup Levels \cup Cwds \cup {None},
         keys : SUBSET Ids]

Idle == [op |-> "idle", id |-> None, inst |-> None, row |-> None,
         arg |-> None, keys |-> {}]

\* The type of the orchestrator's state: what it captured before an await and
\* what it writes to a row are always whole rows, instances and ids.
TypeOK ==
    /\ sessions \in [Ids -> Instances \cup {None}]
    /\ running \subseteq Ids
    /\ store \in [Ids -> Row \cup {None}]
    /\ issued \subseteq Ids
    /\ instance \in [Instances -> Instance]
    /\ calls \in [Requests -> Call]
    /\ daemon \in {"up", "closing", "exited"}
    /\ draining \subseteq Instances
    /\ displaced \subseteq Instances

Init ==
    /\ sessions = [i \in Ids |-> None]
    /\ running = {}
    /\ store \in [Ids -> StoredRows \cup {None}]
    /\ issued = {i \in Ids : store[i] # None}
    /\ instance = [a \in Instances |-> Unused]
    /\ calls = [c \in Requests |-> Idle]
    /\ daemon = "up"
    /\ draining = {}
    /\ displaced = {}

-----------------------------------------------------------------------------
(* Helpers                                                                 *)

\* A slot whose request may start now: the sockets are closed before
\* AgentManager.shutdown runs, so no request starts during it.
CanStart(c) == daemon = "up" /\ calls[c].op = "idle"

\* A request suspended at `op` that the process still lives to resume.
Resumes(c, op) == daemon # "exited" /\ calls[c].op = op

Reply(c) == calls' = [calls EXCEPT ![c] = Idle]

Loaded == {i \in Ids : sessions[i] # None}

SetPhase(a, phase) == [instance EXCEPT ![a].phase = phase]

\* resolveResumeCwd: requested, then stored, then configured default, then home;
\* `dirs` are the directories that exist at that moment.
ResolveResumeCwd(stored, requested, dirs) ==
    IF requested \in dirs THEN requested
    ELSE IF stored \in dirs THEN stored
    ELSE IF DefaultCwd \in dirs THEN DefaultCwd
    ELSE Home

\* The client starts an agent for configuration `row`; id is known beforehand
\* only when a session is resumed.
Open(a, id, row) ==
    /\ instance[a].phase = "unused"
    /\ instance' = [instance EXCEPT ![a] =
                      [phase |-> "opening", id |-> id, model |-> row.model,
                       handle |-> row.handle, drifted |-> FALSE]]

\* register(): the instance takes its key in the map, whoever held it before,
\* and its row is written.
Register(a, id, row) ==
    /\ sessions' = [sessions EXCEPT ![id] = a]
    /\ store' = [store EXCEPT ![id] = row]
    /\ instance' = [instance EXCEPT ![a] =
                      [@ EXCEPT !.phase = "open", !.id = id, !.handle = row.handle]]
    /\ displaced' = displaced \cup ({sessions[id]} \ {None})

-----------------------------------------------------------------------------
(* createSession                                                           *)

CreateSession(c, a, row) ==
    /\ CanStart(c)
    /\ Open(a, None, row)
    /\ calls' = [calls EXCEPT ![c] = [Idle EXCEPT !.op = "create", !.inst = a,
                                                  !.row = row]]
    /\ UNCHANGED <<sessions, running, store, issued, daemon, draining, displaced>>

\* The agent chose a fresh id; `handle` says whether describePersistence
\* already returns one (Claude has none before its first turn).
CreateReturns(c, id, handle) ==
    /\ Resumes(c, "create")
    /\ id \notin issued
    /\ issued' = issued \cup {id}
    /\ Register(calls[c].inst, id, [calls[c].row EXCEPT !.handle = handle])
    /\ Reply(c)
    /\ UNCHANGED <<running, daemon, draining>>

-----------------------------------------------------------------------------
(* resumeSession                                                           *)

\* Nothing asks whether the id is loaded or being resumed already.
ResumeSession(c, a, id, requested, dirs) ==
    /\ CanStart(c)
    /\ store[id] # None
    /\ store[id].handle
    /\ LET row == [store[id] EXCEPT !.cwd = ResolveResumeCwd(@, requested, dirs)]
       IN  /\ Open(a, id, row)
           /\ calls' = [calls EXCEPT ![c] = [Idle EXCEPT !.op = "resume", !.id = id,
                                                         !.inst = a, !.row = row]]
    /\ UNCHANGED <<sessions, running, store, issued, daemon, draining, displaced>>

\* Writes back the row read before the await, and registers over whatever
\* the map holds for this id by now.
ResumeReturns(c) ==
    /\ Resumes(c, "resume")
    /\ Register(calls[c].inst, calls[c].id, calls[c].row)
    /\ Reply(c)
    /\ UNCHANGED <<running, issued, daemon, draining>>

\* The provider client rejects (spawn, handshake, unknown thread).  It has
\* reaped the agent process (codex) or leaves it running (pi, whose handshake
\* timed out).
OpenFails(c) ==
    /\ Resumes(c, "create") \/ Resumes(c, "resume")
    /\ \/ instance' = SetPhase(calls[c].inst, "closed")
       \/ instance' = SetPhase(calls[c].inst, "leaked")
    /\ Reply(c)
    /\ UNCHANGED <<sessions, running, store, issued, daemon, draining, displaced>>

-----------------------------------------------------------------------------
(* prompt                                                                  *)

Prompt(c, id) ==
    /\ CanStart(c)
    /\ sessions[id] # None
    /\ id \notin running
    /\ running' = running \cup {id}
    /\ calls' = [calls EXCEPT ![c] = [Idle EXCEPT !.op = "prompt", !.id = id,
                                                  !.inst = sessions[id]]]
    /\ UNCHANGED <<sessions, store, issued, instance, daemon, draining, displaced>>

\* session.run resolved or rejected; the finally clause.
PromptSettles(c) ==
    /\ Resumes(c, "prompt")
    /\ running' = running \ {calls[c].id}
    /\ Reply(c)
    /\ UNCHANGED <<sessions, store, issued, instance, daemon, draining, displaced>>

-----------------------------------------------------------------------------
(* setModel, setThinkingOption                                             *)

SetOption(c, id, op, value) ==
    /\ CanStart(c)
    /\ sessions[id] # None
    /\ calls' = [calls EXCEPT ![c] = [Idle EXCEPT !.op = op, !.id = id,
                                                  !.inst = sessions[id], !.arg = value]]
    /\ UNCHANGED <<sessions, running, store, issued, instance, daemon, draining, displaced>>

\* Variant: the row is written before the agent has accepted the model.
SetModelSavesFirst(c, id, m) ==
    /\ CanStart(c)
    /\ sessions[id] # None
    /\ store' = IF store[id] = None THEN store ELSE [store EXCEPT ![id].model = m]
    /\ calls' = [calls EXCEPT ![c] = [Idle EXCEPT !.op = "setModel", !.id = id,
                                                  !.inst = sessions[id], !.arg = m]]
    /\ UNCHANGED <<sessions, running, issued, instance, daemon, draining, displaced>>

SetModel(c, id, m) == SetOption(c, id, "setModel", m)
SetThinkingOption(c, id, l) == SetOption(c, id, "setLevel", l)

\* The agent changes its model.  An agent answers one such command before it
\* carries out the next.
SetModelApplies(c) ==
    LET call == calls[c] IN
    /\ Resumes(c, "setModel")
    /\ instance[call.inst].phase = "open"
    /\ \A d \in Requests : calls[d].op = "modelSet" => calls[d].inst # call.inst
    /\ instance' = [instance EXCEPT ![call.inst].model = call.arg]
    /\ calls' = [calls EXCEPT ![c].op = "modelSet"]
    /\ UNCHANGED <<sessions, running, store, issued, daemon, draining, displaced>>

\* The agent has answered; the row is read again and written.
SetModelReturns(c) ==
    LET call == calls[c] IN
    /\ Resumes(c, "modelSet")
    /\ instance[call.inst].phase = "open"
    /\ store' = IF store[call.id] = None THEN store
                ELSE [store EXCEPT ![call.id].model = call.arg]
    /\ Reply(c)
    /\ UNCHANGED <<sessions, running, issued, instance, daemon, draining, displaced>>

\* Likewise, except that clearing the option (null) leaves the stored one.
SetThinkingOptionReturns(c) ==
    LET call == calls[c] IN
    /\ Resumes(c, "setLevel")
    /\ instance[call.inst].phase = "open"
    /\ store' = IF store[call.id] = None \/ call.arg = None THEN store
                ELSE [store EXCEPT ![call.id].level = call.arg]
    /\ Reply(c)
    /\ UNCHANGED <<sessions, running, issued, instance, daemon, draining, displaced>>

\* The agent refuses, or the session was closed under the request.
SetOptionFails(c) ==
    /\ Resumes(c, "setModel") \/ Resumes(c, "setLevel")
    /\ Reply(c)
    /\ UNCHANGED <<sessions, running, store, issued, instance, daemon, draining, displaced>>

\* The request for a new model times out (or the session is closed) before the
\* agent has acted on it: setModel throws, and what was sent cannot be recalled.
SetModelTimesOut(c) ==
    /\ Resumes(c, "setModel")
    /\ calls' = [calls EXCEPT ![c].op = "late"]
    /\ UNCHANGED <<sessions, running, store, issued, instance, daemon, draining, displaced>>

\* The same after it has acted: its answer was lost or came too late.
SetModelUnanswered(c) ==
    /\ Resumes(c, "modelSet")
    /\ instance' = [instance EXCEPT ![calls[c].inst].drifted = TRUE]
    /\ Reply(c)
    /\ UNCHANGED <<sessions, running, store, issued, daemon, draining, displaced>>

\* The agent carries out a setModel that has failed, or never does.
LateModelChange(c) ==
    /\ calls[c].op = "late"
    /\ \/ /\ instance[calls[c].inst].phase = "open"
          /\ instance' = [instance EXCEPT ![calls[c].inst] =
                            [@ EXCEPT !.model = calls[c].arg, !.drifted = TRUE]]
       \/ UNCHANGED instance
    /\ Reply(c)
    /\ UNCHANGED <<sessions, running, store, issued, daemon, draining, displaced>>

-----------------------------------------------------------------------------
(* The thread_started event: the handler register() subscribed writes the  *)
(* handle, which some agents only know after their first turn.             *)

\* Variant: `stored &&` is missing, a deleted row comes back with a handle only.
ThreadStartedUnguarded(a) ==
    LET id == instance[a].id IN
    /\ daemon # "exited"
    /\ instance[a].phase = "open"
    /\ ~instance[a].handle
    /\ instance' = [instance EXCEPT ![a].handle = TRUE]
    /\ store' = [store EXCEPT ![id] = IF @ = None THEN [handle |-> TRUE]
                                      ELSE [@ EXCEPT !.handle = TRUE]]
    /\ UNCHANGED <<sessions, running, issued, calls, daemon, draining, displaced>>

\* Variant: the handle is not written back.
ThreadStartedUnsaved(a) ==
    /\ daemon # "exited"
    /\ instance[a].phase = "open"
    /\ ~instance[a].handle
    /\ instance' = [instance EXCEPT ![a].handle = TRUE]
    /\ UNCHANGED <<sessions, running, store, issued, calls, daemon, draining, displaced>>

ThreadStarted(a) ==
    LET id == instance[a].id IN
    /\ daemon # "exited"
    /\ instance[a].phase = "open"
    /\ ~instance[a].handle
    /\ instance' = [instance EXCEPT ![a].handle = TRUE]
    /\ store' = IF store[id] = None THEN store
                ELSE [store EXCEPT ![id].handle = TRUE]
    /\ UNCHANGED <<sessions, running, issued, calls, daemon, draining, displaced>>

-----------------------------------------------------------------------------
(* closeSession                                                            *)

\* Variant: the key is deleted only after the close.
CloseSessionKeepsKey(c, id) ==
    /\ CanStart(c)
    /\ sessions[id] # None
    /\ instance' = SetPhase(sessions[id], "closing")
    /\ calls' = [calls EXCEPT ![c] = [Idle EXCEPT !.op = "close", !.id = id,
                                                  !.inst = sessions[id]]]
    /\ UNCHANGED <<sessions, running, store, issued, daemon, draining, displaced>>

\* Variant: the key is deleted, the session closed only later.
CloseSessionLazily(c, id) ==
    /\ CanStart(c)
    /\ sessions[id] # None
    /\ sessions' = [sessions EXCEPT ![id] = None]
    /\ calls' = [calls EXCEPT ![c] = [Idle EXCEPT !.op = "close", !.id = id,
                                                  !.inst = sessions[id]]]
    /\ UNCHANGED <<running, store, issued, instance, daemon, draining, displaced>>

CloseSession(c, id) ==
    /\ CanStart(c)
    /\ sessions[id] # None
    /\ sessions' = [sessions EXCEPT ![id] = None]
    /\ instance' = SetPhase(sessions[id], "closing")
    /\ calls' = [calls EXCEPT ![c] = [Idle EXCEPT !.op = "close", !.id = id,
                                                  !.inst = sessions[id]]]
    /\ UNCHANGED <<running, store, issued, daemon, draining, displaced>>

\* Variant: closing also clears the running mark, before the turn has settled.
CloseReturnsClearsRunning(c) ==
    /\ Resumes(c, "close")
    /\ instance' = SetPhase(calls[c].inst, "closed")
    /\ running' = running \ {calls[c].id}
    /\ Reply(c)
    /\ UNCHANGED <<sessions, store, issued, daemon, draining, displaced>>

CloseReturns(c) ==
    /\ Resumes(c, "close")
    /\ instance' = SetPhase(calls[c].inst, "closed")
    /\ Reply(c)
    /\ UNCHANGED <<sessions, running, store, issued, daemon, draining, displaced>>

-----------------------------------------------------------------------------
(* deleteProject                                                           *)

\* The loop body closes this key: still loaded, and its row is of the project.
\* A row without a directory reads back as undefined, which is not null.
Closes(id, cwd) ==
    /\ sessions[id] # None
    /\ store[id] # None
    /\ store[id].cwd = cwd
    /\ cwd # None

\* The loop up to its next await: the keys `skipped` come before `id` in the
\* map's order and are passed over.  `inst` are the instances at this point.
DeleteCloses(c, cwd, keys, inst) ==
    \E id \in keys, skipped \in SUBSET keys :
        /\ Closes(id, cwd)
        /\ \A s \in skipped : ~Closes(s, cwd)
        /\ sessions' = [sessions EXCEPT ![id] = None]
        /\ instance' = [inst EXCEPT ![sessions[id]].phase = "closing"]
        /\ calls' = [calls EXCEPT ![c] = [Idle EXCEPT !.op = "delete", !.id = id,
                          !.inst = sessions[id], !.arg = cwd,
                          !.keys = keys \ ({id} \cup skipped)]]
        /\ UNCHANGED <<running, store, issued, daemon, draining, displaced>>

\* The loop ends and the project's rows are removed.
DeleteEnds(c, cwd, keys, inst) ==
    /\ \A id \in keys : ~Closes(id, cwd)
    /\ store' = [id \in Ids |-> IF store[id] # None /\ store[id].cwd = cwd
                                THEN None ELSE store[id]]
    /\ instance' = inst
    /\ Reply(c)
    /\ UNCHANGED <<sessions, running, issued, daemon, draining, displaced>>

DeleteProject(c, cwd) ==
    /\ CanStart(c)
    /\ \/ DeleteCloses(c, cwd, Loaded, instance)
       \/ DeleteEnds(c, cwd, Loaded, instance)

DeleteContinues(c) ==
    LET call == calls[c] IN
    /\ Resumes(c, "delete")
    /\ \/ DeleteCloses(c, call.arg, call.keys, SetPhase(call.inst, "closed"))
       \/ DeleteEnds(c, call.arg, call.keys, SetPhase(call.inst, "closed"))

-----------------------------------------------------------------------------
(* shutdown                                                                *)

\* Variant: the map is cleared before the sessions to close are read from it.
ShutdownClearsFirst ==
    /\ daemon = "up"
    /\ daemon' = "closing"
    /\ sessions' = [i \in Ids |-> None]
    /\ UNCHANGED <<running, store, issued, instance, calls, draining, displaced>>

Shutdown ==
    /\ daemon = "up"
    /\ daemon' = "closing"
    /\ draining' = {sessions[i] : i \in Loaded}
    /\ instance' = [a \in Instances |->
                      IF \E i \in Loaded : sessions[i] = a
                      THEN [instance[a] EXCEPT !.phase = "closing"] ELSE instance[a]]
    /\ sessions' = [i \in Ids |-> None]
    /\ UNCHANGED <<running, store, issued, calls, displaced>>

ShutdownClosed(a) ==
    /\ daemon = "closing"
    /\ a \in draining
    /\ draining' = draining \ {a}
    /\ instance' = SetPhase(a, "closed")
    /\ UNCHANGED <<sessions, running, store, issued, calls, daemon, displaced>>

\* All snapshot sessions are closed: the store is closed, the process exits.
Exit ==
    /\ daemon = "closing"
    /\ draining = {}
    /\ daemon' = "exited"
    /\ UNCHANGED <<sessions, running, store, issued, instance, calls, draining, displaced>>

-----------------------------------------------------------------------------
Request(c) ==
    \/ \E a \in Instances, row \in CreateConfigs : CreateSession(c, a, row)
    \/ \E a \in Instances, id \in Ids, req \in Cwds \cup {None}, dirs \in SUBSET Cwds :
          ResumeSession(c, a, id, req, dirs)
    \/ \E id \in Ids : Prompt(c, id) \/ CloseSession(c, id)
    \/ \E id \in Ids, m \in Models : SetModel(c, id, m)
    \/ \E id \in Ids, l \in Levels \cup {None} : SetThinkingOption(c, id, l)
    \/ \E cwd \in Cwds \cup {None} : DeleteProject(c, cwd)

Continue(c) ==
    \/ \E id \in Ids, handle \in BOOLEAN : CreateReturns(c, id, handle)
    \/ ResumeReturns(c)
    \/ OpenFails(c)
    \/ PromptSettles(c)
    \/ SetModelApplies(c) \/ SetModelReturns(c)
    \/ SetModelTimesOut(c) \/ SetModelUnanswered(c) \/ LateModelChange(c)
    \/ SetThinkingOptionReturns(c)
    \/ SetOptionFails(c)
    \/ CloseReturns(c)
    \/ DeleteContinues(c)

Next ==
    \/ \E c \in Requests : Request(c) \/ Continue(c)
    \/ \E a \in Instances : ThreadStarted(a) \/ ShutdownClosed(a)
    \/ Shutdown
    \/ Exit

Spec == Init /\ [][Next]_vars

-----------------------------------------------------------------------------
(* Properties                                                              *)

\* A session in the map is open and carries its key: what getSession hands to
\* prompt, interrupt, setModel and respondToPermission was never closed, and
\* its events are broadcast under the id clients know.
LoadedIsOpen ==
    \A id \in Loaded : /\ instance[sessions[id]].phase = "open"
                        /\ instance[sessions[id]].id = id

\* The running set is exactly the ids with a prompt in flight, and no id has
\* two, even when a session is closed and resumed under a turn that has not
\* settled: a turn's terminal event never meets two run() subscriptions.
SingleTurn ==
    /\ running = {calls[c].id : c \in {d \in Requests : calls[d].op = "prompt"}}
    /\ \A c, d \in Requests :
          /\ calls[c].op = "prompt" /\ calls[d].op = "prompt"
          /\ calls[c].id = calls[d].id
          => c = d

\* A loaded session whose agent has reported its native handle can be resumed
\* after a restart: no later write of the row (setModel, setThinkingOption,
\* resume) has put a row without the handle back.
HandlePersisted ==
    \A id \in Loaded :
        store[id] # None /\ instance[sessions[id]].handle => store[id].handle

\* The row of a loaded session names a directory, so the rows without one that
\* deleteProject(null) removes never belong to a session it left open.
LoadedRowHasCwd ==
    \A id \in Loaded : store[id] # None => store[id].cwd # None

\* An instance with an agent process is in the map under its id, or held by a
\* request or by the shutdown that will register or close it: closes, deletions
\* and openings may overlap as they like.  The one way to lose an agent is to
\* register a second session under its id, which resumeSession does not prevent.
\* (A process its provider client leaked while opening was never handed over.)
NoOrphan ==
    \A a \in Instances :
        instance[a].phase \in {"opening", "open", "closing"} =>
            \/ a \in draining
            \/ \E id \in Ids : sessions[id] = a
            \/ \E c \in Requests : /\ calls[c].inst = a
                                    /\ calls[c].op \in {"create", "resume", "close", "delete"}
            \/ a \in displaced

\* The turn under way for an id runs on the instance the map holds for it,
\* unless that instance is being closed or was displaced by a second resume:
\* interrupt and close reach it.
TurnReachable ==
    \A c \in Requests :
        calls[c].op = "prompt" /\ instance[calls[c].inst].phase = "open"
            => \/ sessions[calls[c].id] = calls[c].inst
               \/ calls[c].inst \in displaced

\* The model a loaded session runs with is the one its row will resume with,
\* except while a change is under way, after a change that timed out came into
\* force all the same, and when the id was resumed twice: then two sessions
\* share the row.
ModelPersisted ==
    \A id \in Loaded :
        LET a == sessions[id] IN
        store[id] # None =>
            \/ store[id].model = instance[a].model
            \/ \E c \in Requests : calls[c].op = "modelSet" /\ calls[c].inst = a
            \/ instance[a].drifted
            \/ \E b \in displaced : instance[b].id = id

\* When the process exits no agent process is left behind.
ShutdownLeavesNoAgent ==
    daemon = "exited" =>
        \A a \in Instances : instance[a].phase \in {"unused", "closed"}

=============================================================================
