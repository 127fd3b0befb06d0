--------------------------- MODULE OpencodeServer ---------------------------
(***************************************************************************)
(* The OpenCode server all sessions share (opencode/server-manager.ts).    *)
(* The first acquire() starts it: a port is found, the process is spawned, *)
(* and everyone waits until it listens and answers.  A server whose        *)
(* process has an exit code is replaced by the next acquire(); shutdown()  *)
(* kills the current one.                                                  *)
(*                                                                         *)
(* An action is the code between two awaits.  refCount is left out: it is  *)
(* counted and never read.                                                 *)
(***************************************************************************)
EXTENDS Naturals

CONSTANTS
    Requests,       \* slots for the callers of acquire() (bounds their number)
    MaxServers,     \* bound: the processes ever spawned
    NoServer        \* null

ASSUME ServersAssumption == MaxServers \in Nat /\ NoServer \notin Nat

Servers == 1 .. MaxServers

VARIABLES
    current,    \* OpenCodeServerManager.current
    starting,   \* startPromise is set and the process not spawned yet
    proc,       \* per server: its process (see Processes)
    ready,      \* per server: the state of its `ready` promise
    asks,       \* the callers of acquire()
    daemon      \* "up", "closing" (shutdown() has begun) or "exited"

serverVars == <<current, starting, proc, ready, asks, daemon>>

(***************************************************************************)
(* A process is "up", "killed" when it has been sent a signal and is not   *)
(* known to be gone, "exited" with an exit code, or "signaled": it was     *)
(* ended by a signal and its exitCode stays null.                          *)
(***************************************************************************)
Processes == {"unused", "up", "killed", "exited", "signaled"}

(***************************************************************************)
(* A caller waits for the port, waits for a server to be ready, or uses    *)
(* the server it was given.  `shared`: it found a current server, and will *)
(* be given the one that is current when the wait ends.                    *)
(***************************************************************************)
Ask == [step : {"idle", "port", "ready", "using"},
        server : Servers \cup {NoServer}, shared : BOOLEAN]

NoAsk == [step |-> "idle", server |-> NoServer, shared |-> FALSE]

ServerTypeOK ==
    /\ current \in Servers \cup {NoServer}
    /\ starting \in BOOLEAN
    /\ proc \in [Servers -> Processes]
    /\ ready \in [Servers -> {"pending", "ok", "failed"}]
    /\ asks \in [Requests -> Ask]
    /\ daemon \in {"up", "closing", "exited"}

ServerInit ==
    /\ current = NoServer
    /\ starting = FALSE
    /\ proc = [s \in Servers |-> "unused"]
    /\ ready = [s \in Servers |-> "pending"]
    /\ asks = [c \in Requests |-> NoAsk]
    /\ daemon = "up"

-----------------------------------------------------------------------------
Runs(c, step) == daemon # "exited" /\ asks[c].step = step

Answer(c) == asks' = [asks EXCEPT ![c] = NoAsk]

\* killServer: nothing to do for a process that is gone.
Kill(s) == IF proc[s] = "up" THEN [proc EXCEPT ![s] = "killed"] ELSE proc

\* getCurrent takes a process for alive as long as it has no exit code.
HasCurrent == current # NoServer /\ proc[current] # "exited"

\* Variant: a start under way is not joined.
AcquireAlone(c) ==
    /\ daemon = "up" /\ asks[c].step = "idle"
    /\ IF HasCurrent
       THEN /\ asks' = [asks EXCEPT ![c] = [step |-> "ready", server |-> current,
                                            shared |-> TRUE]]
            /\ UNCHANGED <<current, proc, starting>>
       ELSE \E s \in Servers :
            /\ proc[s] = "unused"
            /\ proc' = [proc EXCEPT ![s] = "up"]
            /\ current' = IF starting THEN current ELSE s
            /\ starting' = TRUE
            /\ asks' = [asks EXCEPT ![c] = [step |-> "ready", server |-> s,
                                            shared |-> FALSE]]
    /\ UNCHANGED <<ready, daemon>>

\* acquire(): joins the current server, or a start under way, or starts one.
Acquire(c) ==
    /\ daemon = "up" /\ asks[c].step = "idle"
    /\ IF HasCurrent
       THEN /\ asks' = [asks EXCEPT ![c] = [step |-> "ready", server |-> current,
                                            shared |-> TRUE]]
            /\ UNCHANGED starting
       ELSE /\ asks' = [asks EXCEPT ![c] = [NoAsk EXCEPT !.step = "port"]]
            /\ starting' = TRUE
    /\ UNCHANGED <<current, proc, ready, daemon>>

\* The callers that wait for the port go on with this step and server.
PortWaiters(step, s) ==
    [c \in Requests |-> IF asks[c].step = "port"
                        THEN [step |-> step, server |-> s, shared |-> FALSE]
                        ELSE asks[c]]

\* startServer spawns the process, also when shutdown() came in between.
PortFound ==
    /\ daemon # "exited"
    /\ starting
    /\ \E s \in Servers :
          /\ proc[s] = "unused"
          /\ \A r \in 1 .. (s - 1) : proc[r] # "unused"
          /\ proc' = [proc EXCEPT ![s] = "up"]
          /\ current' = s
          /\ asks' = PortWaiters("ready", s)
    /\ starting' = FALSE
    /\ UNCHANGED <<ready, daemon>>

PortFails ==
    /\ daemon # "exited"
    /\ starting
    /\ starting' = FALSE
    /\ asks' = PortWaiters("idle", NoServer)
    /\ UNCHANGED <<current, proc, ready, daemon>>

\* It printed "listening on", and the poll got an answer or gave up: either
\* counts, also for a process that was killed meanwhile.
BecomesReady(s) ==
    /\ daemon # "exited"
    /\ proc[s] # "unused" /\ ready[s] = "pending"
    /\ ready' = [ready EXCEPT ![s] = "ok"]
    /\ UNCHANGED <<current, starting, proc, asks, daemon>>

\* Variant: the promise is left pending.
StartupTimesOutSilently(s) ==
    /\ daemon # "exited"
    /\ proc[s] # "unused" /\ ready[s] = "pending"
    /\ proc' = Kill(s)
    /\ UNCHANGED <<current, starting, ready, asks, daemon>>

StartupTimesOut(s) ==
    /\ daemon # "exited"
    /\ proc[s] # "unused" /\ ready[s] = "pending"
    /\ ready' = [ready EXCEPT ![s] = "failed"]
    /\ proc' = Kill(s)
    /\ UNCHANGED <<current, starting, asks, daemon>>

\* The process ends (or could not be spawned).  A server that was not killed and
\* is not ready yet has failed.
ProcessEnds(s) ==
    /\ proc[s] \in {"up", "killed"}
    /\ \E how \in {"exited", "signaled"} : proc' = [proc EXCEPT ![s] = how]
    /\ ready' = IF daemon # "exited" /\ proc[s] = "up" /\ ready[s] = "pending"
                THEN [ready EXCEPT ![s] = "failed"] ELSE ready
    /\ UNCHANGED <<current, starting, asks, daemon>>

\* The wait is over.  A caller that shares reads `current` again: it may be null
\* by now (a TypeError) or another server.
AcquireReturns(c) ==
    /\ Runs(c, "ready")
    /\ ready[asks[c].server] = "ok"
    /\ LET given == IF asks[c].shared THEN current ELSE asks[c].server IN
       IF given = NoServer THEN Answer(c)
       ELSE asks' = [asks EXCEPT ![c] = [step |-> "using", server |-> given,
                                         shared |-> FALSE]]
    /\ UNCHANGED <<current, starting, proc, ready, daemon>>

AcquireFails(c) ==
    /\ Runs(c, "ready")
    /\ ready[asks[c].server] = "failed"
    /\ Answer(c)
    /\ UNCHANGED <<current, starting, proc, ready, daemon>>

Release(c) ==
    /\ Runs(c, "using")
    /\ Answer(c)
    /\ UNCHANGED <<current, starting, proc, ready, daemon>>

Shutdown ==
    /\ daemon = "up"
    /\ daemon' = "closing"
    /\ current' = NoServer
    /\ proc' = IF current = NoServer THEN proc ELSE Kill(current)
    /\ UNCHANGED <<starting, ready, asks>>

\* The process exits; its "exit" handler still signals the current server.
Exit ==
    /\ daemon = "closing"
    /\ daemon' = "exited"
    /\ proc' = IF current = NoServer THEN proc ELSE Kill(current)
    /\ UNCHANGED <<current, starting, ready, asks>>

-----------------------------------------------------------------------------
(* Properties                                                              *)

\* Only the current server runs without having been told to end: two callers
\* never start two, a server that failed to start or was replaced is reaped, and
\* one that is spawned after shutdown() is still found when the daemon exits.
OnlyCurrentRuns ==
    \A s \in Servers : proc[s] = "up" => s = current /\ daemon # "exited"

\* Every acquire() is answered, even when the server is shut down or dies while
\* several callers wait for it.
AcquireAnswered ==
    \A c \in Requests :
        asks[c].step \in {"port", "ready"} ~>
            asks[c].step \notin {"port", "ready"} \/ daemon = "exited"

=============================================================================
