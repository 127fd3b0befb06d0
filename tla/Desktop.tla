------------------------------ MODULE Desktop ------------------------------
(***************************************************************************)
(* The desktop shell: it starts the daemon as a child, waits for its port, *)
(* opens the window, and takes the daemon down when it quits (main.ts,     *)
(* daemon-manager.ts).                                                     *)
(***************************************************************************)

VARIABLES
    app,        \* "waiting" for the port, "up" (window), "cleaning" or "exited"
    polling,    \* waitForReady is still running
    probing,    \* and has found the child, and waits for the port to answer
    child,      \* the daemon: "booting", "listening", "told" (to end) or "ended"
    held,       \* the shell still has the child process in this.child
    taken,      \* another process listens on the port
    gaveUp      \* history: the daemon was not ready in time

shell == <<app, polling, probing, child, held, taken, gaveUp>>

ShellTypeOK ==
    /\ app \in {"waiting", "up", "cleaning", "exited"}
    /\ polling \in BOOLEAN /\ probing \in BOOLEAN
    /\ child \in {"booting", "listening", "told", "ended"}
    /\ held \in BOOLEAN
    /\ taken \in BOOLEAN
    /\ gaveUp \in BOOLEAN

\* start() is the first thing that happens when the shell is ready.
ShellInit ==
    /\ app = "waiting" /\ polling = TRUE /\ probing = FALSE
    /\ child = "booting" /\ held = TRUE
    /\ taken \in BOOLEAN
    /\ gaveUp = FALSE

-----------------------------------------------------------------------------
(* The child                                                               *)

ChildListens ==
    /\ child = "booting" /\ ~taken
    /\ child' = "listening"
    /\ UNCHANGED <<app, polling, probing, held, taken, gaveUp>>

\* It cannot listen (the port is taken) or dies, and the shell forgets it.
ChildDies ==
    /\ child \in {"booting", "listening"}
    /\ child' = "ended"
    /\ held' = FALSE
    /\ UNCHANGED <<app, polling, probing, taken, gaveUp>>

\* Its shutdown is through.
ChildStops ==
    /\ child = "told"
    /\ child' = "ended"
    /\ UNCHANGED <<app, polling, probing, held, taken, gaveUp>>

\* external: the process that held the port ends.
PortFreed ==
    /\ taken
    /\ taken' = FALSE
    /\ UNCHANGED <<app, polling, probing, child, held, gaveUp>>

-----------------------------------------------------------------------------
(* Starting                                                                *)

\* A round of the poll: the shell has a child, and tries the port.
PollProbes ==
    /\ app # "exited" /\ polling /\ ~probing /\ held
    /\ probing' = TRUE
    /\ UNCHANGED <<app, polling, child, held, taken, gaveUp>>

\* Whoever answers on the port, the daemon counts as ready, and the window is
\* opened: also when the child has died, or the user has quit, since the probe.
PortAnswers ==
    /\ app # "exited" /\ polling /\ probing
    /\ child \in {"listening", "told"} \/ taken
    /\ app' = IF app = "waiting" THEN "up" ELSE app
    /\ polling' = FALSE /\ probing' = FALSE
    /\ UNCHANGED <<child, held, taken, gaveUp>>

\* Nobody answers yet, or not in time.
ProbeFails ==
    /\ app # "exited" /\ polling /\ probing
    /\ probing' = FALSE
    /\ UNCHANGED <<app, polling, child, held, taken, gaveUp>>

\* The child is gone, or stop() has let go of it: the poll ends, and the shell
\* exits at once even when it is cleaning up.
PollFindsNoChild ==
    /\ app # "exited" /\ polling /\ ~probing /\ ~held
    /\ app' = "exited" /\ polling' = FALSE
    /\ UNCHANGED <<probing, child, held, taken, gaveUp>>

\* The deadline passes: app.exit does not go through before-quit.
PollTimesOut ==
    /\ app = "waiting" /\ polling /\ ~probing /\ held
    /\ app' = "exited" /\ polling' = FALSE
    /\ gaveUp' = TRUE
    /\ UNCHANGED <<probing, child, held, taken>>

-----------------------------------------------------------------------------
(* Quitting                                                                *)

\* Variant: a daemon that is not ready yet is not told.
QuitForgetsBooting ==
    /\ app \in {"waiting", "up"}
    /\ held' = FALSE
    /\ IF held /\ child = "listening"
       THEN child' = "told" /\ app' = "cleaning"
       ELSE app' = "exited" /\ UNCHANGED child
    /\ UNCHANGED <<polling, probing, taken, gaveUp>>

\* before-quit: stop() lets go of the child and sends SIGTERM.
Quit ==
    /\ app \in {"waiting", "up"}
    /\ held' = FALSE
    /\ IF held
       THEN child' = "told" /\ app' = "cleaning"
       ELSE app' = "exited" /\ UNCHANGED child
    /\ UNCHANGED <<polling, probing, taken, gaveUp>>

\* A second quit is not held up: the grace period is not waited for.
QuitAgain ==
    /\ app = "cleaning"
    /\ app' = "exited"
    /\ UNCHANGED <<polling, probing, child, held, taken, gaveUp>>

\* The grace period is over: the process tree is killed.
GraceEnds ==
    /\ app = "cleaning" /\ child = "told"
    /\ child' = "ended"
    /\ UNCHANGED <<app, polling, probing, held, taken, gaveUp>>

CleanedUp ==
    /\ app = "cleaning" /\ child = "ended"
    /\ app' = "exited"
    /\ UNCHANGED <<polling, probing, child, held, taken, gaveUp>>

-----------------------------------------------------------------------------
(* What happens to the daemon, and what happens around it                  *)
DaemonGoes == ChildDies \/ ChildStops \/ GraceEnds

\* The shell does not exit and leave a daemon behind that nobody told to end
\* (main.ts calls stop() on every quit), unless the daemon was not ready in
\* time: that exit forgets it.
DaemonTold == app = "exited" => child \in {"told", "ended"} \/ gaveUp

=============================================================================
