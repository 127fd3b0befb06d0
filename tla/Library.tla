------------------------------- MODULE Library -------------------------------
(***************************************************************************)
(* The session library: the rows of sessions.db (session-store.ts), the    *)
(* one-time migration of the legacy sessions.json, and the import of the   *)
(* conversations the agents keep on disk (history-import.ts), with the     *)
(* steps of AgentManager that write rows while an import awaits the disk.  *)
(*                                                                         *)
(* SQLite is external: a statement outside BEGIN and the rows between      *)
(* BEGIN and COMMIT are each one step, and a crash keeps what is           *)
(* committed.  All sessions belong to one project, and one import runs at  *)
(* a time.                                                                 *)
(***************************************************************************)
EXTENDS FiniteSets

CONSTANTS
    Threads,        \* conversations of agents whose session id is their own (codex)
    Chats,          \* conversations of agents that name them in their first turn
                    \* (claude); a session of this software has an id of its own
    Consoles,       \* such ids (bounds the number of sessions created)
    Legacy,         \* the rows of sessions.json: a function from ids to handles
    Nothing

Conversations == Threads \cup Chats
Ids == Conversations \cup Consoles

ASSUME IdsAssumption ==
    /\ Consoles \cap Conversations = {} /\ Nothing \notin Ids
    /\ DOMAIN Legacy \subseteq Ids
    /\ \A i \in DOMAIN Legacy : Legacy[i] \in Conversations
    /\ \A i, j \in DOMAIN Legacy : Legacy[i] = Legacy[j] => i = j
    /\ \A i \in DOMAIN Legacy :
          i \in Conversations \/ Legacy[i] \in Threads => Legacy[i] = i
    /\ Threads \cap Chats = {}

VARIABLES
    rows,       \* the sessions table
    legacy,     \* sessions.json is still there
    disk,       \* external: the conversations the agents have stored
    daemon,     \* "down", "migrated" (committed, not archived) or "up"
    sessions,   \* per id: the conversation of the open session, or Nothing
    opening,    \* conversations begun for sessions that are not registered yet
    import,     \* the import under way
    deleted,    \* history: the ids of deleted sessions nobody asked for again
    unarchived, \* history: a crash or an error kept the migrated file in place
    crossed     \* history: the chats an import took for new although a session had
                \*   begun them

marks == <<unarchived, crossed>>

vars == <<rows, legacy, disk, daemon, sessions, opening, import, deleted, marks>>

\* A row's handle, and whether its settings were chosen in this software; an
\* import knows none but the model.
Row == [handle : Conversations \cup {Nothing}, settings : {"chosen", "imported"}]

ASSUME NothingAssumption == Nothing \notin Row

\* racing is history: the conversations of sessions whose rows are written or
\* removed after the import has read what is known.
NoImport == [step |-> "none", known |-> {}, fresh |-> {}, racing |-> {}]

\* A session is closed, or open and its conversation is known (or not yet).
Session == [open : BOOLEAN, conversation : Conversations \cup {Nothing}]

Closed == [open |-> FALSE, conversation |-> Nothing]

TypeOK ==
    /\ rows \in [Ids -> Row \cup {Nothing}]
    /\ legacy \in BOOLEAN
    /\ disk \subseteq Conversations
    /\ daemon \in {"down", "migrated", "up"}
    /\ sessions \in [Ids -> Session]
    /\ opening \subseteq Threads
    /\ import \in [step : {"none", "scanning", "scanned"},
                   known : SUBSET Conversations, fresh : SUBSET Conversations,
                   racing : SUBSET Conversations]
    /\ deleted \subseteq Ids
    /\ unarchived \in BOOLEAN
    /\ crossed \subseteq Chats

Init ==
    /\ rows = [i \in Ids |-> Nothing]
    /\ legacy = (DOMAIN Legacy # {})
    /\ disk = {Legacy[i] : i \in DOMAIN Legacy}
    /\ daemon = "down"
    /\ sessions = [i \in Ids |-> Closed]
    /\ opening = {}
    /\ import = NoImport
    /\ deleted = {}
    /\ unarchived = FALSE
    /\ crossed = {}

-----------------------------------------------------------------------------
Stored == {i \in Ids : rows[i] # Nothing}

\* The conversations the rows know.
Handles == {rows[i].handle : i \in Stored} \ {Nothing}

\* The row with this id is written, over whatever was there.
Put(i, row) == rows' = [rows EXCEPT ![i] = row]

Wanted(ids) == deleted' = deleted \ ids

Importing == import # NoImport

\* An import under way does not know of what happens to these conversations.
Races(conversations) ==
    import' = IF Importing THEN [import EXCEPT !.racing = @ \cup conversations] ELSE import

\* The conversations of open sessions that their rows do not name yet.
Unnamed == {sessions[i].conversation : i \in {j \in Stored : rows[j].handle = Nothing}}
               \ {Nothing}

-----------------------------------------------------------------------------
(* Start, migration and crash                                              *)

\* The constructor, up to COMMIT: only an empty library is migrated into.
Start ==
    /\ daemon = "down"
    /\ IF legacy /\ Stored = {}
       THEN /\ rows' = [i \in Ids |-> IF i \in DOMAIN Legacy
                                      THEN [handle |-> Legacy[i], settings |-> "chosen"]
                                      ELSE Nothing]
            /\ daemon' = "migrated"
       ELSE /\ daemon' = "up"
            /\ UNCHANGED rows
    /\ UNCHANGED <<legacy, disk, sessions, opening, import, deleted, marks>>

\* Variant: the migrated file stays where it is.
ArchiveForgotten ==
    /\ daemon = "migrated"
    /\ daemon' = "up"
    /\ UNCHANGED <<rows, legacy, disk, sessions, opening, import, deleted, marks>>

\* renameSync: its error is logged and the daemon goes on.
Archive ==
    /\ daemon = "migrated"
    /\ legacy' \in BOOLEAN
    /\ unarchived' = (unarchived \/ legacy')
    /\ daemon' = "up"
    /\ UNCHANGED <<rows, disk, sessions, opening, import, deleted, crossed>>

\* The daemon ends, orderly or not: what it had in memory is gone.
Crash ==
    /\ daemon # "down"
    /\ daemon' = "down"
    /\ unarchived' = (unarchived \/ daemon = "migrated")
    /\ sessions' = [i \in Ids |-> Closed]
    /\ opening' = {}
    /\ import' = NoImport
    /\ UNCHANGED <<rows, legacy, disk, deleted, crossed>>

-----------------------------------------------------------------------------
(* Sessions                                                                *)

\* createSession of an agent that names the conversation at once: it exists
\* before the session is registered.
OpenThread(t) ==
    /\ daemon = "up"
    /\ rows[t] = Nothing /\ t \notin disk \cup opening
    /\ opening' = opening \cup {t}
    /\ UNCHANGED <<rows, legacy, disk, daemon, sessions, import, deleted, marks>>

\* ... and register() writes its row.
RegisterThread(t) ==
    /\ daemon = "up"
    /\ t \in opening
    /\ opening' = opening \ {t}
    /\ sessions' = [sessions EXCEPT ![t] = [open |-> TRUE, conversation |-> t]]
    /\ Put(t, [handle |-> t, settings |-> "chosen"])
    /\ Wanted({t}) /\ Races({t})
    /\ UNCHANGED <<legacy, disk, daemon, marks>>

\* Variant: the id of the console is taken for the agent's.
CreateChatHandleIsId(c) ==
    /\ daemon = "up"
    /\ c \in Consoles /\ rows[c] = Nothing /\ ~sessions[c].open
    /\ sessions' = [sessions EXCEPT ![c] = [open |-> TRUE, conversation |-> Nothing]]
    /\ Put(c, [handle |-> c, settings |-> "chosen"])
    /\ Wanted({c})
    /\ UNCHANGED <<legacy, disk, daemon, opening, import, marks>>

\* createSession of the other agents: registered under an id of the console,
\* without a handle.
CreateChat(c) ==
    /\ daemon = "up"
    /\ c \in Consoles /\ rows[c] = Nothing /\ ~sessions[c].open
    /\ sessions' = [sessions EXCEPT ![c] = [open |-> TRUE, conversation |-> Nothing]]
    /\ Put(c, [handle |-> Nothing, settings |-> "chosen"])
    /\ Wanted({c})
    /\ UNCHANGED <<legacy, disk, daemon, opening, import, marks>>

\* The first turn: the agent begins a conversation, which has a new name.
FirstTurn(c, n) ==
    /\ daemon = "up"
    /\ c \in Consoles /\ sessions[c] = [open |-> TRUE, conversation |-> Nothing]
    /\ n \in Chats \ (disk \cup Handles \cup import.known)
    /\ \A i \in Ids : sessions[i].conversation # n
    /\ sessions' = [sessions EXCEPT ![c] = [open |-> TRUE, conversation |-> n]]
    /\ Races({n})
    /\ UNCHANGED <<rows, legacy, disk, daemon, opening, deleted, marks>>

\* thread_started: the handle is written back, if the row is still there.
ThreadStarted(i) ==
    /\ daemon = "up"
    /\ sessions[i].open /\ sessions[i].conversation # Nothing
    /\ rows[i] # Nothing
    /\ Put(i, [rows[i] EXCEPT !.handle = sessions[i].conversation])
    /\ UNCHANGED <<legacy, disk, daemon, sessions, opening, import, deleted, marks>>

\* An agent stores a conversation: one of a session, or one begun without this
\* software.
AgentStores(n) ==
    /\ n \notin disk
    /\ disk' = disk \cup {n}
    /\ UNCHANGED <<rows, legacy, daemon, sessions, opening, import, deleted, marks>>

\* resumeSession: the row keeps its settings, the session its id.
Resume(i) ==
    /\ daemon = "up"
    /\ rows[i] # Nothing /\ rows[i].handle # Nothing /\ ~sessions[i].open
    /\ sessions' = [sessions EXCEPT ![i] = [open |-> TRUE, conversation |-> rows[i].handle]]
    /\ UNCHANGED <<rows, legacy, disk, daemon, opening, import, deleted, marks>>

\* setModel and setThinkingOption: the row that is there now is written again.
SetOption(i) ==
    /\ daemon = "up"
    /\ sessions[i].open /\ rows[i] # Nothing
    /\ Put(i, [rows[i] EXCEPT !.settings = "chosen"])
    /\ UNCHANGED <<legacy, disk, daemon, sessions, opening, import, deleted, marks>>

CloseSession(i) ==
    /\ daemon = "up"
    /\ sessions[i].open
    /\ sessions' = [sessions EXCEPT ![i] = Closed]
    /\ UNCHANGED <<rows, legacy, disk, daemon, opening, import, deleted, marks>>

\* deleteProject: the open sessions are closed, then the rows removed.
DeleteProject ==
    /\ daemon = "up"
    /\ Stored # {}
    /\ sessions' = [i \in Ids |-> IF rows[i] # Nothing THEN Closed ELSE sessions[i]]
    /\ rows' = [i \in Ids |-> Nothing]
    /\ deleted' = deleted \cup Stored
    /\ Races(Handles)
    /\ UNCHANGED <<legacy, disk, daemon, opening, marks>>

-----------------------------------------------------------------------------
(* Import                                                                  *)

\* Variant: what is known is looked up by the rows' ids.
ImportBeginsById ==
    /\ daemon = "up" /\ ~Importing
    /\ import' = [NoImport EXCEPT !.step = "scanning", !.known = Stored \cap Conversations,
                                  !.racing = Unnamed]
    /\ UNCHANGED <<rows, legacy, disk, daemon, sessions, opening, deleted, marks>>

\* scanHistory: what the rows already know is read before the disk is.
ImportBegins ==
    /\ daemon = "up" /\ ~Importing
    /\ import' = [NoImport EXCEPT !.step = "scanning", !.known = Handles,
                                  !.racing = Unnamed]
    /\ UNCHANGED <<rows, legacy, disk, daemon, sessions, opening, deleted, marks>>

\* Variant: nothing is taken for known.
ImportScansAll ==
    /\ import.step = "scanning"
    /\ import' = [import EXCEPT !.step = "scanned", !.fresh = disk]
    /\ UNCHANGED <<rows, legacy, disk, daemon, sessions, opening, deleted, marks>>

\* The disk has been read: what is not known is to be imported.
ImportScans ==
    /\ import.step = "scanning"
    /\ import' = [import EXCEPT !.step = "scanned", !.fresh = disk \ import.known]
    /\ UNCHANGED <<rows, legacy, disk, daemon, sessions, opening, deleted, marks>>

\* A file of the disk cannot be read: the import fails.
ImportFails ==
    /\ import.step = "scanning"
    /\ import' = NoImport
    /\ UNCHANGED <<rows, legacy, disk, daemon, sessions, opening, deleted, marks>>

\* putMany, one transaction: a row per conversation, under its own id, over
\* whatever was written there meanwhile.
ImportPuts ==
    /\ import.step = "scanned"
    /\ rows' = [i \in Ids |-> IF i \in import.fresh
                              THEN [handle |-> i, settings |-> "imported"]
                              ELSE rows[i]]
    /\ Wanted(import.fresh)
    /\ crossed' = crossed \cup (import.fresh \cap import.racing \cap Chats)
    /\ import' = NoImport
    /\ UNCHANGED <<legacy, disk, daemon, sessions, opening, unarchived>>

-----------------------------------------------------------------------------
Next ==
    \/ Start \/ Archive \/ Crash
    \/ \E t \in Threads : OpenThread(t) \/ RegisterThread(t)
    \/ \E c \in Consoles : CreateChat(c) \/ \E n \in Chats : FirstTurn(c, n)
    \/ \E n \in Conversations : AgentStores(n)
    \/ \E i \in Ids : ThreadStarted(i) \/ Resume(i) \/ SetOption(i) \/ CloseSession(i)
    \/ DeleteProject
    \/ ImportBegins \/ ImportScans \/ ImportFails \/ ImportPuts

Spec == Init /\ [][Next]_vars

-----------------------------------------------------------------------------
(* Properties                                                              *)

\* No two rows are the same conversation, whatever is migrated, created,
\* resumed, deleted and imported, and across restarts: what is in the library,
\* "created in this software included", is skipped by an import.  The exception
\* is a chat a session had begun and its row did not name yet when an import that
\* found it on disk read the rows.
OneRowPerConversation ==
    \A i, j \in Stored :
        rows[i].handle = rows[j].handle /\ rows[i].handle \notin crossed \cup {Nothing}
            => i = j

\* A deleted session comes back only when the user imports or opens it, never
\* because the daemon starts.  The exception: it was a row of a sessions.json
\* that a crash or an error kept from being archived, which a start with an
\* empty library migrates again.
NoResurrection == \A i \in deleted \cap Stored : unarchived /\ i \in DOMAIN Legacy

\* An import changes no row that was there when it began, and what it knew then or
\* found on disk has a row when it ends, unless deleted meanwhile.  A row that was
\* registered while the import read the disk is overwritten.
ImportOnlyAdds ==
    [][ImportPuts =>
        /\ \A i \in Stored \ import.racing : rows'[i] = rows[i]
        /\ \A n \in import.fresh \cup (import.known \ import.racing) :
              \E i \in Ids : rows'[i] # Nothing /\ rows'[i].handle = n]_vars

=============================================================================
