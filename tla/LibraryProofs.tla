---------------------------- MODULE LibraryProofs ----------------------------
(***************************************************************************)
(* Proofs about the session library and the scan that imports into it.     *)
(*                                                                         *)
(* The library: its type, that a start brings back no deleted session      *)
(* unless the migrated file was left in place, that no conversation has    *)
(* two rows unless an import overlapped its beginning, and that an import  *)
(* only adds, but for what was written and removed while it read the disk. *)
(*                                                                         *)
(* The scan, for any files, sizes of the head and the tail and lengths of  *)
(* a conversation: its type, that a conversation that is there throughout  *)
(* a scan is found, and that its title is the latest.                      *)
(***************************************************************************)
EXTENDS Library, HistoryScan, SequenceTheorems, WellFoundedInduction, TLAPS

-----------------------------------------------------------------------------
(* The inductive invariant                                                 *)

\* Before the migrated file is archived or left behind nothing has been deleted,
\* and before the daemon is up nothing is imported.
MigratedOnce ==
    /\ legacy /\ ~unarchived => deleted = {} /\ daemon # "up"
    /\ legacy /\ ~unarchived /\ daemon = "down" => Stored = {}
    /\ daemon # "up" => import = NoImport

\* A row under an agent's own id, and a row of a thread, is that conversation's.
RowNamed ==
    \A i \in Stored : i \in Conversations \/ rows[i].handle \in Threads => rows[i].handle = i

\* An open session has a row, whose handle is not known yet or its conversation.
SessionHasRow ==
    \A i \in Ids :
        /\ sessions[i].open =>
              /\ rows[i] # Nothing
              /\ rows[i].handle \in {Nothing, sessions[i].conversation}
              /\ i \in Conversations \/ sessions[i].conversation \in Threads
                    => sessions[i].conversation = i
        /\ ~sessions[i].open => sessions[i] = Closed

\* No other row and no other session has an open session's conversation, unless an
\* import took it for new.
SessionAlone ==
    \A i \in Ids : sessions[i].open /\ sessions[i].conversation \notin crossed \cup {Nothing} =>
        \A j \in Ids :
            /\ rows[j] # Nothing /\ rows[j].handle = sessions[i].conversation => j = i
            /\ sessions[j].conversation = sessions[i].conversation => j = i

\* What the rows and sessions have while an import reads the disk is what it knows
\* but for what it races with.
ImportKnows ==
    /\ Importing =>
          /\ import.step \in {"scanning", "scanned"}
          /\ Handles \subseteq import.known \cup import.racing
          /\ \A i \in Ids : sessions[i].conversation
                               \in import.known \cup import.racing \cup {Nothing}
          /\ import.known \subseteq Handles \cup import.racing
    /\ import.fresh \cap import.known = {}

\* Nothing is open while the daemon is not up.
DownIsEmpty == daemon # "up" => import = NoImport /\ \A i \in Ids : sessions[i] = Closed

Kept == OneRowPerConversation /\ RowNamed /\ SessionHasRow /\ SessionAlone

IInv ==
    /\ TypeOK
    /\ Kept
    /\ ImportKnows
    /\ DownIsEmpty

-----------------------------------------------------------------------------
(* Types                                                                   *)

LEMMA RowIs ==
    ASSUME TypeOK, NEW i \in Ids
    PROVE  /\ rows[i] # Nothing =>
                 /\ rows[i] \in Row
                 /\ rows[i] = [handle |-> rows[i].handle, settings |-> rows[i].settings]
           /\ rows[i] = Nothing => rows[i] \notin Row
           /\ sessions[i] \in Session
BY NothingAssumption DEF TypeOK, Row

\* A step that writes one row at most keeps the type of the rows.
LEMMA PutTyped ==
    ASSUME TypeOK, NEW i \in Ids, NEW row \in Row, Put(i, row)
    PROVE  /\ rows' \in [Ids -> Row \cup {Nothing}]
           /\ \A j \in Ids : rows'[j] = IF j = i THEN row ELSE rows[j]
           /\ Stored' = Stored \cup {i}
BY NothingAssumption DEF TypeOK, Put, Stored

\* Deleting, registering and the first turns keep the type of an import.
LEMMA RacesTyped ==
    ASSUME TypeOK, NEW S \in SUBSET Conversations, Races(S)
    PROVE  /\ import' \in [step : {"none", "scanning", "scanned"},
                           known : SUBSET Conversations, fresh : SUBSET Conversations,
                           racing : SUBSET Conversations]
           /\ import'.step = import.step /\ import'.known = import.known
           /\ import'.fresh = import.fresh
           /\ Importing' => Importing /\ import'.racing = import.racing \cup S
BY DEF TypeOK, Races, Importing

LEMMA HandlesTyped ==
    ASSUME TypeOK
    PROVE  Handles \subseteq Conversations
BY RowIs DEF Handles, Stored, Row

LEMMA TypeNext ==
    ASSUME TypeOK, [Next]_vars
    PROVE  TypeOK'
<1> USE DEF TypeOK, Session, Closed, NoImport, Wanted, marks
<1> USE DEF Ids, Conversations
<1>1. CASE Start
  BY <1>1, IdsAssumption DEF Start, Row
<1>2. CASE Archive
  BY <1>2 DEF Archive
<1>3. CASE Crash
  BY <1>3 DEF Crash
<1>4. ASSUME NEW t \in Threads, OpenThread(t) PROVE TypeOK'
  BY <1>4 DEF OpenThread
<1>5. ASSUME NEW t \in Threads, RegisterThread(t) PROVE TypeOK'
  <2>1. [handle |-> t, settings |-> "chosen"] \in Row
    BY DEF Row
  <2>2. {t} \in SUBSET Conversations
    OBVIOUS
  <2> QED BY <1>5, <2>1, <2>2, PutTyped, RacesTyped DEF RegisterThread
<1>6. ASSUME NEW c \in Consoles, CreateChat(c) PROVE TypeOK'
  <2>1. [handle |-> Nothing, settings |-> "chosen"] \in Row
    BY DEF Row
  <2> QED BY <1>6, <2>1, PutTyped DEF CreateChat
<1>7. ASSUME NEW c \in Consoles, NEW n \in Chats, FirstTurn(c, n) PROVE TypeOK'
  <2>1. {n} \in SUBSET Conversations
    OBVIOUS
  <2> QED BY <1>7, <2>1, RacesTyped DEF FirstTurn
<1>8. ASSUME NEW n \in Conversations, AgentStores(n) PROVE TypeOK'
  BY <1>8 DEF AgentStores
<1>9. ASSUME NEW i \in Ids, ThreadStarted(i) PROVE TypeOK'
  <2>1. [rows[i] EXCEPT !.handle = sessions[i].conversation] \in Row
    BY <1>9, RowIs DEF ThreadStarted, Row
  <2> QED BY <1>9, <2>1, PutTyped DEF ThreadStarted
<1>10. ASSUME NEW i \in Ids, Resume(i) PROVE TypeOK'
  <2>1. rows[i].handle \in Conversations
    BY <1>10, RowIs DEF Resume, Row
  <2> QED BY <1>10, <2>1 DEF Resume
<1>11. ASSUME NEW i \in Ids, SetOption(i) PROVE TypeOK'
  <2>1. [rows[i] EXCEPT !.settings = "chosen"] \in Row
    BY <1>11, RowIs DEF SetOption, Row
  <2> QED BY <1>11, <2>1, PutTyped DEF SetOption
<1>12. ASSUME NEW i \in Ids, CloseSession(i) PROVE TypeOK'
  BY <1>12 DEF CloseSession
<1>13. CASE DeleteProject
  BY <1>13, HandlesTyped, RacesTyped DEF DeleteProject, Stored
<1>14. CASE ImportBegins
  <2>1. Unnamed \subseteq Conversations
    BY RowIs DEF Unnamed, Stored
  <2> QED BY <1>14, <2>1, HandlesTyped DEF ImportBegins
<1>15. CASE ImportScans
  BY <1>15 DEF ImportScans
<1>16. CASE ImportFails
  BY <1>16 DEF ImportFails
<1>17. CASE ImportPuts
  <2>1. \A i \in import.fresh : [handle |-> i, settings |-> "imported"] \in Row
    BY DEF Row
  <2> QED BY <1>17, <2>1 DEF ImportPuts
<1>18. CASE UNCHANGED vars
  BY <1>18 DEF vars
<1> QED BY <1>1, <1>2, <1>3, <1>4, <1>5, <1>6, <1>7, <1>8, <1>9, <1>10, <1>11, <1>12,
           <1>13, <1>14, <1>15, <1>16, <1>17, <1>18 DEF Next

LEMMA TypeInit == Init => TypeOK
<1> SUFFICES ASSUME Init PROVE TypeOK
  OBVIOUS
<1>1. Closed \in Session
  BY DEF Closed, Session
<1>2. NoImport \in [step : {"none", "scanning", "scanned"},
                    known : SUBSET Conversations, fresh : SUBSET Conversations,
                    racing : SUBSET Conversations]
  BY DEF NoImport
<1>3. {Legacy[i] : i \in DOMAIN Legacy} \subseteq Conversations
  BY IdsAssumption
<1>4. legacy \in BOOLEAN
  BY DEF Init
<1> QED BY <1>1, <1>2, <1>3, <1>4 DEF Init, TypeOK

\* The library keeps its type, whatever the agents and clients do: a handle is a
\* conversation's name, never the id of a session of this software.
THEOREM TypeCorrect == Spec => []TypeOK
BY TypeInit, TypeNext, PTL DEF Spec

-----------------------------------------------------------------------------
(* What a start migrates                                                   *)

LEMMA MigrationNext ==
    ASSUME TypeOK, MigratedOnce, NoResurrection, [Next]_vars
    PROVE  MigratedOnce' /\ NoResurrection'
<1> USE DEF MigratedOnce, NoResurrection, Stored, Wanted, marks
<1>1. CASE Start
  <2>1. /\ UNCHANGED <<legacy, import, deleted, unarchived>> /\ daemon' # "down"
        /\ import = NoImport
    BY <1>1 DEF Start
  <2>2. CASE legacy /\ Stored = {}
    <3>1. daemon' = "migrated" /\ Stored' \subseteq DOMAIN Legacy
      BY <1>1, <2>2 DEF Start
    <3> QED BY <2>1, <2>2, <3>1
  <2>3. CASE ~(legacy /\ Stored = {})
    <3>1. daemon = "down" /\ rows' = rows
      BY <1>1, <2>3 DEF Start
    <3> QED BY <2>1, <2>3, <3>1
  <2> QED BY <2>2, <2>3
<1>2. CASE Archive
  BY <1>2 DEF Archive
<1>3. CASE Crash
  <2>1. /\ UNCHANGED <<rows, legacy, deleted>> /\ import' = NoImport
        /\ daemon # "down" /\ unarchived' = (unarchived \/ daemon = "migrated")
    BY <1>3 DEF Crash
  <2>2. (daemon = "up" /\ (unarchived' <=> unarchived)) \/ unarchived'
    BY <2>1 DEF TypeOK
  <2>3. NoResurrection'
    BY <2>1, <2>2
  <2> QED BY <2>1, <2>2, <2>3
<1>4. ASSUME NEW t \in Threads, OpenThread(t) PROVE MigratedOnce' /\ NoResurrection'
  BY <1>4 DEF OpenThread
<1>5. ASSUME NEW t \in Threads, RegisterThread(t) PROVE MigratedOnce' /\ NoResurrection'
  BY <1>5 DEF RegisterThread, Put, TypeOK, Races, Importing
<1>6. ASSUME NEW c \in Consoles, CreateChat(c) PROVE MigratedOnce' /\ NoResurrection'
  BY <1>6 DEF CreateChat, Put, TypeOK
<1>7. ASSUME NEW c \in Consoles, NEW n \in Chats, FirstTurn(c, n)
      PROVE  MigratedOnce' /\ NoResurrection'
  BY <1>7 DEF FirstTurn, Races, Importing
<1>8. ASSUME NEW n \in Conversations, AgentStores(n) PROVE MigratedOnce' /\ NoResurrection'
  BY <1>8 DEF AgentStores
<1>9. ASSUME NEW i \in Ids, ThreadStarted(i) PROVE MigratedOnce' /\ NoResurrection'
  BY <1>9 DEF ThreadStarted, Put, TypeOK
<1>10. ASSUME NEW i \in Ids, Resume(i) PROVE MigratedOnce' /\ NoResurrection'
  BY <1>10 DEF Resume
<1>11. ASSUME NEW i \in Ids, SetOption(i) PROVE MigratedOnce' /\ NoResurrection'
  BY <1>11 DEF SetOption, Put, TypeOK
<1>12. ASSUME NEW i \in Ids, CloseSession(i) PROVE MigratedOnce' /\ NoResurrection'
  BY <1>12 DEF CloseSession
<1>13. CASE DeleteProject
  BY <1>13 DEF DeleteProject, Races, Importing
<1>14. CASE ImportBegins
  BY <1>14 DEF ImportBegins
<1>15. CASE ImportScans
  BY <1>15 DEF ImportScans, NoImport
<1>16. CASE ImportFails
  BY <1>16 DEF ImportFails
<1>17. CASE ImportPuts
  <2>1. import.step # NoImport.step
    BY <1>17 DEF ImportPuts, NoImport
  <2>2. legacy' = legacy /\ daemon' = daemon /\ unarchived' = unarchived /\ daemon = "up"
        /\ deleted' = deleted \ import.fresh /\ import' = NoImport
    BY <1>17, <2>1 DEF ImportPuts
  <2>3. Stored' \subseteq Stored \cup import.fresh
    BY <1>17 DEF ImportPuts
  <2> QED BY <2>2, <2>3
<1>18. CASE UNCHANGED vars
  BY <1>18 DEF vars
<1> QED BY <1>1, <1>2, <1>3, <1>4, <1>5, <1>6, <1>7, <1>8, <1>9, <1>10, <1>11, <1>12,
           <1>13, <1>14, <1>15, <1>16, <1>17, <1>18 DEF Next

LEMMA MigrationInit == Init => MigratedOnce /\ NoResurrection
BY DEF Init, MigratedOnce, NoResurrection, Stored

\* A start brings no deleted session back, whatever sessions.json held, unless a
\* crash or an error kept that file in place: then it brings back its rows only.
THEOREM NoResurrectionAlways == Spec => []NoResurrection
BY MigrationInit, MigrationNext, TypeInit, TypeNext, PTL DEF Spec

-----------------------------------------------------------------------------
(* A conversation has one row                                              *)

LEMMA ClosedIs == ~Closed.open /\ Closed.conversation = Nothing
BY DEF Closed

LEMMA LibraryInit == Init => IInv
<1> SUFFICES ASSUME Init PROVE IInv
  OBVIOUS
<1>1. /\ Stored = {} /\ import = NoImport
      /\ \A i \in Ids : rows[i] = Nothing /\ sessions[i] = Closed
  BY DEF Init, Stored
<1>2. OneRowPerConversation /\ RowNamed
  BY <1>1 DEF OneRowPerConversation, RowNamed
<1>3. \A i \in Ids : ~sessions[i].open
  BY <1>1 DEF Closed
<1>4. SessionHasRow /\ SessionAlone
  BY <1>1, <1>3 DEF SessionHasRow, SessionAlone
<1>5. ImportKnows /\ DownIsEmpty
  BY <1>1 DEF ImportKnows, Importing, NoImport, DownIsEmpty
<1> QED BY <1>2, <1>4, <1>5, TypeInit DEF IInv, Kept

\* What an import knows is kept by a step that adds no handle but one the import
\* races with or a session has, and takes none away that it does not race with.
LEMMA KnowsKeeps ==
    ASSUME ImportKnows, NEW S,
           Importing' => Importing /\ import'.racing = import.racing \cup S,
           import'.step = import.step, import'.known = import.known,
           import'.fresh = import.fresh,
           Handles' \subseteq Handles \cup S \cup {sessions[i].conversation : i \in Ids},
           Handles \subseteq Handles' \cup S,
           \A i \in Ids : sessions'[i].conversation
                             \in Handles \cup S \cup {Nothing, sessions[i].conversation}
    PROVE  ImportKnows'
<1>1. Nothing \notin Handles /\ Nothing \notin Handles'
  BY DEF Handles
<1>2. ASSUME Importing'
      PROVE  /\ Handles' \subseteq import'.known \cup import'.racing
             /\ import'.known \subseteq Handles' \cup import'.racing
             /\ \A i \in Ids : sessions'[i].conversation
                                  \in import'.known \cup import'.racing \cup {Nothing}
  BY <1>1, <1>2 DEF ImportKnows
<1> QED BY <1>2 DEF ImportKnows

\* ... and by one the import is not told of, which changes no handle but to what
\* the session has.
LEMMA KnowsStays ==
    ASSUME ImportKnows, import' = import,
           Handles' \subseteq Handles \cup {sessions[i].conversation : i \in Ids},
           Handles \subseteq Handles',
           \A i \in Ids : sessions'[i].conversation
                             \in Handles \cup {Nothing, sessions[i].conversation}
    PROVE  ImportKnows'
<1>1. Importing' => Importing /\ import'.racing = import.racing \cup {}
  BY DEF Importing
<1> QED BY <1>1, KnowsKeeps

LEMMA KeptRegisterThread ==
    ASSUME TypeOK, Kept, ImportKnows, NEW t \in Threads, RegisterThread(t)
    PROVE  Kept' /\ ImportKnows'
<1> DEFINE row == [handle |-> t, settings |-> "chosen"]
<1>1. t \in Ids /\ t \in Conversations /\ t # Nothing /\ row # Nothing
  BY IdsAssumption, NothingAssumption DEF Ids, Conversations, Row
<1>2. /\ \A j \in Ids : rows'[j] = IF j = t THEN row ELSE rows[j]
      /\ \A j \in Ids : sessions'[j] = IF j = t THEN [open |-> TRUE, conversation |-> t]
                                               ELSE sessions[j]
      /\ crossed' = crossed /\ Races({t})
  BY <1>1 DEF RegisterThread, Put, TypeOK, marks
<1>3. \A j \in Ids : rows[j] # Nothing /\ rows[j].handle = t => j = t
  BY DEF Kept, RowNamed, Stored
<1>4. \A j \in Ids : sessions[j].conversation = t => j = t
  BY <1>1 DEF Kept, SessionHasRow, Closed
<1>5. OneRowPerConversation'
  BY <1>2, <1>3 DEF Kept, OneRowPerConversation, Stored
<1>6. RowNamed'
  BY <1>2 DEF Kept, RowNamed, Stored
<1>7. SessionHasRow'
  BY <1>1, <1>2 DEF Kept, SessionHasRow
<1>8. SessionAlone'
  BY <1>1, <1>2, <1>3, <1>4 DEF Kept, SessionAlone
<1>9. ImportKnows'
  <2>0. \A j \in Ids : j # t => rows'[j] = rows[j]
    BY <1>2
  <2>1. Handles' \subseteq Handles \cup {t} /\ Handles \subseteq Handles' \cup {t}
    <3>1. rows'[t].handle = t /\ (rows[t] # Nothing => rows[t].handle = t)
      BY <1>1, <1>2 DEF Kept, RowNamed, Stored
    <3> QED BY <2>0, <3>1 DEF Handles, Stored
  <2>2. \A j \in Ids : sessions'[j].conversation
                          \in Handles \cup {t} \cup {Nothing, sessions[j].conversation}
    BY <1>2
  <2>3. {t} \in SUBSET Conversations
    BY <1>1
  <2>4. /\ Importing' => Importing /\ import'.racing = import.racing \cup {t}
        /\ import'.step = import.step /\ import'.known = import.known
        /\ import'.fresh = import.fresh
    BY <1>2, <2>3, RacesTyped
  <2> QED BY <2>1, <2>2, <2>4, KnowsKeeps
<1> QED BY <1>5, <1>6, <1>7, <1>8, <1>9 DEF Kept

LEMMA KeptCreateChat ==
    ASSUME TypeOK, Kept, ImportKnows, NEW c \in Consoles, CreateChat(c)
    PROVE  Kept' /\ ImportKnows'
<1> DEFINE row == [handle |-> Nothing, settings |-> "chosen"]
<1>1. /\ c \in Ids /\ c \notin Conversations /\ row # Nothing
      /\ Nothing \notin Conversations /\ Nothing \notin Threads
  BY IdsAssumption, NothingAssumption DEF Ids, Conversations, Row
<1>2. /\ \A j \in Ids : rows'[j] = IF j = c THEN row ELSE rows[j]
      /\ \A j \in Ids : sessions'[j] = IF j = c
                             THEN [open |-> TRUE, conversation |-> Nothing] ELSE sessions[j]
      /\ crossed' = crossed /\ import' = import /\ rows[c] = Nothing
  BY <1>1 DEF CreateChat, Put, TypeOK, marks
<1>3. OneRowPerConversation'
  BY <1>2 DEF Kept, OneRowPerConversation, Stored
<1>4. RowNamed'
  BY <1>1, <1>2 DEF Kept, RowNamed, Stored
<1>5. SessionHasRow'
  BY <1>1, <1>2 DEF Kept, SessionHasRow
<1>6. SessionAlone'
  BY <1>1, <1>2 DEF Kept, SessionAlone
<1>7. ImportKnows'
  <2>1. Handles' = Handles
    BY <1>1, <1>2 DEF Handles, Stored
  <2>2. \A j \in Ids : sessions'[j].conversation \in {Nothing, sessions[j].conversation}
    BY <1>2
  <2> QED BY <1>2, <2>1, <2>2, KnowsStays
<1> QED BY <1>3, <1>4, <1>5, <1>6, <1>7 DEF Kept

LEMMA KeptFirstTurn ==
    ASSUME TypeOK, Kept, ImportKnows, NEW c \in Consoles, NEW n \in Chats, FirstTurn(c, n)
    PROVE  Kept' /\ ImportKnows'
<1>1. /\ c \in Ids /\ c \notin Conversations /\ n \notin Threads /\ n # Nothing
      /\ Nothing \notin Threads
  BY IdsAssumption DEF Ids, Conversations
<1>2. /\ rows' = rows /\ sessions[c] = [open |-> TRUE, conversation |-> Nothing]
      /\ \A j \in Ids : sessions'[j] = IF j = c
                             THEN [open |-> TRUE, conversation |-> n] ELSE sessions[j]
      /\ crossed' = crossed /\ Races({n})
  BY <1>1 DEF FirstTurn, TypeOK, marks
<1>3. \A j \in Ids : rows[j] # Nothing => rows[j].handle # n
  BY <1>1 DEF FirstTurn, Handles, Stored
<1>4. \A j \in Ids : sessions[j].conversation # n
  BY DEF FirstTurn
<1>5. OneRowPerConversation' /\ RowNamed'
  BY <1>2 DEF Kept, OneRowPerConversation, RowNamed, Stored
<1>6. rows[c] # Nothing /\ rows[c].handle = Nothing
  BY <1>1, <1>2 DEF Kept, SessionHasRow
<1>7. SessionHasRow'
  <2> SUFFICES ASSUME NEW j \in Ids
               PROVE  (/\ sessions[j].open =>
                            /\ rows[j] # Nothing
                            /\ rows[j].handle \in {Nothing, sessions[j].conversation}
                            /\ j \in Conversations \/ sessions[j].conversation \in Threads
                                  => sessions[j].conversation = j
                       /\ ~sessions[j].open => sessions[j] = Closed)'
    BY DEF SessionHasRow
  <2>1. CASE j = c
    BY <1>1, <1>2, <1>6, <2>1
  <2>2. CASE j # c
    BY <1>2, <2>2 DEF Kept, SessionHasRow
  <2> QED BY <2>1, <2>2
<1>8. SessionAlone'
  BY <1>1, <1>2, <1>3, <1>4 DEF Kept, SessionAlone
<1>9. ImportKnows'
  <2>1. Handles' = Handles
    BY <1>2 DEF Handles, Stored
  <2>2. \A j \in Ids : sessions'[j].conversation
                          \in Handles \cup {n} \cup {Nothing, sessions[j].conversation}
    BY <1>2
  <2>3. {n} \in SUBSET Conversations
    BY DEF Conversations
  <2>4. /\ Importing' => Importing /\ import'.racing = import.racing \cup {n}
        /\ import'.step = import.step /\ import'.known = import.known
        /\ import'.fresh = import.fresh
    BY <1>2, <2>3, RacesTyped
  <2> QED BY <2>1, <2>2, <2>4, KnowsKeeps
<1> QED BY <1>5, <1>7, <1>8, <1>9 DEF Kept

LEMMA KeptThreadStarted ==
    ASSUME TypeOK, Kept, ImportKnows, NEW i \in Ids, ThreadStarted(i)
    PROVE  Kept' /\ ImportKnows'
<1> DEFINE row == [rows[i] EXCEPT !.handle = sessions[i].conversation]
<1>1. /\ sessions[i].open /\ sessions[i].conversation # Nothing /\ rows[i] # Nothing
      /\ sessions' = sessions /\ crossed' = crossed /\ import' = import
  BY DEF ThreadStarted, marks
<1>2. row \in Row /\ row # Nothing /\ row.handle = sessions[i].conversation
  BY <1>1, RowIs, NothingAssumption DEF Row, Session
<1>3. \A j \in Ids : rows'[j] = IF j = i THEN row ELSE rows[j]
  BY DEF ThreadStarted, Put, TypeOK
<1>4. sessions[i].conversation \notin crossed =>
        \A j \in Ids : rows[j] # Nothing /\ rows[j].handle = sessions[i].conversation => j = i
  BY <1>1 DEF Kept, SessionAlone
<1> HIDE DEF row
<1>5. OneRowPerConversation'
  BY <1>1, <1>2, <1>3, <1>4 DEF Kept, OneRowPerConversation, Stored
<1>6. RowNamed'
  BY <1>1, <1>2, <1>3 DEF Kept, RowNamed, SessionHasRow, Stored
<1>7. SessionHasRow'
  BY <1>1, <1>2, <1>3 DEF Kept, SessionHasRow
<1>8. SessionAlone'
  BY <1>1, <1>2, <1>3 DEF Kept, SessionAlone
<1>9. ImportKnows'
  <2>1. rows[i].handle \in {Nothing, sessions[i].conversation}
    BY <1>1 DEF Kept, SessionHasRow
  <2>2. Handles' \subseteq Handles \cup {sessions[j].conversation : j \in Ids}
    BY <1>2, <1>3 DEF Handles, Stored
  <2>3. Handles \subseteq Handles'
    BY <1>2, <1>3, <2>1 DEF Handles, Stored
  <2> QED BY <1>1, <2>2, <2>3, KnowsStays
<1> QED BY <1>5, <1>6, <1>7, <1>8, <1>9 DEF Kept

LEMMA KeptResume ==
    ASSUME TypeOK, Kept, ImportKnows, NEW i \in Ids, Resume(i)
    PROVE  Kept' /\ ImportKnows'
<1>1. /\ rows' = rows /\ rows[i] # Nothing /\ rows[i].handle # Nothing
      /\ crossed' = crossed /\ import' = import
  BY DEF Resume, marks
<1>2. \A j \in Ids : sessions'[j] = IF j = i
                       THEN [open |-> TRUE, conversation |-> rows[i].handle] ELSE sessions[j]
  BY DEF Resume, TypeOK
<1>3. rows[i].handle \notin crossed =>
        \A j \in Ids : rows[j] # Nothing /\ rows[j].handle = rows[i].handle => j = i
  BY <1>1 DEF Kept, OneRowPerConversation, Stored
<1>4. rows[i].handle \notin crossed =>
        \A j \in Ids : sessions[j].conversation = rows[i].handle => j = i
  BY <1>1 DEF Kept, SessionAlone, SessionHasRow, Closed
<1>5. i \in Conversations \/ rows[i].handle \in Threads => rows[i].handle = i
  BY <1>1 DEF Kept, RowNamed, Stored
<1>6. OneRowPerConversation' /\ RowNamed'
  BY <1>1 DEF Kept, OneRowPerConversation, RowNamed, Stored
<1>7. SessionHasRow'
  BY <1>1, <1>2, <1>5 DEF Kept, SessionHasRow
<1>8. SessionAlone'
  BY <1>1, <1>2, <1>3, <1>4 DEF Kept, SessionAlone
<1>9. ImportKnows'
  <2>1. Handles' = Handles /\ rows[i].handle \in Handles
    BY <1>1 DEF Handles, Stored
  <2> QED BY <1>1, <1>2, <2>1, KnowsStays
<1> QED BY <1>6, <1>7, <1>8, <1>9 DEF Kept

LEMMA KeptSetOption ==
    ASSUME TypeOK, Kept, ImportKnows, NEW i \in Ids, SetOption(i)
    PROVE  Kept' /\ ImportKnows'
<1> DEFINE row == [rows[i] EXCEPT !.settings = "chosen"]
<1>1. /\ sessions' = sessions /\ rows[i] # Nothing
      /\ crossed' = crossed /\ import' = import
  BY DEF SetOption, marks
<1>2. row # Nothing /\ row.handle = rows[i].handle
  BY <1>1, RowIs, NothingAssumption DEF Row
<1>3. \A j \in Ids : rows'[j] = IF j = i THEN row ELSE rows[j]
  BY DEF SetOption, Put, TypeOK
<1> HIDE DEF row
<1>4. \A j \in Ids : /\ rows'[j] = Nothing <=> rows[j] = Nothing
                     /\ rows'[j].handle = rows[j].handle
  BY <1>1, <1>2, <1>3
<1>5. Kept'
  BY <1>1, <1>4 DEF Kept, OneRowPerConversation, RowNamed, SessionHasRow, SessionAlone, Stored
<1>6. Handles' = Handles
  BY <1>4 DEF Handles, Stored
<1> QED BY <1>1, <1>5, <1>6, KnowsStays

LEMMA KeptCrash ==
    ASSUME IInv, Crash
    PROVE  Kept' /\ ImportKnows' /\ DownIsEmpty'
<1>1. /\ rows' = rows /\ import' = NoImport /\ crossed' = crossed
      /\ \A i \in Ids : sessions'[i] = Closed
  BY DEF Crash
<1>2. \A i \in Ids : ~sessions'[i].open
  BY <1>1 DEF Closed
<1>3. OneRowPerConversation' /\ RowNamed'
  BY <1>1 DEF IInv, Kept, OneRowPerConversation, RowNamed, Stored
<1>4. SessionHasRow' /\ SessionAlone'
  BY <1>1, <1>2 DEF SessionHasRow, SessionAlone
<1>5. ImportKnows' /\ DownIsEmpty'
  BY <1>1 DEF ImportKnows, Importing, NoImport, DownIsEmpty
<1> QED BY <1>3, <1>4, <1>5 DEF Kept

LEMMA KeptStart ==
    ASSUME IInv, Start
    PROVE  Kept' /\ ImportKnows' /\ DownIsEmpty'
<1>1. /\ sessions' = sessions /\ import' = import /\ import = NoImport
      /\ crossed' = crossed /\ \A i \in Ids : sessions[i] = Closed
  BY DEF Start, IInv, DownIsEmpty, marks
<1>2. \A i \in Ids : ~sessions'[i].open
  BY <1>1 DEF Closed
<1>3. OneRowPerConversation' /\ RowNamed'
  <2>1. CASE legacy /\ Stored = {}
    <3>1. \A i \in Ids : rows'[i] = IF i \in DOMAIN Legacy
                                THEN [handle |-> Legacy[i], settings |-> "chosen"] ELSE Nothing
      BY <2>1 DEF Start
    <3>2. \A i \in Ids : rows'[i] # Nothing =>
                            i \in DOMAIN Legacy /\ rows'[i].handle = Legacy[i]
      <4> TAKE i \in Ids
      <4>1. CASE i \in DOMAIN Legacy
        <5>1. rows'[i] = [handle |-> Legacy[i], settings |-> "chosen"]
          BY <3>1, <4>1
        <5> QED BY <4>1, <5>1
      <4>2. CASE i \notin DOMAIN Legacy
        BY <3>1, <4>2
      <4> QED BY <4>1, <4>2
    <3> QED BY <3>2, IdsAssumption DEF OneRowPerConversation, RowNamed, Stored
  <2>2. CASE ~(legacy /\ Stored = {})
    BY <1>1, <2>2 DEF Start, IInv, Kept, OneRowPerConversation, RowNamed, Stored
  <2> QED BY <2>1, <2>2
<1>4. SessionHasRow' /\ SessionAlone'
  BY <1>1, <1>2 DEF SessionHasRow, SessionAlone
<1>5. ImportKnows' /\ DownIsEmpty'
  BY <1>1 DEF ImportKnows, Importing, NoImport, DownIsEmpty
<1> QED BY <1>3, <1>4, <1>5 DEF Kept

LEMMA KeptClose ==
    ASSUME TypeOK, Kept, ImportKnows, NEW i \in Ids, CloseSession(i)
    PROVE  Kept' /\ ImportKnows'
<1>1. /\ rows' = rows /\ import' = import /\ crossed' = crossed
      /\ \A j \in Ids : sessions'[j] = IF j = i THEN Closed ELSE sessions[j]
  BY DEF CloseSession, TypeOK, marks
<1>2. OneRowPerConversation' /\ RowNamed'
  BY <1>1 DEF Kept, OneRowPerConversation, RowNamed, Stored
<1>3. SessionHasRow'
  BY <1>1, ClosedIs DEF Kept, SessionHasRow
<1>4. SessionAlone'
  BY <1>1, ClosedIs DEF Kept, SessionAlone
<1>5. Handles' = Handles
  BY <1>1 DEF Handles, Stored
<1>6. \A j \in Ids : sessions'[j].conversation \in {Nothing, sessions[j].conversation}
  BY <1>1, ClosedIs
<1>7. ImportKnows'
  BY <1>1, <1>5, <1>6, KnowsStays
<1> QED BY <1>2, <1>3, <1>4, <1>7 DEF Kept

LEMMA KeptDelete ==
    ASSUME TypeOK, Kept, ImportKnows, DeleteProject
    PROVE  Kept' /\ ImportKnows'
<1>1. /\ \A i \in Ids : rows'[i] = Nothing
      /\ \A i \in Ids : sessions'[i] = IF rows[i] # Nothing THEN Closed ELSE sessions[i]
      /\ Races(Handles)
  BY DEF DeleteProject
<1>2. \A i \in Ids : ~sessions'[i].open /\ sessions'[i] = Closed
  BY <1>1, ClosedIs DEF Kept, SessionHasRow
<1>3. OneRowPerConversation' /\ RowNamed'
  BY <1>1 DEF OneRowPerConversation, RowNamed, Stored
<1>4. SessionHasRow' /\ SessionAlone'
  BY <1>2 DEF SessionHasRow, SessionAlone
<1>5. Handles' = {}
  BY <1>1 DEF Handles, Stored
<1>6. \A i \in Ids : sessions'[i].conversation = Nothing
  BY <1>2, ClosedIs
<1>7. /\ Importing' => Importing /\ import'.racing = import.racing \cup Handles
      /\ import'.step = import.step /\ import'.known = import.known
      /\ import'.fresh = import.fresh
  BY <1>1, HandlesTyped, RacesTyped
<1>8. ImportKnows'
  BY <1>5, <1>6, <1>7, KnowsKeeps
<1> QED BY <1>3, <1>4, <1>8 DEF Kept

\* What an import writes, but for what it races with, no row and no open session
\* has.
LEMMA ImportIsNew ==
    ASSUME IInv, import.step = "scanned"
    PROVE  /\ import.fresh \subseteq Conversations /\ import.fresh \subseteq Ids
           /\ import.known \subseteq Handles \cup import.racing
           /\ import.fresh \cap import.known = {}
           /\ Nothing \notin import.fresh
           /\ \A i \in Ids : rows[i] # Nothing =>
                  rows[i].handle \notin import.fresh \ import.racing
           /\ \A i \in Ids : rows[i] # Nothing => i \notin import.fresh \ import.racing
           /\ \A i \in Ids : sessions[i].conversation \notin import.fresh \ import.racing
<1>1. import.fresh \subseteq Conversations /\ Conversations \subseteq Ids
  BY DEF IInv, TypeOK, Ids
<1>2. /\ import.known \subseteq Handles \cup import.racing
      /\ Handles \subseteq import.known \cup import.racing
      /\ import.fresh \cap import.known = {}
      /\ \A i \in Ids : sessions[i].conversation
                           \in import.known \cup import.racing \cup {Nothing}
  BY DEF IInv, ImportKnows, Importing, NoImport
<1>3. Nothing \notin import.fresh
  BY <1>1, IdsAssumption
<1>4. ASSUME NEW i \in Ids, rows[i] # Nothing
      PROVE  rows[i].handle \notin import.fresh \ import.racing
  BY <1>2, <1>3, <1>4 DEF Handles, Stored
<1>5. ASSUME NEW i \in Ids, rows[i] # Nothing
      PROVE  i \notin import.fresh \ import.racing
  BY <1>1, <1>4, <1>5 DEF IInv, Kept, RowNamed, Stored
<1> QED BY <1>1, <1>2, <1>3, <1>4, <1>5

LEMMA ImportPutsRows ==
    ASSUME IInv, ImportPuts
    PROVE  \A i \in Ids : /\ i \in import.fresh => rows'[i] # Nothing /\ rows'[i].handle = i
                          /\ i \notin import.fresh => rows'[i] = rows[i]
<1>1. \A i \in Ids : rows'[i] = IF i \in import.fresh
                              THEN [handle |-> i, settings |-> "imported"] ELSE rows[i]
  BY DEF ImportPuts
<1>2. ASSUME NEW i \in Ids, i \in import.fresh
      PROVE  rows'[i] # Nothing /\ rows'[i].handle = i
  <2>1. rows'[i] = [handle |-> i, settings |-> "imported"] /\ i \in Conversations
    BY <1>1, <1>2 DEF IInv, TypeOK
  <2>2. rows'[i] \in Row
    BY <2>1 DEF Row
  <2> QED BY <2>1, <2>2, NothingAssumption
<1> QED BY <1>1, <1>2

LEMMA KeptImportPuts ==
    ASSUME IInv, ImportPuts
    PROVE  Kept' /\ ImportKnows' /\ DownIsEmpty'
<1>1. /\ import.step = "scanned" /\ sessions' = sessions /\ import' = NoImport
      /\ daemon' = daemon /\ crossed \subseteq crossed'
      /\ \A n \in import.fresh : n \in Threads \/ n \notin import.racing \/ n \in crossed'
  BY DEF ImportPuts, IInv, TypeOK, Conversations
<1>2. RowNamed'
  BY <1>1, ImportIsNew, ImportPutsRows DEF IInv, Kept, RowNamed, Stored
<1>3. OneRowPerConversation'
  <2> SUFFICES ASSUME NEW i \in Stored', NEW j \in Stored', rows'[i].handle = rows'[j].handle,
                      rows'[i].handle \notin crossed' \cup {Nothing}
               PROVE  i = j
    BY DEF OneRowPerConversation
  <2>1. i \in Ids /\ j \in Ids
    BY DEF Stored
  <2>2. CASE rows'[i].handle \in Threads
    BY <1>2, <2>2 DEF RowNamed
  <2>3. CASE i \in import.fresh /\ j \in import.fresh
    BY <2>1, <2>3, ImportPutsRows
  <2>4. CASE i \notin import.fresh /\ j \notin import.fresh
    BY <1>1, <2>1, <2>4, ImportPutsRows DEF IInv, Kept, OneRowPerConversation, Stored
  <2>5. ASSUME NEW k \in Stored', NEW l \in Stored', k \in import.fresh, l \notin import.fresh,
               rows'[l].handle = rows'[k].handle, rows'[k].handle \notin Threads,
               rows'[k].handle \notin crossed'
        PROVE  FALSE
    <3>1. k \in Ids /\ l \in Ids /\ rows'[k].handle = k
      BY <2>5, ImportPutsRows DEF Stored
    <3>2. k \in import.fresh \ import.racing
      BY <1>1, <2>5, <3>1
    <3>3. rows[l] # Nothing /\ rows[l].handle = k
      BY <2>5, <3>1, ImportPutsRows DEF Stored
    <3> QED BY <1>1, <3>1, <3>2, <3>3, ImportIsNew
  <2> QED BY <2>2, <2>3, <2>4, <2>5
<1>4. SessionHasRow'
  <2>1. \A i \in Ids : i \in import.fresh => i \in Conversations /\ i # Nothing
    BY <1>1, ImportIsNew
  <2> QED BY <1>1, <2>1, ImportPutsRows DEF IInv, Kept, SessionHasRow
<1>5. SessionAlone'
  <2> SUFFICES ASSUME NEW i \in Ids, sessions[i].open,
                      sessions[i].conversation \notin crossed' \cup {Nothing}, NEW j \in Ids
               PROVE  /\ rows'[j] # Nothing /\ rows'[j].handle = sessions[i].conversation
                            => j = i
                      /\ sessions[j].conversation = sessions[i].conversation => j = i
    BY <1>1 DEF SessionAlone
  <2>1. sessions[j].conversation = sessions[i].conversation => j = i
    BY <1>1 DEF IInv, Kept, SessionAlone
  <2>2. CASE j \notin import.fresh
    BY <1>1, <2>1, <2>2, ImportPutsRows DEF IInv, Kept, SessionAlone
  <2>3. ASSUME j \in import.fresh, rows'[j].handle = sessions[i].conversation
        PROVE  j = i
    <3>1. sessions[i].conversation = j
      BY <2>3, ImportPutsRows
    <3>2. CASE j \in Threads
      BY <3>1, <3>2 DEF IInv, Kept, SessionHasRow
    <3>3. CASE j \notin Threads
      BY <1>1, <2>3, <3>1, <3>3, ImportIsNew
    <3> QED BY <3>2, <3>3
  <2> QED BY <2>1, <2>2, <2>3
<1>6. ImportKnows' /\ DownIsEmpty'
  BY <1>1 DEF IInv, ImportKnows, Importing, NoImport, DownIsEmpty
<1> QED BY <1>2, <1>3, <1>4, <1>5, <1>6 DEF Kept

LEMMA IInvNext ==
    ASSUME IInv, [Next]_vars
    PROVE  IInv'
<1> USE DEF IInv
<1>1. TypeOK'
  BY TypeNext
<1>2. Kept' /\ ImportKnows' /\ DownIsEmpty'
  <2> DEFINE Same == UNCHANGED <<rows, sessions, crossed>>
  <2>a. Same => Kept' /\ Handles' = Handles
    BY DEF Kept, OneRowPerConversation, RowNamed, SessionHasRow, SessionAlone, Handles, Stored
  <2>b. daemon' = "up" => DownIsEmpty'
    BY DEF DownIsEmpty
  <2>1. CASE Start
    BY <2>1, KeptStart
  <2>2. CASE Archive
    <3>1. Same /\ import' = import /\ daemon' = "up"
      BY <2>2 DEF Archive
    <3> QED BY <2>a, <2>b, <3>1, KnowsStays
  <2>3. CASE Crash
    BY <2>3, KeptCrash
  <2>4. ASSUME NEW t \in Threads, OpenThread(t)
        PROVE  Kept' /\ ImportKnows' /\ DownIsEmpty'
    <3>1. Same /\ import' = import /\ daemon' = "up"
      BY <2>4 DEF OpenThread, marks
    <3> QED BY <2>a, <2>b, <3>1, KnowsStays
  <2>5. ASSUME NEW t \in Threads, RegisterThread(t)
        PROVE  Kept' /\ ImportKnows' /\ DownIsEmpty'
    BY <2>5, <2>b, KeptRegisterThread DEF RegisterThread
  <2>6. ASSUME NEW c \in Consoles, CreateChat(c)
        PROVE  Kept' /\ ImportKnows' /\ DownIsEmpty'
    BY <2>6, <2>b, KeptCreateChat DEF CreateChat
  <2>7. ASSUME NEW c \in Consoles, NEW n \in Chats, FirstTurn(c, n)
        PROVE  Kept' /\ ImportKnows' /\ DownIsEmpty'
    BY <2>7, <2>b, KeptFirstTurn DEF FirstTurn
  <2>8. ASSUME NEW n \in Conversations, AgentStores(n)
        PROVE  Kept' /\ ImportKnows' /\ DownIsEmpty'
    <3>1. Same /\ import' = import /\ daemon' = daemon
      BY <2>8 DEF AgentStores, marks
    <3>2. DownIsEmpty'
      BY <3>1 DEF DownIsEmpty
    <3> QED BY <2>a, <3>1, <3>2, KnowsStays
  <2>9. ASSUME NEW i \in Ids, ThreadStarted(i)
        PROVE  Kept' /\ ImportKnows' /\ DownIsEmpty'
    BY <2>9, <2>b, KeptThreadStarted DEF ThreadStarted
  <2>10. ASSUME NEW i \in Ids, Resume(i)
         PROVE  Kept' /\ ImportKnows' /\ DownIsEmpty'
    BY <2>10, <2>b, KeptResume DEF Resume
  <2>11. ASSUME NEW i \in Ids, SetOption(i)
         PROVE  Kept' /\ ImportKnows' /\ DownIsEmpty'
    BY <2>11, <2>b, KeptSetOption DEF SetOption
  <2>12. ASSUME NEW i \in Ids, CloseSession(i)
         PROVE  Kept' /\ ImportKnows' /\ DownIsEmpty'
    BY <2>12, <2>b, KeptClose DEF CloseSession
  <2>13. CASE DeleteProject
    BY <2>13, <2>b, KeptDelete DEF DeleteProject
  <2>14. CASE ImportBegins
    <3>1. /\ Same /\ daemon' = "up"
          /\ import'.known = Handles /\ import'.racing = Unnamed
          /\ import'.step = "scanning" /\ import'.fresh = {}
      BY <2>14 DEF ImportBegins, NoImport, marks
    <3>2. \A i \in Ids : sessions[i].conversation \in Handles \cup Unnamed \cup {Nothing}
      BY ClosedIs DEF Kept, SessionHasRow, Handles, Unnamed, Stored
    <3>3. ImportKnows'
      BY <2>a, <3>1, <3>2 DEF ImportKnows
    <3> QED BY <2>a, <2>b, <3>1, <3>3
  <2>15. CASE ImportScans
    <3>1. /\ Same /\ Importing /\ daemon' = daemon
          /\ import'.known = import.known /\ import'.racing = import.racing
          /\ import'.step = "scanned" /\ import'.fresh = disk \ import.known
      BY <2>15 DEF ImportScans, Importing, NoImport, TypeOK, marks
    <3>2. ImportKnows'
      BY <2>a, <3>1 DEF ImportKnows
    <3> QED BY <2>a, <3>1, <3>2 DEF DownIsEmpty, Importing
  <2>16. CASE ImportFails
    <3>1. Same /\ import' = NoImport /\ daemon' = daemon
      BY <2>16 DEF ImportFails, marks
    <3> QED BY <2>a, <3>1 DEF ImportKnows, Importing, NoImport, DownIsEmpty
  <2>17. CASE ImportPuts
    BY <2>17, KeptImportPuts
  <2>18. CASE UNCHANGED vars
    <3>1. Same /\ import' = import /\ daemon' = daemon
      BY <2>18 DEF vars, marks
    <3>2. DownIsEmpty'
      BY <3>1 DEF DownIsEmpty
    <3> QED BY <2>a, <3>1, <3>2, KnowsStays
  <2> QED BY <2>1, <2>2, <2>3, <2>4, <2>5, <2>6, <2>7, <2>8, <2>9, <2>10, <2>11, <2>12,
             <2>13, <2>14, <2>15, <2>16, <2>17, <2>18 DEF Next
<1> QED BY <1>1, <1>2

\* Rows written by migration, creation, first turns, resumes and imports never
\* name the same conversation twice, but for a chat an import overlapped with the
\* first turn of.
THEOREM OneRowAlways == Spec => []OneRowPerConversation
<1>1. IInv => OneRowPerConversation
  BY DEF IInv, Kept
<1> QED BY <1>1, LibraryInit, IInvNext, PTL DEF Spec

\* What an import puts leaves every row alone that it does not race with, and gives
\* what it knows and what it found on disk a row.
LEMMA ImportAdds ==
    ASSUME IInv, ImportPuts
    PROVE  /\ \A i \in Stored \ import.racing : rows'[i] = rows[i]
           /\ \A n \in import.fresh \cup (import.known \ import.racing) :
                 \E i \in Ids : rows'[i] # Nothing /\ rows'[i].handle = n
<1>1. import.step = "scanned"
  BY DEF ImportPuts
<1>2. \A i \in Stored \ import.racing : rows'[i] = rows[i]
  BY <1>1, ImportIsNew, ImportPutsRows DEF Stored
<1>3. ASSUME NEW n \in import.fresh
      PROVE  n \in Ids /\ rows'[n] # Nothing /\ rows'[n].handle = n
  BY <1>1, ImportIsNew, ImportPutsRows
<1>4. ASSUME NEW n \in import.known \ import.racing
      PROVE  \E i \in Ids : rows'[i] # Nothing /\ rows'[i].handle = n
  <2>1. PICK i \in Stored : rows[i].handle = n
    BY <1>1, ImportIsNew DEF Handles
  <2>2. n \notin import.fresh /\ import.fresh \subseteq Conversations
    BY <1>1, ImportIsNew
  <2>3. i \notin import.fresh
    BY <2>1, <2>2 DEF IInv, Kept, RowNamed
  <2>4. i \in Ids /\ rows[i] # Nothing
    BY <2>1 DEF Stored
  <2>5. rows'[i] = rows[i]
    BY <2>3, <2>4, ImportPutsRows
  <2> QED BY <2>1, <2>4, <2>5
<1> QED BY <1>2, <1>3, <1>4

\* An import only adds: the rows that were there when it began, and not written or
\* removed since, stay as they are, and what it found has a row.
THEOREM ImportOnlyAddsAlways == Spec => ImportOnlyAdds
<1>1. IInv /\ [Next]_vars =>
        [ImportPuts =>
          /\ \A i \in Stored \ import.racing : rows'[i] = rows[i]
          /\ \A n \in import.fresh \cup (import.known \ import.racing) :
                \E i \in Ids : rows'[i] # Nothing /\ rows'[i].handle = n]_vars
  BY ImportAdds
<1> QED BY <1>1, LibraryInit, IInvNext, PTL DEF Spec, ImportOnlyAdds

-----------------------------------------------------------------------------
(* The scan: the first and the last of the lines                           *)

LEMMA LeastExists ==
    ASSUME NEW S \in SUBSET Nat, S # {}
    PROVE  \E x \in S : \A y \in S : x <= y
<1> DEFINE R == {p \in Nat \X Nat : p[1] < p[2]}
<1>1. IsWellFoundedOn(R, Nat)
  BY NatLessThanWellFounded DEF OpToRel
<1>2. PICK x \in S : \A y \in S : <<y, x>> \notin R
  BY <1>1, WFMin
<1>3. ASSUME NEW y \in S PROVE x <= y
  <2>1. <<y, x>> \in Nat \X Nat /\ <<y, x>>[1] = y /\ <<y, x>>[2] = x
    OBVIOUS
  <2>2. ~(y < x)
    BY <1>2, <2>1
  <2> QED BY <2>2
<1> QED BY <1>3

LEMMA GreatestExists ==
    ASSUME NEW n \in Nat, NEW S \in SUBSET (0 .. n), S # {}
    PROVE  \E x \in S : \A y \in S : y <= x
<1> DEFINE T == {n - x : x \in S}
<1>1. T \in SUBSET Nat
  <2>1. \A x \in S : n - x \in Nat
    OBVIOUS
  <2> QED BY <2>1
<1>2. T # {}
  OBVIOUS
<1>3. PICK z \in T : \A y \in T : z <= y
  BY <1>1, <1>2, LeastExists
<1>4. PICK x \in S : z = n - x
  OBVIOUS
<1>5. ASSUME NEW y \in S PROVE y <= x
  <2>1. n - x <= n - y
    BY <1>3, <1>4
  <2> QED BY <2>1
<1> QED BY <1>5

LEMMA FirstOfIs ==
    ASSUME NEW S \in SUBSET (Nat \ {0})
    PROVE  /\ S = {} => FirstOf(S) = 0
           /\ S # {} => FirstOf(S) \in S /\ \A y \in S : FirstOf(S) <= y
<1>1. ASSUME S # {} PROVE Min(S) \in S /\ \A y \in S : Min(S) <= y
  <2>1. \E x \in S : \A y \in S : x <= y
    BY <1>1, LeastExists
  <2> QED BY <2>1 DEF Min
<1> QED BY <1>1 DEF FirstOf

LEMMA LastOfIs ==
    ASSUME NEW n \in Nat, NEW S \in SUBSET (1 .. n)
    PROVE  /\ S = {} => LastOf(S) = 0
           /\ S # {} => LastOf(S) \in S /\ \A y \in S : y <= LastOf(S)
           /\ LastOf(S) \in 0 .. n
<1>1. ASSUME S # {} PROVE Max(S) \in S /\ \A y \in S : y <= Max(S)
  <2>1. \E x \in S : \A y \in S : x >= y
    <3>1. S \in SUBSET (0 .. n)
      OBVIOUS
    <3>2. PICK x \in S : \A y \in S : y <= x
      BY <1>1, <3>1, GreatestExists
    <3>3. \A y \in S : x >= y
      BY <3>2
    <3> QED BY <3>3
  <2>2. Max(S) \in S /\ \A y \in S : Max(S) >= y
    BY <2>1 DEF Max
  <2> QED BY <2>2
<1>2. CASE S = {}
  BY <1>2 DEF LastOf
<1>3. CASE S # {}
  <2>1. LastOf(S) = Max(S)
    BY <1>3 DEF LastOf
  <2>2. LastOf(S) \in S /\ \A y \in S : y <= LastOf(S)
    BY <1>1, <1>3, <2>1
  <2>3. \A x \in S : x \in 0 .. n
    OBVIOUS
  <2>4. LastOf(S) \in 0 .. n
    BY <2>2, <2>3
  <2> QED BY <1>3, <2>2, <2>4
<1> QED BY <1>2, <1>3

-----------------------------------------------------------------------------
(* The scan: its invariant                                                 *)

\* The state is a record of these parts; a scan's step is one of the five.
ScanOK ==
    scan \in [step : {"idle", "listing", "reading", "done", "failed"},
              paths : SUBSET (Files \X {"sessions", "archived"}),
              open : SUBSET (Files \X {"sessions", "archived"}),
              tail : SUBSET (1 .. MaxLines),
              named : BOOLEAN,
              found : [title : Times, createdAt : Times, lastActiveAt : Times]]

\* The live file holds the whole conversation, which begins with a header; only
\* claude's titles come again.
Wellformed ==
    /\ length[Live] = Len(written)
    /\ torn => written # <<>>
    /\ written # <<>> => written[1] \in Headers(agent)
    /\ agent # "claude" => \A i \in DOMAIN written : i > 1 => written[i] \notin Headers(agent)

\* A file that is owed is still there, is a conversation of its own, and shows
\* no less activity than when the scan began.
OwedKept ==
    \A o \in owed :
        /\ place[o[1]] # "none"
        /\ Whole(o[1]) # {} /\ written[1] \notin {"subagent_meta", "child"}
        /\ o[2] <= LastActive(o[1])

FoundFor(o) == scan.found # None /\ scan.found.lastActiveAt >= o[2]

\* A file that is owed is in the list that is left, unless it was read or is huge;
\* while the archive is still to be listed, a file there need not be.
Tracked ==
    /\ scan.step = "listing" =>
          \A o \in owed : place[o[1]] = "sessions" => <<o[1], "sessions">> \in scan.paths
    /\ scan.step = "reading" =>
          \A o \in owed : \/ <<o[1], place[o[1]]>> \in scan.paths
                          \/ FoundFor(o) \/ Skipped(o[1])
    /\ scan.step = "done" => \A o \in owed : FoundFor(o) \/ Skipped(o[1])

\* What stat showed of the file that is being read is in it, and no less active
\* than what is owed.
OpenKept ==
    \A p \in scan.open :
        /\ scan.tail \subseteq Whole(p[1])
        /\ \A o \in owed : o[1] = p[1] => o[2] <= Active(p[1], scan.tail)

CreatedFirst == agent = "claude" \/ scan.found.createdAt <= scan.found.lastActiveAt

\* A kind of title among the first n lines is among the last ones of them.
Near(n, kind) ==
    (\E i \in 1 .. n : written[i] = kind) =>
        \E i \in 1 .. n : written[i] = kind /\ n - i < TitlePeriod

TitlesNear ==
    agent = "claude" =>
        \A kind \in {"custom-title", "ai-title"} :
            /\ Near(Len(written), kind)
            /\ torn => Near(Len(written) - 1, kind)

HInv ==
    /\ ScanTypeOK /\ ScanOK /\ Wellformed
    /\ OwedKept /\ Tracked /\ OpenKept /\ CreatedFirst /\ TitlesNear

-----------------------------------------------------------------------------
(* What is read of a file                                                  *)

LEMMA LinesAre ==
    ASSUME ScanTypeOK, Wellformed, NEW f \in Files
    PROVE  /\ Len(written) \in 0 .. MaxLines /\ length[f] \in 0 .. Len(written)
           /\ DOMAIN written = 1 .. Len(written)
           /\ Whole(f) \subseteq 1 .. length[f]
           /\ HeadLines(f) \subseteq Whole(f) /\ TailLines(f) \subseteq Whole(f)
           /\ \A tail \in SUBSET Whole(f) : Read(f, tail) \subseteq Whole(f)
           /\ Whole(f) # {} => 1 \in Whole(f) /\ 1 \in HeadLines(f) /\ length[f] >= 1
<1>1. /\ Len(written) \in 0 .. MaxLines /\ length[f] \in 0 .. Len(written)
      /\ DOMAIN written = 1 .. Len(written)
  BY HistoryAssumption DEF ScanTypeOK
<1>2. Whole(f) \subseteq 1 .. length[f] /\ (Whole(f) # {} => 1 \in Whole(f) /\ length[f] >= 1)
  BY <1>1 DEF Whole
<1>3. 1 \in 1 .. HeadSize
  BY HistoryAssumption
<1> QED BY <1>1, <1>2, <1>3 DEF HeadLines, TailLines, Read

\* The last activity is that of the last stamped line, else the time of the last
\* write.
LEMMA ActiveOf ==
    ASSUME NEW n \in Nat, NEW T \in SUBSET (1 .. n)
    PROVE  /\ T = {} => Or(LastOf(T), n) = n
           /\ T # {} => Or(LastOf(T), n) \in T
           /\ \A y \in T : y <= Or(LastOf(T), n)
           /\ Or(LastOf(T), n) \in 0 .. n
<1>1. CASE T = {}
  BY <1>1, LastOfIs DEF Or
<1>2. CASE T # {}
  <2>1. LastOf(T) \in T /\ (\A y \in T : y <= LastOf(T)) /\ LastOf(T) # 0
    BY <1>2, LastOfIs
  <2>2. Or(LastOf(T), n) = LastOf(T)
    BY <2>1 DEF Or
  <2>3. LastOf(T) \in 0 .. n
    BY LastOfIs
  <2> QED BY <1>2, <2>1, <2>2, <2>3
<1> QED BY <1>1, <1>2

\* The window over the tail moves on: what leaves it is no later than what is
\* left, and what is new is no earlier than the last line there was.
LEMMA LaterActive ==
    ASSUME NEW n \in Nat, NEW m \in Nat, n <= m,
           NEW T \in SUBSET (1 .. n), NEW U \in SUBSET (1 .. m),
           \A i \in U : i >= n \/ i \in T,
           \A i \in T \ U : \A j \in U : i <= j
    PROVE  Or(LastOf(T), n) <= Or(LastOf(U), m)
<1> DEFINE a == Or(LastOf(T), n)
           b == Or(LastOf(U), m)
<1>1. /\ T = {} => a = n
      /\ T # {} => a \in T
      /\ a \in 0 .. n
  BY ActiveOf
<1>2. /\ U = {} => b = m
      /\ U # {} => b \in U
      /\ \A y \in U : y <= b
      /\ b \in 0 .. m
  BY ActiveOf
<1> SUFFICES a <= b
  OBVIOUS
<1> HIDE DEF a, b
<1>3. CASE U = {}
  BY <1>1, <1>2, <1>3
<1>4. CASE U # {}
  <2>1. CASE T = {}
    BY <1>1, <1>2, <1>4, <2>1
  <2>2. CASE T # {}
    BY <1>1, <1>2, <1>4, <2>2
  <2> QED BY <2>1, <2>2
<1> QED BY <1>3, <1>4

\* What is read of a file that does not change.
LEMMA SameFile ==
    ASSUME ScanTypeOK, Wellformed, NEW f \in Files,
           length'[f] = length[f], f = Live => torn' = torn,
           \A i \in 1 .. length[f] : written'[i] = written[i]
    PROVE  Whole(f)' = Whole(f) /\ LastActive(f)' = LastActive(f)
<1>1. Whole(f)' = Whole(f)
  BY DEF Whole
<1>2. TailLines(f)' = TailLines(f)
  BY <1>1 DEF TailLines
<1>3. TailLines(f) \subseteq 1 .. length[f]
  BY LinesAre
<1>4. Of(TailLines(f), Stamped)' = Of(TailLines(f), Stamped)
  BY <1>2, <1>3 DEF Of
<1> QED BY <1>1, <1>4 DEF LastActive, Active

\* Of a file that grows by a line, or whose last line is completed, no less is
\* read than before, and it does not show less activity.
LEMMA GrownFile ==
    ASSUME ScanTypeOK, Wellformed,
           \/ /\ ~torn /\ torn' \in BOOLEAN
              /\ length'[Live] = length[Live] + 1
              /\ \A i \in 1 .. length[Live] : written'[i] = written[i]
           \/ /\ torn /\ ~torn'
              /\ length'[Live] = length[Live] /\ written' = written
    PROVE  Whole(Live) \subseteq Whole(Live)' /\ LastActive(Live) <= LastActive(Live)'
<1> DEFINE n == length[Live]
           m == length'[Live]
           T == Of(TailLines(Live), Stamped)
           U == Of(TailLines(Live), Stamped)'
<1>0. Live \in Files /\ TailSize \in Nat \ {0}
  BY HistoryAssumption
<1>1. n \in Nat /\ m \in Nat /\ n <= m /\ m <= n + 1
  BY <1>0, LinesAre
<1>2. /\ Whole(Live) \subseteq 1 .. n /\ Whole(Live)' \subseteq 1 .. m
      /\ Whole(Live) \subseteq Whole(Live)'
      /\ \A i \in Whole(Live)' : i >= n \/ i \in Whole(Live)
      /\ \A i \in 1 .. n : written'[i] = written[i]
  BY <1>1 DEF Whole
<1>3. T \in SUBSET (1 .. n) /\ U \in SUBSET (1 .. m)
  BY <1>2 DEF Of, TailLines
<1>4. ASSUME NEW i \in U PROVE i >= n \/ i \in T
  <2>1. i \in Whole(Live)' /\ i >= m - TailSize + 1 /\ i <= m /\ written'[i] \in Stamped
    BY <1>0, <1>1, <1>4 DEF Of, TailLines
  <2>2. CASE i \in Whole(Live) /\ i < n
    <3>1. i \in n - TailSize + 1 .. n
      BY <1>0, <1>1, <1>2, <2>1, <2>2
    <3>2. written[i] \in Stamped
      BY <1>2, <2>1, <2>2
    <3> QED BY <2>2, <3>1, <3>2 DEF Of, TailLines
  <2> QED BY <1>1, <1>2, <2>1, <2>2
<1>5. ASSUME NEW i \in T \ U, NEW j \in U PROVE i <= j
  <2>1. i \in Whole(Live) /\ i <= n /\ i >= 1 /\ written[i] \in Stamped
    BY <1>1, <1>2, <1>5 DEF Of, TailLines
  <2>2. i \in Whole(Live)' /\ written'[i] \in Stamped
    BY <1>2, <2>1
  <2>3. i \notin m - TailSize + 1 .. m
    BY <1>5, <2>2 DEF Of, TailLines
  <2>4. j \in m - TailSize + 1 .. m
    BY <1>5 DEF Of, TailLines
  <2>5. TailSize \in Nat /\ i \in Nat
    BY <1>0, <1>1, <1>2, <2>1
  <2> HIDE DEF n, m, T, U
  <2>6. i < m - TailSize + 1
    BY <1>1, <2>1, <2>3, <2>5
  <2>7. j >= m - TailSize + 1 /\ j \in Int
    BY <1>1, <2>4, <2>5
  <2> QED BY <1>1, <2>5, <2>6, <2>7
<1>6. LastActive(Live) = Or(LastOf(T), n) /\ LastActive(Live)' = Or(LastOf(U), m)
  BY DEF LastActive, Active
<1> HIDE DEF n, m, T, U
<1>7. Or(LastOf(T), n) <= Or(LastOf(U), m)
  BY <1>1, <1>3, <1>4, <1>5, LaterActive
<1> QED BY <1>2, <1>6, <1>7

\* Whatever the tail, the last activity is within the file.
LEMMA ActiveIn ==
    ASSUME ScanTypeOK, Wellformed, NEW f \in Files, NEW tail \in SUBSET Whole(f)
    PROVE  /\ Active(f, tail) \in 0 .. length[f] /\ Active(f, tail) \in Times
           /\ length[f] >= 1 => Active(f, tail) >= 1
<1> DEFINE T == Of(tail, Stamped)
<1>1. T \in SUBSET (1 .. length[f]) /\ length[f] \in Nat /\ length[f] <= MaxLines
      /\ MaxLines \in Nat
  BY LinesAre, HistoryAssumption DEF Of
<1>2. /\ T = {} => Or(LastOf(T), length[f]) = length[f]
      /\ T # {} => Or(LastOf(T), length[f]) \in T
      /\ Or(LastOf(T), length[f]) \in 0 .. length[f]
  BY <1>1, ActiveOf
<1>3. Active(f, tail) = Or(LastOf(T), length[f])
  BY DEF Active
<1> HIDE DEF T
<1> QED BY <1>1, <1>2, <1>3 DEF Times

LEMMA ActiveIs ==
    ASSUME ScanTypeOK, Wellformed, NEW f \in Files
    PROVE  /\ LastActive(f) \in 0 .. length[f] /\ LastActive(f) \in Times
           /\ length[f] >= 1 => LastActive(f) >= 1
<1>1. TailLines(f) \in SUBSET Whole(f)
  BY LinesAre
<1> QED BY <1>1, ActiveIn DEF LastActive

LEMMA ActiveIsNext ==
    ASSUME ScanTypeOK', Wellformed', NEW f \in Files
    PROVE  LastActive(f)' \in Int
<1> DEFINE T == Of(TailLines(f), Stamped)'
<1>1. length'[f] \in Nat
  BY HistoryAssumption DEF ScanTypeOK
<1>2. T \in SUBSET (1 .. length'[f])
  BY <1>1 DEF Of, TailLines, Whole
<1>3. LastActive(f)' = Or(LastOf(T), length'[f])
  BY DEF LastActive, Active
<1> HIDE DEF T
<1>4. Or(LastOf(T), length'[f]) \in 0 .. length'[f]
  BY <1>1, <1>2, ActiveOf
<1> QED BY <1>1, <1>3, <1>4

-----------------------------------------------------------------------------
(* The candidates                                                          *)

Candidates == [title : Times, createdAt : Times, lastActiveAt : Times]

\* Where the first header is, no other follows.
LEMMA HeaderFirst ==
    ASSUME ScanTypeOK, Wellformed, agent # "claude", NEW f \in Files, NEW lines,
           lines \subseteq Whole(f), NEW kinds, kinds \subseteq Headers(agent)
    PROVE  /\ Of(lines, kinds) \subseteq {1}
           /\ 1 \in Of(lines, kinds) <=> 1 \in lines /\ written[1] \in kinds
<1>1. Whole(f) \subseteq DOMAIN written
  BY LinesAre
<1>2. \A i \in DOMAIN written : i > 1 => written[i] \notin Headers(agent)
  BY DEF Wellformed
<1>3. \A i \in DOMAIN written : i \in Nat /\ i >= 1
  BY DEF ScanTypeOK
<1>4. ASSUME NEW i \in Of(lines, kinds) PROVE i = 1
  <2>1. i \in DOMAIN written /\ written[i] \in Headers(agent)
    BY <1>1, <1>4 DEF Of
  <2> QED BY <1>2, <1>3, <2>1
<1> QED BY <1>4 DEF Of

\* The first user line and the titles are lines, or 0.
LEMMA TitlesAre ==
    ASSUME ScanTypeOK, Wellformed, NEW f \in Files, NEW tail \in SUBSET Whole(f), NEW kinds
    PROVE  /\ LastOf(Of(Read(f, tail), kinds)) \in Times
           /\ FirstOf(Of(Read(f, tail), kinds)) \in Times
           /\ LastOf(Of(Read(f, tail), kinds)) >= 0 /\ FirstOf(Of(Read(f, tail), kinds)) >= 0
           /\ FirstOf(Of(HeadLines(f), kinds)) \in 0 .. MaxLines
           /\ LastOf(Of(HeadLines(f), kinds)) \in 0 .. MaxLines
           /\ LastOf(Of(Whole(f), kinds)) \in 0 .. MaxLines
<1>1. MaxLines \in Nat
  BY HistoryAssumption
<1>2. ASSUME NEW lines, lines \subseteq Whole(f)
      PROVE  /\ LastOf(Of(lines, kinds)) \in 0 .. MaxLines
             /\ FirstOf(Of(lines, kinds)) \in 0 .. MaxLines
  <2> DEFINE S == Of(lines, kinds)
  <2>1. \A i \in S : i \in 1 .. MaxLines
    BY <1>1, <1>2, LinesAre DEF Of
  <2>2. S \in SUBSET (1 .. MaxLines) /\ S \in SUBSET (Nat \ {0})
    BY <1>1, <2>1
  <2> HIDE DEF S
  <2>3. LastOf(S) \in 0 .. MaxLines
    BY <1>1, <2>2, LastOfIs
  <2>4. FirstOf(S) = 0 \/ FirstOf(S) \in S
    BY <2>2, FirstOfIs
  <2> QED BY <1>1, <2>1, <2>3, <2>4 DEF S
<1>3. HeadLines(f) \subseteq Whole(f) /\ Read(f, tail) \subseteq Whole(f)
  BY LinesAre
<1> QED BY <1>1, <1>2, <1>3 DEF Times

LEMMA ScannedClaude ==
    ASSUME ScanTypeOK, Wellformed, NEW f \in Files, NEW tail \in SUBSET Whole(f)
    PROVE  /\ ScanClaude(f, tail) \in Candidates /\ ScanClaude(f, tail) # None
           /\ ScanClaude(f, tail).lastActiveAt = Active(f, tail)
<1>1. MaxLines \in Nat /\ length[f] \in 0 .. MaxLines
  BY HistoryAssumption, LinesAre
<1>2. ClaudeTitle(f, tail) \in Times /\ ClaudeTitle(f, tail) >= 0
  BY TitlesAre DEF ClaudeTitle, Or, FirstUser
<1>3. Or(FirstOf(Of(HeadLines(f), Stamped)), length[f]) \in Times
  <2>1. FirstOf(Of(HeadLines(f), Stamped)) \in 0 .. MaxLines
    BY TitlesAre
  <2> QED BY <1>1, <2>1 DEF Or, Times
<1> QED BY <1>2, <1>3, ActiveIn DEF ScanClaude, Candidate, Candidates, None

LEMMA ScannedCodex ==
    ASSUME ScanTypeOK, Wellformed, agent = "codex", NEW f \in Files,
           NEW tail \in SUBSET Whole(f), NEW threadNamed \in BOOLEAN
    PROVE  /\ ScanCodex(f, tail, threadNamed) \in Candidates
           /\ ScanCodex(f, tail, threadNamed).createdAt
                <= ScanCodex(f, tail, threadNamed).lastActiveAt
           /\ Whole(f) # {} /\ written[1] # "subagent_meta" =>
                 /\ ScanCodex(f, tail, threadNamed) # None
                 /\ ScanCodex(f, tail, threadNamed).lastActiveAt = Active(f, tail)
<1> DEFINE metas == Of(HeadLines(f), {"session_meta", "subagent_meta"})
           c == ScanCodex(f, tail, threadNamed)
           title == IF threadNamed THEN ThreadName ELSE FirstUser(Read(f, tail))
<1>1. MaxLines \in Nat /\ length[f] \in 0 .. MaxLines
  BY HistoryAssumption, LinesAre
<1>2. Headers(agent) = {"session_meta", "subagent_meta"}
  BY DEF Headers
<1>3. /\ metas \subseteq {1}
      /\ 1 \in metas <=> 1 \in HeadLines(f) /\ written[1] \in {"session_meta", "subagent_meta"}
  BY <1>2, HeaderFirst, LinesAre
<1>4. title \in Times /\ title >= 0
  BY <1>1, TitlesAre DEF FirstUser, ThreadName, Times
<1>5. c = IF metas = {} \/ Of(metas, {"subagent_meta"}) # {} THEN None
          ELSE Candidate(title, FirstOf(metas), Active(f, tail))
  BY DEF ScanCodex
<1>6. None \in Candidates /\ None.createdAt <= None.lastActiveAt
  BY <1>1 DEF None, Candidate, Candidates, Times
<1>7. ASSUME metas # {}
      PROVE  /\ Candidate(title, FirstOf(metas), Active(f, tail)) \in Candidates
             /\ Candidate(title, FirstOf(metas), Active(f, tail)) # None
             /\ FirstOf(metas) <= Active(f, tail)
  <2>1. metas = {1} /\ Whole(f) # {}
    BY <1>3, <1>7, LinesAre DEF Of
  <2>2. FirstOf(metas) = 1
    <3>1. {1} \in SUBSET (Nat \ {0})
      OBVIOUS
    <3> QED BY <2>1, <3>1, FirstOfIs
  <2>3. Active(f, tail) \in Times /\ Active(f, tail) >= 1
    BY <2>1, ActiveIn, LinesAre
  <2> QED BY <1>1, <1>4, <2>2, <2>3 DEF Candidate, Candidates, None, Times
<1>8. ASSUME Whole(f) # {}, written[1] # "subagent_meta"
      PROVE  metas # {} /\ Of(metas, {"subagent_meta"}) = {}
  <2>1. 1 \in HeadLines(f) /\ written[1] \in Headers(agent)
    BY <1>8, LinesAre DEF Wellformed
  <2> QED BY <1>2, <1>3, <1>8, <2>1 DEF Of
<1> HIDE DEF metas, c, title
<1>9. c \in Candidates /\ c.createdAt <= c.lastActiveAt
  BY <1>5, <1>6, <1>7 DEF Candidate
<1>10. Whole(f) # {} /\ written[1] # "subagent_meta" => c # None /\ c.lastActiveAt = Active(f, tail)
  BY <1>5, <1>7, <1>8 DEF Candidate
<1> QED BY <1>9, <1>10 DEF c

LEMMA ScannedPi ==
    ASSUME ScanTypeOK, Wellformed, agent = "pi", NEW f \in Files, NEW tail \in SUBSET Whole(f)
    PROVE  /\ ScanPi(f, tail) \in Candidates /\ ScanPi(f, tail) # None
           /\ ScanPi(f, tail).createdAt <= ScanPi(f, tail).lastActiveAt
           /\ ScanPi(f, tail).lastActiveAt = Active(f, tail)
<1> DEFINE heads == Of(HeadLines(f), {"header"})
           created == Or(LastOf(heads), length[f])
<1>1. MaxLines \in Nat /\ length[f] \in 0 .. MaxLines
  BY HistoryAssumption, LinesAre
<1>2. Headers(agent) = {"header"}
  BY DEF Headers
<1>3. heads \subseteq {1} /\ (1 \in heads <=> 1 \in HeadLines(f) /\ written[1] = "header")
  BY <1>2, HeaderFirst, LinesAre
<1>4. created \in Times /\ created <= Active(f, tail)
  <2>1. CASE Whole(f) = {}
    <3>1. heads = {} /\ Of(tail, Stamped) = {}
      BY <2>1, LinesAre DEF Of
    <3>2. created = length[f] /\ Active(f, tail) = length[f]
      BY <3>1 DEF Active, LastOf, Or
    <3> QED BY <1>1, <3>2 DEF Times
  <2>2. CASE Whole(f) # {}
    <3>1. 1 \in heads
      BY <1>2, <1>3, <2>2, LinesAre DEF Wellformed
    <3>2. heads = {1} /\ {1} \in SUBSET (1 .. 1)
      BY <1>3, <3>1
    <3>3. LastOf(heads) = 1
      BY <3>2, LastOfIs
    <3>4. created = 1 /\ Active(f, tail) >= 1
      BY <2>2, <3>3, ActiveIn, LinesAre DEF Or
    <3> QED BY <1>1, <3>4 DEF Times
  <2> QED BY <2>1, <2>2
<1>5. FirstUser(Read(f, tail)) \in Times /\ FirstUser(Read(f, tail)) >= 0
  BY TitlesAre DEF FirstUser
<1> QED BY <1>4, <1>5, ActiveIn DEF ScanPi, Candidate, Candidates, None

LEMMA ScannedOpencode ==
    ASSUME ScanTypeOK, Wellformed, agent = "opencode", NEW f \in Files, NEW tail \in SUBSET Whole(f)
    PROVE  /\ ScanOpencode(f) \in Candidates
           /\ ScanOpencode(f).createdAt <= ScanOpencode(f).lastActiveAt
           /\ Whole(f) # {} /\ written[1] # "child" =>
                 ScanOpencode(f) # None /\ ScanOpencode(f).lastActiveAt >= Active(f, tail)
<1> DEFINE titled == LastOf(Of(Whole(f), {"title", "placeholder"}))
           title == IF Of({titled}, {"title"}) # {} THEN titled ELSE 0
           c == ScanOpencode(f)
<1>1. MaxLines \in Nat /\ length[f] \in 0 .. MaxLines
  BY HistoryAssumption, LinesAre
<1>2. Of(Whole(f), {"child"}) \subseteq {1}
      /\ (1 \in Of(Whole(f), {"child"}) <=> 1 \in Whole(f) /\ written[1] = "child")
  BY HeaderFirst DEF Headers
<1>3. titled \in 0 .. MaxLines
  BY TitlesAre
<1>4. title \in Times /\ title >= 0
  BY <1>1, <1>3 DEF Times
<1>5. c = IF Of(Whole(f), {"child"}) # {} \/ Whole(f) = {} THEN None
          ELSE Candidate(title, 1, length[f])
  BY DEF ScanOpencode
<1>6. None \in Candidates /\ None.createdAt <= None.lastActiveAt
  BY <1>1 DEF None, Candidate, Candidates, Times
<1>7. ASSUME Whole(f) # {}
      PROVE  /\ Candidate(title, 1, length[f]) \in Candidates
             /\ Candidate(title, 1, length[f]) # None
             /\ 1 <= length[f] /\ Active(f, tail) <= length[f]
  <2>1. length[f] >= 1 /\ Active(f, tail) \in 0 .. length[f]
    BY <1>7, LinesAre, ActiveIn
  <2>2. 1 \in Times /\ length[f] \in Times
    BY <1>1, <2>1 DEF Times
  <2> HIDE DEF title
  <2> QED BY <1>4, <2>1, <2>2 DEF Candidate, Candidates, None
<1> HIDE DEF c, title
<1>8. c \in Candidates /\ c.createdAt <= c.lastActiveAt
  BY <1>5, <1>6, <1>7 DEF Candidate
<1>9. Whole(f) # {} /\ written[1] # "child" => c # None /\ c.lastActiveAt >= Active(f, tail)
  <2>1. Whole(f) # {} /\ written[1] # "child" => c = Candidate(title, 1, length[f])
    BY <1>2, <1>5
  <2>2. Candidate(title, 1, length[f]).lastActiveAt = length[f]
    BY DEF Candidate
  <2> QED BY <1>1, <1>7, <2>1, <2>2, ActiveIn
<1> QED BY <1>8, <1>9 DEF c

\* A file that is a conversation of its own has a candidate, which is as recent as
\* the file shows.
LEMMA ScannedIs ==
    ASSUME ScanTypeOK, ScanOK, Wellformed, NEW f \in Files, NEW tail \in SUBSET Whole(f)
    PROVE  /\ Scanned(f, tail) \in Candidates
           /\ agent = "claude" \/ Scanned(f, tail).createdAt <= Scanned(f, tail).lastActiveAt
           /\ Whole(f) # {} /\ written[1] \notin {"subagent_meta", "child"} =>
                 Scanned(f, tail) # None /\ Scanned(f, tail).lastActiveAt >= Active(f, tail)
<1>0. Active(f, tail) \in Nat /\ scan.named \in BOOLEAN
  BY ActiveIn DEF ScanTypeOK
<1>1. CASE agent = "claude"
  BY <1>0, <1>1, ScannedClaude DEF Scanned
<1>2. CASE agent = "codex"
  BY <1>0, <1>2, ScannedCodex DEF Scanned
<1>3. CASE agent = "pi"
  BY <1>0, <1>3, ScannedPi DEF Scanned
<1>4. CASE agent = "opencode"
  BY <1>0, <1>4, ScannedOpencode DEF Scanned
<1> QED BY <1>1, <1>2, <1>3, <1>4 DEF ScanTypeOK

-----------------------------------------------------------------------------
(* The agent's steps                                                       *)

\* What is owed stays owed: no file of it goes away, shrinks, or shows less.
LEMMA OwedStep ==
    ASSUME ScanTypeOK, Wellformed, OwedKept, owed' \subseteq owed,
           \A f \in Files : \A a \in Times : <<f, a>> \in owed' =>
              /\ place'[f] # "none"
              /\ Whole(f) \subseteq Whole(f)' /\ written'[1] = written[1]
              /\ LastActive(f)' \in Int /\ LastActive(f) <= LastActive(f)'
    PROVE  OwedKept'
<1> SUFFICES ASSUME NEW o \in owed'
             PROVE  /\ place'[o[1]] # "none"
                    /\ Whole(o[1])' # {} /\ written'[1] \notin {"subagent_meta", "child"}
                    /\ o[2] <= LastActive(o[1])'
  BY DEF OwedKept
<1>1. /\ o \in owed /\ o[1] \in Files /\ o[2] \in Times /\ o = <<o[1], o[2]>>
  BY DEF ScanTypeOK
<1>2. /\ Whole(o[1]) # {} /\ written[1] \notin {"subagent_meta", "child"}
      /\ o[2] <= LastActive(o[1])
  BY <1>1 DEF OwedKept
<1>3. LastActive(o[1]) \in Int /\ o[2] \in Int
  BY <1>1, ActiveIs DEF Times
<1> QED BY <1>1, <1>2, <1>3

\* The agent, or the user, touches the files while the scan stays as it is.
LEMMA FilesStep ==
    ASSUME HInv, UNCHANGED <<agent, scan>>, owed' \subseteq owed,
           \A f \in Files : \/ length'[f] \in Nat /\ length[f] <= length'[f]
                          \/ \A a \in Times : <<f, a>> \notin owed',
           scan.step = "listing" =>
              \A f \in Files : \A a \in Times :
                 <<f, a>> \in owed' => place'[f] = place[f] \/ place'[f] = "archived",
           scan.step = "reading" =>
              \A f \in Files : \A a \in Times : <<f, a>> \in owed' => place'[f] = place[f]
    PROVE  ScanOK' /\ Tracked' /\ CreatedFirst'
<1> USE DEF HInv
<1>1. ScanOK' /\ CreatedFirst'
  BY DEF ScanOK, CreatedFirst, Times
<1>2. \A o \in owed' : /\ o \in owed /\ o[1] \in Files /\ o[2] \in Times /\ o = <<o[1], o[2]>>
                       /\ Skipped(o[1]) => Skipped(o[1])'
                       /\ FoundFor(o) => FoundFor(o)'
  <2> SUFFICES ASSUME NEW o \in owed'
               PROVE  /\ o \in owed /\ o[1] \in Files /\ o[2] \in Times /\ o = <<o[1], o[2]>>
                      /\ Skipped(o[1]) => Skipped(o[1])'
                      /\ FoundFor(o) => FoundFor(o)'
    OBVIOUS
  <2>1. o \in owed /\ o[1] \in Files /\ o[2] \in Times /\ o = <<o[1], o[2]>>
    BY DEF ScanTypeOK
  <2>2. length[o[1]] \in Nat /\ length'[o[1]] \in Nat /\ length[o[1]] <= length'[o[1]]
        /\ Huge \in Nat
    BY <2>1, LinesAre, HistoryAssumption
  <2>3. Skipped(o[1]) => Skipped(o[1])'
    BY <2>2 DEF Skipped
  <2>4. FoundFor(o) => FoundFor(o)'
    BY DEF FoundFor
  <2> QED BY <2>1, <2>3, <2>4
<1>3. \A o \in owed' : <<o[1], o[2]>> \in owed'
  BY <1>2
<1>4. CASE scan.step = "listing"
  <2>1. ASSUME NEW o \in owed', place'[o[1]] = "sessions"
        PROVE  <<o[1], "sessions">> \in scan'.paths
    <3>1. place'[o[1]] = place[o[1]] \/ place'[o[1]] = "archived"
      BY <1>2, <1>3, <1>4
    <3>2. <<o[1], "sessions">> \in scan.paths
      BY <1>2, <1>4, <2>1, <3>1 DEF Tracked
    <3> QED BY <3>2
  <2>2. scan'.step = "listing"
    BY <1>4
  <2>3. ~(scan'.step = "reading") /\ ~(scan'.step = "done")
    BY <2>2
  <2> QED BY <1>1, <2>1, <2>3 DEF Tracked
<1>5. CASE scan.step = "reading"
  <2>1. ASSUME NEW o \in owed'
        PROVE  <<o[1], place'[o[1]]>> \in scan'.paths \/ FoundFor(o)' \/ Skipped(o[1])'
    <3>1. place'[o[1]] = place[o[1]]
      BY <1>2, <1>3, <1>5
    <3>2. <<o[1], place[o[1]]>> \in scan.paths \/ FoundFor(o) \/ Skipped(o[1])
      BY <1>2, <1>5 DEF Tracked
    <3> QED BY <1>2, <3>1, <3>2
  <2>2. scan'.step = "reading"
    BY <1>5
  <2>3. ~(scan'.step = "listing") /\ ~(scan'.step = "done")
    BY <2>2
  <2> QED BY <1>1, <2>1, <2>3 DEF Tracked
<1>6. CASE scan.step \notin {"listing", "reading"}
  <2>1. ASSUME NEW o \in owed', scan.step = "done" PROVE FoundFor(o)' \/ Skipped(o[1])'
    <3>1. FoundFor(o) \/ Skipped(o[1])
      BY <1>2, <2>1 DEF Tracked
    <3> QED BY <1>2, <3>1
  <2>2. scan'.step = scan.step
    OBVIOUS
  <2> QED BY <1>1, <1>6, <2>1, <2>2 DEF Tracked
<1> QED BY <1>1, <1>4, <1>5, <1>6

\* What stat showed of a file stays in it when the files grow.
LEMMA OpenStep ==
    ASSUME HInv, scan' = scan, owed' \subseteq owed,
           \A f \in Files : /\ Whole(f) \subseteq Whole(f)'
                           /\ length'[f] \in Nat /\ length[f] <= length'[f]
                           /\ \A i \in Whole(f) : written'[i] = written[i]
    PROVE  OpenKept'
<1> USE DEF HInv
<1> SUFFICES ASSUME NEW p \in scan.open
             PROVE  /\ scan.tail \subseteq Whole(p[1])'
                    /\ \A o \in owed' : o[1] = p[1] => o[2] <= Active(p[1], scan.tail)'
  BY DEF OpenKept
<1> DEFINE T == Of(scan.tail, Stamped)
<1>1. /\ p[1] \in Files /\ scan.tail \subseteq Whole(p[1])
      /\ \A o \in owed' : o[1] = p[1] => o[2] <= Active(p[1], scan.tail) /\ o[2] \in Int
  BY DEF OpenKept, ScanTypeOK, Times
<1>2. Of(scan.tail, Stamped)' = T
  BY <1>1 DEF Of
<1>3. /\ length[p[1]] \in Nat /\ length'[p[1]] \in Nat /\ length[p[1]] <= length'[p[1]]
      /\ T \in SUBSET (1 .. length[p[1]]) /\ T \in SUBSET (1 .. length'[p[1]])
  <2>1. T \subseteq Whole(p[1]) /\ Whole(p[1]) \subseteq 1 .. length[p[1]]
    BY <1>1, LinesAre DEF Of
  <2> HIDE DEF T
  <2> QED BY <1>1, <2>1, LinesAre
<1>4. /\ Active(p[1], scan.tail) = Or(LastOf(T), length[p[1]])
      /\ Active(p[1], scan.tail)' = Or(LastOf(T), length'[p[1]])
  BY <1>2 DEF Active
<1> HIDE DEF T
<1>5. Active(p[1], scan.tail) <= Active(p[1], scan.tail)'
      /\ Active(p[1], scan.tail) \in Int /\ Active(p[1], scan.tail)' \in Int
  <2>1. Or(LastOf(T), length[p[1]]) \in 0 .. length[p[1]]
    BY <1>3, ActiveOf
  <2>2. Or(LastOf(T), length'[p[1]]) \in 0 .. length'[p[1]]
    BY <1>3, ActiveOf
  <2> QED BY <1>3, <1>4, <2>1, <2>2 DEF Or
<1> QED BY <1>1, <1>5

\* The lines are left as they are.
LEMMA WrittenSame ==
    ASSUME HInv, UNCHANGED <<agent, written, torn>>, length'[Live] = length[Live]
    PROVE  Wellformed' /\ TitlesNear'
BY DEF HInv, Wellformed, TitlesNear, Near, Of

\* No file is written.
LEMMA FilesSame ==
    ASSUME HInv, UNCHANGED <<written, torn>>, NEW f \in Files, length'[f] = length[f]
    PROVE  /\ Whole(f) \subseteq Whole(f)' /\ LastActive(f)' \in Int
           /\ LastActive(f) <= LastActive(f)'
<1>1. Whole(f)' = Whole(f) /\ LastActive(f)' = LastActive(f)
  BY SameFile DEF HInv
<1>2. LastActive(f) \in Int
  BY ActiveIs DEF HInv
<1> QED BY <1>1, <1>2

LEMMA NearGrows ==
    ASSUME NEW n \in Nat, n = Len(written), NEW kind, written \in Seq(Kinds(agent)),
           NEW new, written' = Append(written, new),
           new # kind /\ (\E i \in 1 .. n : written[i] = kind) =>
              \E i \in 1 .. n : written[i] = kind /\ (n + 1) - i < TitlePeriod,
           Near(n, kind)
    PROVE  Near(n, kind)' /\ Near(n + 1, kind)'
<1>1. /\ \A i \in 1 .. n : written'[i] = written[i]
      /\ written'[n + 1] = new
  BY AppendProperties
<1>2. Near(n, kind)'
  BY <1>1 DEF Near
<1>3. Near(n + 1, kind)'
  <2>1. CASE new = kind
    <3>1. n + 1 \in 1 .. n + 1 /\ (n + 1) - (n + 1) < TitlePeriod
      BY HistoryAssumption
    <3> QED BY <1>1, <2>1, <3>1 DEF Near
  <2>2. CASE new # kind
    <3>1. \A i \in 1 .. n + 1 : written'[i] = kind => i \in 1 .. n /\ written[i] = kind
      BY <1>1, <2>2
    <3> SUFFICES ASSUME \E i \in 1 .. n + 1 : written'[i] = kind
                 PROVE  \E i \in 1 .. n + 1 : written'[i] = kind /\ (n + 1) - i < TitlePeriod
      BY DEF Near
    <3>2. PICK i \in 1 .. n : written[i] = kind /\ (n + 1) - i < TitlePeriod
      BY <2>2, <3>1
    <3>3. i \in 1 .. n + 1 /\ written'[i] = kind
      BY <1>1, <3>2
    <3> QED BY <3>2, <3>3
  <2> QED BY <2>1, <2>2
<1> QED BY <1>2, <1>3

LEMMA WriteLineStep ==
    ASSUME HInv, NEW kind \in Kinds(agent), NEW complete \in BOOLEAN, WriteLine(kind, complete)
    PROVE  HInv'
<1> USE DEF HInv
<1>0. PICK n : n = Len(written)
  OBVIOUS
<1>1. /\ ~torn /\ n < MaxLines /\ torn' = ~complete
      /\ written = <<>> => kind \in Headers(agent)
      /\ written # <<>> => agent = "claude" \/ kind \notin Headers(agent)
      /\ \A t \in {"custom-title", "ai-title"} \ {kind} : Repeated(t, n + 1)
      /\ written' = Append(written, kind)
      /\ length' = [length EXCEPT ![Live] = n + 1]
      /\ UNCHANGED <<agent, place, named, scan, owed>>
  BY <1>0 DEF WriteLine
<1>2. /\ Live \in Files /\ MaxLines \in Nat /\ n \in 0 .. MaxLines
      /\ written \in Seq(Kinds(agent)) /\ length[Live] = n
      /\ length \in [Files -> 0 .. n] /\ DOMAIN written = 1 .. n
  BY <1>0, HistoryAssumption, LinesAre DEF ScanTypeOK, Wellformed
<1>3. /\ written' \in Seq(Kinds(agent)) /\ Len(written') = n + 1
      /\ \A i \in 1 .. n : written'[i] = written[i]
      /\ written'[n + 1] = kind /\ DOMAIN written' = 1 .. n + 1
      /\ length'[Live] = n + 1
      /\ \A f \in Files : f # Live => length'[f] = length[f]
      /\ written = <<>> <=> n = 0
  BY <1>0, <1>1, <1>2, AppendProperties, EmptySeq
<1>4. ScanTypeOK'
  <2>1. length' \in [Files -> 0 .. n + 1]
    BY <1>1, <1>2
  <2>2. Len(written') <= MaxLines
    BY <1>1, <1>2, <1>3
  <2> QED BY <1>1, <1>3, <2>1, <2>2 DEF ScanTypeOK, Times
<1>5. Wellformed'
  <2>1. written'[1] \in Headers(agent)
    BY <1>1, <1>2, <1>3 DEF Wellformed
  <2>2. agent # "claude" => \A i \in 1 .. n + 1 : i > 1 => written'[i] \notin Headers(agent)
    <3> SUFFICES ASSUME agent # "claude", NEW i \in 1 .. n + 1, i > 1
                 PROVE  written'[i] \notin Headers(agent)
      OBVIOUS
    <3>1. CASE i = n + 1
      BY <1>1, <1>2, <1>3, <3>1
    <3>2. CASE i \in 1 .. n
      BY <1>2, <1>3, <3>2 DEF Wellformed
    <3> QED BY <1>2, <3>1, <3>2
  <2>3. written' # <<>>
    BY <1>2, <1>3
  <2> QED BY <1>1, <1>3, <2>1, <2>2, <2>3 DEF Wellformed
<1>6. ASSUME NEW f \in Files
      PROVE  /\ Whole(f) \subseteq Whole(f)' /\ LastActive(f) <= LastActive(f)'
             /\ LastActive(f)' \in Int
             /\ Whole(f) # {} => written'[1] = written[1]
  <2>1. Whole(f) # {} => written'[1] = written[1]
    BY <1>2, <1>3, LinesAre
  <2>2. CASE f = Live
    <3>1. Whole(Live) \subseteq Whole(Live)' /\ LastActive(Live) <= LastActive(Live)'
      <4>1. torn' \in BOOLEAN /\ length'[Live] = length[Live] + 1
            /\ \A i \in 1 .. length[Live] : written'[i] = written[i]
        BY <1>1, <1>2, <1>3
      <4> QED BY <1>1, <4>1, GrownFile
    <3>2. LastActive(Live)' \in Int
      BY <1>2, <1>4, <1>5, ActiveIsNext
    <3> QED BY <2>1, <2>2, <3>1, <3>2
  <2>3. CASE f # Live
    <3>1. length'[f] = length[f] /\ \A i \in 1 .. length[f] : written'[i] = written[i]
      BY <1>2, <1>3, <2>3
    <3>2. Whole(f)' = Whole(f) /\ LastActive(f)' = LastActive(f)
      BY <2>3, <3>1, SameFile
    <3> QED BY <2>1, <3>2, ActiveIs
  <2> QED BY <2>2, <2>3
<1>7. OwedKept'
  <2>1. \A f \in Files : \A a \in Times : <<f, a>> \in owed =>
           place[f] # "none" /\ Whole(f) # {}
    BY DEF OwedKept
  <2> QED BY <1>1, <1>6, <2>1, OwedStep
<1>8. ScanOK' /\ Tracked' /\ CreatedFirst'
  <2>1. \A f \in Files : length'[f] \in Nat /\ length[f] <= length'[f]
    BY <1>2, <1>3
  <2> QED BY <1>1, <2>1, FilesStep
<1>9. TitlesNear'
  <2>0. Len(written') = n + 1 /\ Len(written') - 1 = n
    BY <1>2, <1>3
  <2> SUFFICES ASSUME agent = "claude", NEW t \in {"custom-title", "ai-title"}
               PROVE  Near(n, t)' /\ Near(n + 1, t)'
    <3>1. ASSUME NEW t \in {"custom-title", "ai-title"}, Near(n, t)' /\ Near(n + 1, t)'
          PROVE  Near(Len(written), t)' /\ Near(Len(written) - 1, t)'
      BY <2>0, <3>1 DEF Near
    <3> QED BY <1>1, <3>1 DEF TitlesNear
  <2>1. Near(n, t)
    BY <1>0 DEF TitlesNear, Near
  <2>2. ASSUME kind # t, \E i \in 1 .. n : written[i] = t
        PROVE  \E i \in 1 .. n : written[i] = t /\ (n + 1) - i < TitlePeriod
    <3> DEFINE S == Of(1 .. n, {t})
    <3>1. S # {} /\ S \in SUBSET (1 .. n)
      BY <2>2 DEF Of
    <3>2. (n + 1) - LastOf(S) < TitlePeriod
      <4>1. Repeated(t, n + 1)
        BY <1>1, <2>2
      <4>2. Of(1 .. Len(written), {t}) # {} =>
               (n + 1) - LastOf(Of(1 .. Len(written), {t})) < TitlePeriod
        BY <4>1 DEF Repeated
      <4>3. Of(1 .. Len(written), {t}) = S
        BY <1>0 DEF Of
      <4> HIDE DEF S
      <4> QED BY <3>1, <4>2, <4>3
    <3>3. LastOf(S) \in S
      <4> HIDE DEF S
      <4> QED BY <1>2, <3>1, LastOfIs
    <3>4. LastOf(S) \in 1 .. n /\ written[LastOf(S)] = t
      BY <3>3 DEF Of
    <3> QED BY <3>2, <3>4
  <2> QED BY <1>0, <1>1, <1>2, <2>1, <2>2, NearGrows
<1>10. OpenKept'
  <2>1. \A f \in Files : /\ length'[f] \in Nat /\ length[f] <= length'[f]
                         /\ \A i \in Whole(f) : written'[i] = written[i]
    BY <1>2, <1>3, LinesAre
  <2> QED BY <1>1, <1>6, <2>1, OpenStep
<1> QED BY <1>4, <1>5, <1>7, <1>8, <1>9, <1>10

LEMMA CompleteLineStep ==
    ASSUME HInv, CompleteLine
    PROVE  HInv'
<1> USE DEF HInv
<1>1. torn /\ torn' = FALSE /\ UNCHANGED <<agent, written, length, place, named, scan, owed>>
  BY DEF CompleteLine
<1>2. Live \in Files
  BY HistoryAssumption
<1>3. ScanTypeOK'
  BY <1>1 DEF ScanTypeOK, Times
<1>4. Wellformed' /\ TitlesNear'
  <2>1. Wellformed'
    BY <1>1 DEF Wellformed
  <2>2. ASSUME NEW kind, Near(Len(written), kind) PROVE Near(Len(written), kind)'
    BY <1>1, <2>2 DEF Near
  <2> QED BY <1>1, <2>1, <2>2 DEF TitlesNear
<1>5. ASSUME NEW f \in Files
      PROVE  Whole(f) \subseteq Whole(f)' /\ LastActive(f) <= LastActive(f)'
             /\ LastActive(f)' \in Int
  <2>1. CASE f = Live
    BY <1>1, <1>3, <1>4, <2>1, GrownFile, ActiveIsNext
  <2>2. CASE f # Live
    <3>1. Whole(f)' = Whole(f) /\ LastActive(f)' = LastActive(f)
      BY <1>1, <2>2, SameFile
    <3>2. LastActive(f) \in Int
      BY ActiveIs, LinesAre
    <3> QED BY <3>1, <3>2
  <2> QED BY <2>1, <2>2
<1>6. OwedKept'
  <2>1. \A f \in Files : \A a \in Times : <<f, a>> \in owed' => place'[f] # "none"
    BY <1>1 DEF OwedKept
  <2>2. written'[1] = written[1] /\ owed' \subseteq owed
    BY <1>1
  <2> QED BY <1>5, <2>1, <2>2, OwedStep
<1>7. ScanOK' /\ Tracked' /\ CreatedFirst'
  <2>1. \A f \in Files : length'[f] \in Nat /\ length[f] <= length'[f]
    BY <1>1, LinesAre
  <2> QED BY <1>1, <2>1, FilesStep
<1>8. OpenKept'
  <2>1. \A f \in Files : length'[f] \in Nat /\ length[f] <= length'[f]
    BY <1>1, LinesAre
  <2> QED BY <1>1, <1>5, <2>1, OpenStep
<1> QED BY <1>3, <1>4, <1>6, <1>7, <1>8

LEMMA CopyToArchiveStep ==
    ASSUME HInv, NEW g \in Files, CopyToArchive(g)
    PROVE  HInv'
<1> USE DEF HInv
<1>1. /\ g # Live /\ place[g] = "none"
      /\ place' = [place EXCEPT ![g] = "archived"]
      /\ length' = [length EXCEPT ![g] = length[Live]]
      /\ UNCHANGED <<agent, written, torn, named, scan, owed>>
  BY DEF CopyToArchive
<1>2. /\ Live \in Files /\ length \in [Files -> 0 .. Len(written)]
      /\ place \in [Files -> {"none", "sessions", "archived"}]
      /\ \A f \in Files : f # g => length'[f] = length[f] /\ place'[f] = place[f]
  BY <1>1, HistoryAssumption DEF ScanTypeOK
<1>3. ScanTypeOK'
  <2>1. length' \in [Files -> 0 .. Len(written)]
    BY <1>1, <1>2
  <2>2. place' \in [Files -> {"none", "sessions", "archived"}]
    BY <1>1, <1>2
  <2> QED BY <1>1, <2>1, <2>2 DEF ScanTypeOK, Times
<1>4. Wellformed' /\ TitlesNear'
  BY <1>1, <1>2, WrittenSame
<1>5. \A a \in Times : <<g, a>> \notin owed
  BY <1>1 DEF OwedKept
<1>6. ASSUME NEW f \in Files, f # g
      PROVE  Whole(f) \subseteq Whole(f)' /\ LastActive(f) <= LastActive(f)'
             /\ LastActive(f)' \in Int
  BY <1>1, <1>2, <1>6, FilesSame
<1>7. OwedKept'
  <2>1. \A f \in Files : \A a \in Times : <<f, a>> \in owed => f # g /\ place'[f] # "none"
    BY <1>2, <1>5 DEF OwedKept
  <2> QED BY <1>1, <1>6, <2>1, OwedStep
<1>8. ScanOK' /\ Tracked' /\ CreatedFirst'
  <2>1. \A f \in Files : \/ length'[f] \in Nat /\ length[f] <= length'[f]
                         \/ \A a \in Times : <<f, a>> \notin owed'
    <3> SUFFICES ASSUME NEW f \in Files, f # g
                 PROVE  length'[f] \in Nat /\ length[f] <= length'[f]
      BY <1>1, <1>5
    <3> QED BY <1>2, LinesAre
  <2>2. \A f \in Files : \A a \in Times : <<f, a>> \in owed' => place'[f] = place[f]
    BY <1>1, <1>2, <1>5
  <2> QED BY <1>1, <2>1, <2>2, FilesStep
<1>9. OpenKept'
  <2>1. length[Live] \in Nat /\ length[g] <= length[Live] /\ length'[g] = length[Live]
        /\ Whole(g) = 1 .. length[g] /\ Whole(g)' = 1 .. length[Live]
    BY <1>1, <1>2, LinesAre DEF Whole, Wellformed
  <2>2. \A f \in Files : /\ Whole(f) \subseteq Whole(f)'
                         /\ length'[f] \in Nat /\ length[f] <= length'[f]
    BY <1>2, <1>6, <2>1, LinesAre
  <2> QED BY <1>1, <2>2, OpenStep
<1> QED BY <1>3, <1>4, <1>7, <1>8, <1>9

\* A file moves: it is owed no longer, unless it is moved to where the scan has yet
\* to look.
LEMMA PlaceStep ==
    ASSUME HInv, ScanTypeOK', UNCHANGED <<agent, written, torn, length, scan>>,
           owed' \subseteq owed,
           \A f \in Files : \A a \in Times : <<f, a>> \in owed' =>
              \/ place'[f] = place[f]
              \/ scan.step # "reading" /\ place'[f] = "archived"
    PROVE  HInv'
<1> USE DEF HInv
<1>1. Wellformed' /\ TitlesNear'
  BY WrittenSame
<1>2. ASSUME NEW f \in Files
      PROVE  Whole(f) \subseteq Whole(f)' /\ LastActive(f) <= LastActive(f)'
             /\ LastActive(f)' \in Int
  BY FilesSame
<1>3. OwedKept'
  <2>1. \A f \in Files : \A a \in Times : <<f, a>> \in owed' => place'[f] # "none"
    BY DEF OwedKept
  <2> QED BY <1>2, <2>1, OwedStep
<1>4. ScanOK' /\ Tracked' /\ CreatedFirst'
  <2>1. \A f \in Files : length'[f] \in Nat /\ length[f] <= length'[f]
    BY LinesAre
  <2> QED BY <2>1, FilesStep
<1>5. OpenKept'
  <2>1. \A f \in Files : length'[f] \in Nat /\ length[f] <= length'[f]
    BY LinesAre
  <2> QED BY <1>2, <2>1, OpenStep
<1> QED BY <1>1, <1>3, <1>4, <1>5

LEMMA MoveToArchiveStep ==
    ASSUME HInv, MoveToArchive
    PROVE  HInv'
<1>1. /\ place' = [place EXCEPT ![Live] = "archived"]
      /\ owed' = IF scan.step = "reading" THEN {o \in owed : o[1] # Live} ELSE owed
      /\ UNCHANGED <<agent, written, torn, length, named, scan>>
  BY DEF MoveToArchive
<1>2. place \in [Files -> {"none", "sessions", "archived"}]
  BY DEF HInv, ScanTypeOK
<1>3. ScanTypeOK'
  <2>1. place' \in [Files -> {"none", "sessions", "archived"}]
    BY <1>1, <1>2
  <2>2. owed' \subseteq owed
    BY <1>1
  <2> QED BY <1>1, <2>1, <2>2 DEF HInv, ScanTypeOK, Times
<1>4. \A f \in Files : \A a \in Times : <<f, a>> \in owed' =>
         \/ place'[f] = place[f]
         \/ scan.step # "reading" /\ place'[f] = "archived"
  <2>1. \A f \in Files : place'[f] = IF f = Live THEN "archived" ELSE place[f]
    BY <1>1, <1>2
  <2>2. scan.step = "reading" => \A a : <<Live, a>> \notin owed'
    BY <1>1
  <2> QED BY <2>1, <2>2
<1>5. owed' \subseteq owed
  BY <1>1
<1> QED BY <1>1, <1>3, <1>4, <1>5, PlaceStep

LEMMA LeaveStep ==
    ASSUME HInv, NEW g \in Files, Unarchive(g) \/ RemoveFile(g)
    PROVE  HInv'
<1>1. /\ \E there \in {"none", "sessions"} : place' = [place EXCEPT ![g] = there]
      /\ owed' = {o \in owed : o[1] # g}
      /\ UNCHANGED <<agent, written, torn, length, named, scan>>
  BY DEF Unarchive, RemoveFile
<1>2. place \in [Files -> {"none", "sessions", "archived"}]
  BY DEF HInv, ScanTypeOK
<1>3. ScanTypeOK'
  <2>1. place' \in [Files -> {"none", "sessions", "archived"}]
    BY <1>1, <1>2
  <2>2. owed' \subseteq owed
    BY <1>1
  <2> QED BY <1>1, <2>1, <2>2 DEF HInv, ScanTypeOK, Times
<1>4. \A f \in Files : \A a \in Times : <<f, a>> \in owed' => place'[f] = place[f]
  <2>1. \A f \in Files : f # g => place'[f] = place[f]
    BY <1>1, <1>2
  <2>2. \A a : <<g, a>> \notin owed'
    BY <1>1
  <2> QED BY <2>1, <2>2
<1>5. owed' \subseteq owed
  BY <1>1
<1> QED BY <1>1, <1>3, <1>4, <1>5, PlaceStep

LEMMA NameThreadStep ==
    ASSUME HInv, NameThread
    PROVE  HInv'
<1>1. named' = TRUE /\ UNCHANGED <<agent, written, torn, length, place, scan, owed>>
  BY DEF NameThread
<1>2. ScanTypeOK'
  BY <1>1 DEF HInv, ScanTypeOK, Times
<1> QED BY <1>1, <1>2, PlaceStep

-----------------------------------------------------------------------------
(* The steps of a scan                                                     *)

\* A scan writes nothing.
LEMMA ScanStep ==
    ASSUME HInv, UNCHANGED <<agent, written, torn, length, place, named>>,
           ScanOK', scan'.open \subseteq scan'.paths, owed' \subseteq Files \X Times
    PROVE  /\ ScanTypeOK' /\ Wellformed' /\ TitlesNear'
           /\ \A f \in Files : /\ Whole(f)' = Whole(f) /\ LastActive(f)' = LastActive(f)
                              /\ Skipped(f)' = Skipped(f)
<1> USE DEF HInv
<1>1. ScanTypeOK'
  <2>1. /\ scan'.step \in {"idle", "listing", "reading", "done", "failed"}
        /\ scan'.paths \subseteq Files \X {"sessions", "archived"}
        /\ scan'.named \in BOOLEAN /\ scan'.tail \subseteq 1 .. MaxLines
        /\ scan'.found \in [title : Times, createdAt : Times, lastActiveAt : Times]
    BY DEF ScanOK, Times
  <2> QED BY <2>1 DEF ScanTypeOK, Times
<1>2. Wellformed' /\ TitlesNear'
  BY WrittenSame
<1>3. ASSUME NEW f \in Files
      PROVE  Whole(f)' = Whole(f) /\ LastActive(f)' = LastActive(f) /\ Skipped(f)' = Skipped(f)
  BY SameFile DEF Skipped
<1> QED BY <1>1, <1>2, <1>3

\* While nothing more is owed, it is kept.
LEMMA OwedSame ==
    ASSUME HInv, UNCHANGED <<agent, written, torn, length, place, named, owed>>,
           ScanOK', scan'.open \subseteq scan'.paths, Tracked', CreatedFirst',
           OpenKept'
    PROVE  HInv'
<1> USE DEF HInv
<1>1. owed' \subseteq Files \X Times /\ \A o \in owed : o[1] \in Files
  BY DEF ScanTypeOK, Times
<1>2. /\ ScanTypeOK' /\ Wellformed' /\ TitlesNear'
      /\ \A f \in Files : Whole(f)' = Whole(f) /\ LastActive(f)' = LastActive(f)
  BY <1>1, ScanStep
<1>3. OwedKept'
  BY <1>1, <1>2 DEF OwedKept
<1> QED BY <1>2, <1>3

\* The file that is being read stays as stat showed it.
LEMMA OpenSame ==
    ASSUME HInv, UNCHANGED <<written, torn, length, owed>>,
           scan'.open \subseteq scan.open, scan'.tail = scan.tail \/ scan'.open = {}
    PROVE  OpenKept'
<1> SUFFICES ASSUME NEW p \in scan'.open, p \in scan.open, scan'.tail = scan.tail
             PROVE  /\ scan'.tail \subseteq Whole(p[1])'
                    /\ \A o \in owed' : o[1] = p[1] => o[2] <= Active(p[1], scan.tail)'
  BY DEF OpenKept
<1>1. Whole(p[1])' = Whole(p[1])
  BY DEF Whole
<1>2. Of(scan.tail, Stamped)' = Of(scan.tail, Stamped)
  BY DEF Of
<1>3. Active(p[1], scan.tail)' = Active(p[1], scan.tail)
  BY <1>2 DEF Active
<1> QED BY <1>1, <1>3 DEF HInv, OpenKept

LEMMA InIs ==
    ASSUME NEW dir \in {"sessions", "archived"}
    PROVE  /\ In(dir) \subseteq Files \X {"sessions", "archived"}
           /\ \A f \in Files : place[f] = dir /\ length[f] > 0 => <<f, dir>> \in In(dir)
BY DEF In

LEMMA ScanBeginsStep ==
    ASSUME HInv, ScanBegins
    PROVE  HInv'
<1> USE DEF HInv
<1> DEFINE paths == In("sessions")
<1>1. /\ UNCHANGED <<agent, written, torn, length, place, named>>
      /\ owed' = Owed
      /\ scan' = [step |-> "listing", paths |-> paths, open |-> {}, tail |-> {}, named |-> FALSE,
                  found |-> None]
  BY DEF ScanBegins, Directories, Idle
<1>2. paths \in SUBSET (Files \X {"sessions", "archived"})
  BY InIs
<1>3. None \in [title : Times, createdAt : Times, lastActiveAt : Times]
      /\ None.createdAt <= None.lastActiveAt
  BY HistoryAssumption DEF None, Candidate, Times
<1>4. \A o \in Owed : /\ o[1] \in Files /\ o[2] = LastActive(o[1]) /\ o = <<o[1], o[2]>>
                      /\ place[o[1]] # "none" /\ Whole(o[1]) # {}
                      /\ written[1] \notin {"subagent_meta", "child"}
  BY DEF Owed
<1>5. owed' \subseteq Files \X Times
  <2>1. \A f \in Files : LastActive(f) \in Times
    BY ActiveIs
  <2> QED BY <1>1, <1>4, <2>1
<1>6. ScanOK' /\ CreatedFirst' /\ scan'.open \subseteq scan'.paths
  <2> HIDE DEF paths
  <2> QED BY <1>1, <1>2, <1>3 DEF ScanOK, CreatedFirst, Times
<1>7. /\ ScanTypeOK' /\ Wellformed' /\ TitlesNear'
      /\ \A f \in Files : Whole(f)' = Whole(f) /\ LastActive(f)' = LastActive(f)
  BY <1>1, <1>5, <1>6, ScanStep
<1>8. OwedKept'
  <2> SUFFICES ASSUME NEW o \in Owed
               PROVE  /\ place'[o[1]] # "none"
                      /\ Whole(o[1])' # {} /\ written'[1] \notin {"subagent_meta", "child"}
                      /\ o[2] <= LastActive(o[1])'
    BY <1>1 DEF OwedKept
  <2>1. LastActive(o[1]) \in Int
    BY <1>4, ActiveIs, LinesAre
  <2> QED BY <1>1, <1>4, <1>7, <2>1
<1>9. Tracked'
  <2>1. ASSUME NEW o \in Owed, place'[o[1]] = "sessions"
        PROVE  <<o[1], "sessions">> \in scan'.paths
    <3>1. place[o[1]] = "sessions" /\ length[o[1]] > 0
      BY <1>1, <1>4, <2>1, LinesAre
    <3> QED BY <1>1, <1>4, <3>1, InIs
  <2>2. scan'.step = "listing"
    BY <1>1
  <2> QED BY <1>1, <2>1, <2>2 DEF Tracked
<1>10. OpenKept'
  BY <1>1 DEF OpenKept
<1> QED BY <1>6, <1>7, <1>8, <1>9, <1>10

LEMMA ListRestStep ==
    ASSUME HInv, ListRest
    PROVE  HInv'
<1> USE DEF HInv
<1> DEFINE paths == scan.paths \cup In("archived")
<1>1. /\ scan.step = "listing"
      /\ UNCHANGED <<agent, written, torn, length, place, named, owed>>
      /\ scan' = [scan EXCEPT !.step = "reading", !.paths = paths, !.named = named]
  BY DEF ListRest, Directories
<1>2. paths \in SUBSET (Files \X {"sessions", "archived"}) /\ named \in BOOLEAN
  BY InIs DEF ScanTypeOK
<1>3. ScanOK' /\ CreatedFirst' /\ scan'.open \subseteq scan'.paths
  <2>1. scan.open \subseteq paths
    BY DEF ScanTypeOK
  <2> HIDE DEF paths
  <2> QED BY <1>1, <1>2, <2>1 DEF ScanOK, CreatedFirst, Times
<1>4. Tracked'
  <2>1. ASSUME NEW o \in owed
        PROVE  <<o[1], place'[o[1]]>> \in scan'.paths
    <3>1. o[1] \in Files /\ place[o[1]] \in {"sessions", "archived"} /\ length[o[1]] > 0
      <4>1. o[1] \in Files
        BY DEF ScanTypeOK
      <4>2. Whole(o[1]) # {} /\ place[o[1]] # "none"
        BY DEF OwedKept
      <4> QED BY <4>1, <4>2, LinesAre DEF ScanTypeOK
    <3>2. <<o[1], place[o[1]]>> \in paths
      BY <1>1, <3>1, InIs DEF Tracked
    <3> QED BY <1>1, <3>2 DEF ScanOK
  <2>2. scan'.step = "reading"
    BY <1>1 DEF ScanOK
  <2> QED BY <1>1, <2>1, <2>2 DEF Tracked
<1>5. OpenKept'
  <2>1. scan'.open = scan.open /\ scan'.tail = scan.tail
    BY <1>1 DEF ScanOK
  <2> QED BY <1>1, <2>1, OpenSame
<1> QED BY <1>1, <1>3, <1>4, <1>5, OwedSame

LEMMA StatFileStep ==
    ASSUME HInv, NEW p \in Files \X {"sessions", "archived"}, StatFile(p)
    PROVE  HInv'
<1> USE DEF HInv
<1>1. /\ scan.step = "reading" /\ scan.open = {} /\ p \in scan.paths
      /\ UNCHANGED <<agent, written, torn, length, place, named, owed>>
      /\ scan' = IF There(p) /\ ~Skipped(p[1])
                 THEN [scan EXCEPT !.open = {p}, !.tail = TailLines(p[1])]
                 ELSE [scan EXCEPT !.paths = @ \ {p}]
  BY DEF StatFile
<1>2. ScanOK' /\ CreatedFirst' /\ scan'.open \subseteq scan'.paths
  <2>0. TailLines(p[1]) \in SUBSET (1 .. MaxLines)
    BY LinesAre, HistoryAssumption
  <2>1. CASE There(p) /\ ~Skipped(p[1])
    BY <1>1, <2>0, <2>1 DEF ScanOK, CreatedFirst, Times
  <2>2. CASE ~(There(p) /\ ~Skipped(p[1]))
    BY <1>1, <2>2 DEF ScanOK, CreatedFirst, Times
  <2> QED BY <2>1, <2>2
<1>3. scan'.step = "reading" /\ scan'.found = scan.found
      /\ \/ scan'.paths = scan.paths
         \/ scan'.paths = scan.paths \ {p} /\ (There(p) => Skipped(p[1]))
  <2>1. CASE There(p) /\ ~Skipped(p[1])
    <3>1. scan' = [scan EXCEPT !.open = {p}, !.tail = TailLines(p[1])]
      BY <1>1, <2>1
    <3> QED BY <1>1, <3>1 DEF ScanOK
  <2>2. CASE ~(There(p) /\ ~Skipped(p[1]))
    <3>1. scan' = [scan EXCEPT !.paths = @ \ {p}]
      BY <1>1, <2>2
    <3> QED BY <1>1, <2>2, <3>1 DEF ScanOK
  <2> QED BY <2>1, <2>2
<1>4. Tracked'
  <2>1. ASSUME NEW o \in owed
        PROVE  <<o[1], place'[o[1]]>> \in scan'.paths \/ FoundFor(o)' \/ Skipped(o[1])'
    <3>1. <<o[1], place[o[1]]>> \in scan.paths \/ FoundFor(o) \/ Skipped(o[1])
      BY <1>1 DEF Tracked
    <3>2. FoundFor(o)' <=> FoundFor(o)
      BY <1>1, <1>3 DEF FoundFor
    <3>3. Skipped(o[1])' <=> Skipped(o[1])
      BY <1>1 DEF Skipped
    <3>4. CASE <<o[1], place[o[1]]>> = p
      <4>1. There(p) /\ p[1] = o[1]
        BY <3>4 DEF There
      <4> QED BY <1>1, <1>3, <3>1, <3>2, <3>3, <3>4, <4>1
    <3>5. CASE <<o[1], place[o[1]]>> # p
      BY <1>1, <1>3, <3>1, <3>2, <3>3, <3>5
    <3> QED BY <3>4, <3>5
  <2> QED BY <1>1, <1>3, <2>1 DEF Tracked
<1>5. OpenKept'
  <2>1. CASE There(p) /\ ~Skipped(p[1])
    <3>1. scan' = [scan EXCEPT !.open = {p}, !.tail = TailLines(p[1])]
      BY <1>1, <2>1
    <3>2. scan'.open = {p} /\ scan'.tail = TailLines(p[1])
      BY <3>1 DEF ScanOK
    <3>3. TailLines(p[1]) \subseteq Whole(p[1]) /\ Whole(p[1])' = Whole(p[1])
      BY <1>1, LinesAre, SameFile
    <3>4. LastActive(p[1])' = LastActive(p[1]) /\ TailLines(p[1])' = TailLines(p[1])
      BY <1>1, <3>3, SameFile DEF TailLines
    <3>5. Active(p[1], scan.tail)' = LastActive(p[1])'
      BY <3>2, <3>4 DEF LastActive, Active
    <3>6. \A o \in owed : o[1] = p[1] => o[2] <= LastActive(p[1])
      BY DEF OwedKept
    <3> QED BY <1>1, <3>2, <3>3, <3>4, <3>5, <3>6 DEF OpenKept
  <2>2. CASE ~(There(p) /\ ~Skipped(p[1]))
    <3>1. scan' = [scan EXCEPT !.paths = @ \ {p}]
      BY <1>1, <2>2
    <3>2. scan'.open = scan.open /\ scan'.tail = scan.tail
      BY <3>1 DEF ScanOK
    <3> QED BY <1>1, <3>2, OpenSame
  <2> QED BY <2>1, <2>2
<1> QED BY <1>1, <1>2, <1>4, <1>5, OwedSame

\* The candidate kept is as recent as either.
LEMMA MergeIs ==
    ASSUME NEW old \in Candidates, NEW new \in Candidates
    PROVE  /\ Merge(old, new) \in {old, new}
           /\ old # None => Merge(old, new) # None
                              /\ Merge(old, new).lastActiveAt >= old.lastActiveAt
           /\ new # None => Merge(old, new) # None
                              /\ Merge(old, new).lastActiveAt >= new.lastActiveAt
<1>1. /\ old.lastActiveAt \in Int /\ old.lastActiveAt >= -1
      /\ new.lastActiveAt \in Int /\ None.lastActiveAt = -1
  BY HistoryAssumption DEF Candidates, Times, None, Candidate
<1>2. CASE old = None
  BY <1>1, <1>2 DEF Merge
<1>3. CASE old # None /\ new.lastActiveAt > old.lastActiveAt
  <2>1. new # None
    BY <1>1, <1>3
  <2> QED BY <1>1, <1>3, <2>1 DEF Merge
<1>4. CASE old # None /\ ~(new.lastActiveAt > old.lastActiveAt)
  BY <1>1, <1>4 DEF Merge
<1> QED BY <1>2, <1>3, <1>4

LEMMA ReadFileStep ==
    ASSUME HInv, NEW p \in Files \X {"sessions", "archived"}, ReadFile(p)
    PROVE  HInv'
<1> USE DEF HInv
<1>1. /\ scan.step = "reading" /\ p \in scan.open
      /\ UNCHANGED <<agent, written, torn, length, place, named, owed>>
  BY DEF ReadFile
<1>2. CASE There(p)
  <2>t. PICK tail \in {scan.tail, TailLines(p[1])} :
           scan' = [scan EXCEPT !.paths = @ \ {p}, !.open = {}, !.tail = {},
                                !.found = Merge(@, Scanned(p[1], tail))]
    BY <1>2 DEF ReadFile
  <2>u. /\ tail \in SUBSET Whole(p[1])
        /\ \A o \in owed : o[1] = p[1] => o[2] <= Active(p[1], tail)
    BY <1>1, LinesAre DEF OpenKept, OwedKept, LastActive
  <2> DEFINE candidate == Scanned(p[1], tail)
             found == Merge(scan.found, candidate)
  <2>1. scan' = [scan EXCEPT !.paths = @ \ {p}, !.open = {}, !.tail = {}, !.found = found]
    BY <2>t
  <2>2. /\ scan.found \in Candidates /\ candidate \in Candidates
        /\ agent = "claude" \/ candidate.createdAt <= candidate.lastActiveAt
    BY <2>u, ScannedIs DEF ScanOK, Candidates
  <2>3. /\ found \in {scan.found, candidate}
        /\ scan.found # None => found # None /\ found.lastActiveAt >= scan.found.lastActiveAt
        /\ candidate # None => found # None
                                     /\ found.lastActiveAt >= candidate.lastActiveAt
    BY <2>2, MergeIs
  <2>4. found \in Candidates /\ (agent = "claude" \/ found.createdAt <= found.lastActiveAt)
    BY <2>2, <2>3 DEF CreatedFirst
  <2> HIDE DEF found, candidate
  <2>5. /\ scan'.step = "reading" /\ scan'.paths = scan.paths \ {p} /\ scan'.open = {}
        /\ scan'.found = found
    BY <1>1, <2>1 DEF ScanOK
  <2>6. ScanOK'
    BY <2>1, <2>4 DEF ScanOK, Candidates, Times
  <2>7. CreatedFirst'
    BY <1>1, <2>4, <2>5 DEF CreatedFirst
  <2>8. Tracked'
    <3>1. ASSUME NEW o \in owed
          PROVE  <<o[1], place'[o[1]]>> \in scan'.paths \/ FoundFor(o)' \/ Skipped(o[1])'
      <4>1. o[1] \in Files /\ o[2] \in Times /\ o[2] \in Int
        BY DEF ScanTypeOK, Times
      <4>2. <<o[1], place[o[1]]>> \in scan.paths \/ FoundFor(o) \/ Skipped(o[1])
        BY <1>1 DEF Tracked
      <4>3. Skipped(o[1])' <=> Skipped(o[1])
        BY <1>1 DEF Skipped
      <4>4. scan.found.lastActiveAt \in Int /\ candidate.lastActiveAt \in Int
            /\ found.lastActiveAt \in Int
        BY <2>2, <2>4 DEF Candidates, Times
      <4>5. ASSUME FoundFor(o) PROVE FoundFor(o)'
        BY <2>3, <2>5, <4>1, <4>4, <4>5 DEF FoundFor
      <4>6. CASE <<o[1], place[o[1]]>> = p
        <5>1. p[1] = o[1]
          BY <4>6
        <5>2. /\ Whole(o[1]) # {} /\ written[1] \notin {"subagent_meta", "child"}
              /\ o[2] <= Active(p[1], tail)
          BY <2>u, <5>1 DEF OwedKept
        <5>3. candidate # None /\ candidate.lastActiveAt >= Active(p[1], tail)
          BY <2>u, <5>1, <5>2, ScannedIs DEF candidate
        <5>4. Active(p[1], tail) \in Int
          BY <2>u, <4>1, <5>1, ActiveIn, LinesAre
        <5> QED BY <2>3, <2>5, <4>1, <4>4, <5>1, <5>2, <5>3, <5>4 DEF FoundFor
      <4>7. CASE <<o[1], place[o[1]]>> # p
        BY <1>1, <2>5, <4>2, <4>3, <4>5, <4>7
      <4> QED BY <4>6, <4>7
    <3> QED BY <1>1, <2>5, <3>1 DEF Tracked
  <2>9. OpenKept'
    BY <2>5 DEF OpenKept
  <2> QED BY <1>1, <2>5, <2>6, <2>7, <2>8, <2>9, OwedSame
<1>3. CASE ~There(p)
  <2>1. scan' = [step |-> "failed", paths |-> {}, open |-> {}, tail |-> {},
              named |-> FALSE, found |-> None]
    BY <1>3 DEF ReadFile, Idle
  <2>2. None \in [title : Times, createdAt : Times, lastActiveAt : Times]
        /\ None.createdAt <= None.lastActiveAt
    BY HistoryAssumption DEF None, Candidate, Times
  <2>3. ScanOK' /\ CreatedFirst' /\ scan'.open \subseteq scan'.paths
    BY <1>1, <2>1, <2>2 DEF ScanOK, CreatedFirst, Times
  <2>4. Tracked'
    BY <2>1 DEF Tracked
  <2>5. OpenKept'
    BY <2>1 DEF OpenKept
  <2> QED BY <1>1, <2>3, <2>4, <2>5, OwedSame
<1> QED BY <1>2, <1>3

LEMMA ScanEndsStep ==
    ASSUME HInv, ScanEnds
    PROVE  HInv'
<1> USE DEF HInv
<1>1. /\ scan.step = "reading" /\ scan.paths = {}
      /\ scan' = [scan EXCEPT !.step = "done"]
      /\ UNCHANGED <<agent, written, torn, length, place, named, owed>>
  BY DEF ScanEnds
<1>2. ScanOK' /\ CreatedFirst' /\ scan'.open \subseteq scan'.paths
  BY <1>1 DEF ScanOK, CreatedFirst, ScanTypeOK, Times
<1>3. scan'.step = "done" /\ scan'.found = scan.found
  BY <1>1 DEF ScanOK
<1>4. Tracked'
  <2>1. ASSUME NEW o \in owed PROVE FoundFor(o)' \/ Skipped(o[1])'
    <3>1. FoundFor(o) \/ Skipped(o[1])
      BY <1>1 DEF Tracked
    <3>2. FoundFor(o)' <=> FoundFor(o)
      BY <1>1, <1>3 DEF FoundFor
    <3>3. Skipped(o[1])' <=> Skipped(o[1])
      BY <1>1 DEF Skipped
    <3> QED BY <3>1, <3>2, <3>3
  <2> QED BY <1>1, <1>3, <2>1 DEF Tracked
<1>5. OpenKept'
  <2>1. scan'.open = scan.open /\ scan'.tail = scan.tail
    BY <1>1 DEF ScanOK
  <2> QED BY <1>1, <2>1, OpenSame
<1> QED BY <1>1, <1>2, <1>4, <1>5, OwedSame

-----------------------------------------------------------------------------
(* The titles                                                              *)

\* The last title of a kind is in the tail.
LEMMA TitleRead ==
    ASSUME HInv, TitlePeriod < TailSize, agent = "claude",
           NEW kind \in {"custom-title", "ai-title"}
    PROVE  /\ Of(Whole(Live), {kind}) = {} => LastOf(Of(Read(Live, TailLines(Live)), {kind})) = 0
           /\ Of(Whole(Live), {kind}) # {} =>
                 /\ LastOf(Of(Read(Live, TailLines(Live)), {kind})) = Max(Of(Whole(Live), {kind}))
                 /\ LastOf(Of(Read(Live, TailLines(Live)), {kind})) # 0
<1> USE DEF HInv
<1> DEFINE G == Of(Whole(Live), {kind})
           R == Of(Read(Live, TailLines(Live)), {kind})
<1>0. Live \in Files /\ TitlePeriod \in Nat /\ TailSize \in Nat
  BY HistoryAssumption
<1>1. PICK n \in Nat : n = length[Live] /\ n = Len(written)
  BY <1>0, LinesAre DEF Wellformed
<1>2. PICK m \in Nat : Whole(Live) = 1 .. m /\ m <= n /\ n <= m + 1 /\ Near(m, kind)
  <2>1. CASE torn
    <3>1. n >= 1
      BY <1>1, <2>1 DEF Wellformed, ScanTypeOK
    <3>2. Near(n - 1, kind)
      <4>1. Near(Len(written) - 1, kind)
        BY <2>1 DEF TitlesNear
      <4> QED BY <1>1, <4>1 DEF Near
    <3>3. Whole(Live) = 1 .. n - 1
      BY <1>1, <2>1 DEF Whole
    <3> QED BY <3>1, <3>2, <3>3
  <2>2. CASE ~torn
    <3>1. Near(n, kind)
      <4>1. Near(Len(written), kind)
        BY DEF TitlesNear
      <4> QED BY <1>1, <4>1 DEF Near
    <3>2. Whole(Live) = 1 .. n
      BY <1>1, <2>2 DEF Whole
    <3> QED BY <3>1, <3>2
  <2> QED BY <2>1, <2>2
<1>3. R \subseteq G
  BY <1>0, LinesAre DEF Of
<1>4. G \in SUBSET (1 .. m)
  BY <1>2 DEF Of
<1>5. ASSUME G # {}
      PROVE  LastOf(G) \in R
  <2>1. LastOf(G) \in G /\ \A y \in G : y <= LastOf(G)
    <3> HIDE DEF G
    <3> QED BY <1>4, <1>5, LastOfIs
  <2>2. PICK i \in 1 .. m : written[i] = kind /\ m - i < TitlePeriod
    <3>1. \E i \in 1 .. m : written[i] = kind
      BY <1>2, <1>5 DEF Of
    <3> QED BY <1>2, <3>1 DEF Near
  <2>3. i \in G
    BY <1>2, <2>2 DEF Of
  <2>4. i <= LastOf(G) /\ LastOf(G) \in 1 .. m /\ written[LastOf(G)] = kind
    BY <1>2, <2>1, <2>3 DEF Of
  <2> DEFINE g == LastOf(G)
  <2>5. g \in 1 .. m /\ i <= g /\ written[g] = kind
    BY <2>4
  <2> HIDE DEF g
  <2>6. g \in n - TailSize + 1 .. n
    BY <1>0, <1>1, <1>2, <2>2, <2>5
  <2>7. g \in TailLines(Live)
    BY <1>1, <1>2, <2>5, <2>6 DEF TailLines
  <2>8. g \in R
    BY <2>5, <2>7 DEF Read, Of
  <2> QED BY <2>8 DEF g
<1> HIDE DEF G, R
<1>6. R \in SUBSET (1 .. m)
  BY <1>3, <1>4
<1>7. CASE G = {}
  <2>1. R = {}
    BY <1>3, <1>7
  <2> QED BY <1>6, <1>7, <2>1, LastOfIs DEF G, R
<1>8. CASE G # {}
  <2>1. LastOf(G) \in R /\ LastOf(G) \in G /\ \A y \in G : y <= LastOf(G)
    BY <1>4, <1>5, <1>8, LastOfIs
  <2>2. LastOf(R) \in R /\ \A y \in R : y <= LastOf(R)
    BY <1>6, <2>1, LastOfIs
  <2>3. LastOf(R) \in 1 .. m /\ LastOf(G) \in 1 .. m
    BY <1>4, <1>6, <2>1, <2>2
  <2>4. LastOf(R) = LastOf(G)
    BY <1>3, <2>1, <2>2, <2>3
  <2>5. LastOf(G) = Max(G)
    BY <1>8 DEF LastOf
  <2> QED BY <1>8, <2>3, <2>4, <2>5 DEF G, R
<1> QED BY <1>7, <1>8

LEMMA TitleHolds ==
    ASSUME HInv, TitlePeriod < TailSize
    PROVE  TitleIsLatest
<1> DEFINE C == Of(Whole(Live), {"custom-title"})
           A == Of(Whole(Live), {"ai-title"})
           custom == LastOf(Of(Read(Live, TailLines(Live)), {"custom-title"}))
           ai == LastOf(Of(Read(Live, TailLines(Live)), {"ai-title"}))
<1> SUFFICES ASSUME agent = "claude"
             PROVE  \/ C # {} /\ ClaudeTitle(Live, TailLines(Live)) = Max(C)
                    \/ C = {} /\ A # {} /\ ClaudeTitle(Live, TailLines(Live)) = Max(A)
                    \/ C = {} /\ A = {}
  BY DEF TitleIsLatest
<1>1. /\ C = {} => custom = 0
      /\ C # {} => custom = Max(C) /\ custom # 0
      /\ A = {} => ai = 0
      /\ A # {} => ai = Max(A) /\ ai # 0
  BY TitleRead
<1>2. /\ custom # 0 => ClaudeTitle(Live, TailLines(Live)) = custom
      /\ custom = 0 /\ ai # 0 => ClaudeTitle(Live, TailLines(Live)) = ai
  BY DEF ClaudeTitle, Or
<1> HIDE DEF C, A, custom, ai
<1> QED BY <1>1, <1>2

-----------------------------------------------------------------------------
(* The theorems                                                            *)

LEMMA InitHInv == ScanInit => HInv
<1> SUFFICES ASSUME ScanInit PROVE HInv
  OBVIOUS
<1>1. /\ written = <<>> /\ torn = FALSE /\ owed = {}
      /\ scan = [step |-> "idle", paths |-> {}, open |-> {}, tail |-> {},
               named |-> FALSE, found |-> None]
      /\ agent \in {"claude", "codex", "pi", "opencode"} /\ named = FALSE
      /\ length = [f \in Files |-> 0]
      /\ place = [f \in Files |-> IF f = Live THEN "sessions" ELSE "none"]
  BY DEF ScanInit, Idle
<1>2. written \in Seq(Kinds(agent)) /\ Len(written) = 0
  BY <1>1
<1>3. MaxLines \in Nat \ {0} /\ Live \in Files
  BY HistoryAssumption
<1>4. /\ length \in [Files -> 0 .. Len(written)]
      /\ place \in [Files -> {"none", "sessions", "archived"}]
  BY <1>1, <1>2
<1>5. None \in [title : Times, createdAt : Times, lastActiveAt : Times]
      /\ None.createdAt <= None.lastActiveAt
  BY <1>3 DEF None, Candidate, Times
<1>6. ScanTypeOK
  <2>1. /\ scan.step = "idle" /\ scan.paths = {} /\ scan.open = {} /\ scan.named = FALSE
        /\ scan.found = None /\ scan.tail = {}
    BY <1>1
  <2>2. torn \in BOOLEAN /\ named \in BOOLEAN /\ Len(written) <= MaxLines
    <3>1. torn = FALSE /\ named = FALSE
      BY <1>1
    <3>2. 0 <= MaxLines
      BY <1>3
    <3> QED BY <1>2, <3>1, <3>2
  <2>3. /\ scan.step \in {"idle", "listing", "reading", "done", "failed"}
        /\ scan.paths \subseteq Files \X {"sessions", "archived"} /\ scan.open \subseteq scan.paths
        /\ scan.named \in BOOLEAN /\ scan.tail \subseteq 1 .. MaxLines
        /\ scan.found \in [title : Times, createdAt : Times, lastActiveAt : Times]
    <3> HIDE DEF Times
    <3> QED BY <1>5, <2>1
  <2>4. owed \subseteq Files \X Times /\ agent \in {"claude", "codex", "pi", "opencode"}
    BY <1>1
  <2> QED BY <1>2, <1>4, <2>2, <2>3, <2>4 DEF ScanTypeOK
<1>7. ScanOK /\ CreatedFirst /\ Tracked /\ OwedKept /\ OpenKept
  BY <1>1, <1>5 DEF ScanOK, CreatedFirst, Tracked, OwedKept, OpenKept
<1>8. Wellformed
  BY <1>1, <1>2, <1>3 DEF Wellformed
<1>9. TitlesNear
  BY <1>1, <1>2 DEF TitlesNear, Near
<1> QED BY <1>6, <1>7, <1>8, <1>9 DEF HInv

LEMMA NextHInv == HInv /\ [ScanNext]_scanVars => HInv'
<1> SUFFICES ASSUME HInv, [ScanNext]_scanVars PROVE HInv'
  OBVIOUS
<1>1. ASSUME NEW kind \in Kinds(agent), NEW complete \in BOOLEAN, WriteLine(kind, complete)
      PROVE  HInv'
  BY <1>1, WriteLineStep
<1>2. CASE CompleteLine
  BY <1>2, CompleteLineStep
<1>3. ASSUME NEW f \in Files, CopyToArchive(f) PROVE HInv'
  BY <1>3, CopyToArchiveStep
<1>4. ASSUME NEW f \in Files, Unarchive(f) \/ RemoveFile(f) PROVE HInv'
  BY <1>4, LeaveStep
<1>5. CASE MoveToArchive
  BY <1>5, MoveToArchiveStep
<1>6. CASE NameThread
  BY <1>6, NameThreadStep
<1>7. CASE ScanBegins
  BY <1>7, ScanBeginsStep
<1>8. CASE ListRest
  BY <1>8, ListRestStep
<1>9. CASE ScanEnds
  BY <1>9, ScanEndsStep
<1>10. ASSUME NEW p \in Files \X {"sessions", "archived"}, StatFile(p) PROVE HInv'
  BY <1>10, StatFileStep
<1>11. ASSUME NEW p \in Files \X {"sessions", "archived"}, ReadFile(p) PROVE HInv'
  BY <1>11, ReadFileStep
<1>12. CASE UNCHANGED scanVars
  <2>1. UNCHANGED <<agent, written, torn, length, place, named, scan, owed>>
    BY <1>12 DEF scanVars
  <2>2. ScanTypeOK'
    BY <2>1 DEF HInv, ScanTypeOK, Times
  <2> QED BY <2>1, <2>2, PlaceStep
<1> QED BY <1>1, <1>2, <1>3, <1>4, <1>5, <1>6, <1>7, <1>8, <1>9, <1>10, <1>11, <1>12 DEF ScanNext

\* The invariant holds of every reachable state.
LEMMA HInvAlways == ScanSpec => []HInv
<1> QED BY InitHInv, NextHInv, PTL DEF ScanSpec

\* The conversation, its files and the scan keep their types: no file is longer than
\* what the agent wrote, and the times of a candidate are those of lines.
THEOREM ScanTypeCorrect == ScanSpec => []ScanTypeOK
<1>1. HInv => ScanTypeOK
  BY DEF HInv
<1> QED BY <1>1, HInvAlways, PTL

\* However the agent writes on, copies or archives during a scan of history-import.ts, a
\* conversation whose file stays there is found, no older than any of its files showed
\* when the scan began, and not as created after it was last active.
THEOREM ConversationFoundAlways == ScanSpec => []ConversationFound
<1>1. HInv => ConversationFound
  BY DEF HInv, Tracked, FoundFor, CreatedFirst, ConversationFound
<1> QED BY <1>1, HInvAlways, PTL

\* Where claude writes its titles again before they leave the tail that is read, the
\* title the user gave last is found, or else claude's own.
THEOREM TitleIsLatestAlways ==
    ASSUME TitlePeriod < TailSize
    PROVE  ScanSpec => []TitleIsLatest
<1>1. HInv => TitleIsLatest
  BY TitleHolds
<1> QED BY <1>1, HInvAlways, PTL


=============================================================================
