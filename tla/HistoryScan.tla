----------------------------- MODULE HistoryScan -----------------------------
(***************************************************************************)
(* One conversation of an agent as history-import.ts finds it on disk: its *)
(* files grow, are copied, archived and unarchived while scanHistory lists *)
(* the directories, reads the head and the tail of each file and keeps one *)
(* candidate per conversation.                                             *)
(*                                                                         *)
(* A record is its kind; its place in the conversation is its time, and    *)
(* names its text.  All files of the conversation are prefixes of          *)
(* `written`.  [...head, ...tail] is the set of the lines read: the head   *)
(* is a prefix of the file and the tail a suffix, so the first match of    *)
(* the concatenation is the match with the least line, the last one that   *)
(* with the greatest, whether or not the two overlap.  How the agents      *)
(* write is external.                                                      *)
(***************************************************************************)
EXTENDS Integers, FiniteSets, FiniteSetsExt, Sequences

CONSTANTS
    Files,
    Live,           \* the file the agent writes; the others are copies
    HeadSize, TailSize,  \* the lines read at either end (10 and 60)
    Huge,           \* the length of a file that is skipped (64 MB)
    TitlePeriod,    \* external: claude writes its titles again this often
    MaxLines        \* bounds the conversation

ASSUME HistoryAssumption ==
    /\ Live \in Files
    /\ {HeadSize, TailSize, Huge, TitlePeriod, MaxLines} \subseteq Nat \ {0}

VARIABLES
    agent,      \* whose conversation it is
    written,    \* the records of the conversation
    torn,       \* the last line of Live is not complete yet
    length,     \* per file: how much of the conversation it holds
    place,      \* per file: "none", "sessions" or "archived"
    named,      \* codex: the thread has a name in session_index.jsonl
    scan,       \* the scan under way, or the last one
    owed        \* history: the files that were there when the scan began and
                \* did not leave the directories still to be listed, or the
                \* path they were listed under, since; each with the activity
                \* it showed then

scanVars == <<agent, written, torn, length, place, named, scan, owed>>

\* What a line can be; "injected" stands for every stamped line that gives
\* no title.
Kinds(a) ==
    CASE a = "claude" -> {"user", "injected", "custom-title", "ai-title", "last-prompt"}
      [] a = "codex" -> {"session_meta", "subagent_meta", "user", "injected"}
      [] a = "pi" -> {"header", "user", "injected"}
      [] a = "opencode" -> {"placeholder", "child", "title", "user"}

\* The records a conversation begins with.
Headers(a) == CASE a = "claude" -> Kinds(a)
                [] a = "codex" -> {"session_meta", "subagent_meta"}
                [] a = "pi" -> {"header"}
                [] a = "opencode" -> {"placeholder", "child"}

Stamped == {"user", "injected", "session_meta", "subagent_meta", "header"}

-----------------------------------------------------------------------------
(* What is read of a file                                                  *)

\* The lines of a file that parseLines accepts.
Whole(f) == IF f = Live /\ torn THEN 1 .. length[f] - 1 ELSE 1 .. length[f]

HeadLines(f) == Whole(f) \cap (1 .. HeadSize)

\* Variant: the tail is not read.
NoTailLines(f) == HeadLines(f)

TailLines(f) == Whole(f) \cap (length[f] - TailSize + 1 .. length[f])

\* The tail is that of the file as it is read or as it was at stat.
Read(f, tail) == HeadLines(f) \cup tail

Of(lines, kinds) == {i \in lines : written[i] \in kinds}

\* What lines there are, the first or the last of them, and 0 for none.
FirstOf(lines) == IF lines = {} THEN 0 ELSE Min(lines)
LastOf(lines) == IF lines = {} THEN 0 ELSE Max(lines)

\* a ?? b
Or(a, b) == IF a # 0 THEN a ELSE b

\* The last timestamp of the tail, else the time of the last write.
Active(f, tail) == Or(LastOf(Of(tail, Stamped)), length[f])

LastActive(f) == Active(f, TailLines(f))

FirstUser(lines) == FirstOf(Of(lines, {"user"}))

-----------------------------------------------------------------------------
(* The candidates                                                          *)

\* A title is the line it was taken from, or 0: the directory, or the id.
Candidate(title, created, active) ==
    [title |-> title, createdAt |-> created, lastActiveAt |-> active]

None == Candidate(-1, -1, -1)

ClaudeTitle(f, tail) ==
    Or(LastOf(Of(Read(f, tail), {"custom-title"})),
       Or(LastOf(Of(Read(f, tail), {"ai-title"})),
          Or(FirstUser(Read(f, tail)), LastOf(Of(Read(f, tail), {"last-prompt"})))))

ScanClaude(f, tail) ==
    Candidate(ClaudeTitle(f, tail),
              Or(FirstOf(Of(HeadLines(f), Stamped)), length[f]),
              Active(f, tail))

\* The name of the thread is no line: MaxLines + 1.
ThreadName == MaxLines + 1

ScanCodex(f, tail, threadNamed) ==
    LET metas == Of(HeadLines(f), {"session_meta", "subagent_meta"})
    IN  IF metas = {} \/ Of(metas, {"subagent_meta"}) # {} THEN None
        ELSE Candidate(IF threadNamed THEN ThreadName ELSE FirstUser(Read(f, tail)),
                       FirstOf(metas), Active(f, tail))

ScanPi(f, tail) ==
    Candidate(FirstUser(Read(f, tail)),
              Or(LastOf(Of(HeadLines(f), {"header"})), length[f]),
              Active(f, tail))

\* A row of opencode.db: its title is the last one given, and a placeholder
\* counts for none; children are not selected.
ScanOpencode(f) ==
    LET titled == LastOf(Of(Whole(f), {"title", "placeholder"}))
    IN  IF Of(Whole(f), {"child"}) # {} \/ Whole(f) = {} THEN None
        ELSE Candidate(IF Of({titled}, {"title"}) # {} THEN titled ELSE 0, 1, length[f])

Scanned(f, tail) == CASE agent = "claude" -> ScanClaude(f, tail)
                      [] agent = "codex" -> ScanCodex(f, tail, scan.named)
                      [] agent = "pi" -> ScanPi(f, tail)
                      [] agent = "opencode" -> ScanOpencode(f)

-----------------------------------------------------------------------------
\* open is the file that is being read, and tail what stat showed of it.
Idle == [step |-> "idle", paths |-> {}, open |-> {}, tail |-> {}, named |-> FALSE,
         found |-> None]

Times == -1 .. MaxLines + 1

ScanTypeOK ==
    /\ agent \in {"claude", "codex", "pi", "opencode"}
    /\ written \in Seq(Kinds(agent)) /\ Len(written) <= MaxLines
    /\ torn \in BOOLEAN
    /\ length \in [Files -> 0 .. Len(written)]
    /\ place \in [Files -> {"none", "sessions", "archived"}]
    /\ named \in BOOLEAN
    /\ scan.step \in {"idle", "listing", "reading", "done", "failed"}
    /\ scan.paths \subseteq Files \X {"sessions", "archived"}
    /\ scan.open \subseteq scan.paths /\ scan.tail \subseteq 1 .. MaxLines
    /\ scan.named \in BOOLEAN
    /\ scan.found \in [title : Times, createdAt : Times, lastActiveAt : Times]
    /\ owed \subseteq Files \X Times

ScanInit ==
    /\ agent \in {"claude", "codex", "pi", "opencode"}
    /\ written = <<>> /\ torn = FALSE
    /\ length = [f \in Files |-> 0]
    /\ place = [f \in Files |-> IF f = Live THEN "sessions" ELSE "none"]
    /\ named = FALSE
    /\ scan = Idle
    /\ owed = {}

-----------------------------------------------------------------------------
(* The agent                                                               *)

\* external: claude repeats a title before TitlePeriod lines have passed.
Repeated(kind, n) ==
    LET lines == Of(1 .. Len(written), {kind})
    IN  agent = "claude" /\ lines # {} => n - LastOf(lines) < TitlePeriod

\* A line is written; a database has no torn rows.
WriteLine(kind, complete) ==
    /\ place[Live] = "sessions" /\ ~torn /\ Len(written) < MaxLines
    /\ IF written = <<>> THEN kind \in Headers(agent)
       ELSE agent = "claude" \/ kind \notin Headers(agent)
    /\ \A t \in {"custom-title", "ai-title"} \ {kind} : Repeated(t, Len(written) + 1)
    /\ agent = "opencode" => complete
    /\ written' = Append(written, kind)
    /\ torn' = ~complete
    /\ length' = [length EXCEPT ![Live] = Len(written) + 1]
    /\ UNCHANGED <<agent, place, named, scan, owed>>

\* The rest of a line.
CompleteLine ==
    /\ torn
    /\ torn' = FALSE
    /\ UNCHANGED <<agent, written, length, place, named, scan, owed>>

\* codex archives a copy, or moves a file to and from the archive.
CopyToArchive(f) ==
    /\ agent = "codex" /\ f # Live /\ place[f] = "none" /\ length[Live] > 0 /\ ~torn
    /\ place' = [place EXCEPT ![f] = "archived"]
    /\ length' = [length EXCEPT ![f] = length[Live]]
    /\ UNCHANGED <<agent, written, torn, named, scan, owed>>

MoveToArchive ==
    /\ agent = "codex" /\ place[Live] = "sessions" /\ ~torn
    /\ place' = [place EXCEPT ![Live] = "archived"]
    /\ owed' = IF scan.step = "reading" THEN {o \in owed : o[1] # Live} ELSE owed
    /\ UNCHANGED <<agent, written, torn, length, named, scan>>

Unarchive(f) ==
    /\ place[f] = "archived" /\ (f = Live \/ place[Live] = "none")
    /\ place' = [place EXCEPT ![f] = "sessions"]
    /\ owed' = {o \in owed : o[1] # f}
    /\ UNCHANGED <<agent, written, torn, length, named, scan>>

RemoveFile(f) ==
    /\ place[f] # "none" /\ length[f] > 0 /\ ~torn
    /\ agent = "opencode" => scan.open = {}     \* a query sees a row or does not
    /\ place' = [place EXCEPT ![f] = "none"]
    /\ owed' = {o \in owed : o[1] # f}
    /\ UNCHANGED <<agent, written, torn, length, named, scan>>

NameThread ==
    /\ agent = "codex" /\ written # <<>> /\ ~named
    /\ named' = TRUE
    /\ UNCHANGED <<agent, written, torn, length, place, scan, owed>>

-----------------------------------------------------------------------------
(* The daemon                                                              *)

\* Variant: the archive is listed first.
ArchiveFirst == <<"archived", "sessions">>

\* The order in which codex's directories are listed.
Directories == <<"sessions", "archived">>

In(dir) == {<<f, dir>> : f \in {g \in Files : place[g] = dir /\ length[g] > 0}}

Skipped(f) == agent # "opencode" /\ length[f] >= Huge

\* The files a scan that begins now has to find.
Owed == {<<f, LastActive(f)>> : f \in
            {g \in Files : /\ place[g] # "none" /\ Whole(g) # {} /\ ~Skipped(g)
                           /\ written[1] \notin {"subagent_meta", "child"}}}

\* The directories are listed one after the other.
ScanBegins ==
    /\ scan.step \in {"idle", "done", "failed"}
    /\ scan' = [Idle EXCEPT !.step = "listing", !.paths = In(Directories[1])]
    /\ owed' = Owed
    /\ UNCHANGED <<agent, written, torn, length, place, named>>

\* The other directory, and the names of the threads.
ListRest ==
    /\ scan.step = "listing"
    /\ scan' = [scan EXCEPT !.step = "reading", !.paths = @ \cup In(Directories[2]),
                            !.named = named]
    /\ UNCHANGED <<agent, written, torn, length, place, named, owed>>

There(p) == place[p[1]] = p[2]

\* Variant: a file is off the list once it is opened.
StatTakesFile(p) ==
    /\ scan.step = "reading" /\ scan.open = {} /\ p \in scan.paths
    /\ scan' = [scan EXCEPT !.open = IF There(p) /\ ~Skipped(p[1]) THEN {p} ELSE {},
                            !.tail = TailLines(p[1]), !.paths = @ \ {p}]
    /\ UNCHANGED <<agent, written, torn, length, place, named, owed>>

\* stat: a file that is gone, or huge, is skipped.
StatFile(p) ==
    /\ scan.step = "reading" /\ scan.open = {} /\ p \in scan.paths
    /\ scan' = IF There(p) /\ ~Skipped(p[1])
               THEN [scan EXCEPT !.open = {p}, !.tail = TailLines(p[1])]
               ELSE [scan EXCEPT !.paths = @ \ {p}]
    /\ UNCHANGED <<agent, written, torn, length, place, named, owed>>

\* Of the candidates of one conversation the more recent is kept.
Merge(old, new) == IF old = None \/ new.lastActiveAt > old.lastActiveAt THEN new ELSE old

\* The file is read and its candidate merged: the lines of a short file as they are
\* now, the tail of a long one where stat saw its end (which are short is left to
\* chance: windows are lines here).  A file that went away since stat fails the
\* whole scan.
ReadFile(p) ==
    /\ scan.step = "reading" /\ p \in scan.open
    /\ \/ /\ There(p)
          /\ \E tail \in {scan.tail, TailLines(p[1])} :
                scan' = [scan EXCEPT !.paths = @ \ {p}, !.open = {}, !.tail = {},
                                     !.found = Merge(@, Scanned(p[1], tail))]
       \/ ~There(p) /\ scan' = [Idle EXCEPT !.step = "failed"]
    /\ UNCHANGED <<agent, written, torn, length, place, named, owed>>

ScanEnds ==
    /\ scan.step = "reading" /\ scan.paths = {}
    /\ scan' = [scan EXCEPT !.step = "done"]
    /\ UNCHANGED <<agent, written, torn, length, place, named, owed>>

-----------------------------------------------------------------------------
ScanNext ==
    \/ \E kind \in Kinds(agent), complete \in BOOLEAN : WriteLine(kind, complete)
    \/ CompleteLine
    \/ \E f \in Files : CopyToArchive(f) \/ Unarchive(f) \/ RemoveFile(f)
    \/ MoveToArchive \/ NameThread
    \/ ScanBegins \/ ListRest \/ ScanEnds
    \/ \E p \in Files \X {"sessions", "archived"} : StatFile(p) \/ ReadFile(p)

ScanSpec == ScanInit /\ [][ScanNext]_scanVars

-----------------------------------------------------------------------------
(* Properties                                                              *)

\* A conversation whose file is there throughout a scan is found by it, though
\* the agent writes on, copies it, or archives it before the archive is listed; it is listed
\* no older than any of its files showed, and for the agents whose files begin
\* with a stamped record not as created after it was last active.
ConversationFound ==
    scan.step = "done" =>
        /\ \A o \in owed : \/ scan.found # None /\ scan.found.lastActiveAt >= o[2]
                          \/ Skipped(o[1])
        /\ agent = "claude" \/ scan.found.createdAt <= scan.found.lastActiveAt

\* A claude conversation carries the title the user gave it last, or else the
\* last one claude made, however long the file is and though its last line may
\* be half written: the titles claude repeats stay within the tail.
TitleIsLatest ==
    agent = "claude" /\ length[Live] > 0 =>
        LET given == [k \in {"custom-title", "ai-title"} |-> Of(Whole(Live), {k})]
            title == ClaudeTitle(Live, TailLines(Live))
        IN  \/ given["custom-title"] # {} /\ title = Max(given["custom-title"])
            \/ given["custom-title"] = {} /\ given["ai-title"] # {}
                 /\ title = Max(given["ai-title"])
            \/ given["custom-title"] = {} /\ given["ai-title"] = {}

=============================================================================
