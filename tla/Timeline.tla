------------------------------ MODULE Timeline ------------------------------
(***************************************************************************)
(* What a turn says, from the agent's stream to the screen: the sessions   *)
(* turn deltas, finished messages and tool calls into timeline events      *)
(* (claude, codex, opencode and pi agent.ts), run() keeps the last text    *)
(* (provider-runner.ts), and the window merges the events into its list    *)
(* (state.ts).  The socket keeps their order, so a session's event and its *)
(* arrival are one step here; Dashboard models the connection.             *)
(*                                                                         *)
(* A text is the sequence of the pieces it was sent in; the last 200       *)
(* characters, to which some sessions cut a reasoning, stand for all.      *)
(*                                                                         *)
(* The agents are external.  A message is a reasoning, or none, then a     *)
(* text; a tool call separates it from the next one; the message that is   *)
(* sent whole at its end is the concatenation of its pieces.  A turn       *)
(* begins when the agent has done with the one before (the turn modules    *)
(* say what happens to runs when it has not).                              *)
(***************************************************************************)
EXTENDS ProviderRunner, FiniteSets, SequencesExt

CONSTANTS
    Agents,         \* a subset of the four
    MaxMessages,    \* bounds the messages of all turns
    MaxPieces,      \* bounds the pieces of all messages
    MaxAsks         \* bounds the permission requests

ASSUME TimelineAssumption ==
    /\ Agents \subseteq {"claude", "codex", "opencode", "pi"}
    /\ {MaxMessages, MaxPieces, MaxAsks} \subseteq Nat

VARIABLES
    agent,      \* whose session it is
    active,     \* activeTurnId: the turn it was set for, None when null
    text,       \* streamingAssistantText; claude: the buffer of the text block
    thinking,   \* the same for reasoning
    roles,      \* opencode: the messages known to be the assistant's
    pending,    \* pendingPermissions
    answer,     \* per turn: finalText of its run()
    items,      \* the window's list
    turn,       \* external: the turn the agent works on, or did last
    step,       \* external: where it is in it
    messages,   \* external: the messages so far
    pieces,     \* how many pieces they were sent in
    waiting,    \* external: the permissions the agent waits for
    asked,      \* how many it has asked for
    aborting,   \* interrupt() awaits the agent's answer
    stopped     \* history: the turns that were interrupted

said == <<text, thinking, items, answer>>
vars == <<run, outcome, agent, active, roles, pending, turn, step, messages, pieces,
          waiting, asked, aborting, stopped, said>>

Numbers == 1 .. MaxMessages

Piece == Numbers \X (1 .. MaxPieces)

Item == [kind : {"user", "assistant", "reasoning", "tool", "card"}, text : Seq(Piece),
         of : Nat, status : {"none", "running", "completed", "failed"},
         turn : Turns \cup {None}]

Message == [turn : Turns, thought : 0 .. MaxPieces, sent : 0 .. MaxPieces,
            ended : BOOLEAN, tool : BOOLEAN]

TypeOK ==
    /\ RunnerTypeOK
    /\ agent \in Agents
    /\ active \in Turns \cup {None}
    /\ text \in Seq(Piece) /\ thinking \in Seq(Piece)
    /\ roles \subseteq Numbers
    /\ pending \subseteq 1 .. MaxAsks
    /\ answer \in [Turns -> Seq(Piece)]
    /\ items \in Seq(Item)
    /\ turn \in Turns \cup {None}
    /\ step \in {"idle", "begun", "open", "thinking", "thought", "text", "whole", "tool"}
    /\ messages \in Seq(Message) /\ Len(messages) <= MaxMessages
    /\ pieces \in 0 .. MaxPieces
    /\ waiting \subseteq 1 .. MaxAsks
    /\ asked \in 0 .. MaxAsks
    /\ aborting \in BOOLEAN
    /\ stopped \subseteq Turns

Init ==
    /\ RunnerInit
    /\ agent \in Agents
    /\ active = None /\ text = <<>> /\ thinking = <<>>
    /\ roles = {} /\ pending = {}
    /\ answer = [t \in Turns |-> <<>>]
    /\ items = <<>>
    /\ turn = None /\ step = "idle" /\ messages = <<>> /\ pieces = 0
    /\ waiting = {} /\ asked = 0
    /\ aborting = FALSE
    /\ stopped = {}

-----------------------------------------------------------------------------
(* From an event to the list                                               *)

NewItem(kind, of, content, status) ==
    [kind |-> kind, text |-> content, of |-> of, status |-> status, turn |-> active]

Assistant(content) == NewItem("assistant", 0, content, "none")
Reasoning(content) == NewItem("reasoning", 0, content, "none")
ToolCall(m, status) == NewItem("tool", m, <<>>, status)

\* appendTimelineItem: a text replaces the last item if that is of its kind and
\* turn, a tool call replaces itself.
AppendItem(list, item) ==
    LET calls == {i \in DOMAIN list : list[i].kind = "tool" /\ list[i].of = item.of}
        grows == /\ list # <<>>
                 /\ Last(list).kind = item.kind /\ Last(list).turn = item.turn
    IN  IF item.kind \in {"assistant", "reasoning"} /\ grows
        THEN [list EXCEPT ![Len(list)] = item]
        ELSE IF item.kind = "tool" /\ calls # {}
        THEN [list EXCEPT ![CHOOSE i \in calls : TRUE] = item]
        ELSE Append(list, item)

Texts(new) == {k \in DOMAIN new : new[k].kind = "assistant"}

\* emitTimeline: the window's list, and finalText until the run is settled.
Emit(new) ==
    /\ items' = FoldLeft(AppendItem, items, new)
    /\ answer' = IF Texts(new) # {} /\ run.phase # "idle" /\ run.buffer = <<>>
                 THEN [answer EXCEPT ![run.turn] = new[Max(Texts(new))].text]
                 ELSE answer

Terminal(type) == Observe([type |-> type, turn |-> turn])

-----------------------------------------------------------------------------
(* A turn begins                                                           *)

\* handleUserMessage, then startTurn: claude and opencode activate the turn
\* before the agent hears of it.
StartTurn(t) ==
    /\ step = "idle" /\ ~aborting
    /\ StartRun(t)
    /\ active' = IF agent \in {"claude", "opencode"} THEN t ELSE active
    /\ text' = IF agent = "opencode" THEN <<>> ELSE text
    /\ thinking' = IF agent = "opencode" THEN <<>> ELSE thinking
    /\ items' = Append(items, [NewItem("user", t, <<>>, "none") EXCEPT !.turn = None])
    /\ turn' = t /\ step' = "begun"
    /\ UNCHANGED <<agent, roles, pending, answer, messages, pieces, waiting, asked, aborting,
                   stopped>>

\* The agent takes the prompt.  Codex announces the turn; pi acknowledges it.
AgentBegins ==
    /\ step = "begun"
    /\ step' = "open"
    /\ active' = IF agent = "codex" THEN turn ELSE active
    /\ UNCHANGED <<run, outcome, agent, roles, pending, turn, messages, pieces, waiting,
                   asked, aborting, stopped, said>>

\* startTurn goes on when codex has answered and pi has acknowledged, which may
\* be after the agent's first words: they are dropped from what accumulates.
StartReturns ==
    /\ agent = "pi" => step # "begun"
    /\ StartTurnReturns
    /\ active' = CASE agent = "pi" -> turn
                   [] agent = "codex" /\ active = None -> turn
                   [] OTHER -> active
    /\ text' = IF agent \in {"codex", "pi"} THEN <<>> ELSE text
    /\ thinking' = IF agent = "pi" THEN <<>> ELSE thinking
    /\ UNCHANGED <<agent, roles, pending, turn, step, messages, pieces, waiting, asked,
                   aborting, stopped, items, answer>>

-----------------------------------------------------------------------------
(* The agent speaks                                                        *)

Streamed == UNCHANGED <<run, outcome, agent, active, roles, pending, turn, waiting,
                        asked, aborting, stopped>>

Current == Len(messages)

Blank == [turn |-> turn, thought |-> 0, sent |-> 0, ended |-> FALSE, tool |-> FALSE]

\* One more piece of a reasoning or a text, of a new message if none is open.
Grow(field) ==
    /\ pieces < MaxPieces
    /\ pieces' = pieces + 1
    /\ IF step = "open"
       THEN /\ Current < MaxMessages
            /\ messages' = Append(messages, [Blank EXCEPT ![field] = 1])
       ELSE messages' = [messages EXCEPT ![Current][field] = @ + 1]

Pieces(m, n) == [k \in 1 .. n |-> <<m, k>>]

WholeText(m) == Pieces(m, messages[m].sent)
WholeThinking(m) == Pieces(m, messages[m].thought)

\* What a delta adds up to: claude begins a buffer with every block.
Accumulated(old, m, k) ==
    IF agent = "claude" /\ k = 1 THEN <<<<m, k>>>> ELSE Append(old, <<m, k>>)

\* What is shown of a reasoning: codex's last delta alone.
ThoughtShown(now, delta) == IF agent = "codex" THEN delta ELSE now

\* opencode drops what is not known to be the assistant's.
Heard(m) == agent = "opencode" => m \in roles

\* A delta of the reasoning.
ReasoningDelta ==
    /\ step \in {"open", "thinking"}
    /\ Grow("thought")
    /\ step' = "thinking"
    /\ LET m == Len(messages')
           k == messages'[m].thought
           now == Accumulated(thinking, m, k)
       IN  IF Heard(m)
           THEN /\ thinking' = IF agent = "codex" THEN thinking ELSE now
                /\ Emit(<<Reasoning(ThoughtShown(now, <<<<m, k>>>>))>>)
           ELSE UNCHANGED <<thinking, items, answer>>
    /\ UNCHANGED text /\ Streamed

\* opencode: message.part.updated with the whole reasoning.
ReasoningEnds ==
    /\ agent = "opencode" /\ step = "thinking" /\ Heard(Current)
    /\ step' = "thought"
    /\ IF thinking # WholeThinking(Current)
       THEN thinking' = WholeThinking(Current) /\ Emit(<<Reasoning(thinking')>>)
       ELSE UNCHANGED <<thinking, items, answer>>
    /\ UNCHANGED <<text, messages, pieces>> /\ Streamed

\* A delta of the text.
TextDelta ==
    /\ step \in {"open", "thinking", "thought", "text"}
    /\ agent = "opencode" => step # "thinking"
    /\ Grow("sent")
    /\ step' = "text"
    /\ LET m == Len(messages')
           k == messages'[m].sent
       IN  IF Heard(m)
           THEN text' = Accumulated(text, m, k) /\ Emit(<<Assistant(text')>>)
           ELSE UNCHANGED <<text, items, answer>>
    /\ UNCHANGED thinking /\ Streamed

\* opencode: message.updated says whose message it is.
MessageUpdated ==
    /\ agent = "opencode" /\ step \in {"thinking", "text"} /\ Current \notin roles
    /\ roles' = roles \cup {Current}
    /\ UNCHANGED <<run, outcome, agent, active, pending, turn, step, messages, pieces,
                   waiting, asked, aborting, stopped, said>>

Ended == [messages EXCEPT ![Current].ended = TRUE]

\* Variant: codex takes a text that was streamed for shown.
RepeatsLoosely == agent = "codex" /\ text # <<>>

\* codex: the text was streamed already.
Repeats == agent = "codex" /\ text = WholeText(Current)

\* pi sends the reasoning again.
Rethought == agent = "pi" /\ messages[Current].thought > 0

\* The message is sent whole: message_end of pi, item/completed of codex, claude's
\* assistant message, message.part.updated of opencode.
MessageEnds ==
    /\ step = "text" /\ Heard(Current)
    /\ step' = "whole"
    /\ messages' = Ended
    /\ text' = IF agent = "claude" THEN text ELSE WholeText(Current)
    /\ thinking' = IF Rethought THEN WholeThinking(Current) ELSE thinking
    /\ IF Repeats
       THEN UNCHANGED <<items, answer>>
       ELSE Emit((IF Rethought THEN <<Reasoning(thinking')>> ELSE <<>>)
                 \o <<Assistant(WholeText(Current))>>)
    /\ UNCHANGED pieces /\ Streamed

\* A tool call begins; claude's may begin before the message is sent whole.
ToolStarts ==
    /\ step = "whole" \/ (agent = "claude" /\ step = "text")
    /\ step' = "tool"
    /\ messages' = [messages EXCEPT ![Current].tool = TRUE]
    /\ Emit(<<ToolCall(Current, "running")>>)
    /\ UNCHANGED <<text, thinking, pieces>> /\ Streamed

\* Variant: the agent's own word for a failure is handed on.
ToolStatusesUntranslated ==
    IF agent = "claude" THEN {"completed"} ELSE {"completed", "error"}

\* How a tool call ends; claude does not say.
ToolStatuses == IF agent = "claude" THEN {"completed"} ELSE {"completed", "failed"}

\* A tool call ends; with claude's, the rest of the message.
ToolEnds ==
    /\ step = "tool" /\ waiting = {}
    /\ step' = "open"
    /\ messages' = Ended
    /\ \E status \in ToolStatuses :
          Emit((IF messages[Current].ended THEN <<>> ELSE <<Assistant(WholeText(Current))>>)
               \o <<ToolCall(Current, status)>>)
    /\ UNCHANGED <<text, thinking, pieces>> /\ Streamed

-----------------------------------------------------------------------------
(* The turn ends, or is interrupted                                        *)

\* The agent is done, well or not (the turn modules tell these apart); what it says
\* of a turn that is not active is ignored.
TurnEnds ==
    /\ step \in {"open", "whole"} /\ turn \notin stopped
    /\ step' = "idle"
    /\ active' = None
    /\ IF active # None THEN Terminal("turn_completed") ELSE UNCHANGED <<run, outcome>>
    /\ UNCHANGED <<agent, roles, pending, turn, messages, pieces, waiting, asked, aborting,
                   stopped, said>>

\* What the agent says after this, until it stops, belongs to no turn.
Interrupt ==
    /\ step # "idle" /\ active = turn
    /\ active' = None
    /\ aborting' = TRUE
    /\ stopped' = stopped \cup {turn}
    /\ UNCHANGED <<run, outcome, agent, roles, pending, turn, step, messages, pieces,
                   waiting, asked, said>>

InterruptReturns ==
    /\ aborting
    /\ aborting' = FALSE
    /\ Terminal("turn_canceled")
    /\ UNCHANGED <<agent, active, roles, pending, turn, step, messages, pieces, waiting,
                   asked, stopped, said>>

\* claude's requests are aborted, and their cards stay; the others stay asked.
Kept == IF agent = "claude" THEN pending \ waiting ELSE pending

\* The agent stops.
AgentAborted ==
    /\ turn \in stopped /\ step # "idle"
    /\ run.phase # "starting"
    /\ step' = "idle"
    /\ waiting' = {}
    /\ pending' = Kept
    /\ active' = None
    /\ IF active # None THEN Terminal("turn_canceled") ELSE UNCHANGED <<run, outcome>>
    /\ UNCHANGED <<agent, roles, turn, messages, pieces, asked, aborting, stopped, said>>

-----------------------------------------------------------------------------
(* Permissions                                                             *)

Remember(n) == pending' = pending \cup {n}

\* A request answered or unknown is not answered again.
Forget(n) == n \in pending /\ pending' = pending \ {n}

\* The agent asks for a tool call; its request is remembered and put on the list.
PermissionAsked ==
    /\ step = "tool" /\ waiting = {} /\ asked < MaxAsks
    /\ asked' = asked + 1
    /\ waiting' = waiting \cup {asked'}
    /\ Remember(asked')
    /\ items' = Append(items, NewItem("card", asked', <<>>, "none"))
    /\ UNCHANGED <<run, outcome, agent, active, text, thinking, roles, answer, turn, step,
                   messages, pieces, aborting, stopped>>

Cards(n) == {i \in DOMAIN items : items[i].kind = "card" /\ items[i].of = n}

\* The list without the items at the places in gone, the others in their order.
Without(list, gone) ==
    [k \in 1 .. (Len(list) - Cardinality(gone)) |->
        list[CHOOSE i \in DOMAIN list \ gone : i - Cardinality({g \in gone : g < i}) = k]]

\* Variant: the cards of all requests are removed.
RespondToPermissionAll(n) ==
    /\ Cards(n) # {}
    /\ Forget(n)
    /\ waiting' = waiting \ {n}
    /\ items' = Without(items, {i \in DOMAIN items : items[i].kind = "card"})
    /\ UNCHANGED <<run, outcome, agent, active, text, thinking, roles, answer, turn, step,
                   messages, pieces, asked, aborting, stopped>>

\* The user answers: the request is forgotten, the answer given, which opencode's
\* server is taken to receive, and the card removed.
RespondToPermission(n) ==
    /\ Cards(n) # {}
    /\ Forget(n)
    /\ waiting' = waiting \ {n}
    /\ items' = Without(items, Cards(n))
    /\ UNCHANGED <<run, outcome, agent, active, text, thinking, roles, answer, turn, step,
                   messages, pieces, asked, aborting, stopped>>

-----------------------------------------------------------------------------
Speaks ==
    \/ ReasoningDelta \/ ReasoningEnds \/ TextDelta \/ MessageUpdated \/ MessageEnds
    \/ ToolStarts \/ ToolEnds

Next ==
    \/ \E t \in Turns : StartTurn(t)
    \/ AgentBegins \/ StartReturns
    \/ Speaks
    \/ TurnEnds \/ Interrupt \/ InterruptReturns \/ AgentAborted
    \/ PermissionAsked
    \/ \E n \in pending : RespondToPermission(n)

Spec == Init /\ [][Next]_vars

-----------------------------------------------------------------------------
(* Properties                                                              *)

Completed(t) == outcome[t] # None /\ outcome[t].type = "turn_completed" /\ t \notin stopped

Of(t) == {m \in DOMAIN messages : messages[m].turn = t}

Shown(kind, content) ==
    \E i \in DOMAIN items : items[i].kind = kind /\ items[i].text = content

\* A turn that completed is on the screen as the agent said it, however its words
\* raced the answer to the prompt and whatever was interrupted before: every
\* message whole, with its reasoning, every tool call once and ended, and run()
\* returns the last message.  Nothing else is left of the text that was
\* streamed.  (Not so: codex's reasoning, of which the last delta stays, and
\* pi's text, of which what was accumulated stays beside the message.)
TurnShown ==
    \A t \in Turns : Completed(t) =>
        /\ \A m \in Of(t) :
              /\ Shown("assistant", WholeText(m))
              /\ messages[m].thought > 0 /\ agent # "codex" =>
                    Shown("reasoning", WholeThinking(m))
              /\ messages[m].tool =>
                    \E i \in DOMAIN items :
                       /\ items[i].status \in {"completed", "failed"}
                       /\ \A j \in DOMAIN items :
                             items[j].kind = "tool" /\ items[j].of = m <=> j = i
        /\ answer[t] = IF Of(t) = {} THEN <<>>
                       ELSE WholeText(CHOOSE m \in Of(t) : \A l \in Of(t) : l <= m)
        /\ agent # "pi" =>
              \A i \in DOMAIN items :
                 items[i].kind = "assistant" /\ items[i].turn = t =>
                    \E m \in Of(t) : items[i].text = WholeText(m)

\* A permission the agent waits for can be answered: the session still has it,
\* and it has one card on the screen.
Answerable ==
    \A n \in waiting : n \in pending /\ Cardinality(Cards(n)) = 1

=============================================================================
