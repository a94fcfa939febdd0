------------------------------- MODULE History -------------------------------
(***************************************************************************)
(* The history reader (daemon/src/bin/history/records.rs, preview.rs): one *)
(* pass over the JSON lines of a conversation, which its agent may still   *)
(* be writing, that keeps what the list and the preview show.              *)
(*                                                                         *)
(* A line is [type, id, cwd, name, role, aside, text], "" for a field it   *)
(* lacks; a text "blank" holds white space only. Lines of type "cut" are   *)
(* no JSON, and those of type "unreadable" no UTF-8.                       *)
(***************************************************************************)
EXTENDS Naturals, Sequences, FiniteSets, SequencesExt

CONSTANTS
    Agents,          \* a subset of {"pi", "codex", "claude"}
    Texts,           \* what a field of a line can hold
    Lines,           \* Lines[agent]: lines of its conversations
    Index,           \* the lines [id, name] of Codex' session index
    PreviewLimit,    \* messages of a preview
    MaxLines,        \* bound of the lines of a file
    None

Records == [type : STRING, role : STRING, aside : BOOLEAN,
            id : Texts, cwd : Texts, name : Texts, text : Texts]

\* What Claude writes as the user is of type "user", and nothing else is.
ASSUME HistoryAssumption ==
    /\ "" \in Texts
    /\ Agents \subseteq {"pi", "codex", "claude"}
    /\ \A a \in Agents : Lines[a] \subseteq Records
    /\ "claude" \in Agents =>
          \A line \in Lines["claude"] : ~line.aside => (line.type = "user" <=> line.role = "user")
    /\ PreviewLimit \in Nat

VARIABLES
    agent, file,     \* the conversation
    seen,            \* the lines read, as they were then
    closed,          \* the reader has stopped
    meta,            \* PiMetadata, CodexMetadata; spare: the response prompt
    events, messages \* Codex' events, and all other messages

historyVars == <<agent, file, seen, closed, meta, events, messages>>

HistoryInit ==
    /\ agent \in Agents /\ file = <<>>
    /\ seen = <<>> /\ closed = FALSE
    /\ meta = [id |-> "", cwd |-> "", name |-> "", prompt |-> "", spare |-> ""]
    /\ events = <<>> /\ messages = <<>>

\* The first of two that is not empty.
Or(text, other) == IF text # "" THEN text ELSE other

\* apply_pi_value: the last session line, the last name, the first prompt.
ApplyPi(m, line) ==
    CASE line.type = "session"      -> [m EXCEPT !.id = line.id, !.cwd = line.cwd]
      [] line.type = "session_info" -> [m EXCEPT !.name = Or(line.name, @)]
      [] line.type = "message" /\ line.role = "user" -> [m EXCEPT !.prompt = Or(@, line.text)]
      [] OTHER -> m

\* apply_codex_value
ApplyCodex(m, line) ==
    CASE line.type = "session_meta" -> [m EXCEPT !.id = line.id, !.cwd = line.cwd]
      [] line.type = "event_msg" /\ line.role = "user" -> [m EXCEPT !.prompt = Or(@, line.text)]
      [] line.type = "response_item" /\ line.role = "user" -> [m EXCEPT !.spare = Or(@, line.text)]
      [] OTHER -> m

\* Mutant: the prompts of subagents count.
ApplyClaudeAside(m, line) ==
    [m EXCEPT !.id = Or(@, line.id), !.cwd = Or(@, line.cwd),
              !.prompt = IF line.type = "user" THEN Or(@, line.text) ELSE @]

\* parse_claude_record: the first of each.
ApplyClaude(m, line) ==
    [m EXCEPT !.id = Or(@, line.id), !.cwd = Or(@, line.cwd),
              !.prompt = IF line.type = "user" /\ ~line.aside THEN Or(@, line.text) ELSE @]

Apply(m, line) ==
    CASE agent = "pi"     -> ApplyPi(m, line)
      [] agent = "codex"  -> ApplyCodex(m, line)
      [] agent = "claude" -> ApplyClaude(m, line)

Parsed(line) == line.type # "cut"

\* message_pair: who speaks, and what.
IsMessage(line) == Parsed(line) /\ line.role \in {"user", "assistant"} /\ line.text # ""

IsEvent(line) == agent = "codex" /\ line.type = "event_msg" /\ IsMessage(line)

IsResponse(line) == line.type = "response_item" /\ IsMessage(line)
IsPiMessage(line) == line.type = "message" /\ IsMessage(line)
IsClaudeMessage(line) == ~line.aside /\ IsMessage(line)

IsOther(line) ==
    \/ agent = "pi" /\ IsPiMessage(line)
    \/ agent = "codex" /\ IsResponse(line)
    \/ agent = "claude" /\ IsClaudeMessage(line)

Pair(line) == <<line.role, line.text>>

\* The agent appends a line, and completes one that was cut.
Writes ==
    /\ Len(file) < MaxLines
    /\ \E line \in Lines[agent] : file' = Append(file, line)
    /\ UNCHANGED <<agent, seen, closed, meta, events, messages>>

Completes ==
    /\ file # <<>> /\ ~Parsed(Last(file))
    /\ \E line \in Lines[agent] : Parsed(line) /\ file' = Append(Front(file), line)
    /\ UNCHANGED <<agent, seen, closed, meta, events, messages>>

\* A line that cannot be parsed is skipped; one that cannot be read is the last.
ReadLine ==
    /\ ~closed /\ Len(seen) < Len(file)
    /\ LET line == file[Len(seen) + 1]
       IN IF line.type = "unreadable"
          THEN closed' = TRUE /\ UNCHANGED <<seen, meta, events, messages>>
          ELSE /\ seen' = Append(seen, line)
               /\ meta' = IF Parsed(line) THEN Apply(meta, line) ELSE meta
               /\ events' = IF IsEvent(line) THEN Append(events, Pair(line)) ELSE events
               /\ messages' = IF IsOther(line) THEN Append(messages, Pair(line)) ELSE messages
               /\ UNCHANGED closed
    /\ UNCHANGED <<agent, file>>

EndsFile ==
    /\ ~closed /\ Len(seen) = Len(file)
    /\ closed' = TRUE
    /\ UNCHANGED <<agent, file, seen, meta, events, messages>>

HistoryNext == Writes \/ Completes \/ ReadLine \/ EndsFile

HistorySpec == HistoryInit /\ [][HistoryNext]_historyVars

\* fallback_title
FallbackTitle(prompt) ==
    IF prompt \in {"", "blank"} THEN "(untitled conversation)" ELSE prompt

\* codex_session_names: the last name that the index gives.
Named == {i \in DOMAIN Index : agent = "codex" /\ Index[i].id = meta.id /\ Index[i].name # ""}

\* Mutant: of Codex' prompts the one among the responses comes first.
TitleByResponse ==
    IF Named # {} THEN Index[Max(Named)].name
    ELSE Or(meta.name, FallbackTitle(Or(meta.spare, meta.prompt)))

Title ==
    IF Named # {} THEN Index[Max(Named)].name
    ELSE Or(meta.name, FallbackTitle(Or(meta.prompt, meta.spare)))

\* The record listed, if the conversation can be resumed.
Record ==
    IF meta.id = "" \/ meta.cwd = "" THEN None
    ELSE [id |-> meta.id, cwd |-> meta.cwd, title |-> Title]

\* codex_preview: events, if there are any.
Conversation == IF events # <<>> THEN events ELSE messages

\* preview_record: the last messages.
Preview ==
    LET first == IF Len(Conversation) > PreviewLimit THEN Len(Conversation) - PreviewLimit + 1 ELSE 1
    IN SubSeq(Conversation, first, Len(Conversation))

-----------------------------------------------------------------------------
(* Properties *)

Found(lines) == {i \in DOMAIN seen : seen[i] \in lines}
FirstOf(lines, field) == IF Found(lines) = {} THEN "" ELSE seen[Min(Found(lines))][field]
LastOf(lines, field) == IF Found(lines) = {} THEN "" ELSE seen[Max(Found(lines))][field]

Readable == {line \in Lines[agent] : Parsed(line)}
WithId == {line \in Readable : line.id # ""}
WithDirectory == {line \in Readable : line.cwd # ""}
Headings ==
    {line \in Readable : line.type = IF agent = "pi" THEN "session" ELSE "session_meta"}
Namings == {line \in Readable : agent = "pi" /\ line.type = "session_info" /\ line.name # ""}
Prompts ==
    {line \in Readable :
        /\ line.text # ""
        /\ \/ agent = "pi" /\ line.type = "message" /\ line.role = "user"
           \/ agent = "codex" /\ line.type = "event_msg" /\ line.role = "user"
           \/ agent = "claude" /\ line.type = "user" /\ ~line.aside}
Responses ==
    {line \in Readable : agent = "codex" /\ line.type = "response_item"
                         /\ line.role = "user" /\ line.text # ""}

Said ==
    [id     |-> IF agent = "claude" THEN FirstOf(WithId, "id") ELSE LastOf(Headings, "id"),
     cwd    |-> IF agent = "claude" THEN FirstOf(WithDirectory, "cwd") ELSE LastOf(Headings, "cwd"),
     name   |-> LastOf(Namings, "name"),
     prompt |-> FirstOf(Prompts, "text"),
     spare  |-> FirstOf(Responses, "text")]

\* One pass, whatever the agent writes meanwhile and wherever a line was cut off,
\* finds the identity, the name and the first prompts of the user that the lines
\* read give (apply_pi_value, apply_codex_value, parse_claude_record).
HistoryExact == meta = Said

\* The list and the preview, which read a conversation by rules of their own, agree.
\* A conversation listed by its prompt is listed by the first message of the user
\* that there is to show, and by "(untitled conversation)" if there is none; and the
\* preview shows all of it, or as much of its ending as the limit allows. Not so
\* Codex' events without a message of the user: its responses then give the title,
\* and are not shown.
ListedAsShown ==
    LET users == {i \in DOMAIN Conversation : Conversation[i][1] = "user"}
        hidden == Len(Conversation) - Len(Preview)
    IN /\ Record # None /\ Named = {} /\ meta.name = "" =>
             /\ users # {} => Record.title = FallbackTitle(Conversation[Min(users)][2])
             /\ users = {} /\ events = <<>> => Record.title = FallbackTitle("")
       /\ Len(Preview) <= PreviewLimit
       /\ hidden > 0 => Len(Preview) = PreviewLimit
       /\ \A i \in DOMAIN Preview : Preview[i] = Conversation[hidden + i]
=============================================================================
