------------------------------ MODULE MCReaders ------------------------------
\* The readers of text that others write, one of them in each behaviour: the
\* relay of a pane's output, the detectors on a captured screen, and the history
\* reader on a conversation file.
EXTENDS OscRelay, History, Detectors

VARIABLE reader

-----------------------------------------------------------------------------
(* Screens *)

Rule == {"rule"}
Text == {"text"}
Prompt == {"prompt", "sign", "text"}
Box == <<Rule, {"prompt", "prompt alone", "sign"}, Rule, Text>>
Question == {"do you want to", "do you want to proceed?"}

\* A command permission, and what of it stays above when it has been answered.
Permission == <<{"bash("}, Question, {"prompt", "sign", "yes", "1. yes"}, {"2. no"}>>
Answered == <<{"bash("}, Question, {"prompt", "sign", "yes", "1. yes"}>>

Form(tool, title, lines, frame) ==
    [tool |-> tool, title |-> title, lines |-> lines, frame |-> frame,
     stays |-> <<>>]

PiForms == {
    Form("pi", "none", <<{"pi working"}, Rule, Text, Text>>, "working"),
    Form("pi", "none", <<{}, Rule, Text, Rule, Text, Text>>, "idle")}

CodexForms == {
    Form("codex", "action required", <<{"codex prompt"}>>, "blocked"),
    Form("codex", "spinner", <<{"codex prompt"}>>, "working"),
    Form("codex", "none", <<{"codex working"}, {}, {"codex prompt"}, Text>>, "working"),
    Form("codex", "text", <<Text, {"interrupted"}, {"codex prompt"}, {}>>, "visible_idle"),
    Form("codex", "none", <<Text, {"codex prompt"}, Text>>, "idle"),
    [Form("codex", "text", <<{"codex prompt"}, {"allow command?"},
                             {"press enter to confirm or esc to cancel"}>>, "blocked")
        EXCEPT !.stays = <<{"codex prompt"}, {"allow command?"}>>],
    Form("codex", "none", <<{"codex prompt"}, {"do you want to"}, {"yes"}>>, "blocked"),
    Form("codex", "text", <<{"codex prompt"}, {"enter to submit answer"}>>, "blocked"),
    Form("codex", "text", <<{"> you are in"}, {"do you trust"}>>, "blocked"),
    Form("codex", "text", <<{"update available!", "update now"}, {"skip until next version"},
                            {"press enter to continue"}>>, "blocked"),
    Form("codex", "text", <<{"codex prompt"}, {"to scroll", "pgup/pgdn to", "home/end to jump"},
                            {"q to quit", "to edit prev"}>>, "skip")}

ClaudeForms == {
    Form("claude", "half circle", <<Text>>, "working"),
    Form("claude", "none", <<{"turn"}>> \o Box, "working"),
    Form("claude", "star", <<{"background agents"}, {}>> \o Box, "working"),
    Form("claude", "none", <<{"/btw"}, Text, {"esc to close"}>>, "working"),
    Form("claude", "none", <<{"status"}, {"indented"}, {"indented", "counted"}>> \o Box, "working"),
    Form("claude", "star", Box, "visible_idle"),
    Form("claude", "none", <<Rule, Prompt, Rule>>, "visible_idle"),
    [Form("claude", "star", <<Rule>> \o Permission \o <<{"esc to cancel"}>>, "blocked")
        EXCEPT !.stays = Answered],
    [Form("claude", "none", Permission, "blocked") EXCEPT !.stays = Answered],
    Form("claude", "none", <<Rule, {"waiting for permission"}>>, "blocked"),
    Form("claude", "none", <<Rule, Text, {"enter to confirm"}, {"esc to cancel"}>>, "blocked"),
    Form("claude", "star", <<Rule, {"prompt", "sign"}, Rule,
                             {"enter to select", "updown to navigate", "esc to cancel"}>>, "blocked"),
    Form("claude", "star", <<Rule, {"run a dynamic workflow?"}, Prompt, Rule, Text,
                             {"esc to cancel"}>>, "blocked"),
    Form("claude", "none", <<{"mcp server", "requests your input"}, {"prompt", "sign", "accept or decline"},
                             {"esc to cancel"}>>, "blocked"),
    Form("claude", "star", <<Text, {"showing detailed transcript"}, {"ctrl+o"}>>, "skip"),
    Form("claude", "star", <<Rule, {"select model"}, {"enter to set as default"}, {"esc to cancel"}>>, "skip")}

\* Questions quoted in an answer, and text that looks like a live line but for
\* its place: a footer further up, an indented status.
MCTalk == [
    pi |-> {Text, {}, {"pi working quoted"}},
    codex |-> {Text, {}, {"codex working"}, {"would you like to"}, {"yes"}},
    claude |-> {Text, {"would you like to", "sign"},
                {"indented", "counted"}}]

MCForms == PiForms \cup CodexForms \cup ClaudeForms

-----------------------------------------------------------------------------
(* Conversations *)

MCTexts == {"", "blank", "s1", "s2", "dir", "other", "name", "hello", "hi", "task", "context", "output"}

Blank == [type |-> "", id |-> "", cwd |-> "", name |-> "", role |-> "", aside |-> FALSE, text |-> ""]
Broken == {[Blank EXCEPT !.type = "cut"], [Blank EXCEPT !.type = "unreadable"]}
Line(type, role, text) == [Blank EXCEPT !.type = type, !.role = role, !.text = text]
Opens(type, id) == [Blank EXCEPT !.type = type, !.id = id, !.cwd = "dir"]

MCLines == [
    pi |-> Broken \cup {
        Opens("session", "s1"), Opens("session", "s2"),
        [Blank EXCEPT !.type = "session_info", !.name = "name"],
        [Blank EXCEPT !.type = "session_info"],
        Line("message", "user", "hello"), Line("message", "user", ""),
        Line("message", "assistant", "hi"), Line("message", "tool", "output")},
    codex |-> Broken \cup {
        Opens("session_meta", "s1"), Opens("session_meta", "s2"),
        Opens("session_meta", ""),
        Line("event_msg", "user", "hello"), Line("event_msg", "assistant", "hi"),
        Line("response_item", "user", "context"), Line("response_item", "assistant", "hi"),
        Line("response_item", "user", "hello")},
    claude |-> Broken \cup {
        [Line("user", "user", "hello") EXCEPT !.id = "s1", !.cwd = "dir"],
        [Line("user", "user", "task") EXCEPT !.id = "s2", !.aside = TRUE],
        [Line("user", "user", "blank") EXCEPT !.cwd = "other"],
        [Line("assistant", "assistant", "hi") EXCEPT !.id = "s1"],
        [Blank EXCEPT !.type = "summary"]}]

MCIndex == <<[id |-> "s1", name |-> "first"], [id |-> "s1", name |-> "last"],
             [id |-> "s1", name |-> ""]>>

-----------------------------------------------------------------------------

\* The reader that works, while the others stay as they begin.
SomeForm == CHOOSE f \in PiForms : TRUE

MCInit ==
    /\ reader \in {"relay", "screen", "history"}
    /\ Init /\ ScreenInit /\ HistoryInit
    /\ reader # "screen" => form = SomeForm
    /\ reader # "history" => agent = "pi"

InRelay(A) == reader = "relay" /\ A /\ UNCHANGED <<reader, screenVars, historyVars>>
InScreen(A) == reader = "screen" /\ A /\ UNCHANGED <<reader, vars, historyVars>>
InHistory(A) == reader = "history" /\ A /\ UNCHANGED <<reader, vars, screenVars>>

MCNext ==
    \/ InRelay(Read) \/ InRelay(\E byte \in Bytes : Push(byte)) \/ InRelay(Withdraw)
    \/ InScreen(Prints) \/ InScreen(Redraws)
    \/ InHistory(Writes) \/ InHistory(Completes)
    \/ InHistory(ReadLine) \/ InHistory(EndsFile)

MCSpec == MCInit /\ [][MCNext]_<<vars, reader, screenVars, historyVars>>
=============================================================================
