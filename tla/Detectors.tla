------------------------------ MODULE Detectors ------------------------------
(***************************************************************************)
(* How a captured screen is read (daemon/src/model/screen_detection.rs,    *)
(* screen_detection_tools.rs): the rules of each tool in their order, on a *)
(* screen that shows a live form below what earlier forms left behind.     *)
(*                                                                         *)
(* A line is the set of the phrases and marks that it contains, in lower   *)
(* case; the empty set is a blank line. A mark stands for the test of a    *)
(* whole line: "prompt" and "codex prompt" for a line that starts with the *)
(* tool's prompt sign, "rule" for is_horizontal_rule, "turn" for           *)
(* claude_active_turn_line, "status" and "counted" for the head and the    *)
(* end of an MCP task status. "sign" is Claude's prompt sign, anywhere.    *)
(***************************************************************************)
EXTENDS Naturals, Sequences, FiniteSets, FiniteSetsExt

CONSTANTS
    Forms,           \* live forms: [tool, title, lines, frame, stays]
    Talk,            \* Talk[tool]: lines of a conversation
    Height           \* lines of the screen above the live form

\* title: "none", "text", "action required", "spinner", "half circle" or "star".
\* frame: what the form is to be detected as. stays: the lines that remain when
\* it is gone.

VARIABLES form, above
screenVars == <<form, above>>

-----------------------------------------------------------------------------
(* Reading lines *)

Says(text, phrase) == \E i \in DOMAIN text : phrase \in text[i]
SaysAny(text, phrases) == \E phrase \in phrases : Says(text, phrase)
SaysAll(text, phrases) == \A phrase \in phrases : Says(text, phrase)

Written(text) == {i \in DOMAIN text : text[i] # {}}

\* bottom_non_empty_lines, top_non_empty_lines
Bottom(text, n) ==
    LET last == {i \in Written(text) : Cardinality({j \in Written(text) : j >= i}) <= n}
    IN IF last = {} THEN <<>> ELSE SubSeq(text, Min(last), Len(text))
Top(text, n) ==
    LET first == {i \in Written(text) : Cardinality({j \in Written(text) : j <= i}) <= n}
    IN IF first = {} THEN <<>> ELSE SubSeq(text, 1, Max(first))

\* after_last_codex_prompt, after_last_horizontal_rule
AfterLast(text, mark) ==
    LET at == {i \in DOMAIN text : mark \in text[i]}
    IN IF at = {} THEN text ELSE SubSeq(text, Max(at) + 1, Len(text))

AfterLastPrompt(screen) == AfterLast(screen, "codex prompt")
AfterLastRule(screen) == AfterLast(screen, "rule")

\* prompt_box_top_border_index: the last rule but one.
BoxTop(text) ==
    {i \in DOMAIN text : "rule" \in text[i]
        /\ Cardinality({j \in i + 1..Len(text) : "rule" \in text[j]}) = 1}

PromptBoxBody(text) ==
    UNION {{text[j] : j \in {k \in top + 1..Len(text) :
                \A i \in top + 1..k : "rule" \notin text[i]}} : top \in BoxTop(text)}

\* last_non_empty_above_prompt_box
LastAbovePromptBox(text) ==
    {text[j] : j \in {k \in Written(text) : \E top \in BoxTop(text) :
        k < top /\ \A i \in k + 1..top - 1 : text[i] = {}}}

\* Rules are pairs of a condition and an outcome. The first whose condition holds
\* decides; the last one always does.
Deciding(rules) == Min({i \in DOMAIN rules : rules[i][1]})
Outcome(rules) == rules[Deciding(rules)][2]

\* weak_blocker
WeakBlocker(text) ==
    \/ SaysAny(text, {"[y/n]", "yes (y)"})
    \/ /\ SaysAny(text, {"do you want to", "would you like to"})
       /\ SaysAny(text, {"yes", "sign"})

-----------------------------------------------------------------------------
(* Pi and Codex *)

PiRules(screen) == <<
    <<Says(Bottom(screen, 6), "pi working"),                           "working">>,
    <<TRUE,                                                            "idle">> >>

CodexTranscriptIsOpen(text) ==
    SaysAll(text, {"to scroll", "pgup/pgdn to", "home/end to jump", "q to quit", "to edit prev"})

TrustQuestion == {"> you are in", "do you trust"}

CodexStartupBlocks(screen) ==
    \/ SaysAll(Top(screen, 20), TrustQuestion)
    \/ SaysAll(Bottom(screen, 20), {"update available!", "update now",
                                    "press enter to continue", "skip until next version"})

CodexLivePromptBlocks(text) ==
    \/ SaysAny(text, {"press enter to confirm or esc to cancel", "enter to submit answer",
                      "enter to submit all", "allow command?"})
    \/ WeakBlocker(text)

CodexLiveWorking(screen) ==
    LET bottom == Bottom(screen, 3)
    IN Says(bottom, "codex working") /\ ~Says(bottom, "interrupted")

CodexRules(title, screen) ==
    LET live == AfterLastPrompt(screen)
    IN <<
        <<title = "action required",                                   "blocked">>,
        <<title = "spinner",                                           "working">>,
        <<CodexTranscriptIsOpen(live),                                 "skip">>,
        <<CodexStartupBlocks(screen) \/ CodexLivePromptBlocks(live),   "blocked">>,
        <<WeakBlocker(screen),                                         "blocked">>,
        <<CodexLiveWorking(screen),                                    "working">>,
        <<title # "none",                                              "visible_idle">>,
        <<TRUE,                                                        "idle">> >>

-----------------------------------------------------------------------------
(* Claude *)

ClaudeTranscriptIsOpen(screen) ==
    LET bottom == Bottom(screen, 3)
    IN /\ Says(bottom, "showing detailed transcript")
       /\ SaysAny(bottom, {"ctrl+o", "ctrl+e", "scroll", "? for shortcuts"})

ClaudeNavigationBlocks(afterRule) ==
    /\ Says(afterRule, "esc to cancel")
    /\ \/ Says(afterRule, "enter to confirm")
       \/ /\ Says(afterRule, "enter to select")
          /\ SaysAny(afterRule, {"arrow keys to navigate", "arrows to navigate",
                                 "up/down to navigate", "updown to navigate"})

ClaudeMcpElicitationBlocks(screen) ==
    SaysAll(screen, {"mcp server", "requests your input", "esc to cancel", "accept or decline"})

ClaudeHighPriorityBlocker(screen, afterRule) ==
    \/ ClaudeNavigationBlocks(afterRule)
    \/ SaysAll(screen, {"run a dynamic workflow?", "esc to cancel"})
    \/ ClaudeMcpElicitationBlocks(screen)

ClaudeBtwIsOpen(bottom) == SaysAll(bottom, {"/btw", "esc to close"})

ClaudeBackgroundAgentsWorking(screen) ==
    \E line \in LastAbovePromptBox(screen) : "background agents" \in line

\* Mutant: the count alone makes a status.
McpTaskCountAt(lines, start) == "counted" \in lines[start]

\* claude_mcp_task_status_starts_at: a status at column zero, and up to three
\* indented lines that continue it.
McpTaskStatusAt(lines, start) ==
    /\ "status" \in lines[start]
    /\ \E end \in start..Len(lines) :
          /\ end <= start + 3 /\ "counted" \in lines[end]
          /\ \A i \in start + 1..end : "indented" \in lines[i]

ClaudeMcpTasksWorking(bottom, screen) ==
    /\ ~SaysAny(screen, {"do you want to proceed?", "esc to cancel", "waiting for permission",
                         "do you want to allow this connection?", "tab to amend",
                         "ctrl+e to explain"})
    /\ \E start \in DOMAIN bottom : McpTaskStatusAt(bottom, start)

ClaudeLiveWorking(screen) ==
    LET bottom == Bottom(screen, 12)
    IN \/ ClaudeBtwIsOpen(bottom)
       \/ Says(bottom, "turn")
       \/ ClaudeBackgroundAgentsWorking(screen)
       \/ ClaudeMcpTasksWorking(bottom, screen)

ClaudePromptIsIdle(screen) ==
    LET body == PromptBoxBody(screen)
    IN /\ \E line \in body : "prompt" \in line
       /\ \A line \in body : line \cap {"enter to select", "esc to cancel", "tab/arrow keys",
                                        "arrow keys to navigate", "up/down to navigate"} = {}

ClaudeModelPickerIsOpen(screen) ==
    /\ SaysAll(screen, {"select model", "enter to set as default", "esc to cancel"})
    /\ ~SaysAny(screen, {"do you want to proceed?", "enter to select"})

ClaudeCommandPermissionBlocks(screen) ==
    /\ Says(screen, "do you want to proceed?")
    /\ SaysAny(screen, {"bash command", "bash(", "contains expansion", "tab to amend",
                        "ctrl+e to explain"})
    /\ Says(screen, "yes")

ClaudeChoicePermissionBlocks(afterRule) ==
    /\ SaysAll(afterRule, {"do you want to proceed?", "esc to cancel"})
    /\ SaysAny(afterRule, {"1. yes", "2. yes", "2. no", "3. no"})

LegacyClaudeBlocker(screen) ==
    /\ ~Says(screen, "prompt alone")
    /\ \/ WeakBlocker(screen)
       \/ SaysAny(screen, {"waiting for permission", "do you want to allow this connection?",
                           "tab to amend", "ctrl+e to explain", "do you want to proceed?",
                           "review your answers", "skip interview and plan immediately"})

ClaudePermissionBlocks(screen, afterRule) ==
    \/ ClaudeCommandPermissionBlocks(screen)
    \/ ClaudeChoicePermissionBlocks(afterRule)
    \/ LegacyClaudeBlocker(screen)

ClaudeRules(title, screen) ==
    LET afterRule == AfterLastRule(screen)
    IN <<
        <<title \in {"spinner", "half circle"},                        "working">>,
        <<ClaudeTranscriptIsOpen(screen),                              "skip">>,
        <<ClaudeHighPriorityBlocker(screen, afterRule),                "blocked">>,
        <<ClaudeLiveWorking(screen),                                   "working">>,
        <<ClaudePromptIsIdle(screen),                                  "visible_idle">>,
        <<ClaudeModelPickerIsOpen(screen),                             "skip">>,
        <<ClaudePermissionBlocks(screen, afterRule),                   "blocked">>,
        <<title = "star",                                              "visible_idle">>,
        <<TRUE,                                                        "idle">> >>

Rules(tool, title, screen) ==
    CASE tool = "pi"     -> PiRules(screen)
      [] tool = "codex"  -> CodexRules(title, screen)
      [] tool = "claude" -> ClaudeRules(title, screen)

Detect(tool, title, screen) == Outcome(Rules(tool, title, screen))

-----------------------------------------------------------------------------
(* The screen of an agent *)

ScreenInit == form \in Forms /\ above = <<>>

Scrolled(lines) ==
    IF Len(lines) <= Height THEN lines ELSE SubSeq(lines, Len(lines) - Height + 1, Len(lines))

\* A line of conversation appears above the live form.
Prints ==
    /\ \E line \in Talk[form.tool] : above' = Scrolled(Append(above, line))
    /\ UNCHANGED form

\* The live form is answered or replaced.
Redraws ==
    /\ \E next \in {f \in Forms : f.tool = form.tool} \ {form} : form' = next
    /\ above' = Scrolled(above \o form.stays)

ScreenNext == Prints \/ Redraws

ScreenSpec == ScreenInit /\ [][ScreenNext]_screenVars

-----------------------------------------------------------------------------
(* What can be said above a live form *)

\* Phrases looked for in the last n written lines only, or after a mark only, which
\* lines above matter to if the live form is shorter, or has no mark.
Within(n, lines, phrases) == IF Cardinality(Written(lines)) < n THEN phrases ELSE {}
After(mark, lines, phrases) == IF Says(lines, mark) THEN {} ELSE phrases

\* Phrases that matter only if the live form says one of the others.
With(cues, lines, phrases) == IF SaysAny(lines, cues) THEN phrases ELSE {}

\* Without a prompt box in the live form a line above may pass for its border.
Borders(lines) ==
    IF Cardinality({i \in DOMAIN lines : "rule" \in lines[i]}) < 2 THEN {"rule"} ELSE {}

\* An answer above is one to a question of the live form.
Questions == {"do you want to", "would you like to"}
WeakPhrases(lines) ==
    {"[y/n]", "yes (y)"} \cup Questions \cup With(Questions, lines, {"yes", "sign"})

\* Heard[i]: phrases by which rule i may hold above a live form it does not hold for.
\* Missed[i]: phrases by which a rule that holds for the live form may not, above it.
PiHeard(lines) == <<Within(6, lines, {"pi working"}), {}>>
PiMissed(lines) == <<{}, {}>>

CodexHeard(lines) == <<
    {},
    {},
    After("codex prompt", lines,
          {"to scroll", "pgup/pgdn to", "home/end to jump", "q to quit", "to edit prev"}),
    TrustQuestion
        \cup Within(20, lines, {"update available!", "update now", "press enter to continue",
                                "skip until next version"})
        \cup After("codex prompt", lines, WeakPhrases(lines) \cup
                   {"press enter to confirm or esc to cancel", "enter to submit answer",
                    "enter to submit all", "allow command?"}),
    WeakPhrases(lines),
    Within(3, lines, {"codex working"}),
    {},
    {}>>
CodexMissed(lines) == <<{}, {}, {}, {}, {}, Within(3, lines, {"interrupted"}), {}, {}>>

PermissionPhrases == {"waiting for permission", "do you want to allow this connection?",
                      "tab to amend", "ctrl+e to explain", "do you want to proceed?"}

ClaudeHeard(lines) == <<
    {},
    Within(3, lines, {"showing detailed transcript", "ctrl+o", "ctrl+e", "scroll",
                      "? for shortcuts"}),
    {"run a dynamic workflow?", "mcp server", "requests your input", "esc to cancel",
     "accept or decline"}
        \cup After("rule", lines, {"enter to confirm", "enter to select",
                   "arrow keys to navigate", "arrows to navigate", "up/down to navigate",
                   "updown to navigate"}),
    {"background agents"} \cup Borders(lines)
        \cup Within(12, lines, {"/btw", "esc to close", "turn", "status"}),
    Borders(lines),
    {"select model", "enter to set as default", "esc to cancel"},
    PermissionPhrases \cup WeakPhrases(lines)
        \cup {"yes", "bash command", "bash(", "contains expansion", "review your answers",
              "skip interview and plan immediately"}
        \cup After("rule", lines, {"esc to cancel", "1. yes", "2. yes", "2. no", "3. no"}),
    {},
    {}>>
ClaudeMissed(lines) == <<
    {}, {}, {},
    With({"status"}, lines, PermissionPhrases \cup {"esc to cancel"})
        \cup With({"background agents"}, lines, Borders(lines)),
    Borders(lines),
    {"do you want to proceed?", "enter to select"},
    {"prompt alone"},
    {}, {}>>

\* Phrases that lead the rules astray: those by which a rule before the one that
\* decides may hold, and those by which that one may not.
Misleading(tool, title, lines) ==
    LET k == Deciding(Rules(tool, title, lines))
        phrases == CASE tool = "pi"     -> <<PiHeard(lines), PiMissed(lines)>>
                     [] tool = "codex"  -> <<CodexHeard(lines), CodexMissed(lines)>>
                     [] tool = "claude" -> <<ClaudeHeard(lines), ClaudeMissed(lines)>>
    IN (UNION {phrases[1][i] : i \in 1..k - 1}) \cup phrases[2][k]

\* Each live form alone is detected as its frame, and the startup question of Codex,
\* looked for in the first lines of the screen, is among them under any lines above.
ASSUME FormsStandAlone ==
    /\ Height \in Nat
    /\ \A f \in Forms :
          /\ f.tool \in {"pi", "codex", "claude"}
          /\ Talk[f.tool] \subseteq SUBSET STRING
          /\ f.lines \in Seq(SUBSET STRING) /\ f.stays \in Seq(SUBSET STRING)
          /\ Detect(f.tool, f.title, f.lines) = f.frame
          /\ SaysAll(Top(f.lines, 20), TrustQuestion) => Height + Len(f.lines) <= 20

\* The live form decides what is detected, whatever the conversation and the
\* forms answered before have left above it (README.md, screen detection).
LiveFormDecides ==
    ~SaysAny(above, Misleading(form.tool, form.title, form.lines)) =>
        Detect(form.tool, form.title, above \o form.lines) = form.frame
=============================================================================
