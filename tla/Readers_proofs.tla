---------------------------- MODULE Readers_proofs ----------------------------
(***************************************************************************)
(* Proofs about the readers of text that others write: History, for        *)
(* conversations of any lines and any length, and Detectors, for any live  *)
(* forms and any conversation above them.                                  *)
(*                                                                         *)
(* What History promises speaks of the first and the last line of a kind;  *)
(* a line that is read becomes the last of its kinds, and the first of     *)
(* those that had none. So the one pass of the reader, which keeps or      *)
(* replaces a field, finds what the properties describe.                   *)
(*                                                                         *)
(* What a rule of Detectors looks at of a screen ends with what it would   *)
(* look at of the live form alone (Below). So what it finds there for the  *)
(* form it finds for the screen, and the reverse of phrases that the lines *)
(* above do not say (Keeps, Returns). Rule by rule, those are the phrases  *)
(* of Misleading.                                                          *)
(***************************************************************************)
EXTENDS History, Detectors, SequenceTheorems, FiniteSetTheorems, WellFoundedInduction, TLAPS

-----------------------------------------------------------------------------
(* The least and the greatest of a set of positions *)

LEMMA IntervalNat ==
    ASSUME NEW n \in Nat, NEW i \in 1..n
    PROVE  i \in Nat
OBVIOUS

LEMMA LeastOf ==
    ASSUME NEW T \in SUBSET Nat, T # {}
    PROVE  Min(T) \in T /\ \A y \in T : Min(T) <= y
<1> DEFINE R == {pair \in Nat \X Nat : pair[1] < pair[2]}
<1>0. IsWellFoundedOn(R, Nat)
    BY NatLessThanWellFounded DEF OpToRel
<1> HIDE DEF R
<1>1. PICK x \in T : \A y \in T : ~(<<y, x>> \in R)
    BY <1>0, WFMin
<1>2. ASSUME NEW y \in T PROVE x <= y
  <2>1. y \in Nat /\ x \in Nat /\ ~(<<y, x>> \in R)
      BY <1>1
  <2>2. ~(y < x)
      BY <2>1 DEF R
  <2> QED BY <2>1, <2>2
<1> QED BY <1>2 DEF Min

LEMMA GreatestOf ==
    ASSUME NEW n \in Nat, NEW T \in SUBSET (1..n), T # {}
    PROVE  Max(T) \in T /\ \A y \in T : y <= Max(T)
<1> DEFINE U == {m \in Nat : \E y \in T : m = n - y}
<1>1. PICK y0 \in T : TRUE
    OBVIOUS
<1>2. n - y0 \in U
    BY <1>1
<1>3. U \in SUBSET Nat /\ U # {}
    BY <1>2
<1>4. Min(U) \in U /\ \A m \in U : Min(U) <= m
    BY <1>3, LeastOf
<1>5. PICK x \in T : Min(U) = n - x
    BY <1>4
<1>6. \A y \in T : n - y \in U
    OBVIOUS
<1>7. \A y \in T : y <= x
    BY <1>4, <1>5, <1>6
<1> QED BY <1>7 DEF Max

\* A position after all others is the greatest, and the least only if alone.
LEMMA AfterAll ==
    ASSUME NEW n \in Nat, NEW T \in SUBSET (1..n)
    PROVE  /\ Max(T \cup {n + 1}) = n + 1
           /\ Min(T \cup {n + 1}) = IF T = {} THEN n + 1 ELSE Min(T)
<1> DEFINE U == T \cup {n + 1}
<1>1. U \in SUBSET (1..(n + 1)) /\ U # {} /\ n + 1 \in Nat
    OBVIOUS
<1>2. Max(U) \in U /\ \A y \in U : y <= Max(U)
    BY <1>1, GreatestOf
<1>3. Max(U) = n + 1
  <2>1. n + 1 <= Max(U) /\ Max(U) \in 1..(n + 1)
      BY <1>1, <1>2
  <2> HIDE DEF U
  <2> QED BY <2>1
<1>4. Min(U) \in U /\ \A y \in U : Min(U) <= y
    BY <1>1, LeastOf
<1>5. ASSUME T = {} PROVE Min(U) = n + 1
    BY <1>4, <1>5
<1>6. ASSUME T # {} PROVE Min(U) = Min(T)
  <2>1. Min(T) \in T /\ \A y \in T : Min(T) <= y
      BY <1>6, LeastOf
  <2>2. Min(U) <= Min(T) /\ Min(T) \in 1..n
      BY <1>4, <2>1
  <2>3. Min(U) \in T
      BY <1>4, <2>2
  <2>4. Min(T) <= Min(U) /\ Min(U) \in 1..n
      BY <2>1, <2>3
  <2> HIDE DEF U
  <2> QED BY <2>2, <2>4
<1> QED BY <1>3, <1>5, <1>6

-----------------------------------------------------------------------------
(* The first and the last line of a kind, as lines are read *)

\* Where the members of a sequence are of a kind, and a field of the first or
\* last of them, "" if there is none.
Positions(s, kind) == {i \in DOMAIN s : s[i] \in kind}
FirstIn(s, kind, field) ==
    IF Positions(s, kind) = {} THEN "" ELSE s[Min(Positions(s, kind))][field]
LastIn(s, kind, field) ==
    IF Positions(s, kind) = {} THEN "" ELSE s[Max(Positions(s, kind))][field]

\* What a line says, if it is of a kind.
Told(line, kind, field) == IF line \in kind THEN line[field] ELSE ""

\* A field that is never empty in a kind.
Given(kind, field) == \A x \in kind : x[field] # ""

LEMMA PositionsStep ==
    ASSUME NEW S, NEW s \in Seq(S), NEW e \in S, NEW kind
    PROVE  /\ Len(s) \in Nat
           /\ Positions(s, kind) \in SUBSET (1..Len(s))
           /\ Positions(Append(s, e), kind) =
                 IF e \in kind THEN Positions(s, kind) \cup {Len(s) + 1} ELSE Positions(s, kind)
<1>1. Len(s) \in Nat /\ DOMAIN s = 1..Len(s)
    OBVIOUS
<1>2. /\ DOMAIN Append(s, e) = 1..(Len(s) + 1)
      /\ \A i \in 1..Len(s) : Append(s, e)[i] = s[i]
      /\ Append(s, e)[Len(s) + 1] = e
    BY AppendProperties
<1> QED BY <1>1, <1>2 DEF Positions

\* A line that is read is the last of its kind.
LEMMA LastStep ==
    ASSUME NEW S, NEW s \in Seq(S), NEW e \in S, NEW kind, NEW field
    PROVE  LastIn(Append(s, e), kind, field) =
              IF e \in kind THEN e[field] ELSE LastIn(s, kind, field)
<1> DEFINE T == Positions(s, kind)
<1>1. /\ Len(s) \in Nat /\ T \in SUBSET (1..Len(s))
      /\ Positions(Append(s, e), kind) = IF e \in kind THEN T \cup {Len(s) + 1} ELSE T
    BY PositionsStep
<1>2. /\ \A i \in 1..Len(s) : Append(s, e)[i] = s[i]
      /\ Append(s, e)[Len(s) + 1] = e
    BY AppendProperties
<1>3. T # {} => Max(T) \in T
    BY <1>1, GreatestOf
<1>4. Max(T \cup {Len(s) + 1}) = Len(s) + 1
    BY <1>1, AfterAll
<1> HIDE DEF T
<1> QED BY <1>1, <1>2, <1>3, <1>4 DEF LastIn, T

\* It is the first of its kind if there was none; where the field is never
\* empty, an empty one says that there was none.
LEMMA FirstStep ==
    ASSUME NEW S, NEW s \in Seq(S), NEW e \in S, NEW kind, NEW field,
           Given(kind, field)
    PROVE  FirstIn(Append(s, e), kind, field) =
              Or(FirstIn(s, kind, field), Told(e, kind, field))
<1> DEFINE T == Positions(s, kind)
<1>1. /\ Len(s) \in Nat /\ T \in SUBSET (1..Len(s))
      /\ Positions(Append(s, e), kind) = IF e \in kind THEN T \cup {Len(s) + 1} ELSE T
    BY PositionsStep
<1>2. /\ \A i \in 1..Len(s) : Append(s, e)[i] = s[i]
      /\ Append(s, e)[Len(s) + 1] = e
    BY AppendProperties
<1>3. T # {} => Min(T) \in T
  <2> HIDE DEF T
  <2>1. ASSUME NEW i \in T PROVE i \in Nat
    <3>1. i \in 1..Len(s) /\ Len(s) \in Nat
        BY <1>1
    <3> QED BY <3>1, IntervalNat
  <2>2. T \in SUBSET Nat
      BY <2>1
  <2> QED BY <2>2, LeastOf
<1>4. Min(T \cup {Len(s) + 1}) = IF T = {} THEN Len(s) + 1 ELSE Min(T)
    BY <1>1, AfterAll
<1>5. T # {} => s[Min(T)][field] # ""
    BY <1>3 DEF Positions, Given
<1> HIDE DEF T
<1>6. CASE T = {}
    BY <1>1, <1>2, <1>4, <1>6 DEF FirstIn, Or, Told, T
<1>7. CASE T # {}
  <2>1. Append(s, e)[Min(T)] = s[Min(T)]
      BY <1>1, <1>2, <1>3, <1>7
  <2>2. FirstIn(Append(s, e), kind, field) = s[Min(T)][field]
      BY <1>1, <1>4, <1>7, <2>1 DEF FirstIn, T
  <2> QED BY <1>5, <1>7, <2>2 DEF FirstIn, Or, T
<1> QED BY <1>6, <1>7

LEMMA FirstMember ==
    ASSUME NEW S, NEW s \in Seq(S), NEW kind, NEW field, FirstIn(s, kind, field) # ""
    PROVE  /\ s[Min(Positions(s, kind))] \in kind
           /\ s[Min(Positions(s, kind))][field] = FirstIn(s, kind, field)
<1>1. DOMAIN s = 1..Len(s) /\ Len(s) \in Nat
    BY LenProperties
<1>2. ASSUME NEW i \in Positions(s, kind) PROVE i \in Nat
  <2>1. i \in 1..Len(s)
      BY <1>1 DEF Positions
  <2> QED BY <1>1, <2>1, IntervalNat
<1>3. Positions(s, kind) \in SUBSET Nat /\ Positions(s, kind) # {}
    BY <1>2 DEF FirstIn
<1>4. Min(Positions(s, kind)) \in Positions(s, kind)
    BY <1>3, LeastOf
<1> QED BY <1>3, <1>4 DEF Positions, FirstIn

-----------------------------------------------------------------------------
(* Types *)

Metadata == [id : Texts, cwd : Texts, name : Texts, prompt : Texts, spare : Texts]
Pairs == {"user", "assistant"} \X (Texts \ {""})

HistoryType ==
    /\ agent \in Agents
    /\ file \in Seq(Lines[agent]) /\ seen \in Seq(Lines[agent])
    /\ meta \in Metadata
    /\ events \in Seq(Pairs) /\ messages \in Seq(Pairs)

LEMMA ApplyType ==
    ASSUME agent \in Agents, NEW m \in Metadata, NEW line \in Records
    PROVE  Apply(m, line) \in Metadata
<1>1. agent \in {"pi", "codex", "claude"}
    BY HistoryAssumption
<1>2. ApplyPi(m, line) \in Metadata
    BY DEF ApplyPi, Metadata, Records, Or
<1>3. ApplyCodex(m, line) \in Metadata
    BY DEF ApplyCodex, Metadata, Records, Or
<1>4. ApplyClaude(m, line) \in Metadata
    BY DEF ApplyClaude, Metadata, Records, Or
<1> QED BY <1>1, <1>2, <1>3, <1>4 DEF Apply

LEMMA FrontType ==
    ASSUME NEW S, NEW s \in Seq(S), s # <<>>
    PROVE  Front(s) \in Seq(S)
<1>1. Len(s) \in Nat /\ DOMAIN s = 1..Len(s) /\ Len(s) # 0 /\ \A i \in 1..Len(s) : s[i] \in S
    BY EmptySeq, ElementOfSeq
<1>2. \A i \in 1..(Len(s) - 1) : s[i] \in S
    BY <1>1
<1>3. SubSeq(s, 1, Len(s) - 1) \in Seq(S)
    BY <1>1, <1>2, SubSeqProperties
<1> QED BY <1>3 DEF Front

LEMMA HistoryNextType == HistoryType /\ [HistoryNext]_historyVars => HistoryType'
<1> SUFFICES ASSUME HistoryType, [HistoryNext]_historyVars PROVE HistoryType'
    OBVIOUS
<1> USE DEF HistoryType
<1>1. CASE Writes
    BY <1>1, AppendProperties DEF Writes
<1>2. CASE Completes
  <2>1. PICK line \in Lines[agent] : file' = Append(Front(file), line)
      BY <1>2 DEF Completes
  <2>2. Front(file) \in Seq(Lines[agent])
      BY <1>2, FrontType DEF Completes
  <2> QED BY <1>2, <2>1, <2>2, AppendProperties DEF Completes
<1>3. CASE ReadLine
  <2> DEFINE line == file[Len(seen) + 1]
  <2>1. Len(seen) \in Nat /\ Len(file) \in Nat /\ Len(seen) < Len(file)
      BY <1>3 DEF ReadLine
  <2>2. line \in Lines[agent]
      BY <2>1, ElementOfSeq
  <2>3. line \in Records
      BY <2>2, HistoryAssumption
  <2> HIDE DEF line
  <2>4. CASE line.type = "unreadable"
      BY <1>3, <2>4 DEF ReadLine, line
  <2>5. CASE line.type # "unreadable"
    <3>1. seen' = Append(seen, line) /\ agent' = agent /\ file' = file
        BY <1>3, <2>5 DEF ReadLine, line
    <3>2. meta' = IF Parsed(line) THEN Apply(meta, line) ELSE meta
        BY <1>3, <2>5 DEF ReadLine, line
    <3>3. events' = IF IsEvent(line) THEN Append(events, Pair(line)) ELSE events
        BY <1>3, <2>5 DEF ReadLine, line
    <3>4. messages' = IF IsOther(line) THEN Append(messages, Pair(line)) ELSE messages
        BY <1>3, <2>5 DEF ReadLine, line
    <3>5. IsMessage(line) => Pair(line) \in Pairs
        BY <2>3 DEF IsMessage, Pair, Pairs, Records
    <3>6. IsEvent(line) => IsMessage(line)
        BY DEF IsEvent
    <3>7. IsOther(line) => IsMessage(line)
        BY HistoryAssumption DEF IsOther, IsPiMessage, IsResponse, IsClaudeMessage
    <3>8. seen' \in Seq(Lines[agent])
        BY <2>2, <3>1, AppendProperties
    <3>9. meta' \in Metadata
        BY <2>3, <3>2, ApplyType
    <3>10. events' \in Seq(Pairs)
        BY <3>3, <3>5, <3>6, AppendProperties
    <3>11. messages' \in Seq(Pairs)
        BY <3>4, <3>5, <3>7, AppendProperties
    <3> QED BY <3>1, <3>8, <3>9, <3>10, <3>11
  <2> QED BY <2>4, <2>5
<1>4. CASE EndsFile
    BY <1>4 DEF EndsFile
<1>5. CASE UNCHANGED historyVars
    BY <1>5 DEF historyVars
<1> QED BY <1>1, <1>2, <1>3, <1>4, <1>5 DEF HistoryNext

-----------------------------------------------------------------------------
(* What the lines say, and what the reader keeps of a line *)

LEMMA KindsKept ==
    ASSUME agent' = agent
    PROVE  /\ WithId' = WithId /\ WithDirectory' = WithDirectory /\ Headings' = Headings
           /\ Namings' = Namings /\ Prompts' = Prompts /\ Responses' = Responses
<1>1. Readable' = Readable
    BY DEF Readable
<1> QED BY <1>1 DEF WithId, WithDirectory, Headings, Namings, Prompts, Responses

LEMMA FirstOfStep ==
    ASSUME HistoryType, NEW line \in Lines[agent], agent' = agent, seen' = Append(seen, line)
    PROVE  /\ FirstOf(WithId, "id")' = Or(FirstOf(WithId, "id"), Told(line, WithId, "id"))
           /\ FirstOf(WithDirectory, "cwd")' = Or(FirstOf(WithDirectory, "cwd"), Told(line, WithDirectory, "cwd"))
           /\ FirstOf(Prompts, "text")' = Or(FirstOf(Prompts, "text"), Told(line, Prompts, "text"))
           /\ FirstOf(Responses, "text")' = Or(FirstOf(Responses, "text"), Told(line, Responses, "text"))
<1>1. seen \in Seq(Lines[agent])
    BY DEF HistoryType
<1> USE KindsKept
<1>2. FirstOf(WithId, "id")' = Or(FirstOf(WithId, "id"), Told(line, WithId, "id"))
  <2>1. Given(WithId, "id")
      BY DEF Given, WithId
  <2>2. FirstIn(Append(seen, line), WithId, "id") =
           Or(FirstIn(seen, WithId, "id"), Told(line, WithId, "id"))
      BY <1>1, <2>1, FirstStep
  <2> QED BY <2>2 DEF FirstOf, FirstIn, Found, Positions
<1>3. FirstOf(WithDirectory, "cwd")' = Or(FirstOf(WithDirectory, "cwd"), Told(line, WithDirectory, "cwd"))
  <2>1. Given(WithDirectory, "cwd")
      BY DEF Given, WithDirectory
  <2>2. FirstIn(Append(seen, line), WithDirectory, "cwd") =
           Or(FirstIn(seen, WithDirectory, "cwd"), Told(line, WithDirectory, "cwd"))
      BY <1>1, <2>1, FirstStep
  <2> QED BY <2>2 DEF FirstOf, FirstIn, Found, Positions
<1>4. FirstOf(Prompts, "text")' = Or(FirstOf(Prompts, "text"), Told(line, Prompts, "text"))
  <2>1. Given(Prompts, "text")
      BY DEF Given, Prompts
  <2>2. FirstIn(Append(seen, line), Prompts, "text") =
           Or(FirstIn(seen, Prompts, "text"), Told(line, Prompts, "text"))
      BY <1>1, <2>1, FirstStep
  <2> QED BY <2>2 DEF FirstOf, FirstIn, Found, Positions
<1>5. FirstOf(Responses, "text")' = Or(FirstOf(Responses, "text"), Told(line, Responses, "text"))
  <2>1. Given(Responses, "text")
      BY DEF Given, Responses
  <2>2. FirstIn(Append(seen, line), Responses, "text") =
           Or(FirstIn(seen, Responses, "text"), Told(line, Responses, "text"))
      BY <1>1, <2>1, FirstStep
  <2> QED BY <2>2 DEF FirstOf, FirstIn, Found, Positions
<1> QED BY <1>2, <1>3, <1>4, <1>5

LEMMA LastOfStep ==
    ASSUME HistoryType, NEW line \in Lines[agent], agent' = agent, seen' = Append(seen, line)
    PROVE  /\ LastOf(Headings, "id")' =
                 IF line \in Headings THEN line.id ELSE LastOf(Headings, "id")
           /\ LastOf(Headings, "cwd")' =
                 IF line \in Headings THEN line.cwd ELSE LastOf(Headings, "cwd")
           /\ LastOf(Namings, "name")' =
                 IF line \in Namings THEN line.name ELSE LastOf(Namings, "name")
<1>1. seen \in Seq(Lines[agent])
    BY DEF HistoryType
<1>2. /\ LastIn(Append(seen, line), Headings, "id") =
            IF line \in Headings THEN line["id"] ELSE LastIn(seen, Headings, "id")
      /\ LastIn(Append(seen, line), Headings, "cwd") =
            IF line \in Headings THEN line["cwd"] ELSE LastIn(seen, Headings, "cwd")
      /\ LastIn(Append(seen, line), Namings, "name") =
            IF line \in Namings THEN line["name"] ELSE LastIn(seen, Namings, "name")
    BY <1>1, LastStep
<1> QED BY <1>2, KindsKept DEF LastOf, LastIn, Found, Positions

\* A line that is no JSON is of no kind.
LEMMA CutSaysNothing ==
    ASSUME NEW line, ~Parsed(line)
    PROVE  /\ Told(line, WithId, "id") = "" /\ Told(line, WithDirectory, "cwd") = "" /\ Told(line, Prompts, "text") = ""
           /\ Told(line, Responses, "text") = "" /\ line \notin Headings /\ line \notin Namings
BY DEF Told, WithId, WithDirectory, Headings, Namings,
       Prompts, Responses, Readable

LEMMA PiKeeps ==
    ASSUME agent = "pi", NEW line \in Lines[agent], line \in Records, Parsed(line),
           NEW m \in Metadata
    PROVE  LET n == Apply(m, line)
           IN /\ n.id = IF line \in Headings THEN line.id ELSE m.id
              /\ n.cwd = IF line \in Headings THEN line.cwd ELSE m.cwd
              /\ n.name = IF line \in Namings THEN line.name ELSE m.name
              /\ n.prompt = Or(m.prompt, Told(line, Prompts, "text"))
              /\ n.spare = Or(m.spare, Told(line, Responses, "text"))
<1>1. /\ line \in Headings <=> line.type = "session"
      /\ line \in Namings <=> line.type = "session_info" /\ line.name # ""
      /\ line \in Prompts <=> line.type = "message" /\ line.role = "user" /\ line.text # ""
      /\ line \notin Responses
    BY DEF Headings, Namings, Prompts, Responses, Readable
<1>2. Apply(m, line) = ApplyPi(m, line)
    BY DEF Apply
<1> QED BY <1>1, <1>2 DEF ApplyPi, Metadata, Or, Told

LEMMA CodexKeeps ==
    ASSUME agent = "codex", NEW line \in Lines[agent], line \in Records, Parsed(line),
           NEW m \in Metadata
    PROVE  LET n == Apply(m, line)
           IN /\ n.id = IF line \in Headings THEN line.id ELSE m.id
              /\ n.cwd = IF line \in Headings THEN line.cwd ELSE m.cwd
              /\ n.name = IF line \in Namings THEN line.name ELSE m.name
              /\ n.prompt = Or(m.prompt, Told(line, Prompts, "text"))
              /\ n.spare = Or(m.spare, Told(line, Responses, "text"))
<1>1. /\ line \in Headings <=> line.type = "session_meta"
      /\ line \notin Namings
      /\ line \in Prompts <=> line.type = "event_msg" /\ line.role = "user" /\ line.text # ""
      /\ line \in Responses <=>
            line.type = "response_item" /\ line.role = "user" /\ line.text # ""
    BY DEF Headings, Namings, Prompts, Responses, Readable
<1>2. Apply(m, line) = ApplyCodex(m, line)
    BY DEF Apply
<1> QED BY <1>1, <1>2 DEF ApplyCodex, Metadata, Or, Told

LEMMA ClaudeKeeps ==
    ASSUME agent = "claude", NEW line \in Lines[agent], line \in Records, Parsed(line),
           NEW m \in Metadata
    PROVE  LET n == Apply(m, line)
           IN /\ n.id = Or(m.id, Told(line, WithId, "id"))
              /\ n.cwd = Or(m.cwd, Told(line, WithDirectory, "cwd"))
              /\ n.name = IF line \in Namings THEN line.name ELSE m.name
              /\ n.prompt = Or(m.prompt, Told(line, Prompts, "text"))
              /\ n.spare = Or(m.spare, Told(line, Responses, "text"))
<1>1. /\ line \in WithId <=> line.id # ""
      /\ line \in WithDirectory <=> line.cwd # ""
      /\ line \notin Namings
      /\ line \in Prompts <=> line.type = "user" /\ ~line.aside /\ line.text # ""
      /\ line \notin Responses
    BY DEF WithId, WithDirectory, Namings, Prompts, Responses, Readable
<1>2. Apply(m, line) = ApplyClaude(m, line)
    BY DEF Apply
<1> QED BY <1>1, <1>2 DEF ApplyClaude, Metadata, Or, Told

\* What is kept of the lines is what they say, and remains so when one is read.
LEMMA SaidStep ==
    ASSUME HistoryType, meta = Said, NEW line \in Lines[agent], line \in Records,
           agent' = agent, seen' = Append(seen, line),
           meta' = IF Parsed(line) THEN Apply(meta, line) ELSE meta, meta' \in Metadata
    PROVE  meta' = Said'
<1>1. agent \in {"pi", "codex", "claude"} /\ meta \in Metadata
    BY HistoryAssumption DEF HistoryType
<1>2. meta'.name = LastOf(Namings, "name")'
  <2>1. meta.name = LastOf(Namings, "name")
      BY DEF Said
  <2>2. meta'.name = IF line \in Namings THEN line.name ELSE meta.name
      BY <1>1, PiKeeps, CodexKeeps, ClaudeKeeps, CutSaysNothing
  <2> QED BY <2>1, <2>2, LastOfStep
<1>3. meta'.prompt = FirstOf(Prompts, "text")'
  <2>1. meta.prompt = FirstOf(Prompts, "text")
      BY DEF Said
  <2>2. Parsed(line) => meta'.prompt = Or(meta.prompt, Told(line, Prompts, "text"))
      BY <1>1, PiKeeps, CodexKeeps, ClaudeKeeps
  <2>3. ~Parsed(line) => meta'.prompt = Or(meta.prompt, Told(line, Prompts, "text"))
      BY CutSaysNothing DEF Or
  <2> QED BY <2>1, <2>2, <2>3, FirstOfStep
<1>4. meta'.spare = FirstOf(Responses, "text")'
  <2>1. meta.spare = FirstOf(Responses, "text")
      BY DEF Said
  <2>2. Parsed(line) => meta'.spare = Or(meta.spare, Told(line, Responses, "text"))
      BY <1>1, PiKeeps, CodexKeeps, ClaudeKeeps
  <2>3. ~Parsed(line) => meta'.spare = Or(meta.spare, Told(line, Responses, "text"))
      BY CutSaysNothing DEF Or
  <2> QED BY <2>1, <2>2, <2>3, FirstOfStep
<1>5. CASE agent = "claude"
  <2>1. meta.id = FirstOf(WithId, "id") /\ meta.cwd = FirstOf(WithDirectory, "cwd")
      BY <1>5 DEF Said
  <2>2. Parsed(line) => /\ meta'.id = Or(meta.id, Told(line, WithId, "id"))
                        /\ meta'.cwd = Or(meta.cwd, Told(line, WithDirectory, "cwd"))
      BY <1>1, <1>5, ClaudeKeeps
  <2>3. ~Parsed(line) => /\ meta'.id = Or(meta.id, Told(line, WithId, "id"))
                         /\ meta'.cwd = Or(meta.cwd, Told(line, WithDirectory, "cwd"))
      BY CutSaysNothing DEF Or
  <2>4. meta'.id = FirstOf(WithId, "id")' /\ meta'.cwd = FirstOf(WithDirectory, "cwd")'
      BY <2>1, <2>2, <2>3, FirstOfStep
  <2> QED BY <1>2, <1>3, <1>4, <1>5, <2>4 DEF Said, Metadata
<1>6. CASE agent # "claude"
  <2>1. meta.id = LastOf(Headings, "id") /\ meta.cwd = LastOf(Headings, "cwd")
      BY <1>6 DEF Said
  <2>2. /\ meta'.id = IF line \in Headings THEN line.id ELSE meta.id
        /\ meta'.cwd = IF line \in Headings THEN line.cwd ELSE meta.cwd
      BY <1>1, <1>6, PiKeeps, CodexKeeps, CutSaysNothing
  <2>3. meta'.id = LastOf(Headings, "id")' /\ meta'.cwd = LastOf(Headings, "cwd")'
      BY <2>1, <2>2, LastOfStep
  <2> QED BY <1>2, <1>3, <1>4, <1>6, <2>3 DEF Said, Metadata
<1> QED BY <1>5, <1>6

-----------------------------------------------------------------------------
(* What there is to show opens with the prompt that the list shows *)

UserPairs == {"user"} \X (Texts \ {""})

\* The first message of the user is the prompt: of Codex, that of its responses is the
\* one kept in case that its events have none.
OpensPreview ==
    /\ FirstIn(messages, UserPairs, 2) = IF agent = "codex" THEN meta.spare ELSE meta.prompt
    /\ FirstIn(events, UserPairs, 2) = IF agent = "codex" THEN meta.prompt ELSE ""
    /\ agent # "codex" => meta.spare = "" /\ events = <<>>

\* A line that is a message of the user gives the prompt, and no other does.
LEMMA MessageSays ==
    ASSUME agent \in Agents, NEW line \in Lines[agent], line \in Records
    PROVE  Told(line, IF agent = "codex" THEN Responses ELSE Prompts, "text") =
              IF IsOther(line) THEN Told(Pair(line), UserPairs, 2) ELSE ""
<1>1. agent \in {"pi", "codex", "claude"}
    BY HistoryAssumption
<1>2. Pair(line)[2] = line.text
    BY DEF Pair
<1>3. Pair(line) \in UserPairs <=> line.role = "user" /\ line.text # ""
    BY DEF Pair, UserPairs, Records
<1>4. CASE agent = "pi"
  <2>1. line \in Prompts <=> IsOther(line) /\ Pair(line) \in UserPairs
      BY <1>3, <1>4 DEF Prompts, Readable, IsOther, IsPiMessage, IsMessage
  <2> QED BY <1>2, <1>4, <2>1 DEF Told
<1>5. CASE agent = "codex"
  <2>1. line \in Responses <=> IsOther(line) /\ Pair(line) \in UserPairs
      BY <1>3, <1>5 DEF Responses, Readable, IsOther, IsResponse, IsMessage
  <2> QED BY <1>2, <1>5, <2>1 DEF Told
<1>6. CASE agent = "claude"
  <2>1. ~line.aside => (line.type = "user" <=> line.role = "user")
      BY <1>6, HistoryAssumption
  <2>2. line \in Prompts <=> IsOther(line) /\ Pair(line) \in UserPairs
      BY <1>3, <1>6, <2>1 DEF Prompts, Readable, IsOther, IsClaudeMessage, IsMessage
  <2> QED BY <1>2, <1>6, <2>2 DEF Told
<1> QED BY <1>1, <1>4, <1>5, <1>6

\* So does one of Codex' events.
LEMMA EventSays ==
    ASSUME agent = "codex", NEW line \in Lines[agent], line \in Records
    PROVE  Told(line, Prompts, "text") =
              IF IsEvent(line) THEN Told(Pair(line), UserPairs, 2) ELSE ""
<1>1. Pair(line)[2] = line.text
    BY DEF Pair
<1>2. Pair(line) \in UserPairs <=> line.role = "user" /\ line.text # ""
    BY DEF Pair, UserPairs, Records
<1>3. line \in Prompts <=> IsEvent(line) /\ Pair(line) \in UserPairs
    BY <1>2 DEF Prompts, Readable, IsEvent, IsMessage
<1> QED BY <1>1, <1>3 DEF Told

\* A sequence that a message is appended to or not.
LEMMA OpensWith ==
    ASSUME NEW s \in Seq(Pairs), NEW pair, NEW says \in BOOLEAN, says => pair \in Pairs
    PROVE  FirstIn(IF says THEN Append(s, pair) ELSE s, UserPairs, 2) =
              Or(FirstIn(s, UserPairs, 2), IF says THEN Told(pair, UserPairs, 2) ELSE "")
<1>1. Given(UserPairs, 2)
    BY DEF Given, UserPairs
<1>2. says => FirstIn(Append(s, pair), UserPairs, 2) =
                 Or(FirstIn(s, UserPairs, 2), Told(pair, UserPairs, 2))
    BY <1>1, FirstStep
<1> QED BY <1>2 DEF Or

LEMMA OpensStep ==
    ASSUME HistoryType, OpensPreview, NEW line \in Lines[agent], line \in Records, agent' = agent,
           meta' = IF Parsed(line) THEN Apply(meta, line) ELSE meta,
           events' = IF IsEvent(line) THEN Append(events, Pair(line)) ELSE events,
           messages' = IF IsOther(line) THEN Append(messages, Pair(line)) ELSE messages
    PROVE  OpensPreview'
<1>1. agent \in {"pi", "codex", "claude"} /\ meta \in Metadata /\ messages \in Seq(Pairs)
      /\ events \in Seq(Pairs)
    BY HistoryAssumption DEF HistoryType
<1>2. /\ meta'.prompt = Or(meta.prompt, Told(line, Prompts, "text"))
      /\ meta'.spare = Or(meta.spare, Told(line, Responses, "text"))
  <2>1. CASE Parsed(line)
      BY <1>1, <2>1, PiKeeps, CodexKeeps, ClaudeKeeps
  <2>2. CASE ~Parsed(line)
      BY <2>2, CutSaysNothing DEF Or
  <2> QED BY <2>1, <2>2
<1>3. IsOther(line) \/ IsEvent(line) => Pair(line) \in Pairs
    BY DEF IsOther, IsPiMessage, IsResponse, IsClaudeMessage, IsEvent, IsMessage, Pair, Pairs, Records
<1>4. /\ FirstIn(messages', UserPairs, 2) =
            Or(FirstIn(messages, UserPairs, 2),
               IF IsOther(line) THEN Told(Pair(line), UserPairs, 2) ELSE "")
      /\ FirstIn(events', UserPairs, 2) =
            Or(FirstIn(events, UserPairs, 2),
               IF IsEvent(line) THEN Told(Pair(line), UserPairs, 2) ELSE "")
  <2>1. IsOther(line) \in BOOLEAN /\ IsEvent(line) \in BOOLEAN
      BY DEF IsOther, IsPiMessage, IsResponse, IsClaudeMessage, IsEvent
  <2> QED BY <1>1, <1>3, <2>1, OpensWith
<1>5. CASE agent = "codex"
  <2>1. Told(line, Responses, "text") = IF IsOther(line) THEN Told(Pair(line), UserPairs, 2) ELSE ""
      BY <1>5, MessageSays DEF HistoryType
  <2>2. Told(line, Prompts, "text") = IF IsEvent(line) THEN Told(Pair(line), UserPairs, 2) ELSE ""
      BY <1>5, EventSays
  <2>3. FirstIn(messages', UserPairs, 2) = meta'.spare /\ FirstIn(events', UserPairs, 2) = meta'.prompt
      BY <1>2, <1>4, <1>5, <2>1, <2>2 DEF OpensPreview
  <2> QED BY <1>5, <2>3 DEF OpensPreview, FirstIn, Positions
<1>6. CASE agent # "codex"
  <2>1. Told(line, Prompts, "text") = IF IsOther(line) THEN Told(Pair(line), UserPairs, 2) ELSE ""
      BY <1>6, MessageSays DEF HistoryType
  <2>2. Told(line, Responses, "text") = "" /\ ~IsEvent(line)
      BY <1>6 DEF Told, Responses, IsEvent
  <2>3. /\ FirstIn(messages', UserPairs, 2) = meta'.prompt /\ FirstIn(events', UserPairs, 2) = ""
        /\ meta'.spare = "" /\ events' = <<>>
      BY <1>2, <1>4, <1>6, <2>1, <2>2 DEF OpensPreview, Or
  <2> QED BY <1>6, <2>3 DEF OpensPreview, FirstIn, Positions
<1> QED BY <1>5, <1>6

-----------------------------------------------------------------------------
(* The invariant *)

HistoryInv == HistoryType /\ meta = Said /\ OpensPreview

LEMMA HistoryInitInv == HistoryInit => HistoryInv
<1> SUFFICES ASSUME HistoryInit PROVE HistoryInv
    OBVIOUS
<1>1. /\ agent \in Agents /\ file = <<>> /\ seen = <<>> /\ events = <<>> /\ messages = <<>>
      /\ meta = [id |-> "", cwd |-> "", name |-> "", prompt |-> "", spare |-> ""]
    BY DEF HistoryInit
<1>2. meta \in Metadata
    BY <1>1, HistoryAssumption DEF Metadata
<1>3. /\ file \in Seq(Lines[agent]) /\ seen \in Seq(Lines[agent])
      /\ events \in Seq(Pairs) /\ messages \in Seq(Pairs)
    BY <1>1, EmptySeq
<1>4. DOMAIN seen = {} /\ DOMAIN messages = {} /\ DOMAIN events = {}
  <2>1. Len(seen) = 0 /\ Len(messages) = 0 /\ Len(events) = 0
      BY <1>1, EmptySeq
  <2>2. DOMAIN seen = 1..0 /\ DOMAIN messages = 1..0 /\ DOMAIN events = 1..0
      BY <1>3, <2>1, LenProperties
  <2> QED BY <2>2
<1>5. meta = Said
  <2>1. \A kind : Found(kind) = {}
      BY <1>4 DEF Found
  <2> QED BY <1>1, <2>1 DEF Said, FirstOf, LastOf
<1>6. OpensPreview
  <2>1. Positions(messages, UserPairs) = {} /\ Positions(events, UserPairs) = {}
      BY <1>4 DEF Positions
  <2> QED BY <1>1, <2>1 DEF OpensPreview, FirstIn
<1> QED BY <1>1, <1>2, <1>3, <1>5, <1>6 DEF HistoryInv, HistoryType

\* The fields that a line that is not read leaves.
LEMMA NothingRead ==
    ASSUME HistoryInv, UNCHANGED <<agent, seen, meta, events, messages>>
    PROVE  (meta = Said)' /\ OpensPreview'
<1>1. Said' = Said
    BY KindsKept DEF Said, FirstOf, LastOf, Found
<1>2. OpensPreview'
    BY DEF HistoryInv, OpensPreview, FirstIn, Positions
<1> QED BY <1>1, <1>2 DEF HistoryInv

LEMMA HistoryNextInv == HistoryInv /\ [HistoryNext]_historyVars => HistoryInv'
<1> SUFFICES ASSUME HistoryInv, [HistoryNext]_historyVars PROVE HistoryInv'
    OBVIOUS
<1>1. HistoryType /\ HistoryType'
    BY HistoryNextType DEF HistoryInv
<1>2. CASE Writes
    BY <1>1, <1>2, NothingRead DEF Writes, HistoryInv
<1>3. CASE Completes
    BY <1>1, <1>3, NothingRead DEF Completes, HistoryInv
<1>4. CASE ReadLine
  <2> DEFINE line == file[Len(seen) + 1]
  <2>1. line \in Lines[agent] /\ line \in Records
    <3>1. Len(seen) \in Nat /\ Len(file) \in Nat /\ Len(seen) < Len(file)
        BY <1>1, <1>4 DEF ReadLine, HistoryType
    <3>2. line \in Lines[agent]
        BY <1>1, <3>1, ElementOfSeq DEF HistoryType
    <3> QED BY <1>1, <3>2, HistoryAssumption DEF HistoryType
  <2>2. CASE line.type = "unreadable"
      BY <1>1, <1>4, <2>2, NothingRead DEF ReadLine, HistoryInv
  <2>3. CASE line.type # "unreadable"
    <3>1. /\ seen' = Append(seen, line) /\ agent' = agent
          /\ meta' = IF Parsed(line) THEN Apply(meta, line) ELSE meta
          /\ events' = IF IsEvent(line) THEN Append(events, Pair(line)) ELSE events
          /\ messages' = IF IsOther(line) THEN Append(messages, Pair(line)) ELSE messages
        BY <1>4, <2>3 DEF ReadLine
    <3> HIDE DEF line
    <3>2. meta' \in Metadata
        BY <1>1 DEF HistoryType
    <3>3. (meta = Said)'
        BY <1>1, <2>1, <3>1, <3>2, SaidStep DEF HistoryInv
    <3>4. OpensPreview'
        BY <1>1, <2>1, <3>1, OpensStep DEF HistoryInv
    <3> QED BY <1>1, <3>3, <3>4 DEF HistoryInv
  <2> QED BY <2>2, <2>3
<1>5. CASE EndsFile
    BY <1>1, <1>5, NothingRead DEF EndsFile, HistoryInv
<1>6. CASE UNCHANGED historyVars
    BY <1>1, <1>6, NothingRead DEF historyVars, HistoryInv
<1> QED BY <1>2, <1>3, <1>4, <1>5, <1>6 DEF HistoryNext

\* Whatever an agent writes, and however its lines are completed while they are
\* read, one pass of apply_pi_value, apply_codex_value or parse_claude_record
\* keeps the identity, the name and the prompts that the lines read give.
THEOREM OnePassIsExact == HistorySpec => []HistoryExact
<1>1. HistorySpec => []HistoryInv
    BY HistoryInitInv, HistoryNextInv, PTL DEF HistorySpec
<1>2. HistoryInv => HistoryExact
    BY DEF HistoryInv, HistoryExact
<1> QED BY <1>1, <1>2, PTL

-----------------------------------------------------------------------------
(* The preview is the ending of what there is to show *)

LEMMA PreviewIsEnding ==
    ASSUME HistoryType
    PROVE  LET hidden == Len(Conversation) - Len(Preview)
           IN /\ Len(Preview) <= PreviewLimit
              /\ hidden > 0 => Len(Preview) = PreviewLimit
              /\ \A i \in DOMAIN Preview : Preview[i] = Conversation[hidden + i]
<1> DEFINE first == IF Len(Conversation) > PreviewLimit THEN Len(Conversation) - PreviewLimit + 1 ELSE 1
<1>1. Conversation \in Seq(Pairs)
    BY DEF HistoryType, Conversation
<1>2. Len(Conversation) \in Nat /\ PreviewLimit \in Nat
    BY <1>1, LenProperties, HistoryAssumption
<1>3. first \in 1..(Len(Conversation) + 1) /\ first \in Int
    BY <1>2
<1>4. \A i \in first..Len(Conversation) : Conversation[i] \in Pairs
    BY <1>1, <1>2, <1>3, ElementOfSeq
<1>5. Preview = SubSeq(Conversation, first, Len(Conversation))
    BY DEF Preview
<1> HIDE DEF first
<1>6. /\ Preview \in Seq(Pairs)
      /\ Len(Preview) = IF first <= Len(Conversation) THEN Len(Conversation) - first + 1 ELSE 0
      /\ \A i \in 1..(Len(Conversation) - first + 1) : Preview[i] = Conversation[first + i - 1]
    BY <1>2, <1>3, <1>4, <1>5, SubSeqProperties
<1>7. DOMAIN Preview = 1..Len(Preview) /\ Len(Preview) \in Nat
    BY <1>6, LenProperties
<1>8. Len(Preview) = Len(Conversation) - first + 1
    BY <1>2, <1>3, <1>6
<1>9. \A i \in DOMAIN Preview : Preview[i] = Conversation[Len(Conversation) - Len(Preview) + i]
  <2> SUFFICES ASSUME NEW i \in 1..Len(Preview)
               PROVE  Preview[i] = Conversation[Len(Conversation) - Len(Preview) + i]
      BY <1>7
  <2>1. Preview[i] = Conversation[first + i - 1]
      BY <1>6, <1>8
  <2>2. Len(Conversation) - Len(Preview) + i = first + i - 1
      BY <1>2, <1>3, <1>7, <1>8
  <2> QED BY <2>1, <2>2
<1>10. /\ Len(Preview) <= PreviewLimit
       /\ Len(Conversation) - Len(Preview) > 0 => Len(Preview) = PreviewLimit
    BY <1>2, <1>7, <1>8 DEF first
<1> QED BY <1>9, <1>10

\* The first message of the user that there is to show.
LEMMA FirstShown ==
    ASSUME HistoryInv
    PROVE  LET users == {i \in DOMAIN Conversation : Conversation[i][1] = "user"}
           IN IF users = {} THEN events = <<>> => Or(meta.prompt, meta.spare) = ""
              ELSE Or(meta.prompt, meta.spare) = Conversation[Min(users)][2]
<1> DEFINE users == {i \in DOMAIN Conversation : Conversation[i][1] = "user"}
<1>1. Conversation \in Seq(Pairs)
    BY DEF HistoryInv, HistoryType, Conversation
<1>2. users = Positions(Conversation, UserPairs)
  <2>1. \A i \in DOMAIN Conversation : Conversation[i] \in Pairs
      BY <1>1, LenProperties, ElementOfSeq
  <2>2. \A p \in Pairs : p \in UserPairs <=> p[1] = "user"
      BY DEF Pairs, UserPairs
  <2> QED BY <2>1, <2>2 DEF Positions
<1>3. FirstIn(Conversation, UserPairs, 2) =
         IF users = {} THEN "" ELSE Conversation[Min(users)][2]
    BY <1>2 DEF FirstIn
<1>4. FirstIn(<<>>, UserPairs, 2) = ""
  <2>1. Positions(<<>>, UserPairs) = {}
      BY DEF Positions
  <2> QED BY <2>1 DEF FirstIn
<1>5. users # {} => FirstIn(Conversation, UserPairs, 2) # ""
  <2> SUFFICES ASSUME users # {} PROVE FirstIn(Conversation, UserPairs, 2) # ""
      OBVIOUS
  <2>1. DOMAIN Conversation = 1..Len(Conversation) /\ Len(Conversation) \in Nat
      BY <1>1, LenProperties
  <2>2. \A i \in users : i \in Nat
      BY <2>1, IntervalNat
  <2>3. Min(users) \in users
      BY <2>2, LeastOf
  <2>4. Conversation[Min(users)] \in UserPairs
      BY <1>2, <2>3 DEF Positions
  <2>5. \A p \in UserPairs : p[2] # ""
      BY DEF UserPairs
  <2> HIDE DEF users
  <2> QED BY <1>3, <2>4, <2>5
<1> HIDE DEF users
<1>6. CASE events = <<>>
  <2>1. Conversation = messages
      BY <1>6 DEF Conversation
  <2>2. Or(meta.prompt, meta.spare) = FirstIn(Conversation, UserPairs, 2)
      BY <1>4, <1>6, <2>1 DEF HistoryInv, OpensPreview, Or
  <2> QED BY <1>3, <2>2 DEF users
<1>7. CASE events # <<>>
  <2>1. Conversation = events /\ agent = "codex"
      BY <1>7 DEF Conversation, HistoryInv, OpensPreview
  <2>2. meta.prompt = FirstIn(Conversation, UserPairs, 2)
      BY <2>1 DEF HistoryInv, OpensPreview
  <2> QED BY <1>3, <1>5, <1>7, <2>2 DEF users, Or
<1> QED BY <1>6, <1>7

\* parse_pi_record, parse_codex_record and parse_claude_record choose the title, and
\* preview_record the messages, by rules of their own; for lines of any kind, files of
\* any length and any limit they agree on the first message of the user.
THEOREM TitleIsShown == HistorySpec => []ListedAsShown
<1>1. HistorySpec => []HistoryInv
    BY HistoryInitInv, HistoryNextInv, PTL DEF HistorySpec
<1>2. HistoryInv => ListedAsShown
  <2> SUFFICES ASSUME HistoryInv PROVE ListedAsShown
      OBVIOUS
  <2> DEFINE users == {i \in DOMAIN Conversation : Conversation[i][1] = "user"}
  <2>1. ASSUME Record # None, Named = {}, meta.name = ""
        PROVE  Record.title = FallbackTitle(Or(meta.prompt, meta.spare))
      BY <2>1 DEF Record, Title, Or
  <2>2. IF users = {} THEN events = <<>> => Or(meta.prompt, meta.spare) = ""
        ELSE Or(meta.prompt, meta.spare) = Conversation[Min(users)][2]
      BY FirstShown
  <2>3. /\ Len(Preview) <= PreviewLimit
        /\ Len(Conversation) - Len(Preview) > 0 => Len(Preview) = PreviewLimit
        /\ \A i \in DOMAIN Preview : Preview[i] = Conversation[Len(Conversation) - Len(Preview) + i]
      BY PreviewIsEnding DEF HistoryInv
  <2> QED BY <2>1, <2>2, <2>3 DEF ListedAsShown
<1> QED BY <1>1, <1>2, PTL

-----------------------------------------------------------------------------
(* Lines below others. What the rules look at of a screen is what they would *)
(* look at of the live form alone, below lines that say nothing they hear.   *)

Below(long, short, phrases) ==
    \E n \in Nat :
        /\ Len(long) = n + Len(short)
        /\ \A i \in 1..Len(short) : long[n + i] = short[i]
        /\ \A i \in 1..n : long[i] \cap phrases = {}

LEMMA BelowSays ==
    ASSUME NEW S, NEW long \in Seq(S), NEW short \in Seq(S), NEW phrases, NEW said,
           Below(long, short, phrases)
    PROVE  /\ SaysAny(short, said) => SaysAny(long, said)
           /\ SaysAll(short, said) => SaysAll(long, said)
           /\ said \subseteq phrases => (SaysAny(long, said) => SaysAny(short, said))
           /\ said \subseteq phrases => (SaysAll(long, said) => SaysAll(short, said))
<1>1. PICK n \in Nat :
        /\ Len(long) = n + Len(short)
        /\ \A i \in 1..Len(short) : long[n + i] = short[i]
        /\ \A i \in 1..n : long[i] \cap phrases = {}
    BY DEF Below
<1>2. DOMAIN long = 1..Len(long) /\ DOMAIN short = 1..Len(short)
      /\ Len(long) \in Nat /\ Len(short) \in Nat
    OBVIOUS
<1>3. ASSUME NEW p, Says(short, p) PROVE Says(long, p)
  <2>1. PICK i \in 1..Len(short) : p \in short[i]
      BY <1>2, <1>3 DEF Says
  <2>2. n + i \in 1..Len(long) /\ p \in long[n + i]
      BY <1>1, <1>2, <2>1
  <2> QED BY <1>2, <2>2 DEF Says
<1>4. ASSUME NEW p \in phrases, Says(long, p) PROVE Says(short, p)
  <2>1. PICK i \in 1..Len(long) : p \in long[i]
      BY <1>2, <1>4 DEF Says
  <2>2. ~(i \in 1..n)
      BY <1>1, <2>1
  <2>3. i - n \in 1..Len(short) /\ n + (i - n) = i
      BY <1>1, <1>2, <2>2
  <2> QED BY <1>1, <1>2, <2>1, <2>3 DEF Says
<1> QED BY <1>3, <1>4 DEF SaysAny, SaysAll

LEMMA SaysOne == \A text, p : Says(text, p) <=> SaysAny(text, {p})
    BY DEF SaysAny

LEMMA ScreenBelow ==
    ASSUME NEW S, NEW upper \in Seq(S), NEW lines \in Seq(S), NEW phrases,
           ~SaysAny(upper, phrases)
    PROVE  Below(upper \o lines, lines, phrases)
<1>1. \A i \in 1..Len(upper) : (upper \o lines)[i] = upper[i] /\ upper[i] \cap phrases = {}
    BY DEF SaysAny, Says
<1>2. Len(upper) \in Nat /\ Len(upper \o lines) = Len(upper) + Len(lines)
      /\ \A i \in 1..Len(lines) : (upper \o lines)[Len(upper) + i] = lines[i]
    OBVIOUS
<1> QED BY <1>1, <1>2 DEF Below

\* What follows the last mark: above the live form or in it.
LEMMA AfterBelow ==
    ASSUME NEW S, NEW upper \in Seq(S), NEW lines \in Seq(S), NEW mark, NEW phrases,
           ~SaysAny(upper, After(mark, lines, phrases))
    PROVE  /\ AfterLast(upper \o lines, mark) \in Seq(S)
           /\ AfterLast(lines, mark) \in Seq(S)
           /\ Below(AfterLast(upper \o lines, mark), AfterLast(lines, mark), phrases)
<1> DEFINE screen == upper \o lines
           m == Len(upper)
           n == Len(lines)
           At(text) == {i \in DOMAIN text : mark \in text[i]}
           long == AfterLast(screen, mark)
           short == AfterLast(lines, mark)
<1>1. /\ m \in Nat /\ n \in Nat /\ screen \in Seq(S) /\ Len(screen) = m + n
      /\ DOMAIN lines = 1..n /\ DOMAIN upper = 1..m /\ DOMAIN screen = 1..(m + n)
      /\ \A i \in 1..m : screen[i] = upper[i]
      /\ \A i \in 1..n : screen[m + i] = lines[i]
    OBVIOUS
<1> HIDE DEF screen, m, n
<1>2. CASE Says(lines, mark)
  <2>1. At(lines) # {} /\ At(lines) \in SUBSET (1..n)
      BY <1>1, <1>2 DEF Says
  <2> DEFINE x == Max(At(lines))
  <2>2. x \in 1..n /\ mark \in lines[x] /\ \A y \in At(lines) : y <= x
      BY <1>1, <2>1, GreatestOf
  <2>3. m + x \in At(screen) /\ At(screen) \in SUBSET (1..(m + n)) /\ At(screen) # {}
      BY <1>1, <2>2
  <2> DEFINE z == Max(At(screen))
  <2>4. z \in At(screen) /\ (\A y \in At(screen) : y <= z)
    <3>1. m + n \in Nat
        BY <1>1
    <3> HIDE DEF At
    <3> QED BY <2>3, <3>1, GreatestOf
  <2>5. z = m + x
    <3>1. m + x <= z /\ z \in 1..(m + n) /\ mark \in screen[z] /\ x \in 1..n
        BY <2>2, <2>3, <2>4
    <3> HIDE DEF x, z
    <3>2. z - m \in 1..n /\ z = m + (z - m)
        BY <1>1, <3>1
    <3>3. z - m \in At(lines)
        BY <1>1, <3>1, <3>2
    <3>4. z - m <= x
        BY <2>2, <3>3
    <3> QED BY <1>1, <3>1, <3>2, <3>4
  <2>6. short = SubSeq(lines, x + 1, n) /\ long = SubSeq(screen, m + x + 1, m + n)
      BY <1>1, <2>1, <2>3, <2>5 DEF AfterLast, n
  <2> HIDE DEF x, z, At, long, short
  <2>7. long \in Seq(S) /\ short \in Seq(S)
      BY <1>1, <2>2, <2>6
  <2>8. Len(short) = n - x /\ Len(long) = n - x
      BY <1>1, <2>2, <2>6
  <2>9. \A i \in 1..(n - x) : long[i] = short[i]
    <3> SUFFICES ASSUME NEW i \in 1..(n - x) PROVE long[i] = short[i]
        OBVIOUS
    <3>1. long[i] = screen[(m + x) + i]
        BY <1>1, <2>2, <2>6
    <3>2. short[i] = lines[x + i]
        BY <1>1, <2>2, <2>6
    <3>3. x + i \in 1..n /\ (m + x) + i = m + (x + i)
        BY <1>1, <2>2
    <3> QED BY <1>1, <3>1, <3>2, <3>3
  <2>10. Below(long, short, phrases)
      BY <1>1, <2>2, <2>8, <2>9 DEF Below
  <2> QED BY <2>7, <2>10 DEF long, short, screen
<1>3. CASE ~Says(lines, mark)
  <2>1. At(lines) = {} /\ short = lines
      BY <1>3 DEF Says, AfterLast
  <2>2. \A i \in 1..m : upper[i] \cap phrases = {}
      BY <1>1, <1>3 DEF After, SaysAny, Says
  <2>3. CASE At(screen) = {}
    <3>1. long = screen
        BY <2>3 DEF AfterLast
    <3> QED BY <1>1, <2>1, <2>2, <3>1 DEF Below, screen, n
  <2>4. CASE At(screen) # {}
    <3> DEFINE z == Max(At(screen))
    <3>1. At(screen) \in SUBSET (1..m)
      <4> SUFFICES ASSUME NEW i \in At(screen) PROVE i \in 1..m
          OBVIOUS
      <4>1. i \in 1..(m + n) /\ mark \in screen[i]
          BY <1>1
      <4>2. CASE i > m
        <5>1. i - m \in 1..n /\ i = m + (i - m)
            BY <1>1, <4>1, <4>2
        <5> QED BY <1>1, <2>1, <4>1, <5>1
      <4> QED BY <1>1, <4>1, <4>2
    <3>2. z \in 1..m
        BY <1>1, <2>4, <3>1, GreatestOf
    <3>3. long = SubSeq(screen, z + 1, m + n)
        BY <1>1, <2>4 DEF AfterLast
    <3> HIDE DEF z, At, long, short
    <3>4. long \in Seq(S) /\ Len(long) = (m - z) + n
        BY <1>1, <3>2, <3>3
    <3>5. \A i \in 1..((m - z) + n) : long[i] = screen[z + i]
        BY <1>1, <3>2, <3>3
    <3>6. \A i \in 1..n : long[(m - z) + i] = lines[i]
      <4> SUFFICES ASSUME NEW i \in 1..n PROVE long[(m - z) + i] = lines[i]
          OBVIOUS
      <4>1. (m - z) + i \in 1..((m - z) + n) /\ z + ((m - z) + i) = m + i
          BY <1>1, <3>2
      <4> QED BY <1>1, <3>5, <4>1
    <3>7. \A i \in 1..(m - z) : long[i] \cap phrases = {}
      <4> SUFFICES ASSUME NEW i \in 1..(m - z) PROVE long[i] \cap phrases = {}
          OBVIOUS
      <4>1. i \in 1..((m - z) + n) /\ z + i \in 1..m
          BY <1>1, <3>2
      <4> QED BY <1>1, <2>2, <3>5, <4>1
    <3>8. m - z \in Nat
        BY <1>1, <3>2
    <3>9. Below(long, lines, phrases)
        BY <1>1, <3>4, <3>6, <3>7, <3>8 DEF Below, n
    <3> QED BY <2>1, <3>4, <3>9 DEF long, screen, short
  <2> QED BY <2>3, <2>4
<1> QED BY <1>2, <1>3

-----------------------------------------------------------------------------
(* The last and the first written lines of a screen *)

LEMMA IntervalCount ==
    ASSUME NEW n \in Nat
    PROVE  /\ IsFiniteSet(1..n) /\ Cardinality(1..n) = n
           /\ \A T \in SUBSET (1..n) : IsFiniteSet(T) /\ Cardinality(T) \in Nat /\ Cardinality(T) <= n
<1>1. IsFiniteSet(1..n) /\ Cardinality(1..n) = IF 1 > n THEN 0 ELSE n - 1 + 1
    BY FS_Interval
<1>2. Cardinality(1..n) = n
    BY <1>1
<1> QED BY <1>1, <1>2, FS_Subset, FS_CardinalityType

\* Moving positions keeps their number.
LEMMA ShiftedCount ==
    ASSUME NEW m \in Nat, NEW T \in SUBSET Nat, IsFiniteSet(T)
    PROVE  IsFiniteSet({m + x : x \in T}) /\ Cardinality({m + x : x \in T}) = Cardinality(T)
<1> DEFINE U == {m + x : x \in T}
           f == [x \in T |-> m + x]
<1>1. f \in Surjection(T, U)
    BY DEF Surjection
<1>2. f \in Injection(T, U)
    BY DEF Injection, IsInjective
<1> QED BY <1>1, <1>2, FS_Surjection

\* What Bottom and Top take: the written lines with at most n from there on, or up
\* to there.
LastTaken(text, n) == {i \in Written(text) : Cardinality({j \in Written(text) : j >= i}) <= n}
FirstTaken(text, n) == {i \in Written(text) : Cardinality({j \in Written(text) : j <= i}) <= n}

LEMMA WrittenLines ==
    ASSUME NEW S, NEW text \in Seq(S)
    PROVE  /\ Len(text) \in Nat /\ DOMAIN text = 1..Len(text)
           /\ Written(text) \in SUBSET (1..Len(text)) /\ IsFiniteSet(Written(text))
           /\ \A T \in SUBSET Written(text) : IsFiniteSet(T) /\ Cardinality(T) \in Nat
<1>1. Len(text) \in Nat /\ DOMAIN text = 1..Len(text)
    OBVIOUS
<1>2. Written(text) \in SUBSET (1..Len(text))
    BY <1>1 DEF Written
<1>3. IsFiniteSet(1..Len(text))
    BY <1>1, FS_Interval
<1>4. IsFiniteSet(Written(text))
    BY <1>2, <1>3, FS_Subset
<1>5. \A T \in SUBSET Written(text) : IsFiniteSet(T) /\ Cardinality(T) \in Nat
    BY <1>4, FS_Subset, FS_CardinalityType
<1> QED BY <1>1, <1>2, <1>4, <1>5

LEMMA WrittenBelow ==
    ASSUME NEW S, NEW upper \in Seq(S), NEW lines \in Seq(S), NEW k \in 1..Len(lines)
    PROVE  LET screen == upper \o lines
               m == Len(upper)
           IN  /\ m + k \in Written(screen) <=> k \in Written(lines)
               /\ Cardinality({j \in Written(screen) : j >= m + k}) =
                     Cardinality({j \in Written(lines) : j >= k})
<1> DEFINE screen == upper \o lines
           m == Len(upper)
           n == Len(lines)
           T == {j \in Written(lines) : j >= k}
           U == {j \in Written(screen) : j >= m + k}
<1>1. /\ m \in Nat /\ n \in Nat
      /\ DOMAIN lines = 1..n /\ DOMAIN screen = 1..(m + n)
      /\ \A i \in 1..n : screen[m + i] = lines[i]
    OBVIOUS
<1>2. IsFiniteSet(T) /\ T \in SUBSET Nat
  <2>1. IsFiniteSet(Written(lines)) /\ T \subseteq Written(lines)
      BY WrittenLines
  <2> QED BY <1>1, <2>1, FS_Subset DEF Written
<1> HIDE DEF screen, m, n
<1>3. ASSUME NEW i \in 1..n PROVE m + i \in Written(screen) <=> i \in Written(lines)
  <2>1. m + i \in DOMAIN screen /\ screen[m + i] = lines[i] /\ i \in DOMAIN lines
      BY <1>1
  <2> QED BY <2>1 DEF Written
<1>4. U = {m + x : x \in T}
  <2>1. ASSUME NEW j \in U PROVE \E x \in T : j = m + x
    <3>1. j \in 1..(m + n) /\ j >= m + k /\ j \in Written(screen)
        BY <1>1 DEF Written
    <3>2. j - m \in 1..n /\ j - m >= k /\ j = m + (j - m)
        BY <1>1, <3>1
    <3>3. j - m \in T
        BY <1>3, <3>1, <3>2
    <3> QED BY <3>2, <3>3
  <2>2. ASSUME NEW x \in T PROVE m + x \in U
    <3>1. x \in 1..n /\ x >= k /\ x \in Written(lines)
        BY <1>1 DEF Written
    <3> QED BY <1>1, <1>3, <3>1
  <2> QED BY <2>1, <2>2
<1>5. Cardinality(U) = Cardinality(T)
  <2> HIDE DEF T, U
  <2> QED BY <1>1, <1>2, <1>4, ShiftedCount
<1> QED BY <1>3, <1>5 DEF screen, m, n

LEMMA BottomLines ==
    ASSUME NEW S, NEW text \in Seq(S), NEW n \in Nat, LastTaken(text, n) # {}
    PROVE  LET a == Min(LastTaken(text, n))
           IN  /\ a \in LastTaken(text, n) /\ a \in 1..Len(text)
               /\ \A i \in LastTaken(text, n) : a <= i
               /\ Bottom(text, n) \in Seq(S)
               /\ Len(Bottom(text, n)) = Len(text) + 1 - a
               /\ \A i \in 1..(Len(text) + 1 - a) : Bottom(text, n)[i] = text[(a - 1) + i]
<1> DEFINE a == Min(LastTaken(text, n))
<1>1. LastTaken(text, n) \in SUBSET (1..Len(text)) /\ Len(text) \in Nat
    BY WrittenLines DEF LastTaken
<1>2. LastTaken(text, n) \in SUBSET Nat
    BY <1>1
<1>3. a \in LastTaken(text, n) /\ \A i \in LastTaken(text, n) : a <= i
    BY <1>2, LeastOf
<1>4. Bottom(text, n) = SubSeq(text, a, Len(text))
    BY DEF Bottom, LastTaken
<1>5. a \in 1..Len(text)
    BY <1>1, <1>3
<1> HIDE DEF a
<1>6. /\ Bottom(text, n) \in Seq(S)
      /\ Len(Bottom(text, n)) = Len(text) + 1 - a
      /\ \A i \in 1..(Len(text) + 1 - a) : Bottom(text, n)[i] = text[(a - 1) + i]
    BY <1>1, <1>4, <1>5
<1> QED BY <1>3, <1>5, <1>6 DEF a

\* Something is taken of a text in which something is written: its last line.
LEMMA LastIsTaken ==
    ASSUME NEW S, NEW text \in Seq(S), NEW n \in Nat \ {0}, Written(text) # {}
    PROVE  LastTaken(text, n) # {}
<1> DEFINE W == Written(text)
           x == Max(W)
<1>1. W \in SUBSET (1..Len(text)) /\ Len(text) \in Nat
    BY WrittenLines
<1>2. x \in W /\ \A y \in W : y <= x
    BY <1>1, GreatestOf
<1>3. {j \in W : j >= x} = {x}
    BY <1>1, <1>2
<1>4. Cardinality({x}) = 1
    BY FS_Singleton
<1>5. 1 <= n
    OBVIOUS
<1> HIDE DEF x, W
<1>6. Cardinality({j \in W : j >= x}) <= n
    BY <1>3, <1>4, <1>5
<1> QED BY <1>2, <1>6 DEF LastTaken, W

LEMMA NothingTaken ==
    ASSUME NEW S, NEW text \in Seq(S), NEW n, LastTaken(text, n) = {}
    PROVE  Bottom(text, n) = <<>>
BY DEF Bottom, LastTaken

LEMMA BottomBelow ==
    ASSUME NEW S, NEW upper \in Seq(S), NEW lines \in Seq(S), NEW n \in Nat \ {0}, NEW phrases,
           ~SaysAny(upper, Within(n, lines, phrases))
    PROVE  /\ Bottom(upper \o lines, n) \in Seq(S)
           /\ Bottom(lines, n) \in Seq(S)
           /\ Below(Bottom(upper \o lines, n), Bottom(lines, n), phrases)
<1> DEFINE screen == upper \o lines
           m == Len(upper)
           l == Len(lines)
           long == Bottom(screen, n)
           short == Bottom(lines, n)
           Count(text, i) == Cardinality({j \in Written(text) : j >= i})
<1>1. /\ m \in Nat /\ l \in Nat /\ screen \in Seq(S) /\ Len(screen) = m + l
      /\ DOMAIN lines = 1..l /\ DOMAIN upper = 1..m /\ DOMAIN screen = 1..(m + l)
      /\ \A i \in 1..m : screen[i] = upper[i]
      /\ \A i \in 1..l : screen[m + i] = lines[i]
    OBVIOUS
<1>2. \A k \in 1..l : /\ m + k \in Written(screen) <=> k \in Written(lines)
                      /\ Count(screen, m + k) = Count(lines, k)
    BY WrittenBelow
<1>3. \A text \in Seq(S) : LastTaken(text, n) = {i \in Written(text) : Count(text, i) <= n}
    BY DEF LastTaken
<1> HIDE DEF screen, m, l, long, short, Count
\* A line above that is taken says nothing if it should not.
<1>4. ASSUME NEW q \in 1..m, NEW a \in LastTaken(screen, n), a <= q, screen[q] # {}
      PROVE  screen[q] \cap phrases = {}
  <2>1. Count(screen, q) > Cardinality(Written(lines)) /\ Count(screen, q) \in Nat
        /\ Cardinality(Written(lines)) \in Nat
    <3> DEFINE V == {m + x : x \in Written(lines)}
    <3>1. IsFiniteSet(V) /\ Cardinality(V) = Cardinality(Written(lines))
      <4>1. Written(lines) \in SUBSET Nat /\ IsFiniteSet(Written(lines))
          BY WrittenLines
      <4> QED BY <1>1, <4>1, ShiftedCount
    <3>2. V \subseteq Written(screen) /\ \A y \in V : y > q
      <4> SUFFICES ASSUME NEW x \in Written(lines) PROVE m + x \in Written(screen) /\ m + x > q
          OBVIOUS
      <4>1. x \in 1..l
          BY <1>1 DEF Written
      <4> QED BY <1>1, <1>2, <4>1
    <3>3. q \in Written(screen) /\ q \notin V
      <4>1. q \in DOMAIN screen
          BY <1>1
      <4>2. ~(q > q)
          BY <1>1
      <4> QED BY <1>4, <3>2, <4>1, <4>2 DEF Written
    <3>4. V \cup {q} \subseteq {j \in Written(screen) : j >= q}
      <4>1. \A y \in Written(screen) : y > q => y >= q
          BY <1>1 DEF Written
      <4>2. q >= q
          BY <1>1
      <4> QED BY <3>2, <3>3, <4>1, <4>2
    <3> HIDE DEF V
    <3>5. IsFiniteSet(V \cup {q}) /\ Cardinality(V \cup {q}) = Cardinality(Written(lines)) + 1
        BY <3>1, <3>3, FS_AddElement
    <3>6. IsFiniteSet({j \in Written(screen) : j >= q}) /\ Count(screen, q) \in Nat
        BY <1>1, WrittenLines DEF Count
    <3>7. Cardinality(V \cup {q}) <= Count(screen, q)
        BY <3>4, <3>6, FS_Subset DEF Count
    <3>8. Cardinality(Written(lines)) \in Nat
        BY WrittenLines
    <3> QED BY <3>5, <3>6, <3>7, <3>8
  <2>2. Count(screen, q) <= Count(screen, a) /\ Count(screen, a) \in Nat
    <3>1. {j \in Written(screen) : j >= q} \subseteq {j \in Written(screen) : j >= a}
      <4>1. Written(screen) \subseteq Nat /\ a \in Nat /\ q \in Nat
          BY <1>1, WrittenLines DEF LastTaken
      <4> QED BY <1>4, <4>1
    <3>2. IsFiniteSet({j \in Written(screen) : j >= a}) /\ Count(screen, a) \in Nat
        BY <1>1, WrittenLines DEF Count
    <3> QED BY <3>1, <3>2, FS_Subset DEF Count
  <2>3. Count(screen, a) <= n
      BY <1>1, <1>3
  <2>4. Cardinality(Written(lines)) < n
      BY <2>1, <2>2, <2>3
  <2>5. ~SaysAny(upper, phrases)
      BY <2>4 DEF Within
  <2> QED BY <1>1, <2>5 DEF SaysAny, Says
<1>5. CASE LastTaken(screen, n) = {}
  <2>1. LastTaken(lines, n) = {}
    <3> SUFFICES ASSUME NEW k \in LastTaken(lines, n) PROVE FALSE
        OBVIOUS
    <3>1. k \in 1..l
        BY <1>1 DEF LastTaken, Written
    <3>2. m + k \in LastTaken(screen, n)
        BY <1>1, <1>2, <1>3, <3>1
    <3> QED BY <1>5, <3>2
  <2>2. long = <<>> /\ short = <<>>
      BY <1>1, <1>5, <2>1, NothingTaken DEF long, short
  <2>3. Below(<<>>, <<>>, phrases)
      BY DEF Below
  <2> QED BY <2>2, <2>3 DEF long, short, screen
<1>6. CASE LastTaken(screen, n) # {}
  <2> DEFINE a == Min(LastTaken(screen, n))
  <2>1. /\ a \in LastTaken(screen, n) /\ a \in 1..(m + l) /\ \A i \in LastTaken(screen, n) : a <= i
        /\ long \in Seq(S) /\ Len(long) = m + l + 1 - a
        /\ \A i \in 1..(m + l + 1 - a) : long[i] = screen[(a - 1) + i]
    <3>1. n \in Nat
        OBVIOUS
    <3>2. screen \in Seq(S)
        BY <1>1
    <3>3. /\ a \in LastTaken(screen, n) /\ a \in 1..Len(screen)
          /\ \A i \in LastTaken(screen, n) : a <= i
          /\ Bottom(screen, n) \in Seq(S)
          /\ Len(Bottom(screen, n)) = Len(screen) + 1 - a
          /\ \A i \in 1..(Len(screen) + 1 - a) : Bottom(screen, n)[i] = screen[(a - 1) + i]
        BY <1>6, <3>1, <3>2, BottomLines
    <3> HIDE DEF a
    <3> QED BY <1>1, <3>3 DEF long
  <2> HIDE DEF a
  <2>2. CASE LastTaken(lines, n) = {}
    <3>1. short = <<>> /\ Written(lines) = {}
        BY <2>2, NothingTaken, LastIsTaken DEF short
    <3>2. \A i \in 1..(m + l + 1 - a) : long[i] \cap phrases = {}
      <4> SUFFICES ASSUME NEW i \in 1..(m + l + 1 - a), long[i] # {}
                   PROVE  long[i] \cap phrases = {}
          OBVIOUS
      <4> DEFINE q == (a - 1) + i
      <4>1. q \in 1..(m + l) /\ a <= q /\ long[i] = screen[q]
          BY <1>1, <2>1
      <4> HIDE DEF q
      <4>2. q \in 1..m
        <5>1. CASE q > m
          <6>1. q - m \in 1..l /\ m + (q - m) = q
              BY <1>1, <4>1, <5>1
          <6> QED BY <1>1, <3>1, <4>1, <6>1 DEF Written
        <5> QED BY <1>1, <4>1, <5>1
      <4> QED BY <1>4, <2>1, <4>1, <4>2
    <3>3. Below(long, <<>>, phrases)
        BY <1>1, <2>1, <3>2 DEF Below
    <3> QED BY <2>1, <3>1, <3>3 DEF long, short, screen
  <2>3. CASE LastTaken(lines, n) # {}
    <3> DEFINE b == Min(LastTaken(lines, n))
    <3>1. /\ b \in LastTaken(lines, n) /\ b \in 1..l /\ \A i \in LastTaken(lines, n) : b <= i
          /\ short \in Seq(S) /\ Len(short) = l + 1 - b
          /\ \A i \in 1..(l + 1 - b) : short[i] = lines[(b - 1) + i]
        BY <1>1, <2>3, BottomLines DEF short, l
    <3> HIDE DEF b
    <3>2. m + b \in LastTaken(screen, n)
        BY <1>1, <1>2, <1>3, <3>1
    <3>3. a <= m + b
        BY <2>1, <3>2
    <3> DEFINE d == m + b - a
    <3>4. d \in Nat /\ Len(long) = d + Len(short)
        BY <1>1, <2>1, <3>1, <3>3
    <3>5. \A i \in 1..Len(short) : long[d + i] = short[i]
      <4> SUFFICES ASSUME NEW i \in 1..(l + 1 - b) PROVE long[d + i] = short[i]
          BY <3>1
      <4>1. d + i \in 1..(m + l + 1 - a) /\ (a - 1) + (d + i) = m + ((b - 1) + i)
            /\ (b - 1) + i \in 1..l
          BY <1>1, <2>1, <3>1, <3>3
      <4> HIDE DEF d
      <4>2. long[d + i] = screen[m + ((b - 1) + i)]
          BY <2>1, <4>1
      <4> QED BY <1>1, <3>1, <4>1, <4>2
    <3>6. \A i \in 1..d : long[i] \cap phrases = {}
      <4> SUFFICES ASSUME NEW i \in 1..d, long[i] # {}
                   PROVE  long[i] \cap phrases = {}
          OBVIOUS
      <4> DEFINE q == (a - 1) + i
      <4>1. q \in 1..(m + l) /\ a <= q /\ q < m + b /\ i \in 1..(m + l + 1 - a)
          BY <1>1, <2>1, <3>1, <3>3
      <4>2. long[i] = screen[q]
          BY <2>1, <4>1
      <4> HIDE DEF q, d
      <4>3. q \in 1..m
        <5>1. CASE q > m
          <6> DEFINE k == q - m
          <6>1. k \in 1..l /\ m + k = q /\ k < b
              BY <1>1, <3>1, <4>1, <5>1
          <6> HIDE DEF k
          <6>2. q \in Written(screen)
              BY <1>1, <4>1, <4>2 DEF Written
          <6>3. Count(screen, q) <= Count(screen, a) /\ Count(screen, a) <= n
                /\ Count(screen, q) \in Nat /\ Count(screen, a) \in Nat
            <7>1. {j \in Written(screen) : j >= q} \subseteq {j \in Written(screen) : j >= a}
              <8>1. Written(screen) \subseteq Nat /\ a \in Nat /\ q \in Nat
                  BY <1>1, <2>1, <4>1, WrittenLines
              <8> QED BY <4>1, <8>1
            <7>2. IsFiniteSet({j \in Written(screen) : j >= a}) /\ Count(screen, a) \in Nat
                /\ Count(screen, q) \in Nat
                BY <1>1, WrittenLines DEF Count
            <7>3. Count(screen, q) <= Count(screen, a)
                BY <7>1, <7>2, FS_Subset DEF Count
            <7> QED BY <1>1, <1>3, <2>1, <7>2, <7>3
          <6>4. k \in LastTaken(lines, n)
              BY <1>2, <1>3, <6>1, <6>2, <6>3
          <6>5. b <= k
              BY <3>1, <6>4
          <6> QED BY <3>1, <6>1, <6>5
        <5> QED BY <1>1, <4>1, <5>1
      <4> QED BY <1>4, <2>1, <4>1, <4>2, <4>3
    <3> HIDE DEF d
    <3>7. Below(long, short, phrases)
        BY <3>4, <3>5, <3>6 DEF Below
    <3> QED BY <2>1, <3>1, <3>7 DEF long, short, screen
  <2> QED BY <2>2, <2>3
<1> QED BY <1>5, <1>6

LEMMA TopLines ==
    ASSUME NEW S, NEW text \in Seq(S), NEW n, NEW p
    PROVE  Says(Top(text, n), p) <=> \E i \in DOMAIN text, a \in FirstTaken(text, n) : i <= a /\ p \in text[i]
<1>1. /\ Len(text) \in Nat /\ DOMAIN text = 1..Len(text)
      /\ FirstTaken(text, n) \in SUBSET (1..Len(text))
    BY WrittenLines DEF FirstTaken
<1>2. CASE FirstTaken(text, n) = {}
  <2>1. Top(text, n) = <<>>
      BY <1>2 DEF Top, FirstTaken
  <2> QED BY <1>2, <2>1 DEF Says
<1>3. CASE FirstTaken(text, n) # {}
  <2> DEFINE z == Max(FirstTaken(text, n))
  <2>1. z \in FirstTaken(text, n) /\ \A y \in FirstTaken(text, n) : y <= z
      BY <1>1, <1>3, GreatestOf
  <2>2. Top(text, n) = SubSeq(text, 1, z) /\ z \in 1..Len(text)
      BY <1>1, <1>3, <2>1 DEF Top, FirstTaken
  <2> HIDE DEF z
  <2>3. DOMAIN Top(text, n) = 1..z /\ \A i \in 1..z : Top(text, n)[i] = text[i]
      BY <1>1, <2>2
  <2>4. ASSUME NEW i \in DOMAIN text, NEW a \in FirstTaken(text, n), i <= a PROVE i \in 1..z
    <3>1. a <= z /\ a \in Nat /\ i \in 1..Len(text) /\ z \in Nat
        BY <1>1, <2>1, <2>2
    <3> QED BY <2>4, <3>1
  <2>5. \A i \in 1..z : i \in DOMAIN text /\ i <= z
      BY <1>1, <2>2
  <2> QED BY <2>1, <2>3, <2>4, <2>5 DEF Says
<1> QED BY <1>2, <1>3

LEMMA TopOfAll ==
    ASSUME NEW S, NEW text \in Seq(S), NEW n \in Nat, Len(text) <= n, NEW p, Says(text, p)
    PROVE  Says(Top(text, n), p)
<1>1. PICK i \in DOMAIN text : p \in text[i]
    BY DEF Says
<1>2. Len(text) \in Nat /\ DOMAIN text = 1..Len(text)
    OBVIOUS
<1>3. i \in Written(text) /\ i <= i
    BY <1>1, <1>2 DEF Written
<1>4. Cardinality({j \in Written(text) : j <= i}) <= n
  <2>1. {j \in Written(text) : j <= i} \subseteq 1..Len(text)
      BY <1>2 DEF Written
  <2>2. Cardinality({j \in Written(text) : j <= i}) <= Len(text)
        /\ Cardinality({j \in Written(text) : j <= i}) \in Nat
      BY <1>2, <2>1, IntervalCount
  <2> QED BY <1>2, <2>2
<1> QED BY <1>1, <1>3, <1>4, TopLines DEF FirstTaken

LEMMA TopBelow ==
    ASSUME NEW S, NEW upper \in Seq(S), NEW lines \in Seq(S), NEW n \in Nat, NEW p,
           ~Says(upper, p), Says(Top(upper \o lines, n), p)
    PROVE  Says(Top(lines, n), p)
<1> DEFINE screen == upper \o lines
           m == Len(upper)
           l == Len(lines)
<1>1. /\ m \in Nat /\ l \in Nat /\ screen \in Seq(S) /\ Len(screen) = m + l
      /\ DOMAIN lines = 1..l /\ DOMAIN upper = 1..m /\ DOMAIN screen = 1..(m + l)
      /\ \A i \in 1..m : screen[i] = upper[i]
      /\ \A i \in 1..l : screen[m + i] = lines[i]
    OBVIOUS
<1> HIDE DEF m, l
<1>2. PICK i \in DOMAIN screen, a \in FirstTaken(screen, n) : i <= a /\ p \in screen[i]
    BY <1>1, TopLines
<1>3. \A k \in 1..l : m + k \in Written(screen) <=> k \in Written(lines)
    BY WrittenBelow DEF m, l
<1> HIDE DEF screen
<1>4. ~(i \in 1..m)
    BY <1>1, <1>2 DEF Says
<1> DEFINE k == i - m
<1>5. k \in 1..l /\ m + k = i /\ p \in lines[k]
    BY <1>1, <1>2, <1>4
<1> HIDE DEF k
<1> DEFINE T == {j \in Written(lines) : j <= k}
           V == {j \in Written(screen) : j <= a}
<1>6. T \in SUBSET Nat /\ IsFiniteSet(T)
    BY WrittenLines
<1>7. {m + x : x \in T} \subseteq V
  <2> SUFFICES ASSUME NEW x \in T PROVE m + x \in V
      OBVIOUS
  <2>1. x \in 1..l /\ x <= k /\ a \in Nat
      BY <1>1, <1>2, WrittenLines DEF Written, FirstTaken
  <2>2. m + x <= a
      BY <1>1, <1>2, <1>5, <2>1
  <2> QED BY <1>3, <2>1, <2>2
<1>8. IsFiniteSet(V) /\ Cardinality(V) \in Nat /\ Cardinality(V) <= n
    BY <1>1, <1>2, WrittenLines DEF FirstTaken
<1> HIDE DEF T, V
<1>9. Cardinality(T) <= Cardinality(V) /\ Cardinality(T) \in Nat
  <2>1. Cardinality({m + x : x \in T}) = Cardinality(T)
      BY <1>1, <1>6, ShiftedCount
  <2>2. Cardinality({m + x : x \in T}) <= Cardinality(V)
      BY <1>7, <1>8, FS_Subset
  <2> QED BY <1>6, <2>1, <2>2, FS_CardinalityType
<1>10. Cardinality(T) <= n
    BY <1>8, <1>9
<1>11. k \in FirstTaken(lines, n) /\ k <= k
    BY <1>1, <1>5, <1>10 DEF FirstTaken, Written, T
<1> QED BY <1>1, <1>5, <1>11, TopLines

-----------------------------------------------------------------------------
(* The prompt box *)

RulesAfter(text, i) == {j \in i + 1..Len(text) : "rule" \in text[j]}

LEMMA BoxBelow ==
    ASSUME NEW S, NEW upper \in Seq(S), NEW lines \in Seq(S), ~SaysAny(upper, Borders(lines))
    PROVE  BoxTop(upper \o lines) = {Len(upper) + i : i \in BoxTop(lines)}
<1> DEFINE screen == upper \o lines
           m == Len(upper)
           l == Len(lines)
<1>1. /\ m \in Nat /\ l \in Nat /\ screen \in Seq(S) /\ Len(screen) = m + l
      /\ DOMAIN lines = 1..l /\ DOMAIN upper = 1..m /\ DOMAIN screen = 1..(m + l)
      /\ \A i \in 1..m : screen[i] = upper[i]
      /\ \A i \in 1..l : screen[m + i] = lines[i]
    OBVIOUS
<1>2. \A text : BoxTop(text) = {i \in DOMAIN text : "rule" \in text[i]
                                    /\ Cardinality(RulesAfter(text, i)) = 1}
    BY DEF BoxTop, RulesAfter
<1> HIDE DEF screen, m, l
<1>3. ASSUME NEW k \in 0..l
      PROVE  /\ RulesAfter(screen, m + k) = {m + x : x \in RulesAfter(lines, k)}
             /\ IsFiniteSet(RulesAfter(lines, k)) /\ RulesAfter(lines, k) \in SUBSET Nat
             /\ Cardinality(RulesAfter(screen, m + k)) = Cardinality(RulesAfter(lines, k))
  <2>1. ASSUME NEW j \in RulesAfter(screen, m + k)
        PROVE  j - m \in RulesAfter(lines, k) /\ j = m + (j - m)
    <3>1. j \in m + k + 1..m + l /\ "rule" \in screen[j]
        BY <1>1 DEF RulesAfter
    <3>2. j - m \in k + 1..l /\ j - m \in 1..l /\ j = m + (j - m)
        BY <1>1, <3>1
    <3> QED BY <1>1, <3>1, <3>2 DEF RulesAfter, l
  <2>2. ASSUME NEW x \in RulesAfter(lines, k) PROVE m + x \in RulesAfter(screen, m + k)
    <3>1. x \in k + 1..l /\ x \in 1..l /\ "rule" \in lines[x]
        BY <1>1 DEF RulesAfter, l
    <3>2. m + x \in m + k + 1..m + l
        BY <1>1, <3>1
    <3> QED BY <1>1, <3>1, <3>2 DEF RulesAfter
  <2>3. RulesAfter(lines, k) \subseteq 1..l
      BY <1>1 DEF RulesAfter, l
  <2>4. IsFiniteSet(RulesAfter(lines, k)) /\ RulesAfter(lines, k) \in SUBSET Nat
      BY <1>1, <2>3, IntervalCount
  <2>5. RulesAfter(screen, m + k) = {m + x : x \in RulesAfter(lines, k)}
      BY <2>1, <2>2
  <2> QED BY <1>1, <2>4, <2>5, ShiftedCount
<1>4. ASSUME NEW k \in 1..l PROVE m + k \in BoxTop(screen) <=> k \in BoxTop(lines)
  <2>1. m + k \in DOMAIN screen /\ k \in DOMAIN lines /\ screen[m + k] = lines[k] /\ k \in 0..l
      BY <1>1
  <2> QED BY <1>2, <1>3, <2>1
<1>5. ASSUME NEW i \in 1..m PROVE i \notin BoxTop(screen)
  <2>1. CASE "rule" \notin screen[i]
      BY <1>2, <2>1
  <2>2. CASE "rule" \in screen[i]
    <3> DEFINE R == {j \in DOMAIN lines : "rule" \in lines[j]}
    <3>1. ~(Cardinality(R) < 2)
        BY <1>1, <2>2 DEF Borders, SaysAny, Says
    <3>2. R = RulesAfter(lines, 0)
        BY <1>1 DEF RulesAfter, l
    <3>3. 0 \in 0..l /\ m + 0 = m
        BY <1>1
    <3>4. IsFiniteSet(R) /\ R \in SUBSET Nat /\ RulesAfter(screen, m) = {m + x : x \in R}
          /\ Cardinality(RulesAfter(screen, m)) = Cardinality(R)
        BY <1>3, <3>2, <3>3
    <3>5. RulesAfter(screen, m) \subseteq RulesAfter(screen, i)
      <4>1. \A j \in m + 1..m + l : j \in i + 1..m + l
          BY <1>1
      <4> QED BY <1>1, <4>1 DEF RulesAfter
    <3>6. IsFiniteSet(RulesAfter(screen, i))
      <4>1. RulesAfter(screen, i) \subseteq 1..(m + l) /\ m + l \in Nat
          BY <1>1 DEF RulesAfter
      <4> QED BY <4>1, IntervalCount
    <3> HIDE DEF R
    <3>7. Cardinality(R) \in Nat /\ Cardinality(R) <= Cardinality(RulesAfter(screen, i))
        BY <3>4, <3>5, <3>6, FS_Subset, FS_CardinalityType
    <3>8. Cardinality(RulesAfter(screen, i)) # 1
        BY <3>1, <3>7
    <3> QED BY <1>2, <3>8
  <2> QED BY <2>1, <2>2
<1>6. ASSUME NEW i \in BoxTop(screen) PROVE \E k \in BoxTop(lines) : i = m + k
  <2>1. i \in 1..(m + l) /\ ~(i \in 1..m)
      BY <1>1, <1>2, <1>5
  <2>2. i - m \in 1..l /\ i = m + (i - m)
      BY <1>1, <2>1
  <2> QED BY <1>4, <2>2
<1>7. \A k \in BoxTop(lines) : k \in 1..l
    BY <1>1, <1>2
<1> QED BY <1>4, <1>6, <1>7 DEF screen, m

\* PromptBoxBody and LastAbovePromptBox, line by line.
LEMMA BodyLines ==
    ASSUME NEW text, NEW line
    PROVE  line \in PromptBoxBody(text) <=>
              \E top \in BoxTop(text) : \E j \in top + 1..Len(text) :
                  line = text[j] /\ \A i \in top + 1..j : "rule" \notin text[i]
BY DEF PromptBoxBody

BlankFrom(text, a, b) == \A i \in a..b : text[i] = {}

LEMMA AboveBoxLines ==
    ASSUME NEW text, NEW line
    PROVE  line \in LastAbovePromptBox(text) <=>
              \E top \in BoxTop(text) : \E j \in Written(text) :
                  line = text[j] /\ j < top /\ BlankFrom(text, j + 1, top - 1)
BY DEF LastAbovePromptBox, BlankFrom

LEMMA BodyBelow ==
    ASSUME NEW S, NEW upper \in Seq(S), NEW lines \in Seq(S), ~SaysAny(upper, Borders(lines))
    PROVE  PromptBoxBody(upper \o lines) = PromptBoxBody(lines)
<1> DEFINE screen == upper \o lines
           m == Len(upper)
           l == Len(lines)
<1>1. /\ m \in Nat /\ l \in Nat /\ screen \in Seq(S) /\ Len(screen) = m + l
      /\ \A i \in 1..l : screen[m + i] = lines[i]
    OBVIOUS
<1>2. BoxTop(screen) = {m + i : i \in BoxTop(lines)} /\ BoxTop(lines) \subseteq 1..l
  <2>1. BoxTop(screen) = {m + i : i \in BoxTop(lines)}
      BY BoxBelow
  <2>2. BoxTop(lines) \subseteq DOMAIN lines /\ DOMAIN lines = 1..l
      BY DEF BoxTop
  <2> QED BY <2>1, <2>2
<1> HIDE DEF screen, m, l
<1>3. ASSUME NEW line, NEW top \in BoxTop(lines), NEW j \in top + 1..l,
             line = lines[j], \A i \in top + 1..j : "rule" \notin lines[i]
      PROVE  line \in PromptBoxBody(screen)
  <2>1. m + j \in (m + top) + 1..m + l /\ line = screen[m + j]
      BY <1>1, <1>2, <1>3
  <2>2. ASSUME NEW i \in (m + top) + 1..m + j PROVE "rule" \notin screen[i]
    <3>1. i - m \in top + 1..j /\ i - m \in 1..l /\ m + (i - m) = i
        BY <1>1, <1>2, <2>1
    <3> QED BY <1>1, <1>3, <3>1
  <2>3. m + top \in BoxTop(screen)
      BY <1>2
  <2> QED BY <1>1, <2>1, <2>2, <2>3, BodyLines
<1>4. ASSUME NEW line, NEW top \in BoxTop(lines), NEW j \in (m + top) + 1..m + l,
             line = screen[j], \A i \in (m + top) + 1..j : "rule" \notin screen[i]
      PROVE  line \in PromptBoxBody(lines)
  <2>1. j - m \in top + 1..l /\ j - m \in 1..l /\ m + (j - m) = j
      BY <1>1, <1>2
  <2>2. ASSUME NEW i \in top + 1..j - m PROVE "rule" \notin lines[i]
    <3>1. m + i \in (m + top) + 1..j /\ i \in 1..l
        BY <1>1, <1>2, <2>1
    <3> QED BY <1>1, <1>4, <3>1
  <2> QED BY <1>1, <1>4, <2>1, <2>2, BodyLines DEF l
<1>5. ASSUME NEW line \in PromptBoxBody(lines) PROVE line \in PromptBoxBody(screen)
    BY <1>3, BodyLines DEF l
<1>6. ASSUME NEW line \in PromptBoxBody(screen) PROVE line \in PromptBoxBody(lines)
  <2>1. PICK t \in BoxTop(screen) : \E j \in t + 1..m + l :
           line = screen[j] /\ \A i \in t + 1..j : "rule" \notin screen[i]
      BY <1>1, BodyLines
  <2>2. PICK top \in BoxTop(lines) : t = m + top
      BY <1>2
  <2>3. \E j \in (m + top) + 1..m + l :
           line = screen[j] /\ \A i \in (m + top) + 1..j : "rule" \notin screen[i]
      BY <2>1, <2>2
  <2> QED BY <1>4, <2>3
<1> QED BY <1>5, <1>6 DEF screen

LEMMA AboveBoxBelow ==
    ASSUME NEW S, NEW upper \in Seq(S), NEW lines \in Seq(S), ~SaysAny(upper, Borders(lines)), NEW p
    PROVE  /\ (\E line \in LastAbovePromptBox(lines) : p \in line)
                => \E line \in LastAbovePromptBox(upper \o lines) : p \in line
           /\ ~Says(upper, p) /\ (\E line \in LastAbovePromptBox(upper \o lines) : p \in line)
                => \E line \in LastAbovePromptBox(lines) : p \in line
<1> DEFINE screen == upper \o lines
           m == Len(upper)
           l == Len(lines)
<1>1. /\ m \in Nat /\ l \in Nat /\ screen \in Seq(S) /\ Len(screen) = m + l
      /\ DOMAIN lines = 1..l /\ DOMAIN upper = 1..m /\ DOMAIN screen = 1..(m + l)
      /\ \A i \in 1..m : screen[i] = upper[i]
      /\ \A i \in 1..l : screen[m + i] = lines[i]
    OBVIOUS
<1>2. BoxTop(screen) = {m + i : i \in BoxTop(lines)} /\ BoxTop(lines) \subseteq 1..l
  <2>1. BoxTop(screen) = {m + i : i \in BoxTop(lines)}
      BY BoxBelow
  <2>2. BoxTop(lines) \subseteq DOMAIN lines
      BY DEF BoxTop
  <2> QED BY <1>1, <2>1, <2>2
<1>3. \A k \in 1..l : m + k \in Written(screen) <=> k \in Written(lines)
    BY WrittenBelow
<1> HIDE DEF screen, m, l
<1>4. ASSUME NEW top \in BoxTop(lines), NEW j \in Written(lines), p \in lines[j],
             j < top, BlankFrom(lines, j + 1, top - 1)
      PROVE  \E line \in LastAbovePromptBox(screen) : p \in line
  <2>1. j \in 1..l /\ m + j \in Written(screen) /\ p \in screen[m + j] /\ m + j < m + top
        /\ m + top \in BoxTop(screen)
      BY <1>1, <1>2, <1>3, <1>4 DEF Written
  <2>2. BlankFrom(screen, m + j + 1, (m + top) - 1)
    <3> SUFFICES ASSUME NEW i \in m + j + 1..(m + top) - 1 PROVE screen[i] = {}
        BY DEF BlankFrom
    <3>1. i - m \in j + 1..top - 1 /\ i - m \in 1..l /\ m + (i - m) = i
        BY <1>1, <1>2, <2>1
    <3> QED BY <1>1, <1>4, <3>1 DEF BlankFrom
  <2>3. \E t \in BoxTop(screen) : \E x \in Written(screen) :
           screen[m + j] = screen[x] /\ x < t /\ BlankFrom(screen, x + 1, t - 1)
    <3> DEFINE x == m + j
               t == m + top
    <3>1. x \in Written(screen) /\ x < t /\ t \in BoxTop(screen)
        BY <2>1
    <3>2. BlankFrom(screen, x + 1, t - 1)
        BY <2>2
    <3>3. screen[m + j] = screen[x]
        OBVIOUS
    <3> HIDE DEF x, t
    <3> QED BY <3>1, <3>2, <3>3
  <2>4. screen[m + j] \in LastAbovePromptBox(screen)
      BY <2>3, AboveBoxLines
  <2> QED BY <2>1, <2>4
<1>5. ASSUME ~Says(upper, p), NEW top \in BoxTop(lines), NEW j \in Written(screen), p \in screen[j],
             j < m + top, BlankFrom(screen, j + 1, (m + top) - 1)
      PROVE  \E line \in LastAbovePromptBox(lines) : p \in line
  <2>1. ~(j \in 1..m) /\ j \in 1..(m + l)
      BY <1>1, <1>5 DEF Says, Written
  <2> DEFINE k == j - m
  <2>2. k \in 1..l /\ m + k = j /\ k < top
      BY <1>1, <1>2, <1>5, <2>1
  <2> HIDE DEF k
  <2>3. k \in Written(lines) /\ p \in lines[k]
      BY <1>1, <1>3, <1>5, <2>2
  <2>4. BlankFrom(lines, k + 1, top - 1)
    <3> SUFFICES ASSUME NEW i \in k + 1..top - 1 PROVE lines[i] = {}
        BY DEF BlankFrom
    <3>1. m + i \in j + 1..(m + top) - 1 /\ i \in 1..l
        BY <1>1, <1>2, <2>2
    <3> QED BY <1>1, <1>5, <3>1 DEF BlankFrom
  <2>5. lines[k] \in LastAbovePromptBox(lines)
      BY <2>2, <2>3, <2>4, AboveBoxLines
  <2> QED BY <2>3, <2>5
<1>6. ASSUME NEW line \in LastAbovePromptBox(lines), p \in line
      PROVE  \E x \in LastAbovePromptBox(screen) : p \in x
    BY <1>4, <1>6, AboveBoxLines
<1>7. ASSUME ~Says(upper, p), NEW line \in LastAbovePromptBox(screen), p \in line
      PROVE  \E x \in LastAbovePromptBox(lines) : p \in x
  <2>1. PICK t \in BoxTop(screen), j \in Written(screen) :
           line = screen[j] /\ j < t /\ BlankFrom(screen, j + 1, t - 1)
      BY <1>7, AboveBoxLines
  <2>2. PICK top \in BoxTop(lines) : t = m + top
      BY <1>2
  <2>3. p \in screen[j] /\ j < m + top /\ BlankFrom(screen, j + 1, (m + top) - 1)
    <3>1. t - 1 = (m + top) - 1 /\ t \in Nat
        BY <1>1, <1>2, <2>2
    <3> QED BY <1>7, <2>1, <2>2, <3>1
  <2> QED BY <1>5, <1>7, <2>3
<1> QED BY <1>6, <1>7 DEF screen

-----------------------------------------------------------------------------
(* What is said of a screen and of the live form *)

\* What the part a rule looks at says for a live form, it says for the screen; and
\* the reverse, of phrases that the lines above do not say where they matter.
Keeps(long, short) ==
    \A said : /\ SaysAny(short, said) => SaysAny(long, said)
              /\ SaysAll(short, said) => SaysAll(long, said)
Returns(long, short, phrases) ==
    \A said \in SUBSET phrases : /\ SaysAny(long, said) => SaysAny(short, said)
                                 /\ SaysAll(long, said) => SaysAll(short, said)

LEMMA NothingSaid == \A text : ~SaysAny(text, {})
    BY DEF SaysAny

LEMMA ScreenSays ==
    ASSUME NEW S, NEW upper \in Seq(S), NEW lines \in Seq(S), NEW phrases
    PROVE  /\ Keeps(upper \o lines, lines)
           /\ ~SaysAny(upper, phrases) => Returns(upper \o lines, lines, phrases)
<1>1. upper \o lines \in Seq(S)
    OBVIOUS
<1>2. Below(upper \o lines, lines, {})
    BY NothingSaid, ScreenBelow
<1>3. ~SaysAny(upper, phrases) => Below(upper \o lines, lines, phrases)
    BY ScreenBelow
<1> QED BY <1>1, <1>2, <1>3, BelowSays DEF Keeps, Returns

LEMMA AfterSays ==
    ASSUME NEW S, NEW upper \in Seq(S), NEW lines \in Seq(S), NEW mark, NEW phrases
    PROVE  /\ Keeps(AfterLast(upper \o lines, mark), AfterLast(lines, mark))
           /\ ~SaysAny(upper, After(mark, lines, phrases))
                 => Returns(AfterLast(upper \o lines, mark), AfterLast(lines, mark), phrases)
<1> DEFINE long == AfterLast(upper \o lines, mark)
           short == AfterLast(lines, mark)
<1>1. ~SaysAny(upper, After(mark, lines, {}))
    BY NothingSaid DEF After
<1>2. long \in Seq(S) /\ short \in Seq(S) /\ Below(long, short, {})
    BY <1>1, AfterBelow
<1>3. ~SaysAny(upper, After(mark, lines, phrases)) => Below(long, short, phrases)
    BY AfterBelow
<1> HIDE DEF long, short
<1> QED BY <1>2, <1>3, BelowSays DEF Keeps, Returns, long, short

LEMMA BottomSays ==
    ASSUME NEW S, NEW upper \in Seq(S), NEW lines \in Seq(S), NEW n \in Nat \ {0}, NEW phrases
    PROVE  /\ Keeps(Bottom(upper \o lines, n), Bottom(lines, n))
           /\ ~SaysAny(upper, Within(n, lines, phrases))
                 => Returns(Bottom(upper \o lines, n), Bottom(lines, n), phrases)
<1> DEFINE long == Bottom(upper \o lines, n)
           short == Bottom(lines, n)
<1>1. ~SaysAny(upper, Within(n, lines, {}))
    BY NothingSaid DEF Within
<1>2. long \in Seq(S) /\ short \in Seq(S) /\ Below(long, short, {})
    BY <1>1, BottomBelow
<1>3. ~SaysAny(upper, Within(n, lines, phrases)) => Below(long, short, phrases)
    BY BottomBelow
<1> HIDE DEF long, short
<1> QED BY <1>2, <1>3, BelowSays DEF Keeps, Returns, long, short

\* A phrase alone is a set of one.
LEMMA SaysPhrase ==
    ASSUME NEW long, NEW short, NEW phrases, NEW p
    PROVE  /\ Keeps(long, short) /\ Says(short, p) => Says(long, p)
           /\ Returns(long, short, phrases) /\ p \in phrases /\ Says(long, p) => Says(short, p)
<1>1. {p} \subseteq phrases <=> p \in phrases
    OBVIOUS
<1> QED BY <1>1, SaysOne DEF Keeps, Returns

LEMMA QuietPart ==
    ASSUME NEW upper, NEW more, ~SaysAny(upper, more)
    PROVE  \A phrases : phrases \subseteq more => ~SaysAny(upper, phrases)
BY DEF SaysAny

\* The lines after a mark are lines of the text.
LEMMA AfterWithin ==
    ASSUME NEW S, NEW text \in Seq(S), NEW mark, NEW phrases, SaysAny(AfterLast(text, mark), phrases)
    PROVE  SaysAny(text, phrases)
<1> DEFINE At == {i \in DOMAIN text : mark \in text[i]}
           short == AfterLast(text, mark)
<1>1. Len(text) \in Nat /\ DOMAIN text = 1..Len(text) /\ At \in SUBSET (1..Len(text))
    OBVIOUS
<1>2. CASE At = {}
    BY <1>2 DEF AfterLast
<1>3. CASE At # {}
  <2> DEFINE z == Max(At)
  <2>1. z \in 1..Len(text)
      BY <1>1, <1>3, GreatestOf
  <2>2. short = SubSeq(text, z + 1, Len(text))
      BY <1>3 DEF AfterLast
  <2> HIDE DEF z, short
  <2>3. DOMAIN short = 1..(Len(text) - z) /\ \A i \in DOMAIN short : short[i] = text[z + i]
      BY <1>1, <2>1, <2>2
  <2>4. \A i \in DOMAIN short : z + i \in DOMAIN text
      BY <1>1, <2>1, <2>3
  <2>5. SaysAny(short, phrases)
      BY DEF short
  <2> QED BY <2>3, <2>4, <2>5 DEF SaysAny, Says
<1> QED BY <1>2, <1>3

LEMMA WeakKeeps ==
    ASSUME NEW long, NEW short, Keeps(long, short), WeakBlocker(short)
    PROVE  WeakBlocker(long)
BY DEF WeakBlocker, Keeps

LEMMA WeakReturns ==
    ASSUME NEW long, NEW short, NEW lines, NEW phrases,
           WeakPhrases(lines) \subseteq phrases, Returns(long, short, phrases),
           SaysAny(short, Questions) => SaysAny(lines, Questions),
           WeakBlocker(long)
    PROVE  WeakBlocker(short)
<1>1. {"[y/n]", "yes (y)"} \subseteq phrases /\ Questions \subseteq phrases
    BY DEF WeakPhrases
<1>2. CASE SaysAny(long, {"[y/n]", "yes (y)"})
    BY <1>1, <1>2 DEF Returns, WeakBlocker
<1>3. CASE SaysAny(long, Questions) /\ SaysAny(long, {"yes", "sign"})
  <2>1. SaysAny(short, Questions)
      BY <1>1, <1>3 DEF Returns
  <2>2. {"yes", "sign"} \subseteq phrases
      BY <2>1 DEF WeakPhrases, With
  <2>3. SaysAny(short, {"yes", "sign"})
      BY <1>3, <2>2 DEF Returns
  <2> QED BY <2>1, <2>3 DEF WeakBlocker, Questions
<1> QED BY <1>2, <1>3 DEF WeakBlocker, Questions

LEMMA McpTaskBelow ==
    ASSUME NEW S, NEW long \in Seq(S), NEW short \in Seq(S), NEW phrases, Below(long, short, phrases)
    PROVE  /\ (\E start \in DOMAIN short : McpTaskStatusAt(short, start))
                => \E start \in DOMAIN long : McpTaskStatusAt(long, start)
           /\ "status" \in phrases /\ (\E start \in DOMAIN long : McpTaskStatusAt(long, start))
                => \E start \in DOMAIN short : McpTaskStatusAt(short, start)
<1>1. PICK n \in Nat :
        /\ Len(long) = n + Len(short)
        /\ \A i \in 1..Len(short) : long[n + i] = short[i]
        /\ \A i \in 1..n : long[i] \cap phrases = {}
    BY DEF Below
<1>2. DOMAIN long = 1..Len(long) /\ DOMAIN short = 1..Len(short)
      /\ Len(long) \in Nat /\ Len(short) \in Nat
    OBVIOUS
<1>3. ASSUME NEW s \in 1..Len(short), McpTaskStatusAt(short, s)
      PROVE  McpTaskStatusAt(long, n + s)
  <2>1. PICK e \in s..Len(short) : /\ e <= s + 3 /\ "counted" \in short[e]
                                   /\ \A i \in s + 1..e : "indented" \in short[i]
      BY <1>3 DEF McpTaskStatusAt
  <2>2. n + e \in n + s..Len(long) /\ n + e <= n + s + 3 /\ e \in 1..Len(short)
      BY <1>1, <1>2, <2>1
  <2>3. ASSUME NEW i \in n + s + 1..n + e PROVE "indented" \in long[i]
    <3>1. i - n \in s + 1..e /\ i - n \in 1..Len(short) /\ n + (i - n) = i
        BY <1>1, <1>2, <2>1
    <3> QED BY <1>1, <2>1, <3>1
  <2> QED BY <1>1, <1>3, <2>1, <2>2, <2>3 DEF McpTaskStatusAt
<1>4. ASSUME NEW t \in 1..Len(long), McpTaskStatusAt(long, t), "status" \in phrases
      PROVE  \E s \in 1..Len(short) : McpTaskStatusAt(short, s)
  <2>1. ~(t \in 1..n)
      BY <1>1, <1>4 DEF McpTaskStatusAt
  <2> DEFINE s == t - n
  <2>2. s \in 1..Len(short) /\ n + s = t
      BY <1>1, <1>2, <2>1
  <2> HIDE DEF s
  <2>3. PICK e \in t..Len(long) : /\ e <= t + 3 /\ "counted" \in long[e]
                                  /\ \A i \in t + 1..e : "indented" \in long[i]
      BY <1>4 DEF McpTaskStatusAt
  <2> DEFINE f == e - n
  <2>4. f \in s..Len(short) /\ f <= s + 3 /\ f \in 1..Len(short) /\ n + f = e
      BY <1>1, <1>2, <2>2, <2>3
  <2> HIDE DEF f
  <2>5. ASSUME NEW i \in s + 1..f PROVE "indented" \in short[i]
    <3>1. n + i \in t + 1..e /\ i \in 1..Len(short)
        BY <1>1, <1>2, <2>2, <2>4
    <3> QED BY <1>1, <2>3, <3>1
  <2>6. "status" \in short[s] /\ "counted" \in short[f]
      BY <1>1, <1>4, <2>2, <2>3, <2>4 DEF McpTaskStatusAt
  <2> QED BY <2>2, <2>4, <2>5, <2>6 DEF McpTaskStatusAt
<1> QED
  <2>1. \A s \in 1..Len(short) : n + s \in 1..Len(long)
      BY <1>1, <1>2
  <2> QED BY <1>2, <1>3, <1>4, <2>1

-----------------------------------------------------------------------------
(* The rules. If no rule before the one that decides holds above a live form  *)
(* it does not hold for, and that one still does, the outcome is the same.    *)

Follows(screen, own, n, heard, missed, upper) ==
    /\ DOMAIN own = 1..n /\ DOMAIN screen = 1..n /\ own[n][1]
    /\ \A i \in 1..n : screen[i][2] = own[i][2]
    /\ \A i \in 1..n : ~SaysAny(upper, heard[i]) /\ screen[i][1] => own[i][1]
    /\ \A i \in 1..n : ~SaysAny(upper, missed[i]) /\ own[i][1] => screen[i][1]

LEMMA SameOutcome ==
    ASSUME NEW n \in Nat \ {0}, NEW own, NEW screen, NEW heard, NEW missed, NEW upper,
           Follows(screen, own, n, heard, missed, upper),
           ~SaysAny(upper, (UNION {heard[i] : i \in 1..Deciding(own) - 1}) \cup missed[Deciding(own)])
    PROVE  Outcome(screen) = Outcome(own)
<1> USE DEF Follows
<1> DEFINE T == {i \in DOMAIN own : own[i][1]}
           U == {i \in DOMAIN screen : screen[i][1]}
           k == Min(T)
           z == Min(U)
<1>1. T \in SUBSET Nat /\ n \in T /\ U \in SUBSET Nat
    OBVIOUS
<1>2. Deciding(own) = k /\ Deciding(screen) = z
    BY DEF Deciding
<1>3. k \in T /\ \A i \in T : k <= i
  <2> HIDE DEF T
  <2> QED BY <1>1, LeastOf
<1>4. k \in 1..n /\ own[k][1]
    BY <1>3
<1> HIDE DEF k, z
<1>5. ~SaysAny(upper, missed[k])
    BY <1>2, QuietPart
<1>6. k \in U
    BY <1>4, <1>5
<1>7. z \in U /\ \A i \in U : z <= i
  <2> HIDE DEF U
  <2> QED BY <1>1, <1>6, LeastOf DEF z
<1>8. z \in 1..n /\ screen[z][1] /\ z <= k
    BY <1>6, <1>7
<1>9. CASE z < k
  <2>1. z \in 1..k - 1
      BY <1>4, <1>8, <1>9
  <2>2. heard[z] \subseteq UNION {heard[i] : i \in 1..k - 1}
      BY <2>1
  <2>3. ~SaysAny(upper, heard[z])
      BY <1>2, <2>2, QuietPart
  <2>4. z \in T
      BY <1>8, <2>3
  <2>5. k <= z
      BY <1>3, <2>4
  <2> QED BY <1>4, <1>8, <1>9, <2>5
<1>10. CASE z = k
    BY <1>2, <1>4, <1>10 DEF Outcome
<1> QED BY <1>4, <1>8, <1>9, <1>10

LEMMA Sizes == {2, 3, 6, 8, 9, 12, 20} \subseteq Nat \ {0}
OBVIOUS

\* The rules of each tool, one by one.
PiCases(r, screen) ==
    /\ DOMAIN r = 1..2
    /\ r[2][1]
    /\ r[1][1] <=> Says(Bottom(screen, 6), "pi working")
    /\ r[1][2] = "working" /\ r[2][2] = "idle"

LEMMA PiTable ==
    ASSUME NEW screen
    PROVE  PiCases(PiRules(screen), screen)
<1> DEFINE r == PiRules(screen)
<1>1. DOMAIN r = 1..2
    BY DEF PiRules
<1>2. r[2][1]
    BY DEF PiRules
<1>3. r[1][1] <=> Says(Bottom(screen, 6), "pi working")
    BY DEF PiRules
<1>4. r[1][2] = "working" /\ r[2][2] = "idle"
    BY DEF PiRules
<1> HIDE DEF r
<1> QED BY <1>1, <1>2, <1>3, <1>4 DEF r, PiCases

CodexCases(r, title, screen) ==
    /\ DOMAIN r = 1..8
    /\ r[8][1]
    /\ r[1][1] <=> title = "action required"
    /\ r[2][1] <=> title = "spinner"
    /\ r[3][1] <=> CodexTranscriptIsOpen(AfterLastPrompt(screen))
    /\ r[4][1] <=> CodexStartupBlocks(screen) \/ CodexLivePromptBlocks(AfterLastPrompt(screen))
    /\ r[5][1] <=> WeakBlocker(screen)
    /\ r[6][1] <=> CodexLiveWorking(screen)
    /\ r[7][1] <=> title # "none"
    /\ r[1][2] = "blocked" /\ r[2][2] = "working" /\ r[3][2] = "skip" /\ r[4][2] = "blocked"
    /\ r[5][2] = "blocked" /\ r[6][2] = "working" /\ r[7][2] = "visible_idle" /\ r[8][2] = "idle"

LEMMA CodexTable ==
    ASSUME NEW title, NEW screen
    PROVE  CodexCases(CodexRules(title, screen), title, screen)
<1> DEFINE r == CodexRules(title, screen)
<1>1. DOMAIN r = 1..8
    BY DEF CodexRules
<1>2. r[8][1]
    BY DEF CodexRules
<1>3. r[1][1] <=> title = "action required"
    BY DEF CodexRules
<1>4. r[2][1] <=> title = "spinner"
    BY DEF CodexRules
<1>5. r[3][1] <=> CodexTranscriptIsOpen(AfterLastPrompt(screen))
    BY DEF CodexRules
<1>6. r[4][1] <=> CodexStartupBlocks(screen) \/ CodexLivePromptBlocks(AfterLastPrompt(screen))
    BY DEF CodexRules
<1>7. r[5][1] <=> WeakBlocker(screen)
    BY DEF CodexRules
<1>8. r[6][1] <=> CodexLiveWorking(screen)
    BY DEF CodexRules
<1>9. r[7][1] <=> title # "none"
    BY DEF CodexRules
<1>10. r[1][2] = "blocked" /\ r[2][2] = "working" /\ r[3][2] = "skip" /\ r[4][2] = "blocked"
    BY DEF CodexRules
<1>11. r[5][2] = "blocked" /\ r[6][2] = "working" /\ r[7][2] = "visible_idle" /\ r[8][2] = "idle"
    BY DEF CodexRules
<1> HIDE DEF r
<1> QED BY <1>1, <1>2, <1>3, <1>4, <1>5, <1>6, <1>7, <1>8, <1>9, <1>10, <1>11 DEF r, CodexCases

ClaudeCases(r, title, screen) ==
    /\ DOMAIN r = 1..9
    /\ r[9][1]
    /\ r[1][1] <=> title \in {"spinner", "half circle"}
    /\ r[2][1] <=> ClaudeTranscriptIsOpen(screen)
    /\ r[3][1] <=> ClaudeHighPriorityBlocker(screen, AfterLastRule(screen))
    /\ r[4][1] <=> ClaudeLiveWorking(screen)
    /\ r[5][1] <=> ClaudePromptIsIdle(screen)
    /\ r[6][1] <=> ClaudeModelPickerIsOpen(screen)
    /\ r[7][1] <=> ClaudePermissionBlocks(screen, AfterLastRule(screen))
    /\ r[8][1] <=> title = "star"
    /\ r[1][2] = "working" /\ r[2][2] = "skip" /\ r[3][2] = "blocked" /\ r[4][2] = "working" /\ r[5][2] = "visible_idle"
    /\ r[6][2] = "skip" /\ r[7][2] = "blocked" /\ r[8][2] = "visible_idle" /\ r[9][2] = "idle"

LEMMA ClaudeTable ==
    ASSUME NEW title, NEW screen
    PROVE  ClaudeCases(ClaudeRules(title, screen), title, screen)
<1> DEFINE r == ClaudeRules(title, screen)
<1>1. DOMAIN r = 1..9
    BY DEF ClaudeRules
<1>2. r[9][1]
    BY DEF ClaudeRules
<1>3. r[1][1] <=> title \in {"spinner", "half circle"}
    BY DEF ClaudeRules
<1>4. r[2][1] <=> ClaudeTranscriptIsOpen(screen)
    BY DEF ClaudeRules
<1>5. r[3][1] <=> ClaudeHighPriorityBlocker(screen, AfterLastRule(screen))
    BY DEF ClaudeRules
<1>6. r[4][1] <=> ClaudeLiveWorking(screen)
    BY DEF ClaudeRules
<1>7. r[5][1] <=> ClaudePromptIsIdle(screen)
    BY DEF ClaudeRules
<1>8. r[6][1] <=> ClaudeModelPickerIsOpen(screen)
    BY DEF ClaudeRules
<1>9. r[7][1] <=> ClaudePermissionBlocks(screen, AfterLastRule(screen))
    BY DEF ClaudeRules
<1>10. r[8][1] <=> title = "star"
    BY DEF ClaudeRules
<1>11. r[1][2] = "working" /\ r[2][2] = "skip" /\ r[3][2] = "blocked" /\ r[4][2] = "working" /\ r[5][2] = "visible_idle"
    BY DEF ClaudeRules
<1>12. r[6][2] = "skip" /\ r[7][2] = "blocked" /\ r[8][2] = "visible_idle" /\ r[9][2] = "idle"
    BY DEF ClaudeRules
<1> HIDE DEF r
<1> QED BY <1>1, <1>2, <1>3, <1>4, <1>5, <1>6, <1>7, <1>8, <1>9, <1>10, <1>11, <1>12 DEF r, ClaudeCases

\* The rule of Pi, and the rules of Codex, one by one.
LEMMA PiWorkingRule ==
    ASSUME NEW S, NEW upper \in Seq(S), NEW lines \in Seq(S)
    PROVE  LET long == Bottom(upper \o lines, 6)
               short == Bottom(lines, 6)
           IN  /\ Says(short, "pi working") => Says(long, "pi working")
               /\ ~SaysAny(upper, PiHeard(lines)[1]) /\ Says(long, "pi working")
                     => Says(short, "pi working")
<1> DEFINE long == Bottom(upper \o lines, 6)
           short == Bottom(lines, 6)
<1>1. PiHeard(lines)[1] = Within(6, lines, {"pi working"})
    BY DEF PiHeard
<1>2. Keeps(long, short) /\ (~SaysAny(upper, PiHeard(lines)[1]) => Returns(long, short, {"pi working"}))
    BY <1>1, BottomSays, Sizes
<1> HIDE DEF long, short
<1> QED BY <1>2, SaysPhrase DEF long, short

LEMMA CodexTranscriptRule ==
    ASSUME NEW S, NEW upper \in Seq(S), NEW lines \in Seq(S)
    PROVE  LET long == AfterLastPrompt(upper \o lines)
               short == AfterLastPrompt(lines)
           IN  /\ CodexTranscriptIsOpen(short) => CodexTranscriptIsOpen(long)
               /\ ~SaysAny(upper, CodexHeard(lines)[3]) /\ CodexTranscriptIsOpen(long)
                     => CodexTranscriptIsOpen(short)
<1> DEFINE long == AfterLastPrompt(upper \o lines)
           short == AfterLastPrompt(lines)
           phrases == {"to scroll", "pgup/pgdn to", "home/end to jump", "q to quit", "to edit prev"}
<1>1. CodexHeard(lines)[3] = After("codex prompt", lines, phrases)
    BY DEF CodexHeard
<1>2. /\ Keeps(long, short)
      /\ ~SaysAny(upper, CodexHeard(lines)[3]) => Returns(long, short, phrases)
    BY <1>1, AfterSays DEF AfterLastPrompt
<1>3. \A text : CodexTranscriptIsOpen(text) <=> SaysAll(text, phrases)
    BY DEF CodexTranscriptIsOpen
<1>4. phrases \subseteq phrases
    OBVIOUS
<1> HIDE DEF long, short, phrases
<1> QED BY <1>2, <1>3, <1>4 DEF Keeps, Returns, long, short

\* The trust question is the one thing looked for at the top of the screen.
LEMMA CodexStartup ==
    ASSUME NEW S, NEW upper \in Seq(S), NEW lines \in Seq(S)
    PROVE  /\ (SaysAll(Top(lines, 20), TrustQuestion) => Len(upper \o lines) <= 20)
                /\ CodexStartupBlocks(lines) => CodexStartupBlocks(upper \o lines)
           /\ ~SaysAny(upper, CodexHeard(lines)[4]) /\ CodexStartupBlocks(upper \o lines)
                => CodexStartupBlocks(lines)
<1> DEFINE screen == upper \o lines
           long == Bottom(screen, 20)
           short == Bottom(lines, 20)
           phrases == {"update available!", "update now", "press enter to continue",
                       "skip until next version"}
<1>1. TrustQuestion \cup Within(20, lines, phrases) \subseteq CodexHeard(lines)[4]
  <2>1. CodexHeard(lines)[4] =
            TrustQuestion \cup Within(20, lines, phrases)
                \cup After("codex prompt", lines, WeakPhrases(lines) \cup
                   {"press enter to confirm or esc to cancel", "enter to submit answer",
                    "enter to submit all", "allow command?"})
      BY DEF CodexHeard
  <2> QED BY <2>1
<1>2. \A text : CodexStartupBlocks(text) <=>
          SaysAll(Top(text, 20), TrustQuestion) \/ SaysAll(Bottom(text, 20), phrases)
    BY DEF CodexStartupBlocks
<1>3. screen \in Seq(S) /\ 20 \in Nat /\ 20 \in Nat \ {0}
    BY Sizes
<1>4. Keeps(long, short)
    BY <1>3, BottomSays
<1>5. ASSUME ~SaysAny(upper, CodexHeard(lines)[4]) PROVE Returns(long, short, phrases)
  <2>1. ~SaysAny(upper, Within(20, lines, phrases))
      BY <1>1, <1>5, QuietPart
  <2> QED BY <1>3, <2>1, BottomSays
<1>6. phrases \subseteq phrases
    OBVIOUS
<1>7. ASSUME SaysAll(Top(lines, 20), TrustQuestion), Len(screen) <= 20
      PROVE  SaysAll(Top(screen, 20), TrustQuestion)
  <2> SUFFICES ASSUME NEW p \in TrustQuestion PROVE Says(Top(screen, 20), p)
      BY DEF SaysAll
  <2>1. Says(lines, p)
    <3>1. PICK i \in DOMAIN lines : p \in lines[i]
        BY <1>7, TopLines DEF SaysAll
    <3> QED BY <3>1 DEF Says
  <2>2. Says(screen, p)
      BY <2>1, ScreenSays, SaysPhrase
  <2> HIDE DEF screen
  <2> QED BY <1>3, <1>7, <2>2, TopOfAll
<1>8. ASSUME ~SaysAny(upper, CodexHeard(lines)[4]), SaysAll(Top(screen, 20), TrustQuestion)
      PROVE  SaysAll(Top(lines, 20), TrustQuestion)
  <2> SUFFICES ASSUME NEW p \in TrustQuestion PROVE Says(Top(lines, 20), p)
      BY DEF SaysAll
  <2>1. ~Says(upper, p)
      BY <1>1, <1>8 DEF SaysAny
  <2>2. Says(Top(screen, 20), p)
      BY <1>8 DEF SaysAll
  <2> QED BY <1>3, <2>1, <2>2, TopBelow
<1> HIDE DEF long, short, phrases
<1>9. ASSUME SaysAll(Top(lines, 20), TrustQuestion) => Len(screen) <= 20, CodexStartupBlocks(lines)
      PROVE  CodexStartupBlocks(screen)
  <2>1. SaysAll(short, phrases) => SaysAll(long, phrases)
      BY <1>4 DEF Keeps
  <2> QED BY <1>2, <1>7, <1>9, <2>1 DEF long, short
<1>10. ASSUME ~SaysAny(upper, CodexHeard(lines)[4]), CodexStartupBlocks(screen)
       PROVE  CodexStartupBlocks(lines)
  <2>1. SaysAll(long, phrases) => SaysAll(short, phrases)
      BY <1>5, <1>6, <1>10 DEF Returns
  <2> QED BY <1>2, <1>8, <1>10, <2>1 DEF long, short
<1> QED BY <1>9, <1>10

LEMMA CodexLivePrompt ==
    ASSUME NEW S, NEW upper \in Seq(S), NEW lines \in Seq(S)
    PROVE  LET long == AfterLastPrompt(upper \o lines)
               short == AfterLastPrompt(lines)
           IN  /\ CodexLivePromptBlocks(short) => CodexLivePromptBlocks(long)
               /\ ~SaysAny(upper, CodexHeard(lines)[4]) /\ CodexLivePromptBlocks(long)
                     => CodexLivePromptBlocks(short)
<1> DEFINE long == AfterLastPrompt(upper \o lines)
           short == AfterLastPrompt(lines)
           asked == {"press enter to confirm or esc to cancel", "enter to submit answer",
                     "enter to submit all", "allow command?"}
           phrases == WeakPhrases(lines) \cup asked
<1>1. After("codex prompt", lines, phrases) \subseteq CodexHeard(lines)[4]
  <2>1. CodexHeard(lines)[4] =
            TrustQuestion
                \cup Within(20, lines, {"update available!", "update now",
                                        "press enter to continue", "skip until next version"})
                \cup After("codex prompt", lines, phrases)
      BY DEF CodexHeard
  <2> HIDE DEF phrases
  <2> QED BY <2>1
<1>2. \A text : CodexLivePromptBlocks(text) <=> SaysAny(text, asked) \/ WeakBlocker(text)
    BY DEF CodexLivePromptBlocks
<1>3. WeakPhrases(lines) \subseteq phrases /\ asked \subseteq phrases
    OBVIOUS
<1> HIDE DEF asked, phrases
<1>4. Keeps(long, short)
    BY AfterSays DEF AfterLastPrompt
<1>5. ASSUME ~SaysAny(upper, CodexHeard(lines)[4]) PROVE Returns(long, short, phrases)
  <2>1. ~SaysAny(upper, After("codex prompt", lines, phrases))
      BY <1>1, <1>5, QuietPart
  <2> QED BY <2>1, AfterSays DEF AfterLastPrompt
<1>6. SaysAny(short, Questions) => SaysAny(lines, Questions)
    BY AfterWithin DEF AfterLastPrompt
<1> HIDE DEF long, short
<1>7. CodexLivePromptBlocks(short) => CodexLivePromptBlocks(long)
  <2>1. SaysAny(short, asked) => SaysAny(long, asked)
      BY <1>4 DEF Keeps
  <2> QED BY <1>2, <1>4, <2>1, WeakKeeps
<1>8. ASSUME ~SaysAny(upper, CodexHeard(lines)[4]), CodexLivePromptBlocks(long)
      PROVE  CodexLivePromptBlocks(short)
  <2>1. SaysAny(long, asked) => SaysAny(short, asked)
      BY <1>3, <1>5, <1>8 DEF Returns
  <2>2. WeakBlocker(long) => WeakBlocker(short)
      BY <1>3, <1>5, <1>6, <1>8, WeakReturns
  <2> QED BY <1>2, <1>8, <2>1, <2>2
<1> QED BY <1>7, <1>8 DEF long, short

LEMMA CodexWeakRule ==
    ASSUME NEW S, NEW upper \in Seq(S), NEW lines \in Seq(S)
    PROVE  /\ WeakBlocker(lines) => WeakBlocker(upper \o lines)
           /\ ~SaysAny(upper, WeakPhrases(lines)) /\ WeakBlocker(upper \o lines)
                => WeakBlocker(lines)
<1> DEFINE screen == upper \o lines
<1>1. /\ Keeps(screen, lines)
      /\ ~SaysAny(upper, WeakPhrases(lines)) => Returns(screen, lines, WeakPhrases(lines))
    BY ScreenSays
<1>2. WeakPhrases(lines) \subseteq WeakPhrases(lines)
    OBVIOUS
<1> HIDE DEF screen
<1> QED BY <1>1, <1>2, WeakKeeps, WeakReturns DEF screen

LEMMA CodexWorkingRule ==
    ASSUME NEW S, NEW upper \in Seq(S), NEW lines \in Seq(S)
    PROVE  /\ ~SaysAny(upper, CodexMissed(lines)[6]) /\ CodexLiveWorking(lines)
                => CodexLiveWorking(upper \o lines)
           /\ ~SaysAny(upper, CodexHeard(lines)[6]) /\ CodexLiveWorking(upper \o lines)
                => CodexLiveWorking(lines)
<1> DEFINE long == Bottom(upper \o lines, 3)
           short == Bottom(lines, 3)
<1>1. /\ CodexHeard(lines)[6] = Within(3, lines, {"codex working"})
      /\ CodexMissed(lines)[6] = Within(3, lines, {"interrupted"})
    BY DEF CodexHeard, CodexMissed
<1>2. 3 \in Nat \ {0}
    BY Sizes
<1>3. /\ Keeps(long, short)
      /\ ~SaysAny(upper, CodexHeard(lines)[6]) => Returns(long, short, {"codex working"})
      /\ ~SaysAny(upper, CodexMissed(lines)[6]) => Returns(long, short, {"interrupted"})
    BY <1>1, <1>2, BottomSays
<1>4. /\ CodexLiveWorking(lines) <=> Says(short, "codex working") /\ ~Says(short, "interrupted")
      /\ CodexLiveWorking(upper \o lines) <=> Says(long, "codex working") /\ ~Says(long, "interrupted")
    BY DEF CodexLiveWorking
<1> HIDE DEF long, short
<1>5. /\ Says(short, "codex working") => Says(long, "codex working")
      /\ Says(short, "interrupted") => Says(long, "interrupted")
    BY <1>3, SaysPhrase
<1>6. ASSUME ~SaysAny(upper, CodexHeard(lines)[6]), Says(long, "codex working")
      PROVE  Says(short, "codex working")
    BY <1>3, <1>6, SaysPhrase
<1>7. ASSUME ~SaysAny(upper, CodexMissed(lines)[6]), Says(long, "interrupted")
      PROVE  Says(short, "interrupted")
    BY <1>3, <1>7, SaysPhrase
<1> QED BY <1>4, <1>5, <1>6, <1>7

LEMMA PiDecides ==
    ASSUME NEW S, NEW upper \in Seq(S), NEW lines \in Seq(S),
           LET k == Deciding(PiRules(lines))
           IN ~SaysAny(upper, (UNION {PiHeard(lines)[i] : i \in 1..k - 1}) \cup PiMissed(lines)[k])
    PROVE  Outcome(PiRules(upper \o lines)) = Outcome(PiRules(lines))
<1> DEFINE own == PiRules(lines)
           screen == PiRules(upper \o lines)
           heard == PiHeard(lines)
           missed == PiMissed(lines)
<1>1. PiCases(own, lines) /\ PiCases(screen, upper \o lines)
    BY PiTable
<1>2. ~SaysAny(upper, (UNION {heard[i] : i \in 1..Deciding(own) - 1}) \cup missed[Deciding(own)])
    OBVIOUS
<1> HIDE DEF own, screen, heard, missed
<1>3. (own[1][1] => screen[1][1]) /\ (~SaysAny(upper, heard[1]) /\ screen[1][1] => own[1][1])
    BY <1>1, PiWorkingRule DEF heard, PiCases
<1>4. \A i \in 1..2 : i = 1 \/ i = 2
    OBVIOUS
<1>5. /\ \A i \in 1..2 : screen[i][2] = own[i][2]
      /\ \A i \in 1..2 : ~SaysAny(upper, heard[i]) /\ screen[i][1] => own[i][1]
      /\ \A i \in 1..2 : ~SaysAny(upper, missed[i]) /\ own[i][1] => screen[i][1]
    BY <1>1, <1>3, <1>4 DEF PiCases
<1>6. 2 \in Nat \ {0}
    BY Sizes
<1>7. Outcome(screen) = Outcome(own)
  <2>1. DOMAIN own = 1..2 /\ DOMAIN screen = 1..2 /\ own[2][1]
      BY <1>1 DEF PiCases
  <2>2. Follows(screen, own, 2, heard, missed, upper)
      BY <1>5, <2>1 DEF Follows
  <2> QED BY <1>2, <1>6, <2>2, SameOutcome
<1> QED BY <1>7 DEF own, screen

LEMMA CodexDecides ==
    ASSUME NEW S, NEW upper \in Seq(S), NEW lines \in Seq(S), NEW title,
           SaysAll(Top(lines, 20), TrustQuestion) => Len(upper \o lines) <= 20,
           LET k == Deciding(CodexRules(title, lines))
           IN ~SaysAny(upper, (UNION {CodexHeard(lines)[i] : i \in 1..k - 1}) \cup CodexMissed(lines)[k])
    PROVE  Outcome(CodexRules(title, upper \o lines)) = Outcome(CodexRules(title, lines))
<1> DEFINE own == CodexRules(title, lines)
           screen == CodexRules(title, upper \o lines)
           heard == CodexHeard(lines)
           missed == CodexMissed(lines)
<1>1. CodexCases(own, title, lines) /\ CodexCases(screen, title, upper \o lines)
    BY CodexTable
<1>4. ~SaysAny(upper, (UNION {heard[i] : i \in 1..Deciding(own) - 1}) \cup missed[Deciding(own)])
    OBVIOUS
<1>5. heard[5] = WeakPhrases(lines)
    BY DEF CodexHeard
<1> HIDE DEF own, screen, heard, missed
<1>6. /\ own[3][1] => screen[3][1]
      /\ ~SaysAny(upper, heard[3]) /\ screen[3][1] => own[3][1]
    BY <1>1, CodexTranscriptRule DEF heard, CodexCases
<1>7. /\ own[4][1] => screen[4][1]
      /\ ~SaysAny(upper, heard[4]) /\ screen[4][1] => own[4][1]
    BY <1>1, CodexStartup, CodexLivePrompt DEF heard, CodexCases
<1>8. /\ own[5][1] => screen[5][1]
      /\ ~SaysAny(upper, heard[5]) /\ screen[5][1] => own[5][1]
    BY <1>1, <1>5, CodexWeakRule DEF CodexCases
<1>9. /\ ~SaysAny(upper, missed[6]) /\ own[6][1] => screen[6][1]
      /\ ~SaysAny(upper, heard[6]) /\ screen[6][1] => own[6][1]
    BY <1>1, CodexWorkingRule DEF heard, missed, CodexCases
<1>10. \A i \in 1..8 : i \in {1, 2, 7, 8} \/ i = 3 \/ i = 4 \/ i = 5 \/ i = 6
    OBVIOUS
<1>11. \A i \in {1, 2, 7, 8} : own[i][1] <=> screen[i][1]
    BY <1>1 DEF CodexCases
<1>12. /\ \A i \in 1..8 : ~SaysAny(upper, heard[i]) /\ screen[i][1] => own[i][1]
       /\ \A i \in 1..8 : ~SaysAny(upper, missed[i]) /\ own[i][1] => screen[i][1]
    BY <1>6, <1>7, <1>8, <1>9, <1>10, <1>11
<1>13. \A i \in 1..8 : screen[i][2] = own[i][2]
  <2>1. \A i \in 1..8 : i = 1 \/ i = 2 \/ i = 3 \/ i = 4 \/ i = 5 \/ i = 6 \/ i = 7 \/ i = 8
      OBVIOUS
  <2> QED BY <1>1, <2>1 DEF CodexCases
<1>14. 8 \in Nat \ {0}
    BY Sizes
<1>15. Outcome(screen) = Outcome(own)
  <2>1. DOMAIN own = 1..8 /\ DOMAIN screen = 1..8 /\ own[8][1]
      BY <1>1 DEF CodexCases
  <2>2. Follows(screen, own, 8, heard, missed, upper)
      BY <1>12, <1>13, <2>1 DEF Follows
  <2> QED BY <1>4, <1>14, <2>2, SameOutcome
<1> QED BY <1>15 DEF own, screen

-----------------------------------------------------------------------------
(* The rules of Claude, one by one *)

LEMMA ClaudeTranscriptRule ==
    ASSUME NEW S, NEW upper \in Seq(S), NEW lines \in Seq(S)
    PROVE  /\ ClaudeTranscriptIsOpen(lines) => ClaudeTranscriptIsOpen(upper \o lines)
           /\ ~SaysAny(upper, ClaudeHeard(lines)[2]) /\ ClaudeTranscriptIsOpen(upper \o lines)
                => ClaudeTranscriptIsOpen(lines)
<1> DEFINE long == Bottom(upper \o lines, 3)
           short == Bottom(lines, 3)
           hints == {"ctrl+o", "ctrl+e", "scroll", "? for shortcuts"}
           phrases == {"showing detailed transcript", "ctrl+o", "ctrl+e", "scroll", "? for shortcuts"}
           Open(bottom) == Says(bottom, "showing detailed transcript") /\ SaysAny(bottom, hints)
<1>1. ClaudeHeard(lines)[2] = Within(3, lines, phrases)
    BY DEF ClaudeHeard
<1>2. 3 \in Nat \ {0}
    BY Sizes
<1>3. /\ Keeps(long, short)
      /\ ~SaysAny(upper, ClaudeHeard(lines)[2]) => Returns(long, short, phrases)
    BY <1>1, <1>2, BottomSays
<1>4. /\ ClaudeTranscriptIsOpen(lines) <=> Open(short)
      /\ ClaudeTranscriptIsOpen(upper \o lines) <=> Open(long)
    BY DEF ClaudeTranscriptIsOpen
<1>5. "showing detailed transcript" \in phrases /\ hints \subseteq phrases
    OBVIOUS
<1> HIDE DEF long, short, hints, phrases
<1>6. Open(short) => Open(long)
  <2>1. SaysAny(short, hints) => SaysAny(long, hints)
      BY <1>3 DEF Keeps
  <2> QED BY <1>3, <2>1, SaysPhrase
<1>7. ASSUME ~SaysAny(upper, ClaudeHeard(lines)[2]), Open(long) PROVE Open(short)
  <2>1. SaysAny(short, hints)
      BY <1>3, <1>5, <1>7 DEF Returns
  <2> QED BY <1>3, <1>5, <1>7, <2>1, SaysPhrase
<1> QED BY <1>4, <1>6, <1>7

LEMMA ClaudeNavigation ==
    ASSUME NEW S, NEW upper \in Seq(S), NEW lines \in Seq(S)
    PROVE  LET long == AfterLastRule(upper \o lines)
               short == AfterLastRule(lines)
           IN  /\ ClaudeNavigationBlocks(short) => ClaudeNavigationBlocks(long)
               /\ ~SaysAny(upper, ClaudeHeard(lines)[3]) /\ ClaudeNavigationBlocks(long)
                     => ClaudeNavigationBlocks(short)
<1> DEFINE long == AfterLastRule(upper \o lines)
           short == AfterLastRule(lines)
           keys == {"arrow keys to navigate", "arrows to navigate", "up/down to navigate",
                    "updown to navigate"}
           marked == {"enter to confirm", "enter to select", "arrow keys to navigate",
                      "arrows to navigate", "up/down to navigate", "updown to navigate"}
           always == {"run a dynamic workflow?", "mcp server", "requests your input",
                      "esc to cancel", "accept or decline"}
           phrases == {"esc to cancel"} \cup marked
<1>1. ClaudeHeard(lines)[3] = always \cup After("rule", lines, marked)
    BY DEF ClaudeHeard
<1>2. "esc to cancel" \in always
    OBVIOUS
<1>3. /\ "esc to cancel" \in phrases /\ "enter to confirm" \in phrases
      /\ "enter to select" \in phrases /\ keys \subseteq phrases
    OBVIOUS
<1>4. \A text : ClaudeNavigationBlocks(text) <=>
          /\ Says(text, "esc to cancel")
          /\ \/ Says(text, "enter to confirm")
             \/ Says(text, "enter to select") /\ SaysAny(text, keys)
    BY DEF ClaudeNavigationBlocks
<1> HIDE DEF keys, marked, always
<1>5. Keeps(long, short)
    BY AfterSays DEF AfterLastRule
<1>6. ASSUME ~SaysAny(upper, ClaudeHeard(lines)[3]) PROVE Returns(long, short, phrases)
  <2>1. After("rule", lines, phrases) \subseteq ClaudeHeard(lines)[3]
      BY <1>1, <1>2 DEF After
  <2>2. ~SaysAny(upper, After("rule", lines, phrases))
      BY <1>6, <2>1, QuietPart
  <2> QED BY <2>2, AfterSays DEF AfterLastRule
<1> HIDE DEF long, short, phrases
<1>7. ClaudeNavigationBlocks(short) => ClaudeNavigationBlocks(long)
  <2>1. SaysAny(short, keys) => SaysAny(long, keys)
      BY <1>5 DEF Keeps
  <2>2. \A p : Says(short, p) => Says(long, p)
      BY <1>5, SaysPhrase
  <2> QED BY <1>4, <2>1, <2>2
<1>8. ASSUME ~SaysAny(upper, ClaudeHeard(lines)[3]), ClaudeNavigationBlocks(long)
      PROVE  ClaudeNavigationBlocks(short)
  <2>1. SaysAny(long, keys) => SaysAny(short, keys)
      BY <1>3, <1>6, <1>8 DEF Returns
  <2>2. \A p \in phrases : Says(long, p) => Says(short, p)
      BY <1>6, <1>8, SaysPhrase
  <2> QED BY <1>3, <1>4, <1>8, <2>1, <2>2
<1> QED BY <1>7, <1>8 DEF long, short

LEMMA ClaudeBlockerRule ==
    ASSUME NEW S, NEW upper \in Seq(S), NEW lines \in Seq(S)
    PROVE  LET screen == upper \o lines
               long == AfterLastRule(upper \o lines)
               short == AfterLastRule(lines)
           IN  /\ ClaudeHighPriorityBlocker(lines, short) => ClaudeHighPriorityBlocker(screen, long)
               /\ ~SaysAny(upper, ClaudeHeard(lines)[3]) /\ ClaudeHighPriorityBlocker(screen, long)
                     => ClaudeHighPriorityBlocker(lines, short)
<1> DEFINE screen == upper \o lines
           long == AfterLastRule(upper \o lines)
           short == AfterLastRule(lines)
           workflow == {"run a dynamic workflow?", "esc to cancel"}
           mcp == {"mcp server", "requests your input", "esc to cancel", "accept or decline"}
           always == {"run a dynamic workflow?", "mcp server", "requests your input",
                      "esc to cancel", "accept or decline"}
<1>1. always \subseteq ClaudeHeard(lines)[3]
  <2>1. ClaudeHeard(lines)[3] = always \cup After("rule", lines,
            {"enter to confirm", "enter to select", "arrow keys to navigate",
             "arrows to navigate", "up/down to navigate",
             "updown to navigate"})
      BY DEF ClaudeHeard
  <2> QED BY <2>1
<1>2. workflow \subseteq always /\ mcp \subseteq always
    OBVIOUS
<1>3. \A text, afterRule : ClaudeHighPriorityBlocker(text, afterRule) <=>
          ClaudeNavigationBlocks(afterRule) \/ SaysAll(text, workflow) \/ SaysAll(text, mcp)
    BY DEF ClaudeHighPriorityBlocker, ClaudeMcpElicitationBlocks
<1> HIDE DEF workflow, mcp, always
<1>4. Keeps(screen, lines)
    BY ScreenSays
<1>5. ASSUME ~SaysAny(upper, ClaudeHeard(lines)[3]) PROVE Returns(screen, lines, always)
    BY <1>1, <1>5, QuietPart, ScreenSays
<1>6. /\ SaysAll(lines, workflow) => SaysAll(screen, workflow)
      /\ SaysAll(lines, mcp) => SaysAll(screen, mcp)
    BY <1>4 DEF Keeps
<1>7. ASSUME ~SaysAny(upper, ClaudeHeard(lines)[3])
      PROVE  /\ SaysAll(screen, workflow) => SaysAll(lines, workflow)
             /\ SaysAll(screen, mcp) => SaysAll(lines, mcp)
    BY <1>2, <1>5, <1>7 DEF Returns
<1>8. /\ ClaudeNavigationBlocks(short) => ClaudeNavigationBlocks(long)
      /\ ~SaysAny(upper, ClaudeHeard(lines)[3]) /\ ClaudeNavigationBlocks(long)
            => ClaudeNavigationBlocks(short)
    BY ClaudeNavigation
<1> HIDE DEF screen, long, short
<1>9. /\ ClaudeHighPriorityBlocker(lines, short) => ClaudeHighPriorityBlocker(screen, long)
      /\ ~SaysAny(upper, ClaudeHeard(lines)[3]) /\ ClaudeHighPriorityBlocker(screen, long)
            => ClaudeHighPriorityBlocker(lines, short)
    BY <1>3, <1>6, <1>7, <1>8
<1> QED BY <1>9 DEF screen, long, short

\* What the last lines, or the line above the prompt box, say is said in the text.
LEMMA BottomWithin ==
    ASSUME NEW S, NEW text \in Seq(S), NEW n \in Nat, NEW p, Says(Bottom(text, n), p)
    PROVE  Says(text, p)
<1> DEFINE short == Bottom(text, n)
           a == Min(LastTaken(text, n))
<1>1. LastTaken(text, n) # {}
  <2> SUFFICES ASSUME LastTaken(text, n) = {} PROVE FALSE
      OBVIOUS
  <2>1. Bottom(text, n) = <<>>
      BY NothingTaken
  <2> QED BY <2>1 DEF Says
<1>2. /\ a \in 1..Len(text) /\ short \in Seq(S)
      /\ Len(short) = Len(text) + 1 - a
      /\ \A i \in 1..(Len(text) + 1 - a) : short[i] = text[(a - 1) + i]
    BY <1>1, BottomLines
<1>3. PICK i \in DOMAIN short : p \in short[i]
    BY DEF Says
<1> HIDE DEF short, a
<1>4. DOMAIN short = 1..Len(short) /\ DOMAIN text = 1..Len(text) /\ Len(text) \in Nat
    BY <1>2
<1>5. i \in 1..(Len(text) + 1 - a) /\ (a - 1) + i \in 1..Len(text)
    BY <1>2, <1>3, <1>4
<1>6. p \in text[(a - 1) + i]
    BY <1>2, <1>3, <1>5
<1> QED BY <1>4, <1>5, <1>6 DEF Says

LEMMA AboveBoxWithin ==
    ASSUME NEW text, NEW line \in LastAbovePromptBox(text), NEW p \in line
    PROVE  Says(text, p)
BY DEF LastAbovePromptBox, Written, Says

LEMMA ClaudeAgents ==
    ASSUME NEW S, NEW upper \in Seq(S), NEW lines \in Seq(S)
    PROVE  /\ ~SaysAny(upper, ClaudeMissed(lines)[4]) /\ ClaudeBackgroundAgentsWorking(lines)
                => ClaudeBackgroundAgentsWorking(upper \o lines)
           /\ ~SaysAny(upper, ClaudeHeard(lines)[4]) /\ ClaudeBackgroundAgentsWorking(upper \o lines)
                => ClaudeBackgroundAgentsWorking(lines)
<1>1. "background agents" \in ClaudeHeard(lines)[4] /\ Borders(lines) \subseteq ClaudeHeard(lines)[4]
  <2>1. ClaudeHeard(lines)[4] = {"background agents"} \cup Borders(lines)
            \cup Within(12, lines, {"/btw", "esc to close", "turn", "status"})
      BY DEF ClaudeHeard
  <2> QED BY <2>1
<1>2. With({"background agents"}, lines, Borders(lines)) \subseteq ClaudeMissed(lines)[4]
  <2>1. ClaudeMissed(lines)[4] =
            With({"status"}, lines, PermissionPhrases \cup {"esc to cancel"})
                \cup With({"background agents"}, lines, Borders(lines))
      BY DEF ClaudeMissed
  <2> QED BY <2>1
<1>3. ASSUME ~SaysAny(upper, ClaudeMissed(lines)[4]), ClaudeBackgroundAgentsWorking(lines)
      PROVE  ClaudeBackgroundAgentsWorking(upper \o lines)
  <2>1. Says(lines, "background agents")
      BY <1>3, AboveBoxWithin DEF ClaudeBackgroundAgentsWorking
  <2>2. ~SaysAny(upper, Borders(lines))
    <3>1. With({"background agents"}, lines, Borders(lines)) = Borders(lines)
        BY <2>1, SaysOne DEF With
    <3> QED BY <1>2, <1>3, <3>1, QuietPart
  <2> QED BY <1>3, <2>2, AboveBoxBelow DEF ClaudeBackgroundAgentsWorking
<1>4. ASSUME ~SaysAny(upper, ClaudeHeard(lines)[4]), ClaudeBackgroundAgentsWorking(upper \o lines)
      PROVE  ClaudeBackgroundAgentsWorking(lines)
  <2>1. ~SaysAny(upper, Borders(lines)) /\ ~Says(upper, "background agents")
      BY <1>1, <1>4, QuietPart DEF SaysAny
  <2> QED BY <1>4, <2>1, AboveBoxBelow DEF ClaudeBackgroundAgentsWorking
<1> QED BY <1>3, <1>4

LEMMA ClaudeTasks ==
    ASSUME NEW S, NEW upper \in Seq(S), NEW lines \in Seq(S)
    PROVE  LET screen == upper \o lines
               long == Bottom(upper \o lines, 12)
               short == Bottom(lines, 12)
           IN  /\ ~SaysAny(upper, ClaudeMissed(lines)[4]) /\ ClaudeMcpTasksWorking(short, lines)
                     => ClaudeMcpTasksWorking(long, screen)
               /\ ~SaysAny(upper, ClaudeHeard(lines)[4]) /\ ClaudeMcpTasksWorking(long, screen)
                     => ClaudeMcpTasksWorking(short, lines)
<1> DEFINE screen == upper \o lines
           long == Bottom(upper \o lines, 12)
           short == Bottom(lines, 12)
           asking == {"do you want to proceed?", "esc to cancel", "waiting for permission",
                      "do you want to allow this connection?", "tab to amend",
                      "ctrl+e to explain"}
           Status(text) == \E start \in DOMAIN text : McpTaskStatusAt(text, start)
           phrases == {"/btw", "esc to close", "turn", "status"}
<1>1. Within(12, lines, phrases) \subseteq ClaudeHeard(lines)[4] /\ "status" \in phrases
  <2>1. ClaudeHeard(lines)[4] =
            {"background agents"} \cup Borders(lines) \cup Within(12, lines, phrases)
      BY DEF ClaudeHeard
  <2> QED BY <2>1
<1>2. With({"status"}, lines, asking) \subseteq ClaudeMissed(lines)[4]
  <2>1. ClaudeMissed(lines)[4] =
            With({"status"}, lines, PermissionPhrases \cup {"esc to cancel"})
                \cup With({"background agents"}, lines, Borders(lines))
      BY DEF ClaudeMissed
  <2>2. asking = PermissionPhrases \cup {"esc to cancel"}
      BY DEF PermissionPhrases
  <2> HIDE DEF asking
  <2> QED BY <2>1, <2>2
<1>3. \A text, bottom : ClaudeMcpTasksWorking(bottom, text) <=> ~SaysAny(text, asking) /\ Status(bottom)
    BY DEF ClaudeMcpTasksWorking
<1>4. 12 \in Nat \ {0} /\ 12 \in Nat
    BY Sizes
<1> HIDE DEF asking, phrases
<1>5. Keeps(screen, lines)
    BY ScreenSays
<1>6. Status(short) => Status(long)
  <2>1. ~SaysAny(upper, Within(12, lines, {}))
      BY NothingSaid DEF Within
  <2>2. long \in Seq(S) /\ short \in Seq(S) /\ Below(long, short, {})
      BY <1>4, <2>1, BottomBelow
  <2> HIDE DEF long, short
  <2> QED BY <2>2, McpTaskBelow
<1>7. ASSUME ~SaysAny(upper, ClaudeHeard(lines)[4]), Status(long) PROVE Status(short)
  <2>1. ~SaysAny(upper, Within(12, lines, phrases))
      BY <1>1, <1>7, QuietPart
  <2>2. long \in Seq(S) /\ short \in Seq(S) /\ Below(long, short, phrases)
      BY <1>4, <2>1, BottomBelow
  <2> HIDE DEF long, short
  <2> QED BY <1>1, <1>7, <2>2, McpTaskBelow
<1>8. ASSUME ~SaysAny(upper, ClaudeMissed(lines)[4]), Status(short), SaysAny(screen, asking)
      PROVE  SaysAny(lines, asking)
  <2>1. PICK start \in DOMAIN short : McpTaskStatusAt(short, start)
      BY <1>8
  <2>2. Says(short, "status")
      BY <2>1 DEF McpTaskStatusAt, Says
  <2>3. Says(lines, "status")
      BY <1>4, <2>2, BottomWithin
  <2>4. With({"status"}, lines, asking) = asking
      BY <2>3, SaysOne DEF With
  <2>5. ~SaysAny(upper, asking)
      BY <1>2, <1>8, <2>4, QuietPart
  <2>6. Returns(screen, lines, asking)
      BY <2>5, ScreenSays
  <2> QED BY <1>8, <2>6 DEF Returns
<1>9. SaysAny(lines, asking) => SaysAny(screen, asking)
    BY <1>5 DEF Keeps
<1> HIDE DEF screen, long, short, Status
<1>10. /\ ~SaysAny(upper, ClaudeMissed(lines)[4]) /\ ClaudeMcpTasksWorking(short, lines)
             => ClaudeMcpTasksWorking(long, screen)
       /\ ~SaysAny(upper, ClaudeHeard(lines)[4]) /\ ClaudeMcpTasksWorking(long, screen)
             => ClaudeMcpTasksWorking(short, lines)
    BY <1>3, <1>6, <1>7, <1>8, <1>9
<1> QED BY <1>10 DEF screen, long, short

LEMMA ClaudeWorkingRule ==
    ASSUME NEW S, NEW upper \in Seq(S), NEW lines \in Seq(S)
    PROVE  /\ ~SaysAny(upper, ClaudeMissed(lines)[4]) /\ ClaudeLiveWorking(lines)
                => ClaudeLiveWorking(upper \o lines)
           /\ ~SaysAny(upper, ClaudeHeard(lines)[4]) /\ ClaudeLiveWorking(upper \o lines)
                => ClaudeLiveWorking(lines)
<1> DEFINE screen == upper \o lines
           long == Bottom(upper \o lines, 12)
           short == Bottom(lines, 12)
           btw == {"/btw", "esc to close"}
           phrases == {"/btw", "esc to close", "turn", "status"}
<1>1. Within(12, lines, phrases) \subseteq ClaudeHeard(lines)[4]
  <2>1. ClaudeHeard(lines)[4] =
            {"background agents"} \cup Borders(lines) \cup Within(12, lines, phrases)
      BY DEF ClaudeHeard
  <2> QED BY <2>1
<1>2. btw \subseteq phrases /\ "turn" \in phrases
    OBVIOUS
<1>3. /\ ClaudeLiveWorking(lines) <=>
            \/ SaysAll(short, btw) \/ Says(short, "turn")
            \/ ClaudeBackgroundAgentsWorking(lines) \/ ClaudeMcpTasksWorking(short, lines)
      /\ ClaudeLiveWorking(screen) <=>
            \/ SaysAll(long, btw) \/ Says(long, "turn")
            \/ ClaudeBackgroundAgentsWorking(screen) \/ ClaudeMcpTasksWorking(long, screen)
    BY DEF ClaudeLiveWorking, ClaudeBtwIsOpen
<1>4. 12 \in Nat \ {0}
    BY Sizes
<1> HIDE DEF btw, phrases
<1>5. Keeps(long, short)
    BY <1>4, BottomSays
<1>6. ASSUME ~SaysAny(upper, ClaudeHeard(lines)[4]) PROVE Returns(long, short, phrases)
  <2>1. ~SaysAny(upper, Within(12, lines, phrases))
      BY <1>1, <1>6, QuietPart
  <2> QED BY <1>4, <2>1, BottomSays
<1>7. /\ ~SaysAny(upper, ClaudeMissed(lines)[4]) /\ ClaudeMcpTasksWorking(short, lines)
            => ClaudeMcpTasksWorking(long, screen)
      /\ ~SaysAny(upper, ClaudeHeard(lines)[4]) /\ ClaudeMcpTasksWorking(long, screen)
            => ClaudeMcpTasksWorking(short, lines)
    BY ClaudeTasks
<1>8. /\ ~SaysAny(upper, ClaudeMissed(lines)[4]) /\ ClaudeBackgroundAgentsWorking(lines)
            => ClaudeBackgroundAgentsWorking(screen)
      /\ ~SaysAny(upper, ClaudeHeard(lines)[4]) /\ ClaudeBackgroundAgentsWorking(screen)
            => ClaudeBackgroundAgentsWorking(lines)
    BY ClaudeAgents
<1> HIDE DEF screen, long, short
<1>9. (SaysAll(short, btw) => SaysAll(long, btw)) /\ (Says(short, "turn") => Says(long, "turn"))
  <2>1. SaysAll(short, btw) => SaysAll(long, btw)
      BY <1>5 DEF Keeps
  <2> QED BY <1>5, <2>1, SaysPhrase
<1>10. ASSUME ~SaysAny(upper, ClaudeHeard(lines)[4])
       PROVE  (SaysAll(long, btw) => SaysAll(short, btw)) /\ (Says(long, "turn") => Says(short, "turn"))
  <2>1. SaysAll(long, btw) => SaysAll(short, btw)
      BY <1>2, <1>6, <1>10 DEF Returns
  <2>2. Says(long, "turn") => Says(short, "turn")
      BY <1>2, <1>6, <1>10, SaysPhrase
  <2> QED BY <2>1, <2>2
<1>11. /\ ~SaysAny(upper, ClaudeMissed(lines)[4]) /\ ClaudeLiveWorking(lines)
             => ClaudeLiveWorking(screen)
       /\ ~SaysAny(upper, ClaudeHeard(lines)[4]) /\ ClaudeLiveWorking(screen)
             => ClaudeLiveWorking(lines)
    BY <1>3, <1>7, <1>8, <1>9, <1>10
<1> QED BY <1>11 DEF screen

LEMMA ClaudeIdleRule ==
    ASSUME NEW S, NEW upper \in Seq(S), NEW lines \in Seq(S)
    PROVE  /\ ~SaysAny(upper, ClaudeMissed(lines)[5]) /\ ClaudePromptIsIdle(lines)
                => ClaudePromptIsIdle(upper \o lines)
           /\ ~SaysAny(upper, ClaudeHeard(lines)[5]) /\ ClaudePromptIsIdle(upper \o lines)
                => ClaudePromptIsIdle(lines)
<1>1. ClaudeMissed(lines)[5] = Borders(lines) /\ ClaudeHeard(lines)[5] = Borders(lines)
    BY DEF ClaudeMissed, ClaudeHeard
<1>2. ASSUME ~SaysAny(upper, Borders(lines))
      PROVE  ClaudePromptIsIdle(upper \o lines) <=> ClaudePromptIsIdle(lines)
  <2>1. PromptBoxBody(upper \o lines) = PromptBoxBody(lines)
      BY <1>2, BodyBelow
  <2> QED BY <2>1 DEF ClaudePromptIsIdle
<1> QED BY <1>1, <1>2

LEMMA ClaudePickerRule ==
    ASSUME NEW S, NEW upper \in Seq(S), NEW lines \in Seq(S)
    PROVE  /\ ~SaysAny(upper, ClaudeMissed(lines)[6]) /\ ClaudeModelPickerIsOpen(lines)
                => ClaudeModelPickerIsOpen(upper \o lines)
           /\ ~SaysAny(upper, ClaudeHeard(lines)[6]) /\ ClaudeModelPickerIsOpen(upper \o lines)
                => ClaudeModelPickerIsOpen(lines)
<1> DEFINE screen == upper \o lines
           picker == {"select model", "enter to set as default", "esc to cancel"}
           asking == {"do you want to proceed?", "enter to select"}
<1>1. ClaudeHeard(lines)[6] = picker /\ ClaudeMissed(lines)[6] = asking
    BY DEF ClaudeHeard, ClaudeMissed
<1>2. \A text : ClaudeModelPickerIsOpen(text) <=> SaysAll(text, picker) /\ ~SaysAny(text, asking)
    BY DEF ClaudeModelPickerIsOpen
<1>3. picker \subseteq picker /\ asking \subseteq asking
    OBVIOUS
<1> HIDE DEF picker, asking
<1>4. /\ Keeps(screen, lines)
      /\ ~SaysAny(upper, ClaudeHeard(lines)[6]) => Returns(screen, lines, picker)
      /\ ~SaysAny(upper, ClaudeMissed(lines)[6]) => Returns(screen, lines, asking)
    BY <1>1, ScreenSays
<1> HIDE DEF screen
<1>5. /\ SaysAll(lines, picker) => SaysAll(screen, picker)
      /\ SaysAny(lines, asking) => SaysAny(screen, asking)
    BY <1>4 DEF Keeps
<1>6. /\ ~SaysAny(upper, ClaudeHeard(lines)[6]) /\ SaysAll(screen, picker) => SaysAll(lines, picker)
      /\ ~SaysAny(upper, ClaudeMissed(lines)[6]) /\ SaysAny(screen, asking) => SaysAny(lines, asking)
    BY <1>3, <1>4 DEF Returns
<1> QED BY <1>2, <1>5, <1>6 DEF screen

LEMMA ClaudeChoice ==
    ASSUME NEW S, NEW upper \in Seq(S), NEW lines \in Seq(S)
    PROVE  LET long == AfterLastRule(upper \o lines)
               short == AfterLastRule(lines)
           IN  /\ ClaudeChoicePermissionBlocks(short) => ClaudeChoicePermissionBlocks(long)
               /\ ~SaysAny(upper, ClaudeHeard(lines)[7]) /\ ClaudeChoicePermissionBlocks(long)
                     => ClaudeChoicePermissionBlocks(short)
<1> DEFINE long == AfterLastRule(upper \o lines)
           short == AfterLastRule(lines)
           question == {"do you want to proceed?", "esc to cancel"}
           answers == {"1. yes", "2. yes", "2. no", "3. no"}
           marked == {"esc to cancel", "1. yes", "2. yes", "2. no", "3. no"}
           phrases == {"do you want to proceed?"} \cup marked
           others == {"yes", "bash command", "bash(", "contains expansion", "review your answers",
                      "skip interview and plan immediately"}
<1>1. ClaudeHeard(lines)[7] = PermissionPhrases \cup WeakPhrases(lines) \cup others
                                  \cup After("rule", lines, marked)
    BY DEF ClaudeHeard
<1>2. "do you want to proceed?" \in PermissionPhrases
    BY DEF PermissionPhrases
<1>3. question \subseteq phrases /\ answers \subseteq phrases
    OBVIOUS
<1>4. \A text : ClaudeChoicePermissionBlocks(text) <=> SaysAll(text, question) /\ SaysAny(text, answers)
    BY DEF ClaudeChoicePermissionBlocks
<1> HIDE DEF question, answers, marked, others
<1>5. Keeps(long, short)
    BY AfterSays DEF AfterLastRule
<1>6. ASSUME ~SaysAny(upper, ClaudeHeard(lines)[7]) PROVE Returns(long, short, phrases)
  <2>1. After("rule", lines, phrases) \subseteq ClaudeHeard(lines)[7]
      BY <1>1, <1>2 DEF After
  <2>2. ~SaysAny(upper, After("rule", lines, phrases))
      BY <1>6, <2>1, QuietPart
  <2> QED BY <2>2, AfterSays DEF AfterLastRule
<1> HIDE DEF long, short, phrases
<1>7. /\ SaysAll(short, question) => SaysAll(long, question)
      /\ SaysAny(short, answers) => SaysAny(long, answers)
    BY <1>5 DEF Keeps
<1>8. ASSUME ~SaysAny(upper, ClaudeHeard(lines)[7])
      PROVE  /\ SaysAll(long, question) => SaysAll(short, question)
             /\ SaysAny(long, answers) => SaysAny(short, answers)
    BY <1>3, <1>6, <1>8 DEF Returns
<1>9. /\ ClaudeChoicePermissionBlocks(short) => ClaudeChoicePermissionBlocks(long)
      /\ ~SaysAny(upper, ClaudeHeard(lines)[7]) /\ ClaudeChoicePermissionBlocks(long)
            => ClaudeChoicePermissionBlocks(short)
    BY <1>4, <1>7, <1>8
<1> QED BY <1>9 DEF long, short

LEMMA ClaudeCommand ==
    ASSUME NEW S, NEW upper \in Seq(S), NEW lines \in Seq(S)
    PROVE  /\ ClaudeCommandPermissionBlocks(lines) => ClaudeCommandPermissionBlocks(upper \o lines)
           /\ ~SaysAny(upper, ClaudeHeard(lines)[7]) /\ ClaudeCommandPermissionBlocks(upper \o lines)
                => ClaudeCommandPermissionBlocks(lines)
<1> DEFINE screen == upper \o lines
           commands == {"bash command", "bash(", "contains expansion", "tab to amend",
                        "ctrl+e to explain"}
           others == {"yes", "bash command", "bash(", "contains expansion", "review your answers",
                      "skip interview and plan immediately"}
           phrases == PermissionPhrases \cup others
<1>1. phrases \subseteq ClaudeHeard(lines)[7]
  <2>1. ClaudeHeard(lines)[7] = PermissionPhrases \cup WeakPhrases(lines) \cup others
            \cup After("rule", lines, {"esc to cancel", "1. yes", "2. yes", "2. no", "3. no"})
      BY DEF ClaudeHeard
  <2> HIDE DEF others
  <2> QED BY <2>1
<1>2. "do you want to proceed?" \in phrases /\ "yes" \in phrases /\ commands \subseteq phrases
    BY DEF PermissionPhrases
<1>3. \A text : ClaudeCommandPermissionBlocks(text) <=>
          Says(text, "do you want to proceed?") /\ SaysAny(text, commands) /\ Says(text, "yes")
    BY DEF ClaudeCommandPermissionBlocks
<1> HIDE DEF commands, phrases
<1>4. Keeps(screen, lines)
    BY ScreenSays
<1>5. ASSUME ~SaysAny(upper, ClaudeHeard(lines)[7]) PROVE Returns(screen, lines, phrases)
    BY <1>1, <1>5, QuietPart, ScreenSays
<1> HIDE DEF screen
<1>6. SaysAny(lines, commands) => SaysAny(screen, commands)
    BY <1>4 DEF Keeps
<1>7. \A p : Says(lines, p) => Says(screen, p)
    BY <1>4, SaysPhrase
<1>8. ASSUME ~SaysAny(upper, ClaudeHeard(lines)[7])
      PROVE  /\ SaysAny(screen, commands) => SaysAny(lines, commands)
             /\ \A p \in phrases : Says(screen, p) => Says(lines, p)
  <2>1. SaysAny(screen, commands) => SaysAny(lines, commands)
      BY <1>2, <1>5, <1>8 DEF Returns
  <2>2. \A p \in phrases : Says(screen, p) => Says(lines, p)
      BY <1>5, <1>8, SaysPhrase
  <2> QED BY <2>1, <2>2
<1>9. ClaudeCommandPermissionBlocks(lines) => ClaudeCommandPermissionBlocks(screen)
    BY <1>3, <1>6, <1>7
<1>10. ~SaysAny(upper, ClaudeHeard(lines)[7]) /\ ClaudeCommandPermissionBlocks(screen)
            => ClaudeCommandPermissionBlocks(lines)
    BY <1>2, <1>3, <1>8
<1> QED BY <1>9, <1>10 DEF screen

LEMMA ClaudeLegacy ==
    ASSUME NEW S, NEW upper \in Seq(S), NEW lines \in Seq(S)
    PROVE  /\ ~SaysAny(upper, ClaudeMissed(lines)[7]) /\ LegacyClaudeBlocker(lines)
                => LegacyClaudeBlocker(upper \o lines)
           /\ ~SaysAny(upper, ClaudeHeard(lines)[7]) /\ LegacyClaudeBlocker(upper \o lines)
                => LegacyClaudeBlocker(lines)
<1> DEFINE screen == upper \o lines
           asking == {"waiting for permission", "do you want to allow this connection?",
                      "tab to amend", "ctrl+e to explain", "do you want to proceed?",
                      "review your answers", "skip interview and plan immediately"}
           others == {"yes", "bash command", "bash(", "contains expansion", "review your answers",
                      "skip interview and plan immediately"}
           phrases == PermissionPhrases \cup WeakPhrases(lines) \cup others
<1>1. phrases \subseteq ClaudeHeard(lines)[7] /\ ClaudeMissed(lines)[7] = {"prompt alone"}
  <2>1. ClaudeHeard(lines)[7] = PermissionPhrases \cup WeakPhrases(lines) \cup others
            \cup After("rule", lines, {"esc to cancel", "1. yes", "2. yes", "2. no", "3. no"})
      BY DEF ClaudeHeard
  <2>2. ClaudeMissed(lines)[7] = {"prompt alone"}
      BY DEF ClaudeMissed
  <2> HIDE DEF others
  <2> QED BY <2>1, <2>2
<1>2. asking \subseteq phrases
    BY DEF PermissionPhrases
<1>3. WeakPhrases(lines) \subseteq phrases
    OBVIOUS
<1>4. \A text : LegacyClaudeBlocker(text) <=>
          ~Says(text, "prompt alone") /\ (WeakBlocker(text) \/ SaysAny(text, asking))
    BY DEF LegacyClaudeBlocker
<1> HIDE DEF asking, phrases
<1>5. Keeps(screen, lines)
    BY ScreenSays
<1>6. ASSUME ~SaysAny(upper, ClaudeHeard(lines)[7]) PROVE Returns(screen, lines, phrases)
    BY <1>1, <1>6, QuietPart, ScreenSays
<1>7. ASSUME ~SaysAny(upper, ClaudeMissed(lines)[7]) PROVE Returns(screen, lines, {"prompt alone"})
    BY <1>1, <1>7, ScreenSays
<1> HIDE DEF screen
<1>8. /\ SaysAny(lines, asking) => SaysAny(screen, asking)
      /\ Says(lines, "prompt alone") => Says(screen, "prompt alone")
      /\ WeakBlocker(lines) => WeakBlocker(screen)
  <2>1. SaysAny(lines, asking) => SaysAny(screen, asking)
      BY <1>5 DEF Keeps
  <2> QED BY <1>5, <2>1, SaysPhrase, WeakKeeps
<1>9. ASSUME ~SaysAny(upper, ClaudeMissed(lines)[7]), Says(screen, "prompt alone")
      PROVE  Says(lines, "prompt alone")
    BY <1>7, <1>9, SaysPhrase
<1>10. ASSUME ~SaysAny(upper, ClaudeHeard(lines)[7])
       PROVE  /\ SaysAny(screen, asking) => SaysAny(lines, asking)
              /\ WeakBlocker(screen) => WeakBlocker(lines)
  <2>1. SaysAny(screen, asking) => SaysAny(lines, asking)
      BY <1>2, <1>6, <1>10 DEF Returns
  <2>2. WeakBlocker(screen) => WeakBlocker(lines)
      BY <1>3, <1>6, <1>10, WeakReturns
  <2> QED BY <2>1, <2>2
<1>11. ~SaysAny(upper, ClaudeMissed(lines)[7]) /\ LegacyClaudeBlocker(lines)
            => LegacyClaudeBlocker(screen)
    BY <1>4, <1>8, <1>9
<1>12. ~SaysAny(upper, ClaudeHeard(lines)[7]) /\ LegacyClaudeBlocker(screen)
            => LegacyClaudeBlocker(lines)
    BY <1>4, <1>8, <1>10
<1> QED BY <1>11, <1>12 DEF screen

LEMMA ClaudePermissionRule ==
    ASSUME NEW S, NEW upper \in Seq(S), NEW lines \in Seq(S)
    PROVE  LET screen == upper \o lines
               long == AfterLastRule(upper \o lines)
               short == AfterLastRule(lines)
           IN  /\ ~SaysAny(upper, ClaudeMissed(lines)[7]) /\ ClaudePermissionBlocks(lines, short)
                     => ClaudePermissionBlocks(screen, long)
               /\ ~SaysAny(upper, ClaudeHeard(lines)[7]) /\ ClaudePermissionBlocks(screen, long)
                     => ClaudePermissionBlocks(lines, short)
BY ClaudeCommand, ClaudeChoice, ClaudeLegacy DEF ClaudePermissionBlocks

LEMMA ClaudeDecides ==
    ASSUME NEW S, NEW upper \in Seq(S), NEW lines \in Seq(S), NEW title,
           LET k == Deciding(ClaudeRules(title, lines))
           IN ~SaysAny(upper, (UNION {ClaudeHeard(lines)[i] : i \in 1..k - 1}) \cup ClaudeMissed(lines)[k])
    PROVE  Outcome(ClaudeRules(title, upper \o lines)) = Outcome(ClaudeRules(title, lines))
<1> DEFINE own == ClaudeRules(title, lines)
           screen == ClaudeRules(title, upper \o lines)
           heard == ClaudeHeard(lines)
           missed == ClaudeMissed(lines)
<1>1. ClaudeCases(own, title, lines) /\ ClaudeCases(screen, title, upper \o lines)
    BY ClaudeTable
<1>2. ~SaysAny(upper, (UNION {heard[i] : i \in 1..Deciding(own) - 1}) \cup missed[Deciding(own)])
    OBVIOUS
<1> HIDE DEF own, screen, heard, missed
<1>3. /\ own[2][1] => screen[2][1]
      /\ ~SaysAny(upper, heard[2]) /\ screen[2][1] => own[2][1]
    BY <1>1, ClaudeTranscriptRule DEF heard, ClaudeCases
<1>4. /\ own[3][1] => screen[3][1]
      /\ ~SaysAny(upper, heard[3]) /\ screen[3][1] => own[3][1]
    BY <1>1, ClaudeBlockerRule DEF heard, ClaudeCases
<1>5. /\ ~SaysAny(upper, missed[4]) /\ own[4][1] => screen[4][1]
      /\ ~SaysAny(upper, heard[4]) /\ screen[4][1] => own[4][1]
    BY <1>1, ClaudeWorkingRule DEF heard, missed, ClaudeCases
<1>6. /\ ~SaysAny(upper, missed[5]) /\ own[5][1] => screen[5][1]
      /\ ~SaysAny(upper, heard[5]) /\ screen[5][1] => own[5][1]
    BY <1>1, ClaudeIdleRule DEF heard, missed, ClaudeCases
<1>7. /\ ~SaysAny(upper, missed[6]) /\ own[6][1] => screen[6][1]
      /\ ~SaysAny(upper, heard[6]) /\ screen[6][1] => own[6][1]
    BY <1>1, ClaudePickerRule DEF heard, missed, ClaudeCases
<1>8. /\ ~SaysAny(upper, missed[7]) /\ own[7][1] => screen[7][1]
      /\ ~SaysAny(upper, heard[7]) /\ screen[7][1] => own[7][1]
    BY <1>1, ClaudePermissionRule DEF heard, missed, ClaudeCases
<1>9. \A i \in 1..9 : i \in {1, 8, 9} \/ i = 2 \/ i = 3 \/ i = 4 \/ i = 5 \/ i = 6 \/ i = 7
    OBVIOUS
<1>10. \A i \in {1, 8, 9} : own[i][1] <=> screen[i][1]
    BY <1>1 DEF ClaudeCases
<1>11. /\ \A i \in 1..9 : ~SaysAny(upper, heard[i]) /\ screen[i][1] => own[i][1]
       /\ \A i \in 1..9 : ~SaysAny(upper, missed[i]) /\ own[i][1] => screen[i][1]
    BY <1>3, <1>4, <1>5, <1>6, <1>7, <1>8, <1>9, <1>10
<1>12. \A i \in 1..9 : screen[i][2] = own[i][2]
  <2>1. \A i \in 1..9 : i = 1 \/ i = 2 \/ i = 3 \/ i = 4 \/ i = 5 \/ i = 6 \/ i = 7 \/ i = 8 \/ i = 9
      OBVIOUS
  <2>2. /\ screen[1][2] = own[1][2] /\ screen[2][2] = own[2][2] /\ screen[3][2] = own[3][2]
        /\ screen[4][2] = own[4][2] /\ screen[5][2] = own[5][2]
      BY <1>1 DEF ClaudeCases
  <2>3. /\ screen[6][2] = own[6][2] /\ screen[7][2] = own[7][2]
        /\ screen[8][2] = own[8][2] /\ screen[9][2] = own[9][2]
      BY <1>1 DEF ClaudeCases
  <2> QED BY <2>1, <2>2, <2>3
<1>13. 9 \in Nat \ {0}
    BY Sizes
<1>14. Outcome(screen) = Outcome(own)
  <2>1. DOMAIN own = 1..9 /\ DOMAIN screen = 1..9 /\ own[9][1]
      BY <1>1 DEF ClaudeCases
  <2>2. Follows(screen, own, 9, heard, missed, upper)
      BY <1>11, <1>12, <2>1 DEF Follows
  <2> QED BY <1>2, <1>13, <2>2, SameOutcome
<1> QED BY <1>14 DEF own, screen

-----------------------------------------------------------------------------
(* The screen of an agent *)

\* Whatever the tool, what misleads its rules is all that the lines above can do.
LEMMA LinesDecide ==
    ASSUME NEW S, NEW upper \in Seq(S), NEW lines \in Seq(S), NEW title,
           NEW tool \in {"pi", "codex", "claude"},
           tool = "codex" => (SaysAll(Top(lines, 20), TrustQuestion) => Len(upper \o lines) <= 20),
           ~SaysAny(upper, Misleading(tool, title, lines))
    PROVE  Detect(tool, title, upper \o lines) = Detect(tool, title, lines)
<1>1. CASE tool = "pi"
  <2> DEFINE k == Deciding(PiRules(lines))
  <2>1. \A screen : Rules(tool, title, screen) = PiRules(screen)
      BY <1>1 DEF Rules
  <2>2. Misleading(tool, title, lines) =
            (UNION {PiHeard(lines)[i] : i \in 1..k - 1}) \cup PiMissed(lines)[k]
      BY <1>1, <2>1 DEF Misleading
  <2> QED BY <2>1, <2>2, PiDecides DEF Detect
<1>2. CASE tool = "codex"
  <2> DEFINE k == Deciding(CodexRules(title, lines))
  <2>1. \A screen : Rules(tool, title, screen) = CodexRules(title, screen)
      BY <1>2 DEF Rules
  <2>2. Misleading(tool, title, lines) =
            (UNION {CodexHeard(lines)[i] : i \in 1..k - 1}) \cup CodexMissed(lines)[k]
      BY <1>2, <2>1 DEF Misleading
  <2> QED BY <1>2, <2>1, <2>2, CodexDecides DEF Detect
<1>3. CASE tool = "claude"
  <2> DEFINE k == Deciding(ClaudeRules(title, lines))
  <2>1. \A screen : Rules(tool, title, screen) = ClaudeRules(title, screen)
      BY <1>3 DEF Rules
  <2>2. Misleading(tool, title, lines) =
            (UNION {ClaudeHeard(lines)[i] : i \in 1..k - 1}) \cup ClaudeMissed(lines)[k]
      BY <1>3, <2>1 DEF Misleading
  <2> QED BY <2>1, <2>2, ClaudeDecides DEF Detect
<1> QED BY <1>1, <1>2, <1>3

\* What is above the live form is text, as much as the screen holds.
Screenful ==
    form \in Forms /\ above \in Seq(SUBSET STRING) /\ Len(above) <= Height

LEMMA Scrolling ==
    ASSUME NEW S, NEW lines \in Seq(S), Height \in Nat
    PROVE  Scrolled(lines) \in Seq(S) /\ Len(Scrolled(lines)) <= Height
<1>1. CASE Len(lines) <= Height
    BY <1>1 DEF Scrolled
<1>2. CASE ~(Len(lines) <= Height)
  <2> DEFINE a == Len(lines) - Height + 1
  <2>1. a \in 1..Len(lines) + 1 /\ a \in Nat /\ Len(lines) \in Nat /\ Len(lines) - a + 1 = Height
      BY <1>2
  <2>2. Scrolled(lines) = SubSeq(lines, a, Len(lines))
      BY <1>2 DEF Scrolled
  <2> HIDE DEF a
  <2> QED BY <2>1, <2>2
<1> QED BY <1>1, <1>2

LEMMA ScreenfulHolds == ScreenSpec => []Screenful
<1>1. ScreenInit => Screenful
    BY FormsStandAlone DEF ScreenInit, Screenful
<1>2. Screenful /\ [ScreenNext]_screenVars => Screenful'
  <2> SUFFICES ASSUME Screenful, [ScreenNext]_screenVars PROVE Screenful'
      OBVIOUS
  <2>1. Height \in Nat
      BY FormsStandAlone
  <2>2. CASE Prints
    <3>1. PICK line \in Talk[form.tool] : above' = Scrolled(Append(above, line))
        BY <2>2 DEF Prints
    <3>2. line \in SUBSET STRING
        BY <3>1, FormsStandAlone DEF Screenful
    <3>3. Append(above, line) \in Seq(SUBSET STRING)
        BY <3>2 DEF Screenful
    <3> QED BY <2>1, <2>2, <3>1, <3>3, Scrolling DEF Prints, Screenful
  <2>3. CASE Redraws
    <3>1. form' \in Forms /\ above' = Scrolled(above \o form.stays)
        BY <2>3 DEF Redraws
    <3>2. above \o form.stays \in Seq(SUBSET STRING)
        BY FormsStandAlone DEF Screenful
    <3> QED BY <2>1, <3>1, <3>2, Scrolling DEF Screenful
  <2>4. CASE UNCHANGED screenVars
      BY <2>4 DEF screenVars, Screenful
  <2> QED BY <2>2, <2>3, <2>4 DEF ScreenNext
<1> QED BY <1>1, <1>2, PTL DEF ScreenSpec

\* For any live forms that are detected as they should when alone on the screen, and any
\* conversation: whatever has been printed, scrolled away or answered before, the live form
\* is detected as if it were alone, unless the lines above say a phrase that Misleading
\* names for it (detect_codex, detect_claude and detect_pi on the capture of a pane).
THEOREM LiveFormAlwaysDecides == ScreenSpec => []LiveFormDecides
<1>1. Screenful => LiveFormDecides
  <2> SUFFICES ASSUME Screenful, ~SaysAny(above, Misleading(form.tool, form.title, form.lines))
               PROVE  Detect(form.tool, form.title, above \o form.lines) = form.frame
      BY DEF LiveFormDecides
  <2>1. /\ Height \in Nat /\ form.tool \in {"pi", "codex", "claude"}
        /\ form.lines \in Seq(SUBSET STRING)
        /\ Detect(form.tool, form.title, form.lines) = form.frame
        /\ SaysAll(Top(form.lines, 20), TrustQuestion) => Height + Len(form.lines) <= 20
      BY FormsStandAlone DEF Screenful
  <2>2. above \in Seq(SUBSET STRING) /\ Len(above) <= Height
      BY DEF Screenful
  <2>3. SaysAll(Top(form.lines, 20), TrustQuestion) => Len(above \o form.lines) <= 20
    <3>1. Len(above \o form.lines) = Len(above) + Len(form.lines) /\ Len(above) \in Nat
          /\ Len(form.lines) \in Nat
        BY <2>1, <2>2
    <3> QED BY <2>1, <2>2, <3>1
  <2> QED BY <2>1, <2>2, <2>3, LinesDecide
<1> QED BY <1>1, ScreenfulHolds, PTL
=============================================================================
