------------------------ MODULE EventRecords_proofs ------------------------
(***************************************************************************)
(* Proofs about the event-owned records, for any tools, panes, sessions,   *)
(* number of generations and reports, and any bound on what is remembered. *)
(***************************************************************************)
EXTENDS EventRecords, FiniteSetTheorems, TLAPS

\* A generation is remembered as retired at most once.
RetiredOnce == \A t1, t2 \in retired : t1.key = t2.key => t1 = t2

\* Nothing runs in a closed pane, and its options are gone with it.
ClosedPanesAreEmpty ==
    \A p \in Panes : session[p] = None => process[p] = None /\ mirror[p] = None

\* The inductive invariant. RetiredStayGone alone is not inductive: taking a
\* record's pane over retires the records in its way, and only because there is
\* one record per pane and tool is the record that is left not among them.
IInv ==
    /\ TypeOK
    /\ OneGenerationPerPane
    /\ RetiredStayGone
    /\ RetiredOnce
    /\ ClosedPanesAreEmpty

-----------------------------------------------------------------------------
(* What retiring and pruning leave behind *)

LEMMA MaxAgeType == MaxAge \in Nat
  BY EventAssumption DEF MaxAge

LEMMA KeyOfType == \A r \in AgentRecords : KeyOf(r) \in Keys
  BY DEF AgentRecords, KeyOf, Keys

LEMMA KeyOfEqual ==
  \A r1, r2 : KeyOf(r1) = KeyOf(r2) <=>
               r1.tool = r2.tool /\ r1.pane = r2.pane /\ r1.generation = r2.generation
  BY DEF KeyOf

\* With one record per tool and pane, a key names one record.
LEMMA KeyNamesRecord ==
  ASSUME IInv, NEW r1 \in agents, NEW r2 \in agents, KeyOf(r1) = KeyOf(r2)
  PROVE  r1 = r2
  BY KeyOfEqual DEF IInv, OneGenerationPerPane

\* Retiring keys remembers at most those keys and what was known, each once.
LEMMA RetiringKeepsTypes ==
  ASSUME NEW keys, keys \subseteq Keys,
         NEW known, known \subseteq RetiredRecords,
         \A t1, t2 \in known : t1.key = t2.key => t1 = t2,
         NEW kept \in Retiring(keys, known)
  PROVE  /\ kept \subseteq RetiredRecords
         /\ RetiredKeys(kept) \subseteq RetiredKeys(known) \cup keys
         /\ \A t1, t2 \in kept : t1.key = t2.key => t1 = t2
<1> DEFINE new == {[key |-> k, age |-> 0] : k \in keys}
           all == {t \in known : t.key \notin keys} \cup new
<1>1. kept \subseteq all
  BY DEF Retiring
<1>2. new \subseteq RetiredRecords
  BY EventAssumption DEF RetiredRecords
<1>3. \A t \in new : t.key \in keys /\ t = [key |-> t.key, age |-> 0]
  OBVIOUS
<1>4. kept \subseteq RetiredRecords
  BY <1>1, <1>2
<1>5. RetiredKeys(kept) \subseteq RetiredKeys(known) \cup keys
  BY <1>1, <1>3 DEF RetiredKeys
<1>6. ASSUME NEW t1 \in kept, NEW t2 \in kept, t1.key = t2.key
      PROVE  t1 = t2
  <2>1. CASE t1 \in new
    <3>1. t2 \in new
      BY <1>1, <1>3, <1>6, <2>1
    <3> QED
      BY <1>3, <1>6, <2>1, <3>1
  <2>2. CASE t1 \notin new
    <3>1. t1 \in known /\ t1.key \notin keys
      BY <1>1, <2>2
    <3>2. t2 \in known
      BY <1>1, <1>3, <1>6, <3>1
    <3> QED
      BY <1>6, <3>1, <3>2
  <2> QED
    BY <2>1, <2>2
<1> QED
  BY <1>4, <1>5, <1>6

LEMMA RetiringAgesAreNat == \A t \in RetiredRecords : t.age \in Nat
  BY EventAssumption DEF RetiredRecords

LEMMA PruningForgets ==
  ASSUME IInv
  PROVE  /\ Unpruned \subseteq RetiredRecords
         /\ \A t1, t2 \in Unpruned : t1.key = t2.key => t1 = t2
         /\ RetiredKeys(Unpruned) \subseteq RetiredKeys(retired)
BY DEF IInv, TypeOK, RetiredOnce, Unpruned, RetiredKeys

-----------------------------------------------------------------------------
(* The environment touches no record. *)

LEMMA EnvironmentKeeps ==
  ASSUME IInv, Environment
  PROVE  TypeOK' /\ ClosedPanesAreEmpty'
<1> USE EventAssumption DEF IInv, TypeOK, ClosedPanesAreEmpty
<1>1. ASSUME NEW p \in Panes, ProcessStarts(p)
      PROVE  TypeOK' /\ ClosedPanesAreEmpty'
  <2>1. PICK tool \in Tools :
           /\ process' = [process EXCEPT ![p] =
                 [tool |-> tool, generation |-> started[p] + 1, sequence |-> 0]]
           /\ mirror' \in {mirror, [mirror EXCEPT ![p] =
                 [tool |-> tool, generation |-> 0, sequence |-> 0, state |-> "idle"]]}
    BY <1>1 DEF ProcessStarts
  <2>2. started[p] + 1 \in 1..MaxGeneration
    BY <1>1 DEF ProcessStarts, Generations
  <2>3. [tool |-> tool, generation |-> started[p] + 1, sequence |-> 0] \in Processes
    BY <2>2 DEF Processes, Sequences
  <2>4. [tool |-> tool, generation |-> 0, sequence |-> 0, state |-> "idle"] \in Mirrors
    BY DEF Mirrors, Generations, Sequences, AgentStates
  <2>5. started' \in [Panes -> Generations]
    BY <1>1, <2>2 DEF ProcessStarts, Generations
  <2> QED
    BY <1>1, <2>1, <2>3, <2>4, <2>5 DEF ProcessStarts
<1>2. ASSUME NEW p \in Panes, ProcessReports(p)
      PROVE  TypeOK' /\ ClosedPanesAreEmpty'
  <2> DEFINE q == process[p]
  <2>1. PICK state \in ReportedStates :
           /\ process' = [process EXCEPT ![p].sequence = @ + 1]
           /\ mirror' = [mirror EXCEPT ![p] =
                 [tool |-> q.tool, generation |-> q.generation,
                  sequence |-> q.sequence + 1, state |-> state]]
           /\ messages' = messages \cup
                 {[type |-> "report", tool |-> q.tool, pane |-> p,
                   generation |-> q.generation, session |-> session[p],
                   sequence |-> q.sequence + 1, state |-> state]}
    BY <1>2 DEF ProcessReports, Sends
  <2>2. q \in Processes /\ q.sequence + 1 \in Sequences /\ state \in AgentStates
    BY <1>2 DEF ProcessReports, Processes, Sequences
  <2>3. process' \in [Panes -> Processes \cup {None}]
    <3>1. [q EXCEPT !.sequence = @ + 1] \in Processes
      BY <2>2 DEF Processes
    <3> QED
      BY <2>1, <3>1
  <2>4. mirror' \in [Panes -> Mirrors \cup {None}]
    <3>1. [tool |-> q.tool, generation |-> q.generation,
           sequence |-> q.sequence + 1, state |-> state] \in Mirrors
      BY <2>2 DEF Processes, Mirrors, Generations
    <3> QED
      BY <2>1, <3>1
  <2>5. session[p] \in Sessions
    BY <1>2 DEF ProcessReports
  <2>6. messages' \subseteq Reports \cup PaneExits \cup SessionExits
    <3>1. [type |-> "report", tool |-> q.tool, pane |-> p,
           generation |-> q.generation, session |-> session[p],
           sequence |-> q.sequence + 1, state |-> state] \in Reports
      BY <2>2, <2>5 DEF Processes, Reports
    <3> QED
      BY <2>1, <3>1
  <2> QED
    BY <1>2, <2>3, <2>4, <2>6 DEF ProcessReports
<1>3. ASSUME NEW p \in Panes, ProcessExits(p) \/ PaneMoves(p)
      PROVE  TypeOK' /\ ClosedPanesAreEmpty'
  BY <1>3 DEF ProcessExits, PaneMoves
<1>4. ASSUME NEW panes, Closes(panes)
      PROVE  /\ session' \in [Panes -> Sessions \cup {None}]
             /\ process' \in [Panes -> Processes \cup {None}]
             /\ mirror' \in [Panes -> Mirrors \cup {None}]
             /\ UNCHANGED <<started, agents, retired>>
             /\ ClosedPanesAreEmpty'
  BY <1>4 DEF Closes
<1>5. ASSUME NEW p \in Panes, PaneCloses(p)
      PROVE  TypeOK' /\ ClosedPanesAreEmpty'
  <2>1. [type |-> "exited", pane |-> p] \in PaneExits
    BY DEF PaneExits
  <2> QED
    BY <1>4, <1>5, <2>1 DEF PaneCloses, Sends
<1>6. ASSUME NEW s \in Sessions, SessionKilled(s)
      PROVE  TypeOK' /\ ClosedPanesAreEmpty'
  <2>1. [type |-> "exited", session |-> s] \in SessionExits
    BY DEF SessionExits
  <2> QED
    BY <1>4, <1>6, <2>1 DEF SessionKilled, Sends
<1>7. ASSUME NEW m \in messages, MessageLost(m)
      PROVE  TypeOK' /\ ClosedPanesAreEmpty'
  BY <1>7 DEF MessageLost, environment
<1> QED
  BY <1>1, <1>2, <1>3, <1>5, <1>6, <1>7 DEF Environment

\* No step of the environment touches a record or what is retired.
LEMMA EnvironmentTouchesNoRecord ==
  ASSUME Environment
  PROVE  UNCHANGED <<agents, retired>>
BY DEF Environment, ProcessStarts, ProcessReports, ProcessExits, PaneMoves,
       PaneCloses, SessionKilled, Closes, MessageLost

-----------------------------------------------------------------------------
(* The handlers *)

\* Removing records and retiring their keys, with other records retyped but
\* not renamed, keeps the three facts about records. This is what apply_exit
\* and remove_exited_records do.
LEMMA RetireRemoved ==
  ASSUME IInv,
         NEW gone, gone \subseteq agents,
         agents' \subseteq AgentRecords,
         \A r2 \in agents' : \E r1 \in agents \ gone : KeyOf(r2) = KeyOf(r1),
         \A r1, r2 \in agents' : KeyOf(r1) = KeyOf(r2) => r1 = r2,
         retired' \in Retiring({KeyOf(r) : r \in gone}, Unpruned)
  PROVE  /\ retired' \subseteq RetiredRecords
         /\ OneGenerationPerPane' /\ RetiredStayGone' /\ RetiredOnce'
<1> DEFINE keys == {KeyOf(r) : r \in gone}
<1>1. keys \subseteq Keys
  BY KeyOfType DEF IInv, TypeOK
<1>2. /\ retired' \subseteq RetiredRecords
      /\ RetiredKeys(retired') \subseteq RetiredKeys(Unpruned) \cup keys
      /\ RetiredOnce'
  <2>1. retired' \in Retiring(keys, Unpruned)
    OBVIOUS
  <2> HIDE DEF keys
  <2> QED
    BY <1>1, <2>1, PruningForgets, RetiringKeepsTypes DEF RetiredOnce
<1>3. OneGenerationPerPane'
  <2> SUFFICES ASSUME NEW r1 \in agents', NEW r2 \in agents',
                      r1.tool = r2.tool, r1.pane = r2.pane
               PROVE  r1 = r2
    BY DEF OneGenerationPerPane
  <2>1. PICK q1 \in agents : KeyOf(q1) = KeyOf(r1)
    OBVIOUS
  <2>2. PICK q2 \in agents : KeyOf(q2) = KeyOf(r2)
    OBVIOUS
  <2>3. q1 = q2
    BY <2>1, <2>2, KeyOfEqual DEF IInv, OneGenerationPerPane
  <2> QED
    BY <2>1, <2>2, <2>3
<1>4. RetiredStayGone'
  <2> SUFFICES ASSUME NEW r \in agents', KeyOf(r) \in RetiredKeys(retired')
               PROVE  FALSE
    BY DEF RetiredStayGone
  <2>1. PICK q \in agents \ gone : KeyOf(r) = KeyOf(q)
    OBVIOUS
  <2>2. KeyOf(q) \notin RetiredKeys(Unpruned)
    BY PruningForgets DEF IInv, RetiredStayGone
  <2>3. KeyOf(q) \notin keys
    BY KeyNamesRecord
  <2> QED
    BY <1>2, <2>1, <2>2, <2>3
<1> QED
  BY <1>2, <1>3, <1>4

LEMMA ApplyReportKeeps ==
  ASSUME IInv, NEW m \in messages, ApplyReport(m)
  PROVE  IInv'
<1> USE DEF ApplyReport
<1>1. m \in Reports /\ UNCHANGED environment /\ messages' \subseteq messages
  OBVIOUS
<1>2. agents' \subseteq AgentRecords /\ retired' \subseteq RetiredRecords
        => TypeOK' /\ ClosedPanesAreEmpty'
  BY <1>1 DEF IInv, TypeOK, ClosedPanesAreEmpty, environment
<1>3. CASE IsRetired(m)
  BY <1>2, <1>3, PruningForgets
     DEF IInv, TypeOK, OneGenerationPerPane, RetiredStayGone, RetiredOnce
<1>4. CASE ~IsRetired(m)
  <2> DEFINE keys == {KeyOf(r) : r \in Reused(m)}
  <2>1. keys \subseteq Keys
    BY KeyOfType DEF IInv, TypeOK, Reused
  <2>2. /\ retired' \subseteq RetiredRecords
        /\ RetiredKeys(retired') \subseteq RetiredKeys(Unpruned) \cup keys
        /\ RetiredOnce'
    <3>1. retired' \in Retiring(keys, Unpruned)
      BY <1>4
    <3> HIDE DEF keys, ApplyReport
    <3> QED
      BY <2>1, <3>1, PruningForgets, RetiringKeepsTypes DEF RetiredOnce
  <2>3. RecordOf(m) \in AgentRecords /\ KeyOf(RecordOf(m)) = KeyOf(m)
    BY <1>1, MaxAgeType DEF RecordOf, AgentRecords, Reports, Generations, KeyOf
  <2>4. agents' \subseteq (agents \ Reused(m)) \cup {RecordOf(m)}
    BY <1>4
  <2>5. RecordOf(m) \notin agents'
        \/ \A r \in agents' : KeyOf(r) = KeyOf(m) => r = RecordOf(m)
    <3>1. CASE IsStale(m)
      <4>1. agents' = agents \ Reused(m)
        BY <1>4, <3>1
      <4> QED
        BY <2>3, <4>1, KeyNamesRecord
    <3>2. CASE ~IsStale(m)
      BY <1>4, <2>3, <3>2 DEF Current
    <3> QED
      BY <3>1, <3>2
  <2>6. agents' \subseteq AgentRecords
    BY <2>3, <2>4 DEF IInv, TypeOK
  <2>7. OneGenerationPerPane'
    <3> SUFFICES ASSUME NEW r1 \in agents', NEW r2 \in agents',
                        r1.tool = r2.tool, r1.pane = r2.pane
                 PROVE  r1 = r2
      BY DEF OneGenerationPerPane
    <3>1. \A r \in agents' : r.tool = m.tool /\ r.pane = m.pane => KeyOf(r) = KeyOf(m)
      BY <2>3, <2>4, KeyOfEqual DEF Reused
    <3>2. CASE r1 = RecordOf(m) \/ r2 = RecordOf(m)
      <4>1. r1.tool = m.tool /\ r1.pane = m.pane /\ r2.tool = m.tool /\ r2.pane = m.pane
        BY <3>2 DEF RecordOf
      <4> QED
        BY <2>5, <3>1, <3>2, <4>1
    <3>3. CASE r1 # RecordOf(m) /\ r2 # RecordOf(m)
      BY <2>4, <3>3 DEF IInv, OneGenerationPerPane
    <3> QED
      BY <3>2, <3>3
  <2>8. RetiredStayGone'
    <3> SUFFICES ASSUME NEW r \in agents', KeyOf(r) \in RetiredKeys(retired')
                 PROVE  FALSE
      BY DEF RetiredStayGone
    <3>1. CASE r = RecordOf(m)
      <4>1. KeyOf(m) \notin keys
        BY KeyOfEqual DEF Reused
      <4> QED
        BY <1>4, <2>2, <2>3, <3>1, <4>1 DEF IsRetired
    <3>2. CASE r # RecordOf(m)
      <4>1. r \in agents \ Reused(m)
        BY <2>4, <3>2
      <4>2. KeyOf(r) \notin RetiredKeys(Unpruned)
        BY <4>1, PruningForgets DEF IInv, RetiredStayGone
      <4>3. KeyOf(r) \notin keys
        BY <4>1, KeyNamesRecord DEF Reused
      <4> QED
        BY <2>2, <4>2, <4>3
    <3> QED
      BY <3>1, <3>2
  <2> QED
    BY <1>2, <2>2, <2>6, <2>7, <2>8 DEF IInv
<1> QED
  BY <1>3, <1>4

LEMMA ApplyExitKeeps ==
  ASSUME IInv, NEW m \in messages, ApplyExit(m)
  PROVE  IInv'
<1> DEFINE exited == {r \in agents : Matches(r, m)}
<1>1. /\ retired' \in Retiring({KeyOf(r) : r \in exited}, Unpruned)
      /\ agents' = agents \ exited
      /\ messages' \subseteq messages /\ UNCHANGED environment
  BY DEF ApplyExit
<1>2. \A r1, r2 \in agents' : KeyOf(r1) = KeyOf(r2) => r1 = r2
  BY <1>1, KeyNamesRecord
<1>3. /\ retired' \subseteq RetiredRecords
      /\ OneGenerationPerPane' /\ RetiredStayGone' /\ RetiredOnce'
  <2>1. agents' \subseteq AgentRecords
    BY <1>1 DEF IInv, TypeOK
  <2> QED
    BY <1>1, <1>2, <2>1, RetireRemoved
<1> QED
  BY <1>1, <1>3 DEF IInv, TypeOK, ClosedPanesAreEmpty, environment

LEMMA ScanKeeps ==
  ASSUME IInv, Scan
  PROVE  IInv'
<1> DEFINE moved(r) == [r EXCEPT !.session = session[r.pane]]
<1>1. /\ agents' = {moved(r) : r \in Unexpired \ Exited}
      /\ retired' \in Retiring({KeyOf(r) : r \in Exited}, Unpruned)
      /\ UNCHANGED <<environment, messages>>
  BY DEF Scan
<1>2. Unexpired \subseteq agents /\ Exited \subseteq Unexpired
      /\ \A r \in Unexpired \ Exited : session[r.pane] # None
  BY DEF Unexpired, Exited
<1>3. \A r \in Unexpired \ Exited :
        moved(r) \in AgentRecords /\ KeyOf(moved(r)) = KeyOf(r)
  BY <1>2 DEF IInv, TypeOK, AgentRecords, KeyOf
<1>4. agents' \subseteq AgentRecords
  BY <1>1, <1>3
<1>5. \A r2 \in agents' : \E r1 \in agents \ Exited : KeyOf(r2) = KeyOf(r1)
  BY <1>1, <1>2, <1>3
<1>6. \A r1, r2 \in agents' : KeyOf(r1) = KeyOf(r2) => r1 = r2
  <2> SUFFICES ASSUME NEW q1 \in Unexpired \ Exited, NEW q2 \in Unexpired \ Exited,
                      KeyOf(moved(q1)) = KeyOf(moved(q2))
               PROVE  moved(q1) = moved(q2)
    BY <1>1
  <2>1. KeyOf(q1) = KeyOf(q2)
    BY <1>3
  <2>2. q1 = q2
    BY <1>2, <2>1, KeyNamesRecord
  <2> QED
    BY <2>2
<1>7. /\ retired' \subseteq RetiredRecords
      /\ OneGenerationPerPane' /\ RetiredStayGone' /\ RetiredOnce'
  BY <1>1, <1>2, <1>4, <1>5, <1>6, RetireRemoved
<1> QED
  BY <1>1, <1>4, <1>7 DEF IInv, TypeOK, ClosedPanesAreEmpty, environment

\* Handlers that retire nothing: they drop, age or relabel what is there.
LEMMA RelabelledKeeps ==
  ASSUME IInv, UNCHANGED <<environment, messages>>,
         agents' \subseteq AgentRecords,
         \A r2 \in agents' : \E r1 \in agents : KeyOf(r2) = KeyOf(r1),
         \A r1, r2 \in agents' : KeyOf(r1) = KeyOf(r2) => r1 = r2,
         retired' \subseteq RetiredRecords,
         RetiredKeys(retired') \subseteq RetiredKeys(retired),
         RetiredOnce'
  PROVE  IInv'
<1>1. TypeOK' /\ ClosedPanesAreEmpty'
  BY DEF IInv, TypeOK, ClosedPanesAreEmpty, environment
<1>2. OneGenerationPerPane'
  <2> SUFFICES ASSUME NEW r1 \in agents', NEW r2 \in agents',
                      r1.tool = r2.tool, r1.pane = r2.pane
               PROVE  r1 = r2
    BY DEF OneGenerationPerPane
  <2>1. PICK q1 \in agents : KeyOf(r1) = KeyOf(q1)
    OBVIOUS
  <2>2. PICK q2 \in agents : KeyOf(r2) = KeyOf(q2)
    OBVIOUS
  <2>3. q1 = q2
    BY <2>1, <2>2, KeyOfEqual DEF IInv, OneGenerationPerPane
  <2> QED
    BY <2>1, <2>2, <2>3
<1>3. RetiredStayGone'
  BY DEF IInv, RetiredStayGone
<1> QED
  BY <1>1, <1>2, <1>3 DEF IInv

LEMMA ProcessDeadlinesKeeps ==
  ASSUME IInv, ProcessDeadlines
  PROVE  IInv'
<1>1. agents' \subseteq agents /\ retired' = Unpruned /\ UNCHANGED <<environment, messages>>
  BY DEF ProcessDeadlines, Unexpired
<1>2. agents' \subseteq AgentRecords
  BY <1>1 DEF IInv, TypeOK
<1>3. \A r1, r2 \in agents' : KeyOf(r1) = KeyOf(r2) => r1 = r2
  BY <1>1, KeyNamesRecord
<1>4. RetiredOnce'
  BY <1>1, PruningForgets DEF RetiredOnce
<1> QED
  BY <1>1, <1>2, <1>3, <1>4, PruningForgets, RelabelledKeeps

LEMMA ApplySeenKeeps ==
  ASSUME IInv, NEW p \in Panes, ApplySeen(p)
  PROVE  IInv'
<1> DEFINE seen(r) == IF r.pane = p /\ r.state = "done"
                      THEN [r EXCEPT !.state = "idle", !.age = 0] ELSE r
<1>1. agents' = {seen(r) : r \in agents} /\ retired' = Unpruned
      /\ UNCHANGED <<environment, messages>>
  BY DEF ApplySeen
<1>2. \A r \in AgentRecords : seen(r) \in AgentRecords /\ KeyOf(seen(r)) = KeyOf(r)
  <2> SUFFICES ASSUME NEW r \in AgentRecords
               PROVE  seen(r) \in AgentRecords /\ KeyOf(seen(r)) = KeyOf(r)
    OBVIOUS
  <2>1. 0 \in 0..MaxAge /\ "idle" \in AgentStates
    BY MaxAgeType DEF AgentStates
  <2> QED
    BY <2>1 DEF AgentRecords, KeyOf
<1> HIDE DEF seen
<1>3. agents \subseteq AgentRecords
  BY DEF IInv, TypeOK
<1>4. \A r1, r2 \in agents' : KeyOf(r1) = KeyOf(r2) => r1 = r2
  <2> SUFFICES ASSUME NEW q1 \in agents, NEW q2 \in agents,
                      KeyOf(seen(q1)) = KeyOf(seen(q2))
               PROVE  seen(q1) = seen(q2)
    BY <1>1
  <2> QED
    BY <1>2, <1>3, KeyNamesRecord
<1>5. RetiredOnce'
  BY <1>1, PruningForgets DEF RetiredOnce
<1>6. agents' \subseteq AgentRecords
  BY <1>1, <1>2, <1>3
<1>7. \A r2 \in agents' : \E r1 \in agents : KeyOf(r2) = KeyOf(r1)
  BY <1>1, <1>2, <1>3
<1> QED
  BY <1>1, <1>4, <1>5, <1>6, <1>7, PruningForgets, RelabelledKeeps

LEMMA TickKeeps ==
  ASSUME IInv, Tick
  PROVE  IInv'
<1> DEFINE older(r) == [r EXCEPT !.age = Least(@ + 1, MaxAge)]
           later(t) == [t EXCEPT !.age = Least(@ + 1, RetiredTtl + 1)]
<1>1. agents' = {older(r) : r \in agents} /\ retired' = {later(t) : t \in retired}
      /\ UNCHANGED <<environment, messages>>
  BY DEF Tick
<1>2. \A r \in AgentRecords : older(r) \in AgentRecords /\ KeyOf(older(r)) = KeyOf(r)
  <2> SUFFICES ASSUME NEW r \in AgentRecords
               PROVE  older(r) \in AgentRecords /\ KeyOf(older(r)) = KeyOf(r)
    OBVIOUS
  <2>1. Least(r.age + 1, MaxAge) \in 0..MaxAge
    BY MaxAgeType DEF AgentRecords, Least
  <2> QED
    BY <2>1 DEF AgentRecords, KeyOf
<1>3. \A t \in RetiredRecords : later(t) \in RetiredRecords /\ later(t).key = t.key
  <2> SUFFICES ASSUME NEW t \in RetiredRecords
               PROVE  later(t) \in RetiredRecords /\ later(t).key = t.key
    OBVIOUS
  <2>1. Least(t.age + 1, RetiredTtl + 1) \in 0..(RetiredTtl + 1)
    BY EventAssumption DEF RetiredRecords, Least
  <2> QED
    BY <2>1 DEF RetiredRecords
<1> HIDE DEF older, later
<1>4. agents \subseteq AgentRecords /\ retired \subseteq RetiredRecords
  BY DEF IInv, TypeOK
<1>5. \A r1, r2 \in agents' : KeyOf(r1) = KeyOf(r2) => r1 = r2
  <2> SUFFICES ASSUME NEW q1 \in agents, NEW q2 \in agents,
                      KeyOf(older(q1)) = KeyOf(older(q2))
               PROVE  older(q1) = older(q2)
    BY <1>1
  <2> QED
    BY <1>2, <1>4, KeyNamesRecord
<1>6. RetiredOnce'
  <2> SUFFICES ASSUME NEW t1 \in retired, NEW t2 \in retired,
                      later(t1).key = later(t2).key
               PROVE  later(t1) = later(t2)
    BY <1>1 DEF RetiredOnce
  <2>1. t1.key = t2.key
    BY <1>3, <1>4
  <2> QED
    BY <2>1 DEF IInv, RetiredOnce
<1>7. RetiredKeys(retired') \subseteq RetiredKeys(retired)
  BY <1>1, <1>3, <1>4 DEF RetiredKeys
<1>8. agents' \subseteq AgentRecords /\ retired' \subseteq RetiredRecords
  BY <1>1, <1>2, <1>3, <1>4
<1>9. \A r2 \in agents' : \E r1 \in agents : KeyOf(r2) = KeyOf(r1)
  BY <1>1, <1>2, <1>4
<1> QED
  BY <1>1, <1>5, <1>6, <1>7, <1>8, <1>9, RelabelledKeeps

LEMMA RestartKeeps ==
  ASSUME IInv, Restart
  PROVE  IInv'
<1> DEFINE mirrored == {q \in Panes : mirror[q] # None}
<1>1. PICK age \in 0..MaxAge :
        agents' = {[tool |-> mirror[p].tool, pane |-> p,
                    generation |-> mirror[p].generation, session |-> session[p],
                    sequence |-> mirror[p].sequence, state |-> mirror[p].state,
                    age |-> age] : p \in mirrored}
  BY DEF Restart
<1>2. retired' = {} /\ UNCHANGED <<environment, messages>>
  BY DEF Restart
<1>3. \A p \in mirrored : mirror[p] \in Mirrors /\ session[p] \in Sessions
  BY DEF IInv, TypeOK, ClosedPanesAreEmpty
<1>4. agents' \subseteq AgentRecords
  BY <1>1, <1>3 DEF AgentRecords, Mirrors
<1>5. OneGenerationPerPane'
  BY <1>1 DEF OneGenerationPerPane
<1> QED
  BY <1>2, <1>4, <1>5
     DEF IInv, TypeOK, RetiredStayGone, RetiredOnce, ClosedPanesAreEmpty,
         RetiredKeys, environment

-----------------------------------------------------------------------------
(* The theorems *)

LEMMA InitIInv == Init => IInv
BY EventAssumption DEF Init, IInv, TypeOK, OneGenerationPerPane, RetiredStayGone,
   RetiredOnce, ClosedPanesAreEmpty, Generations

LEMMA NextIInv == IInv /\ [Next]_vars => IInv'
<1> SUFFICES ASSUME IInv, [Next]_vars
             PROVE  IInv'
  OBVIOUS
<1>1. CASE Environment
  BY <1>1, EnvironmentKeeps, EnvironmentTouchesNoRecord
     DEF IInv, OneGenerationPerPane, RetiredStayGone, RetiredOnce
<1>2. CASE Handle
  BY <1>2, ApplyReportKeeps, ApplyExitKeeps DEF Handle
<1>3. CASE Scan
  BY <1>3, ScanKeeps
<1>4. CASE Tick \/ ProcessDeadlines \/ \E p \in Panes : ApplySeen(p)
  BY <1>4, TickKeeps, ProcessDeadlinesKeeps, ApplySeenKeeps
<1>5. CASE Restart
  BY <1>5, RestartKeeps
<1>6. CASE UNCHANGED vars
  BY <1>6 DEF vars, IInv, TypeOK, OneGenerationPerPane, RetiredStayGone,
     RetiredOnce, ClosedPanesAreEmpty
<1> QED
  BY <1>1, <1>2, <1>3, <1>4, <1>5, <1>6 DEF Next

\* Every variable of the event records keeps its type, whatever is reported,
\* lost, reordered, killed, moved or restarted.
THEOREM TypeCorrect == Spec => []TypeOK
<1>1. IInv => TypeOK
  BY DEF IInv
<1> QED
  BY <1>1, InitIInv, NextIInv, PTL DEF Spec

\* state_events.rs, remove_reused_pane: a tool never has two records for one
\* pane, in whatever order the reports of its processes are handled.
THEOREM OneRecordPerPane == Spec => []OneGenerationPerPane
<1>1. IInv => OneGenerationPerPane
  BY DEF IInv
<1> QED
  BY <1>1, InitIInv, NextIInv, PTL DEF Spec

\* state_events.rs, apply_report: no report brings back a generation that is
\* remembered as retired, in whatever order exits, scans and reports come.
THEOREM RetiredNeverReturn == Spec => []RetiredStayGone
<1>1. IInv => RetiredStayGone
  BY DEF IInv
<1> QED
  BY <1>1, InitIInv, NextIInv, PTL DEF Spec

-----------------------------------------------------------------------------
(* The bound of the retired generations. Eviction keeps as many as fit of  *)
(* finitely many: of records there are only finitely many at a time.       *)

BoundInv ==
  /\ IsFiniteSet(agents)
  /\ IsFiniteSet(retired) /\ Cardinality(retired) <= MaxRetired

LEMMA ImageIsFinite ==
  ASSUME NEW S, IsFiniteSet(S), NEW f, DOMAIN f = S
  PROVE  /\ IsFiniteSet({f[x] : x \in S})
         /\ Cardinality({f[x] : x \in S}) <= Cardinality(S)
<1> DEFINE T == {f[x] : x \in S}
<1>1. [x \in S |-> f[x]] \in Surjection(S, T)
  BY DEF Surjection
<1> QED
  BY <1>1, FS_Surjection

LEMMA RetiringBounds ==
  ASSUME NEW keys, IsFiniteSet(keys), NEW known, IsFiniteSet(known),
         NEW kept \in Retiring(keys, known)
  PROVE  IsFiniteSet(kept) /\ Cardinality(kept) <= MaxRetired
<1> DEFINE f == [k \in keys |-> [key |-> k, age |-> 0]]
           new == {[key |-> k, age |-> 0] : k \in keys}
           old == {t \in known : t.key \notin keys}
<1>1. new = {f[k] : k \in keys} /\ DOMAIN f = keys
  OBVIOUS
<1>2. IsFiniteSet(new)
  <2> HIDE DEF f, new
  <2> QED BY <1>1, ImageIsFinite
<1>3. IsFiniteSet(old)
  BY FS_Subset
<1>4. IsFiniteSet(old \cup new)
  BY <1>2, <1>3, FS_Union
<1>5. kept \subseteq old \cup new /\ Cardinality(kept) = Least(Cardinality(old \cup new), MaxRetired)
  BY DEF Retiring
<1> HIDE DEF old, new
<1>6. IsFiniteSet(kept) /\ Cardinality(old \cup new) \in Nat
  BY <1>4, <1>5, FS_Subset, FS_CardinalityType
<1> QED
  BY <1>5, <1>6, EventAssumption DEF Least

LEMMA UnprunedBounds ==
  ASSUME BoundInv
  PROVE  IsFiniteSet(Unpruned) /\ Cardinality(Unpruned) <= MaxRetired
<1>1. Unpruned \subseteq retired
  BY DEF Unpruned
<1>2. IsFiniteSet(Unpruned) /\ Cardinality(Unpruned) <= Cardinality(retired)
  BY <1>1, FS_Subset DEF BoundInv
<1> QED
  BY <1>2, FS_CardinalityType, EventAssumption DEF BoundInv

\* What every handler that retires the records it removes does.
LEMMA RetireBounds ==
  ASSUME BoundInv, NEW gone, gone \subseteq agents,
         retired' \in Retiring({KeyOf(r) : r \in gone}, Unpruned)
  PROVE  IsFiniteSet(retired') /\ Cardinality(retired') <= MaxRetired
<1> DEFINE f == [r \in gone |-> KeyOf(r)]
           keys == {KeyOf(r) : r \in gone}
<1>1. IsFiniteSet(gone)
  BY FS_Subset DEF BoundInv
<1>2. keys = {f[r] : r \in gone} /\ DOMAIN f = gone
  OBVIOUS
<1>3. IsFiniteSet(keys)
  <2> HIDE DEF f, keys
  <2> QED BY <1>1, <1>2, ImageIsFinite
<1>4. retired' \in Retiring(keys, Unpruned)
  OBVIOUS
<1> HIDE DEF keys
<1> QED
  BY <1>3, <1>4, UnprunedBounds, RetiringBounds

\* A step that relabels what a finite set of records has become.
LEMMA RelabelledBounds ==
  ASSUME NEW S, IsFiniteSet(S), NEW f, DOMAIN f = S, agents' = {f[r] : r \in S}
  PROVE  IsFiniteSet(agents')
BY ImageIsFinite

LEMMA HandleBounds ==
  ASSUME BoundInv, Handle
  PROVE  BoundInv'
<1>1. ASSUME NEW m \in messages, ApplyReport(m)
      PROVE  BoundInv'
  <2>1. agents' \subseteq agents \cup {RecordOf(m)}
    BY <1>1 DEF ApplyReport
  <2>2. IsFiniteSet(agents')
    BY <2>1, FS_AddElement, FS_Subset DEF BoundInv
  <2>3. CASE IsRetired(m)
    BY <1>1, <2>2, <2>3, UnprunedBounds DEF ApplyReport, BoundInv
  <2>4. CASE ~IsRetired(m)
    <3>1. Reused(m) \subseteq agents
      BY DEF Reused
    <3>2. retired' \in Retiring({KeyOf(r) : r \in Reused(m)}, Unpruned)
      BY <1>1, <2>4 DEF ApplyReport
    <3> QED
      BY <2>2, <3>1, <3>2, RetireBounds DEF BoundInv
  <2> QED
    BY <2>3, <2>4
<1>2. ASSUME NEW m \in messages, ApplyExit(m)
      PROVE  BoundInv'
  <2> DEFINE exited == {r \in agents : Matches(r, m)}
  <2>1. retired' \in Retiring({KeyOf(r) : r \in exited}, Unpruned) /\ agents' = agents \ exited
    BY <1>2 DEF ApplyExit
  <2>2. IsFiniteSet(agents')
    BY <2>1, FS_Subset DEF BoundInv
  <2>3. exited \subseteq agents
    OBVIOUS
  <2> HIDE DEF exited
  <2> QED
    BY <2>1, <2>2, <2>3, RetireBounds DEF BoundInv
<1> QED
  BY <1>1, <1>2 DEF Handle

LEMMA ScanBounds ==
  ASSUME BoundInv, Scan
  PROVE  BoundInv'
<1> DEFINE left == Unexpired \ Exited
           f == [r \in left |-> [r EXCEPT !.session = session[r.pane]]]
<1>1. left \subseteq agents /\ Exited \subseteq agents
  BY DEF Unexpired, Exited
<1>2. IsFiniteSet(left)
  BY <1>1, FS_Subset DEF BoundInv
<1>3. agents' = {f[r] : r \in left} /\ DOMAIN f = left
  BY DEF Scan
<1> HIDE DEF f, left
<1>4. IsFiniteSet(agents')
  BY <1>2, <1>3, RelabelledBounds
<1>5. retired' \in Retiring({KeyOf(r) : r \in Exited}, Unpruned)
  BY DEF Scan
<1> QED
  BY <1>1, <1>4, <1>5, RetireBounds DEF BoundInv

LEMMA OtherBounds ==
  ASSUME BoundInv, Tick \/ ProcessDeadlines \/ Restart \/ \E p \in Panes : ApplySeen(p)
  PROVE  BoundInv'
<1>1. CASE Tick
  <2> DEFINE older == [r \in agents |-> [r EXCEPT !.age = Least(@ + 1, MaxAge)]]
             later == [t \in retired |-> [t EXCEPT !.age = Least(@ + 1, RetiredTtl + 1)]]
  <2>1. agents' = {older[r] : r \in agents} /\ retired' = {later[t] : t \in retired}
    BY <1>1 DEF Tick
  <2>2. DOMAIN older = agents /\ DOMAIN later = retired
    OBVIOUS
  <2> HIDE DEF older, later
  <2>3. IsFiniteSet(agents')
    BY <2>1, <2>2, RelabelledBounds DEF BoundInv
  <2>4. IsFiniteSet(retired') /\ Cardinality(retired') <= Cardinality(retired)
    BY <2>1, <2>2, ImageIsFinite DEF BoundInv
  <2> QED
    BY <2>3, <2>4, FS_CardinalityType, EventAssumption DEF BoundInv
<1>2. CASE ProcessDeadlines
  <2>1. agents' \subseteq agents /\ retired' = Unpruned
    BY <1>2 DEF ProcessDeadlines, Unexpired
  <2> QED
    BY <2>1, UnprunedBounds, FS_Subset DEF BoundInv
<1>3. CASE Restart
  <2> DEFINE mirrored == {q \in Panes : mirror[q] # None}
  <2>1. PICK age \in 0..MaxAge :
          agents' = {[tool |-> mirror[p].tool, pane |-> p,
                      generation |-> mirror[p].generation, session |-> session[p],
                      sequence |-> mirror[p].sequence, state |-> mirror[p].state,
                      age |-> age] : p \in mirrored}
    BY <1>3 DEF Restart
  <2> DEFINE f == [p \in mirrored |->
                     [tool |-> mirror[p].tool, pane |-> p,
                      generation |-> mirror[p].generation, session |-> session[p],
                      sequence |-> mirror[p].sequence, state |-> mirror[p].state,
                      age |-> age]]
  <2>2. agents' = {f[p] : p \in mirrored} /\ DOMAIN f = mirrored
    BY <2>1
  <2>3. IsFiniteSet(mirrored)
    BY EventAssumption, FS_Subset
  <2> HIDE DEF f, mirrored
  <2>4. IsFiniteSet(agents')
    BY <2>2, <2>3, RelabelledBounds
  <2> QED
    BY <1>3, <2>4, FS_EmptySet, EventAssumption DEF Restart, BoundInv
<1>4. ASSUME NEW p \in Panes, ApplySeen(p)
      PROVE  BoundInv'
  <2> DEFINE f == [r \in agents |-> IF r.pane = p /\ r.state = "done"
                                    THEN [r EXCEPT !.state = "idle", !.age = 0] ELSE r]
  <2>1. agents' = {f[r] : r \in agents} /\ DOMAIN f = agents
    BY <1>4 DEF ApplySeen
  <2> HIDE DEF f
  <2>2. IsFiniteSet(agents')
    BY <2>1, RelabelledBounds DEF BoundInv
  <2> QED
    BY <1>4, <2>2, UnprunedBounds DEF ApplySeen, BoundInv
<1> QED
  BY <1>1, <1>2, <1>3, <1>4

LEMMA NextBound == BoundInv /\ [Next]_vars => BoundInv'
<1> SUFFICES ASSUME BoundInv, [Next]_vars
             PROVE  BoundInv'
  OBVIOUS
<1>1. CASE Environment
  BY <1>1, EnvironmentTouchesNoRecord DEF BoundInv
<1>2. CASE UNCHANGED vars
  BY <1>2 DEF vars, BoundInv
<1> QED
  BY <1>1, <1>2, HandleBounds, ScanBounds, OtherBounds DEF Next

\* state_events.rs, retire_event_generation: however many processes exit or are
\* replaced at once, no more than MaxRetired generations are remembered, and
\* none of them twice.
THEOREM RetiredAreBounded == Spec => []RetiredBounded
<1>1. Init => BoundInv
  BY FS_EmptySet, EventAssumption DEF Init, BoundInv
<1>2. IInv /\ BoundInv => RetiredBounded
  BY DEF IInv, RetiredOnce, BoundInv, RetiredBounded
<1> QED
  BY <1>1, <1>2, InitIInv, NextIInv, NextBound, PTL DEF Spec

-----------------------------------------------------------------------------
(* Steps: what records and retired generations may become *)

Advances(r1, r2) ==
  \/ r1.sequence < r2.sequence
  \/ r1.sequence = r2.sequence /\ r2.state \in {r1.state, "idle"}

\* Since a key names one record, a step that relabels records is in order if
\* each record comes from one that says the same.
LEMMA RelabelledAdvance ==
  ASSUME IInv,
         \A r2 \in agents' : \E r1 \in agents :
            KeyOf(r2) = KeyOf(r1) /\ r2.sequence = r1.sequence /\ r2.state \in {r1.state, "idle"},
         NEW r1 \in agents, NEW r2 \in agents', KeyOf(r1) = KeyOf(r2)
  PROVE  Advances(r1, r2)
<1>1. PICK q \in agents : KeyOf(r2) = KeyOf(q) /\ r2.sequence = q.sequence
                          /\ r2.state \in {q.state, "idle"}
  OBVIOUS
<1>2. q = r1
  BY <1>1, KeyNamesRecord
<1> QED
  BY <1>1, <1>2 DEF Advances

LEMMA ReportAdvances ==
  ASSUME IInv, NEW m \in messages, ApplyReport(m),
         NEW r1 \in agents, NEW r2 \in agents', KeyOf(r1) = KeyOf(r2)
  PROVE  Advances(r1, r2)
<1>1. CASE r2 \in agents
  BY <1>1, KeyNamesRecord DEF Advances
<1>2. CASE r2 \notin agents
  <2>1. ~IsStale(m) /\ r2 = RecordOf(m)
    BY <1>2 DEF ApplyReport
  <2>2. KeyOf(r2) = KeyOf(m) /\ r2.sequence = m.sequence
    BY <2>1 DEF RecordOf, KeyOf
  <2>3. ~(m.sequence <= r1.sequence)
    BY <2>1, <2>2 DEF IsStale, Current
  <2>4. m.sequence \in Nat /\ r1.sequence \in Nat
    BY EventAssumption DEF ApplyReport, Reports, IInv, TypeOK, AgentRecords, Sequences
  <2> QED
    BY <2>2, <2>3, <2>4 DEF Advances
<1> QED
  BY <1>1, <1>2

\* A record that stays is never taken back to an earlier report, in whatever
\* order reports are handled (apply_report); only a restart reads it anew.
THEOREM SequencesAdvance == Spec => SequenceOnlyAdvances
<1>1. ASSUME IInv, [Next]_vars, ~Restart, NEW r1 \in agents, NEW r2 \in agents',
             KeyOf(r1) = KeyOf(r2)
      PROVE  Advances(r1, r2)
  <2>1. CASE \E m \in messages : ApplyReport(m)
    BY <1>1, <2>1, ReportAdvances
  <2>2. CASE agents' \subseteq agents
    BY <1>1, <2>2, KeyNamesRecord DEF Advances
  <2>3. CASE Tick
    <3>1. \A q \in agents : LET a == [q EXCEPT !.age = Least(@ + 1, MaxAge)]
                            IN KeyOf(a) = KeyOf(q) /\ a.sequence = q.sequence /\ a.state = q.state
      BY <1>1 DEF IInv, TypeOK, AgentRecords, KeyOf
    <3> QED
      BY <1>1, <2>3, <3>1, RelabelledAdvance DEF Tick
  <2>4. CASE Scan
    <3>1. \A q \in agents : LET a == [q EXCEPT !.session = session[q.pane]]
                            IN KeyOf(a) = KeyOf(q) /\ a.sequence = q.sequence /\ a.state = q.state
      BY <1>1 DEF IInv, TypeOK, AgentRecords, KeyOf
    <3> QED
      BY <1>1, <2>4, <3>1, RelabelledAdvance DEF Scan, Unexpired
  <2>5. ASSUME NEW p \in Panes, ApplySeen(p) PROVE Advances(r1, r2)
    <3>1. \A q \in agents :
            LET a == IF q.pane = p /\ q.state = "done"
                     THEN [q EXCEPT !.state = "idle", !.age = 0] ELSE q
            IN KeyOf(a) = KeyOf(q) /\ a.sequence = q.sequence /\ a.state \in {q.state, "idle"}
      BY <1>1 DEF IInv, TypeOK, AgentRecords, KeyOf
    <3> QED
      BY <1>1, <2>5, <3>1, RelabelledAdvance DEF ApplySeen
  <2>6. CASE (\E m \in messages : ApplyExit(m)) \/ ProcessDeadlines \/ Environment \/ UNCHANGED vars
    BY <2>2, <2>6, EnvironmentTouchesNoRecord DEF ApplyExit, ProcessDeadlines, Unexpired, vars
  <2> QED
    BY <1>1, <2>1, <2>3, <2>4, <2>5, <2>6 DEF Next, Handle
<1>2. IInv /\ [Next]_vars =>
        [Restart \/
         \A r1 \in agents, r2 \in agents' :
            KeyOf(r1) = KeyOf(r2) =>
               \/ r1.sequence < r2.sequence
               \/ r1.sequence = r2.sequence /\ r2.state \in {r1.state, "idle"}]_vars
  BY <1>1 DEF Advances
<1> QED
  BY <1>2, InitIInv, NextIInv, PTL DEF Spec, SequenceOnlyAdvances

-----------------------------------------------------------------------------
(* What is retired is what loses its record *)

\* An eviction never loses a generation retired just now while an older one, or
\* room, is left.
LEMMA RetiringKeepsNew ==
  ASSUME NEW keys, keys \subseteq Keys, IsFiniteSet(keys),
         NEW known, known \subseteq RetiredRecords, IsFiniteSet(known),
         NEW kept \in Retiring(keys, known), NEW k \in keys
  PROVE  \/ k \in RetiredKeys(kept)
         \/ Cardinality(kept) = MaxRetired /\ \A t \in kept : t.age = 0
<1> DEFINE entry == [key |-> k, age |-> 0]
           f == [q \in keys |-> [key |-> q, age |-> 0]]
           new == {[key |-> q, age |-> 0] : q \in keys}
           old == {t \in known : t.key \notin keys}
           all == old \cup new
<1>1. kept \subseteq all /\ Cardinality(kept) = Least(Cardinality(all), MaxRetired)
      /\ \A t \in kept, lost \in all \ kept : t.age <= lost.age
  BY DEF Retiring
<1>2. entry \in all /\ entry.key = k /\ entry.age = 0
  OBVIOUS
<1>3. IsFiniteSet(all)
  <2>1. new = {f[q] : q \in keys} /\ DOMAIN f = keys
    OBVIOUS
  <2>2. IsFiniteSet(new)
    <3> HIDE DEF f, new
    <3> QED BY <2>1, ImageIsFinite
  <2>3. IsFiniteSet(old)
    BY FS_Subset
  <2> HIDE DEF new, old
  <2> QED
    BY <2>2, <2>3, FS_Union
<1>4. \A t \in kept : t.age \in Nat
  <2>1. new \subseteq RetiredRecords
    BY EventAssumption DEF RetiredRecords
  <2>2. kept \subseteq RetiredRecords
    BY <1>1, <2>1
  <2> QED
    BY <2>2, RetiringAgesAreNat
<1>5. CASE entry \in kept
  BY <1>2, <1>5 DEF RetiredKeys
<1>6. CASE entry \notin kept
  <2> HIDE DEF all, entry
  <2>1. \A t \in kept : t.age = 0
    BY <1>1, <1>2, <1>4, <1>6
  <2>2. Cardinality(kept) < Cardinality(all) /\ Cardinality(all) \in Nat
    BY <1>1, <1>2, <1>3, <1>6, FS_Subset, FS_CardinalityType
  <2>3. Cardinality(kept) = MaxRetired
    BY <1>1, <2>2, EventAssumption DEF Least
  <2> QED
    BY <2>1, <2>3
<1> QED
  BY <1>5, <1>6

\* A step that removes records, retires their keys and gives no record one of
\* these keys exchanges them exactly.
LEMMA ExchangeIsExact ==
  ASSUME IInv, BoundInv, NEW gone, gone \subseteq agents,
         \A r2 \in agents' : KeyOf(r2) \notin {KeyOf(r) : r \in gone},
         retired' \in Retiring({KeyOf(r) : r \in gone}, Unpruned)
  PROVE  /\ \A k \in RetiredKeys(retired') \ RetiredKeys(retired) :
               k \in RecordKeys \ RecordKeys' /\ \E r \in gone : k = KeyOf(r)
         /\ \A r \in gone : KeyOf(r) \in RetiredKeys(retired') \/ FullOfNew'
<1> DEFINE keys == {KeyOf(r) : r \in gone}
           f == [r \in gone |-> KeyOf(r)]
<1>1. keys \subseteq Keys
  BY KeyOfType DEF IInv, TypeOK
<1>2. IsFiniteSet(keys)
  <2>1. keys = {f[r] : r \in gone} /\ DOMAIN f = gone
    OBVIOUS
  <2>2. IsFiniteSet(gone)
    BY FS_Subset DEF BoundInv
  <2> HIDE DEF keys, f
  <2> QED
    BY <2>1, <2>2, ImageIsFinite
<1>3. retired' \in Retiring(keys, Unpruned)
  OBVIOUS
<1>4. \A k \in RecordKeys' : k \notin keys
  BY DEF RecordKeys
<1>5. keys \subseteq RecordKeys
  BY DEF RecordKeys
<1>6. ASSUME NEW k \in RetiredKeys(retired') \ RetiredKeys(retired)
      PROVE  k \in RecordKeys \ RecordKeys' /\ k \in keys
  <2> HIDE DEF keys
  <2>1. k \in RetiredKeys(Unpruned) \cup keys
    BY <1>1, <1>3, <1>6, PruningForgets, RetiringKeepsTypes
  <2> QED
    BY <1>4, <1>5, <1>6, <2>1, PruningForgets
<1>7. ASSUME NEW r \in gone
      PROVE  KeyOf(r) \in RetiredKeys(retired') \/ FullOfNew'
  <2>1. KeyOf(r) \in keys
    OBVIOUS
  <2> HIDE DEF keys
  <2> QED
    BY <1>1, <1>2, <1>3, <2>1, PruningForgets, UnprunedBounds, RetiringKeepsNew DEF FullOfNew
<1> QED
  BY <1>6, <1>7

\* What RetirementIsExact asks of a step, but for the scan.
ExactStep ==
  /\ \A k \in RetiredKeys(retired') \ RetiredKeys(retired) : k \in RecordKeys \ RecordKeys'
  /\ \A r \in agents : \/ KeyOf(r) \in RecordKeys' \cup RetiredKeys(retired')
                       \/ Expired(r) \/ FullOfNew'

\* The steps that retire nothing and remove no record that has not expired.
LEMMA KeptIsExact ==
  ASSUME RetiredKeys(retired') \subseteq RetiredKeys(retired),
         \A r \in agents : Expired(r) \/ KeyOf(r) \in RecordKeys'
  PROVE  ExactStep
BY DEF ExactStep

LEMMA ReportIsExact ==
  ASSUME IInv, BoundInv, NEW m \in messages, ApplyReport(m)
  PROVE  ExactStep
<1>1. CASE IsRetired(m)
  <2>1. agents' = agents /\ retired' = Unpruned
    BY <1>1 DEF ApplyReport
  <2> QED
    BY <2>1, PruningForgets, KeptIsExact DEF RecordKeys
<1>2. CASE ~IsRetired(m)
  <2> DEFINE gone == Reused(m)
  <2>1. /\ retired' \in Retiring({KeyOf(r) : r \in gone}, Unpruned)
        /\ agents' = IF IsStale(m) THEN agents \ gone
                     ELSE (agents \ (gone \cup Current(m))) \cup {RecordOf(m)}
    BY <1>2 DEF ApplyReport
  <2>2. gone \subseteq agents /\ \A r \in gone : KeyOf(r) # KeyOf(m)
    BY KeyOfEqual DEF Reused
  <2>3. KeyOf(RecordOf(m)) = KeyOf(m)
    BY DEF RecordOf, KeyOf
  <2>4. ASSUME NEW r2 \in agents' PROVE KeyOf(r2) \notin {KeyOf(r) : r \in gone}
    <3>1. CASE r2 = RecordOf(m)
      BY <2>2, <2>3, <3>1
    <3>2. CASE r2 # RecordOf(m)
      <4>1. r2 \in agents \ gone
        BY <2>1, <3>2
      <4> QED
        BY <2>2, <4>1, KeyNamesRecord
    <3> QED
      BY <3>1, <3>2
  <2>5. \A r \in agents : r \in gone \/ KeyOf(r) \in RecordKeys'
    <3> SUFFICES ASSUME NEW r \in agents, r \notin gone
                 PROVE  \E r2 \in agents' : KeyOf(r2) = KeyOf(r)
      BY DEF RecordKeys
    <3>1. CASE r \in agents'
      BY <3>1
    <3>2. CASE r \notin agents'
      <4>1. ~IsStale(m) /\ r \in Current(m) /\ RecordOf(m) \in agents'
        BY <2>1, <3>2
      <4> QED
        BY <2>3, <4>1 DEF Current
    <3> QED
      BY <3>1, <3>2
  <2> HIDE DEF gone
  <2> QED
    BY <2>1, <2>2, <2>4, <2>5, ExchangeIsExact DEF ExactStep
<1> QED
  BY <1>1, <1>2

LEMMA ExitIsExact ==
  ASSUME IInv, BoundInv, NEW m \in messages, ApplyExit(m)
  PROVE  ExactStep
<1> DEFINE gone == {r \in agents : Matches(r, m)}
<1>1. retired' \in Retiring({KeyOf(r) : r \in gone}, Unpruned) /\ agents' = agents \ gone
  BY DEF ApplyExit
<1>2. gone \subseteq agents
  OBVIOUS
<1> HIDE DEF gone
<1>3. \A r2 \in agents' : KeyOf(r2) \notin {KeyOf(r) : r \in gone}
  BY <1>1, <1>2, KeyNamesRecord
<1>4. \A r \in agents : r \in gone \/ KeyOf(r) \in RecordKeys'
  BY <1>1 DEF RecordKeys
<1> QED
  BY <1>1, <1>2, <1>3, <1>4, ExchangeIsExact DEF ExactStep

\* remove_exited_records judges a record by the pane it lives in, not by the
\* session it was reported from.
LEMMA ScanIsExact ==
  ASSUME IInv, BoundInv, Scan
  PROVE  /\ ExactStep
         /\ \A k \in RetiredKeys(retired') \ RetiredKeys(retired) : ~Running(k)
<1> DEFINE left == Unexpired \ Exited
<1>1. Exited \subseteq agents /\ left \subseteq agents /\ agents \subseteq AgentRecords
  BY DEF Exited, Unexpired, IInv, TypeOK
<1>2. /\ retired' \in Retiring({KeyOf(r) : r \in Exited}, Unpruned)
      /\ agents' = {[r EXCEPT !.session = session[r.pane]] : r \in left}
  BY DEF Scan
<1>3. \A r \in agents : KeyOf([r EXCEPT !.session = session[r.pane]]) = KeyOf(r)
  BY <1>1 DEF AgentRecords, KeyOf
<1>4. \A r2 \in agents' : KeyOf(r2) \notin {KeyOf(r) : r \in Exited}
  <2> SUFFICES ASSUME NEW q \in left, NEW r \in Exited, KeyOf(q) = KeyOf(r)
               PROVE  FALSE
    BY <1>1, <1>2, <1>3
  <2> QED
    BY <1>1, KeyNamesRecord
<1>5. \A r \in agents : Expired(r) \/ r \in Exited \/ KeyOf(r) \in RecordKeys'
  BY <1>2, <1>3 DEF Unexpired, RecordKeys
<1> HIDE DEF left
<1>6. /\ \A k \in RetiredKeys(retired') \ RetiredKeys(retired) :
            k \in RecordKeys \ RecordKeys' /\ \E r \in Exited : k = KeyOf(r)
      /\ \A r \in Exited : KeyOf(r) \in RetiredKeys(retired') \/ FullOfNew'
  BY <1>1, <1>2, <1>4, ExchangeIsExact
<1>7. ASSUME NEW k \in RetiredKeys(retired') \ RetiredKeys(retired)
      PROVE  ~Running(k)
  <2>1. PICK r \in Exited : k = KeyOf(r)
    BY <1>6, <1>7
  <2>2. k.pane = r.pane /\ r.pane \in Panes /\ session[r.pane] = None
    BY <1>1, <2>1 DEF Exited, KeyOf, AgentRecords
  <2> QED
    BY <2>2 DEF Running, IInv, ClosedPanesAreEmpty
<1> QED
  BY <1>5, <1>6, <1>7 DEF ExactStep

LEMMA OtherStepsAreExact ==
  ASSUME IInv,
         \/ Environment \/ Tick \/ ProcessDeadlines \/ UNCHANGED vars
         \/ \E p \in Panes : ApplySeen(p)
  PROVE  ExactStep
<1>0. agents \subseteq AgentRecords
  BY DEF IInv, TypeOK
<1>1. CASE Environment \/ UNCHANGED vars
  BY <1>1, EnvironmentTouchesNoRecord, KeptIsExact DEF vars, RecordKeys
<1>2. CASE Tick
  <2>1. \A r \in agents : KeyOf([r EXCEPT !.age = Least(@ + 1, MaxAge)]) = KeyOf(r)
    BY <1>0 DEF AgentRecords, KeyOf
  <2>2. \A r \in agents : KeyOf(r) \in RecordKeys'
    BY <1>2, <2>1 DEF Tick, RecordKeys
  <2>3. RetiredKeys(retired') \subseteq RetiredKeys(retired)
    BY <1>2 DEF Tick, RetiredKeys, IInv, TypeOK, RetiredRecords
  <2> QED
    BY <2>2, <2>3, KeptIsExact
<1>3. CASE ProcessDeadlines
  BY <1>3, PruningForgets, KeptIsExact DEF ProcessDeadlines, Unexpired, RecordKeys
<1>4. ASSUME NEW p \in Panes, ApplySeen(p) PROVE ExactStep
  <2> DEFINE seen(r) == IF r.pane = p /\ r.state = "done"
                        THEN [r EXCEPT !.state = "idle", !.age = 0] ELSE r
  <2>1. \A r \in agents : KeyOf(seen(r)) = KeyOf(r)
    BY <1>0 DEF AgentRecords, KeyOf
  <2>2. agents' = {seen(r) : r \in agents} /\ retired' = Unpruned
    BY <1>4 DEF ApplySeen
  <2> HIDE DEF seen
  <2>3. \A r \in agents : KeyOf(r) \in RecordKeys'
    BY <2>1, <2>2 DEF RecordKeys
  <2> QED
    BY <2>2, <2>3, PruningForgets, KeptIsExact
<1> QED
  BY <1>1, <1>2, <1>3, <1>4

\* apply_report, remove_reused_pane, apply_exit, remove_exited_records and
\* retire_event_generation: what is retired had a record and loses it; a record that
\* goes is retired, unless the TTL took it or MaxRetired others were retired in the
\* same step; and the scan retires no process that runs.
THEOREM RetiredExactly == Spec => RetirementIsExact
<1> DEFINE step ==
      Restart \/
      /\ \A k \in RetiredKeys(retired') \ RetiredKeys(retired) :
            k \in RecordKeys \ RecordKeys' /\ (Scan => ~Running(k))
      /\ \A r \in agents :
            \/ KeyOf(r) \in RecordKeys' \cup RetiredKeys(retired')
            \/ Expired(r) \/ FullOfNew'
<1>1. ASSUME IInv, BoundInv, [Next]_vars, ~Restart
      PROVE  ExactStep
  BY <1>1, ReportIsExact, ExitIsExact, ScanIsExact, OtherStepsAreExact DEF Next, Handle
<1>2. ASSUME IInv, BoundInv, [Next]_vars
      PROVE  [step]_vars
  BY <1>1, <1>2, ScanIsExact DEF ExactStep
<1>3. Init => BoundInv
  BY FS_EmptySet, EventAssumption DEF Init, BoundInv
<1>4. RetirementIsExact <=> [][step]_vars
  BY DEF RetirementIsExact
<1> QED
  BY <1>2, <1>3, <1>4, InitIInv, NextIInv, NextBound, PTL DEF Spec
=============================================================================
