--------------------------- MODULE Scripts_proofs ---------------------------
(***************************************************************************)
(* Proofs about the scripts that create and end agent sessions, Launcher   *)
(* and BulkKill, for any launchers, names, panes and sessions.             *)
(***************************************************************************)
EXTENDS BulkKill, Launcher, TLAPS

-----------------------------------------------------------------------------
(* Launcher. A launcher marks or opens what it created because made relates *)
(* a session that exists to one launcher only: new-session takes names that *)
(* are free, and a session that ends takes its pair along.                  *)


LauncherType ==
    /\ at \in [Launchers -> Steps]
    /\ DOMAIN name = Launchers /\ DOMAIN multiple = Launchers /\ DOMAIN resumes = Launchers

\* A session that exists was created by one launcher.
MadeInv ==
    /\ made \subseteq names \X Launchers
    /\ \A m1, m2 \in made : m1[1] = m2[1] => m1 = m2

ResumeInv == \A l \in Launchers : resumes[l] # Unset => multiple[l]

Uses(l) == at[l] \in Marking \/ (at[l] = "open" /\ multiple[l])

HoldsInv == \A l \in Launchers \ lost : Uses(l) => <<name[l], l>> \in made

LauncherInv == LauncherType /\ MadeInv /\ ResumeInv /\ HoldsInv

LEMMA LauncherInvImplies == LauncherInv => OwnSession
<1> SUFFICES ASSUME LauncherInv, NEW l \in Launchers \ lost, Uses(l)
             PROVE  /\ name[l] \in names
                    /\ <<name[l], l>> \in made
                    /\ \A k \in Launchers \ {l} :
                          k \notin lost /\ at[k] \in Marking => name[k] # name[l]
  BY DEF OwnSession, Uses, LauncherInv, ResumeInv
<1>1. <<name[l], l>> \in made
  BY DEF LauncherInv, HoldsInv
<1>2. name[l] \in names
  BY <1>1 DEF LauncherInv, MadeInv
<1>3. ASSUME NEW k \in Launchers \ {l}, k \notin lost, at[k] \in Marking PROVE name[k] # name[l]
  <2>1. <<name[k], k>> \in made
    BY <1>3 DEF LauncherInv, HoldsInv, Uses
  <2> QED
    BY <1>1, <2>1 DEF LauncherInv, MadeInv
<1> QED
  BY <1>1, <1>2, <1>3

LEMMA LauncherInitInv == LauncherInit => LauncherInv
  BY DEF LauncherInit, LauncherInv, LauncherType, MadeInv, ResumeInv, HoldsInv, Uses, Steps, Marking

\* What a launcher does changes nobody else's place.
LEMMA OthersStay ==
    ASSUME LauncherInv, NEW l \in Launchers, NEW there \in Steps, Goes(l, there)
    PROVE  /\ at' \in [Launchers -> Steps] /\ at'[l] = there
           /\ \A k \in Launchers \ {l} : at'[k] = at[k]
  BY DEF LauncherInv, LauncherType, Goes

LEMMA SessionEndsInv ==
    ASSUME LauncherInv, NEW n \in Names, NamedSessionEnds(n)
    PROVE  LauncherInv'
<1> USE DEF LauncherInv, NamedSessionEnds, script
<1>1. LauncherType' /\ ResumeInv'
  BY DEF LauncherType, ResumeInv
<1>2. MadeInv'
  BY DEF MadeInv
<1>3. HoldsInv'
  <2> SUFFICES ASSUME NEW l \in Launchers \ lost', Uses(l)' PROVE <<name[l], l>> \in made'
    BY DEF HoldsInv
  <2>1. <<name[l], l>> \in made
    BY DEF HoldsInv, Uses
  <2> QED
    BY <2>1
<1> QED
  BY <1>1, <1>2, <1>3

LEMMA LaunchInv ==
    ASSUME LauncherInv, NEW l \in Launchers, Launch(l)
    PROVE  LauncherInv'
<1> USE DEF LauncherInv, Launch
<1>1. /\ at'[l] = "check" /\ at' \in [Launchers -> Steps]
      /\ \A k \in Launchers \ {l} : at'[k] = at[k]
  BY OthersStay DEF Steps
<1>2. LauncherType' /\ MadeInv'
  BY <1>1 DEF LauncherType, MadeInv
<1>3. ResumeInv'
  <2>1. PICK option \in BOOLEAN, reference \in Conversations \cup {Unset} :
          /\ multiple' = [multiple EXCEPT ![l] = Multiple(option, reference)]
          /\ resumes' = [resumes EXCEPT ![l] = reference]
    OBVIOUS
  <2>2. reference # Unset => Multiple(option, reference)
    BY DEF Multiple
  <2> QED
    BY <2>1, <2>2 DEF ResumeInv, LauncherType
<1>4. HoldsInv'
  BY <1>1 DEF HoldsInv, Uses, Marking, LauncherType
<1> QED
  BY <1>2, <1>3, <1>4

\* has-session decides where a launcher goes on.
LEMMA TakenInv ==
    ASSUME LauncherInv, NEW l \in Launchers, NEW there \in {"create", "idle"},
           Taken(l) \/ (Goes(l, there) /\ UNCHANGED name),
           UNCHANGED <<names, multiple, resumes, made, lost>>
    PROVE  LauncherInv'
<1> USE DEF LauncherInv
<1>1. PICK next \in {"check", "open", "create", "idle"} :
        /\ Goes(l, next)
        /\ next = "open" => ~multiple[l]
        /\ DOMAIN name' = Launchers
        /\ \A k \in Launchers \ {l} : name'[k] = name[k]
  BY DEF Taken, LauncherType
<1>2. /\ at'[l] = next /\ at' \in [Launchers -> Steps]
      /\ \A k \in Launchers \ {l} : at'[k] = at[k]
  BY <1>1, OthersStay DEF Steps
<1>3. LauncherType' /\ MadeInv' /\ ResumeInv'
  BY <1>1, <1>2 DEF LauncherType, MadeInv, ResumeInv
<1>4. ~Uses(l)'
  BY <1>1, <1>2 DEF Uses, Marking
<1>5. HoldsInv'
  BY <1>1, <1>2, <1>4 DEF HoldsInv, Uses
<1> QED
  BY <1>3, <1>5

LEMMA NewSessionInv ==
    ASSUME LauncherInv, NEW l \in Launchers, NewSession(l)
    PROVE  LauncherInv'
<1> USE DEF LauncherInv, NewSession, script
<1>1. CASE UNCHANGED <<names, created, made>> /\ Goes(l, "recheck")
  <2>1. /\ at'[l] = "recheck" /\ at' \in [Launchers -> Steps]
        /\ \A k \in Launchers \ {l} : at'[k] = at[k]
    BY <1>1, OthersStay DEF Steps
  <2> QED
    BY <1>1, <2>1 DEF LauncherType, MadeInv, ResumeInv, HoldsInv, Uses, Marking
<1>2. CASE /\ name[l] \notin names
           /\ names' = names \cup {name[l]}
           /\ made' = made \cup {<<name[l], l>>}
           /\ Goes(l, "instance")
  <2>1. /\ at'[l] = "instance" /\ at' \in [Launchers -> Steps]
        /\ \A k \in Launchers \ {l} : at'[k] = at[k]
    BY <1>2, OthersStay DEF Steps, Marking
  <2>2. \A m \in made : m \in names \X Launchers /\ m[1] # name[l]
    BY <1>2 DEF MadeInv
  <2>3. MadeInv'
    BY <1>2, <2>2 DEF MadeInv
  <2>4. LauncherType' /\ ResumeInv'
    BY <2>1 DEF LauncherType, ResumeInv
  <2>5. HoldsInv'
    BY <1>2, <2>1 DEF HoldsInv, Uses
  <2> QED
    BY <2>3, <2>4, <2>5
<1> QED
  BY <1>1, <1>2

\* The options are set between the creation of a session and its opening.
LEMMA MarksInv ==
    ASSUME LauncherInv, NEW l \in Launchers, SetInstance(l) \/ SetHistory(l)
    PROVE  LauncherInv'
<1> USE DEF LauncherInv, SetInstance, SetHistory, script
<1>1. at[l] \in Marking /\ UNCHANGED <<names, name, multiple, resumes, made, lost>>
  BY DEF Marking
<1>2. PICK there \in {"history", "open"} : Goes(l, there)
  OBVIOUS
<1>3. /\ at'[l] = there /\ at' \in [Launchers -> Steps]
      /\ \A k \in Launchers \ {l} : at'[k] = at[k]
  BY <1>2, OthersStay DEF Steps, Marking
<1>4. LauncherType' /\ MadeInv' /\ ResumeInv'
  BY <1>1, <1>3 DEF LauncherType, MadeInv, ResumeInv
<1>5. HoldsInv'
  BY <1>1, <1>3 DEF HoldsInv, Uses
<1> QED
  BY <1>4, <1>5

LEMMA OpenInv ==
    ASSUME LauncherInv, NEW l \in Launchers, Open(l)
    PROVE  LauncherInv'
<1> USE DEF LauncherInv, Open, script
<1>1. /\ at'[l] = "idle" /\ at' \in [Launchers -> Steps]
      /\ \A k \in Launchers \ {l} : at'[k] = at[k]
  BY OthersStay DEF Steps
<1>2. LauncherType' /\ MadeInv' /\ ResumeInv'
  BY <1>1 DEF LauncherType, MadeInv, ResumeInv
<1>3. HoldsInv'
  <2> SUFFICES ASSUME NEW k \in Launchers \ lost, Uses(k)' PROVE <<name[k], k>> \in made'
    BY DEF HoldsInv
  <2>1. k # l /\ Uses(k)
    BY <1>1 DEF Uses, Marking
  <2> QED
    BY <2>1 DEF HoldsInv
<1> QED
  BY <1>2, <1>3

LEMMA LauncherNextInv == LauncherInv /\ [LauncherNext]_launcherVars => LauncherInv'
<1> SUFFICES ASSUME LauncherInv, [LauncherNext]_launcherVars PROVE LauncherInv'
  OBVIOUS
<1>1. ASSUME NEW l \in Launchers, Script(l) PROVE LauncherInv'
  <2>1. CASE HasSession(l)
    BY <2>1, TakenInv DEF HasSession
  <2>2. CASE HasSessionAfterFailure(l)
    BY <2>2, TakenInv DEF HasSessionAfterFailure
  <2> QED
    BY <1>1, <2>1, <2>2, LaunchInv, NewSessionInv, MarksInv, OpenInv DEF Script
<1>2. CASE UNCHANGED launcherVars
  BY <1>2 DEF launcherVars, script, options, LauncherInv, LauncherType, MadeInv, ResumeInv, HoldsInv, Uses
<1> QED
  BY <1>1, <1>2, SessionEndsInv DEF LauncherNext

\* Launchers that race for session names mark and resume only sessions that they
\* created in this launch, and no two of them the same one (new-session is the
\* atomic operation of launch.sh).
THEOREM LaunchersKeepApart == LauncherSpec => []OwnSession
  BY LauncherInitInv, LauncherNextInv, LauncherInvImplies, PTL DEF LauncherSpec

-----------------------------------------------------------------------------
(* Types of the launchers *)

Naming == \A l \in Launchers : multiple[l] => name[l] \in Numbers

NamingInv == LauncherTypeOK /\ Naming

\* Every variable of the launchers keeps its type, and a launcher of a numbered
\* instance has a number for its name.
THEOREM LauncherTypeCorrect == LauncherSpec => []LauncherTypeOK
<1> USE DEF NamingInv, LauncherTypeOK, Naming
<1>1. 1 \in Numbers /\ Numbers \subseteq Names /\ Directory \in Names
  BY LauncherAssumption DEF Numbers, Names
<1>2. LauncherInit => NamingInv
  BY <1>1 DEF LauncherInit, Steps
<1>3. NamingInv /\ [LauncherNext]_launcherVars => NamingInv'
  <2> SUFFICES ASSUME NamingInv, [LauncherNext]_launcherVars PROVE NamingInv'
    OBVIOUS
  <2>1. ASSUME NEW l \in Launchers, Launch(l) PROVE NamingInv'
    <3>1. PICK option \in BOOLEAN, reference \in Conversations \cup {Unset} :
            /\ multiple' = [multiple EXCEPT ![l] = Multiple(option, reference)]
            /\ resumes' = [resumes EXCEPT ![l] = reference]
            /\ name' = [name EXCEPT ![l] = IF Multiple(option, reference) THEN 1 ELSE Directory]
      BY <2>1 DEF Launch
    <3>2. Multiple(option, reference) \in BOOLEAN
      BY DEF Multiple
    <3> QED
      BY <1>1, <2>1, <3>1, <3>2 DEF Launch, Goes, options, Steps
  <2>2. ASSUME NEW l \in Launchers, HasSession(l) \/ HasSessionAfterFailure(l) PROVE NamingInv'
    BY <1>1, <2>2 DEF HasSession, HasSessionAfterFailure, Taken, Goes, options, Steps
  <2>3. ASSUME NEW l \in Launchers, NewSession(l) PROVE NamingInv'
    <3>1. "instance" \in Steps /\ "recheck" \in Steps
      BY DEF Steps, Marking
    <3>2. at' \in [Launchers -> Steps]
      <4>1. PICK there \in {"instance", "recheck"} : at' = [at EXCEPT ![l] = there]
        BY <2>3 DEF NewSession, Goes
      <4> QED
        BY <3>1, <4>1
    <3>3. CASE UNCHANGED <<names, created, made>>
      BY <2>3, <3>2, <3>3 DEF NewSession, options, script
    <3>4. CASE /\ names' = names \cup {name[l]} /\ made' = made \cup {<<name[l], l>>}
               /\ created' = [created EXCEPT ![l] = TRUE]
      <4>1. name[l] \in Names /\ names' \subseteq Names /\ made' \subseteq names' \X Launchers
        BY <3>4
      <4> QED
        BY <2>3, <3>2, <3>4, <4>1 DEF NewSession, options, script
    <3> QED
      BY <2>3, <3>3, <3>4 DEF NewSession
  <2>4. ASSUME NEW l \in Launchers, SetInstance(l) PROVE NamingInv'
    BY <2>4 DEF SetInstance, Goes, script, Steps, Marking
  <2>5. ASSUME NEW l \in Launchers, SetHistory(l) PROVE NamingInv'
    BY <2>5 DEF SetHistory, Goes, script, Steps
  <2>6. ASSUME NEW l \in Launchers, Open(l) PROVE NamingInv'
    BY <2>6 DEF Open, Goes, options, script, Steps
  <2>7. ASSUME NEW n \in Names, NamedSessionEnds(n) PROVE NamingInv'
    BY <2>7 DEF NamedSessionEnds, script
  <2>8. CASE UNCHANGED launcherVars
    BY <2>8 DEF launcherVars, options, script
  <2> QED
    BY <2>1, <2>2, <2>3, <2>4, <2>5, <2>6, <2>7, <2>8 DEF LauncherNext, Script
<1> QED
  BY <1>2, <1>3, PTL DEF LauncherSpec

-----------------------------------------------------------------------------
(* Numbers of instances *)

\* A launcher past set-option @agent_instance, whose session is there, has marked it.
Numbered ==
    \A l \in Launchers \ lost :
        at[l] \in {"history", "open"} /\ multiple[l] => instance[name[l]] # Unset

Marks ==
    /\ DOMAIN instance = Names
    /\ \A n \in Names : instance[n] # Unset => instance[n] = n \/ <<instance[n], n>> \in Begins

\* The session that a launcher marks is its own while that exists.
LEMMA SetInstanceMarks ==
    ASSUME LauncherInv, LauncherTypeOK, Numbered, Marks, NEW l \in Launchers, SetInstance(l)
    PROVE  Numbered' /\ Marks'
<1>1. /\ instance' = [n \in Names |-> IF multiple[l] /\ n \in Target(name[l])
                                      THEN name[l] ELSE instance[n]]
      /\ at[l] \in Marking /\ Goes(l, "history")
      /\ UNCHANGED <<name, multiple, lost>>
  BY DEF SetInstance, script, Marking
<1>2. name[l] \in Names /\ name[l] # Unset
  BY LauncherAssumption DEF LauncherTypeOK
<1>3. \A n \in Target(name[l]) : n = name[l] \/ <<name[l], n>> \in Begins
  BY DEF Target
<1>4. Marks'
  BY <1>1, <1>3 DEF Marks
<1>5. ASSUME NEW k \in Launchers \ lost, at'[k] \in {"history", "open"}, multiple[k]
      PROVE  instance'[name[k]] # Unset
  <2>1. name[k] \in Names
    BY DEF LauncherTypeOK
  <2>2. CASE k = l
    <3>1. name[l] \in names
      BY <1>1, <2>2 DEF LauncherInv, HoldsInv, MadeInv, Uses
    <3> QED
      BY <1>1, <1>2, <2>2, <1>5, <3>1 DEF Target
  <2>3. CASE k # l
    <3>1. instance[name[k]] # Unset
      BY <1>1, <1>5, <2>3 DEF Numbered, Goes, LauncherTypeOK
    <3> QED
      BY <1>1, <1>2, <2>1, <3>1
  <2> QED
    BY <2>2, <2>3
<1> QED
  BY <1>1, <1>4, <1>5 DEF Numbered

\* Every other command leaves the numbers, and a session that ends takes its own along.
LEMMA OthersMark ==
    ASSUME LauncherInv, LauncherTypeOK, Numbered, Marks
    PROVE  /\ \A l \in Launchers : Script(l) /\ ~SetInstance(l) => Numbered' /\ Marks'
           /\ \A n \in Names : NamedSessionEnds(n) => Numbered' /\ Marks'
<1>1. ASSUME NEW l \in Launchers, Script(l), ~SetInstance(l) PROVE Numbered' /\ Marks'
  <2>1. UNCHANGED instance
    BY <1>1 DEF Script, Launch, HasSession, NewSession, HasSessionAfterFailure, SetHistory,
                Open, options
  <2>2. /\ lost \subseteq lost' \cup {l}
        /\ \A k \in Launchers \ {l} :
              at'[k] = at[k] /\ name'[k] = name[k] /\ multiple'[k] = multiple[k]
    BY <1>1 DEF Script, Launch, HasSession, NewSession, HasSessionAfterFailure, SetHistory,
                Open, Goes, Taken, script, LauncherTypeOK
  <2>3. ASSUME l \notin lost', at'[l] \in {"history", "open"}, multiple'[l]
        PROVE  at[l] = "history" /\ l \notin lost /\ multiple[l] /\ name'[l] = name[l]
    BY <1>1, <2>3 DEF Script, Launch, HasSession, NewSession, HasSessionAfterFailure, SetHistory,
                Open, Goes, Taken, script, LauncherTypeOK
  <2> QED
    BY <2>1, <2>2, <2>3 DEF Numbered, Marks
<1>2. ASSUME NEW n \in Names, NamedSessionEnds(n) PROVE Numbered' /\ Marks'
  <2>1. /\ instance' = [instance EXCEPT ![n] = Unset] /\ UNCHANGED <<at, name, multiple>>
        /\ lost' = lost \cup {l \in Launchers : <<n, l>> \in made}
    BY <1>2 DEF NamedSessionEnds, script
  <2>2. ASSUME NEW l \in Launchers \ lost', at[l] \in {"history", "open"}, multiple[l]
        PROVE  instance'[name[l]] # Unset
    <3>1. name[l] # n
      BY <2>1, <2>2 DEF LauncherInv, HoldsInv, Uses, Marking
    <3> QED
      BY <2>1, <2>2, <3>1 DEF Numbered, Marks
  <2> QED
    BY <2>1, <2>2 DEF Numbered, Marks
<1> QED
  BY <1>1, <1>2

\* launch.sh marks what -t finds, when the session it created may have ended already.
\* However launchers race and sessions end, a numbered session has its number when it
\* is opened, and none has the number of a session whose name does not begin its own.
THEOREM InstancesNameSessions == LauncherSpec => []InstanceNamesSession
<1>1. LauncherInit => Numbered /\ Marks
  BY DEF LauncherInit, Numbered, Marks
<1>2. /\ LauncherInv /\ LauncherTypeOK /\ Numbered /\ Marks
      /\ [LauncherNext]_launcherVars
      => Numbered' /\ Marks'
  <2>1. UNCHANGED launcherVars /\ Numbered /\ Marks => Numbered' /\ Marks'
    BY DEF launcherVars, script, options, Numbered, Marks
  <2> QED
    BY <2>1, SetInstanceMarks, OthersMark DEF LauncherNext
<1>3. LauncherSpec => []LauncherInv
  BY LauncherInitInv, LauncherNextInv, PTL DEF LauncherSpec
<1>4. Numbered /\ Marks => InstanceNamesSession
  BY DEF Numbered, Marks, InstanceNamesSession
<1> QED
  BY <1>1, <1>2, <1>3, <1>4, LauncherTypeCorrect, PTL DEF LauncherSpec

-----------------------------------------------------------------------------
(* BulkKill. The invariant relates where the script is to what it has       *)
(* counted, to what the daemon knows of the target, and to the sessions     *)
(* that are gone.                                                           *)


\* The target's state is being read, or was.
Reading == {"daemon", "mirror", "kill"}

TargetInv ==
    stage \in Reading => /\ target \in matched
                         /\ target \notin left \cup killed \cup skipped

\* Where the matched sessions are counted.
AccountInv ==
    /\ killed \cap skipped = {} /\ left \cap (killed \cup skipped) = {}
    /\ stage \in {"confirm", "load", "single"} =>
           killed = {} /\ skipped = {} /\ failed = {} /\ left = {}
    /\ stage = "single" => \E s : matched = {s}
    /\ stage = "next" => matched = left \cup killed \cup skipped \cup failed
    /\ stage \in Reading =>
           matched = left \cup {target} \cup killed \cup skipped \cup failed
    /\ stage = "report" /\ ~aborted => matched = killed \cup skipped \cup failed
    /\ aborted => stage \in {"report", "idle"} /\ failed # {}
    /\ stage # "idle" => result = "none"

\* Killed sessions are gone for good, and reported ones have no record.
GoneInv ==
    /\ killed \cap live = {}
    /\ \A p \in Panes : record[p] # None => record[p].session \notin reported
    /\ result = "ok" => killed = reported

\* What was read is still so, or became so since.
FreshInv ==
    /\ stage \in {"mirror", "kill"} /\ target \in RecordedActive => fresh
    /\ stage = "kill" /\ target \in MirroredActive => fresh

IInv == TypeOK /\ TargetInv /\ AccountInv /\ GoneInv /\ FreshInv /\ OkIsComplete

USE BulkKillAssumption
USE DEF Reading

LEMMA InitIInv == Init => IInv
<1> SUFFICES ASSUME Init PROVE IInv
    OBVIOUS
<1>1. TypeOK
  <2>1. home \in [Panes -> live \cup {None}] /\ record \in [Panes -> Records \cup {None}]
      BY DEF Init
  <2>2. agent \in [Panes -> Activities] /\ mirror \in [Sessions -> Activities]
      BY DEF Init, Activities
  <2>3. faults \in 0..MaxFaults /\ live \subseteq Sessions
      BY DEF Init
  <2> QED BY <2>1, <2>2, <2>3 DEF Init, TypeOK, Stages
<1>2. TargetInv /\ AccountInv BY DEF Init, TargetInv, AccountInv
<1>3. GoneInv /\ FreshInv /\ OkIsComplete BY DEF Init, GoneInv, FreshInv, OkIsComplete
<1> QED BY <1>1, <1>2, <1>3 DEF IInv

-----------------------------------------------------------------------------
(* The steps of others leave the picker alone. *)

LEMMA PickerUnchanged ==
    ASSUME IInv, UNCHANGED picker
    PROVE  TargetInv' /\ AccountInv' /\ OkIsComplete'
BY DEF IInv, picker, batch, counts, TargetInv, AccountInv, OkIsComplete

LEMMA ObservedRecord ==
    ASSUME TypeOK, NEW p \in Panes
    PROVE  /\ Observed(p) \in Records \cup {None}
           /\ Observed(p) # None => Observed(p).session \in live
BY DEF TypeOK, Observed, Records

LEMMA NotedFresh ==
    ASSUME IInv, UNCHANGED picker, Noted
    PROVE  FreshInv' /\ fresh' \in BOOLEAN
<1>1. fresh' \in BOOLEAN
    BY DEF IInv, TypeOK, Noted
<1>2. stage' = stage /\ target' = target
    BY DEF picker, batch
<1>3. ASSUME stage \in {"mirror", "kill"}, target \in RecordedActive' PROVE fresh'
  <2>1. CASE target \in RecordedActive BY <1>3, <2>1 DEF IInv, FreshInv, Noted
  <2>2. CASE target \notin RecordedActive BY <1>3, <2>2 DEF Noted
  <2> QED BY <2>1, <2>2
<1>4. ASSUME stage = "kill", target \in MirroredActive' PROVE fresh'
  <2>1. CASE target \in MirroredActive BY <1>4, <2>1 DEF IInv, FreshInv, Noted
  <2>2. CASE target \notin MirroredActive BY <1>4, <2>2 DEF Noted
  <2> QED BY <2>1, <2>2
<1> QED BY <1>1, <1>2, <1>3, <1>4 DEF FreshInv

LEMMA OthersKeep ==
    ASSUME IInv,
           \/ \E p \in Panes : AgentTurns(p) \/ MirrorSet(p) \/ PaneMoves(p) \/ Reported(p)
           \/ \E s \in Sessions : SessionEnds(s)
           \/ Scan \/ DaemonRestarts
    PROVE  IInv'
<1>1. UNCHANGED picker
    BY DEF AgentTurns, MirrorSet, PaneMoves, Reported, SessionEnds, Scan, DaemonRestarts
<1>2. TargetInv' /\ AccountInv' /\ OkIsComplete'
    BY <1>1, PickerUnchanged
<1>3. ASSUME UNCHANGED <<mirror, record, fresh>> PROVE FreshInv'
    BY <1>1, <1>3
    DEF IInv, FreshInv, picker, batch, RecordedActive, MirroredActive
<1>4. ASSUME live' \subseteq live, UNCHANGED record PROVE GoneInv'
    BY <1>1, <1>4 DEF IInv, GoneInv, picker, batch, counts
<1>5. ASSUME NEW p \in Panes, AgentTurns(p) PROVE IInv'
  <2>1. TypeOK'
      BY <1>5 DEF AgentTurns, IInv, TypeOK, picker, batch, counts
  <2> QED BY <1>2, <1>3, <1>4, <1>5, <2>1 DEF AgentTurns, IInv
<1>6. ASSUME NEW p \in Panes, MirrorSet(p) PROVE IInv'
  <2>1. FreshInv' /\ fresh' \in BOOLEAN
      BY <1>1, <1>6, NotedFresh DEF MirrorSet
  <2>2. TypeOK'
      BY <1>6, <2>1 DEF MirrorSet, IInv, TypeOK, panes, picker, batch, counts
  <2> QED BY <1>2, <1>4, <1>6, <2>1, <2>2 DEF MirrorSet, IInv
<1>7. ASSUME NEW p \in Panes, PaneMoves(p) PROVE IInv'
  <2>1. TypeOK'
      BY <1>7 DEF PaneMoves, IInv, TypeOK, picker, batch, counts
  <2> QED BY <1>2, <1>3, <1>4, <1>7, <2>1 DEF PaneMoves, IInv
<1>8. ASSUME NEW s \in Sessions, SessionEnds(s) PROVE IInv'
  <2>1. TypeOK'
      BY <1>8 DEF SessionEnds, Ended, IInv, TypeOK, picker, batch, counts
  <2>2. live' \subseteq live
      BY <1>8 DEF SessionEnds, Ended
  <2> QED BY <1>2, <1>3, <1>4, <1>8, <2>1, <2>2 DEF SessionEnds, IInv
<1>9. ASSUME \A p \in Panes :
                 record'[p] = record[p] \/ record'[p] = Observed(p) \/ record'[p] = None,
             record' \in [Panes -> Records \cup {None}],
             UNCHANGED live
      PROVE  GoneInv'
    BY <1>1, <1>9, ObservedRecord DEF IInv, GoneInv, TypeOK, picker, batch, counts
<1>10. ASSUME NEW p \in Panes, Reported(p) PROVE IInv'
  <2>1. FreshInv' /\ fresh' \in BOOLEAN
      BY <1>1, <1>10, NotedFresh DEF Reported
  <2>2. record' \in [Panes -> Records \cup {None}]
      BY <1>10, ObservedRecord DEF Reported, IInv, TypeOK
  <2>3. TypeOK'
      BY <1>10, <2>1, <2>2 DEF Reported, IInv, TypeOK, panes, picker, batch, counts
  <2>4. GoneInv'
      BY <1>9, <1>10, <2>2 DEF Reported, IInv, TypeOK
  <2> QED BY <1>2, <2>1, <2>3, <2>4 DEF IInv
<1>11. ASSUME Scan PROVE IInv'
  <2>1. FreshInv' /\ fresh' \in BOOLEAN
      BY <1>1, <1>11, NotedFresh DEF Scan
  <2>2. record' \in [Panes -> Records \cup {None}]
      BY <1>11, ObservedRecord DEF Scan, IInv
  <2>3. TypeOK'
      BY <1>11, <2>1, <2>2 DEF Scan, IInv, TypeOK, panes, picker, batch, counts
  <2>4. GoneInv'
      BY <1>9, <1>11, <2>2 DEF Scan
  <2> QED BY <1>2, <2>1, <2>3, <2>4 DEF IInv
<1>12. ASSUME DaemonRestarts PROVE IInv'
  <2>1. TypeOK'
      BY <1>12 DEF DaemonRestarts, Fault, IInv, TypeOK, panes, picker, batch, counts
  <2>2. GoneInv'
      BY <1>9, <1>12 DEF DaemonRestarts
  <2>3. FreshInv'
      BY <1>1, <1>12
      DEF DaemonRestarts, IInv, FreshInv, picker, batch, RecordedActive, MirroredActive
  <2> QED BY <1>2, <2>1, <2>2, <2>3 DEF IInv
<1> QED BY <1>5, <1>6, <1>7, <1>8, <1>10, <1>11, <1>12

-----------------------------------------------------------------------------
(* The script, from one command to the next. *)

\* What no step of the script but a kill and a report touches.
World == <<live, panes, mirror, record>>

LEMMA MatchKeeps ==
    ASSUME IInv, Match \/ MatchOne
    PROVE  IInv'
<1> USE DEF IInv
<1>1. PICK rows, active : rows \subseteq live /\ active \subseteq rows /\ Starts(rows, active)
    BY DEF Match, MatchOne
<1>2. stage' \in {"confirm", "single"} /\ UNCHANGED World /\ fresh' = fresh
    BY DEF Match, MatchOne, World
<1>3. faults' \in 0..MaxFaults
    BY DEF Match, MatchOne, Fault, TypeOK
<1>4. TypeOK'
    BY <1>1, <1>2, <1>3 DEF TypeOK, Stages, Starts, World, panes
<1>5. stage' = "single" => \E s : matched' = {s}
    BY DEF Match, MatchOne, Starts
<1>6. TargetInv' /\ AccountInv' /\ OkIsComplete'
    BY <1>1, <1>2, <1>5 DEF TargetInv, AccountInv, OkIsComplete, Starts
<1>7. GoneInv' /\ FreshInv'
    BY <1>1, <1>2 DEF GoneInv, FreshInv, Starts, World
<1> QED BY <1>4, <1>6, <1>7

\* The script returns before it has killed anything.
LEMMA FinishesEmpty ==
    ASSUME IInv, NEW outcome \in {"none", "failed"}, stage \in {"confirm", "load"},
           Finishes(outcome), faults' \in 0..MaxFaults,
           UNCHANGED <<live, panes, mirror, record, matched, counts, reported, fresh>>
    PROVE  IInv'
<1> USE DEF IInv, Finishes
<1>1. TypeOK' BY DEF TypeOK, Stages, panes, counts
<1>2. TargetInv' /\ AccountInv' /\ OkIsComplete'
    BY DEF TargetInv, AccountInv, OkIsComplete, counts
<1>3. GoneInv' /\ FreshInv' BY DEF GoneInv, FreshInv, counts
<1> QED BY <1>1, <1>2, <1>3

LEMMA ConfirmKeeps ==
    ASSUME IInv, Confirm
    PROVE  IInv'
<1>1. faults' \in 0..MaxFaults
    BY DEF Confirm, Fault, IInv, TypeOK
<1>2. CASE stage' = "load" /\ UNCHANGED <<faults, shown, left, protected, target, result>>
  <2> USE DEF IInv, Confirm
  <2>1. TypeOK' BY <1>2 DEF TypeOK, Stages, panes, counts
  <2>2. TargetInv' /\ AccountInv' /\ OkIsComplete'
      BY <1>2 DEF TargetInv, AccountInv, OkIsComplete, counts
  <2>3. GoneInv' /\ FreshInv' BY <1>2 DEF GoneInv, FreshInv, counts
  <2> QED BY <2>1, <2>2, <2>3
<1> QED BY <1>1, <1>2, FinishesEmpty DEF Confirm

LEMMA LoadKeeps ==
    ASSUME IInv, Load
    PROVE  IInv'
<1>1. faults' \in 0..MaxFaults
    BY DEF Load, Fault, IInv, TypeOK
<1>2. CASE /\ left' = matched /\ protected' = matched \cap (shown \cup RecordedActive)
           /\ stage' = "next" /\ UNCHANGED <<faults, shown, target, result>>
  <2> USE DEF IInv, Load
  <2>1. TypeOK' BY <1>2 DEF TypeOK, Stages, panes, counts
  <2>2. TargetInv' /\ AccountInv' /\ OkIsComplete'
      BY <1>2 DEF TargetInv, AccountInv, OkIsComplete, counts
  <2>3. GoneInv' /\ FreshInv' BY <1>2 DEF GoneInv, FreshInv, counts
  <2> QED BY <2>1, <2>2, <2>3
<1> QED BY <1>1, <1>2, FinishesEmpty DEF Load

LEMMA NextTargetKeeps ==
    ASSUME IInv, NextTarget
    PROVE  IInv'
<1> USE DEF IInv, NextTarget, Revalidates
<1>1. TypeOK' BY DEF TypeOK, Stages, panes
<1>2. TargetInv' BY DEF TargetInv, TypeOK, AccountInv
<1>3. AccountInv' BY DEF TargetInv, TypeOK, AccountInv
<1>4. OkIsComplete' BY DEF OkIsComplete, AccountInv
<1>5. GoneInv' BY DEF GoneInv, panes
<1>6. FreshInv' BY DEF FreshInv
<1> QED BY <1>1, <1>2, <1>3, <1>4, <1>5, <1>6

\* A reading that skips, fails or aborts changes only where the target counts.
LEMMA ReadingEnds ==
    ASSUME IInv, stage \in {"daemon", "mirror"}, Skips \/ Fails \/ Aborts,
           faults' \in 0..MaxFaults,
           UNCHANGED <<live, panes, mirror, record, matched, shown, left, protected,
                       target, killed, reported, result, fresh>>
    PROVE  IInv'
<1> USE DEF IInv, Skips, Fails, Aborts
<1>1. TypeOK' BY DEF TypeOK, Stages, panes, TargetInv
<1>2. stage' \in {"next", "report"} OBVIOUS
<1>3. TargetInv' BY <1>2 DEF TargetInv
<1>4. AccountInv'
  <2>1. killed' \cap skipped' = {} /\ left' \cap (killed' \cup skipped') = {}
      BY DEF AccountInv, TargetInv
  <2>2. stage' = "next" => matched' = left' \cup killed' \cup skipped' \cup failed'
      BY DEF AccountInv
  <2>3. aborted' => stage' \in {"report", "idle"} /\ failed' # {}
      BY DEF AccountInv
  <2>4. stage' = "report" => aborted'
      OBVIOUS
  <2>5. result' = "none"
      BY DEF AccountInv
  <2> QED BY <1>2, <2>1, <2>2, <2>3, <2>4, <2>5 DEF AccountInv
<1>5. OkIsComplete' BY DEF OkIsComplete, AccountInv
<1>6. GoneInv' BY DEF GoneInv, panes
<1>7. FreshInv' BY <1>2 DEF FreshInv
<1> QED BY <1>1, <1>3, <1>4, <1>5, <1>6, <1>7

LEMMA ReadDaemonKeeps ==
    ASSUME IInv, ReadDaemon
    PROVE  IInv'
<1>1. faults' \in 0..MaxFaults
    BY DEF ReadDaemon, Fault, IInv, TypeOK, Aborts, Skips
<1>2. CASE /\ target \notin RecordedActive /\ stage' = "mirror"
           /\ UNCHANGED <<faults, skipped, failed, aborted>>
  <2> USE DEF IInv, ReadDaemon
  <2>1. TypeOK' BY <1>2 DEF TypeOK, Stages, panes
  <2>2. TargetInv' /\ AccountInv' /\ OkIsComplete'
      BY <1>2 DEF TargetInv, AccountInv, OkIsComplete
  <2>3. GoneInv' BY <1>2 DEF GoneInv, panes
  <2>4. FreshInv' BY <1>2 DEF FreshInv, RecordedActive
  <2> QED BY <2>1, <2>2, <2>3, <2>4
<1> QED BY <1>1, <1>2, ReadingEnds DEF ReadDaemon

LEMMA ReadMirrorKeeps ==
    ASSUME IInv, ReadMirror
    PROVE  IInv'
<1>1. faults' \in 0..MaxFaults
    BY DEF ReadMirror, Fault, IInv, TypeOK
<1>2. CASE /\ mirror[target] = "resting" /\ stage' = "kill"
           /\ UNCHANGED <<faults, skipped, failed, aborted>>
  <2> USE DEF IInv, ReadMirror
  <2>1. TypeOK' BY <1>2 DEF TypeOK, Stages, panes
  <2>2. TargetInv' /\ AccountInv' /\ OkIsComplete'
      BY <1>2 DEF TargetInv, AccountInv, OkIsComplete
  <2>3. GoneInv' BY <1>2 DEF GoneInv, panes
  <2>4. FreshInv' BY <1>2 DEF FreshInv, RecordedActive, MirroredActive
  <2> QED BY <2>1, <2>2, <2>3, <2>4
<1> QED BY <1>1, <1>2, ReadingEnds DEF ReadMirror

\* What a kill does outside the account.
LEMMA KillsOutside ==
    ASSUME IInv, NEW s \in matched, stage \in {"kill", "single"},
           Kills(s), stage' \in {"next", "report"},
           UNCHANGED <<agent, mirror, record, matched, shown, left, protected,
                       target, skipped, aborted, reported, result, fresh>>
    PROVE  TypeOK' /\ TargetInv' /\ GoneInv' /\ FreshInv'
<1> USE DEF IInv, Kills, Ended
<1>1. home' \in [Panes -> live' \cup {None}] /\ live' \subseteq live
    BY DEF TypeOK
<1>2. faults' \in 0..MaxFaults
    BY DEF TypeOK, Fault
<1>3. killed' \subseteq matched /\ failed' \subseteq matched /\ killed \subseteq killed'
    BY DEF TypeOK
<1>4. TypeOK' BY <1>1, <1>2, <1>3 DEF TypeOK, Stages
<1>5. TargetInv' /\ FreshInv' BY DEF TargetInv, FreshInv
<1>6. killed' \cap live' = {} BY DEF GoneInv
<1>7. result' # "ok" BY DEF AccountInv
<1>8. GoneInv' BY <1>6, <1>7 DEF GoneInv
<1> QED BY <1>4, <1>5, <1>8

LEMMA KillKeeps ==
    ASSUME IInv, Kill
    PROVE  IInv'
<1> USE DEF IInv, Kill
<1>1. target \in matched BY DEF TargetInv
<1>2. AccountInv' BY DEF Kills, AccountInv, TargetInv
<1>3. OkIsComplete' BY DEF OkIsComplete, AccountInv
<1> QED BY <1>1, <1>2, <1>3, KillsOutside

LEMMA KillTargetKeeps ==
    ASSUME IInv, KillTarget
    PROVE  IInv'
<1> USE DEF IInv, KillTarget
<1>1. PICK s \in matched : Kills(s) OBVIOUS
<1>2. AccountInv' BY <1>1 DEF Kills, AccountInv
<1>3. OkIsComplete' BY DEF OkIsComplete, AccountInv
<1> QED BY <1>1, <1>2, <1>3, KillsOutside

LEMMA ReportKeeps ==
    ASSUME IInv, Report
    PROVE  IInv'
<1> USE DEF IInv, Report
<1>1. CASE /\ Finishes(IF failed = {} THEN "ok" ELSE "failed") /\ killed = reported
           /\ UNCHANGED <<faults, record, reported>>
  <2> USE DEF Finishes
  <2>1. TypeOK' BY <1>1 DEF TypeOK, Stages, panes, counts
  <2>2. TargetInv' /\ AccountInv' /\ OkIsComplete'
      BY <1>1 DEF TargetInv, AccountInv, OkIsComplete, counts
  <2>3. GoneInv' /\ FreshInv' BY <1>1 DEF GoneInv, FreshInv, counts
  <2> QED BY <2>1, <2>2, <2>3
<1>2. CASE Fault /\ Finishes("failed") /\ UNCHANGED <<record, reported>>
  <2> USE DEF Finishes
  <2>1. TypeOK' BY <1>2 DEF TypeOK, Stages, panes, counts, Fault
  <2>2. TargetInv' /\ AccountInv' /\ OkIsComplete'
      BY <1>2 DEF TargetInv, AccountInv, OkIsComplete, counts
  <2>3. GoneInv' /\ FreshInv' BY <1>2 DEF GoneInv, FreshInv, counts
  <2> QED BY <2>1, <2>2, <2>3
<1>3. ASSUME NEW s \in killed \ reported, Forgotten(s), reported' = reported \cup {s},
             UNCHANGED <<faults, stage, shown, left, protected, target, result>>
      PROVE  IInv'
  <2>1. /\ record' \in [Panes -> Records \cup {None}]
        /\ \A p \in Panes : record'[p] # None =>
               record'[p] = record[p] /\ record[p].session # s
      BY <1>3 DEF TypeOK, Forgotten
  <2>2. TypeOK' BY <1>3, <2>1 DEF TypeOK, panes, counts
  <2>3. TargetInv' /\ AccountInv' /\ OkIsComplete'
      BY <1>3 DEF TargetInv, AccountInv, OkIsComplete, counts
  <2>4. GoneInv' BY <1>3, <2>1 DEF GoneInv, AccountInv, counts
  <2>5. FreshInv' BY <1>3 DEF FreshInv
  <2> QED BY <2>2, <2>3, <2>4, <2>5
<1> QED BY <1>1, <1>2, <1>3

LEMMA NextIInv == IInv /\ [Next]_vars => IInv'
<1> SUFFICES ASSUME IInv, [Next]_vars PROVE IInv'
    OBVIOUS
<1>1. CASE UNCHANGED vars
  <2> USE <1>1 DEF vars, panes, picker, batch, counts, IInv
  <2>1. TypeOK' BY DEF TypeOK
  <2>2. TargetInv' /\ OkIsComplete' BY DEF TargetInv, OkIsComplete
  <2>3. AccountInv' BY DEF AccountInv
  <2>4. GoneInv' BY DEF GoneInv
  <2>5. FreshInv' BY DEF FreshInv, RecordedActive, MirroredActive
  <2> QED BY <2>1, <2>2, <2>3, <2>4, <2>5
<1>2. CASE Match \/ MatchOne \/ Confirm \/ Load \/ NextTarget
    BY <1>2, MatchKeeps, ConfirmKeeps, LoadKeeps, NextTargetKeeps
<1>3. CASE ReadDaemon \/ ReadMirror \/ Kill \/ KillTarget \/ Report
    BY <1>3, ReadDaemonKeeps, ReadMirrorKeeps, KillKeeps, KillTargetKeeps, ReportKeeps
<1> QED BY <1>1, <1>2, <1>3, OthersKeep DEF Next, Proceeds

-----------------------------------------------------------------------------

\* Every reachable state is well typed: what is counted was matched, and panes
\* are in sessions that exist.
THEOREM TypeCorrect == Spec => []TypeOK
<1>1. IInv => TypeOK BY DEF IInv
<1> QED BY InitIInv, NextIInv, <1>1, PTL DEF Spec

\* A bulk kill ends an active session only if it became active after its own
\* state was read (revalidate_target_before_kill, actions.sh), for any number of
\* sessions and panes.
THEOREM TurnsSurvive == Spec => RecordedTurnsSurvive
<1>1. IInv /\ [Next]_vars =>
        [\A s \in killed' \ killed :
            stage = "kill" /\ s \in RecordedActive \cup MirroredActive => fresh]_vars
  <2> SUFFICES ASSUME IInv, [Next]_vars, NEW s \in killed' \ killed, stage = "kill",
                      s \in RecordedActive \cup MirroredActive
               PROVE  fresh
      OBVIOUS
  <2>1. s = target
    <3>1. CASE Kill BY <3>1 DEF Kill, Kills
    <3>2. CASE UNCHANGED killed BY <3>2
    <3> QED
      BY <3>1, <3>2
      DEF Next, Proceeds, AgentTurns, MirrorSet, PaneMoves, Reported, SessionEnds, Scan,
          DaemonRestarts, Match, MatchOne, Confirm, Load, NextTarget, ReadDaemon,
          ReadMirror, KillTarget, Report, vars, picker, batch, counts
  <2> QED BY <2>1 DEF IInv, FreshInv
<1> QED BY InitIInv, NextIInv, <1>1, PTL DEF Spec, RecordedTurnsSurvive

\* A failed reading ends the batch (execute_validated_targets breaks).
THEOREM AbortEnds == Spec => AbortIsFinal
<1>1. IInv /\ [Next]_vars => [aborted => killed' \subseteq killed]_vars
  <2> SUFFICES ASSUME IInv, [Next]_vars, aborted PROVE killed' \subseteq killed
      OBVIOUS
  <2>1. stage \in {"report", "idle"}
      BY DEF IInv, AccountInv
  <2> QED
    BY <2>1
    DEF Next, Proceeds, AgentTurns, MirrorSet, PaneMoves, Reported, SessionEnds, Scan,
        DaemonRestarts, Match, MatchOne, Confirm, Load, NextTarget, ReadDaemon,
        ReadMirror, Kill, KillTarget, Report, Starts, vars, picker, batch, counts
<1> QED BY InitIInv, NextIInv, <1>1, PTL DEF Spec, AbortIsFinal

\* A message without failures accounts for every matched session
\* (report_bulk_kill_result, actions.sh).
THEOREM OkComplete == Spec => []OkIsComplete
<1>1. IInv => OkIsComplete BY DEF IInv
<1> QED BY InitIInv, NextIInv, <1>1, PTL DEF Spec

\* After a message without failures the daemon shows no session that was killed
\* (report_session_exits, event.sh).
THEOREM OkForgotten == Spec => []OkIsForgotten
<1>1. IInv => OkIsForgotten BY DEF IInv, GoneInv, OkIsForgotten
<1> QED BY InitIInv, NextIInv, <1>1, PTL DEF Spec
=============================================================================
