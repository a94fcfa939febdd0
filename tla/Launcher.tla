------------------------------- MODULE Launcher -------------------------------
(***************************************************************************)
(* Launching agents (scripts/launch.sh). Launchers of one agent run at     *)
(* once, and each tmux command is a step of its own: has-session, the      *)
(* atomic new-session that reserves a name, the options that say which     *)
(* instance and which conversation a session holds, and the popup that     *)
(* opens it. Sessions may end between any two of them.                     *)
(*                                                                         *)
(* has-session names its session exactly ("=$session"). Every other        *)
(* command does not, and tmux then also takes the only session whose name  *)
(* begins with the one given.                                              *)
(***************************************************************************)
EXTENDS Naturals, FiniteSets

CONSTANTS
    Launchers,
    MaxNumber,       \* bound of the numbers of sessions
    Directory,       \* the name made of the directory's hash, not a number
    Begins,          \* pairs of names, the second of which begins with the first
    Conversations,   \* resume references
    Unset

Numbers == 1..MaxNumber
Names == Numbers \cup {Directory}

ASSUME LauncherAssumption ==
    /\ MaxNumber \in Nat \ {0}
    /\ Unset \notin Names

VARIABLES
    \* tmux.
    names,           \* names of the sessions that exist
    instance,        \* instance[n]: @agent_instance of session n, or Unset
    conversation,    \* conversation[n]: @agent_history_id of session n, or Unset
    \* Each launcher.
    at,              \* at[l]: the next command of l
    name,            \* name[l]: $session
    multiple,        \* multiple[l]: $multiple_instances
    resumes,         \* resumes[l]: $resume_ref, or Unset
    created,         \* created[l]: $created
    \* History.
    made,            \* pairs of a session and the launcher at work that created it
    lost             \* the launchers whose session ended before they were done

options == <<instance, conversation>>
script == <<name, multiple, resumes>>
launcherVars == <<names, instance, conversation, at, name, multiple, resumes, created, made, lost>>

Marking == {"instance", "history"}
Steps == {"idle", "check", "create", "recheck", "open"} \cup Marking

LauncherTypeOK ==
    /\ names \subseteq Names
    /\ instance \in [Names -> Numbers \cup {Unset}]
    /\ conversation \in [Names -> Conversations \cup {Unset}]
    /\ at \in [Launchers -> Steps]
    /\ name \in [Launchers -> Names]
    /\ multiple \in [Launchers -> BOOLEAN]
    /\ resumes \in [Launchers -> Conversations \cup {Unset}]
    /\ created \in [Launchers -> BOOLEAN]
    /\ made \subseteq names \X Launchers
    /\ lost \subseteq Launchers

\* Some sessions were launched before.
LauncherInit ==
    /\ names \in SUBSET Names
    /\ instance = [n \in Names |-> IF n \in names \cap Numbers THEN n ELSE Unset]
    /\ conversation = [n \in Names |-> Unset]
    /\ at = [l \in Launchers |-> "idle"]
    /\ name = [l \in Launchers |-> 1]
    /\ multiple = [l \in Launchers |-> FALSE]
    /\ resumes = [l \in Launchers |-> Unset]
    /\ created = [l \in Launchers |-> FALSE]
    /\ made = {}
    /\ lost = {}

Goes(l, there) == at' = [at EXCEPT ![l] = there]

\* An agent exits or its session is killed.
NamedSessionEnds(n) ==
    /\ n \in names
    /\ names' = names \ {n}
    /\ instance' = [instance EXCEPT ![n] = Unset]
    /\ conversation' = [conversation EXCEPT ![n] = Unset]
    /\ lost' = lost \cup {l \in Launchers : <<n, l>> \in made}
    /\ made' = {m \in made : m[1] # n}
    /\ UNCHANGED <<at, script, created>>

\* Mutant: a conversation is resumed in whatever session the directory has.
ResumesAnywhere(option, reference) == option

\* A conversation is resumed in a session of its own, whatever the option says.
Multiple(option, reference) == option \/ reference # Unset

\* The script up to its first tmux command about sessions.
Launch(l) ==
    /\ at[l] = "idle"
    /\ \E option \in BOOLEAN, reference \in Conversations \cup {Unset} :
          /\ multiple' = [multiple EXCEPT ![l] = Multiple(option, reference)]
          /\ resumes' = [resumes EXCEPT ![l] = reference]
          /\ name' = [name EXCEPT ![l] = IF Multiple(option, reference) THEN 1 ELSE Directory]
    /\ created' = [created EXCEPT ![l] = FALSE]
    /\ lost' = lost \ {l}
    /\ Goes(l, "check")
    /\ UNCHANGED <<names, options, made>>

\* The name is taken: the next number is tried, or the session is reused.
Taken(l) ==
    \/ /\ multiple[l] /\ name[l] + 1 \in Numbers
       /\ name' = [name EXCEPT ![l] = @ + 1]
       /\ Goes(l, "check")
    \/ ~multiple[l] /\ Goes(l, "open") /\ UNCHANGED name

HasSession(l) ==
    /\ at[l] = "check"
    /\ \/ name[l] \in names /\ Taken(l)
       \/ name[l] \notin names /\ Goes(l, "create") /\ UNCHANGED name
    /\ UNCHANGED <<names, options, multiple, resumes, created, made, lost>>

\* new-session takes a free name, and may fail for other reasons.
NewSession(l) ==
    /\ at[l] = "create"
    /\ \/ /\ name[l] \notin names
          /\ names' = names \cup {name[l]}
          /\ created' = [created EXCEPT ![l] = TRUE]
          /\ made' = made \cup {<<name[l], l>>}
          /\ Goes(l, "instance")
       \/ Goes(l, "recheck") /\ UNCHANGED <<names, created, made>>
    /\ UNCHANGED <<options, script, lost>>

\* A launcher that lost the race goes on as if the name had been taken before.
HasSessionAfterFailure(l) ==
    /\ at[l] = "recheck"
    /\ \/ name[l] \in names /\ Taken(l)
       \/ name[l] \notin names /\ Goes(l, "idle") /\ UNCHANGED name
    /\ UNCHANGED <<names, options, multiple, resumes, created, made, lost>>

\* What -t finds: the session of that name, or else the only one whose name
\* begins with it.
Target(n) ==
    IF n \in names THEN {n}
    ELSE LET longer == {m \in names : <<n, m>> \in Begins}
         IN IF Cardinality(longer) = 1 THEN longer ELSE {}

\* Mutant: a session that resumes a conversation gets no number.
SetInstanceUnlessResumed(l) ==
    /\ at[l] = "instance"
    /\ instance' = [n \in Names |-> IF multiple[l] /\ resumes[l] = Unset /\ n \in Target(name[l])
                                   THEN name[l] ELSE instance[n]]
    /\ Goes(l, "history")
    /\ UNCHANGED <<names, conversation, script, created, made, lost>>

\* set-option @agent_instance, for a numbered session.
SetInstance(l) ==
    /\ at[l] = "instance"
    /\ instance' = [n \in Names |-> IF multiple[l] /\ n \in Target(name[l]) THEN name[l] ELSE instance[n]]
    /\ Goes(l, "history")
    /\ UNCHANGED <<names, conversation, script, created, made, lost>>

\* set-option @agent_history_id, for a conversation that is resumed.
SetHistory(l) ==
    /\ at[l] = "history"
    /\ conversation' =
          [n \in Names |-> IF resumes[l] # Unset /\ n \in Target(name[l]) THEN resumes[l]
                           ELSE conversation[n]]
    /\ Goes(l, "open")
    /\ UNCHANGED <<names, instance, script, created, made, lost>>

\* The popup opens what Target finds, and the launcher is done.
Open(l) ==
    /\ at[l] = "open"
    /\ Goes(l, "idle")
    /\ made' = {m \in made : m[2] # l}
    /\ UNCHANGED <<names, options, script, created, lost>>

Script(l) ==
    \/ Launch(l) \/ HasSession(l) \/ NewSession(l) \/ HasSessionAfterFailure(l)
    \/ SetInstance(l) \/ SetHistory(l) \/ Open(l)

LauncherNext == (\E l \in Launchers : Script(l)) \/ (\E n \in Names : NamedSessionEnds(n))

LauncherSpec == LauncherInit /\ [][LauncherNext]_launcherVars

-----------------------------------------------------------------------------
(* Properties *)

\* Launchers that race for names do not touch each other's sessions: whoever
\* marks a session, or opens one to resume a conversation, has created it in
\* this launch and alone, unless its own session has ended in between.
OwnSession ==
    \A l \in Launchers \ lost :
        at[l] \in Marking \/ (at[l] = "open" /\ resumes[l] # Unset)
            => /\ name[l] \in names
               /\ <<name[l], l>> \in made
               /\ \A k \in Launchers \ {l} : k \notin lost /\ at[k] \in Marking => name[k] # name[l]

\* The picker tells instances by number. A numbered session has its number when it
\* is opened, unless it ended in between; and no session, whatever ended before
\* set-option came to it, has a number other than its own or that of a session whose
\* name begins its own.
InstanceNamesSession ==
    /\ \A l \in Launchers \ lost : at[l] = "open" /\ multiple[l] => instance[name[l]] # Unset
    /\ \A n \in Names : instance[n] # Unset => instance[n] = n \/ <<instance[n], n>> \in Begins
=============================================================================
