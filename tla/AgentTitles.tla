----------------------------- MODULE AgentTitles ------------------------------
(* The title of a session view names the agent that runs inside the session's  *)
(* shell. A client shows what the last list said when it enters; afterwards    *)
(* the daemon's watcher scans the processes every two seconds, and pushes the  *)
(* agent to the attached clients when it is not the one it pushed last         *)
(* (watchAgents, updateLiveAgent, broadcastAgent). One session: the watcher    *)
(* shares one scan among sessions, and skips it while none has a client.       *)
EXTENDS Integers, Sequences

CONSTANTS Agents,      \* what may run in the shell
          Shell,       \* the session's own launch agent
          Viewers,     \* clients
          MaxChanges,  \* bound: agents started or left
          MaxVisits    \* bound: views entered or connections lost

ASSUME TitlesAssumption == Shell \in Agents /\ {MaxChanges, MaxVisits} \subseteq Nat

VARIABLES
    inside,     \* the agent that runs in the session now
    liveAgent,  \* the one pushed last
    place,      \* each client: "list", "entering" (no subscription yet), "attached"
    listed,     \* the agent its list shows
    title,      \* the agent its view shows
    pushed,     \* pushes on their way to it
    heard,      \* history: it got a push on this subscription
    watcher,    \* where the watcher's goroutine is
    scanned,    \* what its scan found
    todo,       \* the subscribers it has still to write to
    settled,    \* history: "no", a tick came since the last change, or a round did
    changes, visits

viewing    == <<place, listed, title>>
watching   == <<liveAgent, watcher, scanned, todo, settled>>
titlesVars == <<inside, viewing, pushed, heard, watching, changes, visits>>

TitlesInit ==
    /\ inside = Shell /\ liveAgent = Shell
    /\ place = [v \in Viewers |-> "list"]
    /\ listed = [v \in Viewers |-> Shell] /\ title = [v \in Viewers |-> Shell]
    /\ pushed = [v \in Viewers |-> <<>>] /\ heard = [v \in Viewers |-> FALSE]
    /\ watcher = "waits" /\ scanned = Shell /\ todo = {}
    /\ settled = "no"
    /\ changes = 0 /\ visits = 0

subs == {v \in Viewers : place[v] = "attached"}

\* An agent starts in the shell, or leaves it.
AgentChanges ==
    /\ changes < MaxChanges
    /\ changes' = changes + 1
    /\ \E a \in Agents \ {inside} : inside' = a
    /\ settled' = "no"
    /\ UNCHANGED <<viewing, pushed, heard, liveAgent, watcher, scanned, todo, visits>>

--------------------------------------------------------------------------------
(* The clients *)

\* The list's reply: each row carries what runs now (listSessions).
ListArrives(v) ==
    /\ place[v] = "list"
    /\ listed' = [listed EXCEPT ![v] = inside]
    /\ UNCHANGED <<inside, place, title, pushed, heard, watching, changes, visits>>

Enter(v) ==
    /\ place[v] = "list" /\ visits < MaxVisits
    /\ visits' = visits + 1
    /\ place' = [place EXCEPT ![v] = "entering"]
    /\ title' = [title EXCEPT ![v] = listed[v]]
    /\ UNCHANGED <<inside, listed, pushed, heard, watching, changes>>

\* The stream goroutine subscribes it.
Subscribed(v) ==
    /\ place[v] = "entering"
    /\ place' = [place EXCEPT ![v] = "attached"]
    /\ UNCHANGED <<inside, listed, title, pushed, heard, watching, changes, visits>>

\* The connection goes, with what it carries and what the watcher has still to
\* write to it: back to the list, or, lost, to a new attach that keeps the title.
Hangup(v, to) ==
    /\ place[v] = "attached"
    /\ place' = [place EXCEPT ![v] = to]
    /\ pushed' = [pushed EXCEPT ![v] = <<>>]
    /\ heard' = [heard EXCEPT ![v] = FALSE]
    /\ todo' = todo \ {v}
    /\ UNCHANGED <<inside, listed, title, liveAgent, watcher, scanned, settled, changes>>

Leave(v)     == Hangup(v, "list") /\ UNCHANGED visits
Reconnect(v) == Hangup(v, "entering") /\ visits < MaxVisits /\ visits' = visits + 1

PushArrives(v) ==
    /\ pushed[v] # <<>>
    /\ title' = [title EXCEPT ![v] = Head(pushed[v])]
    /\ pushed' = [pushed EXCEPT ![v] = Tail(@)]
    /\ heard' = [heard EXCEPT ![v] = TRUE]
    /\ UNCHANGED <<inside, place, listed, watching, changes, visits>>

--------------------------------------------------------------------------------
(* The watcher *)

WatcherGoes(from, to) ==
    /\ watcher = from /\ watcher' = to
    /\ settled' = CASE to = "scans" /\ settled = "no"   -> "tick"
                    [] to = "waits" /\ settled = "tick" -> "round"
                    [] OTHER                            -> settled

\* A tick finds a client watching; otherwise it waits for the next one.
Tick ==
    /\ WatcherGoes("waits", "scans") /\ subs # {}
    /\ UNCHANGED <<inside, viewing, pushed, heard, liveAgent, scanned, todo, changes, visits>>

\* scanProcs and agentUnder, with the launch agent when none runs.
Scan ==
    /\ WatcherGoes("scans", "compares")
    /\ scanned' = inside
    /\ UNCHANGED <<inside, viewing, pushed, heard, liveAgent, todo, changes, visits>>

\* Mutated: no agent in the shell is nothing to push.
DiffersIfAgent == scanned # liveAgent /\ scanned # Shell

\* updateLiveAgent: is there something to push?
Differs == scanned # liveAgent

\* hasSubs once more, and updateLiveAgent.
Compare ==
    /\ IF subs # {} /\ Differs
         THEN WatcherGoes("compares", "lists") /\ liveAgent' = scanned
         ELSE WatcherGoes("compares", "waits") /\ UNCHANGED liveAgent
    /\ UNCHANGED <<inside, viewing, pushed, heard, scanned, todo, changes, visits>>

\* broadcastAgent takes the subscribers, then writes to one after the other.
Snapshot ==
    /\ WatcherGoes("lists", "writes")
    /\ todo' = subs
    /\ UNCHANGED <<inside, viewing, pushed, heard, liveAgent, scanned, changes, visits>>

Push ==
    /\ watcher = "writes"
    /\ IF todo = {}
         THEN WatcherGoes("writes", "waits") /\ UNCHANGED <<todo, pushed>>
         ELSE \E v \in todo :
                /\ todo' = todo \ {v}
                /\ pushed' = [pushed EXCEPT ![v] = Append(@, scanned)]
                /\ UNCHANGED <<watcher, settled>>
    /\ UNCHANGED <<inside, viewing, heard, liveAgent, scanned, changes, visits>>

Watcher == Tick \/ Scan \/ Compare \/ Snapshot \/ Push

TitlesNext ==
    \/ AgentChanges
    \/ \E v \in Viewers :
         ListArrives(v) \/ Enter(v) \/ Subscribed(v) \/ Leave(v) \/ Reconnect(v)
           \/ PushArrives(v)
    \/ Watcher

TitlesSpec == TitlesInit /\ [][TitlesNext]_titlesVars

--------------------------------------------------------------------------------

TitlesTypeOK ==
    /\ {inside, liveAgent, scanned} \subseteq Agents
    /\ place \in [Viewers -> {"list", "entering", "attached"}]
    /\ {listed, title} \subseteq [Viewers -> Agents]
    /\ pushed \in [Viewers -> Seq(Agents)] /\ heard \in [Viewers -> BOOLEAN]
    /\ watcher \in {"waits", "scans", "compares", "lists", "writes"}
    /\ todo \subseteq Viewers /\ settled \in {"no", "tick", "round"}
    /\ changes \in 0 .. MaxChanges /\ visits \in 0 .. MaxVisits

\* Once a whole round of the watcher came after the last change of agent, a client
\* that was told anything on its present subscription, and has nothing more on its
\* way, shows the agent that runs: whatever the order of scans, changes, arrivals
\* and writes, no push is older than what it replaces and none is missed
\* (watchAgents). A client that was told nothing yet shows its list's word.
TitleIsCurrent ==
    \A v \in Viewers :
        settled = "round" /\ heard[v] /\ pushed[v] = <<>> => title[v] = inside
================================================================================
