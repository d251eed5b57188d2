-------------------------------- MODULE Startup --------------------------------
(* Starting and stopping agenton: commands `agenton vpn` and `agenton lan` that *)
(* look for a daemon and a web server and spawn what is missing, `agenton stop` *)
(* that kills both, and the processes spawned. All they share is the file       *)
(* system, the ports and the process table: nothing is locked, and what a       *)
(* command saw may have changed when it acts. A daemon and a web server have    *)
(* the name of the command that spawned them.                                   *)
EXTENDS Naturals

CONSTANTS Starters,     \* invocations of agenton vpn or agenton lan
          NoProcess,
          MaxCrashes,   \* bound: processes that die on their own
          MaxMoves      \* bound: changes of this machine's addresses

ASSUME StartupAssumption ==
    /\ NoProcess \notin Starters
    /\ MaxCrashes \in Nat /\ MaxMoves \in Nat

Reaches == {"tailnet", "lan"}

VARIABLES
    mode,      \* the reach each command was given
    start,     \* where its runStart stands
    daemon,    \* the daemon it spawned
    path,      \* the daemon that bound the socket file, or NoProcess if there is no file
    web,       \* the web server it spawned
    at,        \* the address that one listens on
    info,      \* the reach recorded in tailnet.json, or "none" without a file
    current,   \* the address recorded there is still this machine's
    stop,      \* where the stop command stands
    crashes, moves,
    \* history
    overlapped,  \* a command began before the last one and its processes were through
    quiet        \* no start ran since the stop command began

endpoint == <<info, current>>
servers  == <<web, at>>
bounds   == <<crashes, moves>>
history  == <<overlapped, quiet>>
vars == <<mode, start, daemon, path, servers, endpoint, stop, bounds, history>>

TypeOK ==
    /\ mode \in [Starters -> Reaches]
    /\ start \in [Starters -> {"idle", "webDown", "ensureDaemon", "waitDaemon", "ensureWeb",
                               "probeWeb", "respawnWeb", "waitWeb", "ready", "refused", "failed"}]
    /\ daemon \in [Starters -> {"none", "starting", "binding", "up", "closing", "dead"}]
    /\ path \in Starters \cup {NoProcess}
    /\ web \in [Starters -> {"none", "starting", "writing", "serving", "dead"}]
    /\ at \in [Starters -> Reaches \cup {"local", "none"}]
    /\ \A w \in Starters : /\ web[w] \in {"writing", "serving"} <=> at[w] # "none"
                           /\ web[w] = "writing" => at[w] # "local"
    /\ info \in Reaches \cup {"none"}
    /\ stop \in {"idle", "webs", "info", "done"}
    /\ current \in BOOLEAN /\ overlapped \in BOOLEAN /\ quiet \in BOOLEAN
    /\ crashes \in 0 .. MaxCrashes /\ moves \in 0 .. MaxMoves

\* Nothing runs; a file of an earlier run may be left.
Init ==
    /\ mode \in [Starters -> Reaches]
    /\ start = [s \in Starters |-> "idle"]
    /\ daemon = [s \in Starters |-> "none"]
    /\ path = NoProcess
    /\ web = [s \in Starters |-> "none"]
    /\ at = [s \in Starters |-> "none"]
    /\ info \in Reaches \cup {"none"}
    /\ current \in BOOLEAN
    /\ stop = "idle"
    /\ crashes = 0 /\ moves = 0
    /\ overlapped = FALSE /\ quiet = FALSE

--------------------------------------------------------------------------------
(* What a command can find out.                                                 *)

\* DialSocket succeeds: the file leads to a daemon that still listens.
daemonRunning == path # NoProcess /\ daemon[path] \in {"up", "closing"}

\* A web server answers on one of the addresses; one that publishes the local
\* network listens on all.
AnswersAt(addresses) == \E w \in Starters : web[w] = "serving" /\ at[w] \in addresses

\* agentonAnswers at the recorded endpoint.
EndpointAnswers == info # "none" /\ current /\ AnswersAt({info, "lan"})

\* webStatus = webOurs: agenton answers on localhost.
webOurs == AnswersAt({"lan", "local"})

webAlive == EndpointAnswers \/ webOurs

\* What runStart waits for: ensureWeb's readiness gate.
Ready(s) == webOurs \/ (mode[s] = "tailnet" /\ EndpointAnswers)

\* Mutated: whatever is recorded is adopted.
OtherReachAdopted(s) == FALSE

\* A live web server of the other reach is recorded.
OtherReach(s) == info \notin {"none", mode[s]} /\ EndpointAnswers

--------------------------------------------------------------------------------
(* The start command: runStart, ensureDaemon, ensureWeb.                        *)

Active(s) == start[s] \notin {"idle", "ready", "refused", "failed"}

ComingUp(d) == daemon[d] \in {"starting", "binding"} \/ web[d] \in {"starting", "writing"}

Goto(s, step) == start' = [start EXCEPT ![s] = step]

\* A step of s that spawns nothing.
Look(s) == UNCHANGED <<mode, daemon, path, servers, endpoint, stop, bounds>>

Begin(s) ==
    /\ start[s] = "idle"
    /\ Goto(s, IF daemonRunning THEN "webDown" ELSE "ensureDaemon")
    /\ overlapped' = (\/ overlapped
                      \/ stop \in {"webs", "info"}
                      \/ \E x \in Starters : Active(x) \/ ComingUp(x))
    /\ quiet' = FALSE
    /\ Look(s)

\* The daemon runs: refuse, unless only its web server is gone and was of this reach.
CheckWeb(s) ==
    /\ start[s] = "webDown"
    /\ Goto(s, IF webAlive \/ info \notin {"none", mode[s]} THEN "refused" ELSE "ensureDaemon")
    /\ Look(s) /\ UNCHANGED history

\* Mutated: the daemon is spawned without another look.
EnsureDaemonBlindly(s) ==
    /\ start[s] = "ensureDaemon"
    /\ daemon' = [daemon EXCEPT ![s] = "starting"]
    /\ Goto(s, "waitDaemon")
    /\ UNCHANGED <<mode, path, servers, endpoint, stop, bounds, history>>

EnsureDaemon(s) ==
    /\ start[s] = "ensureDaemon"
    /\ IF daemonRunning
         THEN Goto(s, "ensureWeb") /\ UNCHANGED daemon
         ELSE Goto(s, "waitDaemon") /\ daemon' = [daemon EXCEPT ![s] = "starting"]
    /\ UNCHANGED <<mode, path, servers, endpoint, stop, bounds, history>>

\* Mutated: the daemon is not waited for.
WaitDaemonNot(s) ==
    /\ start[s] = "waitDaemon"
    /\ Goto(s, "ensureWeb")
    /\ Look(s) /\ UNCHANGED history

WaitDaemon(s) ==
    /\ start[s] = "waitDaemon"
    /\ daemonRunning
    /\ Goto(s, "ensureWeb")
    /\ Look(s) /\ UNCHANGED history

EnsureWeb(s) ==
    /\ start[s] = "ensureWeb"
    /\ Goto(s, IF OtherReach(s) THEN "failed" ELSE "probeWeb")
    /\ Look(s) /\ UNCHANGED history

SpawnWeb(s) == web' = [web EXCEPT ![s] = "starting"]

\* For the tailnet the file is removed before a web server is spawned.
ProbeWeb(s) ==
    /\ start[s] = "probeWeb"
    /\ IF Ready(s)
         THEN Goto(s, "ready") /\ UNCHANGED <<web, info>>
         ELSE IF mode[s] = "tailnet"
           THEN Goto(s, "respawnWeb") /\ info' = "none" /\ UNCHANGED web
           ELSE Goto(s, "waitWeb") /\ SpawnWeb(s) /\ UNCHANGED info
    /\ UNCHANGED <<mode, daemon, path, at, current, stop, bounds, history>>

\* webForeign: a server that listens on the port but does not answer yet is taken
\* for another application.
PortTaken(s) ==
    /\ start[s] = "probeWeb" /\ mode[s] = "lan"
    /\ \E w \in Starters : web[w] = "writing" /\ at[w] = "lan"
    /\ ~webOurs
    /\ Goto(s, "failed")
    /\ Look(s) /\ UNCHANGED history

RespawnWeb(s) ==
    /\ start[s] = "respawnWeb"
    /\ SpawnWeb(s)
    /\ Goto(s, "waitWeb")
    /\ UNCHANGED <<mode, daemon, path, at, endpoint, stop, bounds, history>>

WaitWeb(s) ==
    /\ start[s] = "waitWeb"
    /\ Ready(s)
    /\ Goto(s, "ready")
    /\ Look(s) /\ UNCHANGED history

\* waitFor gives up after three seconds; what was spawned may come up yet.
TimeOut(s) ==
    /\ \/ start[s] = "waitDaemon" /\ ~daemonRunning
       \/ start[s] = "waitWeb" /\ ~Ready(s)
    /\ Goto(s, "failed")
    /\ Look(s) /\ UNCHANGED history

--------------------------------------------------------------------------------
(* A daemon: transport.Listen in two steps, and the end.                        *)

DaemonOnly == UNCHANGED <<mode, start, servers, endpoint, stop, history>>

\* Whatever is at the path, a stale file or another daemon's, is removed.
Unlink(d) ==
    /\ daemon[d] = "starting"
    /\ daemon' = [daemon EXCEPT ![d] = "binding"]
    /\ path' = NoProcess
    /\ DaemonOnly /\ UNCHANGED bounds

\* Another daemon may have made a file in between: then this one gives up.
Bind(d) ==
    /\ daemon[d] = "binding"
    /\ IF path = NoProcess
         THEN daemon' = [daemon EXCEPT ![d] = "up"] /\ path' = d
         ELSE daemon' = [daemon EXCEPT ![d] = "dead"] /\ UNCHANGED path
    /\ DaemonOnly /\ UNCHANGED bounds

\* Shutdown is over: closing the listener removes the file of its name, whoever
\* bound it.
CloseListener(d) ==
    /\ daemon[d] = "closing"
    /\ daemon' = [daemon EXCEPT ![d] = "dead"]
    /\ path' = NoProcess
    /\ DaemonOnly /\ UNCHANGED bounds

\* A daemon that dies otherwise leaves the file.
DaemonDies(d) ==
    /\ daemon[d] \notin {"none", "dead"}
    /\ crashes < MaxCrashes
    /\ crashes' = crashes + 1
    /\ daemon' = [daemon EXCEPT ![d] = "dead"]
    /\ DaemonOnly /\ UNCHANGED <<path, moves>>

--------------------------------------------------------------------------------
(* A web server: serveApp and serveLan, which fall back to localhost.           *)

WebOnly == UNCHANGED <<mode, start, daemon, path, stop, history>>

\* An address is taken if the same one is bound. Whether all addresses may be bound
\* while one is, or one while all are, is the system's choice.
TakenFor(a) == \E w \in Starters : at[w] = a
MayBeTakenFor(a) ==
    \E w \in Starters : at[w] # "none" /\ ("lan" \in {a, at[w]} \/ at[w] = a)

\* No tailnet, or no local network: localhost, and nothing is recorded.
WebBinds(w) ==
    /\ web[w] = "starting"
    /\ \E a \in {mode[w], "local"} :
         \/ /\ ~TakenFor(a)
            /\ web' = [web EXCEPT ![w] = IF a = "local" THEN "serving" ELSE "writing"]
            /\ at' = [at EXCEPT ![w] = a]
         \/ /\ MayBeTakenFor(a)
            /\ web' = [web EXCEPT ![w] = "dead"]
            /\ UNCHANGED at
    /\ WebOnly /\ UNCHANGED <<endpoint, bounds>>

WritesInfo(w) ==
    /\ web[w] = "writing"
    /\ web' = [web EXCEPT ![w] = "serving"]
    /\ info' = at[w]
    /\ current' = TRUE
    /\ WebOnly /\ UNCHANGED <<at, bounds>>

\* Mutated: the address stays taken.
WebDiesBound(w) ==
    /\ web[w] \notin {"none", "dead"}
    /\ crashes < MaxCrashes
    /\ crashes' = crashes + 1
    /\ web' = [web EXCEPT ![w] = "dead"]
    /\ WebOnly /\ UNCHANGED <<at, endpoint, moves>>

WebDies(w) ==
    /\ web[w] \notin {"none", "dead"}
    /\ crashes < MaxCrashes
    /\ crashes' = crashes + 1
    /\ web' = [web EXCEPT ![w] = "dead"]
    /\ at' = [at EXCEPT ![w] = "none"]
    /\ WebOnly /\ UNCHANGED <<endpoint, moves>>

\* The machine changes networks: the recorded address is not its own any more.
NetworkMoves ==
    /\ moves < MaxMoves
    /\ info # "none" /\ current
    /\ moves' = moves + 1
    /\ current' = FALSE
    /\ UNCHANGED <<info, servers, crashes>>
    /\ WebOnly

--------------------------------------------------------------------------------
(* The stop command: runStop.                                                   *)

\* A daemon that has its signal handler shuts down; one that does not have it yet
\* just dies, and leaves its file if it has bound it.
StopDaemons ==
    /\ stop = "idle"
    /\ stop' = "webs"
    /\ \E handling \in SUBSET {d \in Starters : daemon[d] = "up"} :
         daemon' = [d \in Starters |->
             CASE daemon[d] \in {"none", "closing", "dead"} -> daemon[d]
               [] d \in handling -> "closing"
               [] OTHER -> "dead"]
    /\ quiet' = \A s \in Starters : ~Active(s)
    /\ overlapped' = (overlapped \/ ~quiet')
    /\ UNCHANGED <<mode, start, path, servers, endpoint, bounds>>

\* Mutated: only web servers that answer are found.
FoundByProbe == {w \in Starters : web[w] = "serving"}

\* pkill -f finds a process by its command line.
Found == {w \in Starters : web[w] \notin {"none", "dead"}}

StopWebs ==
    /\ stop = "webs"
    /\ stop' = "info"
    /\ web' = [w \in Starters |-> IF w \in Found THEN "dead" ELSE web[w]]
    /\ at' = [w \in Starters |-> IF w \in Found THEN "none" ELSE at[w]]
    /\ UNCHANGED <<mode, start, daemon, path, endpoint, bounds, history>>

RemoveInfo ==
    /\ stop = "info"
    /\ stop' = "done"
    /\ info' = "none"
    /\ UNCHANGED <<mode, start, daemon, path, servers, current, bounds, history>>

--------------------------------------------------------------------------------

Next ==
    \/ \E s \in Starters :
         \/ Begin(s) \/ CheckWeb(s) \/ EnsureDaemon(s) \/ WaitDaemon(s)
         \/ EnsureWeb(s) \/ ProbeWeb(s) \/ PortTaken(s) \/ RespawnWeb(s) \/ WaitWeb(s) \/ TimeOut(s)
         \/ Unlink(s) \/ Bind(s) \/ CloseListener(s) \/ DaemonDies(s)
         \/ WebBinds(s) \/ WritesInfo(s) \/ WebDies(s)
    \/ NetworkMoves \/ StopDaemons \/ StopWebs \/ RemoveInfo

Spec == Init /\ [][Next]_vars

--------------------------------------------------------------------------------

Alive(d) == daemon[d] \notin {"none", "dead"}

\* Commands typed one after the other never run two daemons, and the one that runs
\* can be reached: no session is left behind a socket file that was removed, for
\* stale files, crashes, slow shutdowns and stops (ensureDaemon, transport.Listen).
OneDaemon ==
    ~overlapped => \A d, e \in Starters :
        /\ Alive(d) /\ Alive(e) => d = e
        /\ daemon[d] \in {"up", "closing"} => path = d

\* Once agenton stop is through, with no start in between, no daemon keeps running,
\* no web server serves or will, and no endpoint is recorded (runStop).
StopLeavesNothing ==
    stop = "done" /\ quiet =>
        /\ \A s \in Starters : daemon[s] \in {"none", "closing", "dead"} /\ web[s] \in {"none", "dead"}
        /\ info = "none"

\* A start that reports ready has a web server of its reach or on localhost: one of
\* the other reach is never taken for it, if commands come one after the other and
\* the machine keeps its addresses (ensureWeb).
OwnReach ==
    [][\A s \in Starters :
         start[s] # "ready" /\ start'[s] = "ready" /\ ~overlapped /\ moves = 0
           => AnswersAt({mode[s], "local"})]_vars

\* A start that reports ready has found or brought up a daemon that listens still,
\* if commands come one after the other, nothing has crashed and no stop was under
\* way (runStart). After a stop it may have found the daemon on its way out.
ReadyHasDaemon ==
    [][\A s \in Starters :
         start[s] # "ready" /\ start'[s] = "ready" /\ ~overlapped /\ crashes = 0 /\ stop = "idle"
           => daemonRunning]_vars
================================================================================
