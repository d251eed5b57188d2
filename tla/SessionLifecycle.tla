--------------------------- MODULE SessionLifecycle ---------------------------
(* The sessions of one daemon from creation to removal: the registry           *)
(* (d.sessions, guarded by d.mu), each session's status, process and read      *)
(* loop, the handlers that create, attach to and kill sessions, the stream     *)
(* goroutines, and Shutdown, which holds d.mu while it kills everything.       *)
EXTENDS Naturals, FiniteSets

CONSTANTS Conns,        \* the client connections
          NoConn,       \* no connection
          MayStall,     \* the clients that may stop reading their socket
          MaxSessions,  \* bound: sessions created in a behaviour
          MaxRequests   \* bound: requests handled in a behaviour

ASSUME LifecycleAssumption ==
    /\ NoConn \notin Conns
    /\ MayStall \subseteq Conns
    /\ MaxSessions \in Nat
    /\ MaxRequests \in Nat

\* The ids the daemon hands out, and an id it never does.
Sessions == 1 .. MaxSessions
NoSession == 0

VARIABLES
    \* the daemon
    registry,   \* the keys of d.sessions
    nextID,     \* d.nextID
    daemon,     \* "up", or how far the signal goroutine is
    victims,    \* the sessions Shutdown still has to kill
    \* each session, guarded by its mu
    status,     \* s.Status
    started,    \* s.cmd and s.tty are set
    ended,      \* s.ended
    subs,       \* the connections in s.subs
    \* each session's process and the goroutine that reads its PTY
    proc,       \* the child's state: it holds the PTY's other end while alive
    loop,       \* what readLoop does next
    notice,     \* handleSessionExit's copy of the status
    notify,     \* handleSessionExit's writers that it has not come to yet
    writing,    \* the one it is writing to
    \* each connection's handler and stream goroutine
    pc,         \* what the handler does next
    job,        \* the session it works on
    hasChild,   \* Kill's copies of tty and cmd are not nil
    stream,     \* what the stream goroutine does
    watched,    \* the session it streams
    \* each connection's client
    open,       \* it has not hung up
    reads,      \* it reads its socket
    heard,      \* the last session_state status or error written to it about the end
    requests    \* how many requests were received so far

daemonVars  == <<registry, nextID, daemon, victims>>
sessionVars == <<status, started, ended, subs>>
loopVars    == <<proc, loop, notice, notify, writing>>
handlerVars == <<pc, job, hasChild>>
streamVars  == <<stream, watched>>
clientVars  == <<open, reads, heard, requests>>
vars == <<daemonVars, sessionVars, loopVars, handlerVars, streamVars, clientVars>>

Statuses == {"starting", "running", "exited", "killed"}
Final == {"exited", "killed"}

TypeOK ==
    /\ registry \in SUBSET Sessions
    /\ nextID \in 1 .. MaxSessions + 1
    /\ daemon \in {"up", "killing", "returned", "exited"}
    /\ victims \in SUBSET Sessions
    /\ status \in [Sessions -> Statuses]
    /\ started \in [Sessions -> BOOLEAN]
    /\ ended \in [Sessions -> BOOLEAN]
    /\ subs \in [Sessions -> SUBSET Conns]
    /\ proc \in [Sessions -> {"none", "alive", "dead"}]
    /\ loop \in [Sessions -> {"none", "reading", "marked", "closing", "telling", "removing", "done"}]
    /\ notice \in [Sessions -> Statuses]
    /\ notify \in [Sessions -> SUBSET Conns]
    /\ writing \in [Sessions -> Conns \cup {NoConn}]
    /\ pc \in [Conns -> {"reading", "register", "spawn", "publish", "unregister",
                         "mark", "slay", "remove", "closed"}]
    /\ job \in [Conns -> Sessions \cup {NoSession}]
    /\ hasChild \in [Conns -> BOOLEAN]
    /\ stream \in [Conns -> {"none", "spawned", "streaming", "done"}]
    /\ watched \in [Conns -> Sessions \cup {NoSession}]
    /\ open \in [Conns -> BOOLEAN]
    /\ reads \in [Conns -> BOOLEAN]
    /\ heard \in [Conns -> {"nothing", "error"} \cup Statuses]
    /\ requests \in 0 .. MaxRequests
    \* A handler in the middle of a request works on a session, a stream goroutine
    \* has one too, and a session whose start succeeded has, or had, a process.
    /\ \A c \in Conns : pc[c] \notin {"reading", "closed"} => job[c] \in Sessions
    /\ \A c \in Conns : stream[c] # "none" => watched[c] \in Sessions
    /\ \A s \in Sessions : started[s] => proc[s] # "none"

Init ==
    /\ registry = {}
    /\ nextID = 1
    /\ daemon = "up"
    /\ victims = {}
    /\ status = [s \in Sessions |-> "starting"]
    /\ started = [s \in Sessions |-> FALSE]
    /\ ended = [s \in Sessions |-> FALSE]
    /\ subs = [s \in Sessions |-> {}]
    /\ proc = [s \in Sessions |-> "none"]
    /\ loop = [s \in Sessions |-> "none"]
    /\ notice = [s \in Sessions |-> "starting"]
    /\ notify = [s \in Sessions |-> {}]
    /\ writing = [s \in Sessions |-> NoConn]
    /\ pc = [c \in Conns |-> "reading"]
    /\ job = [c \in Conns |-> NoSession]
    /\ hasChild = [c \in Conns |-> FALSE]
    /\ stream = [c \in Conns |-> "none"]
    /\ watched = [c \in Conns |-> NoSession]
    /\ open = [c \in Conns |-> TRUE]
    /\ reads = [c \in Conns |-> TRUE]
    /\ heard = [c \in Conns |-> "nothing"]
    /\ requests = 0

Running == daemon # "exited"

\* d.mu is free: Shutdown alone holds it across several steps.
RegistryFree == daemon \in {"up", "returned"}

\* A write to c returns: c reads its socket, or hung up, and the write fails.
Writable(c) == reads[c] \/ ~open[c]

Hear(c, what) == heard' = IF open[c] THEN [heard EXCEPT ![c] = what] ELSE heard

Goto(c, where) == pc' = [pc EXCEPT ![c] = where]

\* The handler reads one request.
Receive(c) ==
    /\ Running
    /\ pc[c] = "reading"
    /\ requests < MaxRequests
    /\ requests' = requests + 1

\* The handler is done with the request.
Finish(c) ==
    /\ Goto(c, "reading")
    /\ job' = [job EXCEPT ![c] = NoSession]
    /\ hasChild' = [hasChild EXCEPT ![c] = FALSE]

--------------------------------------------------------------------------------
(* MsgNewSession and MsgNewSessionCmd, which do the same once they have a      *)
(* preset: allocID, register, Start (fork, then publish). The reply is left    *)
(* out: a handler blocked in it acts like one that gets no further request.    *)

NextID == nextID + 1

AllocID(c) ==
    /\ Receive(c)
    /\ RegistryFree
    /\ nextID \in Sessions
    /\ nextID' = NextID
    /\ job' = [job EXCEPT ![c] = nextID]
    /\ Goto(c, "register")
    /\ UNCHANGED <<registry, daemon, victims, sessionVars, loopVars, hasChild, streamVars, open, reads, heard>>

Register(c) ==
    /\ Running
    /\ pc[c] = "register"
    /\ RegistryFree
    /\ registry' = registry \cup {job[c]}
    /\ Goto(c, "spawn")
    /\ UNCHANGED <<nextID, daemon, victims, sessionVars, loopVars, job, hasChild, streamVars, clientVars>>

\* pty.Start.
Spawn(c) ==
    /\ Running
    /\ pc[c] = "spawn"
    /\ proc' = [proc EXCEPT ![job[c]] = "alive"]
    /\ Goto(c, "publish")
    /\ UNCHANGED <<daemonVars, sessionVars, loop, notice, notify, writing, job, hasChild, streamVars, clientVars>>

\* Mutated: the error of a failed start is ignored.
SpawnFailsUnnoticed(c) ==
    /\ Running
    /\ pc[c] = "spawn"
    /\ Goto(c, "publish")
    /\ UNCHANGED <<daemonVars, sessionVars, loopVars, job, hasChild, streamVars, clientVars>>

\* The working directory or the program is missing, or the fork fails.
SpawnFails(c) ==
    /\ Running
    /\ pc[c] = "spawn"
    /\ Goto(c, "unregister")
    /\ UNCHANGED <<daemonVars, sessionVars, loopVars, job, hasChild, streamVars, clientVars>>

\* Mutated: a killed session keeps its status when its start completes.
StatusKept(s) == IF status[s] = "killed" THEN "killed" ELSE "running"

\* The status Start publishes, whatever it was before.
StatusPublished(s) == "running"

Publish(c) ==
    /\ Running
    /\ pc[c] = "publish"
    /\ started' = [started EXCEPT ![job[c]] = TRUE]
    /\ status' = [status EXCEPT ![job[c]] = StatusPublished(job[c])]
    /\ loop' = [loop EXCEPT ![job[c]] = "reading"]
    /\ Finish(c)
    /\ UNCHANGED <<daemonVars, ended, subs, proc, notice, notify, writing, streamVars, clientVars>>

Unregister(c) ==
    /\ Running
    /\ pc[c] = "unregister"
    /\ RegistryFree
    /\ registry' = registry \ {job[c]}
    /\ Finish(c)
    /\ UNCHANGED <<nextID, daemon, victims, sessionVars, loopVars, streamVars, clientVars>>

--------------------------------------------------------------------------------
(* MsgKillSession: Kill marks the session under s.mu, then closes the PTY and  *)
(* kills the process it saw; the session leaves the registry last.             *)

KillSession(c, s) ==
    /\ Receive(c)
    /\ RegistryFree
    /\ s \in registry
    /\ job' = [job EXCEPT ![c] = s]
    /\ Goto(c, "mark")
    /\ UNCHANGED <<daemonVars, sessionVars, loopVars, hasChild, streamVars, open, reads, heard>>

MarkKilled(c) ==
    /\ Running
    /\ pc[c] = "mark"
    /\ status' = [status EXCEPT ![job[c]] = "killed"]
    /\ hasChild' = [hasChild EXCEPT ![c] = started[job[c]]]
    /\ Goto(c, "slay")
    /\ UNCHANGED <<daemonVars, started, ended, subs, loopVars, job, streamVars, clientVars>>

\* tty.Close, Process.Kill and Wait. They act on copies, so what the read loop
\* does between them could as well happen after them.
Slain(s, visible) == [proc EXCEPT ![s] = IF visible THEN "dead" ELSE @]

KillChild(c) ==
    /\ Running
    /\ pc[c] = "slay"
    /\ proc' = Slain(job[c], hasChild[c])
    /\ Goto(c, "remove")
    /\ UNCHANGED <<daemonVars, sessionVars, loop, notice, notify, writing, job, hasChild, streamVars, clientVars>>

RemoveKilled(c) ==
    /\ Running
    /\ pc[c] = "remove"
    /\ RegistryFree
    /\ registry' = registry \ {job[c]}
    /\ Finish(c)
    /\ UNCHANGED <<nextID, daemon, victims, sessionVars, loopVars, streamVars, clientVars>>

--------------------------------------------------------------------------------
(* The process ends; readLoop sees the PTY close and runs handleSessionExit.   *)

ProcessExits(s) ==
    /\ proc[s] = "alive"
    /\ proc' = [proc EXCEPT ![s] = "dead"]
    /\ UNCHANGED <<daemonVars, sessionVars, loop, notice, notify, writing, handlerVars, streamVars, clientVars>>

\* Mutated: the status is left as it is.
FinalStatusUnset(s) == status[s]

FinalStatus(s) == IF status[s] = "killed" THEN "killed" ELSE "exited"

MarkExited(s) ==
    /\ Running
    /\ loop[s] = "reading"
    /\ proc[s] = "dead"
    /\ status' = [status EXCEPT ![s] = FinalStatus(s)]
    /\ loop' = [loop EXCEPT ![s] = "marked"]
    /\ UNCHANGED <<daemonVars, started, ended, subs, proc, notice, notify, writing, handlerVars, streamVars, clientVars>>

ReadStatus(s) ==
    /\ Running
    /\ loop[s] = "marked"
    /\ notice' = [notice EXCEPT ![s] = status[s]]
    /\ loop' = [loop EXCEPT ![s] = "closing"]
    /\ UNCHANGED <<daemonVars, sessionVars, proc, notify, writing, handlerVars, streamVars, clientVars>>

\* Mutated: the subscribers' channels are closed, but nobody will be told.
ToldNobody(s) == {}

\* The writers collected under s.mu.
ToldAtEnd(s) == subs[s]

CloseSubs(s) ==
    /\ Running
    /\ loop[s] = "closing"
    /\ ended' = [ended EXCEPT ![s] = TRUE]
    /\ notify' = [notify EXCEPT ![s] = ToldAtEnd(s)]
    /\ subs' = [subs EXCEPT ![s] = {}]
    /\ loop' = [loop EXCEPT ![s] = "telling"]
    /\ UNCHANGED <<daemonVars, status, started, proc, notice, writing, handlerVars, streamVars, clientVars>>

\* The next writer: one after the other, in the order of the map.
NextWriter(s, c) ==
    /\ Running
    /\ loop[s] = "telling"
    /\ writing[s] = NoConn
    /\ c \in notify[s]
    /\ writing' = [writing EXCEPT ![s] = c]
    /\ notify' = [notify EXCEPT ![s] = @ \ {c}]
    /\ UNCHANGED <<daemonVars, sessionVars, proc, loop, notice, handlerVars, streamVars, clientVars>>

TellEnd(s) ==
    /\ Running
    /\ writing[s] # NoConn
    /\ Writable(writing[s])
    /\ Hear(writing[s], notice[s])
    /\ writing' = [writing EXCEPT ![s] = NoConn]
    /\ UNCHANGED <<daemonVars, sessionVars, proc, loop, notice, notify, handlerVars, streamVars, open, reads, requests>>

ToldAll(s) ==
    /\ Running
    /\ loop[s] = "telling"
    /\ writing[s] = NoConn
    /\ notify[s] = {}
    /\ loop' = [loop EXCEPT ![s] = "removing"]
    /\ UNCHANGED <<daemonVars, sessionVars, proc, notice, notify, writing, handlerVars, streamVars, clientVars>>

\* Mutated: the session stays in the list.
RegistryKept(s) == registry

RegistryWithout(s) == registry \ {s}

RemoveEnded(s) ==
    /\ Running
    /\ loop[s] = "removing"
    /\ RegistryFree
    /\ registry' = RegistryWithout(s)
    /\ loop' = [loop EXCEPT ![s] = "done"]
    /\ UNCHANGED <<nextID, daemon, victims, sessionVars, proc, notice, notify, writing, handlerVars, streamVars, clientVars>>

--------------------------------------------------------------------------------
(* MsgAttach and streamTo.                                                     *)

Attach(c, s) ==
    /\ Receive(c)
    /\ RegistryFree
    /\ stream[c] = "none"
    /\ s \in registry
    /\ stream' = [stream EXCEPT ![c] = "spawned"]
    /\ watched' = [watched EXCEPT ![c] = s]
    /\ UNCHANGED <<daemonVars, sessionVars, loopVars, handlerVars, open, reads, heard>>

\* MsgAttach of a session that is not in the registry.
AttachUnknown(c, s) ==
    /\ Receive(c)
    /\ RegistryFree
    /\ s \in 1 .. (nextID - 1)
    /\ s \notin registry
    /\ Writable(c)
    /\ Hear(c, "error")
    /\ UNCHANGED <<daemonVars, sessionVars, loopVars, handlerVars, streamVars, open, reads>>

\* Mutated: a subscription to an ended session is accepted.
AcceptsAlways(s) == TRUE

\* SubscribeWithScrollback registers c, unless the session ended: then the
\* channel it returns is closed.
Accepts(s) == ~ended[s]

Subscribe(c) ==
    /\ Running
    /\ stream[c] = "spawned"
    /\ IF Accepts(watched[c])
         THEN /\ subs' = [subs EXCEPT ![watched[c]] = @ \cup {c}]
              /\ stream' = [stream EXCEPT ![c] = "streaming"]
         ELSE stream' = [stream EXCEPT ![c] = "done"] /\ UNCHANGED subs
    /\ UNCHANGED <<daemonVars, status, started, ended, loopVars, handlerVars, watched, clientVars>>

\* The channel was closed by handleSessionExit.
StreamEnds(c) ==
    /\ Running
    /\ stream[c] = "streaming"
    /\ c \notin subs[watched[c]]
    /\ Writable(c)
    /\ stream' = [stream EXCEPT ![c] = "done"]
    /\ UNCHANGED <<daemonVars, sessionVars, loopVars, handlerVars, watched, clientVars>>

\* A write of output failed. A silent session writes none.
StreamFails(c) ==
    /\ Running
    /\ stream[c] = "streaming"
    /\ ~open[c]
    /\ c \in subs[watched[c]]
    /\ subs' = [subs EXCEPT ![watched[c]] = @ \ {c}]
    /\ stream' = [stream EXCEPT ![c] = "done"]
    /\ UNCHANGED <<daemonVars, status, started, ended, loopVars, handlerVars, watched, clientVars>>

--------------------------------------------------------------------------------
(* The clients.                                                                *)

HangUp(c) ==
    /\ open[c]
    /\ open' = [open EXCEPT ![c] = FALSE]
    /\ UNCHANGED <<daemonVars, sessionVars, loopVars, handlerVars, streamVars, reads, heard, requests>>

Stall(c) ==
    /\ c \in MayStall
    /\ open[c] /\ reads[c]
    /\ reads' = [reads EXCEPT ![c] = FALSE]
    /\ UNCHANGED <<daemonVars, sessionVars, loopVars, handlerVars, streamVars, open, heard, requests>>

\* ReadFrame fails; what the cleanup does to the size is in SizeOwnership.
Disconnect(c) ==
    /\ Running
    /\ pc[c] = "reading"
    /\ ~open[c]
    /\ RegistryFree
    /\ Goto(c, "closed")
    /\ UNCHANGED <<daemonVars, sessionVars, loopVars, job, hasChild, streamVars, clientVars>>

--------------------------------------------------------------------------------
(* SIGINT or SIGTERM: Shutdown, then the process exits.                        *)

Signal ==
    /\ daemon = "up"
    /\ daemon' = "killing"
    /\ victims' = registry
    /\ UNCHANGED <<registry, nextID, sessionVars, loopVars, handlerVars, streamVars, clientVars>>

\* Mutated: the kill locks d.mu, which Shutdown already holds.
ShutdownKillsLocking(s) ==
    /\ daemon = "killing"
    /\ RegistryFree
    /\ s \in victims
    /\ status' = [status EXCEPT ![s] = "killed"]
    /\ proc' = Slain(s, started[s])
    /\ victims' = victims \ {s}
    /\ UNCHANGED <<registry, nextID, daemon, started, ended, subs, loop, notice, notify, writing, handlerVars, streamVars, clientVars>>

\* Kill, called with d.mu held; one step, for the same reason.
ShutdownKills(s) ==
    /\ daemon = "killing"
    /\ s \in victims
    /\ status' = [status EXCEPT ![s] = "killed"]
    /\ proc' = Slain(s, started[s])
    /\ victims' = victims \ {s}
    /\ UNCHANGED <<registry, nextID, daemon, started, ended, subs, loop, notice, notify, writing, handlerVars, streamVars, clientVars>>

ShutdownReturns ==
    /\ daemon = "killing"
    /\ victims = {}
    /\ daemon' = "returned"
    /\ UNCHANGED <<registry, nextID, victims, sessionVars, loopVars, handlerVars, streamVars, clientVars>>

Exit ==
    /\ daemon = "returned"
    /\ daemon' = "exited"
    /\ UNCHANGED <<registry, nextID, victims, sessionVars, loopVars, handlerVars, streamVars, clientVars>>

--------------------------------------------------------------------------------

\* Nothing is left to happen.
Over == daemon = "exited" /\ (\A c \in Conns : ~open[c]) /\ (\A s \in Sessions : proc[s] # "alive")

HandlerStep(c) ==
    \/ Register(c) \/ Spawn(c) \/ SpawnFails(c) \/ Publish(c) \/ Unregister(c)
    \/ MarkKilled(c) \/ KillChild(c) \/ RemoveKilled(c)
    \/ Disconnect(c)

Request(c) ==
    \/ AllocID(c)
    \/ \E s \in Sessions : KillSession(c, s) \/ Attach(c, s) \/ AttachUnknown(c, s)

StreamStep(c) == Subscribe(c) \/ StreamEnds(c) \/ StreamFails(c)

LoopStep(s) ==
    \/ MarkExited(s) \/ ReadStatus(s) \/ CloseSubs(s)
    \/ \E c \in Conns : NextWriter(s, c)
    \/ TellEnd(s) \/ ToldAll(s) \/ RemoveEnded(s)

ShutdownStep == (\E s \in Sessions : ShutdownKills(s)) \/ ShutdownReturns \/ Exit

Next ==
    \/ \E c \in Conns : Request(c) \/ HandlerStep(c) \/ StreamStep(c) \/ HangUp(c) \/ Stall(c)
    \/ \E s \in Sessions : LoopStep(s) \/ ProcessExits(s)
    \/ Signal
    \/ ShutdownStep
    \/ Over /\ UNCHANGED vars

\* Goroutines that can run do run. Nothing makes a client send a request, hang
\* up or stop reading, a process end or write output, or a signal arrive.
Fairness ==
    /\ \A c \in Conns : WF_vars(HandlerStep(c)) /\ WF_vars(Subscribe(c) \/ StreamEnds(c))
    /\ \A s \in Sessions : WF_vars(LoopStep(s))
    /\ WF_vars(ShutdownStep)

Spec == Init /\ [][Next]_vars /\ Fairness

--------------------------------------------------------------------------------

Killing(s) == \E c \in Conns : pc[c] = "slay" /\ job[c] = s

\* A session whose process was started and whose status is "killed" has a dead
\* process, once the Kill that set the status is through: no order of Start,
\* Kill, Shutdown and a natural exit leaves a running agent marked as killed.
KilledIsDead ==
    \A s \in Sessions :
        started[s] /\ status[s] = "killed" /\ ~Killing(s) => proc[s] = "dead"

\* The notice of the end carries a status that makes client.Attach leave the
\* session ("exited" or "killed"), however Kill and the exit interleave.
EndNoticeIsFinal == \A c \in Conns : heard[c] \in {"nothing", "error"} \cup Final

\* Nobody stays subscribed to a session that ended: its read loop is gone, so
\* the channel would never receive or close (SubscribeWithScrollback).
NoSubscriberAfterEnd == \A s \in Sessions : ended[s] => subs[s] = {}

\* A process that no session of the registry stands for cannot be listed or
\* killed any more: once the handlers are done there is none.
NoStrayProcess ==
    \A s \in Sessions :
        proc[s] = "alive" /\ s \notin registry =>
            \E c \in Conns : job[c] = s /\ pc[c] # "reading"

\* A session enters the registry once, by the one handler that was given its id
\* and before it is started: no two sessions ever share an id, so no request or
\* removal meant for one reaches another (allocID, handleSessionExit).
RegisteredOnce ==
    [][\A s \in Sessions : s \in registry' \ registry =>
          /\ ~started[s]
          /\ \A c, d \in Conns : job[c] = s /\ job[d] = s => c = d]_vars

Gone(c) == ~open[c] \/ daemon = "exited"

\* A client that was subscribed when the process ended is told so, unless it is
\* gone or does not read what it is sent (handleSessionExit).
SubscribersLearnTheEnd ==
    \A c \in Conns, s \in Sessions :
        (c \in subs[s] /\ proc[s] = "dead") ~> (heard[c] \in Final \/ ~reads[c] \/ Gone(c))

\* A client whose attach was accepted is told when the session ends: the daemon
\* "tells every attached client the session ended (so they leave the session view)".
AttachedLearnTheEnd ==
    \A c \in Conns, s \in Sessions :
        (watched[c] = s /\ ended[s]) ~> (heard[c] \in Final \/ Gone(c))

\* The stream goroutines of a session that ended return.
StreamsReturn ==
    \A c \in Conns, s \in Sessions :
        (watched[c] = s /\ ended[s]) ~> (stream[c] = "done" \/ daemon = "exited")

\* A session whose process ended leaves the registry.
EndedIsForgotten ==
    \A s \in Sessions :
        (started[s] /\ proc[s] = "dead") ~> (s \notin registry \/ daemon = "exited")

\* A signal ends the daemon, although Shutdown holds d.mu while it kills.
SignalEndsDaemon == (daemon = "killing") ~> (daemon = "exited")

--------------------------------------------------------------------------------
(* Why the invariants above hold: one inductive invariant, in parts.           *)

Creating(c) == pc[c] \in {"register", "spawn", "publish", "unregister"}

\* Each creating handler has an id of its own, whose session is not started.
CreatorsApart ==
    /\ \A s \in Sessions : s >= nextID => ~started[s]
    /\ \A c \in Conns : Creating(c) =>
          /\ job[c] < nextID
          /\ ~started[job[c]]
          /\ pc[c] = "publish" => proc[job[c]] # "none"
          /\ \A d \in Conns : Creating(d) /\ job[d] = job[c] => d = c

\* A session that is about to be registered is known to its creator only.
FirstRegistration ==
    /\ \A s \in registry : s < nextID
    /\ \A c \in Conns : job[c] # NoSession => job[c] < nextID
    /\ \A c \in Conns : pc[c] = "register" =>
          /\ job[c] \notin registry
          /\ \A d \in Conns : job[d] = job[c] => d = c

\* A started session marked as killed is dead, or a Kill that saw its process
\* has yet to kill it.
KillInHand ==
    \A s \in Sessions : started[s] /\ status[s] = "killed" =>
        \/ proc[s] = "dead"
        \/ \E c \in Conns : pc[c] = "slay" /\ job[c] = s /\ hasChild[c]

\* A read loop runs for started sessions only; once it marked the status final
\* the status stays final, and the notice it sends is a copy of it.
NoticeInHand ==
    \A s \in Sessions :
        /\ loop[s] # "none" => started[s]
        /\ loop[s] = "marked" => status[s] \in Final
        /\ loop[s] \in {"closing", "telling"} => notice[s] \in Final
        /\ writing[s] # NoConn => loop[s] = "telling"

LifecycleInv ==
    /\ TypeOK
    /\ CreatorsApart
    /\ FirstRegistration
    /\ KillInHand
    /\ NoticeInHand
    /\ EndNoticeIsFinal
    /\ NoSubscriberAfterEnd
================================================================================
