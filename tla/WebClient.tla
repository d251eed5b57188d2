------------------------------- MODULE WebClient -------------------------------
(* The browser client (app.js) and the bridge that gives each of its WebSockets *)
(* a daemon connection of its own. One WebSocket serves the list, one the       *)
(* session shown; either may be lost at any moment, and the daemon may learn    *)
(* that long after the browser. In the daemon each connection has a handler,    *)
(* one request at a time and one critical section or write per step, and once   *)
(* its attach was accepted a stream goroutine that subscribes later; every      *)
(* session that ends has a goroutine too. A desk client shares the sizes.       *)
EXTENDS Naturals, Sequences

CONSTANTS Sids,         \* session ids, those that may be created included
          Sockets,      \* the WebSockets, each used once
          Nobody,       \* no session, no WebSocket, no owner
          Desk,         \* the other client
          MaxEvents     \* bound: taps that send requests (Sockets bounds the others), moves
                        \* of the desk client, sessions that just end, WebSockets lost

ASSUME WebClientAssumption ==
    /\ Nobody \notin Sids \cup Sockets \cup {Desk}
    /\ Desk \notin Sockets \cup Sids
    /\ MaxEvents \in Nat

VARIABLES
    \* the page
    screen,        \* "entry" or "session"
    sessId,
    isController,
    banner,        \* "connection lost" is shown
    listed,        \* the sessions shown in the list
    entryWS, sessWS,
    ws,            \* readyState of each WebSocket; a lost or closed one is "closed"
    \* between page and daemon
    up,            \* requests on their way, per WebSocket
    down,          \* frames on their way, per WebSocket
    \* the daemon
    serving,       \* the WebSockets with a daemon connection
    sessions,      \* its registry
    ids,           \* ids not given to a session yet
    killed,        \* the sessions whose process was killed
    over,          \* the sessions that ended: their subscribers were taken
    owner,         \* the size owner of each session
    attached,      \* the session whose attach each connection was granted, or Nobody
    streams,       \* how far the stream goroutine of that attach got
    owed,          \* the subscribers taken when their session ended, not told of it yet
    deskAt,        \* the session that the desk client subscribed to, or Nobody
    deskOn,        \* it is connected
    \* the handlers
    job,           \* what each does next
    cleanups,      \* the sessions that a connection which is gone has still to let go
    \* bounds and history
    events,
    missed         \* a broadcast looked for subscribers between the attach of these
                   \* connections and their subscription

page   == <<screen, sessId, isController, banner, listed>>
queues == <<up, down>>
registry == <<sessions, ids, killed, over>>
desk   == <<deskAt, deskOn>>
feeds  == <<attached, streams, owed>>
jobs   == <<job, cleanups>>
daemon == <<serving, registry, owner, feeds, desk, jobs, missed>>
webVars == <<page, entryWS, sessWS, ws, queues, daemon, events>>

Handlers == Sockets \cup {Desk}
Owners   == Handlers \cup {Nobody}

Requests ==
    [type : {"list", "new"}] \cup
    [type : {"kill", "attach", "resize", "take", "release"}, id : Sids]

Frames ==
    [type : {"session_list"}, ids : SUBSET Sids] \cup
    [type : {"error"}] \cup
    [type : {"created", "active", "parked", "ended"}, id : Sids]

Job(do, s) == [do |-> do, id |-> s, owner |-> Nobody, to |-> {}]
Idle == Job("idle", Nobody)

\* What a handler is about to do, on which session; once broadcastActive looked,
\* whom it takes for the owner and to whom it has still to write.
Jobs == {Idle} \cup [do : {"start", "forget", "greet", "claim", "look", "gather", "write"},
                     id : Sids, owner : Owners, to : SUBSET Sockets]

WebTypeOK ==
    /\ screen \in {"entry", "session"}
    /\ sessId \in Sids \cup {Nobody} /\ (screen = "session" <=> sessId # Nobody)
    /\ isController \in BOOLEAN /\ banner \in BOOLEAN
    /\ listed \in SUBSET Sids
    /\ entryWS \in Sockets
    /\ sessWS \in Sockets \cup {Nobody} /\ (screen = "session" <=> sessWS # Nobody)
    /\ ws \in [Sockets -> {"unused", "connecting", "open", "closed"}]
    /\ up \in [Sockets -> Seq(Requests)] /\ down \in [Sockets -> Seq(Frames)]
    /\ serving \in SUBSET Sockets
    /\ sessions \in SUBSET Sids /\ ids \in SUBSET Sids /\ sessions \cap ids = {}
    /\ killed \in SUBSET Sids /\ over \in SUBSET Sids
    /\ owner \in [Sids -> Owners]
    /\ attached \in [Sockets -> Sids \cup {Nobody}]
    /\ streams \in [Sockets -> {"none", "starting", "live", "drained", "returned"}]
    /\ owed \subseteq {c \in Sockets : attached[c] # Nobody}
    /\ deskAt \in Sids \cup {Nobody} /\ deskOn \in BOOLEAN
    /\ job \in [Handlers -> Jobs] /\ cleanups \in [Handlers -> SUBSET Sids]
    /\ missed \in SUBSET Sockets
    /\ events \in 0 .. MaxEvents

\* The page has just been loaded: its first entryConnect. Earlier pages may have
\* used up some of the WebSockets and events.
WebInit ==
    /\ screen = "entry" /\ sessId = Nobody /\ isController = FALSE /\ banner = FALSE
    /\ listed = {}
    /\ entryWS \in Sockets /\ sessWS = Nobody
    /\ \E spent \in SUBSET Sockets :
         ws = [c \in Sockets |-> IF c = entryWS THEN "connecting"
                                ELSE IF c \in spent THEN "closed" ELSE "unused"]
    /\ up = [c \in Sockets |-> <<>>] /\ down = [c \in Sockets |-> <<>>]
    /\ serving = {}
    /\ sessions \in SUBSET Sids /\ ids = Sids \ sessions
    /\ killed = {} /\ over = {}
    /\ deskAt \in sessions \cup {Nobody} /\ deskOn = TRUE
    /\ owner = [s \in Sids |-> IF s = deskAt THEN Desk ELSE Nobody]
    /\ attached = [c \in Sockets |-> Nobody]
    /\ streams = [c \in Sockets |-> "none"] /\ owed = {}
    /\ job = [a \in Handlers |-> Idle] /\ cleanups = [a \in Handlers |-> {}]
    /\ missed = {}
    /\ events \in 0 .. MaxEvents

--------------------------------------------------------------------------------
(* WebSockets: connect, send, close; entryConnect and reattach.                 *)

\* What send makes of the requests: nothing unless the WebSocket is open.
Sent(c, requests) ==
    IF c \in Sockets /\ ws[c] = "open" THEN [up EXCEPT ![c] = @ \o requests] ELSE up

\* A new WebSocket. The old ones are closed without their onclose, and what they
\* would have received is ignored; the rest keep their frames.
Connect(new, old, frames) ==
    /\ ws[new] = "unused"
    /\ ws' = [c \in Sockets |-> CASE c = new -> "connecting"
                                   [] c \in old \ {new} -> "closed"
                                   [] OTHER -> ws[c]]
    /\ down' = [c \in Sockets |-> IF c \in old THEN <<>> ELSE frames[c]]
    /\ banner' = FALSE

entryConnect(old) ==
    \E c \in Sockets : Connect(c, old, down) /\ entryWS' = c

reattach(frames) ==
    \E c \in Sockets : Connect(c, {sessWS}, frames) /\ sessWS' = c

\* What sizeTerminal sends: nothing while parked.
sizeTerminal(controller, s) == IF controller THEN <<>> ELSE <<[type |-> "resize", id |-> s]>>

--------------------------------------------------------------------------------
(* Taps.                                                                        *)

Happens == events < MaxEvents /\ events' = events + 1

Tap == Happens /\ UNCHANGED daemon

Navigation == UNCHANGED <<events, daemon>>

\* applyFontSize measures the terminal, and says so on the WebSocket of the session
\* left, if there is one; reattach closes that one after.
enterSession(s, frames) ==
    /\ sessId' = s /\ screen' = "session"
    /\ isController' = FALSE
    /\ up' = Sent(sessWS, sizeTerminal(FALSE, s))
    /\ reattach(frames)
    /\ UNCHANGED <<listed, entryWS>>

TapSession(s) ==
    /\ Navigation
    /\ screen = "entry" /\ s \in listed
    /\ enterSession(s, down)

TapOnList(requests) ==
    /\ Tap
    /\ screen = "entry"
    /\ up' = Sent(entryWS, requests)
    /\ UNCHANGED <<page, entryWS, sessWS, ws, down>>

TapNew == TapOnList(<<[type |-> "new"]>>)

TapRefresh == TapOnList(<<[type |-> "list"]>>)

TapKill(s) ==
    /\ s \in listed
    /\ TapOnList(<<[type |-> "kill", id |-> s], [type |-> "list"]>>)

TapReconnect ==
    /\ Navigation
    /\ banner
    /\ IF screen = "entry"
         THEN entryConnect({entryWS}) /\ UNCHANGED sessWS
         ELSE reattach(down) /\ UNCHANGED entryWS
    /\ UNCHANGED <<screen, sessId, isController, listed, up>>

\* Mutated: the mode changes on this page alone.
ToggleSilently == sizeTerminal(~isController, sessId)

\* What btn-mode sends: the take-over or release, then the size if it is shown.
Toggle ==
    <<[type |-> IF isController THEN "take" ELSE "release", id |-> sessId]>>
        \o sizeTerminal(~isController, sessId)

TapMode ==
    /\ Tap
    /\ screen = "session"
    /\ isController' = ~isController
    /\ up' = Sent(sessWS, Toggle)
    /\ UNCHANGED <<screen, sessId, banner, listed, entryWS, sessWS, ws, down>>

\* The window is resized, or the font size is changed.
ResizeWindow ==
    /\ Tap
    /\ screen = "session" /\ ~isController
    /\ up' = Sent(sessWS, sizeTerminal(isController, sessId))
    /\ UNCHANGED <<page, entryWS, sessWS, ws, down>>

leaveSession ==
    /\ entryConnect({entryWS, sessWS})
    /\ sessWS' = Nobody
    /\ sessId' = Nobody /\ screen' = "entry"
    /\ UNCHANGED <<isController, listed>>

TapBack ==
    /\ Navigation
    /\ screen = "session"
    /\ leaveSession
    /\ UNCHANGED up

--------------------------------------------------------------------------------
(* The WebSockets' events: onopen, onmessage, onclose.                          *)

\* The bridge has dialled the daemon. What onopen sends.
Greeting(c) ==
    IF c = entryWS
      THEN <<[type |-> "list"]>>
      ELSE <<[type |-> "attach", id |-> sessId]>> \o sizeTerminal(isController, sessId)

Opened(c) ==
    /\ ws[c] = "connecting"
    /\ ws' = [ws EXCEPT ![c] = "open"]
    /\ up' = [up EXCEPT ![c] = Greeting(c)]
    /\ serving' = serving \cup {c}
    /\ UNCHANGED <<page, entryWS, sessWS, down, registry, owner, feeds, desk, jobs, missed, events>>

\* The network fails, the server goes away or the daemon cannot be dialled: the
\* page is told, and some of what it sent last never arrives.
Lost(c) ==
    /\ Happens
    /\ ws[c] \in {"connecting", "open"}
    /\ ws' = [ws EXCEPT ![c] = "closed"]
    /\ \E n \in 0 .. Len(up[c]) : up' = [up EXCEPT ![c] = SubSeq(@, 1, n)]
    /\ down' = [down EXCEPT ![c] = <<>>]
    /\ banner' = TRUE
    /\ UNCHANGED <<screen, sessId, isController, listed, entryWS, sessWS, daemon>>

Arrives(c, type) == ws[c] = "open" /\ down[c] # <<>> /\ Head(down[c]).type = type

Consume(c) == down' = [down EXCEPT ![c] = Tail(@)]

FrameOnly == UNCHANGED <<up, daemon, events>>

ListArrives ==
    /\ Arrives(entryWS, "session_list")
    /\ listed' = Head(down[entryWS]).ids
    /\ Consume(entryWS)
    /\ FrameOnly /\ UNCHANGED <<screen, sessId, isController, banner, entryWS, sessWS, ws>>

\* A session just created is entered, whatever screen is shown by then.
CreatedArrives ==
    /\ Arrives(entryWS, "created")
    /\ enterSession(Head(down[entryWS]).id, [down EXCEPT ![entryWS] = Tail(@)])
    /\ UNCHANGED <<daemon, events>>

\* A toast.
ErrorArrives ==
    /\ \E c \in {entryWS, sessWS} \ {Nobody} : Arrives(c, "error") /\ Consume(c)
    /\ FrameOnly /\ UNCHANGED <<page, entryWS, sessWS, ws>>

\* Mutated: the end of a session is not acted upon.
EndIgnored ==
    /\ screen = "session" /\ Arrives(sessWS, "ended")
    /\ Consume(sessWS)
    /\ FrameOnly /\ UNCHANGED <<page, entryWS, sessWS, ws>>

EndArrives ==
    /\ screen = "session" /\ Arrives(sessWS, "ended")
    /\ leaveSession
    /\ FrameOnly

\* A flag can only park the page.
ControllerAfter(type) == isController \/ type = "parked"

FlagArrives ==
    /\ screen = "session" /\ (Arrives(sessWS, "active") \/ Arrives(sessWS, "parked"))
    /\ isController' = ControllerAfter(Head(down[sessWS]).type)
    /\ Consume(sessWS)
    /\ FrameOnly /\ UNCHANGED <<screen, sessId, banner, listed, entryWS, sessWS, ws>>

--------------------------------------------------------------------------------
(* The daemon: the handler of each connection.                                  *)

\* A frame for one connection; a page that does not listen gets nothing.
Deliver(c, frame) == down' = IF ws[c] = "open" THEN [down EXCEPT ![c] = Append(@, frame)] ELSE down

TurnsTo(a, next) == job' = [job EXCEPT ![a] = next]

\* The next request of c, once the handler is through with the last one.
Request(c, type) ==
    c \in serving /\ job[c] = Idle /\ up[c] # <<>> /\ Head(up[c]).type = type

Served(c) == up' = [up EXCEPT ![c] = Tail(@)]

DaemonOnly == UNCHANGED <<page, entryWS, sessWS, ws, serving, desk, events>>

Step(a, do) == job[a].do = do /\ DaemonOnly /\ UNCHANGED up

ServeList(c) ==
    /\ Request(c, "list")
    /\ Served(c)
    /\ Deliver(c, [type |-> "session_list", ids |-> sessions])
    /\ DaemonOnly /\ UNCHANGED <<registry, owner, feeds, jobs, missed>>

\* The session is registered, and started after that.
ServeNew(c) ==
    /\ Request(c, "new")
    /\ Served(c)
    /\ \E s \in ids :
         /\ ids' = ids \ {s}
         /\ sessions' = sessions \cup {s}
         /\ TurnsTo(c, Job("start", s))
    /\ DaemonOnly /\ UNCHANGED <<down, killed, over, owner, feeds, cleanups, missed>>

Start(c) ==
    /\ Step(c, "start")
    /\ TurnsTo(c, Idle)
    /\ \/ Deliver(c, [type |-> "created", id |-> job[c].id]) /\ UNCHANGED sessions
       \/ Deliver(c, [type |-> "error"]) /\ sessions' = sessions \ {job[c].id}
    /\ UNCHANGED <<ids, killed, over, owner, feeds, cleanups, missed>>

\* The process is killed, then the session leaves the registry; its watchers are
\* told when its output ends, which is later.
ServeKill(c) ==
    /\ Request(c, "kill")
    /\ Served(c)
    /\ LET s == Head(up[c]).id
       IN  IF s \in sessions THEN killed' = killed \cup {s} /\ TurnsTo(c, Job("forget", s))
                             ELSE UNCHANGED <<killed, job>>
    /\ DaemonOnly /\ UNCHANGED <<down, sessions, ids, over, owner, feeds, cleanups, missed>>

Forget(c) ==
    /\ Step(c, "forget")
    /\ TurnsTo(c, Idle)
    /\ sessions' = sessions \ {job[c].id}
    /\ UNCHANGED <<down, ids, killed, over, owner, feeds, cleanups, missed>>

\* The stream goroutine is started; the newcomer is greeted meanwhile.
ServeAttach(c) ==
    /\ Request(c, "attach")
    /\ Served(c)
    /\ LET s == Head(up[c]).id
       IN  IF s \in sessions
             THEN /\ attached' = [attached EXCEPT ![c] = s]
                  /\ streams' = [streams EXCEPT ![c] = "starting"]
                  /\ TurnsTo(c, Job("greet", s))
                  /\ UNCHANGED down
             ELSE Deliver(c, [type |-> "error"]) /\ UNCHANGED <<attached, streams, job>>
    /\ DaemonOnly /\ UNCHANGED <<registry, owner, owed, cleanups, missed>>

\* What is left of a broadcast once the members of to are still to be written to.
Writes(s, o, to) == IF to = {} THEN Idle ELSE [do |-> "write", id |-> s, owner |-> o, to |-> to]

\* The newcomer is told if somebody else owns the size.
Greet(c) ==
    /\ Step(c, "greet")
    /\ LET o == owner[job[c].id]
       IN  TurnsTo(c, Writes(job[c].id, o, IF o \in {c, Nobody} THEN {} ELSE {c}))
    /\ UNCHANGED <<down, registry, owner, feeds, cleanups, missed>>

\* A resize of the owner is applied and nothing else; any other asks for the size.
ServeResize(c) ==
    /\ Request(c, "resize")
    /\ Served(c)
    /\ LET s == Head(up[c]).id
       IN  IF s \in sessions /\ owner[s] # c THEN TurnsTo(c, Job("claim", s)) ELSE UNCHANGED job
    /\ DaemonOnly /\ UNCHANGED <<down, registry, owner, feeds, cleanups, missed>>

\* ... and gets it if it is free by then.
Claim(c) ==
    /\ Step(c, "claim")
    /\ LET s == job[c].id
       IN  IF owner[s] = Nobody
             THEN owner' = [owner EXCEPT ![s] = c] /\ TurnsTo(c, Job("look", s))
             ELSE UNCHANGED owner /\ TurnsTo(c, IF owner[s] = c THEN Job("look", s) ELSE Idle)
    /\ UNCHANGED <<down, registry, feeds, cleanups, missed>>

ServeTake(c) ==
    /\ Request(c, "take")
    /\ Served(c)
    /\ LET s == Head(up[c]).id
       IN  IF s \in sessions
             THEN owner' = [owner EXCEPT ![s] = c] /\ TurnsTo(c, Job("look", s))
             ELSE UNCHANGED <<owner, job>>
    /\ DaemonOnly /\ UNCHANGED <<down, registry, feeds, cleanups, missed>>

Watchers(s) == {c \in Sockets : attached[c] = s /\ streams[c] = "live"}

\* Writing to the others goes nowhere.
Listeners(s) == {c \in Watchers(s) : ws[c] = "open"}

\* reassignOwnerAfter: a size that is let go, or free, goes to any other watcher, one
\* whose connection is gone but whose stream is not included.
HeirsOf(s, left) ==
    LET others == (Watchers(s) \cup (IF s = deskAt THEN {Desk} ELSE {})) \ {left}
    IN  IF owner[s] \notin {left, Nobody} THEN {owner[s]}
        ELSE IF others = {} THEN {Nobody} ELSE others

ServeRelease(c) ==
    /\ Request(c, "release")
    /\ Served(c)
    /\ LET s == Head(up[c]).id
       IN  IF s \in sessions
             THEN /\ \E o \in HeirsOf(s, c) : owner' = [owner EXCEPT ![s] = o]
                  /\ TurnsTo(c, Job("look", s))
             ELSE UNCHANGED <<owner, job>>
    /\ DaemonOnly /\ UNCHANGED <<down, registry, feeds, cleanups, missed>>

\* The bridge closes the daemon connection of a WebSocket that is gone, once all it
\* read from it was handed on. handleConn then lets go of every session registered.
Dropped(c) ==
    /\ c \in serving /\ ws[c] = "closed" /\ up[c] = <<>> /\ job[c] = Idle
    /\ serving' = serving \ {c}
    /\ cleanups' = [cleanups EXCEPT ![c] = sessions]
    /\ UNCHANGED <<page, entryWS, sessWS, ws, queues, registry, owner, feeds, desk, job, missed, events>>

\* The next of those.
CleanUp(a) ==
    /\ Step(a, "idle")
    /\ \E s \in cleanups[a] :
         /\ cleanups' = [cleanups EXCEPT ![a] = @ \ {s}]
         /\ \E o \in HeirsOf(s, a) : owner' = [owner EXCEPT ![s] = o]
         /\ TurnsTo(a, Job("look", s))
    /\ UNCHANGED <<down, registry, feeds, missed>>

\* broadcastActive looks up the owner,
LookUpOwner(a) ==
    /\ Step(a, "look")
    /\ TurnsTo(a, [Job("gather", job[a].id) EXCEPT !.owner = owner[job[a].id]])
    /\ UNCHANGED <<down, registry, owner, feeds, cleanups, missed>>

\* Those greeted on s whose stream did not subscribe yet.
Newcomers(s) == {c \in Sockets : attached[c] = s /\ streams[c] = "starting" /\ job[c].do # "greet"}

\* ... then the subscribers,
LookUpSubs(a) ==
    /\ Step(a, "gather")
    /\ TurnsTo(a, Writes(job[a].id, job[a].owner, Listeners(job[a].id)))
    /\ missed' = missed \cup Newcomers(job[a].id)
    /\ UNCHANGED <<down, registry, owner, feeds, cleanups>>

\* ... and writes to them one by one.
WriteFlag(a) ==
    /\ Step(a, "write")
    /\ \E c \in job[a].to :
         /\ Deliver(c, [type |-> IF c = job[a].owner THEN "active" ELSE "parked", id |-> job[a].id])
         /\ TurnsTo(a, Writes(job[a].id, job[a].owner, job[a].to \ {c}))
    /\ UNCHANGED <<registry, owner, feeds, cleanups, missed>>

--------------------------------------------------------------------------------
(* The daemon: stream goroutines, and sessions that end.                        *)

GoroutineOnly == UNCHANGED <<page, entryWS, sessWS, ws, up, serving, jobs, missed>>

\* SubscribeWithScrollback; of a session that ended the goroutine just returns.
Subscribes(c) ==
    /\ streams[c] = "starting"
    /\ streams' = [streams EXCEPT ![c] = IF attached[c] \in over THEN "returned" ELSE "live"]
    /\ GoroutineOnly /\ UNCHANGED <<down, registry, owner, attached, owed, desk, events>>

\* It returns when a write to a connection that is gone fails, or its output ends.
Unsubscribes(c) ==
    /\ streams[c] = "live" /\ ws[c] = "closed"
    /\ streams' = [streams EXCEPT ![c] = "returned"]
    /\ GoroutineOnly /\ UNCHANGED <<down, registry, owner, attached, owed, desk, events>>

\* The output of a session that was killed, or just ends, is over: handleSessionExit
\* marks it and takes its subscribers.
SessionEnds(s) ==
    /\ s \notin over /\ \A c \in Sockets : job[c] # Job("start", s)
    /\ \/ s \in killed /\ UNCHANGED events
       \/ s \in sessions \ killed /\ Happens
    /\ over' = over \cup {s}
    /\ owed' = owed \cup Listeners(s)
    /\ streams' = [c \in Sockets |-> IF c \in Watchers(s) THEN "drained" ELSE streams[c]]
    /\ deskAt' = IF deskAt = s THEN Nobody ELSE deskAt
    /\ GoroutineOnly /\ UNCHANGED <<down, sessions, ids, killed, owner, attached, deskOn>>

\* ... tells them one by one,
Notice(c) ==
    /\ c \in owed
    /\ owed' = owed \ {c}
    /\ Deliver(c, [type |-> "ended", id |-> attached[c]])
    /\ GoroutineOnly /\ UNCHANGED <<registry, owner, attached, streams, desk, events>>

\* ... and then the session leaves the registry.
Unregister(s) ==
    /\ s \in over \cap sessions
    /\ \A c \in owed : attached[c] # s
    /\ sessions' = sessions \ {s}
    /\ GoroutineOnly /\ UNCHANGED <<down, ids, killed, over, owner, feeds, desk, events>>

--------------------------------------------------------------------------------
(* The desk client's side of its connection.                                    *)

DeskMoves ==
    /\ deskOn /\ job[Desk] = Idle
    /\ Happens
    /\ UNCHANGED <<page, entryWS, sessWS, ws, queues, serving, registry, feeds, deskAt, missed>>

\* It takes the size of a session, subscribed already or not yet.
DeskTakes(s) ==
    /\ DeskMoves
    /\ s \in sessions
    /\ owner' = [owner EXCEPT ![s] = Desk]
    /\ TurnsTo(Desk, Job("look", s))
    /\ UNCHANGED <<cleanups, deskOn>>

DeskLeaves ==
    /\ DeskMoves
    /\ deskOn' = FALSE
    /\ cleanups' = [cleanups EXCEPT ![Desk] = sessions]
    /\ UNCHANGED <<owner, job>>

DeskSubscribes(s) ==
    /\ deskOn /\ deskAt = Nobody /\ s \in sessions \ over
    /\ deskAt' = s
    /\ GoroutineOnly /\ UNCHANGED <<down, registry, owner, feeds, deskOn, events>>

DeskUnsubscribes ==
    /\ ~deskOn /\ deskAt # Nobody
    /\ deskAt' = Nobody
    /\ GoroutineOnly /\ UNCHANGED <<down, registry, owner, feeds, deskOn, events>>

--------------------------------------------------------------------------------

WebNext ==
    \/ \E s \in Sids : \/ TapSession(s) \/ TapKill(s) \/ DeskTakes(s) \/ DeskSubscribes(s)
                       \/ SessionEnds(s) \/ Unregister(s)
    \/ DeskLeaves \/ DeskUnsubscribes
    \/ TapNew \/ TapRefresh \/ TapReconnect \/ TapMode \/ ResizeWindow \/ TapBack
    \/ ListArrives \/ CreatedArrives \/ ErrorArrives \/ EndArrives \/ FlagArrives
    \/ \E c \in Sockets :
         \/ Opened(c) \/ Lost(c) \/ Dropped(c) \/ Subscribes(c) \/ Unsubscribes(c) \/ Notice(c)
         \/ ServeList(c) \/ ServeNew(c) \/ Start(c) \/ ServeKill(c) \/ Forget(c)
         \/ ServeAttach(c) \/ Greet(c) \/ ServeResize(c) \/ Claim(c)
         \/ ServeTake(c) \/ ServeRelease(c)
    \/ \E a \in Handlers : LookUpOwner(a) \/ LookUpSubs(a) \/ WriteFlag(a) \/ CleanUp(a)

WebSpec == WebInit /\ [][WebNext]_webVars

--------------------------------------------------------------------------------

\* The WebSocket of the screen shown.
Shown == IF screen = "session" THEN sessWS ELSE entryWS

\* Nothing is on its way on it.
Settled(c) == ws[c] = "open" /\ up[c] = <<>> /\ down[c] = <<>>

\* "Terminal (the phone owns the PTY size, terminal renders correctly)": once all
\* requests, flags and broadcasts about it are through, a page that renders a running
\* session owns its size, after any reconnection and any race of its taps with moves
\* at the desk. Excepted is a page whose stream subscribed so late that a broadcast
\* missed it (onSessionFrame, btn-mode, reattach).
TerminalOwnsSize ==
    /\ screen = "session" /\ Settled(sessWS) /\ ~isController
    /\ sessId \in sessions \ over /\ sessWS \notin missed
    /\ \A a \in Handlers : job[a].id # sessId
    => owner[sessId] = sessWS

\* The page never shows a view that nothing feeds without saying so or leaving it:
\* whenever the screen shown has lost its connection the banner offers to reconnect,
\* whatever the other WebSocket does meanwhile, and the view of a session that ended
\* is left, whoever ended it and whatever the page was doing. Excepted are a page
\* whose stream found the session ended already, and one whose attach was refused:
\* they hear nothing (connect, entryConnect, reattach, onSessionFrame, leaveSession).
NeverStranded ==
    /\ ws[Shown] = "closed" => banner
    /\ /\ screen = "session" /\ Settled(sessWS) /\ sessWS \notin owed
       /\ streams[sessWS] \in {"live", "drained"}
       => sessId \notin over
================================================================================
