# Specifications of the agenton daemon

TLA+ specifications of agenton (the repository in `src/`): one daemon owns
terminal sessions, and any number of clients — the TUI, the web client, the
phone app — attach to them over one socket protocol. What is specified is what
tests hardly reach: goroutines of several connections that share a session, a
session that ends while others attach, clients that stop reading or vanish.

- [The system](#the-system)
- [The modules](#the-modules)
- [What the runs check](#what-the-runs-check)
- [What is proved](#what-is-proved)
- [What the models leave out](#what-the-models-leave-out)
- [Where the code does not do what it says](#where-the-code-does-not-do-what-it-says)
- [Plan](#plan)

## The system

| Component | State | Operations | What is hard | What makes it correct |
|---|---|---|---|---|
| Registry (`daemon.go`) | `d.sessions`, `d.nextID` under `d.mu` | allocID, register, unregister, lookup, Shutdown | two critical sections per creation; Shutdown holds `d.mu` while it kills | ids are not shared; an ended session leaves; a signal always ends the daemon |
| Session (`session.go`) | status, process, PTY, `subs`, `ended` under `s.mu` | Start, Kill, readLoop, handleSessionExit | Start, Kill and a natural exit overlap | a killed session is dead; every end is announced with a final status |
| Shared size | `sizeOwner`, `cols/rows`, the PTY's window size; each connection's remembered sizes | resize, take, release, disconnect cleanup, broadcast of the Active flag | several critical sections per request, subscription in a goroutine of its own | one owner; only the owner reshapes; everybody knows who owns |
| Output | emulator, one channel of 1024 chunks per subscriber, the socket | handleOutput, subscribe with replay, relay, drop when full, close at exit | a snapshot against concurrent output; slow clients; the notice of the end on the same socket | replay, then every chunk once and in order |
| Input | the PTY's input; each session's button bindings and each page's labels of them | WriteText, DoAction, key tables, rebinding | delays between the writes of one action; labels that are copies | each client's keys arrive in order, and after the claim of their view; a button sends what it shows, and the bytes of that key at the desk |
| Attach replay (`replay.go`, `vtmode.go`) | the emulator, the private modes seen | serializeReplay, UpdatePrivateModes | terminals of other heights; sequences cut by a read | a client that attaches late sees what one attached early sees |
| Frames (`frame.go`, `connwriter.go`) | the bytes on a socket | WriteFrame under a lock, ReadFrame, splitFrames | three goroutines write to one socket, which may be cut anywhere | every frame whole, output in order |
| Discovery (`discover.go`) | the process table at the scan | scanProcs, descendants, unmanagedSessions | sessions and programs come and go between the scan and the look | no agent of a session is offered for cloning |
| Titles | `liveAgent` | a scan every two seconds, broadcast on change | newcomers after a change | a title that was pushed names the agent that runs |
| Client (`client.go`) | connection, output and active channels | roundtrips, Attach's read loop | replies matched by order, bounded channels | a reply answers its request |
| TUI | screen, one control and one session connection, parked flag; the emulator under its mutex, scrollback offset | attach, back, stream end, keys, window size, wheel, painting, Close | late messages of a session left before; a synchronous pipe under a mutex; history that grows while it is read | the screen shows the session that is open, all of its output, and the lines the reader chose |
| Web bridge and client | two copy loops per WebSocket; screen, mode | reconnect, mode toggle, parking | reconnection | the same, on the phone |
| Startup | socket file, processes, reach record, ports | `agenton vpn`, `lan`, `stop` | what a command saw has changed when it acts; slow shutdowns, crashes, stale files | one daemon that can be reached; the chosen reach; nothing left after stop |

The pieces meet like this. `handleConn` runs one handler goroutine per
connection, which executes the requests of that connection one after the other.
`MsgAttach` starts a stream goroutine for the connection (`streamTo`). Each
session has one read-loop goroutine, which feeds the emulator and the
subscribers' channels and, at the end, runs `handleSessionExit`. All three kinds
write to a client's socket through its `connWriter`, one frame at a time. `d.mu`
guards the registry and `s.mu` a session; neither is held while a client is
written to, except that `Shutdown` keeps `d.mu` for the time it kills.

`PROJECT.json` lists every component with its status, every hazard with the line
where it bites, and for each definition the lines it models.

## The modules

An action is one critical section, or one blocking operation, of one goroutine;
goroutines interleave between actions. Names are the code's where it has one.

**`SizeLease`** — the promise about the size of a shared PTY: at most one holder,
a free size goes to the first that asks, a held one moves only by an explicit
take-over or because the holder lets go, and then to a watcher if there is one.
`takers` and `leavers` make both visible, so that no other step can pass for one of
them: in particular no watcher may help itself, and typing moves nothing.

**`SizeOwnership`** — the code of it. `sizeOwner`, `subs`, `dims` are the
session's fields, `winsize` the kernel's; `pc` is where a handler stands inside
its request, with the locals it carries from one critical section to the next:
`want` (the size it applies), `announce` (`!wasOwner`), `seenOwner` and `toTell`
(broadcastActive's snapshots). `stream` is the stream goroutine, `told` the last
Active flag on the client's socket. MsgResize is `Resize`, `OwnsSize`, `SetDims`,
`SetWinsize`; MsgSetActive is `TakeSize`, `Refocus` or `Release`; the deferred
cleanup is `Disconnect`; all end in `SnapOwner`, `SnapSubs`, `Tell`. `Input` is MsgAction
and MsgTextInput, which leave the size alone. It
instantiates `SizeLease` with `owner <- sizeOwner, watchers <- subs`, as `takers` the
handlers between `TakeSize` and `Refocus`, and as `leavers` those between a `Release` or
`Disconnect` and the broadcast that follows.

**`SizeOwnershipHistory`** adds the history variables its properties speak of:
whether two requests overlapped, who owned the size since its request began,
whether the owner merely inherited.

**`SessionLifecycle`** — the registry and the sessions. A creation is `AllocID`,
`Register`, `Spawn` (or `SpawnFails`, `Unregister`), `Publish`: the session is in
the registry before its process exists. A kill is `KillSession`, `MarkKilled`,
`KillChild`, `RemoveKilled`; `hasChild` is what Kill saw of `s.cmd` and `s.tty`
under `s.mu`. The read loop is `MarkExited`, then handleSessionExit: `ReadStatus`,
`CloseSubs`, `NextWriter` and `TellEnd` for one client after the other, `ToldAll`,
`RemoveEnded`. `daemon` is the signal goroutine; `RegistryFree` says that
`Shutdown` does not hold `d.mu`. A client may stop reading (`Stall`, for those in
`MayStall`) or hang up; a write to it returns only if `Writable`.

**`OutputPromise`** — the promise about output: who joins gets the state so far,
then each later chunk once and in order, and loses a chunk only while it is
`Capacity` chunks behind.

**`OutputStream`** — the code of it. Chunks are numbered as `readLoop` reads them,
the emulator's state is their number, and so is a replay. Channels and sockets
keep order, so they are sets of numbers whose least element leaves first.
`hand` is the frame that streamTo holds between the channel and the socket.
`HandleOutput` is handleOutput with its `select`/`default` for every channel,
`Subscribe` is SubscribeWithScrollback, `HandleExit` closes the channels and
collects the writers, `TellEnd` puts the notice on the socket. `dropped` is
history. It instantiates `OutputPromise` with `Capacity <- SubBuffer`.

**`TuiNavigation`** — the terminal client: `mode`, `sessions`, `confirmKill` and
`session` are fields of `model` and `entryModel`, `parked` of the session shown.
Bubble Tea runs every command in a goroutine and delivers its message whenever it
returns, so what is under way is counted: `polls` (timers), `attaches`, `backs`,
`claims` (SetActive to be written), `waiters` (waitForActive, by the view whose
channel it reads), `endWaiter`. A view is one visit to the session screen, with its
connection `conn`, its active channel and `ended`, the end of its output. Keys are
`New`, `Enter`, `AskKill`, `ConfirmKill`, `CancelKill`, `Quit`, `DetachKey`,
`TakeOverKey`; messages `Attach` (or `AttachFails`), `BackToEntry`, `StreamEnded`,
`FlagHeard`, `PollTick`; `WaiterEnds` is a waiter that finds its channel closed. The
messages of a view say nothing of the view (`activeMsg`, `streamEndedMsg`), so the
model hands them to whichever view is shown, as `Update` does. Of the daemon the model has
what this client can tell. `Serve` accepts an attach, `Subscribe` is the stream goroutine's
subscription, later, possibly after the session ended (`SessionEnds`, `Unregister`): such
a view gets no notice. `Tell` writes any flag at any moment to a view that can get one, and
`StreamEnds` is the notice of the end. Which flag is right is left to `SizeOwnership`: all
that holds here holds for every order and staleness of flags. `told` and `tookOver` are
history: the last flag sent to each view, and whether a key took over since the last one
handled.

**`Startup`** — `agenton vpn`, `agenton lan` and `agenton stop`, and the processes they
spawn. `start` is where a command stands in `runStart`: each probe (`Begin`,
`CheckWeb`, `EnsureDaemon`, `EnsureWeb`, `ProbeWeb`, `PortTaken`), each spawn, and each
end of a wait (`WaitDaemon`, `WaitWeb`, `TimeOut`) is an action. A daemon or web server
has the name of the command that spawned it: `daemon` goes from `starting` over
`binding` (`Unlink`, then `Bind`: the two calls of `transport.Listen`) to `up`; `web`
binds its address (`WebBinds`, with the fallback to localhost), then records it
(`WritesInfo`). `path` is the daemon whose file is at the socket path, `info` the mode
in `tailnet.json`, `current` whether the address in it is still this machine's. The
stop command is `StopDaemons`, `StopWebs`, `RemoveInfo`; a daemon that has its signal
handler then lingers in `closing` until `CloseListener`. `overlapped` and `quiet` are
history: whether commands overlapped, whether any ran since the stop.

**`WebClient`** — `app.js` and the bridge. `screen`, `sessId`, `isController`, `banner`
and `listed` are the page's state, `entryWS` and `sessWS` its two WebSockets, `ws` their
readyState. `up` and `down` are what is under way between the page and the daemon,
through both copy loops of the bridge: a WebSocket that is lost (`Lost`) or replaced
(`Connect`) drops what it would have received, and the daemon serves what it was sent
until the connection drops (`Dropped`), possibly long after the page has reconnected. Taps
are `TapSession`, `TapNew`, `TapRefresh`, `TapKill`, `TapReconnect`, `TapMode`, `TapBack`,
`ResizeWindow`; events `Opened` and the frames that arrive. A session entered from within
another sends its size on the WebSocket of the one left (`enterSession`, by applyFontSize),
which the daemon may take for a claim. In the daemon each connection has a handler, whose
`job` is what it does next, one critical section or write at a time: `ServeNew` and
`Start`, `ServeKill` and `Forget`, `ServeAttach` and `Greet`, `ServeResize` and `Claim`,
`ServeTake`, `ServeRelease`, and `CleanUp` for session after session once its connection is
gone. A broadcast is `LookUpOwner`, `LookUpSubs` and a `WriteFlag` per subscriber.
`Subscribes` and `Unsubscribes` are the stream goroutine of an attach, `SessionEnds`,
`Notice` and `Unregister` the end of a session. The desk is another client, with a handler of
its own (`DeskTakes`, `DeskLeaves`, `DeskSubscribes`, `DeskUnsubscribes`). `missed` is
history: the pages whose subscription came after a broadcast had looked for subscribers.

**`TypedInput`** — keys and texts on their way to a PTY. `inputCh` is the view's queue
of jobs, `writing` what its one writer goroutine has in hand, `up` the requests on each
connection, `hand` the pieces a handler has still to write: `WritePiece` is one
`WriteInput`, and what other steps do between two of them happens in the gap that
`WriteText` and `DoAction` sleep, without a lock. A key is `LiveKey`, or on a parked view
`TakeOverKey`, whose job claims and then types. `written`, `takeovers` and `granted` are
history.

**`ControlRpc`** — the connection that the list screen's goroutines share. `Roundtrip`
takes the client's mutex and keeps it until `Receive` or `ReadFails`; `Kill` has it for
the write only. `Answers` is what the daemon replies, which to a kill is nothing.

**`AgentTitles`** — `watchAgents` as `Tick`, `Scan`, `Compare`, `Snapshot` and one `Push`
per subscriber, against agents that start and end, lists, views that are entered, left
and connected anew. `settled` is history: whether a whole round came after the last
change.

**`AttachReplay`** — the session's emulator (`emu`: screen, scrollback, cursor, pending
wrap, alternate screen) takes one command of the program after the other, and
`serializeReplay` is what its state is written out as: `ModeLead`, `HistoryScript` (not on
the alternate screen), `ScreenScript` with trailing blanks trimmed, `CursorScript`'s relative
moves. The terminal fed with it obeys the same commands; that part is the library's, and
external. `ReplayIsFaithful` feeds it, in every state, to clients of several heights.

**`PrivateModes`** — the daemon's own scan for mode sequences (`UpdatePrivateModes`), which
sees one read at a time, next to terminals that parse byte by byte across reads: `veteran`
is attached from the start, `newcomer` gets `RestoreBytes` (in any order; the code's is
ascending) and what is read from then on.
`cut` is history: the modes whose last sequence a read cut in two.

**`Pager`** — the offset of the scrolled-back view (`scrollTop`, `lastSbLen`) while output
comes in on another goroutine. Every look at the emulator takes its mutex anew, so a wheel
notch is up to three steps (`WheelIsAgents` or `WheelIsNotAgents` twice, then `Page`) and a
frame two (`LookAtDepth` with pinScroll, `ScrolledView` with its clamp). Lines are numbered,
so `anchor`, the line the reader chose, can be compared with `shown`, the top of the frame.

**`TuiTerminal`** — the emulator inside the session view, with the goroutines around it:
`reader` (readLoop), `response` (responseLoop), `writer` (the queued jobs), `armed`,
`settling`, `ticks` (waitForDamage and its messages) and `ui`, the program, which handles
one message and paints: `Paint` is `GetScreen`, or `ScrolledView` while `scrolled`, which
shows the history instead. Answers and wheel events go through a synchronous pipe: `owed` is
what the holder of `mu` has still to write to it, and only `ReadAnswer` takes it off.

**`Wire`** — frames as bytes on one socket: `LockToWrite`, `WriteBytes` (as much as the
kernel takes), `UnlockWriter` for a stream, replies and broadcasts, `ReadFrame` at the other
end, where Attach tells output from control messages (`output`, `controls`; `strays`, if a
frame is neither), and a connection that is cut anywhere.

**`KeyEncoding`** and **`Pad`** — the two translations of a key into bytes (`encodeKey` and
`encodeChord` in the daemon, `encodeTeaKey` at the desk), and a custom button: `binding` in
the session, `label` in each page. `DeskKeys` are the keys that only the desk's table has,
`TypedName` what the daemon makes of a name that its table lacks. A page has the label of
the session shown before until the attach is answered (`ReadBinding`, `PushBinding`, `PushedLabel`), writes it when it
rebinds whether or not the request goes out (`Rebind`), and may lose its connection with
requests that are not handled (`LosePad`), or handled behind its back: those become `strays`,
whose first `SetCustomLate` takes.

**`Discovery`** — the host's processes, with their parents, start and die (`StartProgram`,
`ProcessDies`) while sessions go through `AddSession`, `Fork`, `SetCmd`, `DropSession`; a
list is `ScanProcs`, then `Discover`. `Family` is `descendants`: the least set with the root
and the children of its members. `home` is history: the session a process is in.

**Compositions.** Models that share no state are checked in one run each by `MCSizesAndWeb`
(the shared size with `WebClient`), `MCDaemon` (sessions with discovery), `MCOutputStream`
(the output path, the terminal, the replay), `MCClients` (`TuiNavigation`, `Pager`, `Wire`,
`PrivateModes`) and `MCSideBySide` (`Startup`, `TypedInput`, `ControlRpc`, `AgentTitles`,
`Pad`): `topic` is drawn in the initial state and only its model moves, so their states add
up instead of multiplying. Models that do share state are composed in the modules
themselves: `SizeOwnership` and `OutputStream` instantiate their promises.
`MCSessionLiveness` is `SessionLifecycle` with clients that keep reading.

The operators marked *Mutated* are faulty variants of the operator that follows
them. No specification uses them: putting one in place of its neighbour shows
that a property notices the fault (`PROJECT.json`, `mutants`).

## What the runs check

| Run | Module, cfg | Question | Answer |
|---|---|---|---|
| sizes_and_web | `MCSizesAndWeb` | does every interleaving of two clients respect the lease, the holder's right to resize, and, for serial requests, the flags and the size? Does the browser client never show a view that nothing feeds, and own what it renders, over connections that come and go and handlers that overlap? | yes, but for pages that hit findings 1 or 3 |
| flags_at_rest | `SizeOwnershipHistory`, `FlagsAtRest.cfg` | do the flags agree at rest for overlapping requests too? | no |
| session_lifecycle | `MCDaemon` | do creation, kill, exit, attach and Shutdown keep the session's state right? Is no agent of a running session offered for cloning? | yes |
| session_liveness | `MCSessionLiveness` | is every end announced, forgotten, and the daemon stoppable? | yes, if the clients read |
| stray_process | `SessionLifecycle`, `StrayProcess.cfg` | can a process survive outside the registry? | yes |
| attach_race | `SessionLifecycle`, `AttachRace.cfg` | does every accepted attach learn of the end? | no |
| output_stream | `MCOutputStream` | does the code keep the promise about output, does the read loop never wait, is all output painted, and does the replay rebuild history, screen and cursor? | yes |
| exit_overtakes_output | `OutputStream`, `ExitOvertakes.cfg` | does a client that was told of the end have all output? | no |
| clients | `MCClients` | does the terminal client stay connected, and its frame as the daemon's flags say, whatever order its messages arrive in? Does the reader keep the place, do frames arrive whole, does a late client get the modes? | yes |
| late_stream_end | `TuiNavigation`, `LateStreamEnd.cfg` | does a streamEndedMsg end the visit of the session that ended? | no |
| side_by_side | `MCSideBySide` | do serial commands keep one daemon that can be reached and the chosen reach, and does stop leave nothing? Does the agent get each client's keys in order and after the claim, each caller its own reply, each view the title of what runs, each button what it is bound to? | yes |
| close_hangs | `TuiTerminal`, `CloseHangs.cfg` | does closing a session view return? | no |

**Bounds.** Two connections make every race of two handlers, and a stream
goroutine per connection makes it four goroutines plus the read loop. In
`SizeOwnership` two sizes tell "mine" from "theirs", and five requests allow
attach, attach, claim, take-over and a release or second resize. In
`SessionLifecycle` two sessions exercise shared ids and a removal meant for the
other one, and three requests make create, attach, kill, or create, create, kill;
the liveness run has one session and the same three requests. `OutputStream`
runs one client with a channel of two and a socket of one frame against four
chunks, so that the socket blocks, the channel fills and a chunk is dropped; two
clients do not interact but through the order of notices, which
`SessionLifecycle` covers, and the proofs are for any number. Connections and
sizes are symmetric in the size run (no liveness there).
`TuiNavigation` has two views of one session: a late message needs one visit to
come from and one to hit, and views attach on their own whether their sessions
differ or not. Three keys are enter, detach, enter, or two enters before the first
attachMsg and a key on the parked view; three flags (`MaxFlags`) park a view, free it and
cross a later visit.
An active channel of depth one stands for the code's eight: it fills sooner.
`Startup` has two commands, each with its daemon and web server, one stop between or
around them, two crashes and one change of network: every hazard is one command's
leftovers met by the next. The theorems are for any number of commands.
`WebClient` has three WebSockets: the list's, a session's, and one to reconnect, to go
back or to enter a session from another; or two of them. `MaxEvents`
counts what happens to the page of itself: taps that send requests (the others need a
WebSocket), moves of the desk, sessions that just end, losses. There is one
event with three WebSockets, for a loss and the reconnection after it, and there are two
with two, so that a toggle crosses a take-over at the desk, or a kill an attach. One session exists or is created
besides another one.

`AttachReplay` has two columns and two rows and seven commands: enough to wrap, to scroll,
to clear neither, to leave blanks inside and behind, and to go to the alternate screen and
back; clients are as tall as the session, one row and three rows taller. `PrivateModes` has
two writes over three modes, read in pieces of any length: a sequence is cut anywhere, and
changed again by the next. `Pager` has a history of four lines and five printed, so that the
limit is reached, and a notch of two rows. `Wire` has a limit of two bytes against replays of
none, two and three, and two replies, a broadcast and a live chunk. `TuiTerminal` has two
chunks of up to two queries each, two gestures and a queue of one job: an answer is read
while a wheel event, a window size or a frame waits for the mutex, and the queue is full.
`Pad` has two pages and four bindings (none, a text, two chords), `Discovery` three processes,
one session and two lists: an agent two levels below a shell, one outside.

`TypedInput` has three keys, live or taking over, against two requests of a phone, of
no, one or two pieces each, or a claim and a release. `ControlRpc` has three goroutines
and four requests: a roundtrip waits while a second one and a kill want the connection.
`AgentTitles` has two clients, an agent and the shell, three changes and three visits:
a push meets a later one, a reconnection and a newcomer.

**Deadlock** is checked in every run of the daemon's modules. A behaviour may stop
only in the states `AllGone` and `Over` name: everybody hung up and every goroutine
returned. A terminal client that was quit, or whose bounds are used up, really
stops, and so do commands that are through: the runs `clients`, `side_by_side` and those
of the terminal client alone do not check it. In the other compositions the models that
just end (the web page left alone, the terminal, the host's processes) may rest, and only
the daemon's are checked.

**Fairness.** `SessionLifecycle` and `OutputStream` assume weak fairness of the
daemon's goroutines: Go's scheduler runs a goroutine that can run, and no loop in
them waits on a condition that others could toggle for ever. The write to a
client is enabled only while the client reads or is gone. Nothing is assumed of
the environment: no request, hang-up, exit, output or signal has to happen; a
stream goroutine of a silent session never notices that its client hung up, so
`StreamFails` is not fair. In `OutputStream` a client reads its socket until it
stalls; the properties are void for it afterwards. `TuiNavigation` assumes weak
fairness of `StreamEnded` for each view: the goroutine that waits for the end returns
once `done` is closed, and the program handles each message it is sent. Nothing is
assumed of keys, timers, other clients or the daemon. `TuiTerminal` assumes weak fairness of
each goroutine that the emulator starts, of the waits for damage, whose timers fire, and of
the program, which handles the messages it has and paints; its mutex is handed over by the
steps themselves, and no goroutine can be kept from it for ever by another within the
bounds. Gestures, output and Close need not happen.

## What is proved

With TLAPS, for any number of connections, sessions, sizes, requests, chunks,
processes, pages and keys, any buffer size and any limit of a frame. The assumptions are
those of the modules: `NoConn` is no connection, `NoSize` no size, bounds are numbers, a
socket holds a frame, a client that gets a replay is as tall as the session or taller. For each
composition of models one theorem says that a run of it is a run of each model in it
(`SizesAndWebIsEach`, `DaemonIsEach`, `OutputIsEach`, which leaves fairness out,
`ClientsAreEach`, `SideBySideIsEach`), so what is proved of a model alone holds where TLC
checks it.

**`SizesAndWebProofs`**. `TypeCorrect` is inductive with one strengthening that
is part of the type invariant: who is about to apply a size holds a real one
(Resize rejects zero). `HoldersResize` (`OnlyHoldersResize`) follows with it: a
handler reaches `resize` only from `OwnsSize`, which saw it as the owner, or from
`Refocus` after its own `TakeSize`, and `held` stays true until its next request.
`ImplementsLease`: each step maps to Watch, Unwatch, Claim, Take, Settle, HandOver or a
stutter. `WatchersInherit`: a hand-over with another watcher leaves an owner.

`SerialCorrect` is about requests handled one at a time. `Serial` turns the history
variable `overlap` into a fact about the present: a handler at work is alone, but for its own
stream goroutine while it attaches. `FlagsInv` says who may be misinformed while a request
is under way and why that ends (`Telling`: the snapshot of the owner is still right, and
whoever is not in `toTell` knows), `SizesInv` what is still to be applied to the PTY
(`Sizing`). At rest nothing is left of either: `SerialFlagsAgree`, `SerialSizeFollows`.

`WebCorrect` is about the page. `Renders` is what `TerminalOwnsSize` needs while messages
and handlers are under way: a page that renders a running session will take the size over or
has still to attach, or it is `Accounted` for: a frame that parks it is on its way, or some
handler is about to write one (`WillPark`), or it is being greeted, or it owns the size, or
the size is free and its resize on the way. A handler that looked for subscribers before
the page was one is what breaks this, hence the exception of `missed`. `AsksForSize` says
that a page that attaches also asks; `OfSession` that what is on its WebSocket is about the
session shown, the attach first; `Streams` that a stream goroutine lives only as long as its
session; `EndIsTold` that a page whose subscription was taken is owed the notice or has it on
the way. `TerminalRendersRight` and `PageNeverStranded` are what is left when all has arrived.

**`DaemonProofs`**. The properties are not inductive by themselves;
`LifecycleInv` adds
- `CreatorsApart`: creating handlers have ids of their own, below `nextID`, whose
  sessions are not started — so `Publish` never hits a started session;
- `FirstRegistration`: a session about to be registered is known to its creator
  only — so no kill or second creator has its id;
- `KillInHand`: a started session marked as killed is dead, or some Kill that saw
  its process is about to kill it — the case that `Publish` after `MarkKilled`
  would break, had Start not overwritten the status;
- `NoticeInHand`: a read loop that marked the end keeps a final status in hand.

From it: `KilledStaysDead`, `NoticesAreFinal`, `EndLeavesNoSubscriber`,
`IdsAreNotShared`, `LifecycleTypes`. Each part has one lemma with a step per
action that touches what it speaks of, and one for all that do not.

`DiscoveryCorrect` keeps the host's processes a forest (`Forest`: no set of them has only
members with a parent in it), what is in a session its process or the child of something in it
(`Housed`), and the scan true of whatever still is in a session (`ScanHolds`). A process in a
running session that its `Family` in the scan left out would start a set without a first
member; hence `OwnAgentsNotOffered`.

**`OutputStreamProofs`**. `KeepsPromise`: `Spec => PromiseSpec`. The refinement
needs to know that the least frame in the socket is the earliest chunk the client
misses. `StreamInv` says why: `Stages` (who is subscribed when), `Kept` (only the
replay and due chunks are on the way, none of them dropped), `Ordered` (received
< socket < hand < channel) and `AstrayLast` (a chunk that left the way — behind
the notice, or after a failed write — is later than all the client can still
read). A chunk is dropped only with `subBuffer` chunks in the channel, all of
them missing, so the client is `Capacity` behind (`FullIsBehind`, by cardinality).

`ReplaysAreFaithful` needs only that the session's terminal is one of its size (`ReplayInv`:
the cursor on the screen, a pending wrap only after the last column, the main screen put
aside exactly on the alternate one), and then follows the replay through the client.
`Shows` says what the client's terminal has after k cells of the n-th line: the lines before,
the newest on the screen and the others in its history, that part of the n-th, and blanks below.
A cell takes k to k + 1 (`CellShown`), a line break after a whole line takes n to n + 1
whether or not the screen rolls (`LineShown`; on the alternate screen it must not, and the
screen's rows fit the client), a trimmed row is whole since what was cut off is blank
(`RowTrimmed`). A script is obeyed part by part (`ObeyJoined`, `Flattened`), so these add up
to the history (`HistoryShown`), the screen (`ScreenShown`) and the way back to the cursor, which
counts from the last line and so lands right on a taller client (`CursorBrought`).
`TerminalCorrect` keeps the chunks in the attach channel and in the reader's hand within
those received (`FedWithin`), which `fed <= received` rests on; with it `OutputTypes`.

**`TuiNavigationProofs`**. `TuiInv` is inductive. `PollArmed` and `OneConnection` are
parts of it: every way back to the list arms a timer, and a view shown is closed by
whoever takes it off the screen. `Attended` says what the view shown relies on:
it is connected, one goroutine waits for its flags and one for its end; `NeverDeaf`
follows. `Belief` is what `FrozenAsTold` needs: the last flag in the
channel is the last one the view was told, and if the channel is empty the frame follows that
flag, unless a key took over since. `Untold` says that a view the daemon has not accepted was
told nothing.

**`StartupProofs`**. `NeverTwoDaemons` needs to know why the file still tells the truth
when ensureDaemon spawns. `Serial`: commands that do not overlap are alone, and no
daemon rises but that of the active one; `NothingYet`: a command has spawned nothing
before it looked. So a daemon that lives has bound the file, and the look finds it.
`Held` carries what a command found to the step that reports ready (`ReadyIsServed`);
`Swept` says, stage by stage of runStop, what is gone and cannot come back while no
start runs (`StopIsThorough`). `ReachInv` follows web servers instead: one comes up at a
time, at the address of its command or on localhost, and one that publishes the local network
is on record while it serves, so that no command for the tailnet gets past the first look
of ensureWeb (`ReadyIsOfOwnReach`).

**`ClientsProofs`**. `PagerInv` is inductive. `PlaceKept` relates the two numbers the view keeps
to the line chosen: the view, and where pinScroll would put it, is never further up than
that line, and while nothing was dropped the offset plus what the history grew by since is
exactly its distance from the bottom. `FrameInHand` covers the step between pinScroll and
ScrolledView, where output may come in: then another frame is due. `ReaderNeverLosesPlace`
follows.

`WireCorrect` names what the socket's bytes belong to. There are frames that were sent
(`Sent`), each with the byte, the piece of output and the message it starts at; they are what
was written (`Wrote`); the receiver is between two of them and the socket holds a part of the
rest (`Heard`); while the connection stands socket and `rest` are all of it, and the queues
what is still to come (`Complete`). `FrameSent` adds a frame, `NextFrame` shows that the bytes
of the next length are the next frame, and `SplitFits` that `splitFrames` cuts the replay into
consecutive pieces whatever the limit, with the least index beyond its end (`Least`) instead
of an induction. `FramesStayWhole` follows.

`ModesCorrect` compares the daemon's scan of one read with a terminal's parser, byte by byte.
A sequence is `Open` at a byte if it has begun and nothing has ended it; there is at most one
(`ParsedSame`), a terminal's `pending` is it (`Parsed`, `FeedStep`), and one that ends is named
alike wherever it stands in a longer text (`NamedPart`). So what ends in the middle of a read
either began in it, and the scan names it too, or straggled from the read before (`NamedWhole`).
`Agrees` follows those two cases along the read (`ReadAgrees`): where the scan saw the mode
change, both have the same; where it did not and no straggler named the mode, neither changed.
The recursive functions of the model are unfolded by `Recursion` and `Upward`, once for the
parser, the scan and the lead. A lead of modes in any order turns on just those and leaves
nothing open (`LeadRestores`, `EveryOrder`), so a newcomer is between sequences or in the middle
of the veteran's (`InTheSame`). `ModesInv` is that and the agreement on every mode there is, not
only the three that programs use here. `ModesAreRestored` follows, and with the invariants of the
other three models `ClientsTypes`.

**`SideBySideProofs`**. `TitlesInv`: the last push on its way to a client, or what it shows
then, is the last push of all (`InStep`), and after a round that began after the last change
it is the agent that runs (`Settled`). `TypedInv`: the queue holds the last keys, one job
each (`Queued`); requests stand in the order of their numbers from the socket to the PTY
(`Ordered`), a handler's pieces are the rest of one (`InHand`, `Joined`), no key is missing
below one that is present (`NoGap`), and a key that took over has its claim before it wherever it is
(`Claimed`). `PadInv`: what a page shows is the binding as its own requests on the way will
leave it (`Copied`, `BoundBefore`), and so is what an unexcused press means when it is handled
(`Pressed`). `TitleFollowsAgent`, `AgentReadsInOrder`, `ClaimComesFirst` and `PadIsTrue` follow.

**`ControlRpcProofs`**. `OneAnswer` is why replies need no number: nobody writes while a
caller waits, so its request is the last one under way and the only one that is answered,
and its reply is the only one on its way back. `RepliesReachWhoAsked` follows.

Only model-checked: the properties that need fairness, which are beyond the prover, and
everything the violation runs refute. Every invariant and action property of the passing runs
is proved. `PollArmed`, `NoSubscriberAfterEnd` and `RegisteredOnce` are the other way
round: proved (`ListStaysFresh`, `EndLeavesNoSubscriber`, `IdsAreNotShared`) and in no run.

## What the models leave out

- `SizeOwnership` follows one running session. Its end (channels closed) is in
  `SessionLifecycle`; a resize before Start sets the fields and fails at the
  ioctl. Sizes are valid: Resize rejects `cols` or `rows` below one. Each
  connection attaches once and before it resizes or takes the size, which is what
  both clients do.
- `SessionLifecycle`: Kill's `tty.Close`, `Process.Kill` and `Wait` are one step.
  They work on copies taken under `s.mu`, so what another goroutine does between
  them commutes with them. Replies to creations are left out: a handler that is
  stuck in one acts like a handler without further requests. New connections
  after the start are idle ones of the initial state. Requests that change nothing
  (an unknown id to kill, listings) do not appear.
- `OutputStream`: one session, one attach per connection. The replay counts as one
  frame and its content as the number of chunks it covers; `AttachReplay` has how
  `serializeReplay` renders them. Frames behind the notice of the end take no room.
- `TuiNavigation`: a list is loaded in the step that the timer fires, `New` creates
  the session with the key, and an end of output is read with the notice of it: in
  between, nothing that other steps look at. The flag in a waiter's hand counts as in
  the channel: `ActiveRoom` covers both, and `FrozenAsTold` is proved for any depth. Whether
  the flags are right is not said here: from the key at the desk to the frame it takes
  `TakeOverFirst` (the claim arrives), `FlagsAgreeWhenSerial` (the daemon's flags are right when
  requests do not overlap, and `flags_at_rest` shows that they may not be otherwise) and
  `FrameFollowsFlags`. Not modelled:
  a MsgAttach that cannot be written, a daemon that goes away, window sizes, and what
  the emulator draws. The cursor may be on any row, since the list is sent in map
  order and moves under it.
- `Startup`: a probe is one step, and so is a read of the record with the probe of the
  address in it. `pkill` signals all processes it finds at once. Another application on
  the port, daemons and web servers started by hand, and failures to spawn are left
  out; so is the second daemon that two overlapping commands start, which the code does
  nothing about and no text excludes: `OneDaemon` is stated of commands that do not
  overlap. Right after a stop, a start may find the daemon on its way out and report
  ready: `ReadyHasDaemon` is stated of starts before a stop.
- `WebClient`: the desk shows one session at a time, its own frames do not appear, and the
  sizes are not told apart (`SizeOwnership` does): a resize of the owner changes nothing here.
  `NeverStranded` excepts the pages that `attach_race` is about, `TerminalOwnsSize` those that
  `flags_at_rest` is about: nothing in the code keeps either from staying as they are. A list may show sessions that ended by themselves since: it is
  asked for, never pushed. Entering one of those gets an error (a toast) and leaves the
  page in an empty view, which `NeverStranded` does not speak of. `active: true` is ignored
  by design, so a page may own the size without rendering it.
- `TypedInput`: the gap between two pieces has no length, so whether the agent takes an
  Enter for a keystroke or for a pasted newline is not said. Another client's piece may
  come in the gap. `AgentTitles`: one session, which does not end; a scan is one step.
- `AttachReplay`: styles, links and cells of width zero or two, tabs, scrolling regions and
  saved cursors are left out, and the clients have the session's width and at least its height
  (on a lower one the way up to the cursor may end at the top row). Two things a replay
  loses are not in `ReplayIsFaithful`: the pending wrap after a row's last column, and the
  pen. The TUI's emulator starts at 80 by 24 and may be fed the replay before its first
  Resize, in which case wider rows wrap; what a resize does to a screen is the library's.
- `PrivateModes`: a mode that terminals have on by default is not restored when a program
  turned it off (hidden cursor, no autowrap), since the daemon keeps only what is on; a
  full reset (RIS) leaves the daemon's record as it was. `ReplayRestoresModes` says so or
  has no such command.
- `Pager`: window sizes. A frame made while output comes in may be off by what came between
  its two looks; the next one is due then. The drift at the limit is the one pinScroll's
  comment names. A program that enters the alternate screen while the reader is scrolled
  back is not shown until the next key.
- `TuiTerminal`: a view paged into its history does not look for output, and
  `OutputIsPainted` excepts it: the offset itself is `Pager`'s, so a key or the wheel pages or
  returns freely here. One chunk is one write to the emulator; the daemon takes every request, so
  that both sides wait for each other's sockets is not in it.
- `Wire`: the session id in the header and the JSON of messages; a length that a peer made up.
- `Pad`: one of the two buttons, which do not interact. No page is told of another's rebind,
  a rebind before the attach was answered is undone on the page by the answer, and a
  request is lost if the WebSocket is closed although the label changes: `PadTellsBinding`
  is stated where none of these happened. `KeyEncoding`: what a terminal reports for a key
  is taken from `encodeTeaKey`'s cases. The desk sends Home and End, which `encodeKey` has no
  names for: a pad would type the words, and its dialog takes them for texts, so
  `PadTellsBinding` says of these two that they differ. Ctrl+T has bytes in both tables, but the view
  keeps it for itself. The desk drops Alt and sends nothing for modified
  arrows and Ctrl+Space; the pad's dialog composes chords that `encodeChord` does not know
  (Ctrl with an arrow), whose names are then typed as text. The quick keys per agent
  (`config.go`) are a table without state.
- `Discovery`: an agent that `pty.Start` has just forked may be offered, for the session's
  process is not known yet, and so may one whose parents died.
- Configuration files, the directory listing, rendering, styles, the QR code and scripts are
  not modelled (`PROJECT.json` gives each component's reason).

## Where the code does not do what it says

1. **`flags_at_rest`** — `message.go:24`: Active "is true iff the receiving client
   currently owns the shared PTY size". A client attaches (its stream goroutine
   has not subscribed yet), another one takes the size, the broadcast misses the
   newcomer: it renders as the owner until the next change.
2. **`stray_process`** — a kill between `Register` and `Publish` finds no process,
   the session is unregistered, Start publishes "running": a process that no list
   shows and no Shutdown reaches.
3. **`attach_race`** — `daemon.go:433` "tells every attached client the session
   ended". An attach accepted before, but subscribed after, the end is told
   nothing and its client waits for ever.
4. **`exit_overtakes_output`** — `session.go:528` promises "every byte exactly once,
   with no gap". At the end the notice is written past the channel; the client
   leaves at it, and what the process printed last is lost.
5. **`late_stream_end`** — `tui.go:104` says of a streamEndedMsg on the session
   screen that "the session process exited (or the conn dropped)" and takes a late one
   to arrive on the list. The message names no view: after a quick detach and enter,
   or two attachMsg in a row, the end of the earlier view closes the next session,
   which still runs.
6. **`close_hangs`** — `session.go:163`: "Close releases the emulator goroutines and the
   session connection". `vtEmu.Close` stops responseLoop and only then locks the mutex. A
   chunk with one more query, or a queued wheel event, is then written to a pipe nobody
   reads, under that mutex: Close waits for ever, inside the program's Update. It takes a
   detach while the agent queries the terminal, or right after a turn of the wheel.

7. **`sizes_and_web`**, which passes, shows that three comments are out of date.
   `daemon.go:109` and `daemon.go:130` ("size focus follows activity", "called on
   input/action") and `session.go:82` and `92` ("ownership only moves on real input",
   "called when conn sends input") describe a daemon in which typing takes the size over.
   `daemon.go:276` says the contrary, and so does the code: MsgAction and MsgTextInput
   leave the size alone, and `takeSize` and `refocusSize` are called for an explicit
   set_active only. `LeaseSpec` is that.

Three more that no run refutes. `start_cmd.go:104`: "allow restarting the web — but only
in the reach this run was started with": the reach is read from `tailnet.json`, which a
web server that fell back to localhost never writes, so after `agenton vpn` without
Tailscale and a crash of its web server, `agenton lan` publishes the same daemon. `daemon.go:44`:
watchAgents "keeps each attached session's title in sync with the agent actually running
inside it", but only a change since the last push is pushed: who enters from a list that
is older than the agent's end shows that agent until another one starts, and
`TitleIsCurrent` is stated of clients that got a push. And a
client that keeps its connection but stops reading keeps the others from being told
of an end (`daemon.go:456`): the liveness run therefore assumes clients that read.

Hazards without a property, whose `note` says so in `PROJECT.json`, are those the code does
nothing about and no text of the repository excludes: an heir of the size that is about to go,
a client that stalls for ever, keys of two clients inside one action, a newcomer's title, two
starts at once, a start right after a stop. The properties nearest to them are stated of
what is left.

## Plan

Done: the shared size, the lifecycle, the output path with replay, modes and frames, the two
clients, the terminal inside the TUI and its pager, typed input, keys and buttons, control
requests, titles, discovery and startup; and proofs of every safety property the passing
runs check.

To add: the entry screen's directory browser and the composited cursor, which are what
remains of the TUI, and a statement of the replay for clients that are lower than the session.
