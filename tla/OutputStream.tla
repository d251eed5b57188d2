------------------------------ MODULE OutputStream ------------------------------
(* The way of a session's output from the PTY to its clients: readLoop and     *)
(* handleOutput, the subscribers' channels, streamTo's replay and relay, the   *)
(* notice that handleSessionExit writes to the same sockets, and the clients'  *)
(* read loops. Chunks are numbered as they are read. A channel and a socket    *)
(* deliver in the order they were given, so each is a set of numbers whose     *)
(* least element comes out first.                                              *)
EXTENDS Integers, FiniteSets

CONSTANTS Conns,       \* the client connections
          NoConn,      \* no connection
          MayStall,    \* the clients that may stop reading their socket
          SubBuffer,   \* subBuffer: the depth of a subscriber's channel
          SocketRoom,  \* how many frames a socket holds
          MaxChunks    \* bound: chunks written in a behaviour

ASSUME OutputAssumption ==
    /\ NoConn \notin Conns
    /\ MayStall \subseteq Conns
    /\ SubBuffer \in Nat
    /\ SocketRoom \in Nat \ {0}
    /\ MaxChunks \in Nat

Chunks == 1 .. MaxChunks
Replay == 0                   \* the frames of the attach replay, taken as one
Items == Chunks \cup {Replay}
NotYet == -1

VARIABLES
    \* the process and the read loop
    alive,    \* the process runs
    emitted,  \* chunks it wrote to the PTY
    written,  \* chunks handled: the emulator's state
    loop,     \* what the read loop does next
    \* the session, guarded by s.mu
    ended,    \* s.ended
    subs,     \* the connections in s.subs
    chan,     \* what c's channel holds
    dropped,  \* history: the chunks that did not fit
    \* handleSessionExit
    notify,   \* its writers that it has not come to yet
    writing,  \* the one it is writing to
    \* each connection's stream goroutine
    stream,   \* what it does next
    joined,   \* the chunks its replay holds
    hand,     \* the frame it is about to write, if any
    \* each connection's socket and client
    wire,     \* the output frames in the socket that the client will come to
    told,     \* the notice of the end: not written, written, read
    got,      \* the output frames the client received
    open,     \* it has not hung up
    reads     \* it reads its socket

loopVars   == <<alive, emitted, written, loop>>
exitVars   == <<notify, writing>>
streamVars == <<stream, joined, hand>>
clientVars == <<told, got, open, reads>>
vars == <<loopVars, ended, subs, chan, dropped, exitVars, streamVars, wire, clientVars>>

TypeOK ==
    /\ alive \in BOOLEAN
    /\ emitted \in 0 .. MaxChunks
    /\ written \in 0 .. emitted
    /\ loop \in {"reading", "telling", "done"}
    /\ ended \in BOOLEAN
    /\ subs \in SUBSET Conns
    /\ chan \in [Conns -> SUBSET Chunks]
    /\ dropped \in [Conns -> SUBSET Chunks]
    /\ notify \in SUBSET Conns
    /\ writing \in Conns \cup {NoConn}
    /\ stream \in [Conns -> {"spawned", "streaming", "done"}]
    /\ joined \in [Conns -> 0 .. MaxChunks \cup {NotYet}]
    /\ hand \in [Conns -> SUBSET Items]
    /\ wire \in [Conns -> SUBSET Items]
    /\ told \in [Conns -> {"no", "written", "read"}]
    /\ got \in [Conns -> SUBSET Items]
    /\ open \in [Conns -> BOOLEAN]
    /\ reads \in [Conns -> BOOLEAN]

Init ==
    /\ alive = TRUE
    /\ emitted = 0
    /\ written = 0
    /\ loop = "reading"
    /\ ended = FALSE
    /\ subs = {}
    /\ chan = [c \in Conns |-> {}]
    /\ dropped = [c \in Conns |-> {}]
    /\ notify = {}
    /\ writing = NoConn
    /\ stream = [c \in Conns |-> "spawned"]
    /\ joined = [c \in Conns |-> NotYet]
    /\ hand = [c \in Conns |-> {}]
    /\ wire = [c \in Conns |-> {}]
    /\ told = [c \in Conns |-> "no"]
    /\ got = [c \in Conns |-> {}]
    /\ open = [c \in Conns |-> TRUE]
    /\ reads = [c \in Conns |-> TRUE]

Least(i, S) == i \in S /\ \A j \in S : i <= j

\* A write to c succeeds now.
Room(c) == open[c] /\ Cardinality(wire[c]) < SocketRoom

--------------------------------------------------------------------------------
(* The process and the read loop.                                              *)

Emit ==
    /\ alive
    /\ emitted < MaxChunks
    /\ emitted' = emitted + 1
    /\ UNCHANGED <<alive, written, loop, ended, subs, chan, dropped, exitVars, streamVars, wire, clientVars>>

ProcessExits ==
    /\ alive
    /\ alive' = FALSE
    /\ UNCHANGED <<emitted, written, loop, ended, subs, chan, dropped, exitVars, streamVars, wire, clientVars>>

\* Kill closes the PTY: what the read loop has not read yet is gone.
Killed ==
    /\ alive
    /\ alive' = FALSE
    /\ emitted' = written
    /\ UNCHANGED <<written, loop, ended, subs, chan, dropped, exitVars, streamVars, wire, clientVars>>

Fits(c) == Cardinality(chan[c]) < SubBuffer

\* Mutated: a full channel blocks the read loop.
HandleOutputBlocking ==
    /\ loop = "reading"
    /\ written < emitted
    /\ \A c \in subs : Fits(c)
    /\ written' = written + 1
    /\ chan' = [c \in Conns |-> IF c \in subs THEN chan[c] \cup {written + 1} ELSE chan[c]]
    /\ UNCHANGED <<alive, emitted, loop, ended, subs, dropped, exitVars, streamVars, wire, clientVars>>

\* handleOutput: the emulator first, then a send to every channel with room.
HandleOutput ==
    /\ loop = "reading"
    /\ written < emitted
    /\ written' = written + 1
    /\ chan' = [c \in Conns |->
          IF c \in subs /\ Fits(c) THEN chan[c] \cup {written + 1} ELSE chan[c]]
    /\ dropped' = [c \in Conns |->
          IF c \in subs /\ ~Fits(c) THEN dropped[c] \cup {written + 1} ELSE dropped[c]]
    /\ UNCHANGED <<alive, emitted, loop, ended, subs, exitVars, streamVars, wire, clientVars>>

\* The PTY is read to its end; handleSessionExit closes the channels.
HandleExit ==
    /\ loop = "reading"
    /\ ~alive
    /\ written = emitted
    /\ loop' = "telling"
    /\ ended' = TRUE
    /\ notify' = subs
    /\ subs' = {}
    /\ UNCHANGED <<alive, emitted, written, chan, dropped, writing, streamVars, wire, clientVars>>

NextWriter(c) ==
    /\ loop = "telling"
    /\ writing = NoConn
    /\ c \in notify
    /\ writing' = c
    /\ notify' = notify \ {c}
    /\ UNCHANGED <<loopVars, ended, subs, chan, dropped, streamVars, wire, clientVars>>

\* The notice goes to the socket at once, whatever c's channel still holds.
TellEnd(c) ==
    /\ writing = c
    /\ Room(c) \/ ~open[c]
    /\ told' = IF open[c] THEN [told EXCEPT ![c] = "written"] ELSE told
    /\ writing' = NoConn
    /\ UNCHANGED <<loopVars, ended, subs, chan, dropped, notify, streamVars, wire, got, open, reads>>

ToldAll ==
    /\ loop = "telling"
    /\ writing = NoConn
    /\ notify = {}
    /\ loop' = "done"
    /\ UNCHANGED <<alive, emitted, written, ended, subs, chan, dropped, exitVars, streamVars, wire, clientVars>>

--------------------------------------------------------------------------------
(* streamTo.                                                                   *)

\* Mutated: the snapshot holds the chunk that is handled next.
SnapshotLate == written + 1

\* Mutated: the snapshot misses the chunk handled last.
SnapshotEarly == IF written = 0 THEN 0 ELSE written - 1

\* serializeReplay: the emulator was given every chunk handled so far.
Snapshot == written

\* SubscribeWithScrollback, in one critical section.
Subscribe(c) ==
    /\ stream[c] = "spawned"
    /\ ~ended
    /\ stream' = [stream EXCEPT ![c] = "streaming"]
    /\ subs' = subs \cup {c}
    /\ joined' = [joined EXCEPT ![c] = Snapshot]
    /\ hand' = [hand EXCEPT ![c] = {Replay}]
    /\ UNCHANGED <<loopVars, ended, chan, dropped, exitVars, wire, clientVars>>

\* The session ended before: a closed channel, no replay.
SubscribeLate(c) ==
    /\ stream[c] = "spawned"
    /\ ended
    /\ stream' = [stream EXCEPT ![c] = "done"]
    /\ UNCHANGED <<loopVars, ended, subs, chan, dropped, exitVars, joined, hand, wire, clientVars>>

TakeChunk(c, i) ==
    /\ stream[c] = "streaming"
    /\ hand[c] = {}
    /\ Least(i, chan[c])
    /\ hand' = [hand EXCEPT ![c] = {i}]
    /\ chan' = [chan EXCEPT ![c] = @ \ {i}]
    /\ UNCHANGED <<loopVars, ended, subs, dropped, exitVars, stream, joined, wire, clientVars>>

\* Mutated: the goroutine returns after its first frame.
WriteFrameOnce(c) ==
    /\ stream[c] = "streaming"
    /\ hand[c] # {}
    /\ Room(c)
    /\ hand' = [hand EXCEPT ![c] = {}]
    /\ wire' = IF told[c] = "no" THEN [wire EXCEPT ![c] = @ \cup hand[c]] ELSE wire
    /\ stream' = [stream EXCEPT ![c] = "done"]
    /\ UNCHANGED <<loopVars, ended, subs, chan, dropped, exitVars, joined, clientVars>>

\* Nobody reads what follows the notice.
WriteFrame(c) ==
    /\ stream[c] = "streaming"
    /\ hand[c] # {}
    /\ Room(c)
    /\ hand' = [hand EXCEPT ![c] = {}]
    /\ wire' = IF told[c] = "no" THEN [wire EXCEPT ![c] = @ \cup hand[c]] ELSE wire
    /\ UNCHANGED <<loopVars, ended, subs, chan, dropped, exitVars, stream, joined, clientVars>>

\* Unsubscribe: the channel is garbage.
WriteFails(c) ==
    /\ stream[c] = "streaming"
    /\ hand[c] # {}
    /\ ~open[c]
    /\ stream' = [stream EXCEPT ![c] = "done"]
    /\ subs' = subs \ {c}
    /\ hand' = [hand EXCEPT ![c] = {}]
    /\ chan' = [chan EXCEPT ![c] = {}]
    /\ UNCHANGED <<loopVars, ended, dropped, exitVars, joined, wire, clientVars>>

\* The channel is closed and drained.
StreamEnds(c) ==
    /\ stream[c] = "streaming"
    /\ hand[c] = {}
    /\ chan[c] = {}
    /\ c \notin subs
    /\ stream' = [stream EXCEPT ![c] = "done"]
    /\ UNCHANGED <<loopVars, ended, subs, chan, dropped, exitVars, joined, hand, wire, clientVars>>

--------------------------------------------------------------------------------
(* The clients: client.Attach reads frames until the notice.                   *)

ReadOutput(c, i) ==
    /\ open[c] /\ reads[c]
    /\ told[c] # "read"
    /\ Least(i, wire[c])
    /\ wire' = [wire EXCEPT ![c] = @ \ {i}]
    /\ got' = [got EXCEPT ![c] = @ \cup {i}]
    /\ UNCHANGED <<loopVars, ended, subs, chan, dropped, exitVars, streamVars, told, open, reads>>

ReadNotice(c) ==
    /\ open[c] /\ reads[c]
    /\ told[c] = "written"
    /\ wire[c] = {}
    /\ told' = [told EXCEPT ![c] = "read"]
    /\ UNCHANGED <<loopVars, ended, subs, chan, dropped, exitVars, streamVars, wire, got, open, reads>>

Stall(c) ==
    /\ c \in MayStall
    /\ open[c] /\ reads[c]
    /\ reads' = [reads EXCEPT ![c] = FALSE]
    /\ UNCHANGED <<loopVars, ended, subs, chan, dropped, exitVars, streamVars, wire, told, got, open>>

HangUp(c) ==
    /\ open[c]
    /\ open' = [open EXCEPT ![c] = FALSE]
    /\ UNCHANGED <<loopVars, ended, subs, chan, dropped, exitVars, streamVars, wire, told, got, reads>>

--------------------------------------------------------------------------------

\* The session is over and every stream goroutine returned, or its connection
\* is closed and it never will be woken.
Over == loop = "done" /\ \A c \in Conns : ~open[c] /\ stream[c] = "done"

LoopStep == HandleOutput \/ HandleExit \/ (\E c \in Conns : NextWriter(c) \/ TellEnd(c)) \/ ToldAll

StreamStep(c) ==
    \/ Subscribe(c) \/ SubscribeLate(c)
    \/ \E i \in Chunks : TakeChunk(c, i)
    \/ WriteFrame(c) \/ WriteFails(c) \/ StreamEnds(c)

ClientReads(c) == ReadNotice(c) \/ \E i \in Items : ReadOutput(c, i)

Next ==
    \/ Emit \/ ProcessExits \/ Killed
    \/ LoopStep
    \/ \E c \in Conns : StreamStep(c) \/ ClientReads(c) \/ Stall(c) \/ HangUp(c)
    \/ Over /\ UNCHANGED vars

\* The daemon's goroutines run, and a client reads until it stalls.
Fairness ==
    /\ WF_vars(LoopStep)
    /\ \A c \in Conns : WF_vars(StreamStep(c)) /\ WF_vars(ClientReads(c))

Spec == Init /\ [][Next]_vars /\ Fairness

--------------------------------------------------------------------------------

Promise == INSTANCE OutputPromise WITH
    Capacity <- SubBuffer,
    seen <- [c \in Conns |-> got[c] \ {Replay}],
    lost <- dropped

\* After its replay a client gets each later chunk once and in order, and it
\* misses one only if it was subBuffer chunks behind (session.go, handleOutput
\* and SubscribeWithScrollback).
PromiseSpec == Promise!PromiseSpec

\* What the process writes is read, however slow the clients are: "the PTY read
\* loop never blocks".
ReadLoopNeverBlocks == (written < emitted) ~> (written = emitted)

\* A subscribed client that keeps reading gets all the chunks handled since its
\* replay, but those dropped, unless the notice of the end comes first (streamTo).
EveryChunkArrives ==
    \A c \in Conns :
        LET missing == (joined[c] + 1 .. written) \ (got[c] \cup dropped[c])
        IN  (c \in subs /\ missing # {}) ~>
                (missing = {} \/ told[c] # "no" \/ ~open[c] \/ ~reads[c])

\* A client that read the notice of the end has seen everything: it "sees every
\* byte exactly once, with no gap" (session.go, SubscribeWithScrollback).
NothingMissingAtTheEnd ==
    \A c \in Conns : told[c] = "read" =>
        \A i \in joined[c] + 1 .. written : i \in got[c] \cup dropped[c]

--------------------------------------------------------------------------------
(* Why the promise is kept: where each chunk is on its way to c.               *)

\* The chunks that c is to get after its replay, and those that left its way.
Due(c) == joined[c] + 1 .. written
Astray(c) == Due(c) \ (got[c] \cup wire[c] \cup hand[c] \cup chan[c] \cup dropped[c])

Before(S, T) == \A i \in S, j \in T : i < j

\* The read loop, the exit and the stream goroutines are in step.
Stages ==
    /\ ended <=> loop # "reading"
    /\ notify # {} \/ writing # NoConn => ended
    /\ \A c \in Conns :
          /\ told[c] # "no" => ended
          /\ c \in subs => stream[c] = "streaming" /\ ~ended
          /\ stream[c] = "spawned" => joined[c] = NotYet
          /\ stream[c] = "streaming" => joined[c] # NotYet
          /\ stream[c] # "streaming" => hand[c] = {} /\ chan[c] = {}
          /\ joined[c] = NotYet => got[c] = {} /\ wire[c] = {} /\ dropped[c] = {}

\* Nothing but the replay and due chunks is on the way to c, and nothing dropped.
OnTheWay(c) ==
    /\ joined[c] <= written
    /\ got[c] \cup wire[c] \cup hand[c] \subseteq Due(c) \cup {Replay}
    /\ chan[c] \cup dropped[c] \subseteq Due(c)
    /\ dropped[c] \cap (got[c] \cup wire[c] \cup hand[c] \cup chan[c]) = {}

Kept == \A c \in Conns : joined[c] # NotYet => OnTheWay(c)

\* What is further on its way to c was written earlier.
InOrder(c) ==
    /\ Before(got[c], wire[c]) /\ Before(got[c], hand[c]) /\ Before(got[c], chan[c])
    /\ Before(wire[c], hand[c]) /\ Before(wire[c], chan[c]) /\ Before(hand[c], chan[c])

Ordered == \A c \in Conns : InOrder(c)

\* What went astray is later than all that c can still read.
AstrayLast ==
    \A c \in Conns :
        /\ c \in subs => Astray(c) = {}
        /\ Before(got[c], Astray(c)) /\ Before(wire[c], Astray(c))
        /\ told[c] = "no" => Before(hand[c], Astray(c)) /\ Before(chan[c], Astray(c))

StreamInv == TypeOK /\ Stages /\ Kept /\ Ordered /\ AstrayLast
================================================================================
