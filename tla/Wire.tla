----------------------------------- MODULE Wire -----------------------------------
(* Frames on one daemon connection. Three goroutines of the daemon share it: the   *)
(* one that answers requests, the stream of an attached session and a broadcast of *)
(* another connection's. Each frame goes out as a header and then its payload; the *)
(* receiver cuts the byte stream up again by the lengths alone, so one byte out of *)
(* place garbles all that follows. Every byte is a number: a type, a length or     *)
(* data; a header is two of them.                                                  *)
EXTENDS Naturals, Sequences, SequencesExt

CONSTANTS
    maxFrameBytes,
    ReplayBytes     \* bound: the sizes of replay to try

ASSUME WireAssumption == maxFrameBytes \in Nat /\ ReplayBytes \subseteq Nat

TypeControl == 1
TypeOutput == 2
headerLen == 2

Frame(type, payload) == [Type |-> type, Payload |-> payload]

\* Consecutive pieces of at most max bytes, none of them empty.
splitFrames(b, max) ==
    IF max = 0 /\ b # <<>> THEN <<b>>
    ELSE [i \in {k \in 1 .. Len(b) : (k - 1) * max < Len(b)} |->
             SubSeq(b, (i - 1) * max + 1, IF i * max < Len(b) THEN i * max ELSE Len(b))]

Replay(n) == [i \in 1 .. n |-> 10 + i]
LiveChunk == <<20>>

\* What each goroutine has to send, a frame's payload each.
Replies == <<<<31, 32>>, <<33>>>>
Broadcasts == <<<<41>>>>

Writers == {"reply", "stream", "broadcast"}
TypeOf(w) == IF w = "stream" THEN TypeOutput ELSE TypeControl

VARIABLES
    replay,     \* the replay of the attach
    queue,      \* frames each writer has still to send
    holder,     \* connWriter.mu
    rest,       \* bytes the holder has still to write
    socket,     \* written, not yet read
    up,         \* the connection is open
    \* what the receiver made of the frames it read
    output,     \* the terminal's bytes
    controls,   \* the payloads of the control frames
    strays      \* a frame was neither

received == <<output, controls, strays>>
wireVars == <<replay, queue, holder, rest, socket, up, received>>

WireInit ==
    /\ \E n \in ReplayBytes :
         /\ replay = Replay(n)
         /\ queue = [w \in Writers |->
                IF w = "reply" THEN Replies
                ELSE IF w = "broadcast" THEN Broadcasts
                ELSE splitFrames(Replay(n), maxFrameBytes) \o <<LiveChunk>>]
    /\ holder = "none" /\ rest = <<>> /\ socket = <<>>
    /\ up = TRUE
    /\ output = <<>> /\ controls = <<>> /\ strays = FALSE

\* The bytes of WriteFrame.
Encoded(f) == <<f.Type, Len(f.Payload)>> \o f.Payload

\* Mutated: no lock, a frame goes out wherever another one is.
LockForgotten(w) ==
    /\ queue[w] # <<>>
    /\ holder' = w
    /\ rest' = Encoded(Frame(TypeOf(w), Head(queue[w]))) \o rest
    /\ queue' = [queue EXCEPT ![w] = Tail(@)]
    /\ UNCHANGED <<replay, socket, up, received>>

\* connWriter.write begins.
LockToWrite(w) ==
    /\ queue[w] # <<>> /\ holder = "none"
    /\ holder' = w
    /\ rest' = Encoded(Frame(TypeOf(w), Head(queue[w])))
    /\ queue' = [queue EXCEPT ![w] = Tail(@)]
    /\ UNCHANGED <<replay, socket, up, received>>

\* The kernel takes as much of a Write as fits; a closed connection fails it, which
\* ends a stream and is ignored by the others.
WriteBytes ==
    /\ holder # "none" /\ rest # <<>>
    /\ IF up
         THEN /\ \E n \in 1 .. Len(rest) :
                   /\ socket' = socket \o SubSeq(rest, 1, n)
                   /\ rest' = SubSeq(rest, n + 1, Len(rest))
              /\ UNCHANGED queue
         ELSE /\ rest' = <<>>
              /\ queue' = IF holder = "stream" THEN [queue EXCEPT !["stream"] = <<>>] ELSE queue
              /\ UNCHANGED socket
    /\ UNCHANGED <<replay, holder, up, received>>

UnlockWriter ==
    /\ holder # "none" /\ rest = <<>>
    /\ holder' = "none"
    /\ UNCHANGED <<replay, queue, rest, socket, up, received>>

FrameReady == Len(socket) >= headerLen /\ Len(socket) >= headerLen + socket[2]

\* ReadFrame returns: ReadFull of the header, ReadFull of the payload; Attach tells
\* output from control. At the end of the stream a frame that is not whole is an
\* error, and the receiver stops.
ReadFrame ==
    /\ FrameReady
    /\ LET end == headerLen + socket[2]
           payload == SubSeq(socket, headerLen + 1, end)
       IN  /\ output' = IF socket[1] = TypeOutput THEN output \o payload ELSE output
           /\ controls' = IF socket[1] = TypeControl THEN Append(controls, payload) ELSE controls
           /\ strays' = (strays \/ socket[1] \notin {TypeControl, TypeOutput})
           /\ socket' = SubSeq(socket, end + 1, Len(socket))
    /\ UNCHANGED <<replay, queue, holder, rest, up>>

\* The daemon dies or closes the connection: what was written stays readable.
ConnectionCut ==
    /\ up
    /\ up' = FALSE
    /\ UNCHANGED <<replay, queue, holder, rest, socket, received>>

WireNext ==
    \/ \E w \in Writers : LockToWrite(w)
    \/ WriteBytes \/ UnlockWriter \/ ReadFrame \/ ConnectionCut

WireSpec == WireInit /\ [][WireNext]_wireVars

--------------------------------------------------------------------------------

WireTypeOK ==
    /\ replay \in Seq(Nat)
    /\ queue \in [Writers -> Seq(Seq(Nat))]
    /\ holder \in Writers \cup {"none"}
    /\ rest \in Seq(Nat) /\ socket \in Seq(Nat)
    /\ up \in BOOLEAN
    /\ output \in Seq(Nat) /\ controls \in Seq(Seq(Nat)) /\ strays \in BOOLEAN

\* "their writes must not interleave", and the replay is split "while preserving
\* the full history": whatever order the three goroutines write in and wherever
\* the connection is cut, the receiver gets every control message whole and the
\* output as a prefix of replay and live output; and all of it, when the writers
\* are done and the connection stands.
FramesIntact ==
    /\ ~strays
    /\ ToSet(controls) \subseteq ToSet(Replies) \cup ToSet(Broadcasts)
    /\ IsPrefix(output, replay \o LiveChunk)
    /\ up /\ holder = "none" /\ (\A w \in Writers : queue[w] = <<>>) /\ ~FrameReady =>
           /\ socket = <<>>
           /\ output = replay \o LiveChunk
           /\ Len(controls) = Len(Replies) + Len(Broadcasts)
================================================================================
