------------------------------ MODULE TypedInput ------------------------------
(* Keys and text on their way into a session's PTY. The terminal client queues *)
(* what each key has to send for one writer goroutine (startInputWriter), which *)
(* writes to the view's connection; a phone sends whole texts and actions. The *)
(* daemon's handler of a connection takes one request at a time and writes it  *)
(* piece by piece, sleeping between two pieces (WriteText, DoAction) without a *)
(* lock, so another connection's pieces may come between. Change of owner is   *)
(* one step here; SizeOwnership has its interleavings. A full inputCh, which   *)
(* blocks the program, keys that send nothing, the wheel and bytes that the    *)
(* emulator answers are left out; the phone stays attached.                    *)
EXTENDS Integers, Sequences

CONSTANTS MaxKeys,   \* bound: keys pressed in the view
          MaxTaps    \* bound: requests of the phone

ASSUME TypedAssumption == {MaxKeys, MaxTaps} \subseteq Nat

Ends == {"tui", "phone"}   \* the two connections, each attached to the session

VARIABLES
    viewOpen,   \* the view and its connection are open
    parked,     \* the view is parked: the next key takes over
    inputCh,    \* queued jobs, each the requests it sends
    writing,    \* what the writer goroutine has still to send of its job
    up,         \* requests on their way to the daemon, by connection
    hand,       \* pieces the connection's handler has still to write
    flags,      \* Active flags on their way to the view
    sizeOwner,  \* the connection that owns the size, or "nobody"
    ttyOpen,    \* the PTY takes writes
    written,    \* history: the pieces written to the PTY
    keys, taps, \* bounds; a request is numbered by them
    takeovers,  \* history: keys that were pressed on a parked view
    granted     \* history: those since which the view has owned the size

viewVars  == <<viewOpen, parked, inputCh, keys, takeovers>>
ptyVars   == <<hand, ttyOpen, written>>
inputVars == <<viewVars, ptyVars, writing, up, flags, sizeOwner, taps, granted>>

Take    == [kind |-> "take"]
Release == [kind |-> "release"]
\* A text or an action of so many pieces: a body and its CR, or the keys of
\* actionSequence (none for an unbound custom button).
Text(n, pieces) == [kind |-> "text", req |-> n, pieces |-> pieces]

Pieces(e, msg) ==
    [i \in 1 .. msg.pieces |->
        [from |-> e, req |-> msg.req, nr |-> i, last |-> i = msg.pieces]]

InputInit ==
    /\ viewOpen = TRUE /\ parked = FALSE
    /\ inputCh = <<>> /\ writing = <<>>
    /\ up = [e \in Ends |-> <<>>] /\ hand = [e \in Ends |-> <<>>]
    /\ flags = <<>> /\ sizeOwner = "tui"
    /\ ttyOpen = TRUE /\ written = <<>>
    /\ keys = 0 /\ taps = 0 /\ takeovers = {} /\ granted = {}

--------------------------------------------------------------------------------
(* The view *)

\* Mutated: the key is sent before the claim.
TakeOverJobSwapped(n) == <<Text(n, 1), Take>>

\* What a key sends when the view is parked: the claim, then the key.
TakeOverJob(n) == <<Take, Text(n, 1)>>

enqueue(job) == inputCh' = Append(inputCh, job)

\* Mutated: a live key is written by a goroutine of its own instead of being queued.
LiveKeyDirect ==
    /\ ~parked
    /\ up' = [up EXCEPT !["tui"] = Append(@, Text(keys + 1, 1))]
    /\ UNCHANGED <<inputCh, parked, takeovers, granted, writing>>

\* A key that reaches a live view.
LiveKey ==
    /\ ~parked
    /\ enqueue(<<Text(keys + 1, 1)>>)
    /\ UNCHANGED <<parked, takeovers, granted, writing, up>>

\* A key on a parked view takes over; parked is cleared at once.
TakeOverKey ==
    /\ parked
    /\ parked' = FALSE
    /\ enqueue(TakeOverJob(keys + 1))
    /\ takeovers' = takeovers \cup {keys + 1}
    /\ granted' = IF sizeOwner = "tui" THEN granted \cup {keys + 1} ELSE granted
    /\ UNCHANGED <<writing, up>>

PressKey ==
    /\ viewOpen /\ keys < MaxKeys
    /\ keys' = keys + 1
    /\ LiveKey \/ TakeOverKey
    /\ UNCHANGED <<viewOpen, ptyVars, flags, sizeOwner, taps>>

FlagArrives ==
    /\ viewOpen /\ flags # <<>>
    /\ parked' = ~Head(flags)
    /\ flags' = Tail(flags)
    /\ UNCHANGED <<viewOpen, inputCh, keys, takeovers, ptyVars, writing, up,
                   sizeOwner, taps, granted>>

\* ctrl+t: the connection closes, the writer drains the queue into it.
CloseView ==
    /\ viewOpen
    /\ viewOpen' = FALSE
    /\ flags' = <<>>
    /\ UNCHANGED <<parked, inputCh, keys, takeovers, ptyVars, writing, up,
                   sizeOwner, taps, granted>>

NextJob ==
    /\ writing = <<>> /\ inputCh # <<>>
    /\ writing' = Head(inputCh)
    /\ inputCh' = Tail(inputCh)
    /\ UNCHANGED <<viewOpen, parked, keys, takeovers, ptyVars, up, flags,
                   sizeOwner, taps, granted>>

\* A request of the job is written; on a closed connection it fails, unseen.
SendRequest ==
    /\ writing # <<>>
    /\ writing' = Tail(writing)
    /\ up' = IF viewOpen THEN [up EXCEPT !["tui"] = Append(@, Head(writing))] ELSE up
    /\ UNCHANGED <<viewVars, ptyVars, flags, sizeOwner, taps, granted>>

--------------------------------------------------------------------------------
(* The phone: its requests go straight to its connection. *)

Tap ==
    /\ taps < MaxTaps
    /\ taps' = taps + 1
    /\ \E msg \in {Take, Release} \cup {Text(taps + 1, k) : k \in 0 .. 2} :
           up' = [up EXCEPT !["phone"] = Append(@, msg)]
    /\ UNCHANGED <<viewVars, ptyVars, writing, flags, sizeOwner, granted>>

--------------------------------------------------------------------------------
(* The daemon *)

\* sizeOwner becomes o, and the view is told whether it owns the size.
Own(o) ==
    /\ sizeOwner' = o
    /\ flags' = IF viewOpen THEN Append(flags, o = "tui") ELSE flags
    /\ granted' = IF o = "tui" THEN granted \cup takeovers ELSE granted

\* Who owns the size once the phone gave it up: the view, if it is attached.
AfterPhone ==
    IF sizeOwner # "phone" THEN sizeOwner ELSE IF viewOpen THEN "tui" ELSE "nobody"

Serve(e) ==
    /\ hand[e] = <<>> /\ up[e] # <<>>
    /\ up' = [up EXCEPT ![e] = Tail(@)]
    /\ LET msg == Head(up[e]) IN
         \/ /\ msg.kind = "take"
            /\ Own(e)
            /\ UNCHANGED hand
         \/ /\ msg.kind = "release"
            /\ Own(AfterPhone)
            /\ UNCHANGED hand
         \/ /\ msg.kind = "text"
            /\ hand' = [hand EXCEPT ![e] = Pieces(e, msg)]
            /\ UNCHANGED <<sizeOwner, flags, granted>>
    /\ UNCHANGED <<viewVars, ttyOpen, written, writing, taps>>

\* WriteInput of the next piece: an error ends the request. Whatever happens
\* before the next one happens in the gap.
WritePiece(e) ==
    /\ hand[e] # <<>>
    /\ IF ttyOpen
         THEN /\ written' = Append(written, Head(hand[e]))
              /\ hand' = [hand EXCEPT ![e] = Tail(@)]
         ELSE /\ hand' = [hand EXCEPT ![e] = <<>>]
              /\ UNCHANGED written
    /\ UNCHANGED <<viewVars, ttyOpen, writing, up, flags, sizeOwner, taps, granted>>

\* The daemon has read all the view sent before it closed: the size is handed on.
ViewGone ==
    /\ ~viewOpen /\ up["tui"] = <<>> /\ hand["tui"] = <<>> /\ sizeOwner = "tui"
    /\ sizeOwner' = "phone"
    /\ UNCHANGED <<viewVars, ptyVars, writing, up, flags, taps, granted>>

\* The process ends or is killed.
TTYCloses ==
    /\ ttyOpen
    /\ ttyOpen' = FALSE
    /\ UNCHANGED <<viewVars, hand, written, writing, up, flags, sizeOwner, taps, granted>>

InputNext ==
    \/ PressKey \/ FlagArrives \/ CloseView \/ NextJob \/ SendRequest
    \/ Tap
    \/ \E e \in Ends : Serve(e) \/ WritePiece(e)
    \/ ViewGone \/ TTYCloses

InputSpec == InputInit /\ [][InputNext]_inputVars

--------------------------------------------------------------------------------

Requests == [kind : {"take", "release"}] \cup
            [kind : {"text"}, req : Nat, pieces : 0 .. 2]
PieceType == [from : Ends, req : Nat, nr : 1 .. 2, last : BOOLEAN]

InputTypeOK ==
    /\ {viewOpen, parked, ttyOpen} \subseteq BOOLEAN
    /\ inputCh \in Seq(Seq(Requests)) /\ writing \in Seq(Requests)
    /\ up \in [Ends -> Seq(Requests)] /\ hand \in [Ends -> Seq(PieceType)]
    /\ flags \in Seq(BOOLEAN)
    /\ sizeOwner \in Ends \cup {"nobody"}
    /\ written \in Seq(PieceType)
    /\ keys \in 0 .. MaxKeys /\ taps \in 0 .. MaxTaps
    /\ granted \subseteq takeovers /\ takeovers \subseteq 1 .. keys

\* After piece p of a connection comes the next one of the same request, or the
\* first one of a later request when p was the last.
Follows(p, q) ==
    \/ q.req = p.req /\ q.nr = p.nr + 1
    \/ p.last /\ q.nr = 1 /\ q.req > p.req

\* The piece at j is the next one of its connection after the piece at i.
Adjacent(i, j) ==
    /\ i < j /\ written[i].from = written[j].from
    /\ \A k \in i + 1 .. j - 1 : written[k].from # written[i].from

\* What the agent reads of one client is what that client sent, in its order and
\* whole requests at a time, and of the view it is a prefix of the keys pressed:
\* none is doubled, overtaken by a later one or skipped, whether it was typed
\* live or took over, and however the view was left or the session ended
\* (startInputWriter, handleKey, handleConn, WriteText).
KeysInOrder ==
    /\ \A i, j \in DOMAIN written : Adjacent(i, j) => Follows(written[i], written[j])
    /\ LET typed == {i \in DOMAIN written : written[i].from = "tui"}
       IN  /\ \A i, j \in typed : i < j => written[i].req < written[j].req
           /\ \A i \in typed : \A n \in 1 .. written[i].req :
                 \E j \in typed : written[j].req = n

\* A key that took over a parked view reaches the agent only after the view has
\* owned the size, at or since the press: nobody types into an agent that is laid
\* out for another screen and stays so (handleKey: the claim goes before the key).
TakeOverFirst ==
    \A i \in DOMAIN written :
        written[i].from = "tui" /\ written[i].req \in takeovers =>
            written[i].req \in granted
================================================================================
