---------------------------- MODULE SizeOwnership ----------------------------
(* Who drives the size of one running session's PTY. Every client connection   *)
(* has a handler goroutine (handleConn) and, once it attached, a stream        *)
(* goroutine (streamTo). They share the session's fields; s.mu is held only    *)
(* within one action here, so an action is one critical section, or one write  *)
(* to a client, and goroutines interleave between actions.                     *)
EXTENDS Naturals, FiniteSets

CONSTANTS Conns,        \* the client connections
          NoConn,       \* sizeOwner == nil
          Sizes,        \* the (cols, rows) pairs clients ask for
          NoSize,       \* (0, 0): no size was ever set
          MaxRequests   \* bound: requests handled in a behaviour

ASSUME SizeOwnershipAssumption ==
    /\ NoConn \notin Conns
    /\ NoSize \notin Sizes
    /\ MaxRequests \in Nat

VARIABLES
    \* the session, guarded by s.mu
    sizeOwner,    \* the connection whose size the PTY follows
    subs,         \* the connections in s.subs
    dims,         \* s.cols and s.rows
    \* the kernel's window size of the PTY
    winsize,
    \* each connection's handler goroutine
    pc,           \* what it does next
    remembered,   \* its sizes[s.ID]
    want,         \* the size it is about to apply
    announce,     \* it broadcasts once the size is applied
    seenOwner,    \* broadcastActive's owner
    toTell,       \* broadcastActive's writers that it has not written to yet
    leaving,      \* it runs the deferred cleanup
    \* each connection's stream goroutine
    stream,
    \* each connection's client
    open,         \* it has not hung up
    told,         \* the last Active flag written to it (a client starts as active)
    requests      \* how many requests were received so far

session == <<sizeOwner, subs, dims, winsize>>
handler == <<pc, remembered, want, announce, seenOwner, toTell, leaving>>
client  == <<open, told, requests>>
vars    == <<session, handler, stream, client>>

PCs == {"reading", "newcomer", "unicast", "ownsSize", "refocus", "resize",
        "ioctl", "yielding", "snapOwner", "snapSubs", "telling", "closed"}

TypeOK ==
    /\ sizeOwner \in Conns \cup {NoConn}
    /\ subs \in SUBSET Conns
    /\ dims \in Sizes \cup {NoSize}
    /\ winsize \in Sizes \cup {NoSize}
    /\ pc \in [Conns -> PCs]
    /\ remembered \in [Conns -> Sizes \cup {NoSize}]
    /\ want \in [Conns -> Sizes \cup {NoSize}]
    /\ announce \in [Conns -> BOOLEAN]
    /\ seenOwner \in [Conns -> Conns \cup {NoConn}]
    /\ toTell \in [Conns -> SUBSET Conns]
    /\ leaving \in [Conns -> BOOLEAN]
    /\ stream \in [Conns -> {"none", "spawned", "streaming", "done"}]
    /\ open \in [Conns -> BOOLEAN]
    /\ told \in [Conns -> BOOLEAN]
    /\ requests \in 0 .. MaxRequests
    \* Session.Resize rejects the zero size: nobody is about to apply it.
    /\ \A c \in Conns : pc[c] \in {"ownsSize", "resize", "ioctl"} => want[c] \in Sizes

Init ==
    /\ sizeOwner = NoConn
    /\ subs = {}
    /\ dims = NoSize
    /\ winsize = NoSize
    /\ pc = [c \in Conns |-> "reading"]
    /\ remembered = [c \in Conns |-> NoSize]
    /\ want = [c \in Conns |-> NoSize]
    /\ announce = [c \in Conns |-> FALSE]
    /\ seenOwner = [c \in Conns |-> NoConn]
    /\ toTell = [c \in Conns |-> {}]
    /\ leaving = [c \in Conns |-> FALSE]
    /\ stream = [c \in Conns |-> "none"]
    /\ open = [c \in Conns |-> TRUE]
    /\ told = [c \in Conns |-> TRUE]
    /\ requests = 0

Goto(c, where) == pc' = [pc EXCEPT ![c] = where]

\* The handler reads one request. Bytes sent before a hang-up are still read.
Receive(c) ==
    /\ pc[c] = "reading"
    /\ requests < MaxRequests
    /\ requests' = requests + 1

\* Both clients attach first and send the session's requests after it.
ReceiveAttached(c) == Receive(c) /\ stream[c] # "none"

\* connWriter.write of an Active flag: an error on a closed connection is ignored.
WriteActive(c, flag) == told' = IF open[c] THEN [told EXCEPT ![c] = flag] ELSE told

\* Where a handler goes after its broadcast.
Rest(c) == IF leaving[c] THEN "closed" ELSE "reading"

--------------------------------------------------------------------------------
(* MsgAttach. A client attaches once per connection.                           *)

Attach(c) ==
    /\ Receive(c)
    /\ stream[c] = "none"
    /\ stream' = [stream EXCEPT ![c] = "spawned"]
    /\ Goto(c, "newcomer")
    /\ UNCHANGED <<session, remembered, want, announce, seenOwner, toTell, leaving, open, told>>

\* Mutated: a newcomer is never told that somebody else owns the size.
ReadOwnerSilently(c) ==
    /\ pc[c] = "newcomer"
    /\ Goto(c, "reading")
    /\ UNCHANGED <<session, remembered, want, announce, seenOwner, toTell, leaving, stream, client>>

ReadOwner(c) ==
    /\ pc[c] = "newcomer"
    /\ Goto(c, IF sizeOwner \in {NoConn, c} THEN "reading" ELSE "unicast")
    /\ UNCHANGED <<session, remembered, want, announce, seenOwner, toTell, leaving, stream, client>>

ParkNewcomer(c) ==
    /\ pc[c] = "unicast"
    /\ WriteActive(c, FALSE)
    /\ Goto(c, "reading")
    /\ UNCHANGED <<session, remembered, want, announce, seenOwner, toTell, leaving, stream, open, requests>>

\* streamTo: SubscribeWithScrollback, then writes until one fails.
Subscribe(c) ==
    /\ stream[c] = "spawned"
    /\ stream' = [stream EXCEPT ![c] = "streaming"]
    /\ subs' = subs \cup {c}
    /\ UNCHANGED <<sizeOwner, dims, winsize, handler, client>>

Unsubscribe(c) ==
    /\ stream[c] = "streaming"
    /\ ~open[c]
    /\ stream' = [stream EXCEPT ![c] = "done"]
    /\ subs' = subs \ {c}
    /\ UNCHANGED <<sizeOwner, dims, winsize, handler, client>>

--------------------------------------------------------------------------------
(* MsgResize.                                                                  *)

Resize(c, size) ==
    /\ ReceiveAttached(c)
    /\ remembered' = [remembered EXCEPT ![c] = size]
    /\ want' = [want EXCEPT ![c] = size]
    /\ announce' = [announce EXCEPT ![c] = sizeOwner # c]
    /\ Goto(c, "ownsSize")
    /\ UNCHANGED <<session, seenOwner, toTell, leaving, stream, open, told>>

\* ownsSize(c, true): the owner once c tried to claim.
Claimed(c) == IF sizeOwner = NoConn THEN c ELSE sizeOwner

\* Mutated: the size is applied whoever owns it.
OwnsSizeUnchecked(c) ==
    /\ pc[c] = "ownsSize"
    /\ sizeOwner' = Claimed(c)
    /\ Goto(c, "resize")
    /\ UNCHANGED <<subs, dims, winsize, remembered, want, announce, seenOwner, toTell, leaving, stream, client>>

OwnsSize(c) ==
    /\ pc[c] = "ownsSize"
    /\ sizeOwner' = Claimed(c)
    /\ IF Claimed(c) = c
         THEN Goto(c, "resize") /\ UNCHANGED want
         ELSE Goto(c, "reading") /\ want' = [want EXCEPT ![c] = NoSize]
    /\ UNCHANGED <<subs, dims, winsize, remembered, announce, seenOwner, toTell, leaving, stream, client>>

\* Session.Resize: the fields under s.mu, the ioctl after it.
SetDims(c) ==
    /\ pc[c] = "resize"
    /\ dims' = want[c]
    /\ Goto(c, "ioctl")
    /\ UNCHANGED <<sizeOwner, subs, winsize, remembered, want, announce, seenOwner, toTell, leaving, stream, client>>

SetWinsize(c) ==
    /\ pc[c] = "ioctl"
    /\ winsize' = want[c]
    /\ want' = [want EXCEPT ![c] = NoSize]
    /\ Goto(c, IF announce[c] THEN "snapOwner" ELSE "reading")
    /\ UNCHANGED <<sizeOwner, subs, dims, remembered, announce, seenOwner, toTell, leaving, stream, client>>

--------------------------------------------------------------------------------
(* MsgAction and MsgTextInput: whatever reaches the PTY, the size stays.        *)

Input(c) ==
    /\ ReceiveAttached(c)
    /\ UNCHANGED <<session, handler, stream, open, told>>

--------------------------------------------------------------------------------
(* MsgSetActive and the cleanup of a disconnect.                               *)

TakeSize(c) ==
    /\ ReceiveAttached(c)
    /\ sizeOwner' = c
    /\ Goto(c, "refocus")
    /\ UNCHANGED <<subs, dims, winsize, remembered, want, announce, seenOwner, toTell, leaving, stream, open, told>>

\* Mutated: taking over does not re-apply the remembered size.
NeverOutOfDate(c) == FALSE

\* Mutated: the size is re-applied even if the connection never sent one.
OutOfDateUnset(c) == remembered[c] # dims

\* refocusSize: c remembers a size that is not the session's.
OutOfDate(c) == remembered[c] \notin {NoSize, dims}

Refocus(c) ==
    /\ pc[c] = "refocus"
    /\ IF OutOfDate(c)
         THEN /\ want' = [want EXCEPT ![c] = remembered[c]]
              /\ announce' = [announce EXCEPT ![c] = TRUE]
              /\ Goto(c, "resize")
         ELSE Goto(c, "snapOwner") /\ UNCHANGED <<want, announce>>
    /\ UNCHANGED <<session, remembered, seenOwner, toTell, leaving, stream, client>>

\* Mutated: a released size is left free although somebody watches.
HeirsNone(c) == {IF sizeOwner = c THEN NoConn ELSE sizeOwner}

\* Mutated: a connection that does not own the size hands it over all the same.
HeirsOfOthers(c) == IF subs \subseteq {c} THEN {NoConn} ELSE subs \ {c}

\* reassignOwnerAfter: the owners it may leave behind (map order picks one).
Heirs(c) ==
    IF sizeOwner \notin {c, NoConn} THEN {sizeOwner}
    ELSE IF subs \subseteq {c} THEN {NoConn} ELSE subs \ {c}

Release(c) ==
    /\ ReceiveAttached(c)
    /\ sizeOwner' \in Heirs(c)
    /\ Goto(c, "yielding")
    /\ UNCHANGED <<subs, dims, winsize, remembered, want, announce, seenOwner, toTell, leaving, stream, open, told>>

HangUp(c) ==
    /\ open[c]
    /\ open' = [open EXCEPT ![c] = FALSE]
    /\ UNCHANGED <<session, handler, stream, told, requests>>

Disconnect(c) ==
    /\ pc[c] = "reading"
    /\ ~open[c]
    /\ sizeOwner' \in Heirs(c)
    /\ leaving' = [leaving EXCEPT ![c] = TRUE]
    /\ Goto(c, "yielding")
    /\ UNCHANGED <<subs, dims, winsize, remembered, want, announce, seenOwner, toTell, stream, client>>

--------------------------------------------------------------------------------
(* broadcastActive: the owner and the subscribers are read in two critical     *)
(* sections, the writes follow one by one with no lock held.                   *)

SnapOwner(c) ==
    /\ pc[c] \in {"snapOwner", "yielding"}
    /\ seenOwner' = [seenOwner EXCEPT ![c] = sizeOwner]
    /\ Goto(c, "snapSubs")
    /\ UNCHANGED <<session, remembered, want, announce, toTell, leaving, stream, client>>

SnapSubs(c) ==
    /\ pc[c] = "snapSubs"
    /\ toTell' = [toTell EXCEPT ![c] = subs]
    /\ Goto(c, IF subs = {} THEN Rest(c) ELSE "telling")
    /\ UNCHANGED <<session, remembered, want, announce, seenOwner, leaving, stream, client>>

\* The flag that c's broadcast sends to d.
Flag(c, d) == d = seenOwner[c]

Tell(c, d) ==
    /\ pc[c] = "telling"
    /\ d \in toTell[c]
    /\ WriteActive(d, Flag(c, d))
    /\ toTell' = [toTell EXCEPT ![c] = @ \ {d}]
    /\ Goto(c, IF toTell[c] = {d} THEN Rest(c) ELSE "telling")
    /\ UNCHANGED <<session, remembered, want, announce, seenOwner, leaving, stream, open, requests>>

--------------------------------------------------------------------------------

\* Every connection is closed and every stream goroutine has returned.
AllGone ==
    /\ \A c \in Conns : pc[c] = "closed" /\ stream[c] \in {"none", "done"}
    /\ UNCHANGED vars

HandlerStep(c) ==
    \/ Attach(c) \/ ReadOwner(c) \/ ParkNewcomer(c)
    \/ \E size \in Sizes : Resize(c, size)
    \/ OwnsSize(c) \/ SetDims(c) \/ SetWinsize(c)
    \/ TakeSize(c) \/ Refocus(c) \/ Release(c) \/ Disconnect(c)
    \/ SnapOwner(c) \/ SnapSubs(c)
    \/ \E d \in Conns : Tell(c, d)

Next ==
    \/ \E c \in Conns : HandlerStep(c) \/ Input(c) \/ Subscribe(c) \/ Unsubscribe(c) \/ HangUp(c)
    \/ AllGone

Spec == Init /\ [][Next]_vars

\* The connections whose MsgSetActive(true) took the size and goes on, and those whose
\* MsgSetActive(false) or disconnect was just through with reassignOwnerAfter.
Takers == {c \in Conns : pc[c] = "refocus"}
Leavers == {c \in Conns : pc[c] = "yielding"}

\* A held size changes hands only when another connection takes it explicitly, or when
\* its holder releases it or goes, and then to a watcher if there is one: neither a
\* resize nor input moves it. (The comments at daemon.go:109-111 and 130-132 have it
\* follow activity, and those of ownsSize and takeSize move it on real input.)
Lease == INSTANCE SizeLease WITH owner <- sizeOwner, watchers <- subs,
                                 takers <- Takers, leavers <- Leavers
LeaseSpec == Lease!LeaseSpec
==============================================================================
