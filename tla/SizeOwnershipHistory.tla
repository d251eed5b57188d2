------------------------- MODULE SizeOwnershipHistory -------------------------
(* SizeOwnership with the history its properties speak of.                     *)
EXTENDS SizeOwnership

VARIABLES overlap,  \* two requests overlapped, or one overlapped a pending subscription
          held,     \* c owned the size at some moment since its current request arrived
          inherited \* the owner got the size by a hand-over and has not sized the PTY since

history == <<overlap, held, inherited>>

Busy == {c \in Conns : pc[c] \notin {"reading", "closed"}}
Pending == {c \in Conns : stream[c] = "spawned"}

\* An Attach overlaps its own stream goroutine by design; nothing else may.
Overlapping ==
    \E c \in Busy : \/ Busy # {c}
                    \/ Pending \ {c} # {}
                    \/ c \in Pending /\ pc[c] \notin {"newcomer", "unicast"}

HistoryTypeOK ==
    /\ TypeOK
    /\ overlap \in BOOLEAN
    /\ held \in [Conns -> BOOLEAN]
    /\ inherited \in BOOLEAN

HistoryInit ==
    /\ Init
    /\ overlap = FALSE
    /\ held = [c \in Conns |-> FALSE]
    /\ inherited = FALSE

HandsOver(c) == pc[c] = "reading" /\ pc'[c] = "yielding"

\* The step starts a request of c: what c held before it does not count.
Begins(c) == pc[c] = "reading" /\ pc'[c] # "reading"

RecordHistory ==
    /\ overlap' = (overlap \/ Overlapping')
    /\ held' = [c \in Conns |-> (held[c] /\ ~Begins(c)) \/ sizeOwner' = c]
    /\ inherited' =
         IF \E c \in Conns : HandsOver(c)
           THEN inherited \/ sizeOwner' # sizeOwner
           ELSE inherited /\ ~\E c \in Conns :
                   /\ sizeOwner' = c
                   /\ \/ pc[c] = "ownsSize"
                      \/ pc[c] = "reading" /\ pc'[c] = "refocus"

HistoryNext == Next /\ RecordHistory
HistorySpec == HistoryInit /\ [][HistoryNext]_<<vars, history>>

--------------------------------------------------------------------------------

\* A request is applied to the PTY only for a connection that owned the size at
\* some moment while the request was handled: a client that only watches, or
\* resizes its window while somebody else drives, never reshapes the PTY
\* (MsgResize, Session.ownsSize and refocusSize).
OnlyHoldersResize == \A c \in Conns : pc[c] \in {"resize", "ioctl"} => held[c]

Quiet == Busy = {} /\ Pending = {}

FlagsAgree ==
    sizeOwner # NoConn => \A c \in subs : open[c] => told[c] = (c = sizeOwner)

\* While requests are handled one at a time and every subscription is in place
\* before the next one, each watcher knows at rest whether it owns the size:
\* the unicast of MsgAttach and the broadcasts of MsgResize, MsgSetActive and
\* the disconnect cleanup leave out nobody.
FlagsAgreeWhenSerial == Quiet /\ ~overlap => FlagsAgree

\* The flag is "true iff the receiving client currently owns the shared PTY
\* size" (protocol.Envelope.Active), whatever the goroutines' interleaving.
FlagsAgreeAtRest == Quiet => FlagsAgree

\* While requests are handled one at a time, the PTY has at rest the size its
\* owner asked for last, unless the owner inherited the size and has not used it
\* since (the exception MsgSetActive documents).
SizeFollowsOwnerWhenSerial ==
    Quiet /\ ~overlap /\ ~inherited =>
        \A c \in Conns : sizeOwner = c /\ remembered[c] # NoSize =>
            dims = remembered[c] /\ winsize = dims

\* The size never becomes free, and stays free at no hand-over, while another
\* connection watches: reassignOwnerAfter always finds the watcher.
NeverFreedUnderWatchers ==
    [][\A c \in Conns : HandsOver(c) /\ subs \ {c} # {} => sizeOwner' # NoConn]_vars
===============================================================================
