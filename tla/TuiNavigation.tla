----------------------------- MODULE TuiNavigation -----------------------------
(* The terminal client: a Bubble Tea program with an entry screen (the list of *)
(* sessions, over a control connection) and a session screen (one connection   *)
(* per visit). Update handles one message at a time; every command it returns  *)
(* runs in a goroutine of its own, so messages arrive in any order, however    *)
(* late: the counters below hold what is on its way. Of the daemon the model   *)
(* has what this program can tell: which sessions it registers, when an attach *)
(* is accepted and when its stream subscribes, how a session ends, and Active  *)
(* flags. Which flags it writes is left open: any, at any time, so all that    *)
(* holds here holds under every interleaving of its handlers (SizeOwnership    *)
(* says which flags they write, TypedInput that a claim precedes its key).     *)
EXTENDS Integers, Sequences

CONSTANTS MaxSids,     \* bound: sessions ever started, numbered from 1
          MaxViews,    \* bound: session screens ever opened, numbered from 1
          MaxKeys,     \* bound: keys that are pressed and do something
          MaxFlags,    \* bound: Active flags the daemon writes
          ActiveRoom   \* the depth of the client's active channel

ASSUME TuiAssumption ==
    /\ {MaxSids, MaxViews, MaxKeys, MaxFlags} \subseteq Nat
    /\ ActiveRoom \in Nat \ {0}

Sids  == 1 .. MaxSids
Views == 1 .. MaxViews
None  == 0    \* no session, no view

VARIABLES
    \* model and entryModel
    mode,         \* the screen shown, or "quit"
    sessions,     \* the sessions listed; the cursor may be on any of them
    confirmKill,  \* the session that the next d kills, or None
    \* model.session
    session,      \* the view shown, or None
    parked,       \* its frame is frozen: somebody else is said to own the size
    \* commands running and messages not yet handled
    polls,        \* poll timers
    attaches,     \* attachMsg, by session
    backs,        \* backToEntryMsg
    waiters,      \* waitForActive goroutines, by view whose channel they read
    endWaiter,    \* waitForStreamEnd: the view's goroutine and its message
    \* each view's client
    conn,         \* its connection
    sid,          \* the session it attached to
    activeCh,     \* the active channel, with the flag in a waiter's hand
    ended,        \* its output ended: the reader's done channel is closed
    \* the daemon
    running,      \* the sessions registered
    nextID,
    over,         \* the sessions whose subscribers were dropped: nobody gets a notice any more
    served,       \* how far the view's attach got
    \* bounds and history
    keys, flagsSent,
    hasty,        \* an attachMsg arrived while a session was shown
    astray,       \* an activeMsg was handled by another view than its own
    lost,         \* a flag found the active channel full
    told,         \* the last flag each view's client was sent; TRUE before any
    tookOver      \* a key took over since the view shown last handled a flag

screen   == <<mode, sessions, confirmKill, session>>
frame    == <<parked, tookOver>>
flags    == <<waiters, activeCh, astray, lost, told>>
visits   == <<endWaiter, conn, sid, ended>>
daemon   == <<running, nextID, over, served>>
vars == <<screen, frame, polls, attaches, backs, flags, visits, daemon, keys, flagsSent, hasty>>

TypeOK ==
    /\ mode \in {"entry", "session", "quit"}
    /\ sessions \subseteq Sids
    /\ confirmKill \in Sids \cup {None}
    /\ session \in Views \cup {None}
    /\ mode = "session" <=> session # None
    /\ parked \in BOOLEAN
    /\ polls \in Nat /\ backs \in Nat /\ keys \in Nat /\ flagsSent \in Nat
    /\ attaches \in [Sids -> Nat]
    /\ waiters \in [Views -> Nat]
    /\ endWaiter \in [Views -> {"none", "waiting", "returned"}]
    /\ conn \in [Views -> {"unused", "open", "closed"}]
    /\ sid \in [Views -> Sids \cup {None}]
    /\ activeCh \in [Views -> Seq(BOOLEAN)]
    /\ \A v \in Views : Len(activeCh[v]) <= ActiveRoom
    /\ ended \in [Views -> BOOLEAN]
    /\ running \subseteq Sids
    /\ nextID \in 1 .. MaxSids + 1
    /\ over \subseteq Sids
    /\ served \in [Views -> {"none", "asked", "refused", "accepted", "streaming", "owed", "late"}]
    /\ hasty \in BOOLEAN /\ astray \in BOOLEAN /\ lost \in BOOLEAN
    /\ told \in [Views -> BOOLEAN] /\ tookOver \in BOOLEAN

\* Run: the entry screen, its first list and its first timer, over a daemon that
\* may run sessions already.
Init ==
    /\ mode = "entry" /\ sessions = {} /\ confirmKill = None
    /\ session = None /\ parked = FALSE /\ tookOver = FALSE
    /\ polls = 1 /\ backs = 0
    /\ attaches = [s \in Sids |-> 0]
    /\ waiters = [v \in Views |-> 0]
    /\ endWaiter = [v \in Views |-> "none"]
    /\ conn = [v \in Views |-> "unused"]
    /\ sid = [v \in Views |-> None]
    /\ activeCh = [v \in Views |-> <<>>]
    /\ ended = [v \in Views |-> FALSE]
    /\ nextID \in 1 .. MaxSids + 1
    /\ running = 1 .. nextID - 1
    /\ over = {}
    /\ served = [v \in Views |-> "none"]
    /\ keys = 0 /\ flagsSent = 0
    /\ hasty = FALSE /\ astray = FALSE /\ lost = FALSE
    /\ told = [v \in Views |-> TRUE]

--------------------------------------------------------------------------------
(* The entry screen: entryModel.Update, and the commands it returns. Which row  *)
(* the cursor is on is left open: the list is in no order and moves under it.  *)

Press == keys < MaxKeys /\ keys' = keys + 1

EntryKey ==
    /\ mode = "entry"
    /\ Press
    /\ UNCHANGED <<session, frame, polls, backs, flags, visits, over, served, flagsSent, hasty>>

\* NewSessionCmd runs as a command, and so does the attachMsg that follows it: the
\* message is as late as both. (If it fails nothing follows.)
New ==
    /\ EntryKey
    /\ confirmKill = None
    /\ nextID \in Sids
    /\ running' = running \cup {nextID}
    /\ attaches' = [attaches EXCEPT ![nextID] = @ + 1]
    /\ nextID' = nextID + 1
    /\ UNCHANGED <<mode, sessions, confirmKill>>

Enter ==
    /\ EntryKey
    /\ confirmKill = None
    /\ \E s \in sessions : attaches' = [attaches EXCEPT ![s] = @ + 1]
    /\ UNCHANGED <<mode, sessions, confirmKill, running, nextID>>

AskKill ==
    /\ EntryKey
    /\ confirmKill = None
    /\ confirmKill' \in sessions
    /\ UNCHANGED <<mode, sessions, attaches, running, nextID>>

\* The session leaves the registry with the kill; its output ends later.
ConfirmKill ==
    /\ EntryKey
    /\ confirmKill # None
    /\ confirmKill' = None
    /\ running' = running \ {confirmKill}
    /\ UNCHANGED <<mode, sessions, attaches, nextID>>

CancelKill ==
    /\ EntryKey
    /\ confirmKill # None
    /\ confirmKill' = None
    /\ UNCHANGED <<mode, sessions, attaches, running, nextID>>

Quit ==
    /\ EntryKey
    /\ confirmKill = None
    /\ mode' = "quit"
    /\ UNCHANGED <<sessions, confirmKill, attaches, running, nextID>>

\* pollTickMsg: on the entry screen the timer is armed again and the list loaded;
\* the session screen drops it. The lists that r and newEntryModel load come at
\* the same moments as a tick's.
PollTick ==
    /\ mode # "quit"
    /\ polls > 0
    /\ IF mode = "entry"
         THEN sessions' = running /\ UNCHANGED polls
         ELSE polls' = polls - 1 /\ UNCHANGED sessions
    /\ UNCHANGED <<mode, confirmKill, session, frame, attaches, backs, flags, visits,
                   daemon, keys, flagsSent, hasty>>

--------------------------------------------------------------------------------
(* Changing screens: model.Update.                                             *)

\* Mutated: the view left stays in the model.
FreshEntryKeepsView ==
    /\ mode' = "entry"
    /\ UNCHANGED session
    /\ sessions' = {}
    /\ confirmKill' = None
    /\ polls' = polls + 1

\* newEntryModel and its Init: an empty list and a timer.
FreshEntry ==
    /\ mode' = "entry"
    /\ session' = None
    /\ sessions' = {}
    /\ confirmKill' = None
    /\ polls' = polls + 1

\* Mutated: the view is dropped without closing it.
CloseNot(v) == UNCHANGED <<conn, ended>>

\* sessionModel.Close: the connection, and with it the client's read loop; the
\* reader is stopped.
Close(v) ==
    IF v = None THEN UNCHANGED <<conn, ended>>
    ELSE /\ conn' = [conn EXCEPT ![v] = "closed"]
         /\ ended' = [ended EXCEPT ![v] = TRUE]

\* Mutated: nobody waits for the end of the view's output.
EndWaitNone == "none"

\* The waitForStreamEnd that Init returns as a command.
EndWait == "waiting"

\* attachMsg: a new connection and view, newSessionModel and its Init, whatever
\* screen is shown. (That Init claims the size too.)
Attach(s) ==
    /\ mode # "quit"
    /\ attaches[s] > 0
    /\ attaches' = [attaches EXCEPT ![s] = @ - 1]
    /\ \E v \in Views :
         /\ conn[v] = "unused" /\ \A w \in Views : w < v => conn[w] # "unused"
         /\ conn' = [conn EXCEPT ![v] = "open"]
         /\ sid' = [sid EXCEPT ![v] = s]
         /\ served' = [served EXCEPT ![v] = "asked"]
         /\ waiters' = [waiters EXCEPT ![v] = 1]
         /\ endWaiter' = [endWaiter EXCEPT ![v] = EndWait]
         /\ session' = v
    /\ mode' = "session"
    /\ parked' = FALSE /\ tookOver' = FALSE
    /\ hasty' = (hasty \/ mode = "session")
    /\ UNCHANGED <<sessions, confirmKill, polls, backs, activeCh, astray, lost, told,
                   ended, running, nextID, over, keys, flagsSent>>

\* attachMsg when the daemon cannot be dialled.
AttachFails(s) ==
    /\ mode # "quit"
    /\ attaches[s] > 0
    /\ attaches' = [attaches EXCEPT ![s] = @ - 1]
    /\ UNCHANGED <<screen, frame, polls, backs, flags, visits, daemon, keys, flagsSent, hasty>>

\* ctrl+t: the message that leaves the session is a command like any other.
DetachKey ==
    /\ mode = "session"
    /\ Press
    /\ backs' = backs + 1
    /\ UNCHANGED <<screen, frame, polls, attaches, flags, visits, daemon, flagsSent, hasty>>

BackToEntry ==
    /\ mode # "quit"
    /\ backs > 0
    /\ backs' = backs - 1
    /\ Close(session)
    /\ FreshEntry
    /\ UNCHANGED <<frame, attaches, flags, endWaiter, sid, daemon, keys, flagsSent, hasty>>

\* streamEndedMsg says nothing of the view it comes from.
StreamEnded(v) ==
    /\ mode # "quit"
    /\ ended[v]
    /\ endWaiter[v] = "waiting"
    /\ endWaiter' = [endWaiter EXCEPT ![v] = "returned"]
    /\ IF mode = "session"
         THEN Close(session) /\ FreshEntry
         ELSE UNCHANGED <<screen, polls, conn, ended>>
    /\ UNCHANGED <<frame, attaches, backs, flags, sid, daemon, keys, flagsSent, hasty>>

--------------------------------------------------------------------------------
(* Parking: the session screen follows the Active flags.                       *)

\* Any other key while parked; the claim and the key go through inputCh. (Not
\* parked, it is only passed on.)
TakeOverKey ==
    /\ mode = "session"
    /\ parked
    /\ Press
    /\ parked' = FALSE /\ tookOver' = TRUE
    /\ UNCHANGED <<screen, polls, attaches, backs, flags, visits, daemon, flagsSent, hasty>>

\* Mutated: only a flag that parks the view is followed by another wait.
RearmedIfParked(v, f) ==
    [w \in Views |-> waiters[w] + (IF w = session /\ ~f THEN 1 ELSE 0) - (IF w = v THEN 1 ELSE 0)]

\* The waiter of v returned; whatever the flag, another one waits for the view shown.
Rearmed(v, f) ==
    [w \in Views |-> waiters[w] + (IF w = session THEN 1 ELSE 0) - (IF w = v THEN 1 ELSE 0)]

\* Mutated: only a key unfreezes the view.
FrozenForGood(f) == parked \/ ~f

\* The view is parked by the flag that says another client owns the size, and
\* unfrozen by the one that says it owns it again.
FrozenBy(f) == ~f

\* waitForActive takes the next flag of its channel and reports it, in time or
\* after its view is gone. On the entry screen an activeMsg is ignored; the
\* session screen takes it for its own. (Two waiters of one view, which only a
\* flag gone astray leaves behind, could swap theirs.)
FlagHeard(v) ==
    /\ mode # "quit"
    /\ waiters[v] > 0
    /\ activeCh[v] # <<>>
    /\ activeCh' = [activeCh EXCEPT ![v] = Tail(@)]
    /\ IF mode = "session"
         THEN /\ parked' = FrozenBy(Head(activeCh[v])) /\ tookOver' = FALSE
              /\ waiters' = Rearmed(v, Head(activeCh[v]))
              /\ astray' = (astray \/ v # session)
         ELSE /\ waiters' = [waiters EXCEPT ![v] = @ - 1]
              /\ UNCHANGED <<frame, astray>>
    /\ UNCHANGED <<screen, polls, attaches, backs, lost, told, visits, daemon, keys, flagsSent, hasty>>

\* The channel is closed and empty: the waiter returns without a message.
WaiterEnds(v) ==
    /\ mode # "quit"
    /\ waiters[v] > 0
    /\ ended[v] /\ activeCh[v] = <<>>
    /\ waiters' = [waiters EXCEPT ![v] = @ - 1]
    /\ UNCHANGED <<screen, frame, polls, attaches, backs, activeCh, astray, lost, told,
                   visits, daemon, keys, flagsSent, hasty>>

--------------------------------------------------------------------------------
(* The daemon, as far as this program can tell, and the read loop of its client. *)

\* Whether the read loop of v's client is there to take a frame.
Listens(v) == conn[v] = "open" /\ ~ended[v]

\* After a quit nothing is left to be seen.
DaemonStep ==
    /\ mode # "quit"
    /\ UNCHANGED <<screen, frame, polls, attaches, backs, waiters, astray,
                   endWaiter, conn, sid, nextID, keys, hasty>>

\* MsgAttach: a registered session is found, and the goroutine that will stream it
\* started. An unknown one is answered with an error that the client's read loop
\* drops.
Serve(v) ==
    /\ DaemonStep
    /\ served[v] = "asked"
    /\ served' = [served EXCEPT ![v] = IF sid[v] \in running THEN "accepted" ELSE "refused"]
    /\ UNCHANGED <<activeCh, lost, told, ended, running, over, flagsSent>>

\* That goroutine subscribes, or finds that the session has ended: then it returns,
\* and nothing says so to the client.
Subscribe(v) ==
    /\ DaemonStep
    /\ served[v] = "accepted"
    /\ served' = [served EXCEPT ![v] = IF sid[v] \in over THEN "late" ELSE "streaming"]
    /\ UNCHANGED <<activeCh, lost, told, ended, running, over, flagsSent>>

\* An Active flag is written to the view and read by Client.Attach, which hands it
\* on without ever waiting for room. Before its stream subscribed a newcomer hears
\* at most that the size is another's (the unicast of MsgAttach); a broadcast goes
\* to those who were subscribed when it looked.
Tell(v, f) ==
    /\ DaemonStep
    /\ flagsSent < MaxFlags
    /\ flagsSent' = flagsSent + 1
    /\ Listens(v)
    /\ \/ served[v] \in {"streaming", "owed"}
       \/ served[v] \in {"accepted", "late"} /\ ~f
    /\ told' = [told EXCEPT ![v] = f]
    /\ IF Len(activeCh[v]) < ActiveRoom
         THEN activeCh' = [activeCh EXCEPT ![v] = Append(@, f)] /\ UNCHANGED lost
         ELSE lost' = TRUE /\ UNCHANGED activeCh
    /\ UNCHANGED <<ended, running, over, served>>

\* The session's process is gone: under its mutex the session is marked and its
\* subscribers taken, who are owed a notice.
SessionEnds(s) ==
    /\ DaemonStep
    /\ s < nextID /\ s \notin over
    /\ over' = over \cup {s}
    /\ served' = [v \in Views |->
         IF served[v] = "streaming" /\ sid[v] = s THEN "owed" ELSE served[v]]
    /\ UNCHANGED <<activeCh, lost, told, ended, running, flagsSent>>

\* ... and it leaves the registry after that.
Unregister(s) ==
    /\ DaemonStep
    /\ s \in over \cap running
    /\ running' = running \ {s}
    /\ UNCHANGED <<activeCh, lost, told, ended, over, served, flagsSent>>

\* The notice of the end makes the client's read loop return, and the emulator
\* reads to the end of the output (chanReader.Read).
StreamEnds(v) ==
    /\ DaemonStep
    /\ served[v] = "owed"
    /\ Listens(v)
    /\ ended' = [ended EXCEPT ![v] = TRUE]
    /\ UNCHANGED <<activeCh, lost, told, running, over, served, flagsSent>>

--------------------------------------------------------------------------------

Next ==
    \/ New \/ Enter \/ AskKill \/ ConfirmKill \/ CancelKill \/ Quit \/ PollTick
    \/ DetachKey \/ TakeOverKey \/ BackToEntry
    \/ \E s \in Sids : Attach(s) \/ AttachFails(s) \/ SessionEnds(s) \/ Unregister(s)
    \/ \E v \in Views : \/ StreamEnded(v) \/ FlagHeard(v) \/ WaiterEnds(v)
                        \/ Serve(v) \/ Subscribe(v) \/ StreamEnds(v)
                        \/ \E f \in BOOLEAN : Tell(v, f)

\* The emulator and the goroutine that waits for the end of a view's output run,
\* and Update handles what the latter sends. Nothing is assumed of the user, the
\* other clients or the daemon.
Fairness == \A v \in Views : WF_vars(StreamEnded(v))

Spec == Init /\ [][Next]_vars /\ Fairness

--------------------------------------------------------------------------------

\* The entry screen never stops refreshing: some poll timer is armed whenever it
\* is shown, although timers that fire on the session screen are not re-armed
\* (entryModel.Init, pollTickMsg).
PollArmed == mode = "entry" => polls > 0

\* The session screen never goes deaf to changes of the owner: a goroutine waits
\* for the next flag of its own channel while there can be one, whichever flags
\* came from which view (sessionModel.Init, activeMsg).
StaysListening == mode = "session" /\ ~ended[session] => waiters[session] > 0

\* A visit's connection is closed when it ends, unless an attachMsg came while a
\* session was shown: detach is implicit on disconnect, so a view that is left
\* open would keep the PTY at this terminal's size (sessionModel.Close).
OneConnection ==
    ~hasty => \A v \in Views : conn[v] = "open" => v = session

\* Whatever flags the daemon sends and however many visits were made before, the
\* view shown ends up frozen exactly as the last flag sent to it says, unless a key
\* took over since it handled that one, a flag found the channel full, or one was
\* handled by another view (sessionModel.parked, activeMsg, handleKey's take-over).
\* Whether that flag is right is the daemon's business (SizeOwnership).
FrameFollowsFlags ==
    mode = "session" /\ activeCh[session] = <<>> /\ ~astray /\ ~lost =>
        parked = (~told[session] /\ ~tookOver)

\* A session whose output ended is not left on the screen, whatever messages of
\* earlier visits are on their way (waitForStreamEnd, streamEndedMsg).
EndedViewIsLeft ==
    \A v \in Views : ended[v] /\ session = v ~> session # v

\* "If we're still in session mode, the session process exited (or the conn
\* dropped)": a streamEndedMsg ends the visit only of a session whose output
\* ended (model.Update).
LeftOnlyWhenEnded ==
    [][\A v \in Views :
         endWaiter[v] # endWaiter'[v] /\ mode = "session" /\ mode' = "entry" => ended[session]]_vars
================================================================================
