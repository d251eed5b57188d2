------------------------------ MODULE SizeLease ------------------------------
(* What the daemon promises about the size of a shared PTY: at most one        *)
(* connection holds it, a free size goes to the first that asks, and a held    *)
(* one changes hands only when another connection takes it explicitly or the   *)
(* holder gives it up, in which case a watcher inherits it if there is one.    *)
CONSTANTS Conns,    \* the client connections
          NoConn    \* "nobody holds the size"

VARIABLES owner,    \* the connection holding the size
          watchers, \* the connections that receive the session's output
          takers,   \* the connections whose explicit take-over is under way
          leavers   \* the connections whose release or departure is under way

leaseVars == <<owner, watchers, takers, leavers>>

LeaseInit == owner = NoConn /\ watchers = {} /\ takers = {} /\ leavers = {}

Watch(c) == watchers' = watchers \cup {c} /\ UNCHANGED <<owner, takers, leavers>>

Unwatch(c) == watchers' = watchers \ {c} /\ UNCHANGED <<owner, takers, leavers>>

Claim(c) == owner = NoConn /\ owner' = c /\ UNCHANGED <<watchers, takers, leavers>>

\* Taking over and stepping back show, so that a held size that changes hands does so
\* because its new holder took it or its old one let go of it, and in no other way.
Take(c) ==
    /\ c \notin takers
    /\ owner' = c
    /\ takers' = takers \cup {c}
    /\ UNCHANGED <<watchers, leavers>>

\* What c leaves behind when it steps back: the holder hands over to a watcher, and
\* so does anybody of a free size; a size that another connection holds stays with it.
Heir(c) ==
    IF owner \notin {c, NoConn} THEN {owner}
    ELSE IF watchers \subseteq {c} THEN {NoConn} ELSE watchers \ {c}

HandOver(c) ==
    /\ c \notin leavers
    /\ owner' \in Heir(c)
    /\ leavers' = leavers \cup {c}
    /\ UNCHANGED <<watchers, takers>>

Settle(c) ==
    /\ c \in takers \cup leavers
    /\ takers' = takers \ {c} /\ leavers' = leavers \ {c}
    /\ UNCHANGED <<owner, watchers>>

LeaseNext ==
    \E c \in Conns : Watch(c) \/ Unwatch(c) \/ Claim(c) \/ Take(c) \/ HandOver(c) \/ Settle(c)

LeaseSpec == LeaseInit /\ [][LeaseNext]_leaseVars
==============================================================================
